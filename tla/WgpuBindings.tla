---------------------------- MODULE WgpuBindings ----------------------------
(***************************************************************************)
(* wgpu_bindings.c: the WebGPU imports of a guest, with the two host parts *)
(* that reach into the same tables: webapp_runtime_set_viewport, which     *)
(* replaces the texture a guest draws into, and media_bindings.c, which    *)
(* lists the frames it decodes as textures and views.                      *)
(***************************************************************************)
EXTENDS HostObjects

VARIABLES frame,      \* the current surface texture and view: handles and objects
          canvas,     \* the dashboard's texture and view for this guest, 0: none
          offscreen,  \* draw into canvas, not into the window
          media,      \* one media context: its objects and the handles it remembers
          \* history
          outdated,   \* objects of a canvas that was replaced while frame named it
          trespass    \* the guest gave up a handle the media context remembers

gpuVars == <<frame, canvas, offscreen, media, outdated, trespass>>

GpuKinds == <<"buffer", "texture", "view", "sampler", "shader", "bgl", "bind_group",
              "pipeline_layout", "render_pipeline", "compute_pipeline", "encoder",
              "render_pass", "compute_pass", "command_buffer", "query_set">>

NoFrame == [th |-> 0, vh |-> 0, tex |-> 0, view |-> 0]
NoCanvas == [tex |-> 0, view |-> 0]
NoMedia == [kind |-> "none", th |-> 0, vh |-> 0, tex |-> 0, view |-> 0]

----------------------------------------------------------------------------
(* The imported functions, section by section.  SPIR-V shaders are refused *)
(* before anything else happens and have no row.                           *)

ShaderCalls == {
    Makes({"create_shader_wgsl"}, <<>>, "shader"),
    Drops({"shader_release"}, "shader")}

\* map_sync runs the event loop until the map callback has been called
BufferCalls == {
    Makes({"create_buffer"}, <<>>, "buffer"),
    Uses({"buffer_write", "buffer_get_size", "buffer_map_sync", "buffer_get_mapped_range",
          "buffer_unmap"}, <<"buffer">>),
    Drops({"buffer_destroy"}, "buffer")}

TextureCalls == {
    Makes({"create_texture"}, <<>>, "texture"),
    Makes({"create_texture_view"}, <<"texture">>, "view"),
    Uses({"queue_write_texture"}, <<"texture">>),
    Drops({"texture_destroy", "texture_release"}, "texture"),
    Drops({"texture_view_release"}, "view")}

SamplerCalls == {
    Makes({"create_sampler"}, <<>>, "sampler"),
    Drops({"sampler_release"}, "sampler")}

BindGroupCalls == {
    Makes({"create_bind_group_layout"}, <<>>, "bgl"),
    Drops({"bind_group_layout_release"}, "bgl"),
    Row({"create_bind_group"}, <<"bgl">>, <<"buffer", "view", "sampler">>, {}, "bind_group"),
    Drops({"bind_group_release"}, "bind_group")}

PipelineLayoutCalls == {
    Makes({"create_empty_pipeline_layout"}, <<>>, "pipeline_layout"),
    Row({"create_pipeline_layout"}, <<>>, <<"bgl">>, {}, "pipeline_layout"),
    Drops({"pipeline_layout_release"}, "pipeline_layout")}

\* the descriptor form needs no fragment shader
RenderPipelineCalls == {
    Row({"create_render_pipeline"}, <<"shader", "shader">>, <<"pipeline_layout">>, {}, "render_pipeline"),
    Row({"create_render_pipeline_desc"}, <<"shader">>, <<"shader", "pipeline_layout">>, {}, "render_pipeline"),
    Drops({"render_pipeline_release"}, "render_pipeline"),
    Makes({"render_pipeline_get_bind_group_layout"}, <<"render_pipeline">>, "bgl")}

ComputePipelineCalls == {
    Row({"create_compute_pipeline"}, <<"shader">>, <<"pipeline_layout">>, {}, "compute_pipeline"),
    Drops({"compute_pipeline_release"}, "compute_pipeline"),
    Makes({"compute_pipeline_get_bind_group_layout"}, <<"compute_pipeline">>, "bgl")}

\* finish turns the encoder into a command buffer
EncoderCalls == {
    Makes({"create_command_encoder"}, <<>>, "encoder"),
    Row({"encoder_finish"}, <<"encoder">>, <<>>, {1}, "command_buffer"),
    Uses({"encoder_copy_buffer_to_buffer"}, <<"encoder", "buffer", "buffer">>),
    Uses({"encoder_copy_buffer_to_texture", "encoder_copy_texture_to_buffer"},
         <<"encoder", "buffer", "texture">>),
    Uses({"encoder_copy_texture_to_texture"}, <<"encoder", "texture", "texture">>),
    Uses({"encoder_clear_buffer"}, <<"encoder", "buffer">>)}

RenderPassCalls == {
    Makes({"begin_render_pass"}, <<"encoder", "view">>, "render_pass"),
    Row({"begin_render_pass_desc"}, <<"encoder">>, <<"view", "view", "query_set">>, {}, "render_pass"),
    Uses({"pass_set_pipeline"}, <<"render_pass", "render_pipeline">>),
    Uses({"pass_set_vertex_buffer", "pass_set_index_buffer", "pass_draw_indirect",
          "pass_draw_indexed_indirect"}, <<"render_pass", "buffer">>),
    Uses({"pass_set_bind_group"}, <<"render_pass", "bind_group">>),
    Uses({"pass_draw", "pass_draw_indexed", "pass_set_viewport", "pass_set_scissor_rect",
          "pass_set_stencil_reference", "pass_set_blend_constant",
          "pass_begin_occlusion_query", "pass_end_occlusion_query"}, <<"render_pass">>),
    Drops({"pass_end"}, "render_pass")}

ComputePassCalls == {
    Makes({"begin_compute_pass"}, <<"encoder">>, "compute_pass"),
    Uses({"compute_pass_set_pipeline"}, <<"compute_pass", "compute_pipeline">>),
    Uses({"compute_pass_set_bind_group"}, <<"compute_pass", "bind_group">>),
    Uses({"compute_pass_dispatch"}, <<"compute_pass">>),
    Uses({"compute_pass_dispatch_indirect"}, <<"compute_pass", "buffer">>),
    Drops({"compute_pass_end"}, "compute_pass")}

SubmitCalls == {Drops({"queue_submit"}, "command_buffer")}

QueryCalls == {
    Makes({"create_query_set"}, <<>>, "query_set"),
    Drops({"query_set_destroy"}, "query_set"),
    Uses({"encoder_resolve_query_set"}, <<"encoder", "query_set", "buffer">>)}

WgpuCalls == UNION {ShaderCalls, BufferCalls, TextureCalls, SamplerCalls, BindGroupCalls,
                    PipelineLayoutCalls, RenderPipelineCalls, ComputePipelineCalls,
                    EncoderCalls, RenderPassCalls, ComputePassCalls, SubmitCalls, QueryCalls}

\* the current frame's handles, which release and destroy ignore
FrameKept == {<<"texture", frame.th>>, <<"view", frame.vh>>}

MediaHandles == {<<"texture", media.th>>, <<"view", media.vh>>}
Listed(k, h) == h # 0 /\ HtGet(tab[k], h) # 0

GuestUse == \E c \in Offered(WgpuCalls) : UseCall(c) /\ UNCHANGED gpuVars
GuestChange ==
    \E c \in Offered(WgpuCalls) :
        /\ ChangeCall(c, FrameKept)
        /\ trespass' = (trespass \/ \E p \in MediaHandles : Listed(p[1], p[2]) /\ HtGet(tab'[p[1]], p[2]) = 0)
        /\ UNCHANGED <<frame, canvas, offscreen, media, outdated>>

----------------------------------------------------------------------------
(* The surface.                                                            *)

\* a handle field is removed from its table when it is not 0
Forget(s, k, h) == IF h = 0 THEN s ELSE Unlist(s, k, h)

\* off screen the objects belong to the dashboard and only the handles go
FrameReleased(s) ==
    IF offscreen THEN Forget(Forget(s, "view", frame.vh), "texture", frame.th)
    ELSE Forget(Release(Forget(Release(s, frame.view), "view", frame.vh), frame.tex), "texture", frame.th)

ShowFrame(s, t, v) ==
    /\ Become(List(List(s, "texture", t), "view", v))
    /\ frame' = [th |-> Handle(s, "texture"), vh |-> Handle(s, "view"), tex |-> t, view |-> v]

\* the canvas, or a new texture of the window, which the window may refuse
SurfaceGetView ==
    /\ Spend
    /\ LET s == FrameReleased(Present)
           n == Create(Create(s))
       IN  IF offscreen /\ canvas.tex # 0
           THEN ShowFrame(s, canvas.tex, canvas.view)
           ELSE \/ ShowFrame(n, Newest(s) + 1, Newest(n))
                \/ Become(s) /\ frame' = NoFrame
    /\ UNCHANGED <<lib, canvas, offscreen, media, outdated, trespass>>

\* A mutant: the frame handles are kept for the next frame
KeptFrame == [frame EXCEPT !.tex = 0, !.view = 0]
AfterFrame == NoFrame

SurfacePresent ==
    /\ Spend
    /\ Become(FrameReleased(Present))
    /\ frame' = AfterFrame
    /\ UNCHANGED <<lib, canvas, offscreen, media, outdated, trespass>>

\* the dashboard gives the guest another size: the old canvas is destroyed, a
\* new one made (or not), and the bindings are pointed at it; the frame the
\* guest holds is not told
SetViewport ==
    /\ Spend
    /\ LET s == Release(Release(Present, canvas.view), canvas.tex)
           n == Create(Create(s))
       IN  \/ Become(n) /\ canvas' = [tex |-> Newest(s) + 1, view |-> Newest(n)]
           \/ Become(s) /\ canvas' = NoCanvas
    /\ offscreen' = TRUE
    /\ outdated' = outdated \cup (({frame.tex, frame.view} \cap {canvas.tex, canvas.view}) \ {0})
    /\ UNCHANGED <<lib, frame, media, trespass>>

----------------------------------------------------------------------------
(* Media frames in the same tables.                                        *)

\* an image is uploaded when it is opened and listed as a view; a video gets
\* its texture with its first frame
MediaOpen(kind) ==
    /\ media.kind = "none"
    /\ Spend
    /\ LET n == Create(Create(Present))
           t == Newest(Present) + 1
       IN  IF kind = "video"
           THEN UNCHANGED <<tab, refs, misused>> /\ media' = [NoMedia EXCEPT !.kind = kind]
           ELSE /\ Become(List(n, "view", t + 1))
                /\ media' = [kind |-> kind, th |-> 0, vh |-> Handle(n, "view"), tex |-> t, view |-> t + 1]
    /\ UNCHANGED <<lib, frame, canvas, offscreen, outdated, trespass>>

\* release_current_video_frame
VideoReleased(s) == Forget(Forget(s, "view", media.vh), "texture", media.th)

\* decode_next: the previous frame goes first, and at the end nothing follows;
\* a frame is written into the context's one texture and listed
MediaDecodeNext ==
    /\ media.kind = "video"
    /\ Spend
    /\ LET s == VideoReleased(Present)
           n == IF media.tex = 0 THEN Create(Create(s)) ELSE Pass(s, {media.tex})
           t == IF media.tex = 0 THEN Newest(s) + 1 ELSE media.tex
           v == IF media.tex = 0 THEN Newest(s) + 2 ELSE media.view
       IN  \/ /\ Become(List(List(n, "texture", t), "view", v))
              /\ media' = [kind |-> "video", th |-> Handle(n, "texture"), vh |-> Handle(n, "view"),
                           tex |-> t, view |-> v]
           \/ Become(s) /\ media' = [media EXCEPT !.th = 0, !.vh = 0]
    /\ UNCHANGED <<lib, frame, canvas, offscreen, outdated, trespass>>

MediaClose ==
    /\ media.kind # "none"
    /\ Spend
    /\ Become(Release(Release(VideoReleased(Present), media.view), media.tex))
    /\ media' = NoMedia
    /\ UNCHANGED <<lib, frame, canvas, offscreen, outdated, trespass>>

----------------------------------------------------------------------------
GpuParked ==
    /\ frame = NoFrame /\ canvas = NoCanvas /\ offscreen = FALSE
    /\ media = NoMedia /\ outdated = {} /\ trespass = FALSE

WgpuInit ==
    /\ \/ ObjectsInit("wgpu", GpuKinds, MaxCalls)
       \/ ObjectsInit("wgpu", <<"texture", "view">>, DeepCalls)
    /\ GpuParked

WgpuNext == \/ GuestUse \/ GuestChange \/ SurfaceGetView \/ SurfacePresent \/ SetViewport
            \/ MediaOpen("image") \/ MediaOpen("video") \/ MediaDecodeNext \/ MediaClose

----------------------------------------------------------------------------
(* Properties.                                                             *)

\* The tables shared by the guest, the surface and the media context stay
\* exact whatever the order of their calls: a free list with a double entry
\* would give one handle to two objects.  The one way to break them is a guest
\* that releases a texture or view media_texture(_view) only lent to it.
GpuTablesExact == lib = "wgpu" /\ ~trespass => \A k \in DOMAIN tab : HtExact(tab[k])

\* No handle resolves to a freed object and none reaches Dawn, but for the
\* frame of a canvas set_viewport replaced while the guest still held it.
GpuSeesTheLiving ==
    lib = "wgpu" /\ ~trespass =>
        /\ misused \subseteq outdated
        /\ \A k \in DOMAIN tab : \A h \in HtUsed(tab[k]) :
             refs[tab[k].slots[h]] = 0 => tab[k].slots[h] \in outdated

\* Whatever a guest does with the handles it is given, the texture the
\* dashboard composites from is not freed: texture_release, texture_destroy
\* and present leave the current frame alone when it is the canvas.
CanvasSurvives ==
    lib = "wgpu" /\ canvas.tex # 0 => refs[canvas.tex] = 1 /\ refs[canvas.view] = 1

\* A handle in use goes on naming the same object until its owner gives it up:
\* no insertion, growth or frame of another party takes it over.  Only the
\* frame's own handles name the next frame after get_view.
GpuHandlesKeepMeaning ==
    [][lib = "wgpu" /\ ~trespass =>
         \A k \in DOMAIN tab : \A h \in HtUsed(tab[k]) :
            \/ HtGet(tab'[k], h) \in {0, tab[k].slots[h]}
            \/ <<k, h>> \in FrameKept]_<<objVars, gpuVars>>

\* Guest, surface and media share the GPU tables: handles keep their meaning, nothing freed
\* is used, and the dashboard's canvas outlives what a guest releases.
GpuSound == [](GpuTablesExact /\ GpuSeesTheLiving /\ CanvasSurvives) /\ GpuHandlesKeepMeaning
=============================================================================
