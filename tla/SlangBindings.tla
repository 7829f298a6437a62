---------------------------- MODULE SlangBindings ----------------------------
(***************************************************************************)
(* slang_bindings.cpp: the shader compiler's imports.  Slang counts        *)
(* references; a module that load_module returns is the session's, every   *)
(* other result comes with a reference of its own, and a reflection object *)
(* is a pointer into the component it describes.  (This is how the calls   *)
(* in the code treat Slang, which is external.)                            *)
(*                                                                         *)
(* Reflection handles of every type share one table and are not checked:   *)
(* the model has the guests that pass each function the type it expects.   *)
(***************************************************************************)
EXTENDS HostObjects

VARIABLES meta,       \* of each object: kind, the object it lives in, and the
                      \* references the guest was given by contract
          careless,   \* history: the guest broke the contract
          closed      \* the bindings are destroyed

slangVars == <<meta, careless, closed>>

SlangKinds == <<"global_session", "session", "component", "blob", "reflection", "shader">>

----------------------------------------------------------------------------
(* Calls by section.  Those of DiagCalls also return a diagnostics blob.   *)

GlobalSessionCalls == {
    Makes({"create_global_session"}, <<>>, "global_session"),
    Uses({"gs_find_profile"}, <<"global_session">>),
    Makes({"gs_create_session"}, <<"global_session">>, "session")}

\* every part of a composite must resolve; two stand for up to 64
CompositeCall == Makes({"session_create_composite"}, <<"session", "component", "component">>, "component")
SessionCalls == {CompositeCall, Uses({"session_get_loaded_module_count"}, <<"session">>)}

LayoutCall == Makes({"component_get_layout"}, <<"component">>, "reflection")
CodeCall == Makes({"component_get_entry_point_code", "component_get_target_code"}, <<"component">>, "blob")
LinkCall == Makes({"component_link"}, <<"component">>, "component")
ComponentCalls == {LayoutCall, CodeCall, LinkCall,
    Uses({"component_get_specialization_param_count"}, <<"component">>)}

CheckEntryCall == Makes({"module_find_and_check_entry_point"}, <<"component">>, "component")
DeclCall == Makes({"module_get_module_reflection"}, <<"component">>, "reflection")
ModuleCalls == {CheckEntryCall, DeclCall,
    Makes({"module_find_entry_point", "module_get_defined_entry_point"}, <<"component">>, "component"),
    Uses({"module_get_defined_entry_point_count", "module_get_name", "module_get_file_path"}, <<"component">>)}

BlobCalls == {
    Uses({"blob_get_size", "blob_read"}, <<"blob">>),
    Makes({"create_shader_module_from_blob"}, <<"blob">>, "shader")}

JsonCall == Makes({"refl_to_json"}, <<"reflection">>, "blob")

DiagCalls == {CompositeCall, LayoutCall, CodeCall, LinkCall, CheckEntryCall}
SlangCalls == UNION {GlobalSessionCalls, SessionCalls, ComponentCalls, ModuleCalls, BlobCalls, {JsonCall}}

\* reflection: from one type of object to another, or to a plain value
Walk(fns, from, to) == [fns |-> fns, from |-> from, to |-> to]

LayoutWalks == {
    Walk({"get_parameter_by_index", "get_global_params_var_layout"}, "layout", "var_layout"),
    Walk({"get_entry_point_by_index", "find_entry_point_by_name"}, "layout", "entry_point"),
    Walk({"find_type_by_name"}, "layout", "type"),
    Walk({"get_type_layout", "get_global_params_type_layout"}, "layout", "type_layout"),
    Walk({"find_function_by_name"}, "layout", "function"),
    Walk({"get_parameter_count", "get_entry_point_count", "get_global_constant_buffer_binding",
          "get_global_constant_buffer_size", "get_hashed_string_count", "is_sub_type"}, "layout", "none")}

TypeWalks == {
    Walk({"get_field_by_index"}, "type", "variable"),
    Walk({"get_element_type", "get_resource_result_type"}, "type", "type"),
    Walk({"get_user_attribute"}, "type", "attribute"),
    Walk({"get_generic_container"}, "type", "generic"),
    Walk({"get_kind", "get_field_count", "get_element_count", "get_row_count", "get_column_count",
          "get_scalar_type", "get_resource_shape", "get_resource_access", "get_name",
          "get_user_attribute_count"}, "type", "none")}

TypeLayoutWalks == {
    Walk({"get_type"}, "type_layout", "type"),
    Walk({"get_field_by_index", "get_element_var_layout", "get_container_var_layout"}, "type_layout", "var_layout"),
    Walk({"get_element_type_layout", "get_binding_range_leaf_type_layout"}, "type_layout", "type_layout"),
    Walk({"get_binding_range_leaf_variable"}, "type_layout", "variable"),
    Walk({"get_kind", "get_size", "get_stride", "get_alignment", "get_field_count",
          "find_field_index_by_name", "get_element_stride", "get_parameter_category",
          "get_category_count", "get_category_by_index", "get_binding_range_count ..",
          "get_descriptor_set_count ..", "get_sub_object_range_count ..",
          "get_matrix_layout_mode"}, "type_layout", "none")}

VariableWalks == {
    Walk({"get_type"}, "variable", "type"),
    Walk({"get_user_attribute"}, "variable", "attribute"),
    Walk({"get_name", "has_default_value", "get_user_attribute_count"}, "variable", "none")}

VarLayoutWalks == {
    Walk({"get_variable"}, "var_layout", "variable"),
    Walk({"get_type_layout"}, "var_layout", "type_layout"),
    Walk({"get_offset", "get_binding_index", "get_binding_space", "get_space", "get_semantic_name",
          "get_semantic_index", "get_stage"}, "var_layout", "none")}

EntryPointWalks == {
    Walk({"get_parameter_by_index", "get_result_var_layout"}, "entry_point", "var_layout"),
    Walk({"get_function"}, "entry_point", "function"),
    Walk({"get_name", "get_name_override", "get_stage", "get_parameter_count",
          "get_compute_thread_group_size", "get_compute_wave_size", "uses_any_sample_rate_input",
          "has_default_constant_buffer"}, "entry_point", "none")}

FunctionWalks == {
    Walk({"get_result_type"}, "function", "type"),
    Walk({"get_parameter"}, "function", "variable"),
    Walk({"get_user_attribute"}, "function", "attribute"),
    Walk({"get_overload"}, "function", "function"),
    Walk({"get_generic_container"}, "function", "generic"),
    Walk({"get_name", "get_parameter_count", "get_user_attribute_count", "is_overloaded",
          "get_overload_count"}, "function", "none")}

GenericWalks == {
    Walk({"as_decl", "get_inner_decl"}, "generic", "decl"),
    Walk({"get_type_parameter", "get_value_parameter"}, "generic", "variable"),
    Walk({"get_type_param_constraint_type"}, "generic", "type"),
    Walk({"get_outer_generic_container"}, "generic", "generic"),
    Walk({"get_name", "get_type_parameter_count", "get_value_parameter_count",
          "get_type_param_constraint_count", "get_inner_kind"}, "generic", "none")}

DeclWalks == {
    Walk({"get_child", "get_parent"}, "decl", "decl"),
    Walk({"get_type"}, "decl", "type"),
    Walk({"cast_to_variable"}, "decl", "variable"),
    Walk({"cast_to_function"}, "decl", "function"),
    Walk({"cast_to_generic"}, "decl", "generic"),
    Walk({"get_name", "get_kind", "get_children_count"}, "decl", "none")}

AttributeWalks == {
    Walk({"get_argument_type"}, "attribute", "type"),
    Walk({"get_name", "get_argument_count", "get_argument_value_int", "get_argument_value_float",
          "get_argument_value_string"}, "attribute", "none")}

Walks == UNION {LayoutWalks, TypeWalks, TypeLayoutWalks, VariableWalks, VarLayoutWalks,
                EntryPointWalks, FunctionWalks, GenericWalks, DeclWalks, AttributeWalks}

----------------------------------------------------------------------------
(* Effects.                                                                *)

SlPresent == [tab |-> tab, refs |-> refs, misused |-> misused, meta |-> meta]
SlBecome(s) == Become(s) /\ meta' = s.meta

\* a new object of kind k in table t, living in w, n references of which are
\* the guest's
SlMake(s, t, k, w, n) ==
    LET c == Create(s)
    IN  [List(c, t, Newest(c)) EXCEPT !.meta = Append(@, [kind |-> k, within |-> w, mine |-> n])]

\* sb_write_diag_blob: a blob the guest has no place for is released at once,
\* and nothing remains of it
WithDiag(s, kept) == IF kept THEN SlMake(s, "blob", "blob", 0, 1) ELSE s

\* when an object is freed, what lives in it loses the reference that kept it
Cascade(s) ==
    FoldLeft(LAMBDA x, i :
                 IF x.meta[i].within # 0 /\ x.refs[x.meta[i].within] = 0
                 THEN [Release(x, i) EXCEPT !.meta[i].within = 0] ELSE x,
             s, [i \in 1 .. Len(s.refs) |-> i])

\* kind and home of the object a row makes
MadeKind(c) == CASE c = LayoutCall -> "layout" [] c = DeclCall -> "decl" [] OTHER -> c.makes
Home(c, a) == IF c.makes = "reflection" THEN HtGet(tab["component"], a[1]) ELSE 0

SlUse == \E c \in SlangCalls : UseCall(c) /\ UNCHANGED slangVars

SlMakeCall ==
    /\ Spend
    /\ \E c \in {r \in SlangCalls : r.makes # "none"} : \E a \in ArgsFor(c.needs), ok, diag \in BOOLEAN :
         /\ diag => c \in DiagCalls
         /\ c = JsonCall => meta[HtGet(tab["reflection"], a[1])].kind = "layout"
         /\ LET s == WithDiag(Pass(SlPresent, Objects(c.needs, a)), diag)
            IN  SlBecome(IF ok THEN SlMake(s, c.makes, MadeKind(c), Home(c, a), 1) ELSE s)
    /\ UNCHANGED <<lib, careless, closed>>

SlWalk ==
    \E r \in Walks, h \in HtUsed(tab["reflection"]) :
        LET o == tab["reflection"].slots[h]
            s == Pass(SlPresent, {o})
        IN  /\ meta[o].kind = r.from
            /\ IF r.to = "none" THEN SlBecome(s) /\ UNCHANGED budget
               ELSE Spend /\ SlBecome(SlMake(s, "reflection", r.to, meta[o].within, 1))
            /\ UNCHANGED <<lib, careless, closed>>

\* the session's modules; the session keeps their reference
ModulesOf(s) == {o \in 1 .. Len(refs) : meta[o].kind = "component" /\ meta[o].within = s}

\* load_module(_from_source): a new module or one the session has already; the
\* handle holds no reference
LoadModule ==
    /\ Spend
    /\ \E h \in HtUsed(tab["session"]), diag \in BOOLEAN :
         LET o == tab["session"].slots[h]
             s == WithDiag(Pass(SlPresent, {o}), diag)
         IN  \/ SlBecome(SlMake(s, "component", "component", o, 0))
             \/ \E m \in ModulesOf(o) : SlBecome(List(s, "component", m))
             \/ SlBecome(s)
    /\ UNCHANGED <<lib, careless, closed>>

\* A mutant: no addRef
ListLoadedBorrowed(s, m) == List(s, "component", m)
ListLoaded(s, m) == List(Retain(s, m), "component", m)

GetLoadedModule ==
    /\ Spend
    /\ \E h \in HtUsed(tab["session"]) : \E m \in ModulesOf(tab["session"].slots[h]) :
         SlBecome([ListLoaded(Pass(SlPresent, {tab["session"].slots[h]}), m) EXCEPT !.meta[m].mine = @ + 1])
    /\ UNCHANGED <<lib, careless, closed>>

\* the contract: give up only references one was given, and no object before
\* the handles into it are out of use
Handled(o) == \E k \in DOMAIN tab : \E h \in HtUsed(tab[k]) : meta[tab[k].slots[h]].within = o
BreaksContract(o) == meta[o].mine = 0 \/ (refs[o] = 1 /\ Handled(o))

\* gs_destroy, session_destroy, component_destroy, blob_destroy, and the
\* release of a shader in wgpu_bindings.c; reflection handles have none
Destroy ==
    /\ Spend
    /\ \E k \in DOMAIN tab \ {"reflection"} : \E h \in HtUsed(tab[k]) :
         LET o == tab[k].slots[h]
             s == Dropped(SlPresent, k, h)
         IN  /\ careless' = (careless \/ BreaksContract(o))
             /\ SlBecome(Cascade([s EXCEPT !.meta[o].mine = IF @ = 0 THEN 0 ELSE @ - 1]))
    /\ UNCHANGED <<lib, closed>>

\* the kinds whose objects slang_bindings_destroy releases
ReleasedAtEnd == {"blob", "global_session"}

SlangDestroy ==
    /\ ~closed /\ closed' = TRUE
    /\ SlBecome(FoldLeft(LAMBDA s, k : IF k \notin ReleasedAtEnd THEN s
                             ELSE FoldSet(LAMBDA h, x : Release(x, x.tab[k].slots[h]), s, HtUsed(s.tab[k])),
                         SlPresent, SlangKinds))
    /\ budget' = 0
    /\ UNCHANGED <<lib, careless>>

----------------------------------------------------------------------------
SlangParked == meta = <<>> /\ careless = FALSE /\ closed = FALSE

\* the object of each kind a guest may start with: the reflection object is the
\* layout of its component
SlangInit ==
    /\ ObjectsInit("slang", SlangKinds, MaxCalls + 1)
    /\ meta = IF refs = <<>> THEN <<>>
              ELSE [i \in 1 .. Len(SlangKinds) |->
                      IF SlangKinds[i] = "reflection" THEN [kind |-> "layout", within |-> 3, mine |-> 1]
                      ELSE [kind |-> SlangKinds[i], within |-> 0, mine |-> 1]]
    /\ careless = FALSE /\ closed = FALSE

SlangNext == /\ ~closed
             /\ \/ SlUse \/ SlMakeCall \/ SlWalk \/ LoadModule \/ GetLoadedModule \/ Destroy
                \/ SlangDestroy

----------------------------------------------------------------------------
\* A guest that keeps the contract never makes the bindings hand a freed
\* session, module, blob or reflection object to Slang, although modules are
\* the session's and reflection objects have no reference at all.
SlangSeesTheLiving ==
    lib = "slang" /\ ~careless =>
        /\ misused = {}
        /\ ~closed => \A k \in DOMAIN tab : \A h \in HtUsed(tab[k]) : refs[tab[k].slots[h]] > 0

\* slang_bindings_destroy frees every blob the guest left behind, diagnostics
\* included, once.
BlobsEnd ==
    lib = "slang" /\ ~careless /\ closed =>
        \A o \in 1 .. Len(refs) : meta[o].kind = "blob" => refs[o] = 0

\* A reflection handle names one object for as long as the bindings exist:
\* nothing takes it out of the table, which only grows.
ReflectionHandlesStay ==
    [][lib = "slang" => \A h \in HtUsed(tab["reflection"]) :
          HtGet(tab'["reflection"], h) = tab["reflection"].slots[h]]_<<objVars, slangVars>>

\* Slang objects that are borrowed, uncounted or left behind: none is used after it is freed
\* by a guest that keeps the contract, and the end frees the rest.
SlangSound == [](SlangSeesTheLiving /\ BlobsEnd) /\ ReflectionHandlesStay
=============================================================================
