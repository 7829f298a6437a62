---------------------------- MODULE MCBindings ----------------------------
(***************************************************************************)
(* The binding modules of a guest, one at a time: WebGPU with the surface  *)
(* and a media context, Slang, SDL with two guests, DuckDB, the media      *)
(* player, and the fonts of two guests.  lib names the one that runs; the  *)
(* others rest.                                                            *)
(***************************************************************************)
EXTENDS WgpuBindings, SlangBindings, SdlBindings, DuckdbBindings, MediaPlayer, FontCaches

Init == \/ WgpuInit /\ SlangParked /\ SdlParked /\ DdbParked /\ MediaInit /\ TextInit
        \/ SlangInit /\ GpuParked /\ SdlParked /\ DdbParked /\ MediaInit /\ TextInit
        \/ SdlInit /\ GpuParked /\ SlangParked /\ DdbParked /\ MediaInit /\ TextInit
        \/ DdbInit /\ GpuParked /\ SlangParked /\ SdlParked /\ MediaInit /\ TextInit
        \/ /\ \E l \in {"media", "text"} : ObjectsInit(l, <<>>, 0)
           /\ MediaInit /\ TextInit
           /\ GpuParked /\ SlangParked /\ SdlParked /\ DdbParked

Next == \/ lib = "wgpu" /\ WgpuNext /\ UNCHANGED <<slangVars, pad, ddbVars, mediaVars, textVars>>
        \/ lib = "slang" /\ SlangNext /\ UNCHANGED <<gpuVars, pad, ddbVars, mediaVars, textVars>>
        \/ lib = "sdl" /\ SdlNext /\ UNCHANGED <<gpuVars, slangVars, ddbVars, mediaVars, textVars>>
        \/ lib = "duckdb" /\ DdbNext /\ UNCHANGED <<gpuVars, slangVars, pad, mediaVars, textVars>>
        \/ lib = "media" /\ MediaNext /\ UNCHANGED <<objVars, gpuVars, slangVars, pad, ddbVars, textVars>>
        \/ lib = "text" /\ TextNext /\ UNCHANGED <<objVars, gpuVars, slangVars, pad, ddbVars, mediaVars>>

Spec == Init /\ [][Next]_<<objVars, gpuVars, slangVars, pad, ddbVars, mediaVars, textVars>>

\* sound and pictures in turn, pictures in a row (a full queue), a packet that
\* does not decode, sound only, pictures only
McMovies == {<<"a", "v", "a", "v", "a", "v">>, <<"v", "v", "v", "a", "v", "a">>,
             <<"v", "x", "a", "v", "v", "a">>, <<"a", "a", "a">>, <<"v", "v">>}

\* empty chunks at the ends and in the middle
McShapes == {<<>>, <<1>>, <<0, 2>>, <<1, 0, 1>>}

\* a codepoint of two fonts, one of a corrupt file and a font, one of the corrupt file alone
McCovers == 1 :> {1} @@ 2 :> {1, 2} @@ 3 :> {2, 3}
McFontSort == <<3, 1, 2>>
=============================================================================
