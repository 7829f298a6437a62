---------------------------- MODULE FontCaches ----------------------------
(***************************************************************************)
(* font_bindings.c and text_bindings.c: every guest has its own table of   *)
(* fonts and its own list of HarfBuzz fonts, but what was found where is   *)
(* remembered in caches that are global to the process, in terms of one    *)
(* guest's handles and indices:                                            *)
(*   paths     file -> handle, 0 for a file that did not load              *)
(*   cps       codepoint -> handle, 0 for a codepoint no font has          *)
(*   resolved  <<codepoint, active handle>> -> index in the list           *)
(* Creating a guest clears the last two, destroying one clears all three.  *)
(*                                                                         *)
(* A font is its file; what a font is asked for is one codepoint (text is  *)
(* shaped codepoint by codepoint: all are resolved first, and the list     *)
(* only grows).  Fontconfig and FreeType are external.  The hash tables    *)
(* evict after 32 probes, which only forgets; that is left out.            *)
(***************************************************************************)
EXTENDS Integers, Sequences, FiniteSets, Functions, SequencesExt, HandleTable

CONSTANTS Guests,
          FontFiles,    \* installed font files, numbered from 1
          Corrupt,      \* those FreeType rejects
          Covers,       \* the codepoints of each file
          FontSort,     \* fontconfig's order of the files
          MaxTextCalls  \* bound: calls of the guests and the host

VARIABLES guest,        \* FontBindings and TextBindings of each guest
          paths, cps, resolved,
          ft,           \* FreeType: lib, whether it is initialised, and refs
          textCalls,    \* calls left
          \* history
          ftFailed,     \* FT_Init_FreeType has failed
          dangling,     \* FreeType ended under the faces of a living guest
          unloaded,     \* a font was unloaded
          shaped        \* the last text_shape: what was asked, what was used

textVars == <<guest, paths, cps, resolved, ft, textCalls, ftFailed, dangling, unloaded, shaped>>

ASSUME FontAssumption == /\ FontFiles \subseteq Nat \ {0} /\ Corrupt \subseteq FontFiles
                         /\ ToSet(FontSort) = FontFiles /\ FontFiles \subseteq DOMAIN Covers

Codepoints == UNION Range(Covers)

NoGuest == [alive |-> FALSE, fonts |-> HtInit(0), hb |-> <<>>, active |-> 0]
NotShaped == [alone |-> FALSE, cp |-> 0, active |-> 0, used |-> 0]

Living == {g \in Guests : guest[g].alive}
Alone(g) == Living = {g}

\* freed faces answer anything: nothing is said of what follows
TextCall == textCalls > 0 /\ textCalls' = textCalls - 1 /\ ~dangling
GuestCall(g) == TextCall /\ guest[g].alive

Empty == [x \in {} |-> 0]
With(c, k, v) == [x \in DOMAIN c \cup {k} |-> IF x = k THEN v ELSE c[x]]

----------------------------------------------------------------------------
(* A guest comes and goes.                                                 *)

ft_ensure(ok) ==
    IF ft.lib THEN [ft EXCEPT !.refs = @ + 1]
    ELSE IF ok THEN [lib |-> TRUE, refs |-> 1] ELSE ft

ft_release == IF ft.refs - 1 <= 0 /\ ft.lib THEN [lib |-> FALSE, refs |-> 0]
              ELSE [ft EXCEPT !.refs = @ - 1]

\* font_bindings_init, which ignores a failure of FreeType, then text_bindings_init
GuestInit(g) ==
    /\ TextCall /\ ~guest[g].alive
    /\ guest' = [guest EXCEPT ![g] = [NoGuest EXCEPT !.alive = TRUE, !.fonts = HtInit(8)]]
    /\ \E ok \in BOOLEAN :
         /\ ft' = ft_ensure(ok)
         /\ ftFailed' = (ftFailed \/ (~ft.lib /\ ~ok))
    /\ cps' = Empty /\ resolved' = Empty
    /\ UNCHANGED <<paths, dangling, unloaded, shaped>>

\* A mutant: a file is not loaded again for the next guest
KeptPaths == [paths |-> paths, cps |-> Empty, resolved |-> Empty]

\* what font_bindings_destroy and text_bindings_destroy leave of the caches
Cleared == [paths |-> Empty, cps |-> Empty, resolved |-> Empty]

GuestDestroy(g) ==
    /\ TextCall /\ guest[g].alive
    /\ guest' = [guest EXCEPT ![g] = NoGuest]
    /\ paths' = Cleared.paths /\ cps' = Cleared.cps /\ resolved' = Cleared.resolved
    /\ ft' = ft_release
    /\ dangling' = (ft.lib /\ ~ft_release.lib /\ \E o \in Living \ {g} : HtUsed(guest[o].fonts) # {})
    /\ UNCHANGED <<ftFailed, unloaded, shaped>>

----------------------------------------------------------------------------
(* font_bindings.c.  A state s = [fonts, paths, cps, h] is threaded        *)
(* through a search; h is the handle found.                                *)

Loads(f) == ft.lib /\ f \notin Corrupt

\* font_load: the guest brings the data, no cache is asked
FontLoad(g, f) ==
    /\ GuestCall(g) /\ Loads(f)
    /\ guest' = [guest EXCEPT ![g].fonts = HtInsert(@, f)]
    /\ UNCHANGED <<paths, cps, resolved, ft, ftFailed, dangling, unloaded, shaped>>

path_cache_find(s, f) == f \in DOMAIN s.paths
path_cache_insert(s, f, h) == [s EXCEPT !.paths = With(@, f, h), !.h = h]

font_load_cached(s, f) ==
    IF path_cache_find(s, f) THEN [s EXCEPT !.h = s.paths[f]]
    ELSE IF ~Loads(f) THEN path_cache_insert(s, f, 0)
    ELSE path_cache_insert([s EXCEPT !.fonts = HtInsert(@, f)], f, HtNext(s.fonts))

Search(g) == [fonts |-> guest[g].fonts, paths |-> paths, cps |-> cps, h |-> 0]

FontLoadSystem(g, f) ==
    /\ GuestCall(g)
    /\ LET s == font_load_cached(Search(g), f)
       IN  guest' = [guest EXCEPT ![g].fonts = s.fonts] /\ paths' = s.paths
    /\ UNCHANGED <<cps, resolved, ft, ftFailed, dangling, unloaded, shaped>>

\* neither the caches nor the list of HarfBuzz fonts hear of it
FontUnload(g, h) ==
    /\ GuestCall(g) /\ h \in HtUsed(guest[g].fonts)
    /\ guest' = [guest EXCEPT ![g].fonts = HtRemove(@, h)]
    /\ unloaded' = TRUE
    /\ UNCHANGED <<paths, cps, resolved, ft, ftFailed, dangling, shaped>>

\* the files fontconfig proposes, in its order
Candidates(cp) == SelectSeq(FontSort, LAMBDA f : cp \in Covers[f])

\* one candidate: its handle must name, in this guest's table, a font with the glyph
TryCandidate(s, f, cp) ==
    LET n == font_load_cached(s, f)
        e == HtGet(n.fonts, n.h)
    IN  IF s.h # 0 THEN s
        ELSE IF n.h # 0 /\ e # 0 /\ cp \in Covers[e] THEN n ELSE [n EXCEPT !.h = 0]

cp_cache_insert(s, cp) == [s EXCEPT !.cps = With(@, cp, s.h)]

find_font_for_codepoint(g, cp) ==
    LET s == Search(g)
        n == FoldLeft(LAMBDA x, f : TryCandidate(x, f, cp), s, Candidates(cp))
    IN  IF cp \in DOMAIN cps THEN [s EXCEPT !.h = cps[cp]]
        ELSE cp_cache_insert(n, cp)

----------------------------------------------------------------------------
(* text_bindings.c.  The list is numbered from 1 and active 0 is none.     *)

find_font_for_handle(hb, h) == SelectInSeq(hb, LAMBDA e : e.handle = h)

\* a copy of the bytes, under the handle they had
add_font_from_data(hb, h, f) == Append(hb, [handle |-> h, file |-> f])

TextSetFont(g, h) ==
    LET me == guest[g]
        at == find_font_for_handle(me.hb, h)
        f == HtGet(me.fonts, h)
    IN  /\ GuestCall(g)
        /\ \/ at # 0 /\ guest' = [guest EXCEPT ![g].active = at]
           \/ /\ at = 0 /\ f # 0
              /\ guest' = [guest EXCEPT ![g].hb = add_font_from_data(@, h, f), ![g].active = Len(me.hb) + 1]
        /\ UNCHANGED <<paths, cps, resolved, ft, ftFailed, dangling, unloaded, shaped>>

\* text_load_font for a handle: always one more entry
TextLoadFont(g, h) ==
    LET me == guest[g]
        f == HtGet(me.fonts, h)
    IN  /\ GuestCall(g) /\ f # 0
        /\ guest' = [guest EXCEPT ![g].hb = add_font_from_data(@, h, f), ![g].active = Len(me.hb) + 1]
        /\ UNCHANGED <<paths, cps, resolved, ft, ftFailed, dangling, unloaded, shaped>>

\* text_ensure_hb_font: hb with handle h in it, if it can be had
ensure_hb_font(hb, fonts, h) ==
    IF find_font_for_handle(hb, h) # 0 \/ HtGet(fonts, h) = 0 THEN hb
    ELSE add_font_from_data(hb, h, HtGet(fonts, h))

Has(hb, i, cp) == i # 0 /\ cp \in Covers[hb[i].file]

resolve_cache_find(cp, h) == <<cp, h>> \in DOMAIN resolved

\* text_resolve_font_for_codepoint: s is what is known after it, hb the list, idx the answer
resolve_font(g, cp) ==
    LET me == guest[g]
        ah == me.hb[me.active].handle
        s == find_font_for_codepoint(g, cp)
        hb == IF s.h \in {0, ah} THEN me.hb ELSE ensure_hb_font(me.hb, s.fonts, s.h)
        at == IF s.h \in {0, ah} THEN 0 ELSE find_font_for_handle(hb, s.h)
    IN  IF resolve_cache_find(cp, ah) THEN [s |-> Search(g), hb |-> me.hb, idx |-> resolved[<<cp, ah>>]]
        ELSE IF Has(me.hb, me.active, cp) THEN [s |-> Search(g), hb |-> me.hb, idx |-> me.active]
        ELSE [s |-> s, hb |-> hb, idx |-> IF Has(hb, at, cp) THEN at ELSE me.active]

\* text_shape; an index beyond the list reads a font that is not there (used 0)
TextShape(g, cp) ==
    LET me == guest[g]
        r == resolve_font(g, cp)
    IN  /\ GuestCall(g) /\ me.active # 0
        /\ resolved' = With(resolved, <<cp, me.hb[me.active].handle>>, r.idx)
        /\ guest' = [guest EXCEPT ![g].hb = r.hb, ![g].fonts = r.s.fonts]
        /\ paths' = r.s.paths /\ cps' = r.s.cps
        /\ shaped' = [alone |-> Alone(g), cp |-> cp, active |-> me.hb[me.active].file,
                      used |-> IF r.idx \in 1 .. Len(r.hb) THEN r.hb[r.idx].file ELSE 0]
        /\ UNCHANGED <<ft, ftFailed, dangling, unloaded>>

----------------------------------------------------------------------------

TextInit ==
    /\ guest = [g \in Guests |-> NoGuest]
    /\ paths = Empty /\ cps = Empty /\ resolved = Empty
    /\ ft = [lib |-> FALSE, refs |-> 0]
    /\ textCalls = MaxTextCalls
    /\ ftFailed = FALSE /\ dangling = FALSE /\ unloaded = FALSE
    /\ shaped = NotShaped

TextNext ==
    \E g \in Guests :
        \/ GuestInit(g) \/ GuestDestroy(g)
        \/ \E f \in FontFiles : FontLoad(g, f) \/ FontLoadSystem(g, f)
        \/ \E h \in 1 .. Capacity(guest[g].fonts) : FontUnload(g, h) \/ TextSetFont(g, h) \/ TextLoadFont(g, h)
        \/ \E cp \in Codepoints : TextShape(g, cp)

----------------------------------------------------------------------------
(* Properties.                                                             *)

Usable == FontFiles \ Corrupt

\* A guest that is the only one: the global caches speak of its own fonts, whoever filled
\* them before (font_unload aside, which they do not hear of): a path leads to the handle of
\* that file, a codepoint to a font that has it, and an index to an entry of its list.
CachesAreOwn ==
    \A g \in Guests : Alone(g) =>
        LET me == guest[g] IN
        /\ \A k \in DOMAIN resolved : resolved[k] \in 1 .. Len(me.hb)
        /\ unloaded \/ /\ \A f \in DOMAIN paths : paths[f] # 0 => HtGet(me.fonts, paths[f]) = f
                       /\ \A c \in DOMAIN cps : cps[c] # 0 => c \in Covers[HtGet(me.fonts, cps[c])]

\* What text_shape uses, for a guest that is the only one and has unloaded nothing: the font
\* that was set if it has the codepoint (no regular face in place of a bold one), otherwise
\* one that has it if any installed font does, otherwise the font that was set.
ShapedAsAsked ==
    (shaped.alone /\ ~unloaded /\ ~ftFailed) =>
        IF shaped.cp \in Covers[shaped.active] \/ \A f \in Usable : shaped.cp \notin Covers[f]
        THEN shaped.used = shaped.active
        ELSE shaped.used # 0 /\ shaped.cp \in Covers[shaped.used]

\* While nothing is unloaded, a handle means the same font to FreeType, which draws the
\* glyphs, and to HarfBuzz, which numbers them, whatever other guests left in the caches.
TextAgreesWithFonts ==
    ~unloaded => \A g \in Guests : \A i \in 1 .. Len(guest[g].hb) :
        HtGet(guest[g].fonts, guest[g].hb[i].handle) = guest[g].hb[i].file

\* FreeType ends under the faces of a living guest only when its initialisation had failed
\* for some guest, whose destruction still gives up a reference (ft_release).
LibraryOutlivesFaces == dangling => ftFailed

\* Fonts of guests that come and go over shared caches: a guest that is alone finds its own
\* fonts in them, and a handle means one font to both libraries.
FontsSound == CachesAreOwn /\ ShapedAsAsked /\ TextAgreesWithFonts /\ LibraryOutlivesFaces
=============================================================================
