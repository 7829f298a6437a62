---------------------------- MODULE HostObjects ----------------------------
(***************************************************************************)
(* What the binding modules share.  A guest names host objects (GPU, audio,*)
(* shader, database ... objects) by handles, one handle table per kind of  *)
(* object; an imported function resolves its handles, returns without      *)
(* effect when one of those it needs is NULL, and otherwise calls the      *)
(* driver with the objects.                                                *)
(*                                                                         *)
(* An object is its number in the order of creation; refs counts its       *)
(* references, and 0 means the driver has freed it.  What a function does  *)
(* to handles and objects is a row of its binding's table of calls; what   *)
(* it passes through beside them (sizes, formats, pixels) is left out, and *)
(* so are the pure queries, which are rows that only use their handles.    *)
(***************************************************************************)
EXTENDS Naturals, Sequences, FiniteSets, SequencesExt, HandleTable

CONSTANTS MaxCalls,    \* bound: changing calls when every kind of object takes part
          DeepCalls    \* bound: changing calls when only a few kinds do

VARIABLES lib,         \* the binding that is exercised
          tab,         \* its handle tables, by kind of object
          refs,        \* references to each object
          misused,     \* history: freed objects handed to the driver
          budget       \* changing calls left

objVars == <<lib, tab, refs, misused, budget>>

----------------------------------------------------------------------------
(* Rows.  needs: the kinds of the handles that must resolve, in order;     *)
(* opts: the kinds of the handles that may be NULL; drops: the positions   *)
(* in needs whose handle is removed and whose reference is given up;       *)
(* makes: the kind of the new object, if any.                              *)

Row(fns, needs, opts, drops, makes) ==
    [fns |-> fns, needs |-> needs, opts |-> opts, drops |-> drops, makes |-> makes]

Makes(fns, needs, kind) == Row(fns, needs, <<>>, {}, kind)
Uses(fns, needs) == Row(fns, needs, <<>>, {}, "none")
Drops(fns, kind) == Row(fns, <<kind>>, <<>>, {1}, "none")

----------------------------------------------------------------------------
(* Effects on a state [tab, refs, misused], composed by each function.     *)

Spend == budget > 0 /\ budget' = budget - 1

Present == [tab |-> tab, refs |-> refs, misused |-> misused]
Become(s) == tab' = s.tab /\ refs' = s.refs /\ misused' = s.misused

List(s, k, o) == [s EXCEPT !.tab[k] = HtInsert(@, o)]
Unlist(s, k, h) == [s EXCEPT !.tab[k] = HtRemove(@, h)]
Handle(s, k) == HtNext(s.tab[k])

Create(s) == [s EXCEPT !.refs = Append(@, 1)]
Newest(s) == Len(s.refs)

\* the driver is given the objects os
Pass(s, os) == [s EXCEPT !.misused = @ \cup {o \in os \ {0} : s.refs[o] = 0}]
Retain(s, o) == IF o = 0 THEN s ELSE [Pass(s, {o}) EXCEPT !.refs[o] = @ + 1]
Release(s, o) ==
    IF o = 0 THEN s
    ELSE [Pass(s, {o}) EXCEPT !.refs[o] = IF @ = 0 THEN 0 ELSE @ - 1]

----------------------------------------------------------------------------
(* One call of a row.                                                      *)

\* the functions that only concern the kinds taking part
Offered(rows) ==
    {c \in rows : ToSet(c.needs) \cup ToSet(c.opts) \cup {c.makes} \subseteq DOMAIN tab \cup {"none"}}

Resolving(k) == HtUsed(tab[k])
ArgsFor(ks) == {a \in [1 .. Len(ks) -> UNION {Resolving(ks[i]) : i \in 1 .. Len(ks)}] :
                  \A i \in 1 .. Len(ks) : a[i] \in Resolving(ks[i])}
OptsFor(ks) == {a \in [1 .. Len(ks) -> {0} \cup UNION {Resolving(ks[i]) : i \in 1 .. Len(ks)}] :
                  \A i \in 1 .. Len(ks) : a[i] \in {0} \cup Resolving(ks[i])}
Objects(ks, a) == {HtGet(tab[ks[i]], a[i]) : i \in 1 .. Len(ks)}

\* the function of a row that gives up a handle
Dropped(s, k, h) == Unlist(Release(s, HtGet(s.tab[k], h)), k, h)

AllDropped(s, c, a) == FoldSet(LAMBDA i, x : Dropped(x, c.needs[i], a[i]), s, c.drops)

\* the driver may refuse to create: the handle is then 0
Made(s, k, ok) ==
    IF k = "none" \/ ~ok THEN s
    ELSE LET n == Create(s) IN List(n, k, Newest(n))

\* what the driver is given by a call
Given(c, a, o) == Pass(Present, Objects(c.needs, a) \cup Objects(c.opts, o))

\* kept: <<kind, handle>> pairs the function refuses to give up
UseCall(c) ==
    /\ c.drops = {} /\ c.makes = "none"
    /\ \E a \in ArgsFor(c.needs), o \in OptsFor(c.opts) :
         misused' = Given(c, a, o).misused
    /\ UNCHANGED <<lib, tab, refs, budget>>

ChangeCall(c, kept) ==
    /\ Spend
    /\ ~(c.drops = {} /\ c.makes = "none")
    /\ \E a \in ArgsFor(c.needs), o \in OptsFor(c.opts), ok \in BOOLEAN :
         /\ \A i \in c.drops : <<c.needs[i], a[i]>> \notin kept
         /\ Become(Made(AllDropped(Given(c, a, o), c, a), c.makes, ok))
    /\ UNCHANGED lib

----------------------------------------------------------------------------
(* Start: no object, or a guest that holds one of each kind.               *)

Nothing(kinds) == /\ tab = [k \in ToSet(kinds) |-> HtInit(1)]
                  /\ refs = <<>>
OneOfEach(kinds) ==
    /\ tab = [k \in ToSet(kinds) |-> HtInsert(HtInit(1), CHOOSE i \in 1 .. Len(kinds) : kinds[i] = k)]
    /\ refs = [i \in 1 .. Len(kinds) |-> 1]

\* kinds: the kinds of object that take part
ObjectsInit(l, kinds, n) ==
    /\ lib = l
    /\ Nothing(kinds) \/ OneOfEach(kinds)
    /\ misused = {} /\ budget = n
=============================================================================
