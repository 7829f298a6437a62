---------------------------- MODULE WebappSlots ----------------------------
(***************************************************************************)
(* The dashboard's table of running web apps: dashboard_runtime.c (slots,  *)
(* layout, frame loop, event dispatch, file dialogs) over                  *)
(* webapp_runtime.c (one WASM instance per slot).                          *)
(*                                                                         *)
(* The host is one thread, but it keeps calling into guests (init, frame,  *)
(* input, focus, dialog results) and a guest calls back into the host.  So *)
(* a host function is cut where it calls a guest: guest is the instance    *)
(* that runs, cont what the host still has to do when it returns, with the *)
(* slot index it remembered.  Whatever a guest changes in between, the     *)
(* host does not notice.  on_resize and the background notifications call  *)
(* nothing back in this model.                                             *)
(*                                                                         *)
(* arr is the C array with the entries beyond slotCount zeroed; slots and  *)
(* focus count from 1, and 0 is the code's -1 or "no slot".                *)
(***************************************************************************)
EXTENDS Integers, Sequences, FiniteSets, SequencesExt

CONSTANTS Apps,         \* wasm files
          Imports,      \* what each of them imports: [Apps -> SUBSET Surfaces]
          SlotGroups,   \* indices of DashboardGroup
          MaxRuns,      \* bound: instances ever created
          MaxSlots,     \* bound: slots at one time
          DialogPool    \* YUMI_BROWSER_MAX_FILEDIALOG_COUNT

Surfaces == {"bindings", "webapp_ipc", "dashboard_ipc", "network"}

ASSUME SlotsAssumption ==
    /\ Imports \in [Apps -> SUBSET Surfaces]
    /\ {MaxRuns, MaxSlots, DialogPool} \subseteq Nat

VARIABLES arr, slotCount, focusedSlot,
          guest,      \* the instance being executed, 0: none
          cont,       \* what the host goes on with when it returns
          dialogs,    \* file dialogs the user has not answered
          ctxLeft,    \* FileDialogCtx objects left in the static pool
          up,         \* the process has not crashed or quit
          \* history
          runs,       \* instances created so far
          live,       \* instances not destroyed
          framed,     \* instances called in the present frame, in order
          closedIn,   \* in the middle of which host calls a guest closed a group
          gone,       \* a slot has been removed at some time
          answer      \* the last dialog result: to whom, for whom, stale

slotVars == <<arr, slotCount, focusedSlot, guest, cont, dialogs, ctxLeft, up,
              runs, live, framed, closedIn, gone, answer>>

Empty == [rt |-> 0, app |-> 0, group |-> 0, admin |-> FALSE, db |-> 0,
          shown |-> FALSE, focused |-> FALSE]
Idle == [op |-> "idle", i |-> 0, d |-> {}]
NoAnswer == [to |-> 0, for |-> 0, stale |-> FALSE]

Listed == {arr[i].rt : i \in 1 .. slotCount} \ {0}
Cell(i) == IF i \in DOMAIN arr THEN arr[i] ELSE Empty

----------------------------------------------------------------------------
(* Loading a module.                                                       *)

\* the import table of a slot: the dashboard slot gets the privileged calls
\* and neither the request calls nor the network, the others the opposite
Offered(admin) ==
    {"bindings"} \cup IF admin THEN {"dashboard_ipc"} ELSE {"webapp_ipc", "network"}

\* every import must resolve or the module does not load
Loads(a, admin) == Imports[a] \subseteq Offered(admin)

\* the database file's name: webapp_<group>_<slot index>.db
DbPath(g, i) == <<g, i>>

\* one more array entry, the instance created, loaded and started: its init
\* runs before the slot is counted.  A failed step leaves the table as it was.
AddSlot(a, g, admin) ==
    /\ slotCount < MaxSlots /\ runs < MaxRuns
    /\ Loads(a, admin)
    /\ runs' = runs + 1
    /\ live' = live \cup {runs + 1}
    /\ arr' = [arr EXCEPT ![slotCount + 1] =
                  [rt |-> runs + 1, app |-> a, group |-> g, admin |-> admin,
                   db |-> DbPath(g, slotCount + 1), shown |-> TRUE, focused |-> FALSE]]
    /\ guest' = runs + 1
    /\ cont' = [op |-> "add", i |-> slotCount + 1, d |-> {}]
    /\ UNCHANGED <<slotCount, focusedSlot, dialogs, ctxLeft, up, framed, closedIn, gone, answer>>

----------------------------------------------------------------------------
(* Removing slots.                                                         *)

\* A mutant: the last slot is not moved down
WithoutLast(t, i) ==
    [arr |-> [j \in DOMAIN t.arr |-> IF j \in i .. t.n - 2 THEN t.arr[j + 1]
                                    ELSE IF j = t.n THEN Empty ELSE t.arr[j]],
     n |-> t.n - 1,
     f |-> IF t.f = i THEN 0 ELSE IF t.f > i THEN t.f - 1 ELSE t.f]

\* the table [arr, n, f] without slot i: instance destroyed, later slots moved
\* down, the focus index following
Without(t, i) ==
    [arr |-> [j \in DOMAIN t.arr |-> CASE j < i -> t.arr[j]
                                       [] j \in i .. t.n - 1 -> t.arr[j + 1]
                                       [] j = t.n -> Empty
                                       [] OTHER -> t.arr[j]],
     n |-> t.n - 1,
     f |-> IF t.f = i THEN 0 ELSE IF t.f > i THEN t.f - 1 ELSE t.f]

Table == [arr |-> arr, n |-> slotCount, f |-> focusedSlot]

\* the table without the slots of group g, the last slot first
CloseAll(g) ==
    FoldLeft(LAMBDA t, i : IF t.arr[i].group = g THEN Without(t, i) ELSE t,
             Table, [i \in 1 .. slotCount |-> slotCount + 1 - i])

\* install table t; a dialog is stale once its slot number means another slot
Install(t) ==
    /\ arr' = t.arr /\ slotCount' = t.n /\ focusedSlot' = t.f
    /\ live' = live \ (Listed \ {t.arr[i].rt : i \in 1 .. t.n})
    /\ dialogs' = {[d EXCEPT !.stale = d.stale \/ d.slot > t.n \/ t.arr[d.slot] # arr[d.slot]]
                     : d \in dialogs}
    /\ gone' = (gone \/ t.n < slotCount)

RemoveSlot(i) ==
    /\ i \in 1 .. slotCount
    /\ Install(Without(Table, i))
    /\ UNCHANGED <<guest, cont, ctxLeft, up, runs, framed, closedIn, answer>>

\* the slots' part of dashboard_disconnect_group and
\* dashboard_delete_removed_group
CloseGroup(g) ==
    /\ Install(CloseAll(g))
    /\ UNCHANGED <<guest, cont, ctxLeft, up, runs, framed, answer>>

----------------------------------------------------------------------------
(* Layout: which slots have a viewport.                                    *)

Show(shown) == arr' = [i \in DOMAIN arr |-> IF i <= slotCount
                         THEN [arr[i] EXCEPT !.shown = i \in shown] ELSE arr[i]]
Shown == {i \in 1 .. slotCount : arr[i].shown}

\* the grid gives every slot a cell, full screen hides the others, a split
\* leaves the others where they are
Layout ==
    /\ \/ Show(1 .. slotCount)
       \/ \E i \in 1 .. slotCount : Show({i})
       \/ \E i, j \in 1 .. slotCount : Show(Shown \cup {i, j})
    /\ UNCHANGED <<slotCount, focusedSlot, guest, cont, dialogs, ctxLeft, up, runs,
                   live, framed, closedIn, gone, answer>>

----------------------------------------------------------------------------
(* Calling guests.                                                         *)

\* run instance r and then go on with k; without an instance go on at once
Call(r, k) == guest' = r /\ cont' = k

\* the frame loop from index i: the next slot with an instance and a viewport
NextShown(i) ==
    LET later == {j \in i .. slotCount : arr[j].rt # 0 /\ arr[j].shown}
    IN  IF later = {} THEN 0 ELSE CHOOSE j \in later : \A m \in later : j <= m

FrameFrom(i) ==
    LET j == NextShown(i) IN
    IF j = 0 THEN Call(0, Idle) /\ framed' = <<>>
             ELSE /\ Call(arr[j].rt, [op |-> "frame", i |-> j, d |-> {}])
                  /\ framed' = Append(framed, arr[j].rt)

Frame ==
    LET j == NextShown(1) IN
    /\ j # 0
    /\ framed' = <<arr[j].rt>>
    /\ Call(arr[j].rt, [op |-> "frame", i |-> j, d |-> {}])
    /\ UNCHANGED <<arr, slotCount, focusedSlot, dialogs, ctxLeft, up, runs, live, closedIn, gone, answer>>

Unmark(i) == [arr EXCEPT ![i].focused = FALSE]

\* the second half of set_focus: remember the index, mark the slot, tell it
FocusOn(to, a) ==
    /\ focusedSlot' = to
    /\ IF to \in 1 .. slotCount
         THEN /\ arr' = [a EXCEPT ![to].focused = TRUE]
              /\ Call(a[to].rt, [op |-> "focused", i |-> to, d |-> {}])
         ELSE arr' = a /\ Call(0, Idle)

\* a click on slot to (0: beside every slot), or the window losing focus
SetFocus(to) ==
    /\ to = 0 \/ to \in Shown
    /\ IF focusedSlot = to
         THEN /\ Call(Cell(to).rt, Idle)
              /\ UNCHANGED <<arr, focusedSlot>>
         ELSE IF focusedSlot \in 1 .. slotCount
              THEN /\ arr' = Unmark(focusedSlot)
                   /\ Call(arr[focusedSlot].rt, [op |-> "focusing", i |-> to, d |-> {}])
                   /\ UNCHANGED focusedSlot
              ELSE FocusOn(to, arr)
    /\ UNCHANGED <<slotCount, dialogs, ctxLeft, up, runs, live, framed, closedIn, gone, answer>>

\* keys, text, wheel, touch, joystick, paste: to the focused slot only
Input ==
    /\ Cell(focusedSlot).rt # 0
    /\ Call(Cell(focusedSlot).rt, Idle)
    /\ UNCHANGED <<arr, slotCount, focusedSlot, dialogs, ctxLeft, up, runs, live, framed,
                   closedIn, gone, answer>>

----------------------------------------------------------------------------
(* What a guest may call.                                                  *)

\* the slot of an instance; 0 while its init runs, because it is not counted yet
SelfSlot(r) == LET own == {i \in 1 .. slotCount : arr[i].rt = r}
               IN  IF own = {} THEN 0 ELSE CHOOSE i \in own : TRUE

Asked(r) == SelfSlot(r)

\* open, save or folder dialog
OpenDialog ==
    LET i == Asked(guest) IN
    /\ \E j \in DOMAIN arr : arr[j].rt = guest /\ ~arr[j].admin
    /\ i \in 1 .. slotCount
    /\ ctxLeft > 0
    /\ ctxLeft' = ctxLeft - 1
    /\ dialogs' = dialogs \cup {[ctx |-> ctxLeft, slot |-> i, for |-> guest, stale |-> FALSE]}
    /\ UNCHANGED <<arr, slotCount, focusedSlot, guest, cont, up, runs, live, framed, closedIn,
                   gone, answer>>

\* the privileged calls of the dashboard slot: close a group
GuestCloses(g) ==
    /\ \E j \in DOMAIN arr : arr[j].rt = guest /\ "dashboard_ipc" \in Imports[arr[j].app]
    /\ closedIn' = closedIn \cup ({cont.op} \cap {"add", "focusing"})
                   \cup {"own" : s \in {s \in Range(arr) : s.rt = guest /\ s.group = g}}
    /\ CloseGroup(g)

----------------------------------------------------------------------------
(* A guest returns.                                                        *)

FrameOn == FrameFrom(cont.i + 1)

\* the context came from the static pool and is given to free(): the allocator
\* aborts, or the context is lost
FreeCtx == up' \in BOOLEAN /\ UNCHANGED ctxLeft

Return ==
    /\ guest \in live
    /\ CASE cont.op = "add" ->
              /\ slotCount' = slotCount + 1 /\ Call(0, Idle)
              /\ UNCHANGED <<arr, focusedSlot, framed, up, ctxLeft>>
         [] cont.op = "focusing" ->
              FocusOn(cont.i, arr) /\ UNCHANGED <<slotCount, framed, up, ctxLeft>>
         [] cont.op = "focused" ->
              /\ Call(Cell(cont.i).rt, Idle)
              /\ UNCHANGED <<arr, slotCount, focusedSlot, framed, up, ctxLeft>>
         [] cont.op = "frame" ->
              FrameOn /\ UNCHANGED <<arr, slotCount, focusedSlot, up, ctxLeft>>
         [] cont.op = "dialog" ->
              /\ Call(0, Idle) /\ FreeCtx
              /\ UNCHANGED <<arr, slotCount, focusedSlot, framed>>
         [] OTHER -> Call(0, Idle) /\ UNCHANGED <<arr, slotCount, focusedSlot, framed, up, ctxLeft>>
    /\ answer' = IF cont.op = "dialog" THEN NoAnswer ELSE answer
    /\ UNCHANGED <<dialogs, runs, live, closedIn, gone>>

\* the instance was destroyed while it ran: undefined
ReturnToNothing ==
    /\ guest \notin live
    /\ up' = FALSE
    /\ UNCHANGED <<arr, slotCount, focusedSlot, guest, cont, dialogs, ctxLeft, runs, live, framed,
                   closedIn, gone, answer>>

\* the user answers a dialog: the result goes to whatever holds the slot now
Answer(d) ==
    /\ dialogs' = dialogs \ {d}
    /\ IF d.slot <= slotCount /\ arr[d.slot].rt # 0
         THEN /\ answer' = [to |-> arr[d.slot].rt, for |-> d.for, stale |-> d.stale]
              /\ Call(arr[d.slot].rt, [op |-> "dialog", i |-> 0, d |-> {}])
              /\ UNCHANGED <<up, ctxLeft>>
         ELSE FreeCtx /\ UNCHANGED <<guest, cont, answer>>
    /\ UNCHANGED <<arr, slotCount, focusedSlot, runs, live, framed, closedIn, gone>>

\* SDL_EVENT_QUIT: dashboard_destroy ends every instance
Quit ==
    /\ arr' = [i \in DOMAIN arr |-> Empty] /\ slotCount' = 0 /\ focusedSlot' = 0
    /\ live' = live \ Listed
    /\ up' = FALSE
    /\ UNCHANGED <<guest, cont, dialogs, ctxLeft, runs, framed, closedIn, gone, answer>>

----------------------------------------------------------------------------
SlotsInit ==
    /\ arr = [i \in 1 .. MaxSlots |-> Empty]
    /\ slotCount = 0 /\ focusedSlot = 0
    /\ guest = 0 /\ cont = Idle
    /\ dialogs = {} /\ ctxLeft = DialogPool /\ up = TRUE
    /\ runs = 0 /\ live = {} /\ framed = <<>>
    /\ closedIn = {} /\ gone = FALSE /\ answer = NoAnswer

\* main.c: the first app is given the focus without being told
StartFocused ==
    /\ slotCount = 1 /\ focusedSlot = 0 /\ runs = 1
    /\ focusedSlot' = 1
    /\ UNCHANGED <<arr, slotCount, guest, cont, dialogs, ctxLeft, up, runs, live, framed,
                   closedIn, gone, answer>>

HostStep ==
    /\ up /\ guest = 0
    /\ \/ \E a \in Apps, g \in SlotGroups, admin \in BOOLEAN : AddSlot(a, g, admin)
       \/ \E i \in 1 .. slotCount : RemoveSlot(i)
       \/ \E g \in SlotGroups : CloseGroup(g) /\ UNCHANGED closedIn
       \/ Layout \/ Frame \/ Input \/ StartFocused
       \/ \E to \in 0 .. slotCount : SetFocus(to)
       \/ \E d \in dialogs : Answer(d)
       \/ Quit

GuestStep ==
    /\ up /\ guest # 0
    /\ \/ guest \in live /\ (OpenDialog \/ \E g \in SlotGroups : GuestCloses(g))
       \/ Return \/ ReturnToNothing

SlotsNext == HostStep \/ GuestStep

----------------------------------------------------------------------------
(* Properties.                                                             *)

SlotsTypeOK ==
    /\ slotCount \in 0 .. MaxSlots /\ DOMAIN arr = 1 .. MaxSlots
    /\ \A i \in 1 .. MaxSlots : arr[i].rt \in 0 .. MaxRuns
    /\ focusedSlot \in 0 .. MaxSlots
    /\ guest \in 0 .. MaxRuns /\ runs \in 0 .. MaxRuns
    /\ cont.op \in {"idle", "add", "focusing", "focused", "frame", "dialog"}
    /\ ctxLeft \in 0 .. DialogPool /\ Cardinality(dialogs) <= DialogPool - ctxLeft
    /\ live \subseteq 1 .. MaxRuns

\* Every instance that runs is in the table exactly once and the table holds no
\* destroyed instance (dashboard_add_slot, dashboard_remove_slot), unless a
\* guest closed a group while the host was in the middle of adding a slot.
TableIsExact ==
    "add" \in closedIn
    \/ /\ live \ Listed \subseteq {guest}
       /\ Listed \subseteq live
       /\ Cardinality(Listed) = Cardinality({i \in 1 .. slotCount : arr[i].rt # 0})

\* A web app that thinks it has the focus is the one the keys go to: the mark
\* and dashboard's index agree between the host's calls, however slots were
\* added and removed, unless a guest closed a group inside set_focus.
MarkedHasFocus ==
    guest = 0 /\ "focusing" \notin closedIn =>
        \A i \in 1 .. slotCount : arr[i].focused => focusedSlot = i

\* A frame calls no app twice, whatever the apps close while it runs
\* (dashboard_frame keeps an index into a table that moves down).
NoAppFramesTwice == IsInjective(framed)

\* The instance that is executing exists: only the dashboard's own slot can end
\* it, by closing the group it belongs to; no regular web app can.
RunningGuestIsAlive ==
    up /\ guest # 0 /\ guest \notin live => "own" \in closedIn

\* The answer of a file dialog goes to the app that asked, unless the slots have
\* moved since (file_dialog_deliver trusts the slot number).
AnswersTheAsker == answer.to # answer.for => answer.stale

\* While no slot was ever removed, two running apps never share a database file.
DatabasesAreSeparate ==
    ~gone => \A i, j \in 1 .. slotCount : i # j => arr[i].db # arr[j].db

FocusedApp == Cell(focusedSlot).rt

\* Closing a group ends exactly its apps and keeps the others in their order,
\* and the focus stays with its app (the loop of dashboard_disconnect_group and
\* the index arithmetic of dashboard_remove_slot).
ClosingIsExact ==
    [][\A g \in SlotGroups : slotCount' < slotCount /\ CloseGroup(g) =>
          /\ SubSeq(arr', 1, slotCount') = SelectSeq(SubSeq(arr, 1, slotCount),
                                                     LAMBDA s : s.group # g)
          /\ focusedSlot <= slotCount =>
               FocusedApp' = (IF Cell(focusedSlot).group = g THEN 0 ELSE FocusedApp)]_slotVars

\* The host's table of web apps, although guests call back while it is walked: exact, with one
\* focus, no app run twice or after its end, answers and databases to their owners.
SlotsSound ==
    /\ [](SlotsTypeOK /\ TableIsExact /\ MarkedHasFocus /\ NoAppFramesTwice
          /\ RunningGuestIsAlive /\ AnswersTheAsker /\ DatabasesAreSeparate)
    /\ ClosingIsExact
=============================================================================
