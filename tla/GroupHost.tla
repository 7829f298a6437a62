----------------------------- MODULE GroupHost -----------------------------
(***************************************************************************)
(* The dashboard's groups: dashboard_runtime.c, group lifecycle, recovery  *)
(* mode, background and foreground.                                        *)
(*                                                                         *)
(* Two kinds of threads touch a DashboardGroup: the main thread, and the   *)
(* threads of the group's yumi_client, which call                          *)
(* dashboard_group_event_cb without any lock.  The callback takes the      *)
(* address of the group once and then writes through it, so it is cut into *)
(* its entry and its writes; yumi_client_open starts the threads before it *)
(* stores the client, and yumi_client_destroy waits for them.              *)
(*                                                                         *)
(* dashboard_connect_group passes no identity, and yumi_client_open        *)
(* refuses that, so as the code stands no client is ever opened: named is  *)
(* FALSE.  The rest of the code is written for an identity being passed,   *)
(* which is named TRUE.                                                    *)
(***************************************************************************)
EXTENDS Integers, Sequences, FiniteSets

CONSTANTS MaxGroups,    \* bound: groups ever added
          GroupCap,     \* DASHBOARD_INITIAL_GROUP_CAP
          MaxClients,   \* bound: clients ever opened
          CtxPool       \* YUMI_BROWSER_MAX_DASHBOARD_COUNT

ASSUME HostGroupsAssumption == {MaxGroups, GroupCap, MaxClients, CtxPool} \subseteq Nat \ {0}

VARIABLES named,        \* connect passes an identity
          grp,          \* the groups, in order of their index
          groupCap, moves,   \* capacity of the array, how often it moved
          foreground,   \* foreground_group, 0: none
          recovery,     \* recovery_mode
          task,         \* what the main thread is in the middle of
          ctxs,         \* DashboardGroupCtx objects leased
          clients,      \* live clients: id -> group
          cb,           \* the callback each client's threads are in
          opened,       \* clients ever opened
          strays,       \* clients whose group no longer points to them
          lostWrites    \* writes of callbacks to an array that had moved away

groupVars == <<named, grp, groupCap, moves, foreground, recovery, task, ctxs, clients, cb,
               opened, strays, lostWrites>>

States == {"disconnected", "connecting", "connected", "failed", "kicked", "banned"}
Removed == {"kicked", "banned"}
NewGroup == [state |-> "connecting", client |-> 0, ro |-> FALSE, bg |-> FALSE]
NoTask == [op |-> "none", g |-> 0, c |-> 0]
NoCall == [ev |-> "none", at |-> 0, pc |-> 0]

Idle0 == task.op = "none"

\* the state and the client of a group are written
Marked(g, s, c) == [grp EXCEPT ![g] = [@ EXCEPT !.state = s, !.client = c]]

----------------------------------------------------------------------------
(* The main thread.                                                        *)

\* reserve_generic: the array doubles, and realloc may move it
ReserveGroups ==
    IF Len(grp) < groupCap THEN UNCHANGED <<groupCap, moves>>
    ELSE groupCap' = groupCap * 2 /\ moves' = moves + 1

\* dashboard_process_invite: a new group; nothing joins it yet
ProcessInvite ==
    /\ Idle0 /\ Len(grp) < MaxGroups
    /\ ReserveGroups
    /\ grp' = Append(grp, NewGroup)
    /\ UNCHANGED <<named, foreground, recovery, task, ctxs, clients, cb, opened, strays, lostWrites>>

\* dashboard_connect_group up to the start of the client's threads.  The old
\* client pointer is cleared before anything can fail, except the check of the
\* identity.
Connect(g) ==
    /\ Idle0 /\ grp[g].state # "connected"
    /\ IF ctxs = CtxPool
         THEN /\ grp' = Marked(g, "connecting", grp[g].client)
              /\ UNCHANGED <<task, ctxs, clients, opened, strays>>
         ELSE IF ~named
         THEN /\ grp' = Marked(g, "failed", grp[g].client)
              /\ UNCHANGED <<task, ctxs, clients, opened, strays>>
         ELSE \/ /\ grp' = Marked(g, "failed", 0)
                 /\ strays' = strays \cup ({grp[g].client} \ {0})
                 /\ UNCHANGED <<task, ctxs, clients, opened>>
              \/ /\ opened < MaxClients
                 /\ opened' = opened + 1
                 /\ clients' = clients \cup {<<opened + 1, g>>}
                 /\ ctxs' = ctxs + 1
                 /\ grp' = Marked(g, "connecting", 0)
                 /\ strays' = strays \cup ({grp[g].client} \ {0})
                 /\ task' = [op |-> "open", g |-> g, c |-> opened + 1]
    /\ UNCHANGED <<named, groupCap, moves, foreground, recovery, cb, lostWrites>>

\* yumi_client_open returns: *out = c
ConnectDone ==
    /\ task.op = "open"
    /\ grp' = [grp EXCEPT ![task.g].client = task.c]
    /\ task' = NoTask
    /\ UNCHANGED <<named, groupCap, moves, foreground, recovery, ctxs, clients, cb, opened,
                   strays, lostWrites>>

\* dashboard_disconnect_group, dashboard_delete_removed_group: the slots are
\* closed (WebappSlots), the client destroyed, which waits for its threads
Close(g) ==
    /\ Idle0
    /\ IF grp[g].client # 0
         THEN task' = [op |-> "close", g |-> g, c |-> grp[g].client] /\ UNCHANGED grp
         ELSE grp' = Marked(g, "disconnected", 0) /\ UNCHANGED task
    /\ UNCHANGED <<named, groupCap, moves, foreground, recovery, ctxs, clients, cb, opened,
                   strays, lostWrites>>

Disconnect(g) == Close(g)
DeleteRemoved(g) == grp[g].state \in Removed /\ Close(g)

Quiet(c) == cb[c] = NoCall

\* A mutant: the client is not taken out of the table
KeepClient(c) == clients
DropClient(c) == {x \in clients : x[1] # c}

CloseDone ==
    /\ task.op = "close" /\ Quiet(task.c)
    /\ clients' = DropClient(task.c)
    /\ grp' = Marked(task.g, "disconnected", 0)
    /\ task' = NoTask
    /\ UNCHANGED <<named, groupCap, moves, foreground, recovery, ctxs, cb, opened, strays,
                   lostWrites>>

ToggleRecovery ==
    /\ Idle0
    /\ recovery' = ~recovery
    /\ grp' = [g \in DOMAIN grp |->
                 IF recovery' /\ grp[g].state \in Removed THEN [grp[g] EXCEPT !.ro = TRUE] ELSE grp[g]]
    /\ UNCHANGED <<named, groupCap, moves, foreground, task, ctxs, clients, cb, opened, strays,
                   lostWrites>>

ForegroundAfter(g, bg) == IF bg /\ foreground = g THEN 0 ELSE foreground

SetBackground(g, bg) ==
    /\ Idle0 /\ grp[g].bg # bg
    /\ grp' = [grp EXCEPT ![g].bg = bg]
    /\ foreground' = ForegroundAfter(g, bg)
    /\ UNCHANGED <<named, groupCap, moves, recovery, task, ctxs, clients, cb, opened, strays,
                   lostWrites>>

SwitchGroup(g) ==
    /\ Idle0 /\ foreground # g
    /\ grp' = [h \in DOMAIN grp |-> IF h = g THEN [grp[h] EXCEPT !.bg = FALSE]
                                    ELSE IF h = foreground THEN [grp[h] EXCEPT !.bg = TRUE]
                                    ELSE grp[h]]
    /\ foreground' = g
    /\ UNCHANGED <<named, groupCap, moves, recovery, task, ctxs, clients, cb, opened, strays,
                   lostWrites>>

----------------------------------------------------------------------------
(* A client's threads: dashboard_group_event_cb.                           *)

\* the entry: the index is checked and the address of the group taken
Enter(c, ev) ==
    /\ cb[c[1]] = NoCall
    /\ cb' = [cb EXCEPT ![c[1]] = [ev |-> ev, at |-> moves, pc |-> 1]]
    /\ UNCHANGED <<named, grp, groupCap, moves, foreground, recovery, task, ctxs, clients, opened,
                   strays, lostWrites>>

\* write w to the group of client c through the address taken at the entry
WriteThrough(c, w) ==
    IF cb[c[1]].at = moves
      THEN grp' = [grp EXCEPT ![c[2]] = w] /\ UNCHANGED lostWrites
      ELSE lostWrites' = TRUE /\ UNCHANGED grp

\* the registrar is reached through the group's client: without one, and without
\* the row, a removal counts as a kick
RemovedAs(c, ev) == IF ev = "ban" /\ grp[c[2]].client # 0 THEN "banned" ELSE "kicked"

EventState(c) ==
    LET k == cb[c[1]]
        g == grp[c[2]]
    IN  /\ k.pc = 1
        /\ IF k.ev = "verified"
             THEN /\ WriteThrough(c, [g EXCEPT !.state = "connected"])
                  /\ cb' = [cb EXCEPT ![c[1]] = NoCall]
             ELSE /\ WriteThrough(c, [g EXCEPT !.state = RemovedAs(c, k.ev)])
                  /\ cb' = [cb EXCEPT ![c[1]].pc = 2]
        /\ UNCHANGED <<named, groupCap, moves, foreground, recovery, task, ctxs, clients, opened,
                       strays>>

MakeReadonly(c) == [grp[c[2]] EXCEPT !.ro = TRUE]

EventReadonly(c) ==
    /\ cb[c[1]].pc = 2
    /\ WriteThrough(c, MakeReadonly(c))
    /\ cb' = [cb EXCEPT ![c[1]] = NoCall]
    /\ UNCHANGED <<named, groupCap, moves, foreground, recovery, task, ctxs, clients, opened, strays>>

----------------------------------------------------------------------------
\* main.c makes one group, marked connected, without a client
GroupsInit ==
    /\ named \in BOOLEAN
    /\ grp = <<[NewGroup EXCEPT !.state = "connected"]>>
    /\ groupCap = GroupCap /\ moves = 0
    /\ foreground = 0 /\ recovery = FALSE
    /\ task = NoTask /\ ctxs = 0
    /\ clients = {} /\ cb = [c \in 1 .. MaxClients |-> NoCall]
    /\ opened = 0 /\ strays = {} /\ lostWrites = FALSE

\* the marks of foreground and background
TabsNext ==
    \/ ProcessInvite
    \/ \E g \in DOMAIN grp : SwitchGroup(g) \/ \E bg \in BOOLEAN : SetBackground(g, bg)

\* connections, removals and what the clients report
LifecycleNext ==
    \/ ConnectDone \/ CloseDone \/ ToggleRecovery
    \/ \E g \in DOMAIN grp : Connect(g) \/ Disconnect(g) \/ DeleteRemoved(g)
    \/ \E c \in clients : \/ \E ev \in {"verified", "kick", "ban"} : Enter(c, ev)
                          \/ EventState(c) \/ EventReadonly(c)

GroupsNext == TabsNext \/ LifecycleNext
GroupsSpec == GroupsInit /\ [][GroupsNext]_groupVars

----------------------------------------------------------------------------
(* Properties.                                                             *)

GroupsTypeOK ==
    /\ Len(grp) <= MaxGroups /\ Len(grp) <= groupCap
    /\ \A g \in DOMAIN grp : grp[g].state \in States /\ grp[g].client \in 0 .. MaxClients
    /\ foreground \in 0 .. Len(grp)
    /\ task.op \in {"none", "open", "close"}
    /\ ctxs \in 0 .. CtxPool
    /\ clients \subseteq (1 .. MaxClients) \X DOMAIN grp

\* The group in the foreground is never marked as background
\* (dashboard_switch_group, dashboard_group_set_background).
ForegroundIsNotBackground == foreground # 0 => ~grp[foreground].bg

\* A disconnected group is quiet: no client of it is left that could still
\* change it, unless a second dashboard_connect_group had replaced the first
\* client's pointer.
DisconnectedIsQuiet ==
    \A c \in clients : grp[c[2]].state = "disconnected" /\ Idle0 =>
        c[1] \in strays \/ grp[c[2]].client = c[1]

\* No callback runs for a destroyed client (yumi_client_destroy joins the
\* client's threads before it frees anything).
NoCallbackAfterDestroy == \A c \in 1 .. MaxClients : cb[c] # NoCall => \E g \in DOMAIN grp : <<c, g>> \in clients

\* A group the user was removed from is read-only as soon as the callback that
\* said so is through, and stays so until it is connected or closed again;
\* only a write to an array that was moved away meanwhile gets lost.
RemovedIsReadonly ==
    \A g \in DOMAIN grp :
        grp[g].state \in Removed /\ ~lostWrites =>
            grp[g].ro \/ \E c \in clients : c[2] = g /\ cb[c[1]].pc = 2

\* The groups, although client threads write to them without a lock: nothing reaches a group
\* after its client ended, and a removal makes it read-only.
GroupsSound ==
    /\ GroupsTypeOK /\ ForegroundIsNotBackground /\ DisconnectedIsQuiet
    /\ NoCallbackAfterDestroy /\ RemovedIsReadonly
=============================================================================
