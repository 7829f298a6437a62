------------------------------- MODULE MCHost -------------------------------
(***************************************************************************)
(* The host runtime for TLC: the table of web apps, the groups, the friend *)
(* list, the registrar calls, and the analysis of a group that the host    *)
(* asks for.  They share no state that this model keeps in two of them, so *)
(* a behaviour watches one of the five (of the groups, either the tabs or  *)
(* the rest); the others rest in their initial state.                      *)
(***************************************************************************)
EXTENDS WebappSlots, GroupHost, Friends, GrProxy, Behavior

VARIABLE part

MCApps == {"desk", "chat"}
MCImports == [a \in MCApps |-> {"bindings", IF a = "desk" THEN "dashboard_ipc" ELSE "webapp_ipc"}]
Sym == Permutations(SlotGroups) \cup Permutations(People)

\* only the part that is watched starts in all its initial states
Watch(p, atRest) == part = p \/ atRest

Init ==
    /\ part \in {"slots", "tabs", "groups", "friends", "proxy", "analysis"}
    /\ SlotsInit /\ GroupsInit /\ FriendsInit /\ ProxyInit /\ BehInit
    /\ Watch("groups", named)
    /\ Watch("friends", dbActive)
    /\ Watch("proxy", watched = "peer_list" /\ rows = 0)

vars == <<part, slotVars, groupVars, friendVars, proxyVars, behVars>>

Next ==
    /\ UNCHANGED part
    /\ \/ part = "slots" /\ SlotsNext /\ UNCHANGED <<groupVars, friendVars, proxyVars, behVars>>
       \/ part = "groups" /\ (ProcessInvite \/ LifecycleNext)
          /\ UNCHANGED <<slotVars, friendVars, proxyVars, behVars>>
       \/ part = "tabs" /\ TabsNext /\ UNCHANGED <<slotVars, friendVars, proxyVars, behVars>>
       \/ part = "friends" /\ FriendsNext /\ UNCHANGED <<slotVars, groupVars, proxyVars, behVars>>
       \/ part = "proxy" /\ ProxyNext /\ UNCHANGED <<slotVars, groupVars, friendVars, behVars>>
       \/ part = "analysis" /\ BehNext /\ UNCHANGED <<slotVars, groupVars, friendVars, proxyVars>>

Spec == Init /\ [][Next]_vars
=============================================================================
