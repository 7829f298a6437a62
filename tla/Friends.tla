------------------------------ MODULE Friends ------------------------------
(***************************************************************************)
(* The friend list of dashboard_runtime.c: an array in memory, and the     *)
(* table friends of the settings database that it is loaded from.          *)
(*                                                                         *)
(* Every change is made in memory first and then written to the database;  *)
(* a failed write is not reported and not undone.  The process may stop at *)
(* any time, and the database may fail to open when it starts again.       *)
(***************************************************************************)
EXTENDS Integers, Sequences, FiniteSets, SequencesExt

CONSTANTS People, MaxClock   \* bound: seconds

ASSUME FriendsAssumption == MaxClock \in Nat

VARIABLES friends,    \* d->friends
          table,      \* the rows of the table
          dbActive,   \* settings_db_active
          notice,     \* pending_ipc: the person it is about, and why
          clock,
          unsaved     \* history: people whose last change is not in the table

friendVars == <<friends, table, dbActive, notice, clock, unsaved>>

Ids(s) == {s[i].id : i \in DOMAIN s}
IsFriend(p) == p \in Ids(friends)
Nobody == [why |-> "none", ids |-> {}]

IsNew(p) == ~IsFriend(p)

\* INSERT ... ON CONFLICT DO NOTHING
Insert(p) == IF \E r \in table : r.id = p THEN table ELSE table \cup {[id |-> p, at |-> clock]}
\* A mutant: the row stays
DeleteNothing(p) == table
Delete(p) == {r \in table : r.id # p}

\* an old row of p kept its date
Conflicts(p, new) == \E r \in new : r.id = p /\ r \in table

\* a change of the table, which fails or is skipped without a database
Saved(p, new) ==
    \/ dbActive /\ table' = new /\ unsaved' = IF Conflicts(p, new) THEN unsaved ELSE unsaved \ {p}
    \/ UNCHANGED table /\ unsaved' = unsaved \cup {p}

\* dashboard_confirm_add_friend
ConfirmAdd(p) ==
    /\ IsNew(p)
    /\ friends' = Append(friends, [id |-> p, at |-> clock])
    /\ Saved(p, Insert(p))
    /\ UNCHANGED <<dbActive, notice, clock>>

\* dashboard_request_remove_friend, dashboard_remove_friend: the first match
RemoveFriend(p) ==
    /\ IsFriend(p)
    /\ LET i == CHOOSE i \in DOMAIN friends :
                  friends[i].id = p /\ \A j \in 1 .. i - 1 : friends[j].id # p
       IN  friends' = RemoveAt(friends, i)
    /\ Saved(p, Delete(p))
    /\ UNCHANGED <<dbActive, notice, clock>>

\* dashboard_request_add_friend: the one pending request is overwritten
RequestAdd(p) ==
    /\ notice' = [why |-> "add", ids |-> {p}]
    /\ UNCHANGED <<friends, table, dbActive, clock, unsaved>>

\* dashboard_handle_reconnect_request: in a group of a hundred and more only a
\* friend is heard; it takes the place of whatever was pending
Reconnect(p, large) ==
    /\ large => IsFriend(p)
    /\ notice' = [why |-> "reconnect", ids |-> {p}]
    /\ UNCHANGED <<friends, table, dbActive, clock, unsaved>>

\* load_friends: ORDER BY added_at, ties in any order
Loaded == {s \in SetToSeqs(table) : \A i \in 1 .. Len(s) - 1 : s[i].at <= s[i + 1].at}

\* the process ends at any point and dashboard_init runs again: settings_db_init
\* opens the database or not, load_friends reads the table or fails
Restart ==
    /\ notice' = Nobody
    /\ \/ /\ dbActive' = TRUE
          /\ friends' \in Loaded
          /\ unsaved' = {}
       \/ /\ dbActive' \in BOOLEAN
          /\ friends' = <<>>
          /\ unsaved' = {r.id : r \in table}
    /\ UNCHANGED <<table, clock>>

Tick == clock < MaxClock /\ clock' = clock + 1 /\ UNCHANGED <<friends, table, dbActive, notice, unsaved>>

FriendsInit ==
    /\ friends = <<>> /\ table = {} /\ dbActive \in BOOLEAN
    /\ notice = Nobody /\ clock = 0 /\ unsaved = {}

FriendsNext ==
    \/ \E p \in People : ConfirmAdd(p) \/ RemoveFriend(p) \/ RequestAdd(p)
                         \/ \E large \in BOOLEAN : Reconnect(p, large)
    \/ Restart \/ Tick

FriendsSpec == FriendsInit /\ [][FriendsNext]_friendVars

----------------------------------------------------------------------------
(* Properties.                                                             *)

FriendsTypeOK ==
    /\ Ids(friends) \subseteq People /\ dbActive \in BOOLEAN
    /\ clock \in 0 .. MaxClock /\ notice.why \in {"none", "add", "reconnect"}

\* Nobody is a friend twice, whatever was loaded, added and removed before: the
\* removal takes out one entry only.
NobodyTwice == \A i, j \in DOMAIN friends : friends[i].id = friends[j].id => i = j

\* Memory and table differ only in people whose last change could not be saved.
TableFollows == \A p \in People \ unsaved : IsFriend(p) <=> \E r \in table : r.id = p

\* A restart that reads the table brings back everything that was saved, in the
\* order it had, as long as no two people were added in the same second.
RestartKeepsOrder ==
    [][Restart /\ dbActive' /\ unsaved = {} /\ friends' # <<>>
       /\ (\A i \in 1 .. Len(friends) - 1 : friends[i].at < friends[i + 1].at)
       => friends' = friends]_friendVars

\* The friend list and its table: nobody twice, different only where a write failed, and the
\* same after a restart.
FriendsSound == [](FriendsTypeOK /\ NobodyTwice /\ TableFollows) /\ RestartKeepsOrder
=============================================================================
