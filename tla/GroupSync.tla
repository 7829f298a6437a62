------------------------------ MODULE GroupSync ------------------------------
(***************************************************************************)
(* How the registrars of a group's members follow each other: the sync     *)
(* channel of yumi_client.c (SYNC_VERSION, SYNC_DELTA_REQ, SYNC_DELTA and  *)
(* the poll of the sync worker) and the merge of group_registrar/          *)
(* serialize.c (gr_serialize_delta, gr_apply_delta).                       *)
(*                                                                         *)
(* A registrar is its tables as far as the merge tells them apart: a peer  *)
(* row has a status, a role and the two timestamps whose maximum decides   *)
(* who wrote last; a role has its modified_at; web apps and servers are    *)
(* upserted whatever their age; epoch keys are only added; the audit log   *)
(* is a set of entries, each with the registrar version and the time at which   *)
(* its actor made it.  Time is one global nanosecond clock that advances   *)
(* with every local change.  The SUDP channel delivers whole messages in   *)
(* order while the connection lasts.                                       *)
(***************************************************************************)
EXTENDS Integers, Sequences, FiniteSets, FiniteSetsExt, SequencesExt

CONSTANTS
    Nodes,      \* members of the group, each with its client and registrar
    Owner,      \* header.owner_id
    Admins,     \* members that start with role 1
    Links,      \* the pairs of members that can connect, as two-element sets
    Ops,        \* the local changes that are made
    Apps,       \* hashes of web apps
    Servers,    \* hashes of servers
    Actors,     \* the members that make local changes
    Targets,    \* the members that are banned or given another role
    MaxOps,     \* bound: local changes
    MaxDrops    \* bound: connections lost

ASSUME SyncAssumption ==
    /\ Owner \in Nodes /\ Admins \subseteq Nodes /\ Actors \cup Targets \subseteq Nodes
    /\ \A l \in Links : l \subseteq Nodes /\ Cardinality(l) = 2
    /\ MaxOps \in Nat /\ MaxDrops \in Nat
    /\ Ops \subseteq {"ban", "address", "set_role", "modify_role", "add_app",
                      "remove_app", "add_server", "remove_server", "rotate"}

VARIABLES
    now,    \* the time of the last local change
    db,     \* node -> its registrar
    last,   \* node -> c->last_broadcast_ver
    remote, \* node -> node -> remote_version of its slot for that peer
    up,     \* the links whose two slots are CONNECTED
    net,    \* node -> node -> messages from the first to the second
    drops,
    fresh,  \* history: links up, whose ends changed only through them since
    forked, \* history: were two entries made at the same version
    demoted \* history: was a member's role taken away

vars == <<now, db, last, remote, up, net, drops, fresh, forked, demoted>>

PeerRow(r) == [status |-> "active", role |-> r, seen |-> 0, removed |-> 0]

\* The snapshot every member got when it joined: one role, one epoch.
Snapshot ==
    [version |-> 1, epoch |-> 1,
     peers |-> [p \in Nodes |-> PeerRow(IF p \in Admins THEN 1 ELSE 0)],
     roles |-> [r \in {1} |-> 0], apps |-> {}, servers |-> {}, secrets |-> {},
     epochs |-> [i \in {1} |-> 0], audit |-> {}]

Init ==
    /\ now = 0
    /\ db = [n \in Nodes |-> Snapshot]
    /\ last = [n \in Nodes |-> Snapshot.version]
    /\ remote = [n \in Nodes |-> [m \in Nodes |-> 0]]
    /\ up = {} /\ fresh = {}
    /\ net = [n \in Nodes |-> [m \in Nodes |-> <<>>]]
    /\ drops = 0 /\ forked = FALSE /\ demoted = FALSE

-----------------------------------------------------------------------------
(***************************************************************************)
(* Local changes: what the mutators leave in the tables.                   *)
(***************************************************************************)
May(n) ==
    \/ n = Owner
    \/ /\ db[n].peers[n].status = "active"
       /\ db[n].peers[n].role \in DOMAIN db[n].roles

\* gr_audit_append: the version goes up and the entry carries it.
Changed(n, kind, d) ==
    LET e == [v |-> d.version + 1, ts |-> now + 1, actor |-> n, kind |-> kind]
    IN  /\ now < MaxOps /\ n \in Actors /\ kind \in Ops
        /\ now' = now + 1
        /\ db' = [db EXCEPT ![n] = [d EXCEPT !.version = e.v, !.audit = @ \cup {e}]]
        /\ fresh' = {l \in fresh : n \notin l}
        /\ forked' = (forked \/ \E m \in Nodes : \E f \in db[m].audit : f.v = e.v)
        /\ UNCHANGED <<last, remote, up, net, drops>>

Ban(n, p) ==
    /\ May(n) /\ p \notin {n, Owner} /\ db[n].peers[p].status = "active"
    /\ Changed(n, "ban", [db[n] EXCEPT !.peers[p] = [@ EXCEPT !.status = "banned",
                                                           !.removed = now + 1]])
    /\ UNCHANGED demoted

UpdateAddress(n) ==
    /\ db[n].peers[n].status = "active"
    /\ Changed(n, "address", [db[n] EXCEPT !.peers[n].seen = now + 1])
    /\ UNCHANGED demoted

\* ps_peer_set_role writes no timestamp.
SetRole(n, p) ==
    /\ May(n) /\ p # Owner /\ db[n].peers[p].status = "active"
    /\ \E r \in {0, 1} \ {db[n].peers[p].role} :
          /\ Changed(n, "set_role", [db[n] EXCEPT !.peers[p].role = r])
          /\ demoted' = (demoted \/ r = 0)

ModifyRole(n) ==
    /\ May(n)
    /\ Changed(n, "modify_role", [db[n] EXCEPT !.roles[1] = now + 1])
    /\ UNCHANGED demoted

AddApp(n, a) ==
    /\ May(n) /\ a \notin db[n].apps
    /\ Changed(n, "add_app", [db[n] EXCEPT !.apps = @ \cup {a}])
    /\ UNCHANGED demoted

RemoveApp(n, a) ==
    /\ May(n) /\ a \in db[n].apps
    /\ Changed(n, "remove_app", [db[n] EXCEPT !.apps = @ \ {a}])
    /\ UNCHANGED demoted

\* Only the member that adds a server has its content secret key.
AddServer(n, v) ==
    /\ May(n) /\ v \notin db[n].servers
    /\ Changed(n, "add_server", [db[n] EXCEPT !.servers = @ \cup {v},
                                             !.secrets = @ \cup {v}])
    /\ UNCHANGED demoted

RemoveServer(n, v) ==
    /\ May(n) /\ v \in db[n].servers
    /\ Changed(n, "remove_server", [db[n] EXCEPT !.servers = @ \ {v},
                                                !.secrets = @ \ {v}])
    /\ UNCHANGED demoted

\* An epoch we have keeps its key.
MergeEpochs(mine, theirs) ==
    [i \in DOMAIN mine \cup DOMAIN theirs |-> IF i \in DOMAIN mine THEN mine[i] ELSE theirs[i]]

\* The INSERT fails if a merge already brought a row with the next id.
RotateEpoch(n) ==
    /\ May(n) /\ db[n].epoch + 1 \notin DOMAIN db[n].epochs
    /\ Changed(n, "rotate", [db[n] EXCEPT !.epoch = @ + 1,
                                !.epochs = MergeEpochs(@, [i \in {db[n].epoch + 1} |-> now + 1])])
    /\ UNCHANGED demoted

-----------------------------------------------------------------------------
(***************************************************************************)
(* gr_serialize_delta and gr_apply_delta.                                  *)
(***************************************************************************)
\* Entries after a version, and all of the entity state but the secrets.
gr_serialize_delta(d, since) ==
    [d EXCEPT !.audit = {e \in @ : e.v > since}, !.secrets = {}]

Freshness(row) == Max({row.seen, row.removed})

\* Point-in-time authorisation from the sender's tables, else from ours.
WasActive(row, e) == row.status = "active" \/ (row.removed > 0 /\ e.ts < row.removed)
Permitted(d, e) ==
    LET row == d.peers[e.actor]
    IN  row.status = "active" /\ row.role \in DOMAIN d.roles
Authorized(local, d, e) ==
    LET row == d.peers[e.actor]
    IN  \/ e.kind = "address" \/ e.actor = Owner
        \/ IF WasActive(row, e) /\ row.role \in {0} \cup DOMAIN d.roles
           THEN row.role # 0
           ELSE Permitted(local, e)

\* Duplicates are skipped, entries without authority are rejected.
NewEntries(local, d) ==
    {e \in d.audit \ local.audit : Authorized(local, d, e)}

\* Last writer wins on a peer row; a tie keeps ours.
LastWriter(mine, theirs) == IF Freshness(theirs) > Freshness(mine) THEN theirs ELSE mine

\* A mutant: the zeroed key of the delta is written over ours.
MergeSecretsZeroed(mine, d) == (mine \ d.servers) \cup d.secrets

\* A server that comes with a zeroed key keeps the one we have.
MergeSecrets(mine, d) == mine \cup d.secrets

\* The highest version among what we had and what we accepted.
MergeVersion(local, d) == Max({local.version} \cup {e.v : e \in NewEntries(local, d)})

\* header.epoch_id is not merged.
gr_apply_delta(local, d) ==
    [version |-> MergeVersion(local, d),
     epoch |-> local.epoch,
     peers |-> [p \in Nodes |-> LastWriter(local.peers[p], d.peers[p])],
     roles |-> [r \in DOMAIN local.roles \cup DOMAIN d.roles |->
                    IF r \notin DOMAIN local.roles THEN d.roles[r]
                    ELSE IF r \notin DOMAIN d.roles THEN local.roles[r]
                    ELSE Max({local.roles[r], d.roles[r]})],
     apps |-> local.apps \cup d.apps,
     servers |-> local.servers \cup d.servers,
     secrets |-> MergeSecrets(local.secrets, d),
     epochs |-> MergeEpochs(local.epochs, d.epochs),
     audit |-> local.audit \cup NewEntries(local, d)]

-----------------------------------------------------------------------------
(***************************************************************************)
(* The sync channel.                                                       *)
(***************************************************************************)
Version(v) == [type |-> "VERSION", version |-> v]
DeltaReq(v) == [type |-> "DELTA_REQ", version |-> v]
Delta(d, since) == [type |-> "DELTA", db |-> gr_serialize_delta(d, since)]

\* chunked_send on a CONNECTED slot.
Sent(queues, n, m, msg) == [queues EXCEPT ![n][m] = Append(@, msg)]

\* What two members have of each other becomes nothing.
Forgotten(table, link, nothing) ==
    [n \in Nodes |-> [m \in Nodes |-> IF {n, m} = link THEN nothing ELSE table[n][m]]]

\* sudp_state_cb at both ends: fresh slots, and both tell their version.
Establish(n, m) ==
    /\ {n, m} \in Links \ up
    /\ up' = up \cup {{n, m}} /\ fresh' = fresh \cup {{n, m}}
    /\ net' = Sent(Sent(net, n, m, Version(db[n].version)),
                   m, n, Version(db[m].version))
    /\ UNCHANGED <<now, db, last, remote, drops, forked, demoted>>

\* Both slots are freed (slot_free): what was under way is gone.
Drop(n, m) ==
    /\ {n, m} \in up /\ drops < MaxDrops
    /\ drops' = drops + 1
    /\ up' = up \ {{n, m}} /\ fresh' = fresh \ {{n, m}}
    /\ net' = Forgotten(net, {n, m}, <<>>)
    /\ remote' = Forgotten(remote, {n, m}, 0)
    /\ UNCHANGED <<now, db, last, forked, demoted>>

\* Step 1 of the sync worker, and sync_broadcast_delta.
Poll(n) ==
    /\ db[n].version > last[n]
    /\ last' = [last EXCEPT ![n] = db[n].version]
    /\ net' = [net EXCEPT ![n] =
                  [m \in Nodes |->
                      IF {n, m} \in up /\ (remote[n][m] < last[n] \/ remote[n][m] = 0)
                      THEN Append(@[m], Delta(db[n], remote[n][m])) ELSE @[m]]]
    /\ UNCHANGED <<now, db, remote, up, drops, fresh, forked, demoted>>

Arrived(n, m, type) == net[n][m] # <<>> /\ Head(net[n][m]).type = type
Rest(n, m) == [net EXCEPT ![n][m] = Tail(@)]

\* A mutant: the answer to a peer that is behind goes to it from our version on.
HandleVersionLate(n, m) ==
    /\ Arrived(n, m, "VERSION")
    /\ LET v == Head(net[n][m]).version
       IN  /\ remote' = [remote EXCEPT ![m][n] = v]
           /\ net' = IF v < db[m].version
                     THEN Sent(Rest(n, m), m, n, Delta(db[m], db[m].version))
                     ELSE Rest(n, m)
    /\ UNCHANGED <<now, db, last, up, drops, fresh, forked, demoted>>

\* m learns the version of n: it asks if it is behind, pushes if it is ahead.
HandleVersion(n, m) ==
    /\ Arrived(n, m, "VERSION")
    /\ LET v == Head(net[n][m]).version
       IN  /\ remote' = [remote EXCEPT ![m][n] = v]
           /\ net' = CASE v > db[m].version ->
                            Sent(Rest(n, m), m, n, DeltaReq(db[m].version))
                       [] v < db[m].version ->
                            Sent(Rest(n, m), m, n, Delta(db[m], v))
                       [] OTHER -> Rest(n, m)
    /\ UNCHANGED <<now, db, last, up, drops, fresh, forked, demoted>>

HandleDeltaReq(n, m) ==
    /\ Arrived(n, m, "DELTA_REQ")
    /\ net' = Sent(Rest(n, m), m, n, Delta(db[m], Head(net[n][m]).version))
    /\ UNCHANGED <<now, db, last, remote, up, drops, fresh, forked, demoted>>

HandleDelta(n, m) ==
    /\ Arrived(n, m, "DELTA")
    /\ LET d == Head(net[n][m]).db
           merged == gr_apply_delta(db[m], d)
       IN  /\ db' = [db EXCEPT ![m] = merged]
           /\ last' = IF NewEntries(db[m], d) # {}
                      THEN [last EXCEPT ![m] = merged.version] ELSE last
           /\ fresh' = IF merged.version # db[m].version
                       THEN {l \in fresh : m \notin l \/ l = {n, m}} ELSE fresh
    /\ net' = Rest(n, m)
    /\ UNCHANGED <<now, remote, up, drops, forked, demoted>>

-----------------------------------------------------------------------------
Local(n) ==
    \/ UpdateAddress(n) \/ ModifyRole(n) \/ RotateEpoch(n)
    \/ \E p \in Targets : Ban(n, p) \/ SetRole(n, p)
    \/ \E a \in Apps : AddApp(n, a) \/ RemoveApp(n, a)
    \/ \E v \in Servers : AddServer(n, v) \/ RemoveServer(n, v)
HandleMessage(n, m) == HandleVersion(n, m) \/ HandleDeltaReq(n, m) \/ HandleDelta(n, m)

Next ==
    \E n \in Nodes :
        \/ Local(n) \/ Poll(n)
        \/ \E m \in Nodes : Establish(n, m) \/ Drop(n, m) \/ HandleMessage(n, m)

Spec == Init /\ [][Next]_vars

\* The sync worker polls, the channel delivers, and auto-connect reconnects.
Fairness ==
    \A n \in Nodes :
        /\ WF_vars(Poll(n))
        /\ \A m \in Nodes : WF_vars(HandleMessage(n, m)) /\ WF_vars(Establish(n, m))
FairSpec == Spec /\ Fairness

-----------------------------------------------------------------------------
TypeOK ==
    /\ now \in 0 .. MaxOps /\ drops \in 0 .. MaxDrops
    /\ fresh \subseteq up /\ up \subseteq Links
    /\ \A n \in Nodes :
          /\ db[n].version \in 1 .. MaxOps + 1 /\ last[n] \in 1 .. MaxOps + 1
          /\ \A p \in Nodes : Freshness(db[n].peers[p]) \in 0 .. now
          /\ \A m \in Nodes : remote[n][m] \in 0 .. MaxOps + 1

(* The version a registrar advertises is that of an entry it holds: it     *)
(* never claims changes it did not take, so a peer that is asked for what  *)
(* comes after it is asked for everything that is missing.                 *)
VersionBacked ==
    \A n \in Nodes : db[n].version = Max({1} \cup {e.v : e \in db[n].audit})

(* A connection that was set up after the last change of either end, and   *)
(* has nothing under way, leaves both ends at the same version unless a    *)
(* member lost its role (its own entries are then refused); and if no two  *)
(* members changed the group at once, with the same audit log and members. *)
FreshLinkAgrees ==
    \A n, m \in Nodes :
        ({n, m} \in fresh /\ net[n][m] = <<>> /\ net[m][n] = <<>> /\ ~demoted) =>
            /\ db[n].version = db[m].version
            /\ ~forked =>
                  /\ db[n].audit = db[m].audit
                  /\ \A p \in Nodes : db[n].peers[p].status = db[m].peers[p].status

(* A key once stored for an epoch stays, whoever else rotated to the same  *)
(* id, and the epoch the header names always has its key.                  *)
EpochKeysStay ==
    [][\A n \in Nodes : /\ db'[n].epoch \in DOMAIN db'[n].epochs
                        /\ \A i \in DOMAIN db[n].epochs :
                              /\ i \in DOMAIN db'[n].epochs
                              /\ db'[n].epochs[i] = db[n].epochs[i]]_vars

(* A merge never replaces what is known of a member by something older.    *)
RowsForward ==
    [][\A n, p \in Nodes :
          Freshness(db'[n].peers[p]) >= Freshness(db[n].peers[p])]_vars

(* Members that stop making changes stop talking: versions and deltas do   *)
(* not answer each other for ever.                                         *)
SyncQuiesces == <>[](\A n, m \in Nodes : net[n][m] = <<>>)

(* A member that has a server's secret key keeps it for as long as it      *)
(* knows the server: other members send the server without it.             *)
SecretsKept ==
    [][\A n \in Nodes : \A v \in db[n].secrets :
          v \in db'[n].servers => v \in db'[n].secrets]_vars

\* Members come to agree: a version is backed by what its registrar holds, a fresh connection
\* levels both ends, and the exchange ends.
ReplicasConverge == [](TypeOK /\ VersionBacked /\ FreshLinkAgrees) /\ SyncQuiesces

\* What a merge may never do: lose an epoch's key or a server's secret, or put an older row
\* of a member in the place of a newer one.
MergesKeep == EpochKeysStay /\ RowsForward /\ SecretsKept
==============================================================================
