------------------------------ MODULE Registrar ------------------------------
(***************************************************************************)
(* One group registrar handle (gr_registrar_t): the DuckDB tables with the *)
(* group's members, roles, epochs, invites, settings and audit log, the    *)
(* cached header, and the threads that call the mutating API.              *)
(*                                                                         *)
(* Every mutator does the same things in the same order: refuse while the  *)
(* registrar is unverified, check the signer's permission, take db_lock,   *)
(* begin a transaction (saving the header), run its own SQL, append an     *)
(* audit entry (which bumps and saves the header), commit.  Some mutators  *)
(* check the permission BEFORE they take the lock; those are two actions   *)
(* here, the check and the change, with other threads free to run between. *)
(* Everything from GR_LOCK to the end of gr_audit_append is one action,    *)
(* because the lock keeps other threads out of the tables; the end of the  *)
(* transaction is another, because it may commit, fail to commit, be       *)
(* rolled back by any failing step, or never happen (a crash).             *)
(*                                                                         *)
(* A call that is refused changes nothing and is not an action.            *)
(***************************************************************************)
EXTENDS Integers, Sequences, FiniteSets
LOCAL INSTANCE TLC

CONSTANTS
    Peers,       \* peer ids (who is added, who signs)
    Owner,       \* header.owner_id
    Members,     \* who is active in the database the handle starts on
    Threads,     \* threads that share the handle
    Tokens,      \* invite verification tokens
    NoPeer, NoThread,
    Private,     \* group_type = GR_GROUP_PRIVATE
    PermSets,    \* the permission masks roles are given
    SettingOps,  \* the settings that are changed (a subset of DOMAIN Setting)
    MaxRoles,    \* GR_MAX_ROLES
    MaxEntries,  \* GR_AUDIT_MAX_BYTES / GR_AUDIT_EST_ROW_BYTES
    MaxVersion   \* bound on header.version

Permission == {"KICK_MEMBER", "BAN_MEMBER", "INVITE_MEMBER", "ADD_WEBAPP",
               "REMOVE_WEBAPP", "EDIT_ROLES", "EDIT_RETENTION", "EDIT_SERVERS",
               "ROTATE_EPOCH", "SIGN_REGISTRAR", "SET_GROUP_ICON",
               "SET_WEBAPP_ROLES"}

ASSUME PeerAssumption == Owner \in Members /\ Members \subseteq Peers
                         /\ NoPeer \notin Peers
ASSUME ThreadAssumption == NoThread \notin Threads
ASSUME PermAssumption == PermSets \subseteq SUBSET Permission /\ {} \in PermSets
ASSUME BoundAssumption ==
    /\ MaxRoles \in Nat /\ MaxEntries \in Nat \ {0} /\ MaxVersion \in Nat
    /\ Private \in BOOLEAN

VARIABLES
    db,         \* the tables as the one connection sees them
    disk,       \* the tables as last committed
    header,     \* reg->header, the cached header
    saved,      \* reg->txn_saved_header (dead, and cleared, outside a transaction)
    holder,     \* the thread inside GR_LOCK with a transaction open
    call,       \* what each thread is doing
    join,       \* reg->join_state->state, "NONE" when join_state is NULL
    unverified, \* history: was a join begun and not verified, across restarts
    diverged    \* history: did a COMMIT ever fail

vars == <<db, disk, header, saved, holder, call, join, unverified, diverged>>

Status == {"NONE", "ACTIVE", "KICKED", "BANNED", "LEFT"}
Rows == {"webapp", "server", "icon"}
Header == [version : Nat, epoch_id : Nat]
NoHeader == [version |-> 0, epoch_id |-> 0]
Invite == [made : BOOLEAN, invalidated : BOOLEAN, used_by : Peers \cup {NoPeer}]
NoInvite == [made |-> FALSE, invalidated |-> FALSE, used_by |-> NoPeer]

\* Calls that check gr_join_is_untrusted and so are closed to an unverified
\* registrar, and those whose permission is checked outside the lock.
CheckedOutside == {"role_add", "role_remove", "role_set_permissions",
                   "epoch_rotate", "webapp_add", "webapp_remove",
                   "webapp_update_perm_data", "webapp_update_role_mask",
                   "icon_set", "icon_remove", "retention_set", "sign",
                   "invite_create", "invite_invalidate"}
Governance == (CheckedOutside \ {"invite_invalidate"})
              \cup {"peer_add", "peer_kick", "peer_ban", "peer_leave",
                    "peer_set_role", "server_add", "server_remove"}
Open == {"invite_mark_used", "update_address", "observed_address"}

\* A call in progress; phase "checked" is between the permission check and
\* GR_LOCK, phase "txn" between gr_txn_begin and the end of the transaction.
Calls == [op : Governance \cup CheckedOutside \cup Open \cup {"none"},
          phase : {"idle", "checked", "txn"},
          by : Peers \cup {NoPeer}, role : Nat, perms : PermSets,
          token : Tokens \cup {NoPeer}]
Idle == [op |-> "none", phase |-> "idle", by |-> NoPeer, role |-> 0,
         perms |-> {}, token |-> NoPeer]
InTxn(op, s) == [Idle EXCEPT !.op = op, !.phase = "txn", !.by = s]

-----------------------------------------------------------------------------
(* gr_create: the header has version 1 and epoch 1, the owner is the first *)
(* peer, and the audit entry "group created" makes the version 2.  With    *)
(* more Members the handle starts on a database that already has them, as  *)
(* gr_open and gr_deserialize leave it.                                    *)
Created ==
    [status |-> [p \in Peers |-> IF p \in Members THEN "ACTIVE" ELSE "NONE"],
     role |-> [p \in Peers |-> 0],
     roles |-> [r \in {} |-> {}],
     epochs |-> {1}, expired |-> {},
     rows |-> {},
     invites |-> [k \in Tokens |-> NoInvite],
     audit |-> << [version |-> 2, prev |-> 0] >>,
     header |-> [version |-> 2, epoch_id |-> 1]]

Init ==
    /\ db = Created
    /\ disk = Created
    /\ header = Created.header
    /\ saved = NoHeader
    /\ holder = NoThread
    /\ call = [t \in Threads |-> Idle]
    /\ join = "NONE"
    /\ unverified = "no"
    /\ diverged = FALSE

-----------------------------------------------------------------------------
(* Permissions and the steps all mutators share.                           *)

\* A mutant: a kicked peer keeps its role's permissions (breaks NoStaleAuthority).
gr_get_peer_permissions_any_status(d, p) ==
    IF p = Owner THEN Permission
    ELSE IF d.role[p] \in DOMAIN d.roles THEN d.roles[d.role[p]] ELSE {}

gr_get_peer_permissions(d, p) ==
    IF p = Owner THEN Permission
    ELSE IF d.status[p] = "ACTIVE" /\ d.role[p] \in DOMAIN d.roles
         THEN d.roles[d.role[p]]
         ELSE {}

\* Only the owner is recognised without taking the lock.
gr_check_perm(t, s, perm) ==
    /\ s # Owner => holder \in {NoThread, t}
    /\ perm \in gr_get_peer_permissions(db, s)

gr_join_is_untrusted == join \notin {"NONE", "VERIFIED"}

\* The newest entry by registrar_version, whose hash the next entry carries.
LastVersion(d) ==
    LET vs == {0} \cup {d.audit[i].version : i \in DOMAIN d.audit}
    IN  CHOOSE v \in vs : \A w \in vs : w <= v

\* A mutant: ORDER BY the other way round: the newest entries are pruned (breaks
\* AuditIsOneChain).
Retained_oldest(audit) ==
    SubSeq(audit, 1, IF Len(audit) > MaxEntries THEN MaxEntries ELSE Len(audit))

\* gr_audit_enforce_retention_internal: delete the oldest excess entries.
Retained(audit) ==
    SubSeq(audit, (IF Len(audit) > MaxEntries THEN Len(audit) - MaxEntries ELSE 0) + 1,
           Len(audit))

gr_audit_append(d, h) ==
    [d EXCEPT !.audit = Retained(Append(@, [version |-> h.version,
                                            prev |-> LastVersion(d)])),
              !.header = h]

\* From gr_txn_begin to gr_audit_append: d is the database after the call's
\* own SQL, epoch the epoch_id the call leaves in the header.
Transact(t, c, d, epoch) ==
    /\ header.version < MaxVersion
    /\ holder' = t
    /\ call' = [call EXCEPT ![t] = c]
    /\ saved' = header
    /\ header' = [version |-> header.version + 1, epoch_id |-> epoch]
    /\ db' = gr_audit_append(d, [version |-> header.version + 1, epoch_id |-> epoch])
    /\ UNCHANGED <<disk, join, unverified, diverged>>

\* A mutator that takes the lock first and checks inside it.
EnterLocked(t) == call[t].phase = "idle" /\ holder = NoThread
Mutate(t, op, s, d) == Transact(t, InTxn(op, s), d, header.epoch_id)

\* A mutator that checks first: the check, and the entry after GR_LOCK.
Check(t, c, perm) ==
    /\ call[t].phase = "idle"
    /\ gr_check_perm(t, c.by, perm)
    /\ call' = [call EXCEPT ![t] = [c EXCEPT !.phase = "checked"]]
    /\ UNCHANGED <<db, disk, header, saved, holder, join, unverified, diverged>>
EnterChecked(t, op) ==
    /\ call[t].phase = "checked" /\ call[t].op = op
    /\ holder = NoThread
MutateChecked(t, d) == Mutate(t, call[t].op, call[t].by, d)
GiveUp(t) ==
    /\ call' = [call EXCEPT ![t] = Idle]
    /\ UNCHANGED <<db, disk, header, saved, holder, join, unverified, diverged>>
CallOf(op, s) == [Idle EXCEPT !.op = op, !.by = s]

-----------------------------------------------------------------------------
(* Members.                                                                *)

\* gr_peer_t comes from the caller; callers pass an ACTIVE peer with role_id 0
\* and its own key.  A KICKED peer is made ACTIVE and keeps its role_id.
gr_peer_add(t, s, p) ==
    /\ EnterLocked(t) /\ ~gr_join_is_untrusted
    /\ Private => gr_check_perm(t, s, "INVITE_MEMBER")
    /\ db.status[p] \in {"NONE", "KICKED"}
    /\ Mutate(t, "peer_add", s, [db EXCEPT !.status[p] = "ACTIVE"])

gr_peer_kick(t, s, p) ==
    /\ EnterLocked(t) /\ ~gr_join_is_untrusted
    /\ gr_check_perm(t, s, "KICK_MEMBER")
    /\ db.status[p] = "ACTIVE" /\ p # Owner
    /\ Mutate(t, "peer_kick", s, [db EXCEPT !.status[p] = "KICKED"])

gr_peer_ban(t, s, p) ==
    /\ EnterLocked(t) /\ ~gr_join_is_untrusted
    /\ gr_check_perm(t, s, "BAN_MEMBER")
    /\ db.status[p] # "NONE" /\ p # Owner
    /\ Mutate(t, "peer_ban", s, [db EXCEPT !.status[p] = "BANNED"])

gr_peer_leave(t, s) ==
    /\ EnterLocked(t) /\ ~gr_join_is_untrusted
    /\ s # Owner /\ db.status[s] = "ACTIVE"
    /\ Mutate(t, "peer_leave", s, [db EXCEPT !.status[s] = "LEFT"])

\* The UPDATE has "AND status=0": for a peer that is not active it changes no
\* row, and the call still appends its audit entry and succeeds.
gr_peer_set_role(t, s, p, r) ==
    /\ EnterLocked(t) /\ ~gr_join_is_untrusted
    /\ gr_check_perm(t, s, "EDIT_ROLES")
    /\ r = 0 \/ r \in DOMAIN db.roles
    /\ Mutate(t, "peer_set_role", s,
              [db EXCEPT !.role[p] = IF db.status[p] = "ACTIVE" THEN r ELSE @])

\* Addresses themselves are not modelled; the calls bump the version and log.
gr_peer_update_address(t, s) ==
    /\ EnterLocked(t)
    /\ Mutate(t, "update_address", s, db)

gr_peer_observed_address(t, s, p) ==
    /\ EnterLocked(t)
    /\ db.status[p] = "ACTIVE"
    /\ Mutate(t, "observed_address", s, db)

-----------------------------------------------------------------------------
(* Roles.  A new role takes the highest id in use plus one, so the id of a *)
(* removed role can be given out again.                                    *)

NextRoleId(d) == LET ids == {0} \cup DOMAIN d.roles
                 IN  (CHOOSE m \in ids : \A r \in ids : r <= m) + 1

WithRole(roles, r, perms) ==
    [i \in DOMAIN roles \cup {r} |-> IF i = r THEN perms ELSE roles[i]]
WithoutRole(roles, r) == [i \in DOMAIN roles \ {r} |-> roles[i]]

gr_role_check(t, op, s, r, perms) ==
    /\ ~gr_join_is_untrusted
    /\ Check(t, [CallOf(op, s) EXCEPT !.role = r, !.perms = perms], "EDIT_ROLES")

gr_role_add(t) ==
    /\ EnterChecked(t, "role_add")
    /\ Cardinality(DOMAIN db.roles) < MaxRoles
    /\ MutateChecked(t, [db EXCEPT !.roles = WithRole(@, NextRoleId(db), call[t].perms)])

\* A mutant: the peers that hold the role are not reset (breaks RolesHeldExist).
gr_role_remove_no_reset(t) ==
    /\ EnterChecked(t, "role_remove")
    /\ call[t].role \in DOMAIN db.roles
    /\ MutateChecked(t, [db EXCEPT !.roles = WithoutRole(@, call[t].role)])

gr_role_remove(t) ==
    /\ EnterChecked(t, "role_remove")
    /\ call[t].role \in DOMAIN db.roles
    /\ MutateChecked(t,
         [db EXCEPT !.role = [p \in Peers |-> IF @[p] = call[t].role THEN 0 ELSE @[p]],
                    !.roles = WithoutRole(@, call[t].role)])

\* The UPDATE of a role that does not exist changes no row and succeeds.
gr_role_set_permissions(t) ==
    /\ EnterChecked(t, "role_set_permissions")
    /\ MutateChecked(t,
         [db EXCEPT !.roles = IF call[t].role \in DOMAIN @
                              THEN WithRole(@, call[t].role, call[t].perms) ELSE @])

\* gr_role_add and gr_role_remove refuse under the lock what changed after
\* their permission check; the call ends with nothing done.
gr_role_refused(t) ==
    /\ \/ EnterChecked(t, "role_add") /\ Cardinality(DOMAIN db.roles) >= MaxRoles
       \/ EnterChecked(t, "role_remove") /\ call[t].role \notin DOMAIN db.roles
    /\ GiveUp(t)

-----------------------------------------------------------------------------
(* Epochs.  The id of the next epoch comes from the cached header.         *)

\* A mutant: not blocked while unverified (breaks GovernanceGated).
gr_epoch_rotate_check_ungated(t, s) ==
    Check(t, CallOf("epoch_rotate", s), "ROTATE_EPOCH")

gr_epoch_rotate_check(t, s) ==
    /\ ~gr_join_is_untrusted
    /\ Check(t, CallOf("epoch_rotate", s), "ROTATE_EPOCH")

gr_epoch_rotate(t) ==
    /\ EnterChecked(t, "epoch_rotate")
    /\ Transact(t, InTxn("epoch_rotate", call[t].by),
                [db EXCEPT !.expired = @ \cup ({header.epoch_id} \cap db.epochs),
                           !.epochs = @ \cup {header.epoch_id + 1}],
                header.epoch_id + 1)

-----------------------------------------------------------------------------
(* Web apps, the icon, the retention policy and the registrar's signature: *)
(* rows present or absent (contents are not modelled).  A setting needs    *)
(* some rows present and some absent, then adds or drops rows.             *)

Setting ==
    LET S(perm, present, absent, adds, drops) ==
          [perm |-> perm, present |-> present, absent |-> absent,
           adds |-> adds, drops |-> drops]
    IN [webapp_add              |-> S("ADD_WEBAPP", {}, {"webapp"}, {"webapp"}, {}),
        webapp_remove           |-> S("REMOVE_WEBAPP", {"webapp"}, {}, {}, {"webapp"}),
        webapp_update_perm_data |-> S("ADD_WEBAPP", {"webapp"}, {}, {}, {}),
        webapp_update_role_mask |-> S("SET_WEBAPP_ROLES", {"webapp"}, {}, {}, {}),
        icon_set                |-> S("SET_GROUP_ICON", {}, {}, {"icon"}, {}),
        icon_remove             |-> S("SET_GROUP_ICON", {}, {}, {}, {"icon"}),
        retention_set           |-> S("EDIT_RETENTION", {}, {}, {}, {}),
        sign                    |-> S("SIGN_REGISTRAR", {}, {}, {}, {})]

ASSUME SettingAssumption == SettingOps \subseteq DOMAIN Setting

gr_setting_check(t, op, s) ==
    /\ ~gr_join_is_untrusted
    /\ Check(t, CallOf(op, s), Setting[op].perm)

gr_setting_apply(t, op) ==
    /\ EnterChecked(t, op)
    /\ Setting[op].present \subseteq db.rows
    /\ Setting[op].absent \cap db.rows = {}
    /\ MutateChecked(t, [db EXCEPT !.rows = (@ \ Setting[op].drops) \cup Setting[op].adds])

\* A primary key conflict or an UPDATE that changes no row: rolled back.
gr_setting_refused(t, op) ==
    /\ EnterChecked(t, op)
    /\ \/ ~(Setting[op].present \subseteq db.rows)
       \/ Setting[op].absent \cap db.rows # {}
    /\ GiveUp(t)

\* Servers check the permission inside the lock.
gr_server_add(t, s) ==
    /\ EnterLocked(t) /\ ~gr_join_is_untrusted
    /\ gr_check_perm(t, s, "EDIT_SERVERS")
    /\ "server" \notin db.rows
    /\ Mutate(t, "server_add", s, [db EXCEPT !.rows = @ \cup {"server"}])

gr_server_remove(t, s) ==
    /\ EnterLocked(t) /\ ~gr_join_is_untrusted
    /\ gr_check_perm(t, s, "EDIT_SERVERS")
    /\ "server" \in db.rows
    /\ Mutate(t, "server_remove", s, [db EXCEPT !.rows = @ \ {"server"}])

-----------------------------------------------------------------------------
(* Invites.  The token is random, so it is one that was never made.        *)

gr_invite_create_check(t, s) ==
    /\ ~gr_join_is_untrusted
    /\ Check(t, CallOf("invite_create", s), "INVITE_MEMBER")

gr_invite_create(t, k) ==
    /\ EnterChecked(t, "invite_create")
    /\ ~db.invites[k].made
    /\ MutateChecked(t, [db EXCEPT !.invites[k].made = TRUE])

\* Not blocked while the registrar is unverified.
gr_invite_invalidate_check(t, s, k) ==
    Check(t, [CallOf("invite_invalidate", s) EXCEPT !.token = k], "INVITE_MEMBER")

gr_invite_invalidate(t) ==
    /\ EnterChecked(t, "invite_invalidate")
    /\ db.invites[call[t].token].made
    /\ MutateChecked(t, [db EXCEPT !.invites[call[t].token].invalidated = TRUE])

gr_invite_refused(t) ==
    /\ EnterChecked(t, "invite_invalidate")
    /\ ~db.invites[call[t].token].made
    /\ GiveUp(t)

\* gr_invite_check, the expiry time aside: an expired invite is refused, and a
\* refused call is not an action.
gr_invite_check(d, k) ==
    /\ d.invites[k].made
    /\ ~d.invites[k].invalidated
    /\ d.invites[k].used_by = NoPeer

gr_invite_mark_used(t, s, p, k) ==
    /\ EnterLocked(t)
    /\ gr_invite_check(db, k)
    /\ Mutate(t, "invite_mark_used", s, [db EXCEPT !.invites[k].used_by = p])

-----------------------------------------------------------------------------
(* The end of the transaction.                                             *)

End(t) ==
    /\ holder' = NoThread
    /\ call' = [call EXCEPT ![t] = Idle]
    /\ saved' = NoHeader

gr_txn_commit(t) ==
    /\ holder = t
    /\ disk' = db
    /\ End(t)
    /\ UNCHANGED <<db, header, join, unverified, diverged>>

\* Any step before COMMIT failed: the tables and the header go back.
gr_txn_rollback(t) ==
    /\ holder = t
    /\ db' = disk
    /\ header' = saved
    /\ End(t)
    /\ UNCHANGED <<disk, join, unverified, diverged>>

\* COMMIT failed.  gr_txn_commit has already counted txn_depth down to 0, so
\* the gr_txn_rollback that follows does nothing: DuckDB has dropped the
\* transaction, and the header keeps what the call put in it.  Bounded to one
\* failure.
gr_txn_commit_fails(t) ==
    /\ holder = t /\ ~diverged
    /\ db' = disk
    /\ diverged' = TRUE
    /\ End(t)
    /\ UNCHANGED <<disk, header, join, unverified>>

-----------------------------------------------------------------------------
(* Join verification, by its outcome (the votes are not modelled here),    *)
(* and the end of the process.                                             *)

\* yumi_client_join begins the verification on the database it has just set
\* up, before it starts any thread.
gr_join_begin(outcome) ==
    /\ join = "NONE" /\ header = Created.header
    /\ \A t \in Threads : call[t] = Idle
    /\ join' = outcome
    /\ unverified' = IF outcome = "VERIFIED" THEN "no" ELSE "joining"
    /\ UNCHANGED <<db, disk, header, saved, holder, call, diverged>>

gr_join_evaluate(outcome) ==
    /\ join = "PROVISIONAL"
    /\ join' = outcome
    /\ unverified' = IF outcome = "VERIFIED" THEN "no" ELSE unverified
    /\ UNCHANGED <<db, disk, header, saved, holder, call, diverged>>

\* A crash, or gr_close, and then gr_open: what was committed is read back,
\* join_state is NULL and the transaction state is zero.
gr_open ==
    /\ db' = disk
    /\ header' = disk.header
    /\ saved' = NoHeader
    /\ holder' = NoThread
    /\ call' = [t \in Threads |-> Idle]
    /\ join' = "NONE"
    /\ unverified' = IF unverified = "no" THEN "no" ELSE "reopened"
    /\ UNCHANGED <<disk, diverged>>

-----------------------------------------------------------------------------
Member(t) ==
    \E s \in Peers :
        \/ gr_peer_leave(t, s)
        \/ gr_peer_update_address(t, s)
        \/ \E p \in Peers :
              \/ gr_peer_add(t, s, p)
              \/ gr_peer_kick(t, s, p)
              \/ gr_peer_ban(t, s, p)
              \/ gr_peer_observed_address(t, s, p)
              \/ \E r \in {0} \cup DOMAIN db.roles : gr_peer_set_role(t, s, p, r)

Role(t) ==
    \/ \E s \in Peers :
         \/ \E perms \in PermSets : gr_role_check(t, "role_add", s, 0, perms)
         \/ \E r \in DOMAIN db.roles :
               \/ gr_role_check(t, "role_remove", s, r, {})
               \/ \E perms \in PermSets :
                     gr_role_check(t, "role_set_permissions", s, r, perms)
    \/ gr_role_add(t)
    \/ gr_role_remove(t)
    \/ gr_role_set_permissions(t)
    \/ gr_role_refused(t)

Epoch(t) == (\E s \in Peers : gr_epoch_rotate_check(t, s)) \/ gr_epoch_rotate(t)

Settings(t) ==
    \/ \E op \in SettingOps :
         \/ \E s \in Peers : gr_setting_check(t, op, s)
         \/ gr_setting_apply(t, op)
         \/ gr_setting_refused(t, op)
    \/ \E s \in Peers : gr_server_add(t, s) \/ gr_server_remove(t, s)

Invites(t) ==
    \/ \E s \in Peers :
         \/ gr_invite_create_check(t, s)
         \/ \E k \in Tokens :
               \/ gr_invite_invalidate_check(t, s, k)
               \/ \E p \in Peers : gr_invite_mark_used(t, s, p, k)
    \/ \E k \in Tokens : gr_invite_create(t, k)
    \/ gr_invite_invalidate(t)
    \/ gr_invite_refused(t)

Transaction(t) == gr_txn_commit(t) \/ gr_txn_rollback(t) \/ gr_txn_commit_fails(t)

Join ==
    \/ \E o \in {"PROVISIONAL", "VERIFIED", "FAILED"} : gr_join_begin(o)
    \/ \E o \in {"VERIFIED", "FAILED"} : gr_join_evaluate(o)

Next ==
    \/ \E t \in Threads : \/ Member(t) \/ Role(t) \/ Epoch(t)
                          \/ Settings(t) \/ Invites(t) \/ Transaction(t)
    \/ Join
    \/ gr_open

Spec == Init /\ [][Next]_vars

\* The threads are interchangeable (for TLC).
ThreadSymmetry == Permutations(Threads)

-----------------------------------------------------------------------------
(* Properties.                                                             *)

Entry == [version : Nat, prev : Nat]

\* The tables, whichever copy.
Database(d) ==
    /\ DOMAIN d = {"status", "role", "roles", "epochs", "expired", "rows",
                   "invites", "audit", "header"}
    /\ d.status \in [Peers -> Status]
    /\ d.role \in [Peers -> Nat]
    /\ DOMAIN d.roles \subseteq Nat \ {0}
    /\ \A r \in DOMAIN d.roles : d.roles[r] \in PermSets
    /\ d.epochs \subseteq Nat /\ d.expired \subseteq d.epochs
    /\ d.rows \subseteq Rows
    /\ d.invites \in [Tokens -> Invite]
    /\ d.audit \in Seq(Entry)
    /\ d.header \in Header

\* Types, and the mutual exclusion the lock gives: exactly the thread that
\* holds db_lock is inside a transaction.
TypeOK ==
    /\ Database(db) /\ Database(disk)
    /\ header \in Header /\ saved \in Header
    /\ holder \in Threads \cup {NoThread}
    /\ call \in [Threads -> Calls]
    /\ \A t \in Threads : call[t].phase = "txn" <=> holder = t
    /\ join \in {"NONE", "PROVISIONAL", "VERIFIED", "FAILED"}
    /\ unverified \in {"no", "joining", "reopened"}
    /\ diverged \in BOOLEAN

\* A ban is permanent: whatever threads, rollbacks and restarts do, a banned
\* peer stays banned (gr_peer_ban, "permanent, cannot rejoin").
BanIsPermanent ==
    [][\A p \in Peers : disk.status[p] = "BANNED" => disk'.status[p] = "BANNED"]_vars

\* Nobody holds a role that does not exist.  Role ids are reused, so a peer
\* left holding a removed id would inherit the next role that is given it
\* (gr_role_remove racing gr_peer_set_role and gr_role_add).
RolesHeldExist ==
    \A p \in Peers : db.role[p] # 0 => db.role[p] \in DOMAIN db.roles

\* What a signer may do by the tables d, said independently of
\* gr_get_peer_permissions.
MayAct(d, s, perm) ==
    s = Owner \/ \E r \in DOMAIN d.roles :
                   d.status[s] = "ACTIVE" /\ d.role[s] = r /\ perm \in d.roles[r]
LockedPerm == [peer_kick |-> "KICK_MEMBER", peer_ban |-> "BAN_MEMBER",
               peer_set_role |-> "EDIT_ROLES", server_add |-> "EDIT_SERVERS",
               server_remove |-> "EDIT_SERVERS"]

\* A kick, ban, role assignment or server change that reaches the disk was
\* signed by someone whom the committed tables it replaces still authorise:
\* no permission revoked by another thread is used (the calls that check
\* inside the lock).
NoStaleAuthority ==
    [][disk' # disk =>
         \A t \in Threads :
            holder = t /\ call[t].op \in DOMAIN LockedPerm
              => MayAct(disk, call[t].by, LockedPerm[call[t].op])]_vars

\* An invite is redeemed at most once: its used_by, once set, never changes,
\* however many threads race gr_invite_mark_used.
InviteRedeemedOnce ==
    [][\A k \in Tokens : disk.invites[k].used_by # NoPeer
          => disk'.invites[k].used_by = disk.invites[k].used_by]_vars

\* Unless a COMMIT failed, the cached header and the tables agree whenever no
\* transaction is open: rollbacks and restarts restore both together.
HeaderTracksDatabase ==
    holder = NoThread /\ ~diverged => db = disk /\ header = disk.header

\* Unless a COMMIT failed, exactly one stored epoch is unexpired and it is the
\* one gr_epoch_get_current looks up by the stored header's epoch_id.
OneCurrentEpoch ==
    ~diverged => disk.epochs \ disk.expired = {disk.header.epoch_id}

\* The audit log of one registrar never forks: versions rise, each entry is
\* chained to the one before it, and the newest is not ahead of the header,
\* through pruning, rollbacks, lost commits and restarts.
AuditIsOneChain ==
    /\ \A i \in 2 .. Len(db.audit) :
          /\ db.audit[i].prev = db.audit[i - 1].version
          /\ db.audit[i].version > db.audit[i - 1].version
    /\ db.audit[Len(db.audit)].version = db.header.version
    /\ db.header.version <= header.version

\* While the registrar stays open, no governance change is made between
\* gr_join_begin and the verdict VERIFIED.
GovernanceGated ==
    [][disk' # disk /\ unverified = "joining"
         => \A t \in Threads : holder = t => call[t].op \notin Governance]_vars

\* The tables agree with themselves and with the cached header: a role that is held exists
\* (its id would be given out again), and outside a transaction header and tables match
\* unless a COMMIT failed.
TablesAgree == RolesHeldExist /\ HeaderTracksDatabase

\* One stored epoch is current and the audit log is one chain, through pruning, rollbacks
\* and restarts.
LogAndEpochs == TypeOK /\ OneCurrentEpoch /\ AuditIsOneChain

\* What may never be written: a ban lifted, an invite redeemed a second time, a change by
\* someone whom the tables it replaces no longer authorise.
ChangesAreLawful == BanIsPermanent /\ InviteRedeemedOnce /\ NoStaleAuthority
=============================================================================
