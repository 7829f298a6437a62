--------------------------- MODULE RegistrarProofs ---------------------------
(***************************************************************************)
(* Proofs about Registrar, for any peers, threads, tokens and bounds.      *)
(*                                                                         *)
(* The argument has two halves.  Keeps(d, e) says what no mutator may do   *)
(* to the tables it finds (d) when it leaves others (e); one lemma per     *)
(* mutator shows it.  Every step of the system is then one of a few kinds: *)
(* it leaves the tables alone, it opens a transaction under Keeps, or it   *)
(* ends one; the invariants follow from the kinds.                         *)
(***************************************************************************)
EXTENDS Registrar, SequenceTheorems, WellFoundedInduction, TLAPS

Fields == {"status", "role", "roles", "epochs", "expired", "rows",
           "invites", "audit", "header"}

\* The part of Database that the arguments below need.
Tables(d) ==
    /\ DOMAIN d = Fields
    /\ DOMAIN d.status = Peers
    /\ DOMAIN d.role = Peers
    /\ DOMAIN d.invites = Tokens
    /\ \A k \in Tokens : DOMAIN d.invites[k] = {"made", "invalidated", "used_by"}

HeldRolesExist(d) == \A p \in Peers : d.role[p] # 0 => d.role[p] \in DOMAIN d.roles

BansLast(d, e) == \A p \in Peers : d.status[p] = "BANNED" => e.status[p] = "BANNED"

UsesLast(d, e) == \A k \in Tokens : d.invites[k].used_by # NoPeer
                      => e.invites[k].used_by = d.invites[k].used_by

Keeps(d, e) ==
    /\ Tables(e)
    /\ HeldRolesExist(d) => HeldRolesExist(e)
    /\ BansLast(d, e)
    /\ UsesLast(d, e)

-----------------------------------------------------------------------------
(* What the mutators do to the tables.                                     *)

\* A table other than the four that Keeps speaks of may change freely.
LEMMA KeepsOther ==
    ASSUME NEW d, NEW e, Tables(d), DOMAIN e = Fields,
           e.status = d.status, e.role = d.role, e.roles = d.roles,
           e.invites = d.invites
    PROVE  Keeps(d, e)
  BY DEF Keeps, Tables, HeldRolesExist, BansLast, UsesLast

\* gr_audit_append writes the log and the header and nothing else.
LEMMA AppendKeeps ==
    ASSUME NEW c, NEW d, NEW h, Keeps(c, d)
    PROVE  /\ Keeps(c, gr_audit_append(d, h))
           /\ gr_audit_append(d, h).header = h
<1> DEFINE e == gr_audit_append(d, h)
<1>1. /\ DOMAIN e = Fields /\ e.header = h
      /\ e.status = d.status /\ e.role = d.role /\ e.roles = d.roles
      /\ e.invites = d.invites
  BY DEF gr_audit_append, Keeps, Tables, Fields
<1> HIDE DEF e
<1>2. Keeps(c, e)
  BY <1>1 DEF Keeps, Tables, HeldRolesExist, BansLast, UsesLast
<1> QED BY <1>1, <1>2 DEF e

\* gr_peer_add, gr_peer_kick, gr_peer_ban and gr_peer_leave: a status is
\* stored over one that is not BANNED, or BANNED is stored.
LEMMA StatusKeeps ==
    ASSUME NEW d, Tables(d), NEW p \in Peers, NEW s,
           d.status[p] # "BANNED" \/ s = "BANNED"
    PROVE  Keeps(d, [d EXCEPT !.status[p] = s])
<1> DEFINE e == [d EXCEPT !.status[p] = s]
<1>1. /\ DOMAIN e = Fields
      /\ e.status = [d.status EXCEPT ![p] = s]
      /\ e.role = d.role /\ e.roles = d.roles /\ e.invites = d.invites
  BY DEF Tables, Fields
<1>2. DOMAIN e.status = Peers /\ BansLast(d, e)
  BY <1>1 DEF Tables, BansLast
<1> HIDE DEF e
<1>3. Keeps(d, e)
  BY <1>1, <1>2 DEF Keeps, Tables, HeldRolesExist, UsesLast
<1> QED BY <1>3 DEF e

\* gr_peer_set_role: the role given is none or one that exists.
LEMMA SetRoleKeeps ==
    ASSUME NEW d, Tables(d), NEW p \in Peers, NEW r,
           r = 0 \/ r \in DOMAIN d.roles, NEW active \in BOOLEAN
    PROVE  Keeps(d, [d EXCEPT !.role[p] = IF active THEN r ELSE @])
<1> DEFINE e == [d EXCEPT !.role[p] = IF active THEN r ELSE @]
<1>1. /\ DOMAIN e = Fields
      /\ e.role = [d.role EXCEPT ![p] = IF active THEN r ELSE @]
      /\ e.status = d.status /\ e.roles = d.roles /\ e.invites = d.invites
  BY DEF Tables, Fields
<1>2. /\ DOMAIN e.role = Peers
      /\ HeldRolesExist(d) => HeldRolesExist(e)
  BY <1>1 DEF Tables, HeldRolesExist
<1> HIDE DEF e
<1>3. Keeps(d, e)
  BY <1>1, <1>2 DEF Keeps, Tables, BansLast, UsesLast
<1> QED BY <1>3 DEF e

\* gr_role_add and gr_role_set_permissions: no role disappears.
LEMMA WithRoleKeeps ==
    ASSUME NEW d, Tables(d), NEW roles, DOMAIN d.roles \subseteq DOMAIN roles
    PROVE  Keeps(d, [d EXCEPT !.roles = roles])
<1> DEFINE e == [d EXCEPT !.roles = roles]
<1>1. /\ DOMAIN e = Fields /\ e.roles = roles
      /\ e.status = d.status /\ e.role = d.role /\ e.invites = d.invites
  BY DEF Tables, Fields
<1> HIDE DEF e
<1>2. Keeps(d, e)
  BY <1>1 DEF Keeps, Tables, HeldRolesExist, BansLast, UsesLast
<1> QED BY <1>2 DEF e

\* gr_role_remove: the peers that hold the role are reset with it.
LEMMA WithoutRoleKeeps ==
    ASSUME NEW d, Tables(d), NEW r
    PROVE  Keeps(d, [d EXCEPT !.role = [p \in Peers |-> IF @[p] = r THEN 0 ELSE @[p]],
                              !.roles = WithoutRole(@, r)])
<1> DEFINE e == [d EXCEPT !.role = [p \in Peers |-> IF @[p] = r THEN 0 ELSE @[p]],
                          !.roles = WithoutRole(@, r)]
<1>1. /\ DOMAIN e = Fields
      /\ e.role = [p \in Peers |-> IF d.role[p] = r THEN 0 ELSE d.role[p]]
      /\ e.roles = WithoutRole(d.roles, r)
      /\ e.status = d.status /\ e.invites = d.invites
  BY DEF Tables, Fields
<1> HIDE DEF e
<1>2. DOMAIN e.roles = DOMAIN d.roles \ {r}
  BY <1>1 DEF WithoutRole
<1>3. HeldRolesExist(d) => HeldRolesExist(e)
  BY <1>1, <1>2 DEF HeldRolesExist
<1>4. Keeps(d, e)
  BY <1>1, <1>3 DEF Keeps, Tables, BansLast, UsesLast
<1> QED BY <1>4 DEF e

\* gr_invite_create and gr_invite_invalidate leave used_by alone, and
\* gr_invite_mark_used sets it only where gr_invite_check found none.
LEMMA InviteKeeps ==
    ASSUME NEW d, Tables(d), NEW k, NEW v
    PROVE  /\ Keeps(d, [d EXCEPT !.invites[k].made = v])
           /\ Keeps(d, [d EXCEPT !.invites[k].invalidated = v])
           /\ d.invites[k].used_by = NoPeer
                => Keeps(d, [d EXCEPT !.invites[k].used_by = v])
<1> SUFFICES ASSUME NEW f \in {"made", "invalidated", "used_by"},
                    f = "used_by" => d.invites[k].used_by = NoPeer
             PROVE  Keeps(d, [d EXCEPT !.invites[k][f] = v])
  OBVIOUS
<1> DEFINE e == [d EXCEPT !.invites[k][f] = v]
<1>1. /\ DOMAIN e = Fields
      /\ e.invites = [d.invites EXCEPT ![k][f] = v]
      /\ e.status = d.status /\ e.role = d.role /\ e.roles = d.roles
  BY DEF Tables, Fields
<1> HIDE DEF e
<1>2. /\ DOMAIN e.invites = Tokens
      /\ \A i \in Tokens : i # k => e.invites[i] = d.invites[i]
      /\ k \in Tokens => e.invites[k] = [d.invites[k] EXCEPT ![f] = v]
  BY <1>1 DEF Tables
<1>3. k \in Tokens => /\ DOMAIN e.invites[k] = {"made", "invalidated", "used_by"}
                      /\ f # "used_by" => e.invites[k].used_by = d.invites[k].used_by
  BY <1>2 DEF Tables
<1>4. UsesLast(d, e)
  BY <1>2, <1>3 DEF UsesLast
<1>5. Keeps(d, e)
  BY <1>1, <1>2, <1>3, <1>4 DEF Keeps, Tables, HeldRolesExist, BansLast
<1> QED BY <1>5 DEF e

-----------------------------------------------------------------------------
(* The kinds of step.                                                      *)

\* The thread in a transaction is authorised by the tables on disk, when its
\* call is one of those that check inside the lock.
Authorised(d, c) == c.op \in DOMAIN LockedPerm => MayAct(d, c.by, LockedPerm[c.op])

Shape ==
    /\ Tables(db) /\ Tables(disk)
    /\ DOMAIN call = Threads
    /\ holder \in Threads \cup {NoThread}
    /\ \A t \in Threads : holder = t => call[t].phase = "txn"

Consistent ==
    /\ HeldRolesExist(db) /\ HeldRolesExist(disk)
    /\ BansLast(disk, db) /\ UsesLast(disk, db)
    /\ holder = NoThread => db = disk
    /\ holder # NoThread => header = db.header
    /\ ~diverged => IF holder = NoThread THEN header = disk.header
                                        ELSE saved = disk.header
    /\ \A t \in Threads : holder = t => Authorised(disk, call[t])

IInv == Shape /\ Consistent

Quiet ==
    /\ UNCHANGED <<db, disk, header, saved, holder, diverged>>
    /\ DOMAIN call' = Threads
    /\ \A t \in Threads : holder = t => call'[t] = call[t]

Begins(t) ==
    /\ holder = NoThread /\ holder' = t
    /\ saved' = header /\ header' = db'.header
    /\ Keeps(db, db')
    /\ DOMAIN call' = Threads
    /\ call'[t].phase = "txn" /\ Authorised(db, call'[t])
    /\ UNCHANGED <<disk, diverged>>

Ends(t) ==
    /\ gr_txn_commit(t) \/ gr_txn_rollback(t) \/ gr_txn_commit_fails(t)
    /\ DOMAIN call' = Threads

\* What a permission check under the lock leaves behind.
LEMMA CheckAuthorises ==
    ASSUME NEW t \in Threads, NEW s, NEW perm, gr_check_perm(t, s, perm)
    PROVE  MayAct(db, s, perm)
  BY DEF gr_check_perm, gr_get_peer_permissions, MayAct

\* The common part of all mutators.
LEMMA TransactBegins ==
    ASSUME Shape, NEW t \in Threads, holder = NoThread,
           NEW c, c.phase = "txn", Authorised(db, c),
           NEW d, Keeps(db, d), NEW epoch, Transact(t, c, d, epoch)
    PROVE  Begins(t)
<1>1. Keeps(db, db') /\ header' = db'.header
  BY AppendKeeps DEF Transact
<1>2. DOMAIN call' = Threads /\ call'[t] = c
  BY DEF Transact, Shape
<1> QED BY <1>1, <1>2 DEF Transact, Begins

LEMMA MutateBegins ==
    ASSUME Shape, NEW t \in Threads, holder = NoThread, NEW op, NEW s,
           op \in DOMAIN LockedPerm => MayAct(db, s, LockedPerm[op]),
           NEW d, Keeps(db, d), Mutate(t, op, s, d)
    PROVE  Begins(t)
<1> DEFINE c == InTxn(op, s)
<1>1. c.phase = "txn" /\ c.op = op /\ c.by = s
  BY DEF InTxn, Idle
<1>2. Transact(t, c, d, header.epoch_id)
  BY DEF Mutate
<1> HIDE DEF c
<1>3. Authorised(db, c)
  BY <1>1 DEF Authorised
<1> QED BY <1>1, <1>2, <1>3, TransactBegins

\* A check, or a call given up, disturbs no thread that is in a transaction.
LEMMA CheckIsQuiet ==
    ASSUME Shape, NEW t \in Threads, NEW c, NEW perm, Check(t, c, perm)
    PROVE  Quiet
  BY DEF Check, Shape, Quiet

LEMMA GiveUpIsQuiet ==
    ASSUME Shape, NEW t \in Threads, holder = NoThread, GiveUp(t)
    PROVE  Quiet
<1>1. DOMAIN call' = Threads
  BY DEF GiveUp, Shape
<1> QED BY <1>1, ThreadAssumption DEF GiveUp, Quiet

LEMMA LockedOps ==
    DOMAIN LockedPerm = {"peer_kick", "peer_ban", "peer_set_role", "server_add", "server_remove"}
  BY DEF LockedPerm

LEMMA SettingDomain ==
    DOMAIN Setting = {"webapp_add", "webapp_remove", "webapp_update_perm_data",
                      "webapp_update_role_mask", "icon_set", "icon_remove",
                      "retention_set", "sign"}
  BY DEF Setting

Kind ==
    \/ Quiet
    \/ \E t \in Threads : Begins(t) \/ Ends(t)
    \/ gr_open

LEMMA MemberKind == ASSUME Shape, NEW t \in Threads, Member(t) PROVE Kind
<1> USE DEF Kind
<1>1. ASSUME NEW s \in Peers, gr_peer_leave(t, s) PROVE Begins(t)
  <2>1. Keeps(db, [db EXCEPT !.status[s] = "LEFT"])
    BY <1>1, StatusKeeps DEF gr_peer_leave, Shape
  <2> QED BY <1>1, <2>1, MutateBegins, LockedOps DEF gr_peer_leave, EnterLocked
<1>2. ASSUME NEW s \in Peers,
             gr_peer_update_address(t, s) \/ \E p \in Peers : gr_peer_observed_address(t, s, p)
      PROVE  Begins(t)
  <2>1. Keeps(db, db)
    BY KeepsOther DEF Shape, Tables
  <2> QED BY <1>2, <2>1, MutateBegins, LockedOps
          DEF gr_peer_update_address, gr_peer_observed_address, EnterLocked
<1>3. ASSUME NEW s \in Peers, NEW p \in Peers, gr_peer_add(t, s, p) PROVE Begins(t)
  <2>1. Keeps(db, [db EXCEPT !.status[p] = "ACTIVE"])
    BY <1>3, StatusKeeps DEF gr_peer_add, Shape
  <2> QED BY <1>3, <2>1, MutateBegins, LockedOps DEF gr_peer_add, EnterLocked
<1>4. ASSUME NEW s \in Peers, NEW p \in Peers, gr_peer_kick(t, s, p) PROVE Begins(t)
  <2>1. Keeps(db, [db EXCEPT !.status[p] = "KICKED"])
    BY <1>4, StatusKeeps DEF gr_peer_kick, Shape
  <2>2. MayAct(db, s, LockedPerm["peer_kick"])
    BY <1>4, CheckAuthorises DEF gr_peer_kick, LockedPerm
  <2> QED BY <1>4, <2>1, <2>2, MutateBegins DEF gr_peer_kick, EnterLocked
<1>5. ASSUME NEW s \in Peers, NEW p \in Peers, gr_peer_ban(t, s, p) PROVE Begins(t)
  <2>1. Keeps(db, [db EXCEPT !.status[p] = "BANNED"])
    BY StatusKeeps DEF Shape
  <2>2. MayAct(db, s, LockedPerm["peer_ban"])
    BY <1>5, CheckAuthorises DEF gr_peer_ban, LockedPerm
  <2> QED BY <1>5, <2>1, <2>2, MutateBegins DEF gr_peer_ban, EnterLocked
<1>6. ASSUME NEW s \in Peers, NEW p \in Peers, NEW r, gr_peer_set_role(t, s, p, r)
      PROVE  Begins(t)
  <2> DEFINE d == [db EXCEPT !.role[p] = IF db.status[p] = "ACTIVE" THEN r ELSE @]
  <2>1. Keeps(db, d)
    BY <1>6, SetRoleKeeps DEF gr_peer_set_role, Shape
  <2>2. MayAct(db, s, LockedPerm["peer_set_role"])
    BY <1>6, CheckAuthorises DEF gr_peer_set_role, LockedPerm
  <2>3. holder = NoThread /\ Mutate(t, "peer_set_role", s, d)
    BY <1>6 DEF gr_peer_set_role, EnterLocked
  <2> HIDE DEF d
  <2> QED BY <2>1, <2>2, <2>3, MutateBegins
<1> QED BY <1>1, <1>2, <1>3, <1>4, <1>5, <1>6 DEF Member

LEMMA RoleKind == ASSUME Shape, NEW t \in Threads, Role(t) PROVE Kind
<1> USE DEF Kind
<1>1. ASSUME NEW op, NEW s, NEW r, NEW perms, gr_role_check(t, op, s, r, perms)
      PROVE  Quiet
  BY <1>1, CheckIsQuiet DEF gr_role_check
<1>2. CASE gr_role_add(t)
  <2> DEFINE roles == WithRole(db.roles, NextRoleId(db), call[t].perms)
             d == [db EXCEPT !.roles = roles]
  <2>1. Mutate(t, "role_add", call[t].by, d) /\ holder = NoThread
    BY <1>2 DEF gr_role_add, EnterChecked, MutateChecked
  <2>2. DOMAIN db.roles \subseteq DOMAIN roles
    BY DEF WithRole
  <2>3. Keeps(db, d)
    BY <2>2, WithRoleKeeps DEF Shape
  <2> HIDE DEF d
  <2> QED BY <2>1, <2>3, MutateBegins, LockedOps
<1>3. CASE gr_role_remove(t)
  <2> DEFINE r == call[t].role
             d == [db EXCEPT !.role = [p \in Peers |-> IF @[p] = r THEN 0 ELSE @[p]],
                             !.roles = WithoutRole(@, r)]
  <2>1. Mutate(t, "role_remove", call[t].by, d) /\ holder = NoThread
    BY <1>3 DEF gr_role_remove, EnterChecked, MutateChecked
  <2>2. Keeps(db, d)
    BY WithoutRoleKeeps DEF Shape
  <2> HIDE DEF d
  <2> QED BY <2>1, <2>2, MutateBegins, LockedOps
<1>4. CASE gr_role_set_permissions(t)
  <2> DEFINE roles == IF call[t].role \in DOMAIN db.roles
                      THEN WithRole(db.roles, call[t].role, call[t].perms) ELSE db.roles
             d == [db EXCEPT !.roles = roles]
  <2>1. Mutate(t, "role_set_permissions", call[t].by, d) /\ holder = NoThread
    BY <1>4 DEF gr_role_set_permissions, EnterChecked, MutateChecked
  <2>2. DOMAIN db.roles \subseteq DOMAIN roles
    BY DEF WithRole
  <2>3. Keeps(db, d)
    BY <2>2, WithRoleKeeps DEF Shape
  <2> HIDE DEF d
  <2> QED BY <2>1, <2>3, MutateBegins, LockedOps
<1>5. CASE gr_role_refused(t)
  BY <1>5, GiveUpIsQuiet DEF gr_role_refused, EnterChecked
<1> QED BY <1>1, <1>2, <1>3, <1>4, <1>5 DEF Role

LEMMA EpochKind == ASSUME Shape, NEW t \in Threads, Epoch(t) PROVE Kind
<1> USE DEF Kind
<1>1. ASSUME NEW s, gr_epoch_rotate_check(t, s) PROVE Quiet
  BY <1>1, CheckIsQuiet DEF gr_epoch_rotate_check
<1>2. CASE gr_epoch_rotate(t)
  <2> DEFINE d == [db EXCEPT !.expired = @ \cup ({header.epoch_id} \cap db.epochs),
                             !.epochs = @ \cup {header.epoch_id + 1}]
             c == InTxn("epoch_rotate", call[t].by)
  <2>1. Transact(t, c, d, header.epoch_id + 1) /\ holder = NoThread
    BY <1>2 DEF gr_epoch_rotate, EnterChecked
  <2>2. /\ DOMAIN d = Fields /\ d.status = db.status /\ d.role = db.role
        /\ d.roles = db.roles /\ d.invites = db.invites
    BY DEF Shape, Tables, Fields
  <2>3. c.phase = "txn" /\ Authorised(db, c)
    BY LockedOps DEF InTxn, Idle, Authorised
  <2> HIDE DEF d, c
  <2>4. Keeps(db, d)
    BY <2>2, KeepsOther DEF Shape
  <2> QED BY <2>1, <2>3, <2>4, TransactBegins
<1> QED BY <1>1, <1>2 DEF Epoch

LEMMA SettingsKind == ASSUME Shape, NEW t \in Threads, Settings(t) PROVE Kind
<1> USE DEF Kind
<1>0. ASSUME NEW rows PROVE Keeps(db, [db EXCEPT !.rows = rows])
  <2> DEFINE d == [db EXCEPT !.rows = rows]
  <2>1. /\ DOMAIN d = Fields /\ d.status = db.status /\ d.role = db.role
        /\ d.roles = db.roles /\ d.invites = db.invites
    BY DEF Shape, Tables, Fields
  <2> HIDE DEF d
  <2>2. Keeps(db, d)
    BY <2>1, KeepsOther DEF Shape
  <2> QED BY <2>2 DEF d
<1>1. ASSUME NEW op, NEW s, gr_setting_check(t, op, s) PROVE Quiet
  BY <1>1, CheckIsQuiet DEF gr_setting_check
<1>2. ASSUME NEW op \in SettingOps, gr_setting_apply(t, op) PROVE Begins(t)
  <2>1. op \notin DOMAIN LockedPerm
    BY SettingAssumption, SettingDomain, LockedOps
  <2>2. /\ Mutate(t, op, call[t].by,
                  [db EXCEPT !.rows = (@ \ Setting[op].drops) \cup Setting[op].adds])
        /\ holder = NoThread
    BY <1>2 DEF gr_setting_apply, EnterChecked, MutateChecked
  <2>3. Keeps(db, [db EXCEPT !.rows = (@ \ Setting[op].drops) \cup Setting[op].adds])
    BY <1>0
  <2> QED BY <2>1, <2>2, <2>3, MutateBegins
<1>3. ASSUME NEW op, gr_setting_refused(t, op) PROVE Quiet
  BY <1>3, GiveUpIsQuiet DEF gr_setting_refused, EnterChecked
<1>4. ASSUME NEW s \in Peers, gr_server_add(t, s) PROVE Begins(t)
  <2>1. Keeps(db, [db EXCEPT !.rows = @ \cup {"server"}])
    BY <1>0
  <2>2. MayAct(db, s, LockedPerm["server_add"])
    BY <1>4, CheckAuthorises DEF gr_server_add, LockedPerm
  <2> QED BY <1>4, <2>1, <2>2, MutateBegins DEF gr_server_add, EnterLocked
<1>5. ASSUME NEW s \in Peers, gr_server_remove(t, s) PROVE Begins(t)
  <2>1. Keeps(db, [db EXCEPT !.rows = @ \ {"server"}])
    BY <1>0
  <2>2. MayAct(db, s, LockedPerm["server_remove"])
    BY <1>5, CheckAuthorises DEF gr_server_remove, LockedPerm
  <2> QED BY <1>5, <2>1, <2>2, MutateBegins DEF gr_server_remove, EnterLocked
<1> QED BY <1>1, <1>2, <1>3, <1>4, <1>5 DEF Settings

LEMMA InvitesKind == ASSUME Shape, NEW t \in Threads, Invites(t) PROVE Kind
<1> USE DEF Kind
<1>1. ASSUME NEW s, NEW k,
             gr_invite_create_check(t, s) \/ gr_invite_invalidate_check(t, s, k)
      PROVE  Quiet
  BY <1>1, CheckIsQuiet DEF gr_invite_create_check, gr_invite_invalidate_check
<1>2. ASSUME NEW k \in Tokens, gr_invite_create(t, k) PROVE Begins(t)
  <2> DEFINE d == [db EXCEPT !.invites[k].made = TRUE]
  <2>1. Mutate(t, "invite_create", call[t].by, d) /\ holder = NoThread
    BY <1>2 DEF gr_invite_create, EnterChecked, MutateChecked
  <2>2. Keeps(db, d)
    BY InviteKeeps DEF Shape
  <2> HIDE DEF d
  <2> QED BY <2>1, <2>2, MutateBegins, LockedOps
<1>3. CASE gr_invite_invalidate(t)
  <2> DEFINE d == [db EXCEPT !.invites[call[t].token].invalidated = TRUE]
  <2>1. Mutate(t, "invite_invalidate", call[t].by, d) /\ holder = NoThread
    BY <1>3 DEF gr_invite_invalidate, EnterChecked, MutateChecked
  <2>2. Keeps(db, d)
    BY InviteKeeps DEF Shape
  <2> HIDE DEF d
  <2> QED BY <2>1, <2>2, MutateBegins, LockedOps
<1>4. CASE gr_invite_refused(t)
  BY <1>4, GiveUpIsQuiet DEF gr_invite_refused, EnterChecked
<1>5. ASSUME NEW s \in Peers, NEW p \in Peers, NEW k \in Tokens,
             gr_invite_mark_used(t, s, p, k)
      PROVE  Begins(t)
  <2> DEFINE d == [db EXCEPT !.invites[k].used_by = p]
  <2>1. Mutate(t, "invite_mark_used", s, d) /\ holder = NoThread
    BY <1>5 DEF gr_invite_mark_used, EnterLocked
  <2>2. Keeps(db, d)
    BY <1>5, InviteKeeps DEF gr_invite_mark_used, gr_invite_check, Shape
  <2> HIDE DEF d
  <2> QED BY <2>1, <2>2, MutateBegins, LockedOps
<1> QED BY <1>1, <1>2, <1>3, <1>4, <1>5 DEF Invites

\* Every step is of one of the kinds.
LEMMA StepKind == ASSUME Shape, Next PROVE Kind
<1>1. ASSUME NEW t \in Threads, Transaction(t) PROVE Ends(t)
  BY <1>1 DEF Transaction, gr_txn_commit, gr_txn_rollback, gr_txn_commit_fails,
              End, Ends, Shape
<1>2. ASSUME Join PROVE Quiet
  BY <1>2 DEF Join, gr_join_begin, gr_join_evaluate, Quiet, Shape
<1>3. ASSUME gr_open PROVE DOMAIN call' = Threads
  BY <1>3 DEF gr_open
<1> QED BY <1>1, <1>2, <1>3, MemberKind, RoleKind, EpochKind, SettingsKind, InvitesKind
        DEF Next, Kind, Ends

-----------------------------------------------------------------------------
(* The invariant.                                                          *)

LEMMA InitIInv == Init => IInv
<1> SUFFICES ASSUME Init PROVE IInv
  OBVIOUS
<1>1. /\ DOMAIN Created = Fields
      /\ Created.status = [p \in Peers |-> IF p \in Members THEN "ACTIVE" ELSE "NONE"]
      /\ Created.role = [p \in Peers |-> 0]
      /\ Created.invites = [k \in Tokens |-> NoInvite]
  BY DEF Created, Fields
<1>2. DOMAIN NoInvite = {"made", "invalidated", "used_by"}
  BY DEF NoInvite
<1>3. Tables(Created)
  BY <1>1, <1>2 DEF Tables
<1>4. HeldRolesExist(Created) /\ BansLast(Created, Created) /\ UsesLast(Created, Created)
  BY <1>1 DEF HeldRolesExist, BansLast, UsesLast
<1>5. Shape
  BY <1>3, ThreadAssumption DEF Init, Shape
<1>6. Consistent
  BY <1>4, ThreadAssumption DEF Init, Consistent
<1> QED BY <1>5, <1>6 DEF IInv

LEMMA NextIInv == IInv /\ [Next]_vars => IInv'
<1> SUFFICES ASSUME IInv, [Next]_vars PROVE IInv'
  OBVIOUS
<1> USE DEF IInv
<1>1. CASE UNCHANGED vars
  BY <1>1 DEF vars, Shape, Consistent, Tables, HeldRolesExist, BansLast, UsesLast,
              Authorised, MayAct
<1>2. CASE Quiet
  <2>1. Shape'
    BY <1>2 DEF Quiet, Shape, Tables
  <2>2. Consistent'
    BY <1>2 DEF Quiet, Consistent, HeldRolesExist, BansLast, UsesLast, Authorised, MayAct
  <2> QED BY <2>1, <2>2
<1>3. ASSUME NEW t \in Threads, Begins(t) PROVE IInv'
  <2>1. disk' = disk /\ db = disk /\ holder' = t /\ t # NoThread
    BY <1>3, ThreadAssumption DEF Begins, Consistent
  <2>2. Shape'
    BY <1>3, <2>1 DEF Begins, Shape, Keeps, Tables
  <2>3. HeldRolesExist(db)' /\ HeldRolesExist(disk)'
    BY <1>3, <2>1 DEF Begins, Keeps, Consistent, HeldRolesExist
  <2>4. BansLast(disk, db)' /\ UsesLast(disk, db)'
    BY <1>3, <2>1 DEF Begins, Keeps, BansLast, UsesLast
  <2>5. header' = db'.header /\ (~diverged' => saved' = disk'.header)
    BY <1>3, <2>1 DEF Begins, Consistent
  <2>6. \A u \in Threads : holder' = u => Authorised(disk, call[u])'
    BY <1>3, <2>1 DEF Begins, Authorised, MayAct
  <2> QED BY <2>1, <2>2, <2>3, <2>4, <2>5, <2>6 DEF Consistent
<1>4. ASSUME NEW t \in Threads, Ends(t) PROVE IInv'
  <2>1. holder = t /\ holder' = NoThread /\ t # NoThread
    BY <1>4, ThreadAssumption
       DEF Ends, gr_txn_commit, gr_txn_rollback, gr_txn_commit_fails, End
  <2>2. db' = disk' /\ (disk' = disk \/ disk' = db)
    BY <1>4 DEF Ends, gr_txn_commit, gr_txn_rollback, gr_txn_commit_fails
  <2>3. Shape'
    BY <1>4, <2>1, <2>2, ThreadAssumption DEF Ends, Shape, Tables
  <2>4. HeldRolesExist(db)' /\ HeldRolesExist(disk)'
    BY <2>2 DEF Consistent, HeldRolesExist
  <2>5. BansLast(disk, db)' /\ UsesLast(disk, db)'
    BY <2>2 DEF BansLast, UsesLast
  <2>6. ~diverged' => header' = disk'.header
    BY <1>4, <2>1 DEF Ends, gr_txn_commit, gr_txn_rollback, gr_txn_commit_fails, Consistent
  <2>7. \A u \in Threads : holder' # u
    BY <2>1, ThreadAssumption
  <2> QED BY <2>1, <2>2, <2>3, <2>4, <2>5, <2>6, <2>7 DEF Consistent
<1>5. CASE gr_open
  <2>1. /\ db' = disk /\ disk' = disk /\ header' = disk'.header
        /\ holder' = NoThread /\ DOMAIN call' = Threads
    BY <1>5 DEF gr_open
  <2>2. Shape'
    BY <2>1, ThreadAssumption DEF Shape, Tables
  <2>3. HeldRolesExist(db)' /\ HeldRolesExist(disk)'
    BY <2>1 DEF Consistent, HeldRolesExist
  <2>4. BansLast(disk, db)' /\ UsesLast(disk, db)'
    BY <2>1 DEF BansLast, UsesLast
  <2>5. \A u \in Threads : holder' # u
    BY <2>1, ThreadAssumption
  <2> QED BY <2>1, <2>2, <2>3, <2>4, <2>5 DEF Consistent
<1> QED BY <1>1, <1>2, <1>3, <1>4, <1>5, StepKind DEF Kind

\* IInv holds throughout: the shape of the tables, what may differ between the
\* tables on disk and those of the open transaction, and who opened it.
THEOREM Invariance == Spec => []IInv
  BY InitIInv, NextIInv, PTL DEF Spec

\* What a step may do to the tables on disk: nothing, or replace them by those
\* of the transaction that commits.
LEMMA DiskStep ==
    ASSUME IInv, [Next]_vars
    PROVE  \/ disk' = disk
           \/ disk' = db
<1>1. CASE UNCHANGED vars
  BY <1>1 DEF vars
<1>2. CASE Next
  <2>1. Kind
    BY <1>2, StepKind DEF IInv
  <2> QED BY <2>1 DEF Kind, Quiet, Begins, Ends, gr_open, gr_txn_commit,
                     gr_txn_rollback, gr_txn_commit_fails
<1> QED BY <1>1, <1>2

-----------------------------------------------------------------------------
(***************************************************************************)
(* The log and the epochs.  Every call either waits or opens a transaction *)
(* on tables that are sound, whose log it extends by one entry and whose   *)
(* epochs it leaves alone or rotates; rollbacks and restarts go back to    *)
(* tables of which the same was true.                                      *)
(***************************************************************************)
\* Role ids are bounded, so that the next one (NextRoleId) exists.
Sound(d) == Database(d) /\ \E n \in Nat : DOMAIN d.roles \subseteq 0 .. n

\* The log, with every entry ahead of all before it: what AuditIsOneChain says
\* of neighbours only.
Chain(d) ==
    /\ d.audit # <<>>
    /\ \A i, j \in 1 .. Len(d.audit) : i < j => d.audit[i].version < d.audit[j].version
    /\ \A i \in 2 .. Len(d.audit) : d.audit[i].prev = d.audit[i - 1].version
    /\ d.audit[Len(d.audit)].version = d.header.version

\* One epoch is current, and no later one has been begun.
Current(d) ==
    /\ d.epochs \ d.expired = {d.header.epoch_id}
    /\ \A e \in d.epochs : e <= d.header.epoch_id

\* Neither the log nor the epochs are written.
Apart(d, e) == e.audit = d.audit /\ e.epochs = d.epochs /\ e.expired = d.expired

Logged ==
    /\ TypeOK /\ Sound(db) /\ Sound(disk) /\ Chain(db) /\ Chain(disk)
    /\ holder = NoThread => db.header.version <= header.version
    /\ holder # NoThread => saved.version <= header.version
    /\ disk.header.version <= IF holder = NoThread THEN header.version ELSE saved.version
    /\ ~diverged => Current(db) /\ Current(disk)

\* A bounded set of naturals has a greatest member.
LEMMA Greatest ==
    ASSUME NEW n \in Nat, NEW T, T \subseteq 0 .. n, T # {}
    PROVE  \E m \in T : \A x \in T : x <= m
<1> DEFINE U == {n - x : x \in T}
           R == OpToRel(<, Nat)
<1>1. U \subseteq Nat /\ U # {}
  <2>1. PICK x \in T : TRUE
    OBVIOUS
  <2>2. n - x \in U
    OBVIOUS
  <2>3. \A y \in T : n - y \in Nat
    OBVIOUS
  <2> QED BY <2>2, <2>3
<1> HIDE DEF U
<1>2. PICK u \in U : \A y \in U : ~(<<y, u>> \in R)
  <2> HIDE DEF R
  <2>1. IsWellFoundedOn(R, Nat)
    BY NatLessThanWellFounded DEF R
  <2> QED BY <2>1, <1>1, WFMin
<1>3. \A y \in U : u <= y
  <2> SUFFICES ASSUME NEW y \in U PROVE u <= y
    OBVIOUS
  <2>1. u \in Nat /\ y \in Nat
    BY <1>1
  <2>2. ~(y < u)
    BY <2>1, <1>2 DEF OpToRel
  <2> QED BY <2>1, <2>2
<1>4. PICK m \in T : u = n - m
  BY DEF U
<1>5. \A x \in T : n - x \in U
  BY DEF U
<1> QED
  <2> SUFFICES ASSUME NEW x \in T PROVE x <= m
    BY <1>4
  <2>1. u <= n - x /\ x \in Int /\ m \in Int
    BY <1>3, <1>5
  <2> QED BY <1>4, <2>1

\* The next role id is a number above those in use (gr_role_add).
LEMMA NextRoleIdType ==
    ASSUME NEW d, Sound(d)
    PROVE  NextRoleId(d) \in Nat \ {0}
<1> DEFINE ids == {0} \cup DOMAIN d.roles
           top == CHOOSE x \in ids : \A r \in ids : r <= x
<1>1. PICK n \in Nat : ids \subseteq 0 .. n
  BY DEF Sound
<1>2. PICK m \in ids : \A r \in ids : r <= m
  BY <1>1, Greatest
<1>3. top \in ids
  BY <1>2
<1>4. NextRoleId(d) = top + 1
  BY DEF NextRoleId
<1> HIDE DEF top, ids
<1>5. top \in Nat
  BY <1>1, <1>3
<1> QED BY <1>4, <1>5

\* The entries of a log are entries.
LEMMA EntryType ==
    ASSUME NEW s \in Seq(Entry), NEW i \in 1 .. Len(s)
    PROVE  s[i] \in Entry /\ s[i].version \in Nat /\ s[i].prev \in Nat
<1>1. s[i] \in Entry
  OBVIOUS
<1> QED BY <1>1 DEF Entry

\* The newest entry is the last one (gr_audit_append's SELECT ... ORDER BY
\* registrar_version DESC LIMIT 1).
LEMMA NewestIsLast ==
    ASSUME NEW d, Database(d), Chain(d)
    PROVE  LastVersion(d) = d.audit[Len(d.audit)].version
<1> DEFINE a == d.audit
           vs == {0} \cup {a[i].version : i \in DOMAIN a}
           last == a[Len(a)].version
<1>1. a \in Seq(Entry) /\ Len(a) \in 1 .. Len(a)
  BY DEF Database, Chain
<1>2. \A i \in DOMAIN a : a[i].version \in Nat
  BY <1>1, EntryType
<1>3. last \in vs /\ last \in Nat /\ vs \subseteq Nat
  BY <1>1, <1>2
<1>4. \A w \in vs : w <= last
  BY <1>1, <1>2, <1>3 DEF Chain
<1> HIDE DEF vs, last
<1>5. \A v \in vs : (\A w \in vs : w <= v) => v = last
  BY <1>3, <1>4
<1> QED BY <1>3, <1>4, <1>5 DEF LastVersion, vs, last

\* Pruning keeps the newest entries, in order (gr_audit_enforce_retention_internal).
LEMMA RetainedSuffix ==
    ASSUME NEW s \in Seq(Entry), s # <<>>
    PROVE  /\ Retained(s) \in Seq(Entry)
           /\ \E k \in 1 .. Len(s) :
                /\ Len(Retained(s)) = Len(s) - k + 1
                /\ \A i \in 1 .. Len(s) - k + 1 : Retained(s)[i] = s[k + i - 1]
<1> DEFINE k == (IF Len(s) > MaxEntries THEN Len(s) - MaxEntries ELSE 0) + 1
<1>1. k \in 1 .. Len(s) /\ Len(s) \in Nat
  BY BoundAssumption
<1>2. Retained(s) = SubSeq(s, k, Len(s))
  BY DEF Retained
<1>3. \A i \in k .. Len(s) : s[i] \in Entry
  BY <1>1
<1> HIDE DEF k
<1> QED BY <1>1, <1>2, <1>3, SubSeqProperties

\* gr_audit_append with a version past the newest extends the chain by one entry.
LEMMA AppendSound ==
    ASSUME NEW c, Database(c), Chain(c),
           NEW d, Sound(d), d.audit = c.audit,
           NEW h \in Header, c.header.version < h.version
    PROVE  /\ Sound(gr_audit_append(d, h)) /\ Chain(gr_audit_append(d, h))
           /\ gr_audit_append(d, h).header = h
           /\ gr_audit_append(d, h).epochs = d.epochs
           /\ gr_audit_append(d, h).expired = d.expired
<1> DEFINE e == gr_audit_append(d, h)
           entry == [version |-> h.version, prev |-> LastVersion(d)]
           s == Append(c.audit, entry)
           n == Len(c.audit)
<1>1. c.audit \in Seq(Entry) /\ n \in Nat \ {0} /\ c.header.version \in Nat
  BY DEF Database, Chain, Header
<1>2. LastVersion(d) = c.audit[n].version /\ c.audit[n].version = c.header.version
  <2>1. LastVersion(d) = LastVersion(c)
    BY DEF LastVersion
  <2> QED BY <2>1, NewestIsLast DEF Chain
<1>3. entry \in Entry /\ entry.version = h.version /\ entry.prev = c.audit[n].version
  BY <1>1, <1>2 DEF Entry, Header
<1>4. /\ s \in Seq(Entry) /\ s # <<>> /\ Len(s) = n + 1 /\ s[n + 1] = entry
      /\ \A i \in 1 .. n : s[i] = c.audit[i]
  BY <1>1, <1>3
<1>5. /\ e.audit = Retained(s) /\ e.header = h
      /\ DOMAIN e = DOMAIN d /\ e.status = d.status /\ e.role = d.role
      /\ e.roles = d.roles /\ e.epochs = d.epochs /\ e.expired = d.expired
      /\ e.rows = d.rows /\ e.invites = d.invites
  BY DEF gr_audit_append, Sound, Database
<1> HIDE DEF e, s, entry
<1>6. /\ \A i, j \in 1 .. Len(s) : i < j => s[i].version < s[j].version
      /\ \A i \in 2 .. Len(s) : s[i].prev = s[i - 1].version
      /\ s[Len(s)].version = h.version
  <2>0. \A i \in 1 .. n : c.audit[i].version \in Nat
    BY <1>1, EntryType
  <2>1. \A i \in 1 .. n : c.audit[i].version <= c.audit[n].version
    BY <1>1, <2>0 DEF Chain
  <2>2. \A i \in 1 .. n : s[i].version < h.version
    <3> SUFFICES ASSUME NEW i \in 1 .. n PROVE s[i].version < h.version
      OBVIOUS
    <3>1. h.version \in Nat /\ c.audit[n].version < h.version
      BY <1>2 DEF Header
    <3>2. s[i] = c.audit[i] /\ c.audit[i].version <= c.audit[n].version
      BY <1>4, <2>1
    <3>3. c.audit[i].version \in Nat /\ c.audit[n].version \in Nat
      BY <1>1, <2>0
    <3> QED BY <3>1, <3>2, <3>3
  <2>3. ASSUME NEW i \in 1 .. Len(s), NEW j \in 1 .. Len(s), i < j
        PROVE  s[i].version < s[j].version
    <3>0. i \in 1 .. n /\ (j \in 1 .. n \/ j = n + 1)
      BY <1>1, <1>4, <2>3
    <3>1. CASE j = n + 1
      BY <1>3, <1>4, <2>2, <3>0, <3>1
    <3>2. CASE j \in 1 .. n
      <4>1. s[i] = c.audit[i] /\ s[j] = c.audit[j]
        BY <1>4, <3>0, <3>2
      <4> QED BY <2>3, <3>0, <3>2, <4>1 DEF Chain
    <3> QED BY <3>0, <3>1, <3>2
  <2>4. ASSUME NEW i \in 2 .. Len(s) PROVE s[i].prev = s[i - 1].version
    <3>0. (i \in 2 .. n \/ i = n + 1) /\ i - 1 \in 1 .. n
      BY <1>1, <1>4
    <3>1. CASE i = n + 1
      <4>1. i - 1 = n
        BY <1>1, <3>1
      <4> QED BY <1>3, <1>4, <3>0, <3>1, <4>1
    <3>2. CASE i \in 2 .. n
      <4>1. s[i] = c.audit[i] /\ s[i - 1] = c.audit[i - 1]
        BY <1>1, <1>4, <3>0, <3>2
      <4> QED BY <3>2, <4>1 DEF Chain
    <3> QED BY <3>0, <3>1, <3>2
  <2> QED BY <1>3, <1>4, <2>3, <2>4
<1>7. PICK k \in 1 .. Len(s) :
         /\ Len(e.audit) = Len(s) - k + 1
         /\ \A i \in 1 .. Len(s) - k + 1 : e.audit[i] = s[k + i - 1]
  BY <1>4, <1>5, RetainedSuffix
<1>a. Len(s) \in Nat /\ k \in Nat /\ 1 <= k /\ k <= Len(s)
  BY <1>1, <1>4
<1>8. e.audit \in Seq(Entry)
  BY <1>4, <1>5, RetainedSuffix
<1>9. Chain(e)
  <2>1. Len(e.audit) \in Nat \ {0} /\ e.audit # <<>>
    BY <1>4, <1>7, <1>8
  <2>2. ASSUME NEW i \in 1 .. Len(e.audit), NEW j \in 1 .. Len(e.audit), i < j
        PROVE  e.audit[i].version < e.audit[j].version
    <3>1. /\ k + i - 1 \in 1 .. Len(s) /\ k + j - 1 \in 1 .. Len(s)
          /\ k + i - 1 < k + j - 1
      BY <1>7, <1>a, <2>2
    <3>2. e.audit[i] = s[k + i - 1] /\ e.audit[j] = s[k + j - 1]
      BY <1>7
    <3> QED BY <1>6, <3>1, <3>2
  <2>3. ASSUME NEW i \in 2 .. Len(e.audit) PROVE e.audit[i].prev = e.audit[i - 1].version
    <3>1. k + i - 1 \in 2 .. Len(s) /\ k + (i - 1) - 1 = (k + i - 1) - 1
      BY <1>7, <1>a
    <3>2. e.audit[i] = s[k + i - 1] /\ e.audit[i - 1] = s[k + (i - 1) - 1]
      BY <1>7, <1>a
    <3> QED BY <1>6, <3>1, <3>2
  <2>4. e.audit[Len(e.audit)] = s[Len(s)]
    <3>1. Len(e.audit) \in 1 .. Len(s) - k + 1 /\ k + Len(e.audit) - 1 = Len(s)
      BY <1>7, <1>a
    <3> QED BY <1>7, <3>1
  <2> QED BY <1>5, <1>6, <2>1, <2>2, <2>3, <2>4 DEF Chain
<1>10. Sound(e)
  BY <1>5, <1>8 DEF Sound, Database
<1> QED BY <1>5, <1>9, <1>10 DEF e

-----------------------------------------------------------------------------
(* What the mutators do to sound tables.                                   *)

\* Tables that differ from sound ones in one column of a right type are sound.
LEMMA ColumnSound ==
    ASSUME NEW d, Sound(d), NEW e, DOMAIN e = DOMAIN d, e.header = d.header, Apart(d, e),
           e.status \in [Peers -> Status], e.role \in [Peers -> Nat],
           DOMAIN e.roles \subseteq Nat \ {0}, \E n \in Nat : DOMAIN e.roles \subseteq 0 .. n,
           \A r \in DOMAIN e.roles : e.roles[r] \in PermSets,
           e.rows \subseteq Rows, e.invites \in [Tokens -> Invite]
    PROVE  Sound(e)
<1>1. Database(e)
  BY DEF Sound, Database, Apart
<1> QED BY <1>1 DEF Sound

LEMMA StatusSound ==
    ASSUME NEW d, Sound(d), NEW p \in Peers, NEW s \in Status
    PROVE  Sound([d EXCEPT !.status[p] = s]) /\ Apart(d, [d EXCEPT !.status[p] = s])
<1> DEFINE e == [d EXCEPT !.status[p] = s]
<1>1. /\ DOMAIN e = DOMAIN d /\ e.header = d.header /\ Apart(d, e)
      /\ e.status = [d.status EXCEPT ![p] = s] /\ e.role = d.role /\ e.roles = d.roles
      /\ e.rows = d.rows /\ e.invites = d.invites
  BY DEF Sound, Database, Apart
<1> HIDE DEF e
<1>2. e.status \in [Peers -> Status]
  BY <1>1 DEF Sound, Database
<1>3. Sound(e)
  BY <1>1, <1>2, ColumnSound DEF Sound, Database
<1> QED BY <1>1, <1>3 DEF e

LEMMA SetRoleSound ==
    ASSUME NEW d, Sound(d), NEW p \in Peers, NEW r, r = 0 \/ r \in DOMAIN d.roles,
           NEW active \in BOOLEAN
    PROVE  /\ Sound([d EXCEPT !.role[p] = IF active THEN r ELSE @])
           /\ Apart(d, [d EXCEPT !.role[p] = IF active THEN r ELSE @])
<1> DEFINE e == [d EXCEPT !.role[p] = IF active THEN r ELSE @]
<1>1. /\ DOMAIN e = DOMAIN d /\ e.header = d.header /\ Apart(d, e)
      /\ e.role = [d.role EXCEPT ![p] = IF active THEN r ELSE @]
      /\ e.status = d.status /\ e.roles = d.roles
      /\ e.rows = d.rows /\ e.invites = d.invites
  BY DEF Sound, Database, Apart
<1>2. r \in Nat
  BY DEF Sound, Database
<1> HIDE DEF e
<1>3. e.role \in [Peers -> Nat]
  BY <1>1, <1>2 DEF Sound, Database
<1>4. Sound(e)
  BY <1>1, <1>3, ColumnSound DEF Sound, Database
<1> QED BY <1>1, <1>4 DEF e

LEMMA WithRoleSound ==
    ASSUME NEW d, Sound(d), NEW r \in Nat \ {0}, NEW perms \in PermSets
    PROVE  /\ Sound([d EXCEPT !.roles = WithRole(d.roles, r, perms)])
           /\ Apart(d, [d EXCEPT !.roles = WithRole(d.roles, r, perms)])
<1> DEFINE e == [d EXCEPT !.roles = WithRole(d.roles, r, perms)]
<1>1. /\ DOMAIN e = DOMAIN d /\ e.header = d.header /\ Apart(d, e)
      /\ e.roles = [i \in DOMAIN d.roles \cup {r} |-> IF i = r THEN perms ELSE d.roles[i]]
      /\ e.status = d.status /\ e.role = d.role
      /\ e.rows = d.rows /\ e.invites = d.invites
  BY DEF Sound, Database, Apart, WithRole
<1> HIDE DEF e
<1>2. \E n \in Nat : DOMAIN e.roles \subseteq 0 .. n
  <2>1. PICK n \in Nat : DOMAIN d.roles \subseteq 0 .. n
    BY DEF Sound
  <2>2. DOMAIN e.roles \subseteq 0 .. n + r
    BY <1>1, <2>1
  <2> QED BY <2>2
<1>3. DOMAIN e.roles \subseteq Nat \ {0} /\ \A i \in DOMAIN e.roles : e.roles[i] \in PermSets
  BY <1>1 DEF Sound, Database
<1>4. Sound(e)
  BY <1>1, <1>2, <1>3, ColumnSound DEF Sound, Database
<1> QED BY <1>1, <1>4 DEF e

LEMMA WithoutRoleSound ==
    ASSUME NEW d, Sound(d), NEW r
    PROVE  LET e == [d EXCEPT !.role = [p \in Peers |-> IF @[p] = r THEN 0 ELSE @[p]],
                              !.roles = WithoutRole(@, r)]
           IN  Sound(e) /\ Apart(d, e)
<1> DEFINE e == [d EXCEPT !.role = [p \in Peers |-> IF @[p] = r THEN 0 ELSE @[p]],
                          !.roles = WithoutRole(@, r)]
<1>1. /\ DOMAIN e = DOMAIN d /\ e.header = d.header /\ Apart(d, e)
      /\ e.role = [p \in Peers |-> IF d.role[p] = r THEN 0 ELSE d.role[p]]
      /\ e.roles = [i \in DOMAIN d.roles \ {r} |-> d.roles[i]]
      /\ e.status = d.status /\ e.rows = d.rows /\ e.invites = d.invites
  BY DEF Sound, Database, Apart, WithoutRole
<1> HIDE DEF e
<1>2. e.role \in [Peers -> Nat]
  BY <1>1 DEF Sound, Database
<1>3. /\ DOMAIN e.roles \subseteq Nat \ {0} /\ \A i \in DOMAIN e.roles : e.roles[i] \in PermSets
      /\ \E n \in Nat : DOMAIN e.roles \subseteq 0 .. n
  BY <1>1 DEF Sound, Database
<1>4. Sound(e)
  BY <1>1, <1>2, <1>3, ColumnSound DEF Sound, Database
<1> QED BY <1>1, <1>4 DEF e

LEMMA RowsSound ==
    ASSUME NEW d, Sound(d), NEW rows, rows \subseteq Rows
    PROVE  Sound([d EXCEPT !.rows = rows]) /\ Apart(d, [d EXCEPT !.rows = rows])
<1> DEFINE e == [d EXCEPT !.rows = rows]
<1>1. /\ DOMAIN e = DOMAIN d /\ e.header = d.header /\ Apart(d, e)
      /\ e.rows = rows /\ e.status = d.status /\ e.role = d.role /\ e.roles = d.roles
      /\ e.invites = d.invites
  BY DEF Sound, Database, Apart
<1> HIDE DEF e
<1>2. Sound(e)
  BY <1>1, ColumnSound DEF Sound, Database
<1> QED BY <1>1, <1>2 DEF e

LEMMA InviteSound ==
    ASSUME NEW d, Sound(d), NEW k
    PROVE  /\ Sound([d EXCEPT !.invites[k].made = TRUE])
           /\ Apart(d, [d EXCEPT !.invites[k].made = TRUE])
           /\ Sound([d EXCEPT !.invites[k].invalidated = TRUE])
           /\ Apart(d, [d EXCEPT !.invites[k].invalidated = TRUE])
           /\ \A p \in Peers : /\ Sound([d EXCEPT !.invites[k].used_by = p])
                               /\ Apart(d, [d EXCEPT !.invites[k].used_by = p])
<1> SUFFICES ASSUME NEW f, NEW v,
                    \/ f \in {"made", "invalidated"} /\ v = TRUE
                    \/ f = "used_by" /\ v \in Peers
             PROVE  /\ Sound([d EXCEPT !.invites[k][f] = v])
                    /\ Apart(d, [d EXCEPT !.invites[k][f] = v])
  OBVIOUS
<1> DEFINE e == [d EXCEPT !.invites[k][f] = v]
<1>1. /\ DOMAIN e = DOMAIN d /\ e.header = d.header /\ Apart(d, e)
      /\ e.invites = [d.invites EXCEPT ![k][f] = v]
      /\ e.status = d.status /\ e.role = d.role /\ e.roles = d.roles /\ e.rows = d.rows
  BY DEF Sound, Database, Apart
<1> HIDE DEF e
<1>2. e.invites \in [Tokens -> Invite]
  <2>1. d.invites \in [Tokens -> Invite]
    BY DEF Sound, Database
  <2>2. k \in Tokens => [d.invites[k] EXCEPT ![f] = v] \in Invite
    BY <2>1 DEF Invite
  <2> QED BY <1>1, <2>1, <2>2
<1>3. Sound(e)
  BY <1>1, <1>2, ColumnSound DEF Sound, Database
<1> QED BY <1>1, <1>3 DEF e

\* gr_epoch_rotate: the current epoch expires and the next one is inserted.
LEMMA RotateSound ==
    ASSUME NEW d, Sound(d), NEW n \in Nat
    PROVE  LET e == [d EXCEPT !.expired = @ \cup ({n} \cap d.epochs),
                              !.epochs = @ \cup {n + 1}]
           IN  /\ Sound(e) /\ e.audit = d.audit
               /\ e.expired = d.expired \cup ({n} \cap d.epochs)
               /\ e.epochs = d.epochs \cup {n + 1}
<1> DEFINE e == [d EXCEPT !.expired = @ \cup ({n} \cap d.epochs), !.epochs = @ \cup {n + 1}]
<1>1. /\ DOMAIN e = DOMAIN d /\ e.header = d.header /\ e.audit = d.audit
      /\ e.expired = d.expired \cup ({n} \cap d.epochs) /\ e.epochs = d.epochs \cup {n + 1}
      /\ e.status = d.status /\ e.role = d.role /\ e.roles = d.roles /\ e.rows = d.rows
      /\ e.invites = d.invites
  BY DEF Sound, Database
<1> HIDE DEF e
<1>2. e.epochs \subseteq Nat /\ e.expired \subseteq e.epochs
  BY <1>1 DEF Sound, Database
<1>3. Sound(e)
  BY <1>1, <1>2 DEF Sound, Database
<1> QED BY <1>1, <1>3 DEF e

-----------------------------------------------------------------------------
(* The steps that wait and the steps that open a transaction.              *)

\* Nothing but the calls in progress has changed.
Waits == UNCHANGED <<db, disk, header, saved, holder, diverged>> /\ TypeOK'

\* A transaction was opened: one entry is logged, the epochs are as they were,
\* or rotated.
Opens(t) ==
    /\ holder = NoThread /\ holder' = t /\ saved' = header
    /\ UNCHANGED <<disk, diverged>>
    /\ TypeOK' /\ Sound(db)' /\ Chain(db)'
    /\ header' = db'.header /\ header'.version = header.version + 1
    /\ \/ UNCHANGED <<db.epochs, db.expired, header.epoch_id>>
       \/ /\ header'.epoch_id = header.epoch_id + 1
          /\ db'.epochs = db.epochs \cup {header.epoch_id + 1}
          /\ db'.expired = db.expired \cup ({header.epoch_id} \cap db.epochs)

\* A call in progress of the right type; the thread that holds the lock is not
\* the one that calls.
LEMMA CallType ==
    ASSUME TypeOK, NEW t \in Threads, NEW c \in Calls,
           call' = [call EXCEPT ![t] = c],
           c.phase = "txn" <=> holder' = t,
           holder' \in {holder, t}, holder \in {NoThread, t} \/ holder' = holder
    PROVE  /\ call' \in [Threads -> Calls]
           /\ \A u \in Threads : call'[u].phase = "txn" <=> holder' = u
<1>1. call' \in [Threads -> Calls] /\ call'[t] = c
  BY DEF TypeOK
<1>2. ASSUME NEW u \in Threads, u # t PROVE call'[u].phase = "txn" <=> holder' = u
  <2>1. call'[u] = call[u] /\ (call[u].phase = "txn" <=> holder = u)
    BY <1>2 DEF TypeOK
  <2> QED BY <1>2, <2>1, ThreadAssumption
<1> QED BY <1>1, <1>2

\* What every call in progress holds.
LEMMA CallFields ==
    ASSUME NEW c \in Calls
    PROVE  /\ c.by \in Peers \cup {NoPeer} /\ c.role \in Nat /\ c.perms \in PermSets
           /\ c.op \in Governance \cup CheckedOutside \cup Open \cup {"none"}
  BY DEF Calls

LEMMA NewCall ==
    ASSUME NEW op \in Governance \cup CheckedOutside \cup Open,
           NEW s \in Peers \cup {NoPeer}
    PROVE  /\ InTxn(op, s) \in Calls /\ InTxn(op, s).phase = "txn"
           /\ CallOf(op, s) \in Calls
           /\ \A r \in Nat, perms \in PermSets :
                [CallOf(op, s) EXCEPT !.role = r, !.perms = perms] \in Calls
           /\ \A k \in Tokens : [CallOf(op, s) EXCEPT !.token = k] \in Calls
           /\ Idle \in Calls /\ Idle.phase = "idle"
  BY PermAssumption DEF InTxn, CallOf, Idle, Calls

LEMMA TransactOpens ==
    ASSUME Logged, NEW t \in Threads, holder = NoThread,
           NEW c \in Calls, c.phase = "txn", NEW d, Sound(d), d.audit = db.audit,
           NEW epoch \in Nat, Transact(t, c, d, epoch),
           \/ d.epochs = db.epochs /\ d.expired = db.expired /\ epoch = header.epoch_id
           \/ /\ epoch = header.epoch_id + 1
              /\ d.epochs = db.epochs \cup {header.epoch_id + 1}
              /\ d.expired = db.expired \cup ({header.epoch_id} \cap db.epochs)
    PROVE  Opens(t)
<1> DEFINE h == [version |-> header.version + 1, epoch_id |-> epoch]
<1>1. header.version \in Nat /\ db.header.version \in Nat /\ db.header.version <= header.version
  BY DEF Logged, TypeOK, Database, Header
<1>2. h \in Header /\ h.version = header.version + 1 /\ h.epoch_id = epoch
  BY <1>1 DEF Header
<1>3. db' = gr_audit_append(d, h) /\ header' = h
  BY DEF Transact
<1> HIDE DEF h
<1>4. /\ Sound(db') /\ Chain(db') /\ db'.header = h
      /\ db'.epochs = d.epochs /\ db'.expired = d.expired
  BY <1>1, <1>2, <1>3, AppendSound DEF Logged, Sound
<1>5. TypeOK'
  <2>1. call' \in [Threads -> Calls] /\ \A u \in Threads : call'[u].phase = "txn" <=> holder' = u
    BY CallType DEF Transact, Logged
  <2>2. Database(db') /\ Database(disk') /\ header' \in Header /\ saved' \in Header
    BY <1>2, <1>3, <1>4 DEF Transact, Logged, TypeOK, Sound
  <2> QED BY <2>1, <2>2 DEF Transact, Logged, TypeOK
<1>6. Sound(db)' /\ Chain(db)'
  BY <1>4 DEF Sound, Chain, Database
<1> QED BY <1>2, <1>3, <1>4, <1>5, <1>6 DEF Transact, Opens

LEMMA MutateOpens ==
    ASSUME Logged, NEW t \in Threads, holder = NoThread,
           NEW op \in Governance \cup CheckedOutside \cup Open, NEW s \in Peers \cup {NoPeer},
           NEW d, Sound(d), Apart(db, d), Mutate(t, op, s, d)
    PROVE  Opens(t)
<1>1. InTxn(op, s) \in Calls /\ InTxn(op, s).phase = "txn"
  BY NewCall
<1>2. Transact(t, InTxn(op, s), d, header.epoch_id)
  BY DEF Mutate
<1>3. header.epoch_id \in Nat
  BY DEF Logged, TypeOK, Header
<1> QED BY <1>1, <1>2, <1>3, TransactOpens DEF Apart

LEMMA CheckWaits ==
    ASSUME Logged, NEW t \in Threads, NEW c \in Calls, NEW perm, Check(t, c, perm)
    PROVE  Waits
<1> DEFINE e == [c EXCEPT !.phase = "checked"]
<1>1. e \in Calls /\ e.phase = "checked"
  BY DEF Calls
<1>2. holder # t /\ call' = [call EXCEPT ![t] = e]
  BY DEF Check, Logged, TypeOK
<1>3. UNCHANGED <<db, disk, header, saved, holder, join, unverified, diverged>>
  BY DEF Check
<1> HIDE DEF e
<1>4. call' \in [Threads -> Calls] /\ \A u \in Threads : call'[u].phase = "txn" <=> holder' = u
  BY <1>1, <1>2, <1>3, CallType DEF Logged
<1> QED BY <1>3, <1>4 DEF Waits, Logged, TypeOK, Database

LEMMA GiveUpWaits ==
    ASSUME Logged, NEW t \in Threads, holder = NoThread, GiveUp(t)
    PROVE  Waits
<1>1. Idle \in Calls /\ Idle.phase = "idle" /\ t # NoThread
  BY PermAssumption, ThreadAssumption DEF Idle, Calls
<1>2. UNCHANGED <<db, disk, header, saved, holder, join, unverified, diverged>>
  BY DEF GiveUp
<1>3. call' \in [Threads -> Calls] /\ \A u \in Threads : call'[u].phase = "txn" <=> holder' = u
  BY <1>1, <1>2, CallType DEF GiveUp, Logged
<1> QED BY <1>2, <1>3 DEF Waits, Logged, TypeOK, Database

\* The calls of each kind.
LEMMA MemberOpens == ASSUME Logged, NEW t \in Threads, Member(t) PROVE Opens(t)
<1> USE DEF Governance, CheckedOutside, Open
<1>0. Sound(db) /\ Apart(db, db) /\ db.role \in [Peers -> Nat]
  BY DEF Logged, Sound, Database, Apart
<1>1. ASSUME NEW s \in Peers, gr_peer_leave(t, s) PROVE Opens(t)
  <2> DEFINE d == [db EXCEPT !.status[s] = "LEFT"]
  <2>1. Sound(d) /\ Apart(db, d)
    BY <1>0, StatusSound DEF Status
  <2>2. Mutate(t, "peer_leave", s, d) /\ holder = NoThread
    BY <1>1 DEF gr_peer_leave, EnterLocked
  <2> HIDE DEF d
  <2> QED BY <2>1, <2>2, MutateOpens
<1>2. ASSUME NEW s \in Peers,
             gr_peer_update_address(t, s) \/ \E p \in Peers : gr_peer_observed_address(t, s, p)
      PROVE  Opens(t)
  <2>1. holder = NoThread
    BY <1>2 DEF gr_peer_update_address, gr_peer_observed_address, EnterLocked
  <2>2. Mutate(t, "update_address", s, db) \/ Mutate(t, "observed_address", s, db)
    BY <1>2 DEF gr_peer_update_address, gr_peer_observed_address
  <2> QED BY <1>0, <2>1, <2>2, MutateOpens
<1>3. ASSUME NEW s \in Peers, NEW p \in Peers, gr_peer_add(t, s, p) PROVE Opens(t)
  <2> DEFINE d == [db EXCEPT !.status[p] = "ACTIVE"]
  <2>1. Sound(d) /\ Apart(db, d)
    BY <1>0, StatusSound DEF Status
  <2>2. Mutate(t, "peer_add", s, d) /\ holder = NoThread
    BY <1>3 DEF gr_peer_add, EnterLocked
  <2> HIDE DEF d
  <2> QED BY <2>1, <2>2, MutateOpens
<1>4. ASSUME NEW s \in Peers, NEW p \in Peers, gr_peer_kick(t, s, p) PROVE Opens(t)
  <2> DEFINE d == [db EXCEPT !.status[p] = "KICKED"]
  <2>1. Sound(d) /\ Apart(db, d)
    BY <1>0, StatusSound DEF Status
  <2>2. Mutate(t, "peer_kick", s, d) /\ holder = NoThread
    BY <1>4 DEF gr_peer_kick, EnterLocked
  <2> HIDE DEF d
  <2> QED BY <2>1, <2>2, MutateOpens
<1>5. ASSUME NEW s \in Peers, NEW p \in Peers, gr_peer_ban(t, s, p) PROVE Opens(t)
  <2> DEFINE d == [db EXCEPT !.status[p] = "BANNED"]
  <2>1. Sound(d) /\ Apart(db, d)
    BY <1>0, StatusSound DEF Status
  <2>2. Mutate(t, "peer_ban", s, d) /\ holder = NoThread
    BY <1>5 DEF gr_peer_ban, EnterLocked
  <2> HIDE DEF d
  <2> QED BY <2>1, <2>2, MutateOpens
<1>6. ASSUME NEW s \in Peers, NEW p \in Peers, NEW r, gr_peer_set_role(t, s, p, r)
      PROVE  Opens(t)
  <2> DEFINE d == [db EXCEPT !.role[p] = IF db.status[p] = "ACTIVE" THEN r ELSE @]
  <2>1. r = 0 \/ r \in DOMAIN db.roles
    BY <1>6 DEF gr_peer_set_role
  <2>2. Sound(d) /\ Apart(db, d)
    BY <1>0, <2>1, SetRoleSound
  <2>3. Mutate(t, "peer_set_role", s, d) /\ holder = NoThread
    BY <1>6 DEF gr_peer_set_role, EnterLocked
  <2> HIDE DEF d
  <2> QED BY <2>2, <2>3, MutateOpens
<1> QED BY <1>1, <1>2, <1>3, <1>4, <1>5, <1>6 DEF Member

LEMMA RoleOpens == ASSUME Logged, NEW t \in Threads, Role(t) PROVE Waits \/ Opens(t)
<1>0. Sound(db) /\ call[t] \in Calls
  BY DEF Logged, TypeOK
<1>1. ASSUME NEW op \in {"role_add", "role_remove", "role_set_permissions"},
             NEW s \in Peers, NEW r \in {0} \cup DOMAIN db.roles, NEW perms \in PermSets,
             gr_role_check(t, op, s, r, perms)
      PROVE  Waits
  <2>1. op \in Governance \cup CheckedOutside \cup Open /\ r \in Nat
    BY <1>0 DEF CheckedOutside, Sound, Database
  <2>2. [CallOf(op, s) EXCEPT !.role = r, !.perms = perms] \in Calls
    BY <2>1, NewCall
  <2> QED BY <1>1, <2>2, CheckWaits DEF gr_role_check
<1>2. CASE gr_role_add(t)
  <2> DEFINE d == [db EXCEPT !.roles = WithRole(db.roles, NextRoleId(db), call[t].perms)]
  <2>1. Sound(d) /\ Apart(db, d)
    BY <1>0, WithRoleSound, NextRoleIdType, CallFields
  <2>2. Mutate(t, "role_add", call[t].by, d) /\ holder = NoThread
    BY <1>2 DEF gr_role_add, EnterChecked, MutateChecked
  <2>3. "role_add" \in Governance \cup CheckedOutside \cup Open
    BY DEF CheckedOutside
  <2> HIDE DEF d
  <2> QED BY <1>0, <2>1, <2>2, <2>3, MutateOpens, CallFields
<1>3. CASE gr_role_remove(t)
  <2> DEFINE r == call[t].role
             d == [db EXCEPT !.role = [p \in Peers |-> IF @[p] = r THEN 0 ELSE @[p]],
                             !.roles = WithoutRole(@, r)]
  <2>1. Sound(d) /\ Apart(db, d)
    BY <1>0, WithoutRoleSound
  <2>2. Mutate(t, "role_remove", call[t].by, d) /\ holder = NoThread
    BY <1>3 DEF gr_role_remove, EnterChecked, MutateChecked
  <2>3. "role_remove" \in Governance \cup CheckedOutside \cup Open
    BY DEF CheckedOutside
  <2> HIDE DEF d
  <2> QED BY <1>0, <2>1, <2>2, <2>3, MutateOpens, CallFields
<1>4. CASE gr_role_set_permissions(t)
  <2> DEFINE r == call[t].role
             roles == IF r \in DOMAIN db.roles
                      THEN WithRole(db.roles, r, call[t].perms) ELSE db.roles
             d == [db EXCEPT !.roles = roles]
  <2>1. Mutate(t, "role_set_permissions", call[t].by, d) /\ holder = NoThread
    BY <1>4 DEF gr_role_set_permissions, EnterChecked, MutateChecked
  <2>2. "role_set_permissions" \in Governance \cup CheckedOutside \cup Open
    BY DEF CheckedOutside
  <2>3. Sound(d) /\ Apart(db, d)
    <3>1. CASE r \in DOMAIN db.roles
      <4>1. d = [db EXCEPT !.roles = WithRole(db.roles, r, call[t].perms)]
        BY <3>1
      <4>2. r \in Nat \ {0}
        BY <1>0, <3>1 DEF Sound, Database
      <4> QED BY <1>0, <4>1, <4>2, WithRoleSound, CallFields
    <3>2. CASE r \notin DOMAIN db.roles
      <4>1. d = [db EXCEPT !.rows = db.rows]
        BY <1>0, <3>2 DEF Sound, Database
      <4>2. db.rows \subseteq Rows
        BY <1>0 DEF Sound, Database
      <4> QED BY <1>0, <4>1, <4>2, RowsSound
    <3> QED BY <3>1, <3>2
  <2> HIDE DEF d
  <2> QED BY <1>0, <2>1, <2>2, <2>3, MutateOpens, CallFields
<1>5. CASE gr_role_refused(t)
  BY <1>5, GiveUpWaits DEF gr_role_refused, EnterChecked
<1> QED BY <1>1, <1>2, <1>3, <1>4, <1>5, PermAssumption DEF Role

LEMMA EpochOpens == ASSUME Logged, NEW t \in Threads, Epoch(t) PROVE Waits \/ Opens(t)
<1>0. /\ Sound(db) /\ call[t] \in Calls /\ header.epoch_id \in Nat
      /\ "epoch_rotate" \in Governance \cup CheckedOutside \cup Open
  BY DEF Logged, TypeOK, Header, CheckedOutside
<1>1. ASSUME NEW s \in Peers, gr_epoch_rotate_check(t, s) PROVE Waits
  BY <1>0, <1>1, NewCall, CheckWaits DEF gr_epoch_rotate_check
<1>2. CASE gr_epoch_rotate(t)
  <2> DEFINE n == header.epoch_id
             d == [db EXCEPT !.expired = @ \cup ({n} \cap db.epochs), !.epochs = @ \cup {n + 1}]
             c == InTxn("epoch_rotate", call[t].by)
  <2>1. Transact(t, c, d, n + 1) /\ holder = NoThread
    BY <1>2 DEF gr_epoch_rotate, EnterChecked
  <2>2. /\ Sound(d) /\ d.audit = db.audit
        /\ d.expired = db.expired \cup ({n} \cap db.epochs) /\ d.epochs = db.epochs \cup {n + 1}
    BY <1>0, RotateSound
  <2>3. c \in Calls /\ c.phase = "txn"
    BY <1>0, NewCall, CallFields
  <2> HIDE DEF d, c
  <2> QED BY <1>0, <2>1, <2>2, <2>3, TransactOpens
<1> QED BY <1>1, <1>2 DEF Epoch

LEMMA SettingsOpens == ASSUME Logged, NEW t \in Threads, Settings(t) PROVE Waits \/ Opens(t)
<1>0. /\ Sound(db) /\ db.rows \subseteq Rows /\ call[t] \in Calls
      /\ SettingOps \subseteq Governance \cup CheckedOutside \cup Open
      /\ {"server_add", "server_remove"} \subseteq Governance
  BY SettingAssumption, SettingDomain DEF Logged, TypeOK, Sound, Database, CheckedOutside, Governance
<1>1. ASSUME NEW op \in SettingOps, NEW s \in Peers, gr_setting_check(t, op, s) PROVE Waits
  BY <1>0, <1>1, NewCall, CheckWaits DEF gr_setting_check
<1>2. ASSUME NEW op \in SettingOps, gr_setting_apply(t, op) PROVE Opens(t)
  <2> DEFINE rows == (db.rows \ Setting[op].drops) \cup Setting[op].adds
             d == [db EXCEPT !.rows = rows]
  <2>1. op \in DOMAIN Setting
    BY SettingAssumption
  <2>2. Setting[op].adds \subseteq Rows
    BY <2>1, SettingDomain DEF Setting, Rows
  <2>3. Sound(d) /\ Apart(db, d)
    BY <1>0, <2>2, RowsSound
  <2>4. Mutate(t, op, call[t].by, d) /\ holder = NoThread
    BY <1>2 DEF gr_setting_apply, EnterChecked, MutateChecked
  <2> HIDE DEF d
  <2> QED BY <1>0, <2>3, <2>4, MutateOpens, CallFields
<1>3. ASSUME NEW op, gr_setting_refused(t, op) PROVE Waits
  BY <1>3, GiveUpWaits DEF gr_setting_refused, EnterChecked
<1>4. ASSUME NEW s \in Peers, gr_server_add(t, s) PROVE Opens(t)
  <2> DEFINE d == [db EXCEPT !.rows = db.rows \cup {"server"}]
  <2>1. Sound(d) /\ Apart(db, d)
    BY <1>0, RowsSound DEF Rows
  <2>2. Mutate(t, "server_add", s, d) /\ holder = NoThread
    BY <1>4 DEF gr_server_add, EnterLocked
  <2> HIDE DEF d
  <2> QED BY <1>0, <2>1, <2>2, MutateOpens
<1>5. ASSUME NEW s \in Peers, gr_server_remove(t, s) PROVE Opens(t)
  <2> DEFINE d == [db EXCEPT !.rows = db.rows \ {"server"}]
  <2>1. Sound(d) /\ Apart(db, d)
    BY <1>0, RowsSound
  <2>2. Mutate(t, "server_remove", s, d) /\ holder = NoThread
    BY <1>5 DEF gr_server_remove, EnterLocked
  <2> HIDE DEF d
  <2> QED BY <1>0, <2>1, <2>2, MutateOpens
<1> QED BY <1>1, <1>2, <1>3, <1>4, <1>5 DEF Settings

LEMMA InvitesOpens == ASSUME Logged, NEW t \in Threads, Invites(t) PROVE Waits \/ Opens(t)
<1>0. /\ Sound(db) /\ call[t] \in Calls
      /\ {"invite_create", "invite_invalidate", "invite_mark_used"}
            \subseteq Governance \cup CheckedOutside \cup Open
  BY DEF Logged, TypeOK, CheckedOutside, Open
<1>1. ASSUME NEW s \in Peers, gr_invite_create_check(t, s) PROVE Waits
  BY <1>0, <1>1, NewCall, CheckWaits DEF gr_invite_create_check
<1>2. ASSUME NEW s \in Peers, NEW k \in Tokens, gr_invite_invalidate_check(t, s, k) PROVE Waits
  BY <1>0, <1>2, NewCall, CheckWaits DEF gr_invite_invalidate_check
<1>3. ASSUME NEW k \in Tokens, gr_invite_create(t, k) PROVE Opens(t)
  <2> DEFINE d == [db EXCEPT !.invites[k].made = TRUE]
  <2>1. Sound(d) /\ Apart(db, d)
    BY <1>0, InviteSound
  <2>2. Mutate(t, "invite_create", call[t].by, d) /\ holder = NoThread
    BY <1>3 DEF gr_invite_create, EnterChecked, MutateChecked
  <2> HIDE DEF d
  <2> QED BY <1>0, <2>1, <2>2, MutateOpens, CallFields
<1>4. CASE gr_invite_invalidate(t)
  <2> DEFINE d == [db EXCEPT !.invites[call[t].token].invalidated = TRUE]
  <2>1. Sound(d) /\ Apart(db, d)
    BY <1>0, InviteSound
  <2>2. Mutate(t, "invite_invalidate", call[t].by, d) /\ holder = NoThread
    BY <1>4 DEF gr_invite_invalidate, EnterChecked, MutateChecked
  <2> HIDE DEF d
  <2> QED BY <1>0, <2>1, <2>2, MutateOpens, CallFields
<1>5. CASE gr_invite_refused(t)
  BY <1>5, GiveUpWaits DEF gr_invite_refused, EnterChecked
<1>6. ASSUME NEW s \in Peers, NEW p \in Peers, NEW k \in Tokens, gr_invite_mark_used(t, s, p, k)
      PROVE  Opens(t)
  <2> DEFINE d == [db EXCEPT !.invites[k].used_by = p]
  <2>1. Sound(d) /\ Apart(db, d)
    BY <1>0, InviteSound
  <2>2. Mutate(t, "invite_mark_used", s, d) /\ holder = NoThread
    BY <1>6 DEF gr_invite_mark_used, EnterLocked
  <2> HIDE DEF d
  <2> QED BY <1>0, <2>1, <2>2, MutateOpens
<1> QED BY <1>1, <1>2, <1>3, <1>4, <1>5, <1>6 DEF Invites

\* A new group, or one opened with its members.
LEMMA InitLogged == Init => Logged
<1> SUFFICES ASSUME Init PROVE Logged
  OBVIOUS
<1>1. /\ DOMAIN Created = {"status", "role", "roles", "epochs", "expired", "rows",
                           "invites", "audit", "header"}
      /\ Created.status \in [Peers -> Status] /\ Created.role \in [Peers -> Nat]
      /\ DOMAIN Created.roles = {} /\ Created.rows = {}
      /\ Created.epochs = {1} /\ Created.expired = {}
      /\ Created.invites = [k \in Tokens |-> NoInvite]
      /\ Created.audit = << [version |-> 2, prev |-> 0] >>
      /\ Created.header = [version |-> 2, epoch_id |-> 1]
  BY DEF Created, Status
<1>2. NoInvite \in Invite
  BY DEF NoInvite, Invite
<1>3. [version |-> 2, prev |-> 0] \in Entry /\ Created.header \in Header
  BY <1>1 DEF Entry, Header
<1>4. Created.audit \in Seq(Entry)
  BY <1>1, <1>3
<1>5. Database(Created)
  <2>1. Created.invites \in [Tokens -> Invite]
    BY <1>1, <1>2
  <2> QED BY <1>1, <1>3, <1>4, <2>1 DEF Database
<1>6. Sound(Created)
  BY <1>1, <1>5 DEF Sound
<1>7. Chain(Created) /\ Current(Created) /\ Created.header.version = 2
  BY <1>1 DEF Chain, Current
<1>8. TypeOK
  <2>1. Idle \in Calls /\ Idle.phase = "idle"
    BY PermAssumption DEF Idle, Calls
  <2>2. call \in [Threads -> Calls] /\ \A t \in Threads : call[t].phase = "txn" <=> holder = t
    BY <2>1, ThreadAssumption DEF Init
  <2>3. saved \in Header
    BY DEF Init, NoHeader, Header
  <2> QED BY <1>3, <1>5, <2>2, <2>3 DEF Init, TypeOK
<1> QED BY <1>6, <1>7, <1>8 DEF Init, Logged

\* Every step keeps the log and the epochs.
LEMMA NextLogged == IInv /\ Logged /\ [Next]_vars => Logged'
<1> SUFFICES ASSUME IInv, Logged, [Next]_vars PROVE Logged'
  OBVIOUS
<1>0. /\ holder = NoThread => db = disk
      /\ holder # NoThread => header = db.header
      /\ ~diverged => IF holder = NoThread THEN header = disk.header ELSE saved = disk.header
  BY DEF IInv, Consistent
<1>1. CASE UNCHANGED vars
  BY <1>1 DEF vars, Logged, TypeOK, Database, Sound, Chain, Current
<1>2. CASE Waits
  BY <1>2 DEF Waits, Logged, Sound, Database, Chain, Current
<1>3. ASSUME NEW t \in Threads, Opens(t) PROVE Logged'
  <2>1. holder' # NoThread /\ disk' = disk /\ diverged' = diverged /\ db = disk
    BY <1>0, <1>3, ThreadAssumption DEF Opens
  <2>2. disk'.header.version <= saved'.version /\ saved'.version <= header'.version
    <3>1. header.version \in Nat
      BY DEF Logged, TypeOK, Header
    <3> QED BY <1>3, <3>1 DEF Opens, Logged
  <2>3. Sound(disk)' /\ Chain(disk)'
    BY <2>1 DEF Logged, Sound, Database, Chain
  <2>4. ASSUME ~diverged PROVE Current(db)' /\ Current(disk)'
    <3>1. Current(db) /\ header = db.header /\ Current(disk)
      BY <1>0, <1>3, <2>1, <2>4 DEF Logged, Opens
    <3>2. header.epoch_id \in Nat /\ db.epochs \subseteq Nat
      BY DEF Logged, TypeOK, Header, Database
    <3>3. CASE UNCHANGED <<db.epochs, db.expired, header.epoch_id>>
      BY <1>3, <2>1, <3>1, <3>3 DEF Opens, Current
    <3>4. CASE /\ header'.epoch_id = header.epoch_id + 1
               /\ db'.epochs = db.epochs \cup {header.epoch_id + 1}
               /\ db'.expired = db.expired \cup ({header.epoch_id} \cap db.epochs)
      <4>1. header' = db'.header
        BY <1>3 DEF Opens
      <4>2. header.epoch_id + 1 \notin db.expired
        BY <3>1, <3>2 DEF Current, Logged, TypeOK, Database
      <4> QED BY <2>1, <3>1, <3>2, <3>4, <4>1, <4>2 DEF Current
    <3> QED BY <1>3, <3>3, <3>4 DEF Opens
  <2> QED BY <1>3, <2>1, <2>2, <2>3, <2>4 DEF Opens, Logged
<1>4. ASSUME NEW t \in Threads, Ends(t) PROVE Logged'
  <2>1. holder = t /\ t # NoThread /\ holder' = NoThread
    BY <1>4, ThreadAssumption
       DEF Ends, gr_txn_commit, gr_txn_rollback, gr_txn_commit_fails, End
  <2>2. call' = [call EXCEPT ![t] = Idle] /\ saved' = NoHeader
    BY <1>4 DEF Ends, gr_txn_commit, gr_txn_rollback, gr_txn_commit_fails, End
  <2>3. /\ db' = disk' /\ join' = join /\ unverified' = unverified
        /\ \/ disk' = db /\ header' = header /\ diverged' = diverged
           \/ disk' = disk /\ header' = saved /\ diverged' = diverged
           \/ disk' = disk /\ header' = header /\ diverged' = TRUE
    BY <1>4 DEF Ends, gr_txn_commit, gr_txn_rollback, gr_txn_commit_fails
  <2>4. Sound(db)' /\ Sound(disk)' /\ Chain(db)' /\ Chain(disk)'
    BY <2>3 DEF Logged, Sound, Database, Chain
  <2>5. TypeOK'
    <3>1. Idle \in Calls /\ Idle.phase = "idle" /\ NoHeader \in Header
      BY PermAssumption DEF Idle, Calls, NoHeader, Header
    <3>2. call' \in [Threads -> Calls] /\ \A u \in Threads : call'[u].phase = "txn" <=> holder' = u
      <4>1. ASSUME NEW u \in Threads PROVE call'[u].phase # "txn" /\ call'[u] \in Calls
        BY <2>1, <2>2, <3>1 DEF Logged, TypeOK
      <4> QED BY <2>1, <2>2, <4>1, ThreadAssumption DEF Logged, TypeOK
    <3> QED BY <2>1, <2>2, <2>3, <2>4, <3>1, <3>2 DEF Logged, TypeOK, Sound
  <2>6. disk'.header.version <= header'.version
    <3>1. header = db.header /\ disk.header.version <= saved.version
      BY <1>0, <2>1 DEF Logged
    <3>2. disk.header.version \in Nat /\ header.version \in Nat /\ saved.version \in Nat
      BY DEF Logged, TypeOK, Database, Header
    <3>3. saved.version <= header.version
      BY <2>1 DEF Logged
    <3> QED BY <2>3, <3>1, <3>2, <3>3
  <2>7. ~diverged' => Current(db)' /\ Current(disk)'
    BY <2>3 DEF Logged, Current
  <2> QED BY <2>1, <2>3, <2>4, <2>5, <2>6, <2>7 DEF Logged
<1>5. CASE gr_open
  <2>1. /\ db' = disk /\ disk' = disk /\ header' = disk.header /\ saved' = NoHeader
        /\ holder' = NoThread /\ call' = [t \in Threads |-> Idle] /\ join' = "NONE"
        /\ unverified' \in {"no", "reopened"} /\ diverged' = diverged
    BY <1>5 DEF gr_open
  <2>2. Sound(db)' /\ Sound(disk)' /\ Chain(db)' /\ Chain(disk)'
    BY <2>1 DEF Logged, Sound, Database, Chain
  <2>3. TypeOK'
    <3>1. Idle \in Calls /\ Idle.phase = "idle" /\ NoHeader \in Header
      BY PermAssumption DEF Idle, Calls, NoHeader, Header
    <3> QED BY <2>1, <2>2, <3>1, ThreadAssumption DEF Logged, TypeOK, Sound, Database
  <2>4. disk'.header.version <= header'.version
    <3>1. disk.header.version \in Nat
      BY DEF Logged, TypeOK, Database, Header
    <3> QED BY <2>1, <3>1
  <2>5. ~diverged' => Current(db)' /\ Current(disk)'
    BY <2>1 DEF Logged, Current
  <2> QED BY <2>1, <2>2, <2>3, <2>4, <2>5 DEF Logged
<1>6. CASE Join
  <2>1. /\ UNCHANGED <<db, disk, header, saved, holder, call, diverged>>
        /\ join' \in {"PROVISIONAL", "VERIFIED", "FAILED"} /\ unverified' \in {"no", "joining", unverified}
    BY <1>6 DEF Join, gr_join_begin, gr_join_evaluate
  <2> QED BY <1>2, <2>1 DEF Waits, Logged, TypeOK, Database
<1>7. ASSUME NEW t \in Threads, Transaction(t) PROVE Ends(t)
  BY <1>7 DEF Transaction, gr_txn_commit, gr_txn_rollback, gr_txn_commit_fails, End, Ends,
              Logged, TypeOK
<1> QED BY <1>1, <1>2, <1>3, <1>4, <1>5, <1>6, <1>7,
        MemberOpens, RoleOpens, EpochOpens, SettingsOpens, InvitesOpens DEF Next

-----------------------------------------------------------------------------
(* The theorems.                                                           *)

\* Nobody ever holds a role that does not exist, although ids are reused
\* (gr_role_remove resets the holders in the transaction that removes it).
THEOREM RolesExist == Spec => []RolesHeldExist
<1>1. IInv => RolesHeldExist
  BY DEF IInv, Consistent, HeldRolesExist, RolesHeldExist
<1> QED BY <1>1, Invariance, PTL

\* Outside a transaction the header and the tables are those on disk, unless a
\* COMMIT has failed (gr_txn_rollback restores both).
THEOREM HeaderAgrees == Spec => []HeaderTracksDatabase
<1>1. IInv => HeaderTracksDatabase
  BY DEF IInv, Consistent, HeaderTracksDatabase
<1> QED BY <1>1, Invariance, PTL

\* A ban outlives every interleaving of calls, rollbacks, failed commits and
\* restarts (gr_peer_ban, gr_peer_add).
THEOREM BansArePermanent == Spec => BanIsPermanent
<1>1. IInv /\ [Next]_vars =>
        [\A p \in Peers : disk.status[p] = "BANNED" => disk'.status[p] = "BANNED"]_vars
  BY DiskStep DEF IInv, Consistent, BansLast
<1> QED BY <1>1, Invariance, PTL DEF Spec, BanIsPermanent

\* An invite is redeemed by one peer for good (gr_invite_mark_used).
THEOREM InvitesAreSingleUse == Spec => InviteRedeemedOnce
<1>1. IInv /\ [Next]_vars =>
        [\A k \in Tokens : disk.invites[k].used_by # NoPeer
            => disk'.invites[k].used_by = disk.invites[k].used_by]_vars
  BY DiskStep DEF IInv, Consistent, UsesLast
<1> QED BY <1>1, Invariance, PTL DEF Spec, InviteRedeemedOnce

\* A change that checked its permission inside the lock reaches the disk only
\* over tables that still grant it (gr_check_perm under GR_LOCK).
THEOREM AuthorityIsCurrent == Spec => NoStaleAuthority
<1>1. IInv =>
        [disk' # disk =>
           \A t \in Threads :
              holder = t /\ call[t].op \in DOMAIN LockedPerm
                => MayAct(disk, call[t].by, LockedPerm[call[t].op])]_vars
  BY DEF IInv, Consistent, Authorised
<1> QED BY <1>1, Invariance, PTL DEF NoStaleAuthority

\* The tables agree with themselves and with the cached header, whatever the
\* calls, rollbacks, failed commits and restarts.
THEOREM TablesAlwaysAgree == Spec => []TablesAgree
<1>1. RolesHeldExist /\ HeaderTracksDatabase => TablesAgree
  BY DEF TablesAgree
<1> QED BY <1>1, RolesExist, HeaderAgrees, PTL

\* The three things the mutators of db.c may never write to the disk.
THEOREM ChangesAlwaysLawful == Spec => ChangesAreLawful
  BY BansArePermanent, InvitesAreSingleUse, AuthorityIsCurrent DEF ChangesAreLawful

\* The log, the epochs and the types behind them, through every call, rollback, failed
\* commit and restart (gr_audit_append, gr_epoch_rotate, gr_open).
THEOREM LogInvariance == Spec => []Logged
  BY InitLogged, NextLogged, Invariance, PTL DEF Spec

\* The audit log is one chain that never forks, and one stored epoch is current, with the
\* tables and the calls in progress of their types.
THEOREM LogStaysOneChain == Spec => []LogAndEpochs
<1>1. ASSUME IInv, Logged PROVE LogAndEpochs
  <2>1. TypeOK
    BY <1>1 DEF Logged
  <2>2. OneCurrentEpoch
    BY <1>1 DEF Logged, Current, OneCurrentEpoch
  <2>3. db.header.version <= header.version
    <3>1. header.version \in Nat
      BY <2>1 DEF TypeOK, Header
    <3> QED BY <1>1, <3>1 DEF Logged, IInv, Consistent
  <2>4. AuditIsOneChain
    BY <1>1, <2>1, <2>3 DEF Logged, Chain, AuditIsOneChain, TypeOK, Database
  <2> QED BY <2>1, <2>2, <2>4 DEF LogAndEpochs
<1> QED BY <1>1, Invariance, LogInvariance, PTL

-----------------------------------------------------------------------------
(***************************************************************************)
(* The verification gate.  From gr_join_begin to the verdict no call that  *)
(* changes the group is in progress in any thread: none was when the join  *)
(* began, every check refuses, and what was checked keeps its name.        *)
(***************************************************************************)
Gated ==
    unverified = "joining" =>
        /\ gr_join_is_untrusted
        /\ \A t \in Threads : call[t].op \notin Governance

\* A thread's step begins or carries on a governance call only if the gate is
\* open or was when that call passed it.
Obeys(t) ==
    /\ UNCHANGED <<join, unverified>>
    /\ \E c : /\ call' = [call EXCEPT ![t] = c]
              /\ c.op \in Governance => ~gr_join_is_untrusted \/ call[t].op = c.op

LEMMA MutateObeys ==
    ASSUME NEW t \in Threads, NEW op, NEW s, NEW d, NEW n,
           Mutate(t, op, s, d) \/ Transact(t, InTxn(op, s), d, n),
           op \in Governance => ~gr_join_is_untrusted \/ call[t].op = op
    PROVE  Obeys(t)
<1>1. InTxn(op, s).op = op
  BY DEF InTxn, Idle
<1>2. call' = [call EXCEPT ![t] = InTxn(op, s)] /\ UNCHANGED <<join, unverified>>
  BY DEF Mutate, Transact
<1> QED BY <1>1, <1>2 DEF Obeys

LEMMA CheckObeys ==
    ASSUME NEW t \in Threads, NEW c, NEW perm, Check(t, c, perm), DOMAIN c = DOMAIN Idle,
           c.op \in Governance => ~gr_join_is_untrusted
    PROVE  Obeys(t)
<1>1. [c EXCEPT !.phase = "checked"].op = c.op
  BY DEF Idle
<1>2. call' = [call EXCEPT ![t] = [c EXCEPT !.phase = "checked"]]
      /\ UNCHANGED <<join, unverified>>
  BY DEF Check
<1> QED BY <1>1, <1>2 DEF Obeys

LEMMA IdleObeys ==
    ASSUME NEW t \in Threads, call' = [call EXCEPT ![t] = Idle], UNCHANGED <<join, unverified>>
    PROVE  Obeys(t)
<1>1. Idle.op \notin Governance
  BY DEF Idle, Governance, CheckedOutside
<1> QED BY <1>1 DEF Obeys

\* Every call obeys the gate (GR_REQUIRE_VERIFIED in the mutators of
\* src/group_registrar/).
LEMMA ThreadObeys ==
    ASSUME NEW t \in Threads,
           Member(t) \/ Role(t) \/ Epoch(t) \/ Settings(t) \/ Invites(t) \/ Transaction(t)
    PROVE  Obeys(t)
<1>0. /\ {"update_address", "observed_address", "invite_mark_used", "invite_invalidate"}
            \cap Governance = {}
      /\ \A op, s : CallOf(op, s).op = op /\ DOMAIN CallOf(op, s) = DOMAIN Idle
  BY DEF Governance, CheckedOutside, CallOf, Idle
<1>1. ASSUME Member(t) PROVE Obeys(t)
  <2>1. ASSUME NEW s \in Peers, gr_peer_leave(t, s) PROVE Obeys(t)
    BY <2>1, MutateObeys DEF gr_peer_leave
  <2>2. ASSUME NEW s \in Peers, gr_peer_update_address(t, s) PROVE Obeys(t)
    BY <1>0, <2>2, MutateObeys DEF gr_peer_update_address
  <2>3. ASSUME NEW s \in Peers, NEW p \in Peers, gr_peer_observed_address(t, s, p)
        PROVE  Obeys(t)
    BY <1>0, <2>3, MutateObeys DEF gr_peer_observed_address
  <2>4. ASSUME NEW s \in Peers, NEW p \in Peers,
               gr_peer_add(t, s, p) \/ gr_peer_kick(t, s, p) \/ gr_peer_ban(t, s, p)
        PROVE  Obeys(t)
    BY <2>4, MutateObeys DEF gr_peer_add, gr_peer_kick, gr_peer_ban
  <2>5. ASSUME NEW s \in Peers, NEW p \in Peers, NEW r, gr_peer_set_role(t, s, p, r)
        PROVE  Obeys(t)
    BY <2>5, MutateObeys DEF gr_peer_set_role
  <2> QED BY <1>1, <2>1, <2>2, <2>3, <2>4, <2>5 DEF Member
<1>2. ASSUME Role(t) PROVE Obeys(t)
  <2>1. ASSUME NEW op, NEW s, NEW r, NEW perms, gr_role_check(t, op, s, r, perms)
        PROVE  Obeys(t)
    <3> DEFINE c == [CallOf(op, s) EXCEPT !.role = r, !.perms = perms]
    <3>1. DOMAIN c = DOMAIN Idle /\ Check(t, c, "EDIT_ROLES") /\ ~gr_join_is_untrusted
      BY <1>0, <2>1 DEF gr_role_check
    <3> HIDE DEF c
    <3> QED BY <3>1, CheckObeys
  <2>2. ASSUME gr_role_add(t) \/ gr_role_remove(t) \/ gr_role_set_permissions(t)
        PROVE  Obeys(t)
    <3>1. CASE gr_role_add(t)
      BY <3>1, MutateObeys DEF gr_role_add, EnterChecked, MutateChecked
    <3>2. CASE gr_role_remove(t)
      BY <3>2, MutateObeys DEF gr_role_remove, EnterChecked, MutateChecked
    <3>3. CASE gr_role_set_permissions(t)
      BY <3>3, MutateObeys DEF gr_role_set_permissions, EnterChecked, MutateChecked
    <3> QED BY <2>2, <3>1, <3>2, <3>3
  <2>3. ASSUME gr_role_refused(t) PROVE Obeys(t)
    <3>1. GiveUp(t)
      BY <2>3 DEF gr_role_refused
    <3> QED BY <3>1, IdleObeys DEF GiveUp
  <2> QED BY <1>2, <2>1, <2>2, <2>3 DEF Role
<1>3. ASSUME Epoch(t) PROVE Obeys(t)
  <2>1. ASSUME NEW s, gr_epoch_rotate_check(t, s) PROVE Obeys(t)
    BY <1>0, <2>1, CheckObeys DEF gr_epoch_rotate_check
  <2>2. ASSUME gr_epoch_rotate(t) PROVE Obeys(t)
    BY <2>2, MutateObeys DEF gr_epoch_rotate, EnterChecked
  <2> QED BY <1>3, <2>1, <2>2 DEF Epoch
<1>4. ASSUME Settings(t) PROVE Obeys(t)
  <2>1. ASSUME NEW op, NEW s, gr_setting_check(t, op, s) PROVE Obeys(t)
    BY <1>0, <2>1, CheckObeys DEF gr_setting_check
  <2>2. ASSUME NEW op, gr_setting_apply(t, op) PROVE Obeys(t)
    BY <2>2, MutateObeys DEF gr_setting_apply, EnterChecked, MutateChecked
  <2>3. ASSUME NEW op, gr_setting_refused(t, op) PROVE Obeys(t)
    <3>1. GiveUp(t)
      BY <2>3 DEF gr_setting_refused
    <3> QED BY <3>1, IdleObeys DEF GiveUp
  <2>4. ASSUME NEW s, gr_server_add(t, s) \/ gr_server_remove(t, s) PROVE Obeys(t)
    BY <2>4, MutateObeys DEF gr_server_add, gr_server_remove
  <2> QED BY <1>4, <2>1, <2>2, <2>3, <2>4 DEF Settings
<1>5. ASSUME Invites(t) PROVE Obeys(t)
  <2>1. ASSUME NEW s, gr_invite_create_check(t, s) PROVE Obeys(t)
    BY <1>0, <2>1, CheckObeys DEF gr_invite_create_check
  <2>2. ASSUME NEW s, NEW k, gr_invite_invalidate_check(t, s, k) PROVE Obeys(t)
    <3> DEFINE c == [CallOf("invite_invalidate", s) EXCEPT !.token = k]
    <3>1. c.op = "invite_invalidate" /\ DOMAIN c = DOMAIN Idle /\ Check(t, c, "INVITE_MEMBER")
      BY <1>0, <2>2 DEF gr_invite_invalidate_check, CallOf, Idle
    <3> HIDE DEF c
    <3> QED BY <1>0, <3>1, CheckObeys
  <2>3. ASSUME NEW s, NEW p, NEW k, gr_invite_mark_used(t, s, p, k) PROVE Obeys(t)
    BY <1>0, <2>3, MutateObeys DEF gr_invite_mark_used
  <2>4. ASSUME NEW k, gr_invite_create(t, k) PROVE Obeys(t)
    BY <2>4, MutateObeys DEF gr_invite_create, EnterChecked, MutateChecked
  <2>5. ASSUME gr_invite_invalidate(t) PROVE Obeys(t)
    BY <2>5, MutateObeys DEF gr_invite_invalidate, EnterChecked, MutateChecked
  <2>6. ASSUME gr_invite_refused(t) PROVE Obeys(t)
    <3>1. GiveUp(t)
      BY <2>6 DEF gr_invite_refused
    <3> QED BY <3>1, IdleObeys DEF GiveUp
  <2> QED BY <1>5, <2>1, <2>2, <2>3, <2>4, <2>5, <2>6 DEF Invites
<1>6. ASSUME Transaction(t) PROVE Obeys(t)
  BY <1>6, IdleObeys DEF Transaction, gr_txn_commit, gr_txn_rollback, gr_txn_commit_fails, End
<1> QED BY <1>1, <1>2, <1>3, <1>4, <1>5, <1>6

LEMMA GatedStep == Gated /\ DOMAIN call = Threads /\ [Next]_vars => Gated'
<1> SUFFICES ASSUME Gated, DOMAIN call = Threads, [Next]_vars PROVE Gated'
  OBVIOUS
<1>0. Idle.op \notin Governance
  BY DEF Idle, Governance, CheckedOutside
<1>1. CASE UNCHANGED vars
  BY <1>1 DEF vars, Gated, gr_join_is_untrusted
<1>2. ASSUME NEW t \in Threads, Obeys(t) PROVE Gated'
  <2>1. PICK c : /\ call' = [call EXCEPT ![t] = c]
                 /\ c.op \in Governance => ~gr_join_is_untrusted \/ call[t].op = c.op
    BY <1>2 DEF Obeys
  <2>2. UNCHANGED <<join, unverified>>
    BY <1>2 DEF Obeys
  <2>3. \A u \in Threads : call'[u] = IF u = t THEN c ELSE call[u]
    BY <2>1
  <2> QED BY <2>1, <2>2, <2>3 DEF Gated, gr_join_is_untrusted
<1>3. CASE Join
  BY <1>0, <1>3 DEF Join, gr_join_begin, gr_join_evaluate, Gated, gr_join_is_untrusted
<1>4. CASE gr_open
  BY <1>4 DEF gr_open, Gated
<1> QED BY <1>1, <1>2, <1>3, <1>4, ThreadObeys DEF Next

\* While a joiner's registrar is being verified no governance change reaches its
\* tables, whatever calls race the verdict (gr_join_begin to VERIFIED).
THEOREM GateHolds == Spec => GovernanceGated
<1>1. Init => Gated
  BY DEF Init, Gated
<1>2. IInv => DOMAIN call = Threads
  BY DEF IInv, Shape
<1>3. Gated /\ IInv /\ [Next]_vars
         => [disk' # disk /\ unverified = "joining"
               => \A t \in Threads : holder = t => call[t].op \notin Governance]_vars
  BY DEF Gated
<1> QED BY <1>1, <1>2, <1>3, GatedStep, Invariance, PTL DEF Spec, GovernanceGated
=============================================================================
