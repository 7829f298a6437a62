------------------------------ MODULE Behavior ------------------------------
(***************************************************************************)
(* The behavioural analysis of the registrar (group_registrar/behavior.c): *)
(* counts over the audit log, the peers and the epochs, the alert that     *)
(* every local change may raise, and the snapshot, which derives in one    *)
(* pass what the other calls ask for one by one.                           *)
(*                                                                         *)
(* Rates are compared by multiplying out; a threshold that grows with the  *)
(* root of the group's size is compared by its square.                     *)
(***************************************************************************)
EXTENDS Integers, Sequences, FiniteSets, FiniteSetsExt, SequencesExt

CONSTANTS
    Actors,
    Subjects,        \* the peers that are kicked, banned, removed
    ChangeKinds,     \* the kinds of change made here
    MergedKinds,     \* the kinds of entry that come from other peers
    AskedWindows,    \* the windows asked for
    AlertWindow,     \* alert_window_ms
    Minute, Hour,    \* in ticks
    BurstPerMin, SwarmPerMin, AbusePercent, AbuseMin, EpochPerHour, ChurnAttention,
    ScaleFrom,       \* 10: thresholds grow with the group from here on
    MaxActors,       \* BEH_MAX_ACTORS
    AuditRows,       \* GR_AUDIT_MAX_BYTES / GR_AUDIT_EST_ROW_BYTES
    MergeBound,      \* bound: entries that come from other peers
    ChangeBound,     \* bound: local changes
    DayBound         \* bound: the last tick

VARIABLES
    regDb,      \* [log, peers, epochs]: the tables of the registrar
    today,      \* gr_timestamp_ms
    raised,     \* the alert of the last step: [actor, burst, abuse, kept]
    merged,     \* entries merged
    changes     \* local changes

behVars == <<regDb, today, raised, merged, changes>>

NoAlert == [actor |-> 0, burst |-> FALSE, abuse |-> FALSE, kept |-> FALSE]

----------------------------------------------------------------------------
(* One actor.                                                              *)

\* SELECT ... FROM gr_audit_log WHERE timestamp > cutoff: the rows, in order
InWindow(log, cutoff) == SelectSeq(log, LAMBDA e : e.at > cutoff)

CountOf(rows, kinds) == Cardinality({i \in 1 .. Len(rows) : rows[i].kind \in kinds})

\* query_actor_stats
actor_stats(rows) ==
    [total |-> Len(rows),
     kicks |-> CountOf(rows, {"kick"}), bans |-> CountOf(rows, {"ban"}), removes |-> CountOf(rows, {"remove"}),
     role_mods |-> CountOf(rows, {"role_added", "role_removed", "role_modified"}),
     perm_escalations |-> CountOf(rows, {"peer_role"}),
     invites |-> CountOf(rows, {"invite"}), epochs |-> CountOf(rows, {"epoch"})]

query_actor_stats(d, a, cutoff) ==
    actor_stats(SelectSeq(InWindow(d.log, cutoff), LAMBDA e : e.actor = a))

Destructive(s) == s.kicks + s.bans + s.removes

gr_behavior_actor_burst(d, a, window) ==
    LET s == query_actor_stats(d, a, today - window)
    IN  [actions |-> s.total, destructive |-> Destructive(s),
         role_changes |-> s.role_mods + s.perm_escalations, invites |-> s.invites, epochs |-> s.epochs,
         burst_detected |-> s.total * Minute > BurstPerMin * window]

Abusive(s) == Destructive(s) * 100 > AbusePercent * s.total /\ s.total >= AbuseMin

gr_behavior_admin_score(d, a, window) ==
    LET s == query_actor_stats(d, a, today - window)
    IN  [stats |-> s, abuse_suspected |-> Abusive(s)]

----------------------------------------------------------------------------
(* The group.                                                              *)

Count(d, status) == Cardinality({p \in Subjects : d.peers[p].status = status})

\* count per window > threshold per unit * group_scale
Exceeds(count, unit, threshold, window, active) ==
    IF active <= ScaleFrom THEN count * unit > threshold * window
    ELSE (count * unit) ^ 2 * ScaleFrom > (threshold * window) ^ 2 * active

gr_behavior_mutation_rate(d, window) ==
    LET rows == InWindow(d.log, today - window)
        seen == Cardinality({rows[i].actor : i \in 1 .. Len(rows)})
    IN  [total |-> Len(rows), distinct |-> IF seen > MaxActors THEN MaxActors ELSE seen,
         swarm |-> Exceeds(Len(rows), Minute, SwarmPerMin, window, Count(d, "active"))]

Stale(d, cutoff) == {p \in Subjects : d.peers[p].status = "active" /\ d.peers[p].seen < cutoff}

gr_behavior_peer_churn(d, window) ==
    LET cutoff == today - window
    IN  [active |-> Count(d, "active"), kicked |-> Count(d, "kicked"),
         banned |-> Count(d, "banned"), left |-> Count(d, "left"),
         joined |-> Cardinality({p \in Subjects : d.peers[p].status # "none" /\ d.peers[p].joined > cutoff}),
         removed |-> Cardinality({p \in Subjects : d.peers[p].removed > cutoff /\ d.peers[p].removed > 0}),
         stale |-> Cardinality(Stale(d, today - (window \div 2)))]

\* churn_rate > churn_attention_threshold; no active peer, no rate
Churning(c) == c.active > 0 /\ c.joined + c.removed > ChurnAttention * c.active

\* oldest first, at most most of them
gr_behavior_stale_peers(d, threshold, most) ==
    LET stale == {p \in Subjects : d.peers[p].status = "active" /\ d.peers[p].seen < today - threshold}
        order == CHOOSE s \in [1 .. Cardinality(stale) -> stale] :
                    /\ \A p \in stale : \E i \in DOMAIN s : s[i] = p
                    /\ \A i, j \in DOMAIN s : i < j => d.peers[s[i]].seen <= d.peers[s[j]].seen
    IN  SubSeq(order, 1, IF Len(order) < most THEN Len(order) ELSE most)

\* the first epoch is no rotation; a current one lasts until now
gr_behavior_epoch_pattern(d, window) ==
    LET ids == DOMAIN d.epochs
        rotations == Cardinality({i \in ids \ {1} : d.epochs[i].created > today - window})
        lasted(i) == (IF d.epochs[i].expired > 0 THEN d.epochs[i].expired ELSE today) - d.epochs[i].created
    IN  [rotations |-> rotations, average |-> MapThenSumSet(lasted, ids) \div Cardinality(ids),
         excessive |-> Exceeds(rotations, Hour, EpochPerHour, window, Count(d, "active"))]

\* the mean interval as a fraction
gr_behavior_network_score(d) ==
    [since_update |-> today - d.updated,
     entries |-> Len(d.log),
     span |-> IF Len(d.log) > 1 THEN d.log[Len(d.log)].at - d.log[1].at ELSE 0]

----------------------------------------------------------------------------
(* gr_behavior_snapshot                                                    *)

NoStats == actor_stats(<<>>)

\* a row is counted in the bucket s
Bucketed(s, kind) ==
    [s EXCEPT !.total = @ + 1,
              !.kicks = IF kind = "kick" THEN @ + 1 ELSE @,
              !.bans = IF kind = "ban" THEN @ + 1 ELSE @,
              !.removes = IF kind = "remove" THEN @ + 1 ELSE @,
              !.role_mods = IF kind \in {"role_added", "role_removed", "role_modified"} THEN @ + 1 ELSE @,
              !.perm_escalations = IF kind = "peer_role" THEN @ + 1 ELSE @,
              !.invites = IF kind = "invite" THEN @ + 1 ELSE @,
              !.epochs = IF kind = "epoch" THEN @ + 1 ELSE @]

\* the buckets, in the order in which actors turn up; no more than MaxActors
Buckets(rows) ==
    LET upto[n \in 0 .. Len(rows)] ==
            IF n = 0 THEN <<>>
            ELSE LET bs == upto[n - 1]
                     row == rows[n]
                     mine == {j \in 1 .. Len(bs) : bs[j].actor = row.actor}
                 IN  IF mine # {}
                     THEN LET j == CHOOSE j \in mine : TRUE
                          IN  [bs EXCEPT ![j].stats = Bucketed(@, row.kind)]
                     ELSE IF Len(bs) < MaxActors
                     THEN Append(bs, [actor |-> row.actor, stats |-> Bucketed(NoStats, row.kind)])
                     ELSE bs
    IN  upto[Len(rows)]

\* the ratio of s is larger than that of r
WorseThan(s, r) == Destructive(s) * r.total > Destructive(r) * s.total

\* A mutant: few actions are enough
EnoughAlways(s) == TRUE
Enough(s) == s.total >= AbuseMin

\* the first bucket with the largest ratio above zero, or 0
WorstOf(bs) ==
    LET judged == {j \in 1 .. Len(bs) : Enough(bs[j].stats) /\ Destructive(bs[j].stats) > 0}
        worst == {j \in judged : \A k \in judged : ~WorseThan(bs[k].stats, bs[j].stats)}
    IN  IF worst = {} THEN 0 ELSE Min(worst)

gr_behavior_snapshot(d, window) ==
    LET churn == gr_behavior_peer_churn(d, window)
        rows == InWindow(d.log, today - window)
        bs == Buckets(rows)
        w == WorstOf(bs)
        swarm == Exceeds(Len(rows), Minute, SwarmPerMin, window, churn.active)
        epoch == gr_behavior_epoch_pattern(d, window)
        hasWorst == w # 0 /\ Destructive(bs[w].stats) * 100 > AbusePercent * bs[w].stats.total
    IN  [churn |-> churn, epoch_pattern |-> epoch, network |-> gr_behavior_network_score(d),
         mutation_rate |-> [total |-> Len(rows), distinct |-> Len(bs), swarm |-> swarm],
         has_worst_admin |-> hasWorst,
         worst |-> IF hasWorst THEN bs[w] ELSE [actor |-> 0, stats |-> NoStats],
         needs_attention |-> swarm \/ epoch.excessive \/ Churning(churn) \/ hasWorst]

----------------------------------------------------------------------------
(* Changes.                                                                *)

AlertCutoff == today - AlertWindow

gr_behavior_check_actor(d, a) ==
    LET s == query_actor_stats(d, a, AlertCutoff)
    IN  [actor |-> a, burst |-> s.total * Minute > BurstPerMin * AlertWindow, abuse |-> Abusive(s)]

\* the rows a change of kind k to peer p writes; a kicked peer that is added
\* again keeps the times of its row
Changed(d, k, p) ==
    CASE k = "join" /\ d.peers[p].status = "none" ->
            [d EXCEPT !.peers[p] = [status |-> "active", joined |-> today, removed |-> 0, seen |-> today]]
      [] k = "join" -> [d EXCEPT !.peers[p].status = "active", !.peers[p].removed = 0]
      [] k = "kick" -> [d EXCEPT !.peers[p].status = "kicked", !.peers[p].removed = today]
      [] k = "ban" -> [d EXCEPT !.peers[p].status = "banned", !.peers[p].removed = today]
      [] k = "remove" -> [d EXCEPT !.peers[p].status = "left", !.peers[p].removed = today]
      [] k = "epoch" -> [d EXCEPT !.epochs = Append([@ EXCEPT ![Len(@)].expired = today],
                                                    [created |-> today, expired |-> 0])]
      [] OTHER -> d

Allowed(d, k, p) ==
    CASE k = "join" -> d.peers[p].status \in {"none", "kicked"}
      [] k \in {"kick", "remove"} -> d.peers[p].status = "active"
      [] k = "ban" -> d.peers[p].status # "none"
      [] OTHER -> TRUE

\* gr_audit_enforce_retention_internal: the oldest rows that are no forks go.
\* Versions and forks are not kept here: any rows may be those.
Retained(log) ==
    IF Len(log) <= AuditRows THEN {log}
    ELSE {[i \in 1 .. AuditRows |-> log[SetToSortSeq(kept, <)[i]]] : kept \in kSubset(AuditRows, 1 .. Len(log))}

\* gr_audit_append: the row, and the logs that retention may leave
Logged(d, e) ==
    {[d EXCEPT !.log = log, !.updated = e.at] : log \in Retained(Append(d.log, e))}

\* The actor is checked, and the alert raised, before the transaction ends.
Change(a, k, p) ==
    /\ changes < ChangeBound /\ changes' = changes + 1
    /\ Allowed(regDb, k, p)
    /\ \E d \in Logged(Changed(regDb, k, p), [at |-> today, actor |-> a, kind |-> k]) :
         LET alert == gr_behavior_check_actor(d, a)
         IN  /\ regDb' = d
             /\ raised' = [actor |-> a, burst |-> alert.burst, abuse |-> alert.abuse, kept |-> TRUE]
    /\ UNCHANGED <<today, merged>>

\* The transaction of a change fails after the check: what the alert was about
\* is gone (which alert it was is not kept).
RollBack == /\ raised' = NoAlert /\ UNCHANGED <<regDb, today, merged, changes>>

\* A delta of one entry, with the time of the peer that made it: nobody is checked.
MergeEntry(a, k, at) ==
    /\ merged < MergeBound /\ merged' = merged + 1
    /\ LET before == SelectSeq(regDb.log, LAMBDA e : e.at <= at)
           after == SelectSeq(regDb.log, LAMBDA e : e.at > at)
       IN  \E log \in Retained(before \o <<[at |-> at, actor |-> a, kind |-> k]>> \o after) :
             regDb' = [regDb EXCEPT !.log = log, !.updated = IF at > @ THEN at ELSE @]
    /\ raised' = NoAlert /\ UNCHANGED <<today, changes>>

DayPasses == /\ today < DayBound /\ today' = today + 1 /\ raised' = NoAlert
             /\ UNCHANGED <<regDb, merged, changes>>

BehInit ==
    /\ regDb = [log |-> <<>>, updated |-> 1,
                peers |-> [p \in Subjects |-> [status |-> "none", joined |-> 0, removed |-> 0, seen |-> 0]],
                epochs |-> <<[created |-> 1, expired |-> 0]>>]
    /\ today = 1 /\ raised = NoAlert /\ merged = 0 /\ changes = 0

BehNext ==
    \/ \E a \in Actors, k \in ChangeKinds, p \in Subjects : Change(a, k, p)
    \/ \E a \in Actors, k \in MergedKinds, at \in 1 .. today : MergeEntry(a, k, at)
    \/ RollBack
    \/ DayPasses

----------------------------------------------------------------------------
(* Properties.                                                             *)

\* The snapshot's single pass finds what the separate calls find: the same
\* rate, and a worst admin exactly when admin_score suspects somebody, with the
\* counts of admin_score and nobody worse.  (With more actors than MaxActors it
\* may miss one.)
SnapshotAgrees ==
    \A w \in AskedWindows :
        LET s == gr_behavior_snapshot(regDb, w)
            score(a) == gr_behavior_admin_score(regDb, a, w)
            rows == InWindow(regDb.log, today - w)
            known == Cardinality({rows[i].actor : i \in 1 .. Len(rows)}) <= MaxActors
        IN  /\ s.mutation_rate = gr_behavior_mutation_rate(regDb, w)
            /\ s.has_worst_admin =>
                 /\ s.worst.stats = score(s.worst.actor).stats /\ score(s.worst.actor).abuse_suspected
            /\ known =>
                 /\ s.has_worst_admin <=> \E a \in Actors : score(a).abuse_suspected
                 /\ s.has_worst_admin =>
                      \A a \in Actors : score(a).stats.total >= AbuseMin => ~WorseThan(score(a).stats, s.worst.stats)

\* The alert of a change is what actor_burst and admin_score say of the actor
\* right after it, if the change was kept.
AlertIsConfirmed ==
    raised.kept =>
        /\ raised.burst = gr_behavior_actor_burst(regDb, raised.actor, AlertWindow).burst_detected
        /\ raised.abuse = gr_behavior_admin_score(regDb, raised.actor, AlertWindow).abuse_suspected

\* peer_churn counts as stale the peers that stale_peers lists for half the
\* window.
StaleAgrees ==
    \A w \in AskedWindows :
        gr_behavior_peer_churn(regDb, w).stale
            = Len(gr_behavior_stale_peers(regDb, w \div 2, Cardinality(Subjects)))

\* The three ways to ask about behaviour, one pass, single calls and the alert of a change,
\* give the same answer.
BehaviorSound == SnapshotAgrees /\ AlertIsConfirmed /\ StaleAgrees
=============================================================================
