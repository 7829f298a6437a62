----------------------------- MODULE BootServer -----------------------------
(***************************************************************************)
(* The bootstrap listener of a member (boot_worker in yumi_client.c) with  *)
(* the address blocklist of the registrar (group_registrar/blocklist.c).   *)
(*                                                                         *)
(* The worker answers a registrar request whose token is a valid invite    *)
(* and a connection request of an active member, and counts the failures   *)
(* of an address in the database.  The blocklist calls hold the            *)
(* registrar's lock; the audit entry for a new block is appended without   *)
(* it, while other threads run mutators under it, on the same database     *)
(* connection and so inside whatever transaction is open there.            *)
(***************************************************************************)
EXTENDS Integers, Sequences

CONSTANTS
    Addresses,
    Mutators,           \* threads that call registrar mutators
    BLOCK_MAX_FAILS,    \* BOOT_BLOCK_MAX_FAILS
    BLOCK_DURATION,     \* BOOT_BLOCK_DURATION_MS, in ticks
    MaxTime, MaxLog     \* bounds: ticks, audit entries

Free == "free"      \* nobody holds db_lock

ASSUME BootAssumption ==
    /\ BLOCK_MAX_FAILS \in Nat \ {0} /\ BLOCK_DURATION \in Nat
    /\ MaxTime \in Nat /\ MaxLog \in Nat
    /\ Free \notin Mutators

VARIABLES
    rows,       \* gr_ip_blocklist: address -> [fails, blocked, at]
    clock,
    audit,      \* gr_audit_log: sequence of [prev, by]
    dbLock,     \* holder of db_lock among the mutators
    boot,       \* the worker: [pc, ip, kind, prev]
    mutator,    \* mutator -> [prev, mark]: what it read, the log when it began
    streak      \* history: address -> failures since its last fresh start

bootVars == <<rows, clock, audit, dbLock, boot, mutator, streak>>

Absent == [fails |-> 0, blocked |-> FALSE, at |-> 0]
BootIdle == [pc |-> "poll", ip |-> "none", kind |-> "none", prev |-> 0]

BootInit ==
    /\ rows = [a \in Addresses |-> Absent]
    /\ clock = 0 /\ audit = <<>> /\ dbLock = Free /\ boot = BootIdle
    /\ mutator = [t \in Mutators |-> [prev |-> 0, mark |-> 0]]
    /\ streak = [a \in Addresses |-> 0]

Expired(a) == clock - rows[a].at >= BLOCK_DURATION

\* A datagram arrives: gr_blocklist_check drops it while its address is
\* blocked and deletes an entry that has expired.
gr_blocklist_check(a, kind) ==
    /\ boot.pc = "poll" /\ dbLock = Free
    /\ IF rows[a].blocked /\ ~Expired(a)
       THEN UNCHANGED <<boot, rows, streak>>
       ELSE /\ boot' = [BootIdle EXCEPT !.pc = "verify", !.ip = a, !.kind = kind]
            /\ rows' = IF rows[a].blocked THEN [rows EXCEPT ![a] = Absent] ELSE rows
            /\ streak' = IF rows[a].blocked THEN [streak EXCEPT ![a] = 0] ELSE streak
    /\ UNCHANGED <<clock, audit, dbLock, mutator>>

\* A mutant: the failures stay.
AnswerUnreset ==
    /\ boot.pc = "verify" /\ dbLock = Free
    /\ streak' = IF boot.kind = "REQ" THEN [streak EXCEPT ![boot.ip] = 0] ELSE streak
    /\ boot' = BootIdle
    /\ UNCHANGED <<rows, clock, audit, dbLock, mutator>>

\* The request is good: a registrar request clears the failures of its
\* address and gets the registrar, a connection request gets the port.
Answer ==
    /\ boot.pc = "verify" /\ dbLock = Free
    /\ LET a == boot.ip
       IN  /\ rows' = IF boot.kind = "REQ" THEN [rows EXCEPT ![a] = Absent] ELSE rows
           /\ streak' = IF boot.kind = "REQ" THEN [streak EXCEPT ![a] = 0] ELSE streak
    /\ boot' = BootIdle
    /\ UNCHANGED <<clock, audit, dbLock, mutator>>

\* gr_blocklist_record_fail: one more failure, and a block at the limit.
gr_blocklist_record_fail ==
    /\ boot.pc = "verify" /\ dbLock = Free
    /\ LET a == boot.ip
           n == rows[a].fails + 1
           block == n >= BLOCK_MAX_FAILS
       IN  /\ rows' = [rows EXCEPT ![a] = [fails |-> n, blocked |-> block,
                                           at |-> IF block THEN clock ELSE 0]]
           /\ streak' = [streak EXCEPT ![a] = @ + 1]
           /\ boot' = IF block THEN [boot EXCEPT !.pc = "audit"] ELSE BootIdle
    /\ UNCHANGED <<clock, audit, dbLock, mutator>>

\* gr_audit_append by the worker: it reads the last hash and inserts, without
\* the lock and without a transaction of its own.
BootAuditRead ==
    /\ boot.pc = "audit"
    /\ boot' = [boot EXCEPT !.pc = "insert", !.prev = Len(audit)]
    /\ UNCHANGED <<rows, clock, audit, dbLock, mutator, streak>>

BootAuditInsert ==
    /\ boot.pc = "insert" /\ Len(audit) < MaxLog
    /\ audit' = Append(audit, [prev |-> boot.prev, by |-> "boot"])
    /\ boot' = BootIdle
    /\ UNCHANGED <<rows, clock, dbLock, mutator, streak>>

\* The audit part of a mutator: lock, BEGIN, read the last hash ...
MutatorBegin(t) ==
    /\ dbLock = Free
    /\ dbLock' = t
    /\ mutator' = [mutator EXCEPT ![t] = [prev |-> Len(audit), mark |-> Len(audit)]]
    /\ UNCHANGED <<rows, clock, audit, boot, streak>>

\* ... insert, COMMIT and unlock, or ROLLBACK: everything inserted on this
\* connection since BEGIN is gone.
MutatorEnd(t) ==
    /\ dbLock = t /\ dbLock' = Free
    /\ \/ Len(audit) < MaxLog /\ audit' = Append(audit, [prev |-> mutator[t].prev, by |-> t])
       \/ audit' = SubSeq(audit, 1, mutator[t].mark)
    /\ UNCHANGED <<rows, clock, boot, mutator, streak>>

\* dashboard_gr_blocklist_cleanup: delete the blocks that have expired.
gr_blocklist_cleanup ==
    /\ dbLock = Free
    /\ \E a \in Addresses : rows[a].blocked /\ rows[a].at < clock - BLOCK_DURATION
    /\ LET old == {a \in Addresses : rows[a].blocked /\ rows[a].at < clock - BLOCK_DURATION}
       IN  /\ rows' = [a \in Addresses |-> IF a \in old THEN Absent ELSE rows[a]]
           /\ streak' = [a \in Addresses |-> IF a \in old THEN 0 ELSE streak[a]]
    /\ UNCHANGED <<clock, audit, dbLock, boot, mutator>>

\* The process ends and starts again: the table and the log persist, an open
\* transaction does not.
BootRestart ==
    /\ boot' = BootIdle /\ dbLock' = Free
    /\ audit' = IF dbLock = Free THEN audit ELSE SubSeq(audit, 1, mutator[dbLock].mark)
    /\ UNCHANGED <<rows, clock, mutator, streak>>

Tick == clock < MaxTime /\ clock' = clock + 1
        /\ UNCHANGED <<rows, audit, dbLock, boot, mutator, streak>>

BootNext ==
    \/ \E a \in Addresses, k \in {"REQ", "CONN_REQ"} : gr_blocklist_check(a, k)
    \/ Answer \/ gr_blocklist_record_fail
    \/ BootAuditRead \/ BootAuditInsert
    \/ \E t \in Mutators : MutatorBegin(t) \/ MutatorEnd(t)
    \/ gr_blocklist_cleanup \/ BootRestart \/ Tick

BootSpec == BootInit /\ [][BootNext]_bootVars

----------------------------------------------------------------------------
(* Properties.                                                             *)

\* Types, the clock and the log within their bounds.
BootTypeOK ==
    /\ rows \in [Addresses -> [fails : 0 .. BLOCK_MAX_FAILS, blocked : BOOLEAN, at : 0 .. MaxTime]]
    /\ clock \in 0 .. MaxTime /\ Len(audit) <= MaxLog
    /\ dbLock \in Mutators \cup {Free}
    /\ boot.pc \in {"poll", "verify", "audit", "insert"}

\* The count an address carries in the database is the number of its failures
\* since it last fetched the registrar or a block of it ran out, through
\* restarts too, and it is blocked exactly when that number reaches the limit:
\* blocks are earned and earned blocks are not forgotten.
BlocksAreEarned ==
    \A a \in Addresses : /\ rows[a].fails = streak[a]
                         /\ rows[a].blocked = (streak[a] >= BLOCK_MAX_FAILS)

\* Once blocked an address stays blocked for the whole duration, whatever else
\* is requested, cleaned up or restarted meanwhile: only then is its traffic
\* looked at again.
BlockedForTheDuration ==
    [][\A a \in Addresses : rows[a].blocked /\ ~rows'[a].blocked
        => clock - rows[a].at >= BLOCK_DURATION]_bootVars

\* The audit log is one chain but for the entries the worker appends: where
\* two entries name the same predecessor, or an entry names a predecessor that
\* is not the one before it, the worker's unlocked append is involved.
ForksNeedTheWorker ==
    (\A i \in 1 .. Len(audit) : audit[i].by # "boot")
        => \A i \in 1 .. Len(audit) : audit[i].prev = i - 1

\* The bootstrap server blocks whom it should, for as long as it should, through restarts, and
\* only its own unlocked audit entry can fork the log.
BlocksHold == [](BootTypeOK /\ BlocksAreEarned /\ ForksNeedTheWorker) /\ BlockedForTheDuration
=============================================================================
