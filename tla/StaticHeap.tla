----------------------------- MODULE StaticHeap -----------------------------
(***************************************************************************)
(* A pool of memory/static_heap.c.  A free node is in the stack of a       *)
(* thread, in the global list, which a mutex guards, or, when the mutex    *)
(* could not be had, in a lock-free recovery stack.  What happens under    *)
(* the mutex or in a thread's own stack is one step; the recovery stacks   *)
(* are taken apart into their loads and compare-and-swaps.                 *)
(***************************************************************************)
EXTENDS Integers, Sequences, FiniteSets, SequencesExt

CONSTANTS
    HeapThreads,
    NodeCount,       \* y: the size of the buffer
    CacheSize,       \* YUMI_STATIC_HEAP_TLS_CACHE_SIZE, even
    RefillBatch,     \* YUMI_STATIC_HEAP_REFILL_BATCH
    SlotCount,       \* YUMI_STATIC_HEAP_MAX_THREADS: recovery stacks
    SlotOf,          \* the recovery stack a thread's id hashes to
    LockFailures     \* bound: how often mtx_lock fails

ASSUME HeapAssumption ==
    /\ CacheSize \in Nat /\ CacheSize >= 2 /\ CacheSize % 2 = 0
    /\ RefillBatch \in 1 .. CacheSize
    /\ SlotOf \in [HeapThreads -> 0 .. SlotCount - 1]

Null == 0
HeapNodes == 1 .. NodeCount

VARIABLES
    nxt,        \* node -> the node its next points to
    head,       \* the global list
    count,      \* global_count
    recovery,   \* recovery stack -> its head
    cache,      \* thread -> the stack of its nodes
    registered, \* threads whose exit will flush their stack
    leased,     \* nodes with a caller
    hp,         \* thread -> where it stands
    failures    \* lock failures left

heapVars == <<nxt, head, count, recovery, cache, registered, leased, hp, failures>>

AtRest == [pc |-> "idle", probe |-> 0, item |-> Null, next |-> Null, todo |-> <<>>]

----------------------------------------------------------------------------
(* Lists.                                                                  *)

\* the nodes from h on; a list that has become a circle has NodeCount + 1
Chain(h) ==
    LET at[i \in 0 .. NodeCount] == IF i = 0 THEN h ELSE IF at[i - 1] = Null THEN Null ELSE nxt[at[i - 1]]
    IN  SelectSeq([i \in 1 .. NodeCount + 1 |-> at[i - 1]], LAMBDA n : n # Null)

\* ns is linked in order, in front of h
Linked(ns, h) ==
    [n \in HeapNodes |-> IF \E i \in 1 .. Len(ns) : ns[i] = n
                         THEN LET i == CHOOSE i \in 1 .. Len(ns) : ns[i] = n
                              IN  IF i < Len(ns) THEN ns[i + 1] ELSE h
                         ELSE nxt[n]]

HeapIdle(t) == hp[t].pc = "idle"
\* mtx_lock fails; it is not tried when there is nothing to be had by it
LockFails == failures > 0 /\ failures' = failures - 1
Locks == UNCHANGED failures

----------------------------------------------------------------------------
(* lease_x                                                                 *)

LeaseFast(t) ==
    /\ HeapIdle(t) /\ cache[t] # <<>>
    /\ leased' = leased \cup {Last(cache[t])}
    /\ cache' = [cache EXCEPT ![t] = Front(@)]
    /\ UNCHANGED <<nxt, head, count, recovery, registered, hp, failures>>

\* half of what is left, at most a batch and at least one
Want == LET fair == (count + 1) \div 2
            want == IF RefillBatch > fair THEN fair ELSE RefillBatch
        IN  IF want < 1 THEN 1 ELSE want

Taken(stored) == stored + 1

\* refill_from_global: all but the last of the nodes taken go to the stack
Refill(t) ==
    /\ HeapIdle(t) /\ cache[t] = <<>> /\ head # Null
    /\ Locks
    /\ registered' = registered \cup {t}
    /\ LET list == Chain(head)
           stored == IF Want - 1 < Len(list) - 1 THEN Want - 1 ELSE Len(list) - 1
       IN  /\ cache' = [cache EXCEPT ![t] = SubSeq(list, 1, stored)]
           /\ leased' = leased \cup {list[stored + 1]}
           /\ head' = nxt[list[stored + 1]]
           /\ count' = count - Taken(stored)
    /\ UNCHANGED <<nxt, recovery, hp>>

\* the list is empty or could not be locked: look through the recovery stacks
Fallback(t) ==
    /\ HeapIdle(t) /\ cache[t] = <<>>
    /\ IF head = Null THEN Locks ELSE LockFails
    /\ registered' = registered \cup {t}
    /\ hp' = [hp EXCEPT ![t].pc = "load", ![t].probe = 0]
    /\ UNCHANGED <<nxt, head, count, recovery, cache, leased>>

Probed(t) == (SlotOf[t] + hp[t].probe) % SlotCount

\* recovery_pop_any: an empty stack leads to the next; after the last one the
\* lease fails
PopLoad(t) ==
    /\ hp[t].pc = "load"
    /\ LET h == recovery[Probed(t)]
       IN  hp' = [hp EXCEPT ![t] =
                    IF h # Null THEN [@ EXCEPT !.pc = "read", !.item = h]
                    ELSE IF @.probe + 1 < SlotCount THEN [@ EXCEPT !.probe = @ + 1]
                    ELSE AtRest]
    /\ UNCHANGED <<nxt, head, count, recovery, cache, registered, leased, failures>>

PopRead(t) ==
    /\ hp[t].pc = "read"
    /\ hp' = [hp EXCEPT ![t].pc = "swap", ![t].next = nxt[hp[t].item]]
    /\ UNCHANGED <<nxt, head, count, recovery, cache, registered, leased, failures>>

PopSwap(t) ==
    /\ hp[t].pc = "swap"
    /\ IF recovery[Probed(t)] = hp[t].item
       THEN /\ recovery' = [recovery EXCEPT ![Probed(t)] = hp[t].next]
            /\ leased' = leased \cup {hp[t].item}
            /\ hp' = [hp EXCEPT ![t] = AtRest]
       ELSE /\ hp' = [hp EXCEPT ![t].pc = "load", ![t].item = Null, ![t].next = Null]
            /\ UNCHANGED <<recovery, leased>>
    /\ UNCHANGED <<nxt, head, count, cache, registered, failures>>

----------------------------------------------------------------------------
(* release_x, by any thread                                                *)

ReleaseFast(t, n) ==
    /\ HeapIdle(t) /\ n \in leased /\ Len(cache[t]) < CacheSize
    /\ registered' = registered \cup {t}
    /\ cache' = [cache EXCEPT ![t] = Append(@, n)]
    /\ leased' = leased \ {n}
    /\ UNCHANGED <<nxt, head, count, recovery, hp, failures>>

Half == CacheSize \div 2

\* A mutant: the upper half is not moved down
KeptSame(c, n) == Append(SubSeq(c, 1, Half), n)
\* what the stack keeps when its lower half goes
Kept(c, n) == Append(SubSeq(c, Half + 1, CacheSize), n)

\* spill_to_global
Spill(t, n) ==
    /\ HeapIdle(t) /\ n \in leased /\ Len(cache[t]) = CacheSize
    /\ Locks
    /\ nxt' = Linked(SubSeq(cache[t], 1, Half), head)
    /\ head' = cache[t][1]
    /\ count' = count + Half
    /\ cache' = [cache EXCEPT ![t] = Kept(@, n)]
    /\ leased' = leased \ {n}
    /\ UNCHANGED <<recovery, registered, hp>>

SpillFails(t, n) ==
    /\ HeapIdle(t) /\ n \in leased /\ Len(cache[t]) = CacheSize
    /\ LockFails
    /\ leased' = leased \ {n}
    /\ hp' = [hp EXCEPT ![t].pc = "push", ![t].todo = <<n>>, ![t].next = recovery[SlotOf[t]]]
    /\ UNCHANGED <<nxt, head, count, recovery, cache, registered>>

\* recovery_push: a failed swap has loaded the head anew
Push(t) ==
    /\ hp[t].pc \in {"push", "flush"}
    /\ LET n == Head(hp[t].todo)
           rest == Tail(hp[t].todo)
       IN  /\ nxt' = [nxt EXCEPT ![n] = hp[t].next]
           /\ IF recovery[SlotOf[t]] = hp[t].next
              THEN /\ recovery' = [recovery EXCEPT ![SlotOf[t]] = n]
                   /\ hp' = [hp EXCEPT ![t] =
                        IF rest # <<>> THEN [@ EXCEPT !.todo = rest, !.next = n]
                        ELSE IF @.pc = "flush" THEN [AtRest EXCEPT !.pc = "exited"] ELSE AtRest]
              ELSE /\ hp' = [hp EXCEPT ![t].next = recovery[SlotOf[t]]]
                   /\ UNCHANGED recovery
    /\ UNCHANGED <<head, count, cache, registered, leased, failures>>

----------------------------------------------------------------------------
(* A thread ends: the destructor flushes its stack, if it was registered.  *)

Exit(t) ==
    /\ HeapIdle(t)
    /\ t \notin registered \/ cache[t] = <<>>
    /\ hp' = [hp EXCEPT ![t].pc = "exited"]
    /\ UNCHANGED <<nxt, head, count, recovery, cache, registered, leased, failures>>

tls_flush(t) ==
    /\ HeapIdle(t) /\ t \in registered /\ cache[t] # <<>>
    /\ Locks
    /\ nxt' = Linked(cache[t], head)
    /\ head' = cache[t][1]
    /\ count' = count + Len(cache[t])
    /\ cache' = [cache EXCEPT ![t] = <<>>]
    /\ hp' = [hp EXCEPT ![t].pc = "exited"]
    /\ UNCHANGED <<recovery, registered, leased>>

FlushFails(t) ==
    /\ HeapIdle(t) /\ t \in registered /\ cache[t] # <<>>
    /\ LockFails
    /\ nxt' = Linked(cache[t], nxt[Last(cache[t])])
    /\ cache' = [cache EXCEPT ![t] = <<>>]
    /\ hp' = [hp EXCEPT ![t].pc = "flush", ![t].todo = cache[t], ![t].next = recovery[SlotOf[t]]]
    /\ UNCHANGED <<head, count, recovery, registered, leased>>

\* another thread takes its place
Begin(t) ==
    /\ hp[t].pc = "exited"
    /\ hp' = [hp EXCEPT ![t] = AtRest]
    /\ cache' = [cache EXCEPT ![t] = <<>>]
    /\ registered' = registered \ {t}
    /\ UNCHANGED <<nxt, head, count, recovery, leased, failures>>

----------------------------------------------------------------------------
init_static_heap ==
    /\ nxt = [n \in HeapNodes |-> IF n < NodeCount THEN n + 1 ELSE Null]
    /\ head = 1 /\ count = NodeCount
    /\ recovery = [s \in 0 .. SlotCount - 1 |-> Null]
    /\ cache = [t \in HeapThreads |-> <<>>] /\ registered = {}
    /\ leased = {} /\ hp = [t \in HeapThreads |-> AtRest] /\ failures = LockFailures

HeapNext ==
    \E t \in HeapThreads :
        \/ LeaseFast(t) \/ Refill(t) \/ Fallback(t) \/ PopLoad(t) \/ PopRead(t) \/ PopSwap(t)
        \/ \E n \in leased : ReleaseFast(t, n) \/ Spill(t, n) \/ SpillFails(t, n)
        \/ Push(t) \/ Exit(t) \/ tls_flush(t) \/ FlushFails(t) \/ Begin(t)

----------------------------------------------------------------------------
(* Properties.                                                             *)

\* every place where a node may be, as sequences of nodes
Places == <<Chain(head), SetToSeq(leased)>>
          \o [s \in 1 .. SlotCount |-> Chain(recovery[s - 1])]
          \o SetToSeq({cache[t] : t \in HeapThreads} \ {<<>>})
          \o SetToSeq({hp[t].todo : t \in HeapThreads} \ {<<>>})

\* "A node is in exactly ONE of: TLS stack, global freelist, recovery slot, or
\* leased to the caller": none is lost and none is in two places, whatever
\* threads lease, release and exit meanwhile.  (With two failures of mtx_lock
\* the recovery stacks meet the ABA problem and this no longer holds.)
OnePlace ==
    LET all == FlattenSeq(Places)
    IN  Len(all) = NodeCount /\ ToSet(all) = HeapNodes

\* global_count, which refills take half of, is the length of the list.
CountIsLength == count = Len(Chain(head))

\* Every node is in one place and the count of the global list is its length, whatever threads
\* lease, release and exit.
NodesKept == OnePlace /\ CountIsLength
=============================================================================
