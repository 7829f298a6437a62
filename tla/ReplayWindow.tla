---------------------------- MODULE ReplayWindow ----------------------------
(***************************************************************************)
(* The anti-replay window of the secure client (sudp_replay_t,             *)
(* replay_shift_bitmap and sudp_replay_check in                            *)
(* network/yumi_sudp_client.c).  A word of the bitmap is the set of the    *)
(* bits that are one; bit b of word w stands for the counter               *)
(* max_seq - (w * WordBits + b).                                           *)
(***************************************************************************)
EXTENDS Integers, TLAPS

CONSTANTS
    WordBits,  \* 64
    Words,     \* 4
    MaxSeq     \* bound: the largest nonce counter sent

ASSUME ReplayAssumption ==
    WordBits \in Nat \ {0} /\ Words \in Nat \ {0} /\ MaxSeq \in Nat

Window == WordBits * Words     \* SUDP_REPLAY_WINDOW
Bits == 0 .. WordBits - 1
WordIds == 0 .. Words - 1
Counters == 0 .. MaxSeq

VARIABLES
    maxSeq,    \* max_seq
    bitmap,    \* word -> set of bits
    accepted,  \* history: the counters accepted
    replays    \* history: how far behind max_seq a counter was accepted again

vars == <<maxSeq, bitmap, accepted, replays>>

Init ==
    /\ maxSeq = 0
    /\ bitmap = [w \in WordIds |-> {}]
    /\ accepted = {} /\ replays = {}

\* x << n and x >> n on a word.
ShiftLeft(x, n) == {b + n : b \in {c \in x : c + n < WordBits}}
ShiftRight(x, n) == {b - n : b \in {c \in x : c >= n}}

\* "Move words first", then "shift bits within words": a word takes its bits
\* from the words after it, the older ones.
MovedWords(bm, ws) ==
    [w \in WordIds |-> IF w + ws < Words THEN bm[w + ws] ELSE {}]
MovedBits(bm, bs) ==
    [w \in WordIds |-> ShiftLeft(bm[w], bs) \cup
        (IF bs > 0 /\ w + 1 < Words THEN ShiftRight(bm[w + 1], WordBits - bs) ELSE {})]

\* A mutant: a shift by one bit too few.
ShiftOneShort(bm, shift) ==
    IF shift >= Window
      THEN [w \in WordIds |-> {}]
      ELSE MovedBits(MovedWords(bm, (shift - 1) \div WordBits), (shift - 1) % WordBits)

\* The shift: by the whole window or more, everything is cleared.
replay_shift_bitmap(bm, shift) ==
    IF shift >= Window
      THEN [w \in WordIds |-> {}]
      ELSE MovedBits(MovedWords(bm, shift \div WordBits), shift % WordBits)

\* The counter is ahead of all seen: slide the window, mark bit 0.
AcceptNew(s) ==
    /\ s > maxSeq
    /\ LET moved == replay_shift_bitmap(bitmap, s - maxSeq)
       IN  bitmap' = [moved EXCEPT ![0] = @ \cup {0}]
    /\ maxSeq' = s
    /\ accepted' = accepted \cup {s}
    /\ UNCHANGED replays

Diff(s) == maxSeq - s
Word(s) == Diff(s) \div WordBits
Bit(s) == Diff(s) % WordBits

\* Within the window and not marked: mark and accept.
AcceptOld(s) ==
    /\ s <= maxSeq /\ Diff(s) < Window
    /\ Bit(s) \notin bitmap[Word(s)]
    /\ bitmap' = [bitmap EXCEPT ![Word(s)] = @ \cup {Bit(s)}]
    /\ accepted' = accepted \cup {s}
    /\ replays' = IF s \in accepted THEN replays \cup {Diff(s)} ELSE replays
    /\ UNCHANGED maxSeq

\* A counter that is too old or marked is refused: nothing changes.
Next == \E s \in Counters : AcceptNew(s) \/ AcceptOld(s)

Spec == Init /\ [][Next]_vars

-----------------------------------------------------------------------------
TypeOK ==
    /\ maxSeq \in Counters
    /\ bitmap \in [WordIds -> SUBSET Bits]
    /\ accepted \subseteq Counters
    /\ replays \subseteq Nat

\* Every counter accepted among the newest WordBits ones is marked in the first
\* word, so that it is refused when it comes again.
RecentMarked ==
    \A s \in accepted : s <= maxSeq /\ (Diff(s) < WordBits => Diff(s) \in bitmap[0])

\* A counter is accepted a second time only if it is a whole word behind
\* (sudp_replay_check:1044-1060): within the 64 entries the file header speaks
\* of, the window keeps its promise although the words are moved the wrong way.
NoRecentReplay == \A d \in replays : d >= WordBits

\* No counter is accepted twice: what an anti-replay window is for.
NoReplay == replays = {}

\* Within the newest word the anti-replay window is exact: what was accepted is marked and
\* not accepted again.
WindowExact == TypeOK /\ RecentMarked /\ NoRecentReplay

-----------------------------------------------------------------------------
(***************************************************************************)
(* Proofs: the newest word is exact for every word size and every number   *)
(* of words.  What the shift does to word 0 is all they need to know of    *)
(* the bitmap.                                                             *)
(***************************************************************************)
\* The window is at least one word wide.
LEMMA WindowWide == Window \in Nat /\ Window >= WordBits
<1>1. \A a, b \in Nat \ {0} : a * b \in Nat /\ a * b >= a
  OBVIOUS
<1> QED
  BY <1>1, ReplayAssumption DEF Window

\* A shift by less than a word moves no whole words, and by its own number of
\* bits.
LEMMA SmallShift ==
    ASSUME NEW n \in 0 .. WordBits - 1
    PROVE  n \div WordBits = 0 /\ n % WordBits = n
BY ReplayAssumption

\* A shifted bitmap is a bitmap.
LEMMA ShiftType ==
    ASSUME NEW bm \in [WordIds -> SUBSET Bits], NEW n \in Nat
    PROVE  replay_shift_bitmap(bm, n) \in [WordIds -> SUBSET Bits]
<1> DEFINE ws == n \div WordBits
           bs == n % WordBits
           mw == MovedWords(bm, ws)
<1>1. ws \in Nat /\ bs \in 0 .. WordBits - 1
  BY ReplayAssumption
<1>2. mw \in [WordIds -> SUBSET Bits]
  BY <1>1, ReplayAssumption DEF MovedWords, WordIds
<1> HIDE DEF ws, bs, mw
<1>3. ASSUME NEW w \in WordIds PROVE ShiftLeft(mw[w], bs) \subseteq Bits
  BY <1>1, <1>2, ReplayAssumption DEF ShiftLeft, Bits
<1>4. ASSUME NEW w \in WordIds, bs > 0, w + 1 < Words
      PROVE  ShiftRight(mw[w + 1], WordBits - bs) \subseteq Bits
  <2>1. w + 1 \in WordIds
    BY <1>4, ReplayAssumption DEF WordIds
  <2> QED
    BY <1>1, <1>2, <2>1, ReplayAssumption DEF ShiftRight, Bits
<1>5. MovedBits(mw, bs) \in [WordIds -> SUBSET Bits]
  BY <1>3, <1>4 DEF MovedBits
<1> QED
  BY <1>5 DEF replay_shift_bitmap, ws, bs, mw

\* A shift by less than a word keeps in word 0, n places further on, what does
\* not leave it.
LEMMA ShiftKeeps ==
    ASSUME NEW bm \in [WordIds -> SUBSET Bits], NEW n \in 0 .. WordBits - 1,
           NEW b \in bm[0], b + n < WordBits
    PROVE  b + n \in replay_shift_bitmap(bm, n)[0]
<1>1. n < Window /\ 0 \in WordIds
  BY WindowWide, ReplayAssumption DEF WordIds
<1>2. replay_shift_bitmap(bm, n) = MovedBits(MovedWords(bm, 0), n)
  <2>1. ~(n >= Window) /\ n \div WordBits = 0 /\ n % WordBits = n
    BY <1>1, WindowWide, SmallShift, ReplayAssumption
  <2> QED
    BY <2>1, Zenon DEF replay_shift_bitmap
<1>3. MovedWords(bm, 0)[0] = bm[0]
  BY <1>1, ReplayAssumption DEF MovedWords, WordIds
<1>4. b + n \in ShiftLeft(bm[0], n)
  BY DEF ShiftLeft
<1> QED
  BY <1>1, <1>2, <1>3, <1>4 DEF MovedBits

\* The window of a new connection is exact.
LEMMA ExactInit == Init => WindowExact
BY ReplayAssumption
   DEF Init, WindowExact, TypeOK, RecentMarked, NoRecentReplay, Counters, WordIds, Bits

\* Sliding the window (sudp_replay_check, counter ahead of all seen).
LEMMA ExactNew ==
    ASSUME WindowExact, NEW s \in Counters, AcceptNew(s)
    PROVE  WindowExact'
<1> DEFINE n == s - maxSeq
           moved == replay_shift_bitmap(bitmap, n)
<1>1. /\ maxSeq \in Nat /\ s \in Nat /\ n \in Nat \ {0} /\ 0 \in WordIds /\ 0 \in Bits
      /\ maxSeq' = s /\ replays' = replays /\ accepted' = accepted \cup {s}
  BY ReplayAssumption DEF WindowExact, TypeOK, AcceptNew, Counters, WordIds, Bits
<1>2. moved \in [WordIds -> SUBSET Bits]
  BY <1>1, ShiftType DEF WindowExact, TypeOK
<1>3. /\ bitmap' \in [WordIds -> SUBSET Bits]
      /\ moved[0] \subseteq bitmap'[0] /\ 0 \in bitmap'[0]
  BY <1>1, <1>2 DEF AcceptNew
<1>4. TypeOK'
  BY <1>1, <1>3 DEF WindowExact, TypeOK
<1>5. ASSUME NEW t \in accepted
      PROVE  t <= s /\ (s - t < WordBits => s - t \in bitmap'[0])
  <2>1. t \in Nat /\ t <= maxSeq
    BY DEF WindowExact, TypeOK, RecentMarked, Counters
  <2>2. ASSUME s - t < WordBits PROVE s - t \in bitmap'[0]
    <3>1. n \in 0 .. WordBits - 1 /\ maxSeq - t < WordBits
      BY <1>1, <2>1, <2>2, ReplayAssumption
    <3>2. maxSeq - t \in bitmap[0]
      BY <3>1 DEF WindowExact, RecentMarked, Diff
    <3>3. (maxSeq - t) + n = s - t
      BY <1>1, <2>1
    <3>4. (maxSeq - t) + n \in moved[0]
      BY <2>2, <3>1, <3>2, <3>3, ShiftKeeps DEF WindowExact, TypeOK
    <3> QED
      BY <1>3, <3>3, <3>4
  <2> QED
    BY <1>1, <2>1, <2>2
<1>6. RecentMarked'
  BY <1>1, <1>3, <1>5 DEF RecentMarked, Diff
<1> QED
  BY <1>1, <1>4, <1>6 DEF WindowExact, NoRecentReplay

\* Marking a counter behind the newest.
LEMMA ExactOld ==
    ASSUME WindowExact, NEW s \in Counters, AcceptOld(s)
    PROVE  WindowExact'
<1>1. /\ maxSeq \in Nat /\ s \in Nat /\ s <= maxSeq /\ Diff(s) \in Nat
      /\ Bit(s) \in Bits /\ Word(s) \in Nat
      /\ 0 \in WordIds /\ maxSeq' = maxSeq /\ accepted' = accepted \cup {s}
  BY ReplayAssumption
     DEF WindowExact, TypeOK, AcceptOld, Counters, Diff, Bit, Word, Bits, WordIds
<1>2. bitmap' = [bitmap EXCEPT ![Word(s)] = @ \cup {Bit(s)}]
  BY DEF AcceptOld
<1>3. bitmap' \in [WordIds -> SUBSET Bits] /\ bitmap[0] \subseteq bitmap'[0]
  BY <1>1, <1>2 DEF WindowExact, TypeOK
<1>4. Diff(s) < WordBits => Word(s) = 0 /\ Bit(s) = Diff(s)
  BY <1>1, SmallShift, ReplayAssumption DEF Word, Bit
<1>5. RecentMarked'
  <2>1. \A t \in accepted : t <= maxSeq' /\ (maxSeq' - t < WordBits => maxSeq' - t \in bitmap'[0])
    BY <1>1, <1>3 DEF WindowExact, RecentMarked, Diff
  <2>2. Diff(s) < WordBits => Diff(s) \in bitmap'[0]
    BY <1>1, <1>2, <1>4 DEF WindowExact, TypeOK
  <2> QED
    BY <1>1, <2>1, <2>2 DEF RecentMarked, Diff
<1>6. s \in accepted => Diff(s) >= WordBits
  BY <1>1, <1>4, ReplayAssumption DEF AcceptOld, WindowExact, RecentMarked
<1>7. /\ replays' \subseteq Nat
      /\ \A d \in replays' : d >= WordBits
  BY <1>1, <1>6 DEF AcceptOld, WindowExact, TypeOK, NoRecentReplay
<1> QED
  BY <1>1, <1>3, <1>5, <1>7 DEF WindowExact, TypeOK, NoRecentReplay

\* Whatever nonces arrive, in whatever order, a counter among the newest
\* WordBits is never accepted twice (sudp_replay_check).
THEOREM NewestWordIsExact == Spec => []WindowExact
<1>1. WindowExact /\ [Next]_vars => WindowExact'
  <2> SUFFICES ASSUME WindowExact, [Next]_vars PROVE WindowExact'
    OBVIOUS
  <2>1. CASE UNCHANGED vars
    BY <2>1 DEF vars, WindowExact, TypeOK, RecentMarked, NoRecentReplay, Diff
  <2> QED
    BY <2>1, ExactNew, ExactOld DEF Next
<1> QED
  BY <1>1, ExactInit, PTL DEF Spec
=============================================================================
