----------------------------- MODULE JoinVerify -----------------------------
(***************************************************************************)
(* Join verification (group_registrar/join.c) driven by the attestation    *)
(* protocol of the client (yumi_client.c, section 8): the joiner sends its *)
(* nonce to every member it connects to, each answers with a signed header *)
(* and the receive thread of that connection submits and evaluates it.     *)
(*                                                                         *)
(* submit and evaluate take no lock, so the receive threads interleave     *)
(* between any two accesses to join_state; an increment is a read and a    *)
(* write.  A member attests its own view of the owner ("same" as the       *)
(* fetched registrar or "other"), or signs with a key that is not the      *)
(* registered one ("badkey").                                              *)
(***************************************************************************)
EXTENDS Integers, FiniteSets

CONSTANTS
    Attesters,      \* the members of the fetched registrar, the inviter among them
    Inviter,
    MIN_QUORUM, MAX_QUORUM, SMALL_GROUP, MAX_TRACKED,   \* GR_JOIN_*
    MaxFaults       \* bound: refused sends, lost connections and departures

\* 3, 10 and 64 in group_registrar.h: a full list of votes holds a quorum
ASSUME JoinAssumption ==
    /\ Inviter \in Attesters /\ IsFiniteSet(Attesters)
    /\ MaxFaults \in Nat /\ SMALL_GROUP \in Nat
    /\ {MIN_QUORUM, MAX_QUORUM, MAX_TRACKED} \subseteq Nat
    /\ 1 <= MIN_QUORUM /\ MIN_QUORUM <= MAX_QUORUM /\ MAX_QUORUM <= MAX_TRACKED

VARIABLES
    js,         \* reg->join_state: state, votes, vote_count, counters, flags
    view,       \* member -> what it attests
    active,     \* the members that are GR_PEER_ACTIVE in the joiner's registrar
    asker,      \* is a dissent callback set
    joining,    \* c->joining
    link,       \* member -> [up, nonce_sent, msg]: its connection to the joiner
    rcv,        \* member -> [pc, tmp]: the receive thread of that connection
    fired,      \* history: the VERIFIED and FAILED events, as a count of each
    overlap,    \* history: were two receive threads in attest_process at once
    faults

joinVars == <<js, view, active, asker, joining, link, rcv, fired, overlap, faults>>

NoVote == "none"
NoJoin == [state |-> "NONE", votes |-> [i \in 1 .. MAX_TRACKED |-> NoVote], count |-> 0,
           agree |-> 0, disagree |-> 0, asked |-> FALSE, override |-> FALSE,
           bypass |-> FALSE, required |-> 0]
LinkDown == [up |-> FALSE, nonce_sent |-> FALSE, msg |-> "none"]
Waiting == [pc |-> "idle", tmp |-> 0]

JoinInit ==
    /\ js = NoJoin
    /\ view \in [Attesters -> {"same", "other", "badkey"}]
    /\ view[Inviter] = "same"      \* its vote is refused whatever it says
    /\ active = Attesters
    /\ asker \in BOOLEAN
    /\ joining = TRUE
    /\ link = [m \in Attesters |-> LinkDown]
    /\ rcv = [m \in Attesters |-> Waiting]
    /\ fired = [verified |-> 0, failed |-> 0]
    /\ overlap = FALSE /\ faults = 0

CeilSqrt(n) == CHOOSE q \in 0 .. n : q * q >= n /\ \A p \in 0 .. (q - 1) : p * p < n

\* compute_quorum: ceil(sqrt(active - 2)) between the floor and the cap.
compute_quorum(n) ==
    LET q == IF n <= 2 THEN MIN_QUORUM ELSE CeilSqrt(n - 2)
    IN  IF q < MIN_QUORUM THEN MIN_QUORUM ELSE IF q > MAX_QUORUM THEN MAX_QUORUM ELSE q

has_voted(m) == \E i \in 1 .. js.count : js.votes[i] = m

\* gr_join_begin: the ticket must name this group and its owner, the inviter
\* must be an active member that may invite; a small group is not verified.
JoinBegin(ticketMatches, mayInvite) ==
    /\ js.state = "NONE"
    /\ js' = IF ~ticketMatches \/ Inviter \notin active \/ ~mayInvite
             THEN [NoJoin EXCEPT !.state = "FAILED"]
             ELSE IF Cardinality(active) < SMALL_GROUP
             THEN [NoJoin EXCEPT !.state = "VERIFIED", !.bypass = TRUE]
             ELSE [NoJoin EXCEPT !.state = "PROVISIONAL",
                                 !.required = compute_quorum(Cardinality(active))]
    /\ UNCHANGED <<view, active, asker, joining, link, rcv, fired, overlap, faults>>

----------------------------------------------------------------------------
(* The connections and the nonce.                                          *)

\* attest_send_nonce marks the nonce as sent whether or not the send is
\* accepted.
NonceSent(m, accepted) ==
    [up |-> TRUE, nonce_sent |-> TRUE, msg |-> IF accepted THEN "nonce" ELSE "none"]

attest_send_nonce(m, accepted) ==
    /\ link' = [link EXCEPT ![m] = NonceSent(m, accepted)]
    /\ faults' = IF accepted THEN faults ELSE faults + 1
    /\ faults' <= MaxFaults

\* sudp_state_cb on ESTABLISHED.
ConnectMember(m) ==
    /\ js.state # "NONE" /\ ~link[m].up
    /\ IF joining /\ js.state = "PROVISIONAL"
       THEN \E accepted \in BOOLEAN : attest_send_nonce(m, accepted)
       ELSE link' = [link EXCEPT ![m].up = TRUE] /\ UNCHANGED faults
    /\ UNCHANGED <<js, view, active, asker, joining, rcv, fired, overlap>>

\* Step 4 of sync_worker: stop joining once it is decided, else send the
\* nonce where it has not been sent.
SyncNonces ==
    /\ joining /\ js.state # "NONE"
    /\ \/ /\ js.state \in {"VERIFIED", "FAILED"}
          /\ joining' = FALSE /\ UNCHANGED <<link, faults>>
       \/ /\ js.state = "PROVISIONAL"
          /\ \E m \in Attesters : link[m].up /\ ~link[m].nonce_sent
                /\ \E accepted \in BOOLEAN : attest_send_nonce(m, accepted)
          /\ UNCHANGED joining
    /\ UNCHANGED <<js, view, active, asker, rcv, fired, overlap>>

\* A connection fails; its slot is freed and a later one starts afresh.
LoseMember(m) ==
    /\ link[m].up /\ rcv[m].pc = "idle" /\ faults < MaxFaults
    /\ link' = [link EXCEPT ![m] = LinkDown]
    /\ faults' = faults + 1
    /\ UNCHANGED <<js, view, active, asker, joining, rcv, fired, overlap>>

\* A delta merged during the verification removes a member.
MemberLeaves(m) ==
    /\ m \in active /\ faults < MaxFaults
    /\ active' = active \ {m}
    /\ faults' = faults + 1
    /\ UNCHANGED <<js, view, asker, joining, link, rcv, fired, overlap>>

\* attest_respond on the member's side: its header, signed with the nonce.
attest_respond(m) ==
    /\ link[m].msg = "nonce"
    /\ link' = [link EXCEPT ![m].msg = "header"]
    /\ UNCHANGED <<js, view, active, asker, joining, rcv, fired, overlap, faults>>

----------------------------------------------------------------------------
(* attest_process on the receive thread of m, one access to join_state at  *)
(* a time.                                                                 *)

Step(m, from) == rcv[m].pc = from
Move(m, to) == rcv' = [rcv EXCEPT ![m].pc = to]
Done(m) == rcv' = [rcv EXCEPT ![m] = Waiting]
JoinRest == <<view, active, asker, joining, link, fired, overlap, faults>>

attest_handle(m) ==
    /\ link[m].msg = "header" /\ Step(m, "idle")
    /\ link' = [link EXCEPT ![m].msg = "none"]
    /\ Move(m, "check")
    /\ overlap' = (overlap \/ \E o \in Attesters \ {m} : rcv[o].pc # "idle")
    /\ UNCHANGED <<js, view, active, asker, joining, fired, faults>>

\* A mutant: the inviter's vote counts too.
AdmissibleInviter(m) ==
    /\ js.state = "PROVISIONAL" /\ ~has_voted(m) /\ m \in active
    /\ view[m] # "badkey" /\ js.count < MAX_TRACKED

Admissible(m) ==
    /\ js.state = "PROVISIONAL"
    /\ m # Inviter
    /\ ~has_voted(m)
    /\ m \in active
    /\ view[m] # "badkey"
    /\ js.count < MAX_TRACKED

\* gr_join_submit_peer_header up to the slot of the vote.
SubmitCheck(m) ==
    /\ Step(m, "check")
    /\ IF Admissible(m)
       THEN Move(m, "record")
       ELSE Done(m)
    /\ UNCHANGED <<js, JoinRest>>

SubmitRecord(m) ==
    /\ Step(m, "record")
    /\ js' = IF js.count < MAX_TRACKED THEN [js EXCEPT !.votes[js.count + 1] = m] ELSE js
    /\ Move(m, "bump")
    /\ UNCHANGED JoinRest

\* js->vote_count++, then js->agree_count++ or js->disagree_count++.
SubmitRead(m) ==
    \/ /\ Step(m, "bump")
       /\ rcv' = [rcv EXCEPT ![m] = [pc |-> "bumped", tmp |-> js.count]]
       /\ UNCHANGED <<js, JoinRest>>
    \/ /\ Step(m, "tally")
       /\ rcv' = [rcv EXCEPT ![m] = [pc |-> "tallied",
              tmp |-> IF view[m] = "same" THEN js.agree ELSE js.disagree]]
       /\ UNCHANGED <<js, JoinRest>>

SubmitWrite(m) ==
    \/ /\ Step(m, "bumped")
       /\ js' = [js EXCEPT !.count = rcv[m].tmp + 1]
       /\ Move(m, "tally")
       /\ UNCHANGED JoinRest
    \/ /\ Step(m, "tallied")
       /\ js' = IF view[m] = "same" THEN [js EXCEPT !.agree = rcv[m].tmp + 1]
                ELSE [js EXCEPT !.disagree = rcv[m].tmp + 1]
       /\ Move(m, "eval")
       /\ UNCHANGED JoinRest

\* gr_join_evaluate up to the assignment of the state.
Evaluate(m) ==
    /\ Step(m, "eval")
    /\ IF js.state # "PROVISIONAL" THEN Move(m, "report") /\ UNCHANGED js
       ELSE IF js.disagree > 0 /\ ~js.asked
       THEN js' = [js EXCEPT !.asked = TRUE] /\ Move(m, IF asker THEN "ask" ELSE "fail")
       ELSE /\ UNCHANGED js
            /\ Move(m, IF js.agree >= js.required /\ js.disagree = 0 THEN "pass" ELSE "report")
    /\ UNCHANGED JoinRest

\* The assignment, after the dissent callback has answered where one is set.
Decide(m) ==
    /\ \/ Step(m, "pass") /\ js' = [js EXCEPT !.state = "VERIFIED"]
       \/ Step(m, "fail") /\ js' = [js EXCEPT !.state = "FAILED"]
       \/ /\ Step(m, "ask")
          /\ \/ js' = [js EXCEPT !.state = "VERIFIED", !.override = TRUE]
             \/ js' = [js EXCEPT !.state = "FAILED"]
    /\ Move(m, "report")
    /\ UNCHANGED JoinRest

\* The event for the state found at the end.
Report(m) ==
    /\ Step(m, "report")
    /\ fired' = CASE js.state = "VERIFIED" -> [fired EXCEPT !.verified = @ + 1]
                  [] js.state = "FAILED" -> [fired EXCEPT !.failed = @ + 1]
                  [] OTHER -> fired
    /\ Done(m)
    /\ UNCHANGED <<js, view, active, asker, joining, link, overlap, faults>>

attest_process(m) ==
    \/ SubmitCheck(m) \/ SubmitRecord(m) \/ SubmitRead(m) \/ SubmitWrite(m)
    \/ Evaluate(m) \/ Decide(m) \/ Report(m)

JoinNext ==
    \/ \E t, p \in BOOLEAN : JoinBegin(t, p)
    \/ SyncNonces
    \/ \E m \in Attesters : ConnectMember(m) \/ attest_respond(m) \/ attest_handle(m)
                            \/ attest_process(m) \/ LoseMember(m) \/ MemberLeaves(m)

JoinSpec == JoinInit /\ [][JoinNext]_joinVars

----------------------------------------------------------------------------
(* Properties.                                                             *)

JoinStates == {"NONE", "PROVISIONAL", "VERIFIED", "FAILED"}

\* Types; without overlapping threads no more is tallied than votes counted.
JoinTypeOK ==
    /\ js.state \in JoinStates
    /\ js.votes \in [1 .. MAX_TRACKED -> Attesters \cup {NoVote}]
    /\ js.count \in Nat /\ js.agree \in Nat /\ js.disagree \in Nat
    /\ ~overlap => js.agree + js.disagree <= js.count /\ js.count <= MAX_TRACKED
    /\ js.asked \in BOOLEAN /\ js.override \in BOOLEAN /\ js.bypass \in BOOLEAN
    /\ active \subseteq Attesters /\ joining \in BOOLEAN /\ overlap \in BOOLEAN
    /\ \A m \in Attesters : link[m].msg \in {"none", "nonce", "header"}

\* A join is verified by a quorum of distinct members, none of them the
\* inviter and all of the joiner's view, with nobody dissenting, unless the
\* group is small or the user overrode a dissent.  It holds as long as no two
\* receive threads are in attest_process at once (join.c:180 takes no lock).
QuorumIsReal ==
    js.state = "VERIFIED" /\ ~js.bypass /\ ~js.override /\ ~overlap =>
        LET voters == {js.votes[i] : i \in 1 .. js.count}
        IN  /\ Cardinality(voters) >= js.required /\ js.required >= MIN_QUORUM
            /\ Inviter \notin voters
            /\ \A m \in voters : view[m] = "same"

\* A verdict is final: VERIFIED and FAILED are never left, unless receive
\* threads overlapped (evaluate tests and stores the state without a lock).
VerdictIsFinal ==
    [][js.state \in {"VERIFIED", "FAILED"} /\ ~overlap' => js'.state = js.state]_joinVars

\* Without overlap the application is told the verdict at most once, and what
\* it is told is the verdict.
ToldOnce ==
    ~overlap => /\ fired.verified + fired.failed <= 1
                /\ fired.verified = 1 => js.state = "VERIFIED"
                /\ fired.failed = 1 => js.state = "FAILED"

\* When every member has been asked and every answer processed, enough of
\* them agreed and none dissented, the join is verified, unless a send was
\* refused, a connection or a member was lost, or two receive threads
\* overlapped (an increment is lost and has_voted refuses a second attempt).
JoinIsDecided ==
    LET quiet == \A m \in Attesters : link[m].nonce_sent /\ link[m].msg = "none"
                                       /\ rcv[m].pc = "idle"
        agree == {m \in Attesters \ {Inviter} : view[m] = "same"}
        dissent == {m \in Attesters \ {Inviter} : view[m] = "other"}
    IN  quiet /\ faults = 0 /\ ~overlap /\ js.state = "PROVISIONAL"
            => dissent = {} /\ Cardinality(agree) < js.required

\* A join's verdict rests on a real quorum, is reached when it can be, is told once and is
\* final, as long as no two receive threads attest at once.
VerdictSound ==
    /\ [](JoinTypeOK /\ QuorumIsReal /\ ToldOnce /\ JoinIsDecided) /\ VerdictIsFinal
=============================================================================
