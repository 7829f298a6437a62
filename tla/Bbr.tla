-------------------------------- MODULE Bbr --------------------------------
(***************************************************************************)
(* The congestion control (network/bbr.c) as the UDP client uses it: PROBE *)
(* measures the path the way BBR does, TDS then sends at the rate found,   *)
(* and a timer goes back to PROBE.                                         *)
(*                                                                         *)
(* Bytes are counted in packets, all of one size, and time in ticks; a     *)
(* rate is packets times RateUnit per tick.  Gains are percentages.        *)
(***************************************************************************)
EXTENDS Integers, Sequences, FiniteSets

CONSTANTS
    RateUnit,        \* the 1e6 of the rates
    InitialCwnd,     \* 10 * mss
    MinCwnd,         \* BBR_MIN_CWND_PACKETS * mss
    FilterLen,       \* BBR_FILTER_LEN
    FilterRounds,    \* BBR_BTLBW_FILTER_ROUNDS
    FullBwCount,     \* BBR_FULL_BW_COUNT
    RtpropFilter,    \* BBR_RTPROP_FILTER_US
    RttDuration,     \* BBR_PROBE_RTT_DURATION_US
    Settle,          \* PROBE_BW_SETTLE_CYCLES
    LossWindow,      \* TDS_LOSS_WINDOW_US
    LossPercent,     \* TDS_DEFAULT_LOSS_THRESH
    Reprobe,         \* TDS_DEFAULT_REPROBE_US
    Timeout,         \* the client sends a packet again after this (200 ms)
    Lifetime,        \* and gives it up after this: 200 ms * (5 + 1)
    Flying,          \* bound: packets under way at once
    MaxTime          \* bound: the last tick

\* With the client's defaults a packet lives 1.2 s and TDS lasts 30 s.
ASSUME CcAssumption == Lifetime < Reprobe
ASSUME CcNumbers ==
    /\ {FilterLen, RateUnit, Timeout} \subseteq Nat \ {0}
    /\ {FilterRounds, LossWindow, Lifetime, Reprobe, MaxTime} \subseteq Nat

NoRtt == MaxTime + 1     \* UINT64_MAX: no round trip measured yet

VARIABLES
    mode, probe, tds,    \* yumi_cc_t
    lastProbe,           \* last_probe_time
    flight,              \* the packets in the client's table, with their cc_pkt
    now,
    \* history
    samples              \* the rates measured in the last rounds of this probe

ccVars == <<mode, probe, tds, lastProbe, flight, now, samples>>

----------------------------------------------------------------------------
(* The windowed maximum.                                                   *)

\* samples that are too old go, then those at the end that are no larger; the
\* values fall and the stamps rise, so what stays is a part without gaps
Staying(f, val, round) == {i \in DOMAIN f : round - f[i].stamp < FilterRounds /\ f[i].val > val}
Part(f, S) ==
    IF S = {} THEN <<>>
    ELSE SubSeq(f, CHOOSE i \in S : \A j \in S : i <= j, CHOOSE i \in S : \A j \in S : i >= j)
max_filter_update(f, val, round) ==
    LET new == [val |-> val, stamp |-> round]
        larger == Part(f, Staying(f, val, round))
    IN  IF f = <<>> \/ val >= f[1].val THEN <<new>>
        ELSE IF Len(larger) < FilterLen THEN Append(larger, new) ELSE larger

max_filter_get(f) == IF f = <<>> THEN 0 ELSE f[1].val

----------------------------------------------------------------------------
(* PROBE.                                                                  *)

StartupGain == 289
DrainGain == 35
GainCycle == <<125, 75, 100, 100, 100, 100, 100, 100>>

probe_init ==
    [state |-> "STARTUP", filter |-> <<>>, btl_bw |-> 0, rtprop |-> NoRtt, rtStamp |-> 0,
     nextRound |-> 0, rounds |-> 0, roundStart |-> FALSE, delivered |-> 0, deliveredTime |-> 0,
     gain |-> StartupGain, rate |-> InitialCwnd * RateUnit, cwndGain |-> StartupGain,
     cwnd |-> InitialCwnd, inflight |-> 0, fullBw |-> 0, fullCount |-> 0, cycle |-> 0, cycleStamp |-> 0,
     rttDone |-> FALSE, rttStamp |-> 0, expired |-> FALSE, firstSent |-> 0]

probe_bdp(p) == IF p.rtprop = NoRtt \/ p.btl_bw = 0 THEN InitialCwnd
                ELSE (p.btl_bw * p.rtprop) \div RateUnit

\* the longer of the intervals in which the packets were sent and acknowledged
probe_delivery_rate(p, pkt) ==
    LET acks == p.deliveredTime - pkt.deliveredTime
        sends == IF pkt.sent > pkt.firstSent THEN pkt.sent - pkt.firstSent ELSE 0
        interval == IF acks > sends THEN acks ELSE sends
    IN  IF interval = 0 THEN 0 ELSE ((p.delivered - pkt.delivered) * RateUnit) \div interval

probe_update_round(p, pkt) ==
    IF pkt.delivered >= p.nextRound
    THEN [p EXCEPT !.nextRound = p.delivered, !.rounds = @ + 1, !.roundStart = TRUE]
    ELSE [p EXCEPT !.roundStart = FALSE]

\* is_app_limited is never set
probe_update_btl_bw(p, rate) ==
    IF rate = 0 THEN p
    ELSE LET f == max_filter_update(p.filter, rate, p.rounds)
         IN  [p EXCEPT !.filter = f, !.btl_bw = max_filter_get(f)]

probe_update_rtprop(p, rtt) ==
    LET expired == now - p.rtStamp > RtpropFilter
    IN  IF rtt <= p.rtprop \/ expired
        THEN [p EXCEPT !.expired = expired, !.rtprop = rtt, !.rtStamp = now]
        ELSE [p EXCEPT !.expired = expired]

probe_filled_pipe(p) == p.fullCount >= FullBwCount

probe_check_full_bw(p) ==
    IF ~p.roundStart THEN p
    ELSE IF p.btl_bw >= (p.fullBw * 125) \div 100 THEN [p EXCEPT !.fullBw = p.btl_bw, !.fullCount = 0]
    ELSE [p EXCEPT !.fullCount = @ + 1]

probe_set_pacing_rate(p) ==
    LET rate == (p.gain * p.btl_bw) \div 100
    IN  IF probe_filled_pipe(p) \/ rate > p.rate THEN [p EXCEPT !.rate = rate] ELSE p

probe_set_cwnd(p) ==
    LET target == (p.cwndGain * probe_bdp(p)) \div 100
        cwnd == IF p.state = "STARTUP" /\ target <= p.cwnd THEN p.cwnd ELSE target
    IN  [p EXCEPT !.cwnd = IF p.state = "PROBE_RTT" \/ cwnd < MinCwnd THEN MinCwnd ELSE cwnd]

probe_enter_drain(p) == [p EXCEPT !.state = "DRAIN", !.gain = DrainGain, !.cwndGain = StartupGain]
probe_enter_probe_bw(p) ==
    LET i == 1 + (now % 7)
    IN  [p EXCEPT !.state = "PROBE_BW", !.cwndGain = 200, !.cycle = i, !.gain = GainCycle[i + 1],
                  !.cycleStamp = now]
probe_enter_probe_rtt(p) ==
    [p EXCEPT !.state = "PROBE_RTT", !.gain = 100, !.cwndGain = 100, !.rttDone = FALSE]
probe_enter_startup(p) ==
    [p EXCEPT !.state = "STARTUP", !.gain = StartupGain, !.cwndGain = StartupGain]

\* the next of the eight gains after a round trip
Cycled(p) ==
    IF now - p.cycleStamp > p.rtprop
    THEN LET i == (p.cycle + 1) % 8
         IN  [p EXCEPT !.cycle = i, !.gain = GainCycle[i + 1], !.cycleStamp = now]
    ELSE p

probe_update_state(p) ==
    CASE p.state = "STARTUP" ->
           LET q == probe_check_full_bw(p) IN IF probe_filled_pipe(q) THEN probe_enter_drain(q) ELSE q
      [] p.state = "DRAIN" -> IF p.inflight <= probe_bdp(p) THEN probe_enter_probe_bw(p) ELSE p
      [] p.state = "PROBE_BW" -> IF p.expired THEN probe_enter_probe_rtt(Cycled(p)) ELSE Cycled(p)
      [] p.state = "PROBE_RTT" ->
           LET q == IF ~p.rttDone /\ p.inflight <= MinCwnd
                    THEN [p EXCEPT !.rttDone = TRUE, !.rttStamp = now] ELSE p
           IN  IF ~(q.rttDone /\ now - q.rttStamp > RttDuration) THEN q
               ELSE LET r == [q EXCEPT !.rtStamp = now]
                    IN  IF probe_filled_pipe(r) THEN probe_enter_probe_bw(r) ELSE probe_enter_startup(r)

----------------------------------------------------------------------------
(* TDS and the change of modes.                                            *)

NoTds == [sendRate |-> 0, rtprop |-> 0, windowSent |-> 0, windowLost |-> 0, windowStart |-> 0]

\* nine tenths of the bandwidth
tds_init_from_probe(p) ==
    [NoTds EXCEPT !.sendRate = (p.btl_bw * 9) \div 10, !.rtprop = p.rtprop, !.windowStart = now]

tds_loss_exceeded(t) ==
    /\ now - t.windowStart >= LossWindow
    /\ t.windowSent > 0
    /\ t.windowLost * 100 > LossPercent * t.windowSent

tds_rotate_window(t) ==
    IF now - t.windowStart >= LossWindow
    THEN [t EXCEPT !.windowSent = 0, !.windowLost = 0, !.windowStart = now] ELSE t

should_graduate_to_tds(p) ==
    p.state = "PROBE_BW" /\ p.btl_bw # 0 /\ p.rtprop # NoRtt /\ p.rounds >= Settle

\* A mutant: TDS may end at once
ReprobeDueAtOnce == TRUE
ReprobeDue == now - lastProbe > Reprobe

enter_tds(p) ==
    /\ mode' = "TDS" /\ probe' = p /\ tds' = tds_init_from_probe(p) /\ lastProbe' = now

\* the round trip of the last probe is a first guess
enter_probe(t) ==
    /\ mode' = "PROBE" /\ tds' = t /\ samples' = {}
    /\ probe' = IF t.rtprop \notin {0, NoRtt}
                THEN [probe_init EXCEPT !.rtprop = t.rtprop, !.rtStamp = now] ELSE probe_init
    /\ UNCHANGED lastProbe

----------------------------------------------------------------------------
(* The calls of the client.                                                *)

Less(n) == IF n >= 1 THEN n - 1 ELSE 0

\* yumi_cc_on_send: a packet sent in TDS carries no measurements; one packet a
\* tick, and an answer takes a tick
OnSend ==
    /\ \A f \in flight : f.sent < now
    /\ \E seq \in 1 .. Flying :
         /\ \A f \in flight : f.seq # seq
         /\ \A s \in 1 .. seq - 1 : \E f \in flight : f.seq = s
         /\ IF mode = "PROBE"
            THEN /\ flight' = flight \cup
                      {[seq |-> seq, sent |-> now, delivered |-> probe.delivered,
                        deliveredTime |-> probe.deliveredTime, firstSent |-> probe.firstSent,
                        probe |-> TRUE]}
                 /\ probe' = [probe EXCEPT !.inflight = @ + 1]
                 /\ UNCHANGED tds
            ELSE /\ flight' = flight \cup
                      {[seq |-> seq, sent |-> now, delivered |-> 0, deliveredTime |-> 0, firstSent |-> 0,
                        probe |-> FALSE]}
                 /\ tds' = [tds EXCEPT !.windowSent = @ + 1]
                 /\ UNCHANGED probe
    /\ UNCHANGED <<mode, lastProbe, now, samples>>

Acked(p, pkt) ==
    [p EXCEPT !.delivered = @ + 1, !.deliveredTime = now, !.firstSent = pkt.sent, !.inflight = Less(@)]

\* the round trip is taken from the last time the packet was sent, which the
\* timer may do late
RoundTrips(pkt) == {now - pkt.sent - k * Timeout : k \in 0 .. (now - pkt.sent) \div Timeout}

\* the order of yumi_cc_on_ack
Measured(pkt, rtt) ==
    LET a == probe_update_round(Acked(probe, pkt), pkt)
        b == probe_update_btl_bw(a, probe_delivery_rate(a, pkt))
        c == probe_update_state(probe_update_rtprop(b, rtt))
    IN  probe_set_cwnd(probe_set_pacing_rate(c))

\* worker_reliable_ack
OnAckProbe(pkt, rtt) ==
    /\ mode = "PROBE"
    /\ LET p == Measured(pkt, rtt)
           a == probe_update_round(Acked(probe, pkt), pkt)
           rate == probe_delivery_rate(a, pkt)
       IN  /\ samples' = IF rate = 0 THEN samples
                         ELSE {s \in samples : a.rounds - s.stamp < FilterRounds}
                                \cup {[val |-> rate, stamp |-> a.rounds]}
           /\ IF should_graduate_to_tds(p) THEN enter_tds(p)
              ELSE probe' = p /\ UNCHANGED <<mode, tds, lastProbe>>
    /\ flight' = flight \ {pkt} /\ UNCHANGED now

\* the window is turned before it is judged
OnAckTds(pkt) ==
    /\ mode = "TDS"
    /\ LET t == tds_rotate_window(tds)
       IN  IF ReprobeDue \/ tds_loss_exceeded(t)
           THEN enter_probe(t)
           ELSE /\ tds' = t /\ UNCHANGED <<mode, probe, lastProbe, samples>>
    /\ flight' = flight \ {pkt} /\ UNCHANGED now

\* worker_reliable_retransmit gives up
OnLoss(pkt) ==
    /\ now - pkt.sent >= Lifetime
    /\ IF mode = "PROBE" THEN probe' = [probe EXCEPT !.inflight = Less(@)] /\ UNCHANGED tds
       ELSE tds' = [tds EXCEPT !.windowLost = @ + 1] /\ UNCHANGED probe
    /\ flight' = flight \ {pkt}
    /\ UNCHANGED <<mode, lastProbe, now, samples>>

\* time does not pass a packet that must be given up
Tick == /\ now < MaxTime
        /\ \A f \in flight : now - f.sent < Lifetime
        /\ now' = now + 1
        /\ UNCHANGED <<mode, probe, tds, lastProbe, flight, samples>>

CcInit ==
    /\ mode = "PROBE" /\ probe = probe_init /\ tds = NoTds /\ lastProbe = 0
    /\ flight = {} /\ now = 0 /\ samples = {}

CcNext == \/ OnSend \/ Tick
          \/ \E pkt \in {f \in flight : f.sent < now} :
               \/ \E rtt \in RoundTrips(pkt) : OnAckProbe(pkt, rtt)
               \/ OnAckTds(pkt) \/ OnLoss(pkt)

CcSpec == CcInit /\ [][CcNext]_ccVars

----------------------------------------------------------------------------
(* Properties.                                                             *)

\* Whatever was sent in this probe, in TDS or in an earlier probe and is still
\* under way, its snapshot is not ahead of the counters it will be compared
\* with: no difference in probe_delivery_rate goes below zero.
SnapshotsFit ==
    mode = "PROBE" =>
        \A f \in flight : f.delivered <= probe.delivered /\ f.deliveredTime <= probe.deliveredTime

\* What the probe believes to be under way is never more than what is: packets
\* of TDS that are acknowledged late can only make it less.
InflightIsReal ==
    mode = "PROBE" => probe.inflight <= Cardinality({f \in flight : f.probe})

\* The bandwidth estimate is a rate measured in one of the last FilterRounds
\* rounds, and no less than that of any sample taken after it.  (It need not be
\* the largest: a full filter drops the newest sample.)
BandwidthIsRecent ==
    mode = "PROBE" /\ samples # {} =>
        \E s \in samples : s.val = probe.btl_bw /\ \A r \in samples : r.stamp > s.stamp => r.val <= s.val

\* TDS is entered with a rate and a round trip that this probe has measured.
CruiseIsMeasured ==
    [][mode = "PROBE" /\ mode' = "TDS" =>
         /\ \E s \in samples' : tds'.sendRate = (s.val * 9) \div 10
         /\ tds'.rtprop <= MaxTime]_ccVars

\* Congestion control measures before it cruises, and packets that outlive the mode they were
\* sent in are never compared with counters behind their snapshot.
ProbeSound == [](SnapshotsFit /\ InflightIsReal /\ BandwidthIsRecent) /\ CruiseIsMeasured
=============================================================================
