----------------------------- MODULE HostProofs -----------------------------
(***************************************************************************)
(* The host runtime, for all values of the constants: first ProxySound of  *)
(* GrProxy, for every size of guest memory, width of a length and set of   *)
(* capacities and addresses, then GroupsSound of GroupHost, for every      *)
(* number of groups and clients. The third part is about the registrars    *)
(* that the host keeps in step with those of other members (GroupSync):    *)
(* what a merge may never lose, for any group. The fourth part is          *)
(* FriendsSound of Friends, for any people; the fifth PadsAreCounted of    *)
(* SdlBindings, for any devices and calls. The first proof rests on two    *)
(* things: the lengths the host functions check are the lengths the        *)
(* proxies touch, table by table, and a list call between its two locks    *)
(* keeps in mind what it checked and counted (BetweenHalves); the second   *)
(* rests on who points to which client (Pointed, Owned, Serving) and on    *)
(* which client may still be in a callback (Calling); the third on what a  *)
(* change or a merge keeps of a registrar (Kept); the fourth on the table  *)
(* having one row of a person, which is the one that memory has (OneRow,   *)
(* RowsFollow); the fifth on what a handle table gives and keeps           *)
(* (InsertIs, RemoveIs), which makes a handle more a name more of its      *)
(* object (NamesGrow).                                                     *)
(***************************************************************************)
EXTENDS Friends, GrProxy, GroupHost, GroupSync, SdlBindings,
        FiniteSetTheorems, SequenceTheorems, WellFoundedInduction, TLAPS

-----------------------------------------------------------------------------
(***************************************************************************)
(* The registrar calls of apps.                                            *)
(***************************************************************************)
ProxyTypes ==
    /\ ProxyTypeOK
    /\ req \in [call : Lists \cup {"none"}, out : Nat, cap : Nat, total : 0 .. MaxRows]
    /\ ret \in [call : DOMAIN Touched \cup {"none"}, value : {-1} \cup (0 .. MaxRows), out : Nat,
                cap : Nat, wrote : Nat, wrapped : BOOLEAN, seen : SUBSET (0 .. MaxRows),
                shrunk : BOOLEAN]
    /\ seen \subseteq 0 .. MaxRows /\ shrunk \in BOOLEAN

\* Between the two halves of a list call: its buffer was checked, nothing was answered yet,
\* the count is one of those seen, and it was undercut only by a merge that took a row away.
BetweenHalves ==
    ~Free =>
        /\ req.call \in Lists /\ req.out # 0 /\ ret = NoRet
        /\ MemCheck(req.out, Wrap(req.cap * Checked[req.call]))
        /\ req.total \in seen
        /\ shrunk \/ rows >= req.total

ProxyInv ==
    /\ ProxyTypes /\ BetweenHalves
    /\ StaysInMemory /\ TotalWasTrue /\ ShortOnlyIfShrunk

\* The table of what is checked is the table of what is touched.
LEMMA CheckedIsTouched == Checked = Touched
<1>1. PeerHost = PeerProxy /\ RoleHost = RoleProxy /\ WebappHost = WebappProxy
  BY DEF PeerHost, PeerProxy, RoleHost, RoleProxy, WebappHost, WebappProxy
<1>2. ServerHost = ServerProxy /\ PolicyHost = PolicyProxy /\ IconHost = IconProxy
  BY DEF ServerHost, ServerProxy, PolicyHost, PolicyProxy, IconHost, IconProxy
<1>3. InviteHost = InviteProxy /\ AuditHost = AuditProxy
  BY DEF InviteHost, InviteProxy, AuditHost, AuditProxy
<1>4. BehaviorHost = BehaviorProxy /\ BlocklistHost = BlocklistProxy
  BY DEF BehaviorHost, BehaviorProxy, BehaviorRecords, BlocklistHost, BlocklistProxy
<1> QED
  BY <1>1, <1>2, <1>3, <1>4 DEF Checked, Touched

\* A table of lengths.
Lengths(f) == \A c \in DOMAIN f : f[c] \in Nat

\* Union of tables of lengths is one.
LEMMA UnionOfLengths ==
    ASSUME NEW f, NEW g, Lengths(f), Lengths(g)
    PROVE  Lengths(Union(f, g)) /\ DOMAIN Union(f, g) = DOMAIN f \cup DOMAIN g
BY DEF Lengths, Union

\* Every call has a length, and the list calls are among the calls.
LEMMA TouchedLengths ==
    /\ \A c \in DOMAIN Touched : Touched[c] \in Nat
    /\ Lists \subseteq DOMAIN Touched
<1>1. /\ Lengths(PeerProxy) /\ Lengths(RoleProxy) /\ Lengths(WebappProxy) /\ Lengths(ServerProxy)
      /\ Lengths(PolicyProxy) /\ Lengths(IconProxy) /\ Lengths(InviteProxy)
      /\ Lengths(AuditProxy) /\ Lengths(BlocklistProxy)
  BY DEF Lengths, PeerProxy, RoleProxy, WebappProxy, ServerProxy, PolicyProxy, IconProxy,
         InviteProxy, AuditProxy, BlocklistProxy
<1>2. Lengths(BehaviorProxy) /\ "stale_peers" \in DOMAIN BehaviorProxy
  BY DEF Lengths, BehaviorProxy, BehaviorRecords
<1>3. /\ "peer_list" \in DOMAIN PeerProxy /\ "role_list" \in DOMAIN RoleProxy
      /\ "webapp_list" \in DOMAIN WebappProxy /\ "server_list" \in DOMAIN ServerProxy
      /\ "invite_list" \in DOMAIN InviteProxy
      /\ "audit_list" \in DOMAIN AuditProxy /\ "audit_list_forks" \in DOMAIN AuditProxy
  BY DEF PeerProxy, RoleProxy, WebappProxy, ServerProxy, InviteProxy, AuditProxy
<1> DEFINE J == Union(BehaviorProxy, BlocklistProxy)
           I == Union(AuditProxy, J)
           H == Union(InviteProxy, I)
           G == Union(IconProxy, H)
           F == Union(PolicyProxy, G)
           E == Union(ServerProxy, F)
           D == Union(WebappProxy, E)
           C == Union(RoleProxy, D)
           B == Union(PeerProxy, C)
<1>4. Touched = B
  BY DEF Touched, All
<1>5. Lengths(J) /\ DOMAIN J = DOMAIN BehaviorProxy \cup DOMAIN BlocklistProxy
  BY <1>1, <1>2, UnionOfLengths
<1> HIDE DEF J
<1>6. Lengths(I) /\ DOMAIN I = DOMAIN AuditProxy \cup DOMAIN J
  BY <1>1, <1>5, UnionOfLengths
<1> HIDE DEF I
<1>7. Lengths(H) /\ DOMAIN H = DOMAIN InviteProxy \cup DOMAIN I
  BY <1>1, <1>6, UnionOfLengths
<1> HIDE DEF H
<1>8. Lengths(G) /\ DOMAIN G = DOMAIN IconProxy \cup DOMAIN H
  BY <1>1, <1>7, UnionOfLengths
<1> HIDE DEF G
<1>9. Lengths(F) /\ DOMAIN F = DOMAIN PolicyProxy \cup DOMAIN G
  BY <1>1, <1>8, UnionOfLengths
<1> HIDE DEF F
<1>10. Lengths(E) /\ DOMAIN E = DOMAIN ServerProxy \cup DOMAIN F
  BY <1>1, <1>9, UnionOfLengths
<1> HIDE DEF E
<1>11. Lengths(D) /\ DOMAIN D = DOMAIN WebappProxy \cup DOMAIN E
  BY <1>1, <1>10, UnionOfLengths
<1> HIDE DEF D
<1>12. Lengths(C) /\ DOMAIN C = DOMAIN RoleProxy \cup DOMAIN D
  BY <1>1, <1>11, UnionOfLengths
<1> HIDE DEF C
<1>13. Lengths(B) /\ DOMAIN B = DOMAIN PeerProxy \cup DOMAIN C
  BY <1>1, <1>12, UnionOfLengths
<1> HIDE DEF B
<1>14. \A c \in DOMAIN Touched : Touched[c] \in Nat
  BY <1>4, <1>13 DEF Lengths
<1>15. Lists \subseteq DOMAIN B
  BY <1>2, <1>3, <1>5, <1>6, <1>7, <1>8, <1>9, <1>10, <1>11, <1>12, <1>13
     DEF Lists, CountedLists, DirectLists
<1> QED
  BY <1>4, <1>14, <1>15

\* The calls do not include "none", and lists and single calls are apart.
LEMMA ListNames ==
    /\ "none" \notin Lists /\ CountedLists \subseteq Lists /\ DirectLists \subseteq Lists
    /\ CountedLists \cap DirectLists = {} /\ "audit_list" \in CountedLists
BY DEF Lists, CountedLists, DirectLists

\* Fewer records take fewer bytes.
LEMMA FewerBytes ==
    ASSUME NEW m \in Nat, NEW n \in Nat, m <= n, NEW len \in Nat
    PROVE  m * len <= n * len /\ m * len \in Nat
OBVIOUS

\* At the start.
LEMMA ProxyStarts == ProxyInit => ProxyInv
<1> SUFFICES ASSUME ProxyInit PROVE ProxyInv
  OBVIOUS
<1>0. MaxRows \in Nat /\ MaxMerges \in Nat
  BY ProxyAssumption
<1>1. ProxyTypes
  <2>1. ProxyTypeOK
    BY <1>0 DEF ProxyInit, ProxyTypeOK, NoReq, NoRet
  <2>2. req \in [call : Lists \cup {"none"}, out : Nat, cap : Nat, total : 0 .. MaxRows]
    BY <1>0 DEF ProxyInit, NoReq
  <2>3. ret \in [call : DOMAIN Touched \cup {"none"}, value : {-1} \cup (0 .. MaxRows), out : Nat,
                 cap : Nat, wrote : Nat, wrapped : BOOLEAN, seen : SUBSET (0 .. MaxRows),
                 shrunk : BOOLEAN]
    BY <1>0 DEF ProxyInit, NoRet
  <2> QED
    BY <2>1, <2>2, <2>3 DEF ProxyInit, ProxyTypes
<1>2. BetweenHalves
  BY DEF ProxyInit, BetweenHalves, Free
<1>3. StaysInMemory /\ TotalWasTrue /\ ShortOnlyIfShrunk
  BY ListNames DEF ProxyInit, NoRet, StaysInMemory, TotalWasTrue, ShortOnlyIfShrunk
<1> QED
  BY <1>1, <1>2, <1>3 DEF ProxyInv

\* What an answer says of a call.
LEMMA AnswerIs ==
    ASSUME NEW c \in DOMAIN Touched, NEW v \in {-1} \cup (0 .. MaxRows), NEW out \in Nat,
           NEW cap \in Nat, NEW wrote \in Nat, Answer1(c, v, out, cap, wrote),
           seen' \subseteq 0 .. MaxRows, shrunk' \in BOOLEAN
    PROVE  /\ ret' \in [call : DOMAIN Touched \cup {"none"}, value : {-1} \cup (0 .. MaxRows),
                        out : Nat, cap : Nat, wrote : Nat, wrapped : BOOLEAN,
                        seen : SUBSET (0 .. MaxRows), shrunk : BOOLEAN]
           /\ ret'.call = c /\ ret'.value = v /\ ret'.out = out /\ ret'.cap = cap
           /\ ret'.wrote = wrote /\ ret'.seen = seen' /\ ret'.shrunk = shrunk'
           /\ ~ret'.wrapped => Wrap(cap * Touched[c]) = cap * Touched[c]
BY DEF Answer1

\* The registrar calls on one record.
LEMMA SingleKeeps ==
    ASSUME ProxyInv, NEW c \in Singles, NEW out \in Outs, Single(c, out)
    PROVE  ProxyInv'
<1>1. c \in DOMAIN Touched /\ c \notin Lists /\ out \in Nat /\ 1 \in Nat /\ 0 \in Nat
  BY CheckedIsTouched, ProxyAssumption DEF Singles
<1>2. Touched[c] \in Nat
  BY <1>1, TouchedLengths
<1>3. PICK v \in {-1, 0}, wrote \in {0, 1} :
        /\ Answer1(c, v, out, 1, wrote)
        /\ wrote = 1 => MemCheck(out, Checked[c])
  BY DEF Single
<1>4. v \in {-1} \cup (0 .. MaxRows) /\ wrote \in Nat
  BY ProxyAssumption
<1>5. seen' = {} /\ shrunk' = FALSE /\ req' = req /\ merges' = merges /\ watched' = watched
      /\ Free /\ rows' \in 0 .. MaxRows
  BY DEF Single, Ready, ProxyInv, ProxyTypes, ProxyTypeOK
<1>6. seen' \subseteq 0 .. MaxRows /\ shrunk' \in BOOLEAN
  BY <1>5
<1>7. /\ ret' \in [call : DOMAIN Touched \cup {"none"}, value : {-1} \cup (0 .. MaxRows),
                   out : Nat, cap : Nat, wrote : Nat, wrapped : BOOLEAN,
                   seen : SUBSET (0 .. MaxRows), shrunk : BOOLEAN]
      /\ ret'.call = c /\ ret'.out = out /\ ret'.wrote = wrote
  BY <1>1, <1>3, <1>4, <1>6, AnswerIs
<1>8. ProxyTypes'
  BY <1>5, <1>6, <1>7 DEF ProxyInv, ProxyTypes, ProxyTypeOK
<1>9. BetweenHalves'
  BY <1>5 DEF BetweenHalves, Free
<1>10. StaysInMemory'
  BY <1>1, <1>2, <1>3, <1>7, CheckedIsTouched DEF StaysInMemory, MemCheck
<1>11. TotalWasTrue' /\ ShortOnlyIfShrunk'
  BY <1>1, <1>7, ListNames DEF TotalWasTrue, ShortOnlyIfShrunk
<1> QED
  BY <1>8, <1>9, <1>10, <1>11 DEF ProxyInv

\* The first half of a list call, which may also be all of it.
LEMMA ListBeginKeeps ==
    ASSUME ProxyInv, NEW c \in Lists, NEW out \in Outs, NEW cap \in Caps, ListBegin(c, out, cap)
    PROVE  ProxyInv'
<1>1. c \in DOMAIN Touched /\ c # "none" /\ out \in Nat /\ cap \in Nat /\ 0 \in Nat
  BY TouchedLengths, ListNames, ProxyAssumption
<1>2. /\ Free /\ ret = NoRet /\ rows \in 0 .. MaxRows /\ shrunk' = FALSE
      /\ watched' = watched /\ rows' = rows /\ merges' = 0 /\ 0 \in 0 .. MaxMerges
  BY ProxyAssumption DEF ListBegin, Ready, ProxyInv, ProxyTypes, ProxyTypeOK
<1>3. CASE \E v \in {-1, rows} : /\ Answer1(c, v, out, cap, 0) /\ seen' \in {{}, {rows}} /\ req' = req
                                 /\ v = rows => /\ seen' = {rows}
                                                /\ out = 0 \/ cap = 0
  <2>1. PICK v \in {-1, rows} : /\ Answer1(c, v, out, cap, 0)
                                /\ v = rows => /\ seen' = {rows}
                                               /\ out = 0 \/ cap = 0
    BY <1>3
  <2>2. seen' \subseteq 0 .. MaxRows /\ shrunk' \in BOOLEAN /\ v \in {-1} \cup (0 .. MaxRows)
    BY <1>2, <1>3
  <2>3. /\ ret' \in [call : DOMAIN Touched \cup {"none"}, value : {-1} \cup (0 .. MaxRows),
                     out : Nat, cap : Nat, wrote : Nat, wrapped : BOOLEAN,
                     seen : SUBSET (0 .. MaxRows), shrunk : BOOLEAN]
        /\ ret'.call = c /\ ret'.value = v /\ ret'.out = out /\ ret'.cap = cap
        /\ ret'.wrote = 0 /\ ret'.seen = seen'
    BY <1>1, <2>1, <2>2, AnswerIs
  <2>4. ProxyTypes'
    BY <1>2, <1>3, <2>2, <2>3 DEF ProxyInv, ProxyTypes, ProxyTypeOK
  <2>5. BetweenHalves'
    BY <1>2, <1>3 DEF BetweenHalves, Free
  <2>6. StaysInMemory' /\ TotalWasTrue'
    BY <1>2, <2>1, <2>3 DEF StaysInMemory, TotalWasTrue
  <2>7. ShortOnlyIfShrunk'
    BY <1>1, <1>2, <2>1, <2>3 DEF ShortOnlyIfShrunk, Min2
  <2> QED
    BY <2>4, <2>5, <2>6, <2>7 DEF ProxyInv
<1>4. CASE /\ seen' = {rows} /\ ret' = ret /\ out # 0 /\ cap # 0
           /\ MemCheck(out, Wrap(cap * Checked[c]))
           /\ req' = [call |-> c, out |-> out, cap |-> cap, total |-> rows]
  <2>1. ProxyTypes'
    BY <1>1, <1>2, <1>4 DEF ProxyInv, ProxyTypes, ProxyTypeOK
  <2>2. BetweenHalves'
    BY <1>2, <1>4 DEF BetweenHalves, MemCheck, Wrap
  <2>3. StaysInMemory' /\ TotalWasTrue' /\ ShortOnlyIfShrunk'
    BY <1>4 DEF ProxyInv, StaysInMemory, TotalWasTrue, ShortOnlyIfShrunk
  <2> QED
    BY <2>1, <2>2, <2>3 DEF ProxyInv
<1>5. CASE ~online \/ (out # 0 /\ cap # 0 /\ ~MemCheck(out, Wrap(cap * Checked[c])))
  <2>1. seen' = {} /\ Answer1(c, -1, out, cap, 0) /\ req' = req
    BY <1>5 DEF ListBegin
  <2>2. -1 # rows
    BY <1>2
  <2> QED
    BY <1>3, <2>1, <2>2
<1>6. CASE ~(~online \/ (out # 0 /\ cap # 0 /\ ~MemCheck(out, Wrap(cap * Checked[c]))))
  <2>1. CASE out = 0 \/ cap = 0
    <3>1. PICK v \in {-1, rows} : Answer1(c, v, out, cap, 0) /\ seen' = {rows} /\ req' = req
      BY <1>6, <2>1 DEF ListBegin
    <3> QED
      BY <1>3, <2>1, <3>1
  <2>2. CASE out # 0 /\ cap # 0
    BY <1>4, <1>6, <2>2 DEF ListBegin
  <2> QED
    BY <2>1, <2>2
<1> QED
  BY <1>5, <1>6

\* The second half.
LEMMA ListEndKeeps == ASSUME ProxyInv, ListEnd PROVE ProxyInv'
<1> DEFINE want == IF req.call \in DirectLists THEN req.cap ELSE ToCopy(req.cap, req.total)
           got == Min2(want, rows)
           value == Reported(req.call, req.total, got)
<1>1. /\ req.call \in Lists /\ req.out \in Nat /\ req.out # 0 /\ req.cap \in Nat
      /\ req.total \in 0 .. MaxRows /\ rows \in 0 .. MaxRows /\ req.total \in seen
      /\ MemCheck(req.out, Wrap(req.cap * Checked[req.call]))
      /\ shrunk \/ rows >= req.total
      /\ seen \subseteq 0 .. MaxRows /\ shrunk \in BOOLEAN
  BY DEF ListEnd, ProxyInv, ProxyTypes, ProxyTypeOK, BetweenHalves
<1>2. /\ seen' = seen /\ shrunk' = shrunk /\ req' = NoReq /\ watched' = watched /\ rows' = rows
      /\ merges' = merges /\ Answer1(req.call, value, req.out, req.cap, got)
  BY DEF ListEnd
<1>3. req.call \in DOMAIN Touched /\ Touched[req.call] \in Nat
  BY <1>1, TouchedLengths
<1>4. got \in 0 .. MaxRows /\ got <= req.cap /\ (req.call \in CountedLists => got <= req.total)
  <2>1. want \in Nat /\ want <= req.cap
    BY <1>1 DEF Min2, ToCopy
  <2>2. req.call \in CountedLists => want <= req.total
    BY <1>1, ListNames DEF Min2, ToCopy
  <2>3. got \in 0 .. MaxRows /\ got <= want
    <3>1. got = Min2(want, rows) /\ rows \in Nat /\ rows <= MaxRows /\ MaxRows \in Nat
      BY <1>1, ProxyAssumption
    <3> HIDE DEF want, got
    <3> QED
      BY <2>1, <3>1 DEF Min2
  <2> HIDE DEF want, got
  <2> QED
    BY <1>1, <2>1, <2>2, <2>3
<1>5. req.call \in CountedLists /\ ~shrunk => got = Min2(req.cap, req.total)
  BY <1>1, ListNames DEF Min2, ToCopy
<1>6. value \in 0 .. MaxRows /\ (req.call \in CountedLists \ {"audit_list"} => value = req.total)
      /\ (req.call = "audit_list" => value = got)
  BY <1>1, <1>4, ListNames DEF Reported
<1> HIDE DEF want, got, value
<1>7. /\ ret' \in [call : DOMAIN Touched \cup {"none"}, value : {-1} \cup (0 .. MaxRows), out : Nat,
                   cap : Nat, wrote : Nat, wrapped : BOOLEAN, seen : SUBSET (0 .. MaxRows),
                   shrunk : BOOLEAN]
      /\ ret'.call = req.call /\ ret'.value = value /\ ret'.out = req.out /\ ret'.cap = req.cap
      /\ ret'.wrote = got /\ ret'.seen = seen' /\ ret'.shrunk = shrunk'
      /\ ~ret'.wrapped => Wrap(req.cap * Touched[req.call]) = req.cap * Touched[req.call]
  <2>1. got \in Nat /\ value \in {-1} \cup (0 .. MaxRows)
    BY <1>4, <1>6
  <2> QED
    BY <1>1, <1>2, <1>3, <2>1, AnswerIs
<1>8. ProxyTypes'
  BY <1>1, <1>2, <1>7, ProxyAssumption DEF ProxyInv, ProxyTypes, ProxyTypeOK, NoReq
<1>9. BetweenHalves'
  BY <1>2 DEF BetweenHalves, Free
<1>10. StaysInMemory'
  <2>1. got * Touched[req.call] <= req.cap * Touched[req.call]
    BY <1>1, <1>3, <1>4, FewerBytes
  <2>2. got * Touched[req.call] \in Int /\ req.cap * Touched[req.call] \in Int
    BY <1>1, <1>3, <1>4
  <2>3. ~ret'.wrapped => req.out + req.cap * Touched[req.call] <= MemSize
    BY <1>1, <1>7, CheckedIsTouched DEF MemCheck
  <2>4. ~ret'.wrapped => req.out + got * Touched[req.call] <= MemSize
    BY <1>1, <2>1, <2>2, <2>3, ProxyAssumption
  <2> QED
    BY <1>7, <2>4 DEF StaysInMemory
<1>11. TotalWasTrue'
  BY <1>1, <1>2, <1>6, <1>7 DEF TotalWasTrue
<1>12. ShortOnlyIfShrunk'
  BY <1>1, <1>2, <1>4, <1>5, <1>6, <1>7 DEF ShortOnlyIfShrunk, Min2
<1> QED
  BY <1>8, <1>9, <1>10, <1>11, <1>12 DEF ProxyInv

\* Another member's delta.
LEMMA MergeKeeps == ASSUME ProxyInv, NEW n \in 0 .. MaxRows, Merge(n) PROVE ProxyInv'
<1>0. MaxRows \in Nat /\ MaxMerges \in Nat
  BY ProxyAssumption
<1>1. ProxyTypes'
  <2>1. /\ watched' = watched /\ req' = req /\ ret' = ret /\ rows' = n
        /\ watched \in Lists /\ req.call \in Lists \cup {"none"}
        /\ ret.call \in DOMAIN Touched \cup {"none"}
    BY DEF Merge, ProxyInv, ProxyTypes, ProxyTypeOK
  <2>2. merges' \in 0 .. MaxMerges
    BY <1>0 DEF Merge, ProxyInv, ProxyTypes, ProxyTypeOK
  <2>3. seen' \subseteq 0 .. MaxRows
    BY DEF Merge, ProxyInv, ProxyTypes
  <2>4. shrunk' \in BOOLEAN
    BY DEF Merge
  <2> QED
    BY <2>1, <2>2, <2>3, <2>4 DEF ProxyInv, ProxyTypes, ProxyTypeOK
<1>2. BetweenHalves'
  <2> SUFFICES ASSUME ~Free PROVE BetweenHalves'
    BY DEF Merge, Free, BetweenHalves
  <2>1. /\ req.call \in Lists /\ req.out # 0 /\ ret = NoRet
        /\ MemCheck(req.out, Wrap(req.cap * Checked[req.call]))
        /\ req.total \in seen
        /\ shrunk \/ rows >= req.total
    BY DEF ProxyInv, BetweenHalves
  <2>2. shrunk' = (shrunk \/ n < rows)
    BY DEF Merge
  <2>3. req' = req /\ ret' = ret /\ rows' = n /\ seen' = seen \cup {n}
    BY DEF Merge
  <2>4. rows \in Int /\ n \in Int /\ req.total \in Int
    BY <1>0 DEF ProxyInv, ProxyTypes, ProxyTypeOK
  <2>5. shrunk' \/ rows' >= req'.total
    <3>1. CASE shrunk \/ n < rows
      BY <2>2, <3>1
    <3>2. CASE ~(shrunk \/ n < rows)
      <4>1. n >= req.total
        BY <2>1, <2>4, <3>2
      <4> QED
        BY <2>3, <4>1
    <3> QED
      BY <3>1, <3>2
  <2>6. MemCheck(req.out, Wrap(req.cap * Checked[req.call]))'
    BY <2>1, <2>3 DEF MemCheck, Wrap
  <2> QED
    <3>1. req' = req /\ ret' = NoRet /\ req'.total \in seen' /\ req'.call \in Lists /\ req'.out # 0
      BY <2>1, <2>3
    <3> QED
      BY <2>5, <2>6, <3>1, Zenon DEF BetweenHalves
<1>3. StaysInMemory' /\ TotalWasTrue' /\ ShortOnlyIfShrunk'
  BY DEF Merge, ProxyInv, StaysInMemory, TotalWasTrue, ShortOnlyIfShrunk
<1> QED
  BY <1>1, <1>2, <1>3 DEF ProxyInv

\* The guest reads its answer, which a call under way does not have yet.
LEMMA TakenKeeps == ASSUME ProxyInv, Taken PROVE ProxyInv'
<1>1. Free /\ ret' = NoRet /\ seen' = {} /\ shrunk' = FALSE /\ UNCHANGED <<watched, rows, req, merges>>
  BY DEF Taken, ProxyInv, BetweenHalves
<1>2. ProxyTypes'
  <2>1. ret' \in [call : DOMAIN Touched \cup {"none"}, value : {-1} \cup (0 .. MaxRows),
                  out : Nat, cap : Nat, wrote : Nat, wrapped : BOOLEAN,
                  seen : SUBSET (0 .. MaxRows), shrunk : BOOLEAN]
    <3>1. 0 \in 0 .. MaxRows
      BY ProxyAssumption
    <3> QED
      BY <1>1, <3>1 DEF NoRet
  <2>2. ret'.call \in DOMAIN Touched \cup {"none"}
    BY <1>1 DEF NoRet
  <2> QED
    BY <1>1, <2>1, <2>2 DEF ProxyInv, ProxyTypes, ProxyTypeOK
<1>3. BetweenHalves'
  BY <1>1 DEF BetweenHalves, Free
<1>4. StaysInMemory' /\ TotalWasTrue' /\ ShortOnlyIfShrunk'
  BY <1>1, ListNames DEF NoRet, StaysInMemory, TotalWasTrue, ShortOnlyIfShrunk
<1> QED
  BY <1>2, <1>3, <1>4 DEF ProxyInv

\* A group goes online or offline between calls.
LEMMA OpenOrCloseKeeps ==
    ASSUME ProxyInv, UNCHANGED <<watched, rows, req, merges, seen, shrunk, ret>>
    PROVE  ProxyInv'
<1>1. ProxyTypes'
  BY DEF ProxyInv, ProxyTypes, ProxyTypeOK
<1>2. BetweenHalves'
  BY DEF ProxyInv, BetweenHalves, Free
<1>3. StaysInMemory' /\ TotalWasTrue' /\ ShortOnlyIfShrunk'
  BY DEF ProxyInv, StaysInMemory, TotalWasTrue, ShortOnlyIfShrunk
<1> QED
  BY <1>1, <1>2, <1>3 DEF ProxyInv

\* Whatever the size of the guest's memory, the width of a length and the capacities and
\* addresses a guest passes, its registrar calls stay inside its memory, and the total of a
\* list call was true at some moment of it.
THEOREM CallsStaySound == ProxySpec => []ProxySound
<1>1. ProxyInv /\ [ProxyNext]_proxyVars => ProxyInv'
  <2> SUFFICES ASSUME ProxyInv, [ProxyNext]_proxyVars PROVE ProxyInv'
    OBVIOUS
  <2>1. CASE UNCHANGED proxyVars
    BY <2>1, OpenOrCloseKeeps DEF proxyVars
  <2>2. CASE \E c \in Singles, out \in Outs : Single(c, out)
    BY <2>2, SingleKeeps
  <2>3. CASE \E c \in Lists, out \in Outs, cap \in Caps : ListBegin(c, out, cap)
    BY <2>3, ListBeginKeeps
  <2>4. CASE ListEnd \/ Taken
    BY <2>4, ListEndKeeps, TakenKeeps
  <2>5. CASE \E n \in 0 .. MaxRows : Merge(n)
    BY <2>5, MergeKeeps
  <2>6. CASE OpenOrClose
    BY <2>6, OpenOrCloseKeeps DEF OpenOrClose
  <2> QED
    BY <2>1, <2>2, <2>3, <2>4, <2>5, <2>6 DEF ProxyNext
<1>2. ProxyInv => ProxySound
  BY DEF ProxyInv, ProxyTypes, ProxySound
<1> QED
  BY <1>1, <1>2, ProxyStarts, PTL DEF ProxySpec

-----------------------------------------------------------------------------
(***************************************************************************)
(* The groups.                                                             *)
(***************************************************************************)
GroupRecord == [state : States, client : 0 .. MaxClients, ro : BOOLEAN, bg : BOOLEAN]
CallRecord == [ev : {"none", "verified", "kick", "ban"}, at : Nat, pc : 0 .. 2]
TaskRecord == [op : {"none", "open", "close"}, g : Nat, c : 0 .. MaxClients]

GroupTypes ==
    /\ grp \in Seq(GroupRecord) /\ Len(grp) <= MaxGroups /\ Len(grp) <= groupCap
    /\ groupCap \in Nat \ {0} /\ moves \in Nat /\ foreground \in 0 .. Len(grp)
    /\ task \in TaskRecord /\ ctxs \in 0 .. CtxPool /\ opened \in 0 .. MaxClients
    /\ clients \subseteq (1 .. opened) \X DOMAIN grp
    /\ cb \in [1 .. MaxClients -> CallRecord]

\* A client belongs to one group; the group points to it, unless it was left behind or is
\* only just being opened.
OneGroupEach == \A c, d \in clients : c[1] = d[1] => c[2] = d[2]
Pointed ==
    \A c \in clients : \/ c[1] \in strays \/ grp[c[2]].client = c[1]
                       \/ task.op = "open" /\ task.g = c[2] /\ task.c = c[1]
Owned == \A g \in DOMAIN grp : grp[g].client # 0 => <<grp[g].client, g>> \in clients

\* What the main thread is in the middle of.
Serving ==
    /\ task.op # "none" => task.g \in DOMAIN grp /\ <<task.c, task.g>> \in clients
    /\ task.op = "open" => grp[task.g].client = 0
    /\ task.op = "close" => grp[task.g].client = task.c

\* Only a client that lives is in a callback, and only of a removal there is a second write.
Calling ==
    /\ \A c \in 1 .. MaxClients : cb[c].pc # 0 => \E g \in DOMAIN grp : <<c, g>> \in clients
    /\ \A c \in 1 .. MaxClients : cb[c].pc = 0 => cb[c] = NoCall

\* The strengthened invariant of the groups.
GroupInv ==
    /\ GroupTypes /\ OneGroupEach /\ Pointed /\ Owned /\ Serving /\ Calling
    /\ ForegroundIsNotBackground /\ RemovedIsReadonly

\* The groups are a sequence of group records.
LEMMA GroupsBasics ==
    ASSUME GroupTypes
    PROVE  /\ DOMAIN grp = 1 .. Len(grp) /\ Len(grp) \in Nat
           /\ \A g \in DOMAIN grp : grp[g] \in GroupRecord
           /\ foreground # 0 => foreground \in DOMAIN grp
BY DEF GroupTypes

\* A client is its number and its group.
LEMMA ClientIs ==
    ASSUME GroupTypes, NEW c \in clients
    PROVE  /\ c = <<c[1], c[2]>> /\ c[2] \in DOMAIN grp /\ grp[c[2]] \in GroupRecord
           /\ c[1] \in 1 .. opened /\ c[1] \in 1 .. MaxClients /\ cb[c[1]] \in CallRecord
BY HostGroupsAssumption DEF GroupTypes

\* The foreground stays where it is.
LEMMA ForegroundStays ==
    ASSUME GroupTypes, ForegroundIsNotBackground, foreground' = foreground,
           \A g \in DOMAIN grp : grp'[g].bg = grp[g].bg
    PROVE  ForegroundIsNotBackground'
BY GroupsBasics DEF ForegroundIsNotBackground

\* Groups are rewritten in place.
LEMMA Rewritten ==
    ASSUME GroupTypes, grp' \in [DOMAIN grp -> GroupRecord]
    PROVE  grp' \in Seq(GroupRecord) /\ Len(grp') = Len(grp) /\ DOMAIN grp' = DOMAIN grp
<1>1. DOMAIN grp = 1 .. Len(grp) /\ Len(grp) \in Nat
  BY GroupsBasics
<1>2. grp' \in Seq(GroupRecord) /\ DOMAIN grp' = 1 .. Len(grp)
  BY <1>1, SeqDef
<1>3. Len(grp') = Len(grp)
  BY <1>1, <1>2
<1> QED BY <1>1, <1>2, <1>3

\* GroupsInit: the groups as dashboard_runtime_create leaves them.
LEMMA GroupInvInit == GroupsInit => GroupInv
<1> SUFFICES ASSUME GroupsInit PROVE GroupInv
  OBVIOUS
<1> DEFINE first == [NewGroup EXCEPT !.state = "connected"]
<1>1. /\ first \in GroupRecord /\ first.client = 0 /\ first.state = "connected" 
      /\ NoCall \in CallRecord /\ NoTask \in TaskRecord
  <2>1. 0 \in 0 .. MaxClients /\ 0 \in Nat /\ 0 \in 0 .. 2
    BY HostGroupsAssumption
  <2>2. NewGroup \in GroupRecord
    BY <2>1 DEF GroupRecord, States, NewGroup
  <2>3. "connected" \in States
    BY DEF States
  <2>4. first \in GroupRecord /\ first.client = NewGroup.client /\ first.state = "connected"
    BY <2>2, <2>3 DEF GroupRecord
  <2> QED BY <2>1, <2>4 DEF CallRecord, NoCall, NoTask, TaskRecord, NewGroup
<1>2. grp \in Seq(GroupRecord) /\ Len(grp) = 1 /\ grp[1] = first /\ DOMAIN grp = {1}
  BY <1>1 DEF GroupsInit
<1>3. GroupTypes
  BY <1>1, <1>2, HostGroupsAssumption DEF GroupTypes, GroupsInit
<1>4. Calling
  BY DEF Calling, GroupsInit, NoCall
<1>5. OneGroupEach /\ Pointed /\ Owned /\ Serving /\ ForegroundIsNotBackground /\ RemovedIsReadonly
  BY <1>1, <1>2 DEF OneGroupEach, Pointed, Owned, Serving, ForegroundIsNotBackground, Removed,
                    RemovedIsReadonly, GroupsInit, NoTask
<1> QED BY <1>3, <1>4, <1>5 DEF GroupInv

\* dashboard_process_invite: a new group behind the others.
LEMMA ProcessInviteKeeps == ASSUME GroupInv, ProcessInvite PROVE GroupInv'
<1> DEFINE n == Len(grp) + 1
<1>1. NewGroup \in GroupRecord /\ NewGroup.client = 0 /\ NewGroup.state = "connecting" /\ ~NewGroup.bg
  BY HostGroupsAssumption DEF GroupRecord, NewGroup, States
<1>2. /\ grp' \in Seq(GroupRecord) /\ Len(grp') = n /\ DOMAIN grp = 1 .. Len(grp) /\ Len(grp) \in Nat
      /\ DOMAIN grp' = DOMAIN grp \cup {n} /\ grp'[n] = NewGroup
      /\ \A g \in DOMAIN grp : grp'[g] = grp[g]
  BY <1>1, GroupsBasics, AppendProperties, LenProperties DEF GroupInv, GroupTypes, ProcessInvite
<1>3. groupCap' \in Nat \ {0} /\ moves' \in Nat /\ Len(grp') <= groupCap'
  BY <1>2 DEF GroupInv, GroupTypes, ProcessInvite, ReserveGroups
<1>4. UNCHANGED <<named, foreground, recovery, task, ctxs, clients, cb, opened, strays, lostWrites>>
  BY DEF ProcessInvite
<1>5. task.op = "none" /\ Len(grp) < MaxGroups
  BY DEF ProcessInvite, Idle0
<1>6. GroupTypes'
  BY <1>2, <1>3, <1>4, <1>5, HostGroupsAssumption DEF GroupInv, GroupTypes
<1>7. OneGroupEach' /\ Serving' /\ Calling'
  BY <1>2, <1>4, <1>5 DEF GroupInv, OneGroupEach, Serving, Calling
<1>10. Pointed'
  BY <1>2, <1>4, ClientIs DEF GroupInv, Pointed
<1>8. Owned'
  BY <1>1, <1>2, <1>4 DEF GroupInv, Owned
<1>9. ForegroundIsNotBackground' /\ RemovedIsReadonly'
  BY <1>1, <1>2, <1>4 DEF GroupInv, GroupTypes, ForegroundIsNotBackground, RemovedIsReadonly, Removed
<1> QED BY <1>6, <1>7, <1>8, <1>9, <1>10 DEF GroupInv

\* One group is written, ...
LEMMA WrittenIs ==
    ASSUME GroupTypes, NEW g \in DOMAIN grp, NEW w \in GroupRecord, grp' = [grp EXCEPT ![g] = w]
    PROVE  /\ grp' \in Seq(GroupRecord) /\ Len(grp') = Len(grp) /\ DOMAIN grp' = DOMAIN grp
           /\ grp'[g] = w /\ \A h \in DOMAIN grp \ {g} : grp'[h] = grp[h]
<1>1. grp' \in [DOMAIN grp -> GroupRecord]
  BY GroupsBasics
<1> QED BY <1>1, Rewritten

\* ... its state and client, ...
LEMMA MarkedIs ==
    ASSUME GroupTypes, NEW g \in DOMAIN grp, NEW s \in States, NEW k \in 0 .. MaxClients,
           grp' = Marked(g, s, k)
    PROVE  /\ grp' \in Seq(GroupRecord) /\ Len(grp') = Len(grp) /\ DOMAIN grp' = DOMAIN grp
           /\ grp'[g].state = s /\ grp'[g].client = k /\ grp'[g].ro = grp[g].ro /\ grp'[g].bg = grp[g].bg
           /\ \A h \in DOMAIN grp \ {g} : grp'[h] = grp[h]
<1> DEFINE w == [grp[g] EXCEPT !.state = s, !.client = k]
<1>1. grp[g] \in GroupRecord
  BY GroupsBasics
<1>2. w \in GroupRecord /\ w.state = s /\ w.client = k /\ w.ro = grp[g].ro /\ w.bg = grp[g].bg
  BY <1>1 DEF GroupRecord
<1>3. grp' = [grp EXCEPT ![g] = w]
  BY DEF Marked
<1> HIDE DEF w
<1> QED BY <1>2, <1>3, WrittenIs

\* ... and not its client, while nothing else happens.
LEMMA MarkKeeps ==
    ASSUME GroupInv, NEW g \in DOMAIN grp, NEW s \in States \ Removed,
           grp' = Marked(g, s, grp[g].client),
           UNCHANGED <<named, groupCap, moves, foreground, recovery, task, ctxs, clients, cb, opened,
                       strays, lostWrites>>
    PROVE  GroupInv'
<1>1. /\ grp' \in Seq(GroupRecord) /\ Len(grp') = Len(grp) /\ DOMAIN grp' = DOMAIN grp
      /\ grp'[g].state \notin Removed /\ \A h \in DOMAIN grp \ {g} : grp'[h] = grp[h]
      /\ \A h \in DOMAIN grp : grp'[h].client = grp[h].client /\ grp'[h].bg = grp[h].bg
  <2>1. grp[g].client \in 0 .. MaxClients /\ GroupTypes
    BY GroupsBasics DEF GroupInv, GroupRecord
  <2> QED BY <2>1, MarkedIs
<1>2. GroupTypes' /\ OneGroupEach' /\ Calling'
  BY <1>1 DEF GroupInv, GroupTypes, OneGroupEach, Calling
<1>3. Pointed' /\ Owned' /\ Serving'
  BY <1>1, ClientIs DEF GroupInv, Pointed, Owned, Serving
<1>4. ForegroundIsNotBackground' /\ RemovedIsReadonly'
  <2>1. ForegroundIsNotBackground'
    BY <1>1, ForegroundStays DEF GroupInv
  <2>2. RemovedIsReadonly'
    BY <1>1, ClientIs DEF RemovedIsReadonly, GroupInv
  <2> QED BY <2>1, <2>2
<1> QED BY <1>2, <1>3, <1>4 DEF GroupInv

\* dashboard_connect_group leaves the client behind that a group already had.
LEMMA StraysKeep ==
    ASSUME GroupInv, NEW g \in DOMAIN grp, NEW s \in States \ Removed, task.op = "none",
           grp' = Marked(g, s, 0), strays' = strays \cup ({grp[g].client} \ {0}),
           UNCHANGED <<named, groupCap, moves, foreground, recovery, cb, lostWrites>>,
           \/ UNCHANGED <<clients, task, opened, ctxs>>
           \/ /\ opened < MaxClients /\ opened' = opened + 1 /\ ctxs' = ctxs + 1 /\ ctxs # CtxPool
              /\ clients' = clients \cup {<<opened + 1, g>>}
              /\ task' = [op |-> "open", g |-> g, c |-> opened + 1]
    PROVE  GroupInv'
<1> USE DEF GroupInv
<1>1. /\ grp' \in Seq(GroupRecord) /\ Len(grp') = Len(grp) /\ DOMAIN grp' = DOMAIN grp
      /\ grp'[g].state \notin Removed /\ \A h \in DOMAIN grp \ {g} : grp'[h] = grp[h]
      /\ grp'[g].client = 0 /\ \A h \in DOMAIN grp : grp'[h].bg = grp[h].bg
  <2>1. 0 \in 0 .. MaxClients
    BY HostGroupsAssumption
  <2> QED BY <2>1, MarkedIs
<1>2. GroupTypes'
  <2>1. g \in Nat /\ CtxPool \in Nat /\ MaxClients \in Nat
    BY GroupsBasics, HostGroupsAssumption
  <2>2. task' \in TaskRecord /\ opened' \in 0 .. MaxClients /\ ctxs' \in 0 .. CtxPool
    BY <2>1 DEF GroupTypes, TaskRecord
  <2>3. clients' \subseteq (1 .. opened') \X DOMAIN grp
    BY <2>1 DEF GroupTypes
  <2> QED BY <1>1, <2>2, <2>3 DEF GroupTypes
<1>3. OneGroupEach'
  BY ClientIs DEF OneGroupEach, GroupTypes
<1>4. Calling'
  BY <1>1 DEF Calling
<1>5. Pointed' /\ Serving'
  BY <1>1, ClientIs DEF Pointed, Serving
<1>6. Owned'
  BY <1>1 DEF Owned
<1>7. ForegroundIsNotBackground' /\ RemovedIsReadonly'
  <2>1. ForegroundIsNotBackground'
    BY <1>1, ForegroundStays
  <2>2. RemovedIsReadonly'
    BY <1>1, ClientIs DEF RemovedIsReadonly
  <2> QED BY <2>1, <2>2
<1> QED BY <1>2, <1>3, <1>4, <1>5, <1>6, <1>7

\* dashboard_connect_group.
LEMMA ConnectKeeps == ASSUME GroupInv, NEW g \in DOMAIN grp, Connect(g) PROVE GroupInv'
<1>1. {"connecting", "failed"} \subseteq States \ Removed
  BY DEF States, Removed
<1> QED BY <1>1, MarkKeeps, StraysKeep DEF Connect, Idle0

\* dashboard_connect_group, after yumi_client_open.
LEMMA ConnectDoneKeeps == ASSUME GroupInv, ConnectDone PROVE GroupInv'
<1> USE DEF GroupInv
<1>1. /\ UNCHANGED <<named, groupCap, moves, foreground, recovery, ctxs, clients, cb, opened, strays,
                     lostWrites>>
      /\ task.op = "open" /\ task.g \in DOMAIN grp /\ <<task.c, task.g>> \in clients
      /\ grp[task.g].client = 0 /\ task' = NoTask
  BY DEF ConnectDone, Serving
<1>2. /\ grp' \in Seq(GroupRecord) /\ Len(grp') = Len(grp) /\ DOMAIN grp' = DOMAIN grp
      /\ \A h \in DOMAIN grp \ {task.g} : grp'[h] = grp[h]
      /\ grp'[task.g].client = task.c
      /\ \A h \in DOMAIN grp : /\ grp'[h].bg = grp[h].bg /\ grp'[h].state = grp[h].state
                               /\ grp'[h].ro = grp[h].ro
  <2> DEFINE w == [grp[task.g] EXCEPT !.client = task.c]
  <2>1. grp[task.g] \in GroupRecord /\ task.c \in 0 .. MaxClients
    BY <1>1, GroupsBasics DEF GroupTypes, TaskRecord
  <2>2. w \in GroupRecord /\ w.client = task.c /\ w.bg = grp[task.g].bg /\ w.ro = grp[task.g].ro
        /\ w.state = grp[task.g].state
    BY <2>1 DEF GroupRecord
  <2>3. grp' = [grp EXCEPT ![task.g] = w]
    BY DEF ConnectDone
  <2> HIDE DEF w
  <2> QED BY <1>1, <2>2, <2>3, WrittenIs
<1>3. NoTask \in TaskRecord /\ NoTask.op = "none"
  BY HostGroupsAssumption DEF NoTask, TaskRecord
<1>4. GroupTypes' /\ OneGroupEach' /\ Calling'
  BY <1>1, <1>2, <1>3 DEF GroupTypes, OneGroupEach, Calling
<1>5. Pointed'
  BY <1>1, <1>2, ClientIs DEF Pointed
<1>6. Owned' /\ Serving'
  BY <1>1, <1>2, <1>3 DEF Owned, Serving
<1>7. ForegroundIsNotBackground' /\ RemovedIsReadonly'
  <2>1. ForegroundIsNotBackground'
    BY <1>1, <1>2, ForegroundStays
  <2>2. RemovedIsReadonly'
    BY <1>1, <1>2, ClientIs DEF RemovedIsReadonly
  <2> QED BY <2>1, <2>2
<1> QED BY <1>4, <1>5, <1>6, <1>7

\* dashboard_disconnect_group and what closes a group like it.
LEMMA CloseKeeps == ASSUME GroupInv, NEW g \in DOMAIN grp, Close(g) PROVE GroupInv'
<1> USE DEF GroupInv
<1>1. CASE grp[g].client = 0
  <2>1. "disconnected" \in States \ Removed
    BY DEF States, Removed
  <2> QED BY <1>1, <2>1, MarkKeeps DEF Close
<1>2. CASE grp[g].client # 0
  <2>1. /\ UNCHANGED <<named, grp, groupCap, moves, foreground, recovery, ctxs, clients, cb, opened, strays,
                       lostWrites>>
        /\ task.op = "none" /\ task' = [op |-> "close", g |-> g, c |-> grp[g].client]
    BY <1>2 DEF Close, Idle0
  <2>2. grp[g].client \in 0 .. MaxClients /\ g \in Nat
    BY GroupsBasics DEF GroupRecord
  <2>3. GroupTypes' /\ OneGroupEach' /\ Calling' /\ Owned'
    BY <2>1, <2>2 DEF GroupTypes, OneGroupEach, Calling, Owned, TaskRecord
  <2>4. Pointed' /\ Serving'
    BY <1>2, <2>1 DEF Pointed, Serving, Owned
  <2>5. ForegroundIsNotBackground' /\ RemovedIsReadonly'
    BY <2>1 DEF ForegroundIsNotBackground, RemovedIsReadonly
  <2> QED BY <2>3, <2>4, <2>5
<1> QED BY <1>1, <1>2

\* The same, after yumi_client_destroy has joined the threads of the client.
LEMMA CloseDoneKeeps == ASSUME GroupInv, CloseDone PROVE GroupInv'
<1> USE DEF GroupInv
<1> DEFINE c == task.c
           g == task.g
<1>1. /\ UNCHANGED <<named, groupCap, moves, foreground, recovery, ctxs, cb, opened, strays, lostWrites>>
      /\ task.op = "close" /\ g \in DOMAIN grp /\ <<c, g>> \in clients /\ cb[c] = NoCall
      /\ grp[g].client = c /\ task' = NoTask /\ clients' = {x \in clients : x[1] # c}
  BY DEF CloseDone, Serving, Quiet, DropClient
<1>2. /\ grp' \in Seq(GroupRecord) /\ Len(grp') = Len(grp) /\ DOMAIN grp' = DOMAIN grp
      /\ \A h \in DOMAIN grp \ {g} : grp'[h] = grp[h]
      /\ grp'[g].client = 0 /\ grp'[g].state \notin Removed
      /\ \A h \in DOMAIN grp : grp'[h].bg = grp[h].bg
  <2>1. "disconnected" \in States \ Removed /\ 0 \in 0 .. MaxClients
    BY HostGroupsAssumption DEF States, Removed
  <2> QED BY <1>1, <2>1, MarkedIs DEF CloseDone
<1>3. NoTask \in TaskRecord /\ NoTask.op = "none"
  BY HostGroupsAssumption DEF NoTask, TaskRecord
<1>4. GroupTypes' /\ OneGroupEach'
  BY <1>1, <1>2, <1>3 DEF GroupTypes, OneGroupEach
<1>5. Calling'
  <2>1. cb[c].pc = 0
    BY <1>1 DEF NoCall
  <2>2. ASSUME NEW d \in 1 .. MaxClients, cb[d].pc # 0 PROVE \E h \in DOMAIN grp : <<d, h>> \in clients'
    <3>1. PICK h \in DOMAIN grp : <<d, h>> \in clients
      BY <2>2 DEF Calling
    <3>2. d # c
      BY <2>1, <2>2
    <3> QED BY <1>1, <3>1, <3>2
  <2> QED BY <1>1, <1>2, <2>2 DEF Calling
<1>6. Pointed' /\ Serving'
  BY <1>1, <1>2, <1>3, ClientIs DEF Pointed, Serving, OneGroupEach
<1>7. Owned'
  BY <1>1, <1>2 DEF Owned, OneGroupEach
<1>8. ForegroundIsNotBackground'
  BY <1>1, <1>2, ForegroundStays
<1>9. RemovedIsReadonly'
  <2>1. \A d \in clients : cb[d[1]].pc = 2 => d \in clients'
    BY <1>1 DEF NoCall
  <2> QED BY <1>1, <1>2, <2>1 DEF RemovedIsReadonly
<1> QED BY <1>4, <1>5, <1>6, <1>7, <1>8, <1>9

\* Marks, and what recovery mode makes of the groups.
LEMMA TabsKeep ==
    ASSUME GroupInv, grp' \in [DOMAIN grp -> GroupRecord], foreground' \in 0 .. Len(grp),
           \A g \in DOMAIN grp : /\ grp'[g].state = grp[g].state /\ grp'[g].client = grp[g].client
                                 /\ grp[g].ro => grp'[g].ro,
           foreground' # 0 => ~grp'[foreground'].bg,
           UNCHANGED <<named, groupCap, moves, task, ctxs, clients, cb, opened, strays, lostWrites>>
    PROVE  GroupInv'
<1> USE DEF GroupInv
<1>1. grp' \in Seq(GroupRecord) /\ Len(grp') = Len(grp) /\ DOMAIN grp' = DOMAIN grp
  BY Rewritten
<1>2. GroupTypes' /\ OneGroupEach' /\ Calling'
  BY <1>1 DEF GroupTypes, OneGroupEach, Calling
<1>3. Pointed' /\ Owned' /\ Serving'
  BY <1>1, ClientIs DEF Pointed, Owned, Serving
<1>4. ForegroundIsNotBackground' /\ RemovedIsReadonly'
  <2>1. ForegroundIsNotBackground'
    BY <1>1, GroupsBasics DEF ForegroundIsNotBackground
  <2>2. RemovedIsReadonly'
    BY <1>1, ClientIs DEF RemovedIsReadonly
  <2> QED BY <2>1, <2>2
<1> QED BY <1>2, <1>3, <1>4

\* dashboard_group_set_background.
LEMMA SetBackgroundKeeps ==
    ASSUME GroupInv, NEW g \in DOMAIN grp, NEW bg \in BOOLEAN, SetBackground(g, bg)
    PROVE  GroupInv'
<1>1. GroupTypes /\ DOMAIN grp = 1 .. Len(grp) /\ \A h \in DOMAIN grp : grp[h] \in GroupRecord
  BY GroupsBasics DEF GroupInv
<1>2. grp' \in [DOMAIN grp -> GroupRecord] /\ \A h \in DOMAIN grp \ {g} : grp'[h] = grp[h]
  BY <1>1 DEF SetBackground, GroupRecord
<1>3. /\ grp'[g].state = grp[g].state /\ grp'[g].client = grp[g].client /\ grp'[g].ro = grp[g].ro
      /\ grp'[g].bg = bg
  BY <1>1 DEF SetBackground, GroupRecord
<1>4. foreground' \in 0 .. Len(grp)
  BY <1>1 DEF SetBackground, ForegroundAfter, GroupTypes
<1>5. foreground' # 0 => ~grp'[foreground'].bg
  BY <1>1, <1>2, <1>3 DEF SetBackground, ForegroundAfter, GroupInv, GroupTypes, ForegroundIsNotBackground
<1> QED BY <1>2, <1>3, <1>4, <1>5, TabsKeep DEF SetBackground

\* dashboard_switch_group.
LEMMA SwitchGroupKeeps == ASSUME GroupInv, NEW g \in DOMAIN grp, SwitchGroup(g) PROVE GroupInv'
<1>1. GroupTypes /\ DOMAIN grp = 1 .. Len(grp) /\ \A h \in DOMAIN grp : grp[h] \in GroupRecord
  BY GroupsBasics DEF GroupInv
<1>2. grp' \in [DOMAIN grp -> GroupRecord] /\ ~grp'[g].bg
  BY <1>1 DEF SwitchGroup, GroupRecord
<1>3. \A h \in DOMAIN grp : /\ grp'[h].state = grp[h].state /\ grp'[h].client = grp[h].client
                            /\ grp'[h].ro = grp[h].ro
  BY <1>1 DEF SwitchGroup, GroupRecord
<1>4. foreground' = g /\ g \in 1 .. Len(grp)
  BY <1>1 DEF SwitchGroup
<1> QED BY <1>2, <1>3, <1>4, TabsKeep DEF SwitchGroup

\* Recovery mode, on and off.
LEMMA ToggleRecoveryKeeps == ASSUME GroupInv, ToggleRecovery PROVE GroupInv'
<1>1. GroupTypes /\ DOMAIN grp = 1 .. Len(grp) /\ \A h \in DOMAIN grp : grp[h] \in GroupRecord
  BY GroupsBasics DEF GroupInv
<1>2. grp' \in [DOMAIN grp -> GroupRecord]
  BY <1>1 DEF ToggleRecovery, GroupRecord
<1>3. \A h \in DOMAIN grp : /\ grp'[h].state = grp[h].state /\ grp'[h].client = grp[h].client
                            /\ grp[h].ro => grp'[h].ro
                            /\ grp'[h].bg = grp[h].bg
  BY <1>1 DEF ToggleRecovery, GroupRecord
<1>4. foreground' \in 0 .. Len(grp) /\ (foreground' # 0 => ~grp'[foreground'].bg)
  BY <1>1, <1>3 DEF ToggleRecovery, GroupInv, GroupTypes, ForegroundIsNotBackground
<1> QED BY <1>2, <1>3, <1>4, TabsKeep DEF ToggleRecovery

\* A client's callback goes on.
LEMMA CallMoves ==
    ASSUME GroupInv, NEW c \in clients, NEW b \in CallRecord, cb' = [cb EXCEPT ![c[1]] = b],
           b.pc = 0 => b = NoCall, clients' = clients, DOMAIN grp' = DOMAIN grp
    PROVE  /\ cb' \in [1 .. MaxClients -> CallRecord] /\ cb'[c[1]] = b /\ Calling'
           /\ \A d \in clients : d[2] # c[2] => cb'[d[1]] = cb[d[1]]
           /\ \A d \in 1 .. MaxClients \ {c[1]} : cb'[d] = cb[d]
<1>1. /\ c = <<c[1], c[2]>> /\ c[2] \in DOMAIN grp /\ c[1] \in 1 .. MaxClients
      /\ cb \in [1 .. MaxClients -> CallRecord]
  BY ClientIs DEF GroupInv, GroupTypes
<1>2. /\ cb' \in [1 .. MaxClients -> CallRecord] /\ cb'[c[1]] = b
      /\ \A d \in 1 .. MaxClients \ {c[1]} : cb'[d] = cb[d]
  BY <1>1
<1>3. Calling'
  BY <1>1, <1>2 DEF Calling, GroupInv
<1>4. \A d \in clients : d[2] # c[2] => d[1] \in 1 .. MaxClients \ {c[1]}
  BY ClientIs DEF GroupInv, OneGroupEach
<1> QED BY <1>2, <1>3, <1>4

\* The event callback is called on the client's own thread.
LEMMA EnterKeeps ==
    ASSUME GroupInv, NEW c \in clients, NEW ev \in {"verified", "kick", "ban"}, Enter(c, ev)
    PROVE  GroupInv'
<1> USE DEF GroupInv
<1>1. /\ UNCHANGED <<named, grp, groupCap, moves, foreground, recovery, task, ctxs, clients, opened,
                     strays, lostWrites>>
      /\ cb' = [cb EXCEPT ![c[1]] = [ev |-> ev, at |-> moves, pc |-> 1]] /\ cb[c[1]] = NoCall
  BY DEF Enter
<1>2. c = <<c[1], c[2]>> /\ c[1] \in 1 .. MaxClients /\ c[2] \in DOMAIN grp
  BY ClientIs DEF GroupTypes
<1>3. [ev |-> ev, at |-> moves, pc |-> 1] \in CallRecord /\ cb[c[1]].pc = 0
  BY <1>1 DEF CallRecord, GroupTypes, NoCall
<1>4. GroupTypes' /\ OneGroupEach' /\ Pointed' /\ Owned' /\ Serving'
  BY <1>1, <1>2, <1>3 DEF GroupTypes, OneGroupEach, Pointed, Owned, Serving
<1>5. Calling'
  <2>1. [ev |-> ev, at |-> moves, pc |-> 1].pc # 0
    OBVIOUS
  <2> QED BY <1>1, <1>3, <2>1, CallMoves
<1>6. ForegroundIsNotBackground' /\ RemovedIsReadonly'
  <2>1. ForegroundIsNotBackground'
    BY <1>1, ForegroundStays
  <2>2. \A d \in clients : cb[d[1]].pc = 2 => cb'[d[1]].pc = 2
    BY <1>1, <1>2, <1>3, ClientIs DEF GroupTypes
  <2>3. RemovedIsReadonly'
    BY <1>1, <2>2 DEF RemovedIsReadonly
  <2> QED BY <2>1, <2>3
<1> QED BY <1>4, <1>5, <1>6

\* A write of a callback goes to its group, or to where the groups were.
LEMMA WroteThrough ==
    ASSUME GroupInv, NEW c \in clients, NEW w \in GroupRecord, WriteThrough(c, w)
    PROVE  /\ grp' \in Seq(GroupRecord) /\ Len(grp') = Len(grp) /\ DOMAIN grp' = DOMAIN grp
           /\ \A h \in DOMAIN grp \ {c[2]} : grp'[h] = grp[h]
           /\ \/ grp' = grp /\ lostWrites' = TRUE
              \/ grp'[c[2]] = w /\ lostWrites' = lostWrites
<1>1. GroupTypes /\ c[2] \in DOMAIN grp
  BY ClientIs DEF GroupInv
<1>2. CASE cb[c[1]].at = moves
  BY <1>1, <1>2, WrittenIs DEF WriteThrough
<1>3. CASE cb[c[1]].at # moves
  BY <1>1, <1>3 DEF WriteThrough, GroupTypes
<1> QED BY <1>2, <1>3

\* Its first write, of the state.
LEMMA EventStateKeeps == ASSUME GroupInv, NEW c \in clients, EventState(c) PROVE GroupInv'
<1> USE DEF GroupInv
<1> DEFINE k == cb[c[1]]
           g == grp[c[2]]
           Next2(b) == [cb EXCEPT ![c[1]] = b]
<1>1. /\ UNCHANGED <<named, groupCap, moves, foreground, recovery, task, ctxs, clients, opened, strays>>
      /\ k.pc = 1
  BY DEF EventState
<1>2. /\ c = <<c[1], c[2]>> /\ c[1] \in 1 .. MaxClients /\ c[2] \in DOMAIN grp /\ g \in GroupRecord
      /\ k \in CallRecord
  BY ClientIs DEF GroupTypes
<1>3. PICK s \in States, b \in CallRecord :
        /\ WriteThrough(c, [g EXCEPT !.state = s]) /\ cb' = [cb EXCEPT ![c[1]] = b]
        /\ \/ b = NoCall /\ s = "connected"
           \/ b.pc = 2
  <2>1. {"connected", "kicked", "banned"} \subseteq States /\ NoCall \in CallRecord
    BY DEF States, NoCall, CallRecord
  <2>2. CASE k.ev = "verified"
    BY <2>1, <2>2 DEF EventState
  <2>3. CASE k.ev # "verified"
    <3>1. [k EXCEPT !.pc = 2] \in CallRecord /\ [k EXCEPT !.pc = 2].pc = 2
      BY <1>2 DEF CallRecord
    <3>2. cb' = [cb EXCEPT ![c[1]] = [k EXCEPT !.pc = 2]]
      BY <2>3 DEF EventState
    <3>3. RemovedAs(c, k.ev) \in States
      BY <2>1 DEF RemovedAs
    <3> QED BY <2>3, <3>1, <3>2, <3>3 DEF EventState
  <2> QED BY <2>2, <2>3
<1> DEFINE w == [g EXCEPT !.state = s]
<1>4. w \in GroupRecord /\ w.state = s /\ w.client = g.client /\ w.ro = g.ro /\ w.bg = g.bg
  BY <1>2 DEF GroupRecord
<1>5. WriteThrough(c, w)
  BY <1>3
<1> HIDE DEF w
<1>6. /\ grp' \in Seq(GroupRecord) /\ Len(grp') = Len(grp) /\ DOMAIN grp' = DOMAIN grp
      /\ \A h \in DOMAIN grp \ {c[2]} : grp'[h] = grp[h]
      /\ \/ grp' = grp /\ lostWrites' = TRUE
         \/ grp'[c[2]] = w /\ lostWrites' = lostWrites
      /\ \A h \in DOMAIN grp : grp'[h].client = grp[h].client /\ grp'[h].bg = grp[h].bg
  BY <1>2, <1>4, <1>5, WroteThrough
<1>7. GroupTypes' /\ OneGroupEach'
  BY <1>1, <1>2, <1>3, <1>6 DEF GroupTypes, OneGroupEach
<1>8. /\ Calling' /\ cb'[c[1]] = b
      /\ \A d \in clients : d[2] # c[2] => cb'[d[1]] = cb[d[1]]
  <2>1. b.pc = 0 => b = NoCall
    BY <1>3
  <2> QED BY <1>1, <1>3, <1>6, <2>1, CallMoves
<1>9. Pointed' /\ Owned' /\ Serving'
  BY <1>1, <1>6, ClientIs DEF Pointed, Owned, Serving
<1>10. ForegroundIsNotBackground'
  BY <1>1, <1>6, ForegroundStays
<1>11. RemovedIsReadonly'
  <2> SUFFICES ASSUME NEW h \in DOMAIN grp, grp'[h].state \in Removed, ~lostWrites', ~grp'[h].ro
               PROVE  \E d \in clients : d[2] = h /\ cb'[d[1]].pc = 2
    BY <1>1, <1>6 DEF RemovedIsReadonly
  <2>1. CASE h = c[2]
    BY <1>3, <1>4, <1>6, <1>8, <2>1 DEF Removed
  <2>2. CASE h # c[2]
    BY <1>6, <1>8, <2>2 DEF RemovedIsReadonly
  <2> QED BY <2>1, <2>2
<1> QED BY <1>7, <1>8, <1>9, <1>10, <1>11

\* Its second write, which makes a group the user was removed from read-only.
LEMMA EventReadonlyKeeps == ASSUME GroupInv, NEW c \in clients, EventReadonly(c) PROVE GroupInv'
<1> USE DEF GroupInv
<1>1. /\ UNCHANGED <<named, groupCap, moves, foreground, recovery, task, ctxs, clients, opened, strays>>
      /\ cb[c[1]].pc = 2 /\ cb' = [cb EXCEPT ![c[1]] = NoCall] /\ NoCall \in CallRecord /\ NoCall.pc = 0
  BY DEF EventReadonly, NoCall, CallRecord
<1>2. /\ c = <<c[1], c[2]>> /\ c[1] \in 1 .. MaxClients /\ c[2] \in DOMAIN grp
      /\ grp[c[2]] \in GroupRecord
  BY ClientIs DEF GroupTypes
<1> DEFINE w == [grp[c[2]] EXCEPT !.ro = TRUE]
<1>3. /\ w \in GroupRecord /\ w.state = grp[c[2]].state /\ w.client = grp[c[2]].client /\ w.ro
      /\ w.bg = grp[c[2]].bg
  BY <1>2 DEF GroupRecord
<1>4. WriteThrough(c, w)
  BY DEF EventReadonly, MakeReadonly
<1> HIDE DEF w
<1>5. /\ grp' \in Seq(GroupRecord) /\ Len(grp') = Len(grp) /\ DOMAIN grp' = DOMAIN grp
      /\ \A h \in DOMAIN grp \ {c[2]} : grp'[h] = grp[h]
      /\ \/ grp' = grp /\ lostWrites' = TRUE
         \/ grp'[c[2]] = w /\ lostWrites' = lostWrites
      /\ \A h \in DOMAIN grp : grp'[h].client = grp[h].client /\ grp'[h].bg = grp[h].bg
  BY <1>2, <1>3, <1>4, WroteThrough
<1>6. GroupTypes' /\ OneGroupEach'
  BY <1>1, <1>2, <1>5 DEF GroupTypes, OneGroupEach
<1>7. Calling' /\ \A d \in clients : d[2] # c[2] => cb'[d[1]] = cb[d[1]]
  BY <1>1, <1>5, CallMoves
<1>8. Pointed' /\ Owned' /\ Serving'
  BY <1>1, <1>5, ClientIs DEF Pointed, Owned, Serving
<1>9. ForegroundIsNotBackground'
  BY <1>1, <1>5, ForegroundStays
<1>10. RemovedIsReadonly'
  <2> SUFFICES ASSUME NEW h \in DOMAIN grp, grp'[h].state \in Removed, ~lostWrites', ~grp'[h].ro
               PROVE  \E d \in clients : d[2] = h /\ cb'[d[1]].pc = 2
    BY <1>1, <1>5 DEF RemovedIsReadonly
  <2>1. h # c[2]
    BY <1>3, <1>5
  <2> QED BY <1>5, <1>7, <2>1 DEF RemovedIsReadonly
<1> QED BY <1>6, <1>7, <1>8, <1>9, <1>10

\* Every step, of the main thread and of any client.
LEMMA GroupInvStep == GroupInv /\ [GroupsNext]_groupVars => GroupInv'
<1> SUFFICES ASSUME GroupInv, [GroupsNext]_groupVars PROVE GroupInv'
  OBVIOUS
<1>1. CASE TabsNext
  BY <1>1, ProcessInviteKeeps, SwitchGroupKeeps, SetBackgroundKeeps DEF TabsNext
<1>2. CASE LifecycleNext
  <2>1. ASSUME NEW g \in DOMAIN grp, Connect(g) \/ Disconnect(g) \/ DeleteRemoved(g) PROVE GroupInv'
    BY <2>1, ConnectKeeps, CloseKeeps DEF Disconnect, DeleteRemoved
  <2>2. ASSUME NEW c \in clients,
               \/ \E ev \in {"verified", "kick", "ban"} : Enter(c, ev)
               \/ EventState(c) \/ EventReadonly(c)
        PROVE  GroupInv'
    BY <2>2, EnterKeeps, EventStateKeeps, EventReadonlyKeeps
  <2> QED BY <1>2, <2>1, <2>2, ConnectDoneKeeps, CloseDoneKeeps, ToggleRecoveryKeeps DEF LifecycleNext
<1>3. CASE UNCHANGED groupVars
  <2>1. UNCHANGED <<grp, groupCap, moves, foreground, task, ctxs, clients, cb, opened, strays,
                    lostWrites>>
    BY <1>3 DEF groupVars
  <2>2. GroupTypes' /\ OneGroupEach' /\ Pointed' /\ Owned' /\ Serving'
    BY <2>1 DEF GroupInv, GroupTypes, OneGroupEach, Pointed, Owned, Serving
  <2>3. Calling' /\ ForegroundIsNotBackground' /\ RemovedIsReadonly'
    BY <2>1 DEF GroupInv, Calling, ForegroundIsNotBackground, RemovedIsReadonly
  <2> QED BY <2>2, <2>3 DEF GroupInv
<1> QED BY <1>1, <1>2, <1>3 DEF GroupsNext

\* The invariant implies what the runs check.
LEMMA GroupInvSound == GroupInv => GroupsSound
<1> SUFFICES ASSUME GroupInv PROVE GroupsSound
  OBVIOUS
<1> USE DEF GroupInv
<1>1. GroupsTypeOK
  <2>1. clients \subseteq (1 .. MaxClients) \X DOMAIN grp
    BY HostGroupsAssumption DEF GroupTypes
  <2> QED BY <2>1, GroupsBasics DEF GroupsTypeOK, GroupTypes, GroupRecord, TaskRecord
<1>2. DisconnectedIsQuiet
  BY DEF DisconnectedIsQuiet, Pointed, Idle0
<1>3. NoCallbackAfterDestroy
  BY DEF NoCallbackAfterDestroy, Calling
<1> QED BY <1>1, <1>2, <1>3 DEF GroupsSound

\* GroupsSound for any number of groups and clients: a group made disconnected has no client
\* left that could change it, no callback runs for a destroyed client, and a removal makes the
\* group read-only, whatever client threads write in between.
THEOREM GroupsAreSound == GroupsSpec => []GroupsSound
<1>1. GroupsInit => GroupInv
  BY GroupInvInit
<1>2. GroupInv /\ [GroupsNext]_groupVars => GroupInv'
  BY GroupInvStep
<1>3. GroupInv => GroupsSound
  BY GroupInvSound
<1> QED BY <1>1, <1>2, <1>3, PTL DEF GroupsSpec

-----------------------------------------------------------------------------
(***************************************************************************)
(* The registrars of a group.                                              *)
(***************************************************************************)
\* Tables and messages, none of whose rows and entries was written after the time t.
Rows(t) == [status : {"active", "banned"}, role : {0, 1}, seen : 0 .. t, removed : 0 .. t]
Entries(t) == [v : 1 .. t + 1, ts : 0 .. t, actor : Nodes, kind : Ops]
KeyTables == UNION {[S -> Nat] : S \in SUBSET Nat}
Registrars(t) ==
    [version : 1 .. t + 1, epoch : Nat, peers : [Nodes -> Rows(t)], roles : [{1} -> 0 .. t],
     apps : SUBSET Apps, servers : SUBSET Servers, secrets : SUBSET Servers, epochs : KeyTables,
     audit : SUBSET Entries(t)]
Messages(t) == [type : {"VERSION", "DELTA_REQ"}, version : Nat] \cup [type : {"DELTA"}, db : Registrars(t)]

SyncTypes ==
    /\ now \in 0 .. MaxOps /\ db \in [Nodes -> Registrars(now)]
    /\ net \in [Nodes -> [Nodes -> Seq(Messages(now))]]

\* The epoch a registrar is in has its key, and its version is that of an entry it holds.
HasKey(d) == d.epoch \in DOMAIN d.epochs
Backed(d) == d.version = Max({1} \cup {e.v : e \in d.audit})

\* The strengthened invariant of the sync.
SyncInv == SyncTypes /\ \A n \in Nodes : HasKey(db[n]) /\ Backed(db[n])

\* What a change of a registrar may not lose.
Kept(d, e) ==
    /\ \A i \in DOMAIN d.epochs : i \in DOMAIN e.epochs /\ e.epochs[i] = d.epochs[i]
    /\ \A p \in Nodes : Freshness(e.peers[p]) >= Freshness(d.peers[p])
    /\ \A v \in d.secrets : v \in e.servers => v \in e.secrets

\* Every set of numbers that is not empty has a least one, ...
LEMMA LeastNumber ==
    ASSUME NEW A \in SUBSET Nat, A # {}
    PROVE  \E s \in A : \A i \in A : s <= i
<1>1. IsWellFoundedOn(OpToRel(<, Nat), Nat)
  BY NatLessThanWellFounded
<1>2. PICK s \in A : \A i \in A : ~(<<i, s>> \in OpToRel(<, Nat))
  BY <1>1, WFMin
<1>3. \A i \in A : ~(i < s)
  BY <1>2 DEF OpToRel
<1> QED BY <1>3

\* ... and if it is bounded, a greatest one.
LEMMA LargestIs ==
    ASSUME NEW k \in Nat, NEW S \in SUBSET (0 .. k), S # {}
    PROVE  Max(S) \in S /\ \A y \in S : Max(S) >= y
<1> DEFINE U == {u \in Nat : \A y \in S : u >= y}
<1>1. k \in U /\ U \subseteq Nat
  OBVIOUS
<1>2. PICK u \in U : \A w \in U : u <= w
  <2> HIDE DEF U
  <2> QED BY <1>1, LeastNumber
<1>3. u \in S
  <2> SUFFICES ASSUME u \notin S PROVE FALSE
    OBVIOUS
  <2>1. \A y \in S : u > y /\ y \in Nat
    BY <1>2
  <2>2. PICK y \in S : TRUE
    OBVIOUS
  <2>3. u - 1 \in U
    BY <2>1, <2>2, <1>2
  <2> QED BY <1>2, <2>3
<1>4. \A y \in S : u >= y
  BY <1>2
<1> QED BY <1>3, <1>4 DEF Max

\* The greater of two numbers.
LEMMA LargerIs ==
    ASSUME NEW a \in Nat, NEW b \in Nat
    PROVE  Max({a, b}) \in {a, b} /\ Max({a, b}) >= a /\ Max({a, b}) >= b
<1>1. \E x \in {a, b} : \A y \in {a, b} : x >= y
  OBVIOUS
<1> QED BY <1>1 DEF Max

\* A greatest number is the one Max names.
LEMMA LargestUnique ==
    ASSUME NEW S \in SUBSET Nat, NEW m \in S, \A y \in S : m >= y
    PROVE  Max(S) = m
<1>1. Max(S) \in S /\ \A y \in S : Max(S) >= y
  BY DEF Max
<1>2. Max(S) \in Nat /\ m \in Nat /\ Max(S) >= m /\ m >= Max(S)
  BY <1>1
<1> HIDE DEF Max
<1> QED BY <1>2

\* The later of the two times of a row.
LEMMA FreshnessType ==
    ASSUME NEW t \in Nat, NEW r \in Rows(t)
    PROVE  /\ Freshness(r) \in 0 .. t /\ Freshness(r) \in {r.seen, r.removed}
           /\ Freshness(r) >= r.seen /\ Freshness(r) >= r.removed
BY LargerIs DEF Freshness, Rows

\* The tables of a moment are tables of any later moment.
LEMMA LaterTables ==
    ASSUME NEW t \in Nat, NEW u \in Nat, t <= u
    PROVE  /\ Rows(t) \subseteq Rows(u) /\ Entries(t) \subseteq Entries(u)
           /\ Registrars(t) \subseteq Registrars(u) /\ Messages(t) \subseteq Messages(u)
<1>1. 0 .. t \subseteq 0 .. u /\ 1 .. t + 1 \subseteq 1 .. u + 1
  OBVIOUS
<1>2. Rows(t) \subseteq Rows(u)
  BY <1>1 DEF Rows
<1>3. Entries(t) \subseteq Entries(u)
  BY <1>1 DEF Entries
<1>4. [Nodes -> Rows(t)] \subseteq [Nodes -> Rows(u)] /\ [{1} -> 0 .. t] \subseteq [{1} -> 0 .. u]
      /\ SUBSET Entries(t) \subseteq SUBSET Entries(u)
  BY <1>1, <1>2, <1>3
<1>5. Registrars(t) \subseteq Registrars(u)
  BY <1>1, <1>4 DEF Registrars
<1> QED BY <1>2, <1>3, <1>5 DEF Messages

\* A merged table of keys has all of ours as they were, and theirs besides.
LEMMA MergedKeys ==
    ASSUME NEW f \in KeyTables, NEW g \in KeyTables
    PROVE  /\ MergeEpochs(f, g) \in KeyTables
           /\ \A i \in DOMAIN f : i \in DOMAIN MergeEpochs(f, g) /\ MergeEpochs(f, g)[i] = f[i]
           /\ DOMAIN MergeEpochs(f, g) = DOMAIN f \cup DOMAIN g
<1>1. /\ DOMAIN f \in SUBSET Nat /\ f \in [DOMAIN f -> Nat]
      /\ DOMAIN g \in SUBSET Nat /\ g \in [DOMAIN g -> Nat]
  BY DEF KeyTables
<1>2. MergeEpochs(f, g) \in [DOMAIN f \cup DOMAIN g -> Nat]
  BY <1>1 DEF MergeEpochs
<1>3. DOMAIN f \cup DOMAIN g \in SUBSET Nat
  BY <1>1
<1> QED BY <1>2, <1>3 DEF KeyTables, MergeEpochs

\* What is kept is kept in the tables as they are.
LEMMA KeptSame ==
    ASSUME NEW t \in Nat, NEW d \in Registrars(t)
    PROVE  Kept(d, d)
<1>1. \A p \in Nodes : d.peers[p] \in Rows(t)
  BY DEF Registrars
<1>2. \A p \in Nodes : Freshness(d.peers[p]) \in Nat
  BY <1>1, FreshnessType
<1> QED BY <1>2 DEF Kept

\* gr_serialize_delta: a delta is a table like ours.
LEMMA DeltaIs ==
    ASSUME NEW t \in Nat, NEW d \in Registrars(t), NEW since
    PROVE  gr_serialize_delta(d, since) \in Registrars(t)
BY DEF gr_serialize_delta, Registrars

\* The versions of a set of entries.
LEMMA VersionsAre ==
    ASSUME NEW t \in Nat, NEW A \in SUBSET Entries(t)
    PROVE  {e.v : e \in A} \subseteq 1 .. t + 1
BY DEF Entries

\* gr_apply_delta: the version is that of an entry, ours or one accepted.
LEMMA MergedVersion ==
    ASSUME NEW t \in Nat, NEW d \in Registrars(t), NEW e \in Registrars(t), Backed(d)
    PROVE  /\ MergeVersion(d, e) \in 1 .. t + 1
           /\ MergeVersion(d, e) = Max({1} \cup {f.v : f \in d.audit \cup NewEntries(d, e)})
<1> DEFINE New == NewEntries(d, e)
           L == {f.v : f \in d.audit}
           N == {f.v : f \in New}
           A == {1} \cup L
           B == {d.version} \cup N
           C == {1} \cup {f.v : f \in d.audit \cup New}
<1>1. d.audit \in SUBSET Entries(t) /\ e.audit \in SUBSET Entries(t) /\ d.version \in 1 .. t + 1
  BY DEF Registrars
<1>2. New \in SUBSET Entries(t)
  BY <1>1 DEF NewEntries
<1>3. L \subseteq 1 .. t + 1 /\ N \subseteq 1 .. t + 1
  BY <1>1, <1>2, VersionsAre
<1> HIDE DEF New
<1>4. C = A \cup N
  OBVIOUS
<1> HIDE DEF L, N
<1>5. A \subseteq 1 .. t + 1 /\ B \subseteq 1 .. t + 1 /\ 1 .. t + 1 \subseteq 0 .. t + 1 /\ t + 1 \in Nat
  <2>1. 1 \in 1 .. t + 1 /\ 1 .. t + 1 \subseteq 0 .. t + 1 /\ t + 1 \in Nat
    OBVIOUS
  <2>2. A \subseteq 1 .. t + 1
    BY <1>3, <2>1
  <2>3. B \subseteq 1 .. t + 1
    BY <1>1, <1>3
  <2> QED BY <2>1, <2>2, <2>3
<1>6. d.version \in A /\ \A y \in A : d.version >= y
  <2>1. A # {} /\ A \in SUBSET (0 .. t + 1)
    BY <1>5
  <2>2. d.version = Max(A)
    BY DEF Backed, L
  <2> HIDE DEF A
  <2> QED BY <1>5, <2>1, <2>2, LargestIs
<1>7. Max(B) \in B /\ \A y \in B : Max(B) >= y
  <2>1. B # {} /\ B \in SUBSET (0 .. t + 1)
    BY <1>5
  <2> HIDE DEF B
  <2> QED BY <1>5, <2>1, LargestIs
<1> DEFINE m == Max(B)
<1> HIDE DEF m
<1>8. m \in B /\ (\A y \in B : m >= y) /\ m \in 1 .. t + 1
  BY <1>5, <1>7 DEF m
<1>9. m \in A \cup N /\ \A y \in A \cup N : m >= y
  <2>1. m \in A \cup N
    BY <1>6, <1>8
  <2>2. ASSUME NEW y \in A PROVE m >= y
    BY <1>1, <1>5, <1>6, <1>8
  <2> HIDE DEF A
  <2> QED BY <1>8, <2>1, <2>2
<1>10. A \cup N \in SUBSET Nat
  BY <1>3, <1>5
<1>11. Max(A \cup N) = m
  <2> HIDE DEF A
  <2> QED BY <1>9, <1>10, LargestUnique
<1>12. MergeVersion(d, e) = m
  BY DEF MergeVersion, m, N, New
<1> HIDE DEF A, B, C
<1>13. MergeVersion(d, e) = Max(C)
  BY <1>4, <1>11, <1>12
<1> QED BY <1>8, <1>12, <1>13 DEF C, New

\* gr_apply_delta keeps what it has to keep.
LEMMA MergeIs ==
    ASSUME NEW t \in Nat, NEW d \in Registrars(t), NEW e \in Registrars(t), HasKey(d), Backed(d)
    PROVE  /\ gr_apply_delta(d, e) \in Registrars(t) /\ Kept(d, gr_apply_delta(d, e))
           /\ HasKey(gr_apply_delta(d, e)) /\ Backed(gr_apply_delta(d, e))
<1> DEFINE g == gr_apply_delta(d, e)
<1>1. /\ d.epoch \in Nat /\ d.epochs \in KeyTables /\ e.epochs \in KeyTables
      /\ d.peers \in [Nodes -> Rows(t)] /\ e.peers \in [Nodes -> Rows(t)]
      /\ d.roles \in [{1} -> 0 .. t] /\ e.roles \in [{1} -> 0 .. t]
      /\ d.audit \in SUBSET Entries(t) /\ e.audit \in SUBSET Entries(t)
      /\ d.secrets \in SUBSET Servers /\ e.secrets \in SUBSET Servers
      /\ d.servers \in SUBSET Servers /\ e.servers \in SUBSET Servers
      /\ d.apps \in SUBSET Apps /\ e.apps \in SUBSET Apps
  BY DEF Registrars
<1>2. /\ g.version = MergeVersion(d, e) /\ g.epoch = d.epoch
      /\ g.peers = [p \in Nodes |-> LastWriter(d.peers[p], e.peers[p])]
      /\ g.secrets = d.secrets \cup e.secrets /\ g.epochs = MergeEpochs(d.epochs, e.epochs)
      /\ g.audit = d.audit \cup NewEntries(d, e)
  BY DEF gr_apply_delta, MergeSecrets
<1>3. \A p \in Nodes : /\ LastWriter(d.peers[p], e.peers[p]) \in Rows(t)
                        /\ Freshness(LastWriter(d.peers[p], e.peers[p])) >= Freshness(d.peers[p])
  <2> TAKE p \in Nodes
  <2>1. d.peers[p] \in Rows(t) /\ e.peers[p] \in Rows(t)
    BY <1>1
  <2>2. Freshness(d.peers[p]) \in Nat /\ Freshness(e.peers[p]) \in Nat
    BY <2>1, FreshnessType
  <2> QED BY <2>1, <2>2 DEF LastWriter
<1>4. [p \in Nodes |-> LastWriter(d.peers[p], e.peers[p])] \in [Nodes -> Rows(t)]
  BY <1>3
<1>5. [r \in DOMAIN d.roles \cup DOMAIN e.roles |->
          IF r \notin DOMAIN d.roles THEN e.roles[r]
          ELSE IF r \notin DOMAIN e.roles THEN d.roles[r]
          ELSE Max({d.roles[r], e.roles[r]})] \in [{1} -> 0 .. t]
  <2>1. DOMAIN d.roles = {1} /\ DOMAIN e.roles = {1} /\ d.roles[1] \in 0 .. t /\ e.roles[1] \in 0 .. t
    BY <1>1
  <2>2. Max({d.roles[1], e.roles[1]}) \in 0 .. t
    <3>1. ASSUME NEW x \in 0 .. t, NEW y \in 0 .. t
          PROVE  Max({x, y}) \in 0 .. t
      <4>1. x \in Nat /\ y \in Nat
        OBVIOUS
      <4>2. Max({x, y}) \in {x, y}
        BY <4>1, LargerIs
      <4> QED BY <4>2
    <3> QED BY <2>1, <3>1
  <2>3. DOMAIN d.roles \cup DOMAIN e.roles = {1}
    BY <2>1
  <2>4. (IF 1 \notin DOMAIN d.roles THEN e.roles[1]
         ELSE IF 1 \notin DOMAIN e.roles THEN d.roles[1]
         ELSE Max({d.roles[1], e.roles[1]})) \in 0 .. t
    BY <2>1, <2>2
  <2> QED BY <2>3, <2>4
<1>6. NewEntries(d, e) \in SUBSET Entries(t)
  BY <1>1 DEF NewEntries
<1>7. MergeEpochs(d.epochs, e.epochs) \in KeyTables
      /\ DOMAIN MergeEpochs(d.epochs, e.epochs) = DOMAIN d.epochs \cup DOMAIN e.epochs
      /\ \A i \in DOMAIN d.epochs : MergeEpochs(d.epochs, e.epochs)[i] = d.epochs[i]
  BY <1>1, MergedKeys
<1>8. MergeVersion(d, e) \in 1 .. t + 1
      /\ MergeVersion(d, e) = Max({1} \cup {f.v : f \in d.audit \cup NewEntries(d, e)})
  BY MergedVersion
<1>9. g \in Registrars(t)
  <2>1. d.secrets \cup e.secrets \in SUBSET Servers /\ d.servers \cup e.servers \in SUBSET Servers
        /\ d.apps \cup e.apps \in SUBSET Apps /\ d.audit \cup NewEntries(d, e) \in SUBSET Entries(t)
    BY <1>1, <1>6
  <2> QED BY <1>1, <1>4, <1>5, <1>7, <1>8, <2>1 DEF gr_apply_delta, Registrars, MergeSecrets
<1>10. HasKey(g) /\ Backed(g)
  BY <1>2, <1>7, <1>8 DEF HasKey, Backed
<1>11. Kept(d, g)
  BY <1>2, <1>3, <1>7 DEF Kept
<1> QED BY <1>9, <1>10, <1>11

\* Init: every member has the snapshot.
LEMMA SyncInvInit == Init => SyncInv
<1> SUFFICES ASSUME Init PROVE SyncInv
  OBVIOUS
<1>1. /\ now = 0 /\ \A n \in Nodes : db[n] = Snapshot
      /\ db = [n \in Nodes |-> Snapshot] /\ net = [n \in Nodes |-> [m \in Nodes |-> <<>>]]
  BY DEF Init
<1>2. \A p \in Nodes : PeerRow(IF p \in Admins THEN 1 ELSE 0) \in Rows(0)
  BY DEF PeerRow, Rows
<1>3. [i \in {1} |-> 0] \in KeyTables
  <2>1. [i \in {1} |-> 0] \in [{1} -> Nat] /\ {1} \in SUBSET Nat
    OBVIOUS
  <2> QED BY <2>1 DEF KeyTables
<1>4. Snapshot \in Registrars(0)
  <2>1. [p \in Nodes |-> PeerRow(IF p \in Admins THEN 1 ELSE 0)] \in [Nodes -> Rows(0)]
    BY <1>2
  <2>2. [r \in {1} |-> 0] \in [{1} -> 0 .. 0] /\ 1 \in 1 .. 0 + 1 /\ 1 \in Nat
    OBVIOUS
  <2> QED BY <1>3, <2>1, <2>2 DEF Registrars, Snapshot
<1>5. HasKey(Snapshot) /\ Backed(Snapshot)
  <2>1. 1 \in DOMAIN [i \in {1} |-> 0]
    OBVIOUS
  <2>2. Max({1}) = 1
    <3>1. {1} \in SUBSET Nat /\ 1 \in {1} /\ \A y \in {1} : 1 >= y
      OBVIOUS
    <3> QED BY <3>1, LargestUnique
  <2>3. {1} \cup {f.v : f \in {}} = {1}
    OBVIOUS
  <2> QED BY <2>1, <2>2, <2>3 DEF Snapshot, HasKey, Backed
<1>6. \A M : <<>> \in Seq(M)
  OBVIOUS
<1>7. SyncTypes
  <2>1. 0 \in 0 .. MaxOps
    BY SyncAssumption
  <2> QED BY <1>1, <1>4, <1>6, <2>1 DEF SyncTypes
<1> QED BY <1>1, <1>5, <1>7 DEF SyncInv

-----------------------------------------------------------------------------
\* Only messages move.
LEMMA NetKeeps ==
    ASSUME SyncInv, UNCHANGED <<now, db>>, net' \in [Nodes -> [Nodes -> Seq(Messages(now))]]
    PROVE  SyncInv' /\ \A n \in Nodes : Kept(db[n], db'[n])
<1>1. now \in Nat /\ \A n \in Nodes : db[n] \in Registrars(now)
  BY SyncAssumption DEF SyncInv, SyncTypes
<1>2. \A n \in Nodes : Kept(db[n], db[n])
  BY <1>1, KeptSame
<1>3. SyncTypes'
  BY DEF SyncInv, SyncTypes, Messages, Registrars, Rows, Entries
<1> QED BY <1>2, <1>3 DEF SyncInv

\* Messages are queued ...
LEMMA SentIs ==
    ASSUME NEW M, NEW q \in [Nodes -> [Nodes -> Seq(M)]], NEW n \in Nodes, NEW m \in Nodes,
           NEW x \in M
    PROVE  Sent(q, n, m, x) \in [Nodes -> [Nodes -> Seq(M)]]
<1>1. Append(q[n][m], x) \in Seq(M)
  BY AppendProperties
<1> QED BY <1>1 DEF Sent

\* ... and taken.
LEMMA RestIs ==
    ASSUME SyncInv, NEW n \in Nodes, NEW m \in Nodes, net[n][m] # <<>>
    PROVE  /\ Rest(n, m) \in [Nodes -> [Nodes -> Seq(Messages(now))]]
           /\ Head(net[n][m]) \in Messages(now)
<1>1. net \in [Nodes -> [Nodes -> Seq(Messages(now))]]
  BY DEF SyncInv, SyncTypes
<1>2. Tail(net[n][m]) \in Seq(Messages(now)) /\ Head(net[n][m]) \in Messages(now)
  BY <1>1, HeadTailProperties
<1> QED BY <1>1, <1>2 DEF Rest

\* sync_send_version, sync_request_delta and sync_send_delta_to send messages.
LEMMA MessagesAre ==
    ASSUME SyncInv, NEW n \in Nodes, NEW since
    PROVE  /\ Version(db[n].version) \in Messages(now) /\ DeltaReq(db[n].version) \in Messages(now)
           /\ Delta(db[n], since) \in Messages(now)
<1>1. now \in Nat /\ db[n] \in Registrars(now)
  BY SyncAssumption DEF SyncInv, SyncTypes
<1>2. db[n].version \in Nat
  BY <1>1 DEF Registrars
<1>3. gr_serialize_delta(db[n], since) \in Registrars(now)
  BY <1>1, DeltaIs
<1> QED BY <1>2, <1>3 DEF Messages, Version, DeltaReq, Delta

\* sudp_state_cb at both ends.
LEMMA EstablishKeeps ==
    ASSUME SyncInv, NEW n \in Nodes, NEW m \in Nodes, Establish(n, m)
    PROVE  SyncInv' /\ \A k \in Nodes : Kept(db[k], db'[k])
<1>1. net \in [Nodes -> [Nodes -> Seq(Messages(now))]]
  BY DEF SyncInv, SyncTypes
<1>2. Version(db[n].version) \in Messages(now) /\ Version(db[m].version) \in Messages(now)
  BY MessagesAre
<1>3. Sent(net, n, m, Version(db[n].version)) \in [Nodes -> [Nodes -> Seq(Messages(now))]]
  BY <1>1, <1>2, SentIs
<1>4. net' \in [Nodes -> [Nodes -> Seq(Messages(now))]]
  BY <1>2, <1>3, SentIs DEF Establish
<1> QED BY <1>4, NetKeeps DEF Establish

\* slot_free at both ends.
LEMMA DropKeeps ==
    ASSUME SyncInv, NEW n \in Nodes, NEW m \in Nodes, Drop(n, m)
    PROVE  SyncInv' /\ \A k \in Nodes : Kept(db[k], db'[k])
<1>1. net \in [Nodes -> [Nodes -> Seq(Messages(now))]]
  BY DEF SyncInv, SyncTypes
<1>2. <<>> \in Seq(Messages(now))
  OBVIOUS
<1>3. net' \in [Nodes -> [Nodes -> Seq(Messages(now))]]
  BY <1>1, <1>2 DEF Drop, Forgotten
<1> QED BY <1>3, NetKeeps DEF Drop

\* sync_broadcast_delta.
LEMMA PollKeeps ==
    ASSUME SyncInv, NEW n \in Nodes, Poll(n)
    PROVE  SyncInv' /\ \A k \in Nodes : Kept(db[k], db'[k])
<1>1. net \in [Nodes -> [Nodes -> Seq(Messages(now))]]
  BY DEF SyncInv, SyncTypes
<1>2. \A m \in Nodes : Append(net[n][m], Delta(db[n], remote[n][m])) \in Seq(Messages(now))
  <2> TAKE m \in Nodes
  <2>1. Delta(db[n], remote[n][m]) \in Messages(now)
    BY MessagesAre
  <2>2. net[n][m] \in Seq(Messages(now))
    BY <1>1
  <2> QED BY <2>1, <2>2, AppendProperties
<1>3. net' \in [Nodes -> [Nodes -> Seq(Messages(now))]]
  BY <1>1, <1>2 DEF Poll
<1> QED BY <1>3, NetKeeps DEF Poll

\* sync_handle, SYNC_VERSION ...
LEMMA HandleVersionKeeps ==
    ASSUME SyncInv, NEW n \in Nodes, NEW m \in Nodes, HandleVersion(n, m)
    PROVE  SyncInv' /\ \A k \in Nodes : Kept(db[k], db'[k])
<1> DEFINE v == Head(net[n][m]).version
           Q == [Nodes -> [Nodes -> Seq(Messages(now))]]
<1>1. Rest(n, m) \in Q
  BY RestIs DEF HandleVersion, Arrived
<1>2. Sent(Rest(n, m), m, n, DeltaReq(db[m].version)) \in Q
  BY <1>1, SentIs, MessagesAre
<1>3. Sent(Rest(n, m), m, n, Delta(db[m], v)) \in Q
  BY <1>1, SentIs, MessagesAre
<1>4. \/ net' = Sent(Rest(n, m), m, n, DeltaReq(db[m].version))
      \/ net' = Sent(Rest(n, m), m, n, Delta(db[m], v))
      \/ net' = Rest(n, m)
  BY DEF HandleVersion
<1>5. UNCHANGED <<now, db>>
  BY DEF HandleVersion
<1> QED BY <1>1, <1>2, <1>3, <1>4, <1>5, NetKeeps

\* ... SYNC_DELTA_REQ ...
LEMMA HandleDeltaReqKeeps ==
    ASSUME SyncInv, NEW n \in Nodes, NEW m \in Nodes, HandleDeltaReq(n, m)
    PROVE  SyncInv' /\ \A k \in Nodes : Kept(db[k], db'[k])
<1>1. Rest(n, m) \in [Nodes -> [Nodes -> Seq(Messages(now))]]
  BY RestIs DEF HandleDeltaReq, Arrived
<1>2. net' \in [Nodes -> [Nodes -> Seq(Messages(now))]]
  BY <1>1, SentIs, MessagesAre DEF HandleDeltaReq
<1> QED BY <1>2, NetKeeps DEF HandleDeltaReq

\* ... and SYNC_DELTA, which merges.
LEMMA HandleDeltaKeeps ==
    ASSUME SyncInv, NEW n \in Nodes, NEW m \in Nodes, HandleDelta(n, m)
    PROVE  SyncInv' /\ \A k \in Nodes : Kept(db[k], db'[k])
<1> DEFINE d == Head(net[n][m]).db
           g == gr_apply_delta(db[m], d)
<1>1. /\ Rest(n, m) \in [Nodes -> [Nodes -> Seq(Messages(now))]] /\ Head(net[n][m]) \in Messages(now)
      /\ Head(net[n][m]).type = "DELTA"
  BY RestIs DEF HandleDelta, Arrived
<1>2. d \in Registrars(now)
  BY <1>1 DEF Messages
<1>3. now \in Nat /\ db \in [Nodes -> Registrars(now)] /\ HasKey(db[m]) /\ Backed(db[m])
  BY SyncAssumption DEF SyncInv, SyncTypes
<1>4. g \in Registrars(now) /\ Kept(db[m], g) /\ HasKey(g) /\ Backed(g)
  <2>1. db[m] \in Registrars(now)
    BY <1>3
  <2> HIDE DEF d
  <2> QED BY <1>2, <1>3, <2>1, MergeIs
<1>5. now' = now /\ db' = [db EXCEPT ![m] = g] /\ net' = Rest(n, m)
  BY DEF HandleDelta
<1> HIDE DEF g
<1>6. \A k \in Nodes : Kept(db[k], db[k])
  BY <1>3, KeptSame
<1>7. SyncTypes'
  BY <1>1, <1>3, <1>4, <1>5 DEF SyncInv, SyncTypes, Messages, Registrars, Rows, Entries
<1>8. \A k \in Nodes : HasKey(db'[k]) /\ Backed(db'[k]) /\ Kept(db[k], db'[k])
  BY <1>3, <1>4, <1>5, <1>6 DEF SyncInv
<1> QED BY <1>7, <1>8 DEF SyncInv

-----------------------------------------------------------------------------
\* gr_audit_append ends every local change.
LEMMA ChangedKeeps ==
    ASSUME SyncInv, NEW n \in Nodes, NEW kind, NEW d \in Registrars(now + 1), Changed(n, kind, d),
           d.version = db[n].version, d.audit = db[n].audit, HasKey(d), Kept(db[n], d)
    PROVE  SyncInv' /\ \A k \in Nodes : Kept(db[k], db'[k])
<1> DEFINE e == [v |-> d.version + 1, ts |-> now + 1, actor |-> n, kind |-> kind]
           g == [d EXCEPT !.version = e.v, !.audit = @ \cup {e}]
           u == now + 1
<1>1. /\ now \in Nat /\ u \in Nat /\ now <= u /\ u \in 0 .. MaxOps /\ kind \in Ops /\ now' = u
      /\ db' = [db EXCEPT ![n] = g] /\ net' = net /\ db \in [Nodes -> Registrars(now)]
      /\ net \in [Nodes -> [Nodes -> Seq(Messages(now))]]
  BY SyncAssumption DEF Changed, SyncInv, SyncTypes
<1>2. d.version \in 1 .. now + 1 /\ d.audit \in SUBSET Entries(now) /\ Backed(d)
  <2>1. db[n] \in Registrars(now) /\ Backed(db[n])
    BY <1>1 DEF SyncInv
  <2> QED BY <2>1 DEF Registrars, Backed
<1>3. e \in Entries(u) /\ e.v = d.version + 1 /\ e.v \in 1 .. u + 1
  BY <1>1, <1>2 DEF Entries
<1>4. /\ Registrars(now) \subseteq Registrars(u) /\ Messages(now) \subseteq Messages(u)
      /\ Entries(now) \subseteq Entries(u)
  BY <1>1, LaterTables
<1> HIDE DEF e, u
<1>5. /\ g \in Registrars(u) /\ g.version = e.v /\ g.audit = d.audit \cup {e} /\ g.epoch = d.epoch
      /\ g.epochs = d.epochs /\ g.peers = d.peers /\ g.secrets = d.secrets /\ g.servers = d.servers
  BY <1>2, <1>3, <1>4 DEF Registrars, u
<1> HIDE DEF g
<1>6. HasKey(g) /\ Kept(db[n], g)
  BY <1>5 DEF HasKey, Kept
<1>7. Backed(g)
  <2> DEFINE A == {1} \cup {f.v : f \in d.audit}
             C == {1} \cup {f.v : f \in g.audit}
  <2>1. {f.v : f \in d.audit} \subseteq 1 .. now + 1
    BY <1>1, <1>2, VersionsAre
  <2>2. A \in SUBSET (0 .. now + 1) /\ A # {} /\ now + 1 \in Nat /\ d.version = Max(A)
    BY <1>1, <1>2, <2>1 DEF Backed
  <2>3. C = A \cup {e.v}
    BY <1>5
  <2> HIDE DEF A, C
  <2>4. \A y \in A : d.version >= y
    BY <2>2, LargestIs
  <2>5. C \in SUBSET Nat /\ e.v \in C /\ \A y \in C : e.v >= y
    <3>1. A \subseteq Nat /\ e.v \in Nat
      BY <1>2, <1>3, <2>2
    <3>2. ASSUME NEW y \in A PROVE e.v >= y
      <4>1. d.version >= y /\ y \in Nat /\ d.version \in Nat
        BY <1>1, <1>2, <2>4, <3>1
      <4> QED BY <1>3, <4>1
    <3>3. e.v >= e.v
      BY <3>1
    <3>4. C \in SUBSET Nat /\ e.v \in C
      BY <2>3, <3>1
    <3>5. ASSUME NEW y \in C PROVE e.v >= y
      <4>1. y \in A \/ y = e.v
        BY <2>3
      <4> QED BY <3>2, <3>3, <4>1
    <3> QED BY <3>4, <3>5
  <2>6. Max(C) = e.v
    BY <2>5, LargestUnique
  <2> QED BY <1>5, <2>6 DEF Backed, C
<1>8. db' \in [Nodes -> Registrars(u)]
  BY <1>1, <1>4, <1>5
<1>9. net' \in [Nodes -> [Nodes -> Seq(Messages(u))]]
  <2>1. Seq(Messages(now)) \subseteq Seq(Messages(u))
    BY <1>4, SeqDef
  <2> QED BY <1>1, <2>1
<1>10. SyncTypes'
  <2>1. Registrars(now)' = Registrars(u) /\ Messages(now)' = Messages(u)
    BY <1>1 DEF Registrars, Messages, Rows, Entries
  <2> QED BY <1>1, <1>8, <1>9, <2>1 DEF SyncTypes
<1>11. \A k \in Nodes : Kept(db[k], db[k])
  BY <1>1, KeptSame
<1>12. \A k \in Nodes : HasKey(db'[k]) /\ Backed(db'[k]) /\ Kept(db[k], db'[k])
  BY <1>1, <1>6, <1>7, <1>11 DEF SyncInv
<1> QED BY <1>10, <1>12 DEF SyncInv

\* What every local change starts from.
LEMMA LocalBasics ==
    ASSUME SyncInv, NEW n \in Nodes
    PROVE  /\ now \in Nat /\ now + 1 \in Nat /\ db[n] \in Registrars(now + 1) /\ HasKey(db[n])
           /\ \A p \in Nodes : /\ db[n].peers[p] \in Rows(now + 1)
                               /\ Freshness(db[n].peers[p]) \in 0 .. now
<1>1. now \in Nat /\ now + 1 \in Nat /\ now <= now + 1 /\ db[n] \in Registrars(now) /\ HasKey(db[n])
  BY SyncAssumption DEF SyncInv, SyncTypes
<1>2. db[n] \in Registrars(now + 1) /\ Rows(now) \subseteq Rows(now + 1)
  BY <1>1, LaterTables
<1>3. \A p \in Nodes : db[n].peers[p] \in Rows(now)
  BY <1>1 DEF Registrars
<1>4. \A p \in Nodes : Freshness(db[n].peers[p]) \in 0 .. now
  BY <1>1, <1>3, FreshnessType
<1> QED BY <1>1, <1>2, <1>3, <1>4

\* A change that leaves members and epochs alone.
LEMMA KeptApart ==
    ASSUME NEW t \in Nat, NEW d \in Registrars(t), NEW e, HasKey(d), e.peers = d.peers,
           e.epochs = d.epochs, e.epoch = d.epoch,
           \A v \in d.secrets : v \in e.servers => v \in e.secrets
    PROVE  HasKey(e) /\ Kept(d, e)
<1>1. Kept(d, d)
  BY KeptSame
<1> QED BY <1>1 DEF HasKey, Kept

\* A change of one member's row.
LEMMA KeptRow ==
    ASSUME NEW t \in Nat, NEW d \in Registrars(t), NEW p \in Nodes, NEW r \in Rows(t), HasKey(d),
           Freshness(r) >= Freshness(d.peers[p]), NEW e, e = [d EXCEPT !.peers[p] = r]
    PROVE  /\ e \in Registrars(t) /\ HasKey(e) /\ Kept(d, e)
           /\ e.version = d.version /\ e.audit = d.audit
<1>1. /\ e \in Registrars(t) /\ e.version = d.version /\ e.audit = d.audit /\ e.epoch = d.epoch
      /\ e.epochs = d.epochs /\ e.secrets = d.secrets /\ e.servers = d.servers
      /\ e.peers[p] = r /\ \A q \in Nodes \ {p} : e.peers[q] = d.peers[q]
  BY DEF Registrars
<1>2. Kept(d, d)
  BY KeptSame
<1>3. HasKey(e) /\ Kept(d, e)
  BY <1>1, <1>2 DEF HasKey, Kept
<1> QED BY <1>1, <1>3

\* gr_peer_ban writes removed_at.
LEMMA BanKeeps ==
    ASSUME SyncInv, NEW n \in Nodes, NEW p \in Nodes, Ban(n, p)
    PROVE  SyncInv' /\ \A k \in Nodes : Kept(db[k], db'[k])
<1> DEFINE row == db[n].peers[p]
           r == [row EXCEPT !.status = "banned", !.removed = now + 1]
           e == [db[n] EXCEPT !.peers[p] = r]
<1>1. Changed(n, "ban", e)
  BY DEF Ban
<1>2. /\ now \in Nat /\ now + 1 \in Nat /\ db[n] \in Registrars(now + 1) /\ HasKey(db[n])
      /\ row \in Rows(now + 1) /\ Freshness(row) \in 0 .. now
  BY LocalBasics
<1>3. r \in Rows(now + 1) /\ r.removed = now + 1
  <2>1. now + 1 \in 0 .. now + 1 /\ "banned" \in {"active", "banned"}
    BY <1>2
  <2> QED BY <1>2, <2>1 DEF Rows
<1> HIDE DEF r
<1>4. Freshness(r) >= Freshness(row)
  BY <1>2, <1>3, FreshnessType
<1> HIDE DEF e
<1>5. /\ e \in Registrars(now + 1) /\ HasKey(e) /\ Kept(db[n], e)
      /\ e.version = db[n].version /\ e.audit = db[n].audit
  BY <1>2, <1>3, <1>4, KeptRow DEF e
<1> QED BY <1>1, <1>5, ChangedKeeps

\* gr_peer_update_address writes last_seen.
LEMMA UpdateAddressKeeps ==
    ASSUME SyncInv, NEW n \in Nodes, UpdateAddress(n)
    PROVE  SyncInv' /\ \A k \in Nodes : Kept(db[k], db'[k])
<1> DEFINE row == db[n].peers[n]
           r == [row EXCEPT !.seen = now + 1]
           e == [db[n] EXCEPT !.peers[n] = r]
<1>1. Changed(n, "address", e)
  BY DEF UpdateAddress
<1>2. /\ now \in Nat /\ now + 1 \in Nat /\ db[n] \in Registrars(now + 1) /\ HasKey(db[n])
      /\ row \in Rows(now + 1) /\ Freshness(row) \in 0 .. now
  BY LocalBasics
<1>3. r \in Rows(now + 1) /\ r.seen = now + 1
  BY <1>2 DEF Rows
<1> HIDE DEF r
<1>4. Freshness(r) >= Freshness(row)
  BY <1>2, <1>3, FreshnessType
<1> HIDE DEF e
<1>5. /\ e \in Registrars(now + 1) /\ HasKey(e) /\ Kept(db[n], e)
      /\ e.version = db[n].version /\ e.audit = db[n].audit
  BY <1>2, <1>3, <1>4, KeptRow DEF e
<1> QED BY <1>1, <1>5, ChangedKeeps

\* gr_peer_set_role writes no time.
LEMMA SetRoleKeeps ==
    ASSUME SyncInv, NEW n \in Nodes, NEW p \in Nodes, SetRole(n, p)
    PROVE  SyncInv' /\ \A k \in Nodes : Kept(db[k], db'[k])
<1>1. PICK role \in {0, 1} : Changed(n, "set_role", [db[n] EXCEPT !.peers[p].role = role])
  BY DEF SetRole
<1> DEFINE row == db[n].peers[p]
           r == [row EXCEPT !.role = role]
           e == [db[n] EXCEPT !.peers[p] = r]
<1>2. Changed(n, "set_role", e)
  BY <1>1
<1>3. /\ now \in Nat /\ now + 1 \in Nat /\ db[n] \in Registrars(now + 1) /\ HasKey(db[n])
      /\ row \in Rows(now + 1) /\ Freshness(row) \in 0 .. now
  BY LocalBasics
<1>4. r \in Rows(now + 1) /\ r.seen = row.seen /\ r.removed = row.removed
  BY <1>3 DEF Rows
<1> HIDE DEF r
<1>5. Freshness(r) >= Freshness(row)
  <2>1. Freshness(r) = Freshness(row)
    BY <1>4 DEF Freshness
  <2> QED BY <1>3, <2>1
<1> HIDE DEF e
<1>6. /\ e \in Registrars(now + 1) /\ HasKey(e) /\ Kept(db[n], e)
      /\ e.version = db[n].version /\ e.audit = db[n].audit
  BY <1>3, <1>4, <1>5, KeptRow DEF e
<1> QED BY <1>2, <1>6, ChangedKeeps

\* gr_role_set_permissions.
LEMMA ModifyRoleKeeps ==
    ASSUME SyncInv, NEW n \in Nodes, ModifyRole(n)
    PROVE  SyncInv' /\ \A k \in Nodes : Kept(db[k], db'[k])
<1> DEFINE e == [db[n] EXCEPT !.roles[1] = now + 1]
<1>1. Changed(n, "modify_role", e)
  BY DEF ModifyRole
<1>2. /\ now \in Nat /\ now + 1 \in Nat /\ db[n] \in Registrars(now + 1) /\ HasKey(db[n])
  BY LocalBasics
<1>3. /\ e \in Registrars(now + 1) /\ e.version = db[n].version /\ e.audit = db[n].audit
      /\ e.peers = db[n].peers /\ e.epochs = db[n].epochs /\ e.epoch = db[n].epoch
      /\ \A x \in db[n].secrets : x \in e.servers => x \in e.secrets
  BY <1>2 DEF Registrars
<1> HIDE DEF e
<1>4. HasKey(e) /\ Kept(db[n], e)
  BY <1>2, <1>3, KeptApart
<1> QED BY <1>1, <1>2, <1>3, <1>4, ChangedKeeps

\* gr_webapp_add ...
LEMMA AddAppKeeps ==
    ASSUME SyncInv, NEW n \in Nodes, NEW a \in Apps, AddApp(n, a)
    PROVE  SyncInv' /\ \A k \in Nodes : Kept(db[k], db'[k])
<1> DEFINE e == [db[n] EXCEPT !.apps = @ \cup {a}]
<1>1. Changed(n, "add_app", e)
  BY DEF AddApp
<1>2. /\ now \in Nat /\ now + 1 \in Nat /\ db[n] \in Registrars(now + 1) /\ HasKey(db[n])
  BY LocalBasics
<1>3. /\ e \in Registrars(now + 1) /\ e.version = db[n].version /\ e.audit = db[n].audit
      /\ e.peers = db[n].peers /\ e.epochs = db[n].epochs /\ e.epoch = db[n].epoch
      /\ \A x \in db[n].secrets : x \in e.servers => x \in e.secrets
  BY <1>2 DEF Registrars
<1> HIDE DEF e
<1>4. HasKey(e) /\ Kept(db[n], e)
  BY <1>2, <1>3, KeptApart
<1> QED BY <1>1, <1>2, <1>3, <1>4, ChangedKeeps

\* ... and gr_webapp_remove.
LEMMA RemoveAppKeeps ==
    ASSUME SyncInv, NEW n \in Nodes, NEW a \in Apps, RemoveApp(n, a)
    PROVE  SyncInv' /\ \A k \in Nodes : Kept(db[k], db'[k])
<1> DEFINE e == [db[n] EXCEPT !.apps = @ \ {a}]
<1>1. Changed(n, "remove_app", e)
  BY DEF RemoveApp
<1>2. /\ now \in Nat /\ now + 1 \in Nat /\ db[n] \in Registrars(now + 1) /\ HasKey(db[n])
  BY LocalBasics
<1>3. /\ e \in Registrars(now + 1) /\ e.version = db[n].version /\ e.audit = db[n].audit
      /\ e.peers = db[n].peers /\ e.epochs = db[n].epochs /\ e.epoch = db[n].epoch
      /\ \A x \in db[n].secrets : x \in e.servers => x \in e.secrets
  BY <1>2 DEF Registrars
<1> HIDE DEF e
<1>4. HasKey(e) /\ Kept(db[n], e)
  BY <1>2, <1>3, KeptApart
<1> QED BY <1>1, <1>2, <1>3, <1>4, ChangedKeeps

\* gr_server_add: who adds a server has its key ...
LEMMA AddServerKeeps ==
    ASSUME SyncInv, NEW n \in Nodes, NEW v \in Servers, AddServer(n, v)
    PROVE  SyncInv' /\ \A k \in Nodes : Kept(db[k], db'[k])
<1> DEFINE e == [db[n] EXCEPT !.servers = @ \cup {v}, !.secrets = @ \cup {v}]
<1>1. Changed(n, "add_server", e)
  BY DEF AddServer
<1>2. /\ now \in Nat /\ now + 1 \in Nat /\ db[n] \in Registrars(now + 1) /\ HasKey(db[n])
  BY LocalBasics
<1>3. /\ e \in Registrars(now + 1) /\ e.version = db[n].version /\ e.audit = db[n].audit
      /\ e.peers = db[n].peers /\ e.epochs = db[n].epochs /\ e.epoch = db[n].epoch
      /\ \A x \in db[n].secrets : x \in e.servers => x \in e.secrets
  BY <1>2 DEF Registrars
<1> HIDE DEF e
<1>4. HasKey(e) /\ Kept(db[n], e)
  BY <1>2, <1>3, KeptApart
<1> QED BY <1>1, <1>2, <1>3, <1>4, ChangedKeeps

\* ... and gr_server_remove: it goes with the server.
LEMMA RemoveServerKeeps ==
    ASSUME SyncInv, NEW n \in Nodes, NEW v \in Servers, RemoveServer(n, v)
    PROVE  SyncInv' /\ \A k \in Nodes : Kept(db[k], db'[k])
<1> DEFINE e == [db[n] EXCEPT !.servers = @ \ {v}, !.secrets = @ \ {v}]
<1>1. Changed(n, "remove_server", e)
  BY DEF RemoveServer
<1>2. /\ now \in Nat /\ now + 1 \in Nat /\ db[n] \in Registrars(now + 1) /\ HasKey(db[n])
  BY LocalBasics
<1>3. /\ e \in Registrars(now + 1) /\ e.version = db[n].version /\ e.audit = db[n].audit
      /\ e.peers = db[n].peers /\ e.epochs = db[n].epochs /\ e.epoch = db[n].epoch
      /\ \A x \in db[n].secrets : x \in e.servers => x \in e.secrets
  BY <1>2 DEF Registrars
<1> HIDE DEF e
<1>4. HasKey(e) /\ Kept(db[n], e)
  BY <1>2, <1>3, KeptApart
<1> QED BY <1>1, <1>2, <1>3, <1>4, ChangedKeeps

\* gr_epoch_rotate: the new epoch comes with its key.
LEMMA RotateEpochKeeps ==
    ASSUME SyncInv, NEW n \in Nodes, RotateEpoch(n)
    PROVE  SyncInv' /\ \A k \in Nodes : Kept(db[k], db'[k])
<1> DEFINE i == db[n].epoch + 1
           key == [j \in {i} |-> now + 1]
           keys == MergeEpochs(db[n].epochs, key)
           e == [db[n] EXCEPT !.epoch = i, !.epochs = keys]
<1>1. Changed(n, "rotate", e)
  BY DEF RotateEpoch
<1>2. now \in Nat /\ now + 1 \in Nat /\ db[n] \in Registrars(now + 1) /\ HasKey(db[n])
  BY LocalBasics
<1>3. db[n].epoch \in Nat /\ db[n].epochs \in KeyTables
  BY <1>2 DEF Registrars
<1>4. key \in KeyTables
  <2>1. {i} \in SUBSET Nat /\ key \in [{i} -> Nat]
    BY <1>2, <1>3
  <2> QED BY <2>1 DEF KeyTables
<1>5. /\ keys \in KeyTables /\ i \in DOMAIN keys
      /\ \A j \in DOMAIN db[n].epochs : j \in DOMAIN keys /\ keys[j] = db[n].epochs[j]
  <2>1. DOMAIN key = {i}
    OBVIOUS
  <2> HIDE DEF key
  <2>2. /\ keys \in KeyTables /\ DOMAIN keys = DOMAIN db[n].epochs \cup DOMAIN key
        /\ \A j \in DOMAIN db[n].epochs : j \in DOMAIN keys /\ keys[j] = db[n].epochs[j]
    BY <1>3, <1>4, MergedKeys
  <2> QED BY <2>1, <2>2
<1> HIDE DEF keys
<1> HIDE DEF i
<1>6. /\ e \in Registrars(now + 1) /\ e.version = db[n].version /\ e.audit = db[n].audit
      /\ e.peers = db[n].peers /\ e.epochs = keys /\ e.epoch = i
      /\ e.secrets = db[n].secrets
  <2>1. i \in Nat
    BY <1>3 DEF i
  <2> QED BY <1>2, <1>5, <2>1 DEF Registrars
<1>7. Kept(db[n], db[n])
  BY <1>2, KeptSame
<1> HIDE DEF e
<1>8. HasKey(e) /\ Kept(db[n], e)
  BY <1>5, <1>6, <1>7 DEF HasKey, Kept
<1> QED BY <1>1, <1>6, <1>8, ChangedKeeps

-----------------------------------------------------------------------------
\* Every step keeps the invariant and loses nothing.
LEMMA SyncInvStep ==
    ASSUME SyncInv, [Next]_vars
    PROVE  SyncInv' /\ \A k \in Nodes : Kept(db[k], db'[k])
<1>1. ASSUME NEW n \in Nodes, Local(n)
      PROVE  SyncInv' /\ \A k \in Nodes : Kept(db[k], db'[k])
  <2>1. Targets \subseteq Nodes
    BY SyncAssumption
  <2> QED BY <1>1, <2>1, UpdateAddressKeeps, ModifyRoleKeeps, RotateEpochKeeps, BanKeeps, SetRoleKeeps,
             AddAppKeeps, RemoveAppKeeps, AddServerKeeps, RemoveServerKeeps DEF Local
<1>2. ASSUME NEW n \in Nodes, NEW m \in Nodes, HandleMessage(n, m)
      PROVE  SyncInv' /\ \A k \in Nodes : Kept(db[k], db'[k])
  BY <1>2, HandleVersionKeeps, HandleDeltaReqKeeps, HandleDeltaKeeps DEF HandleMessage
<1>3. CASE UNCHANGED vars
  <2>1. UNCHANGED <<now, db, net>>
    BY <1>3 DEF vars
  <2>2. net' \in [Nodes -> [Nodes -> Seq(Messages(now))]]
    BY <2>1 DEF SyncInv, SyncTypes
  <2> QED BY <2>1, <2>2, NetKeeps
<1> QED BY <1>1, <1>2, <1>3, PollKeeps, EstablishKeeps, DropKeeps DEF Next

\* The invariant in every reachable state.
LEMMA SyncInvAlways == Spec => []SyncInv
<1>1. Init => SyncInv
  BY SyncInvInit
<1>2. SyncInv /\ [Next]_vars => SyncInv'
  BY SyncInvStep
<1> QED BY <1>1, <1>2, PTL DEF Spec

\* VersionBacked for any group: the version a registrar advertises is that of an entry it
\* holds, so a peer asked for what comes after it is asked for everything that is missing.
THEOREM VersionsAreBacked == Spec => []VersionBacked
<1>1. SyncInv => VersionBacked
  BY DEF SyncInv, Backed, VersionBacked
<1> QED BY <1>1, SyncInvAlways, PTL

\* MergesKeep for any group, links, changes and lost connections: no merge and no change loses
\* the key of an epoch or the secret of a server, or puts an older row of a member in the
\* place of a newer one (gr_apply_delta).
THEOREM MergesAlwaysKeep == Spec => MergesKeep
<1>1. SyncInv /\ [Next]_vars =>
        [\A n \in Nodes : /\ db'[n].epoch \in DOMAIN db'[n].epochs
                          /\ \A i \in DOMAIN db[n].epochs :
                                /\ i \in DOMAIN db'[n].epochs
                                /\ db'[n].epochs[i] = db[n].epochs[i]]_vars
  BY SyncInvStep DEF SyncInv, HasKey, Kept
<1>2. SyncInv /\ [Next]_vars =>
        [\A n, p \in Nodes : Freshness(db'[n].peers[p]) >= Freshness(db[n].peers[p])]_vars
  BY SyncInvStep DEF Kept
<1>3. SyncInv /\ [Next]_vars =>
        [\A n \in Nodes : \A v \in db[n].secrets :
            v \in db'[n].servers => v \in db'[n].secrets]_vars
  BY SyncInvStep DEF Kept
<1> QED BY <1>1, <1>2, <1>3, SyncInvAlways, PTL
        DEF Spec, MergesKeep, EpochKeysStay, RowsForward, SecretsKept

-----------------------------------------------------------------------------
(***************************************************************************)
(* The friends.                                                            *)
(***************************************************************************)
\* One friend, in memory or in the table.
Friendship == [id : People, at : Nat]

\* The types the two lists keep.
FriendTypes ==
    /\ friends \in Seq(Friendship) /\ table \subseteq Friendship /\ IsFiniteSet(table)
    /\ dbActive \in BOOLEAN /\ clock \in 0 .. MaxClock
    /\ notice.why \in {"none", "add", "reconnect"}

\* The table has one row of a person, ...
OneRow == \A r, q \in table : r.id = q.id => r = q

\* ... and for everybody whose changes are saved it is the row that memory has.
RowsFollow ==
    \A p \in People \ unsaved :
       \A r \in Friendship :
          r.id = p => (r \in table <=> \E i \in DOMAIN friends : friends[i] = r)

\* The strengthened invariant of the friends.
FriendInv == FriendTypes /\ NobodyTwice /\ OneRow /\ RowsFollow

\* FriendsInit: nobody is a friend yet.
LEMMA FriendInvInit == FriendsInit => FriendInv
<1> SUFFICES ASSUME FriendsInit PROVE FriendInv
  OBVIOUS
<1>1. FriendTypes
  BY FriendsAssumption, FS_EmptySet DEF FriendsInit, FriendTypes, Nobody
<1>2. NobodyTwice /\ OneRow /\ RowsFollow
  BY DEF FriendsInit, NobodyTwice, OneRow, RowsFollow
<1> QED BY <1>1, <1>2 DEF FriendInv

\* What a write leaves, whether it succeeds or not: everybody else's row, and of p what was
\* asked for, or a change that is not saved.
LEMMA SavedKeeps ==
    ASSUME FriendInv, NEW p \in People, NEW new, Saved(p, new),
           new \subseteq Friendship, IsFiniteSet(new),
           \A r, q \in new : r.id = q.id => r = q,
           \A r \in Friendship : r.id # p => (r \in new <=> r \in table)
    PROVE  /\ table' \subseteq Friendship /\ IsFiniteSet(table') /\ OneRow'
           /\ \A r \in Friendship : r.id # p => (r \in table' <=> r \in table)
           /\ \A q \in People : q # p => (q \in unsaved' <=> q \in unsaved)
           /\ p \notin unsaved' => table' = new /\ (p \in unsaved => ~Conflicts(p, new))
<1> USE DEF FriendInv, FriendTypes
<1>1. CASE dbActive /\ table' = new
             /\ unsaved' = IF Conflicts(p, new) THEN unsaved ELSE unsaved \ {p}
  BY <1>1 DEF OneRow
<1>2. CASE UNCHANGED table /\ unsaved' = unsaved \cup {p}
  BY <1>2 DEF OneRow
<1> QED BY <1>1, <1>2 DEF Saved

\* dashboard_confirm_add_friend.
LEMMA ConfirmAddKeeps ==
    ASSUME FriendInv, NEW p \in People, ConfirmAdd(p)
    PROVE  FriendInv'
<1> USE DEF FriendInv, FriendTypes
<1> DEFINE row == [id |-> p, at |-> clock]
           new == Insert(p)
<1>1. row \in Friendship /\ row.id = p
  BY FriendsAssumption DEF Friendship
<1>2. new = table \/ (new = table \cup {row} /\ \A r \in table : r.id # p)
  BY DEF Insert
<1>3. new \subseteq Friendship /\ IsFiniteSet(new)
  BY <1>1, <1>2, FS_AddElement
<1>4. \A r, q \in new : r.id = q.id => r = q
  BY <1>1, <1>2 DEF OneRow
<1>5. \A r \in Friendship : r.id # p => (r \in new <=> r \in table)
  BY <1>1, <1>2
<1>6. Saved(p, new) /\ friends' = Append(friends, row) /\ UNCHANGED <<dbActive, notice, clock>>
        /\ \A i \in DOMAIN friends : friends[i].id # p
  BY DEF ConfirmAdd, IsNew, IsFriend, Ids
<1> HIDE DEF new, row
<1>7. /\ table' \subseteq Friendship /\ IsFiniteSet(table') /\ OneRow'
      /\ \A r \in Friendship : r.id # p => (r \in table' <=> r \in table)
      /\ \A q \in People : q # p => (q \in unsaved' <=> q \in unsaved)
      /\ p \notin unsaved' => table' = new /\ (p \in unsaved => ~Conflicts(p, new))
  BY <1>3, <1>4, <1>5, <1>6, SavedKeeps
<1>8. /\ friends' \in Seq(Friendship) /\ DOMAIN friends' = 1 .. Len(friends) + 1
      /\ DOMAIN friends = 1 .. Len(friends) /\ Len(friends) \in Nat
      /\ \A i \in 1 .. Len(friends) : friends'[i] = friends[i]
      /\ friends'[Len(friends) + 1] = row
  BY <1>1, <1>6, AppendProperties
<1>9. NobodyTwice'
  BY <1>1, <1>6, <1>8 DEF NobodyTwice
<1>10. RowsFollow'
  <2> SUFFICES ASSUME NEW q \in People \ unsaved', NEW r \in Friendship, r.id = q
               PROVE  r \in table' <=> \E i \in DOMAIN friends' : friends'[i] = r
    BY DEF RowsFollow
  <2>1. CASE q # p
    <3>1. r \in table' <=> \E i \in DOMAIN friends : friends[i] = r
      BY <1>7, <2>1 DEF RowsFollow
    <3>2. row # r
      BY <1>1, <2>1
    <3> QED BY <3>1, <3>2, <1>8
  <2>2. CASE q = p
    <3>1. (\E i \in DOMAIN friends' : friends'[i] = r) <=> r = row
      BY <1>6, <1>8, <2>2
    <3>2. table' = new /\ (p \in unsaved => ~Conflicts(p, new))
      BY <1>7, <2>2
    <3>3. \A s \in table : s.id # p
      <4>1. CASE p \notin unsaved
        BY <4>1, <1>6 DEF RowsFollow
      <4>2. CASE p \in unsaved
        BY <4>2, <3>2, <1>2 DEF Conflicts
      <4> QED BY <4>1, <4>2
    <3>4. new = table \cup {row}
      BY <3>3 DEF new, row, Insert
    <3> QED BY <3>1, <3>2, <3>3, <3>4, <2>2
  <2> QED BY <2>1, <2>2
<1> QED BY <1>6, <1>7, <1>8, <1>9, <1>10

\* A sequence without one of its entries.
LEMMA WithoutOne ==
    ASSUME NEW S, NEW s \in Seq(S), NEW i \in DOMAIN s
    PROVE  LET t == RemoveAt(s, i) IN
           /\ t \in Seq(S) /\ Len(t) = Len(s) - 1
           /\ \A j \in 1 .. Len(s) - 1 : t[j] = s[IF j < i THEN j ELSE j + 1]
<1> DEFINE a == SubSeq(s, 1, i - 1)
           b == SubSeq(s, i + 1, Len(s))
<1>1. i \in 1 .. Len(s) /\ Len(s) \in Nat
  OBVIOUS
<1>2. a \in Seq(S) /\ Len(a) = i - 1 /\ \A j \in 1 .. i - 1 : a[j] = s[j]
  BY <1>1
<1>3. b \in Seq(S) /\ Len(b) = Len(s) - i /\ \A j \in 1 .. Len(s) - i : b[j] = s[i + j]
  BY <1>1
<1>4. RemoveAt(s, i) = a \o b
  BY DEF RemoveAt
<1> HIDE DEF a, b
<1>5. /\ a \o b \in Seq(S) /\ Len(a \o b) = Len(s) - 1
      /\ \A j \in 1 .. Len(s) - 1 : (a \o b)[j] = IF j <= i - 1 THEN a[j] ELSE b[j - (i - 1)]
  <2>1. /\ a \o b \in Seq(S) /\ Len(a \o b) = Len(a) + Len(b)
        /\ \A j \in 1 .. Len(a) + Len(b) : (a \o b)[j] = IF j <= Len(a) THEN a[j] ELSE b[j - Len(a)]
    <3>1. a \in Seq(S) /\ b \in Seq(S)
      BY <1>2, <1>3
    <3> QED BY <3>1, ConcatProperties
  <2>2. Len(a) = i - 1 /\ Len(a) + Len(b) = Len(s) - 1
    BY <1>1, <1>2, <1>3
  <2> QED BY <2>1, <2>2
<1>6. ASSUME NEW j \in 1 .. Len(s) - 1
      PROVE  (a \o b)[j] = s[IF j < i THEN j ELSE j + 1]
  <2>1. CASE j < i
    BY <2>1, <1>1, <1>2, <1>5
  <2>2. CASE ~(j < i)
    <3>1. (a \o b)[j] = b[j - (i - 1)]
      BY <2>2, <1>1, <1>5
    <3>2. b[j - (i - 1)] = s[i + (j - (i - 1))]
      BY <2>2, <1>1, <1>3
    <3>3. i + (j - (i - 1)) = j + 1
      BY <1>1
    <3> QED BY <3>1, <3>2, <3>3, <2>2
  <2> QED BY <2>1, <2>2
<1> QED BY <1>4, <1>5, <1>6

\* dashboard_remove_friend.
LEMMA RemoveFriendKeeps ==
    ASSUME FriendInv, NEW p \in People, RemoveFriend(p)
    PROVE  FriendInv'
<1> USE DEF FriendInv, FriendTypes
<1> DEFINE new == Delete(p)
           k == CHOOSE i \in DOMAIN friends :
                  friends[i].id = p /\ \A j \in 1 .. i - 1 : friends[j].id # p
<1>0. DOMAIN friends = 1 .. Len(friends) /\ Len(friends) \in Nat
  OBVIOUS
<1>1. k \in DOMAIN friends /\ friends[k].id = p
  <2>1. PICK i \in DOMAIN friends : friends[i].id = p
    BY DEF RemoveFriend, IsFriend, Ids
  <2>2. \A j \in 1 .. i - 1 : friends[j].id # p
    BY <2>1, <1>0 DEF NobodyTwice
  <2> QED BY <2>1, <2>2
<1>2. new \subseteq table /\ IsFiniteSet(new) /\ \A r \in new : r.id # p
  BY FS_Subset DEF Delete
<1>3. new \subseteq Friendship /\ \A r, q \in new : r.id = q.id => r = q
  BY <1>2 DEF OneRow
<1>4. \A r \in Friendship : r.id # p => (r \in new <=> r \in table)
  BY DEF Delete
<1>5. Saved(p, new) /\ friends' = RemoveAt(friends, k) /\ UNCHANGED <<dbActive, notice, clock>>
  BY DEF RemoveFriend
<1> HIDE DEF new, k
<1>6. /\ table' \subseteq Friendship /\ IsFiniteSet(table') /\ OneRow'
      /\ \A r \in Friendship : r.id # p => (r \in table' <=> r \in table)
      /\ \A q \in People : q # p => (q \in unsaved' <=> q \in unsaved)
      /\ p \notin unsaved' => table' = new
  BY <1>2, <1>3, <1>4, <1>5, SavedKeeps
<1>7. /\ friends' \in Seq(Friendship) /\ Len(friends') = Len(friends) - 1
      /\ \A j \in 1 .. Len(friends) - 1 :
           friends'[j] = friends[IF j < k THEN j ELSE j + 1]
  BY <1>1, <1>5, WithoutOne
<1>8. DOMAIN friends' = 1 .. Len(friends) - 1
  BY <1>7
<1>9. NobodyTwice'
  <2> SUFFICES ASSUME NEW i \in DOMAIN friends', NEW j \in DOMAIN friends',
                      friends'[i].id = friends'[j].id
               PROVE  i = j
    BY DEF NobodyTwice
  <2> DEFINE u == IF i < k THEN i ELSE i + 1
             v == IF j < k THEN j ELSE j + 1
  <2>1. u \in DOMAIN friends /\ v \in DOMAIN friends /\ friends[u].id = friends[v].id
    BY <1>0, <1>1, <1>7, <1>8
  <2>2. u = v
    BY <2>1 DEF NobodyTwice
  <2> QED BY <2>2, <1>0, <1>1, <1>8
<1>10. ASSUME NEW r \in Friendship, r.id # p
       PROVE  (\E i \in DOMAIN friends : friends[i] = r) <=> \E j \in DOMAIN friends' : friends'[j] = r
  <2>1. ASSUME NEW i \in DOMAIN friends, friends[i] = r PROVE \E j \in DOMAIN friends' : friends'[j] = r
    <3>1. i # k
      BY <2>1, <1>10, <1>1
    <3> DEFINE j == IF i < k THEN i ELSE i - 1
    <3>2. j \in DOMAIN friends' /\ i = IF j < k THEN j ELSE j + 1
      BY <3>1, <1>0, <1>1, <1>8
    <3> QED BY <3>2, <1>7, <1>8, <2>1
  <2>2. ASSUME NEW j \in DOMAIN friends', friends'[j] = r PROVE \E i \in DOMAIN friends : friends[i] = r
    <3> DEFINE i == IF j < k THEN j ELSE j + 1
    <3>1. i \in DOMAIN friends
      BY <1>0, <1>1, <1>8
    <3>2. friends[i] = r
      BY <2>2, <1>7, <1>8
    <3> QED BY <3>1, <3>2
  <2> QED BY <2>1, <2>2
<1>11. \A j \in DOMAIN friends' : friends'[j].id # p
  <2> SUFFICES ASSUME NEW j \in DOMAIN friends', friends'[j].id = p PROVE FALSE
    OBVIOUS
  <2> DEFINE u == IF j < k THEN j ELSE j + 1
  <2>1. u \in DOMAIN friends /\ friends[u].id = p
    BY <1>0, <1>1, <1>7, <1>8
  <2>2. u # k
    BY <1>0, <1>1, <1>8
  <2> QED BY <2>1, <2>2, <1>1 DEF NobodyTwice
<1>12. RowsFollow'
  <2> SUFFICES ASSUME NEW q \in People \ unsaved', NEW r \in Friendship, r.id = q
               PROVE  r \in table' <=> \E i \in DOMAIN friends' : friends'[i] = r
    BY DEF RowsFollow
  <2>1. CASE q # p
    <3>1. r \in table' <=> \E i \in DOMAIN friends : friends[i] = r
      BY <1>6, <2>1 DEF RowsFollow
    <3> QED BY <3>1, <1>10, <2>1
  <2>2. CASE q = p
    BY <2>2, <1>2, <1>6, <1>11
  <2> QED BY <2>1, <2>2
<1> QED BY <1>5, <1>6, <1>7, <1>9, <1>12

\* load_friends: every row of the table once.
LEMMA LoadedIs ==
    ASSUME FriendTypes, NEW s \in Loaded
    PROVE  /\ s \in Seq(Friendship) /\ Len(s) = Cardinality(table) /\ Len(s) \in Nat
           /\ \A i, j \in 1 .. Len(s) : s[i] = s[j] => i = j
           /\ \A r : r \in table <=> \E i \in 1 .. Len(s) : s[i] = r
<1> DEFINE n == Cardinality(table)
<1>1. n \in Nat
  BY FS_CardinalityType DEF FriendTypes
<1>2. s \in [1 .. n -> table] /\ \A i, j \in 1 .. n : i # j => s[i] # s[j]
  BY DEF Loaded, SetToSeqs
<1>3. s \in Injection(1 .. n, table)
  BY <1>2 DEF Injection, IsInjective
<1>4. IsFiniteSet(1 .. n) /\ Cardinality(1 .. n) = n
  BY <1>1, FS_Interval
<1>5. s \in Surjection(1 .. n, table)
  BY <1>3, <1>4, FS_Injection DEF FriendTypes
<1>6. \A r \in table : \E i \in 1 .. n : s[i] = r
  BY <1>5 DEF Surjection
<1>7. s \in Seq(Friendship) /\ Len(s) = n
  BY <1>1, <1>2 DEF FriendTypes
<1> QED BY <1>1, <1>2, <1>6, <1>7

\* The process ends at any point and starts again.
LEMMA RestartKeepsInv ==
    ASSUME FriendInv, Restart
    PROVE  FriendInv'
<1> USE DEF FriendInv, FriendTypes
<1>1. CASE dbActive' = TRUE /\ friends' \in Loaded /\ unsaved' = {}
  <2>0. UNCHANGED <<table, clock>> /\ notice' = Nobody
    BY DEF Restart
  <2>1. /\ friends' \in Seq(Friendship) /\ Len(friends') \in Nat
        /\ \A i, j \in 1 .. Len(friends') : friends'[i] = friends'[j] => i = j
        /\ \A r : r \in table <=> \E i \in 1 .. Len(friends') : friends'[i] = r
    BY <1>1, LoadedIs
  <2>2. DOMAIN friends' = 1 .. Len(friends')
    BY <2>1
  <2>3. NobodyTwice'
    BY <2>1, <2>2 DEF NobodyTwice, OneRow
  <2>4. RowsFollow'
    BY <2>0, <2>1, <2>2 DEF RowsFollow
  <2> QED BY <1>1, <2>0, <2>1, <2>3, <2>4 DEF OneRow, Nobody
<1>2. CASE dbActive' \in BOOLEAN /\ friends' = <<>> /\ unsaved' = {r.id : r \in table}
  <2>0. UNCHANGED <<table, clock>> /\ notice' = Nobody
    BY DEF Restart
  <2>1. NobodyTwice'
    BY <1>2 DEF NobodyTwice
  <2>2. RowsFollow'
    BY <1>2, <2>0 DEF RowsFollow
  <2> QED BY <1>2, <2>0, <2>1, <2>2 DEF OneRow, Nobody
<1> QED BY <1>1, <1>2 DEF Restart

\* Every step.
LEMMA FriendInvStep == FriendInv /\ [FriendsNext]_friendVars => FriendInv'
<1> SUFFICES ASSUME FriendInv, [FriendsNext]_friendVars PROVE FriendInv'
  OBVIOUS
<1>1. ASSUME NEW p \in People, ConfirmAdd(p) PROVE FriendInv'
  BY <1>1, ConfirmAddKeeps
<1>2. ASSUME NEW p \in People, RemoveFriend(p) PROVE FriendInv'
  BY <1>2, RemoveFriendKeeps
<1>3. ASSUME NEW p \in People, RequestAdd(p) \/ \E large \in BOOLEAN : Reconnect(p, large)
      PROVE  FriendInv'
  <2>1. UNCHANGED <<friends, table, dbActive, clock, unsaved>>
          /\ notice'.why \in {"add", "reconnect"}
    BY <1>3 DEF RequestAdd, Reconnect
  <2> QED BY <2>1 DEF FriendInv, FriendTypes, NobodyTwice, OneRow, RowsFollow
<1>4. CASE Restart
  BY <1>4, RestartKeepsInv
<1>5. CASE Tick
  BY <1>5, FriendsAssumption DEF Tick, FriendInv, FriendTypes, NobodyTwice, OneRow, RowsFollow
<1>6. CASE UNCHANGED friendVars
  BY <1>6 DEF friendVars, FriendInv, FriendTypes, NobodyTwice, OneRow, RowsFollow
<1> QED BY <1>1, <1>2, <1>3, <1>4, <1>5, <1>6 DEF FriendsNext

\* The invariant implies what the runs check of a state.
LEMMA FriendInvSound == FriendInv => FriendsTypeOK /\ NobodyTwice /\ TableFollows
<1> SUFFICES ASSUME FriendInv PROVE FriendsTypeOK /\ TableFollows
  BY DEF FriendInv
<1> USE DEF FriendInv, FriendTypes
<1>1. \A i \in DOMAIN friends : friends[i] \in Friendship
  OBVIOUS
<1>2. FriendsTypeOK
  BY <1>1 DEF FriendsTypeOK, Ids, Friendship
<1>3. TableFollows
  <2> SUFFICES ASSUME NEW p \in People \ unsaved
               PROVE  IsFriend(p) <=> \E r \in table : r.id = p
    BY DEF TableFollows
  <2>1. IsFriend(p) <=> \E i \in DOMAIN friends : friends[i].id = p
    BY DEF IsFriend, Ids
  <2> QED BY <2>1, <1>1 DEF RowsFollow
<1> QED BY <1>2, <1>3

\* A sequence whose neighbours are in order is in order.
LEMMA Ordered ==
    ASSUME NEW s, NEW n \in Nat, \A i \in 1 .. n : s[i].at \in Nat,
           \A i \in 1 .. n - 1 : s[i].at <= s[i + 1].at
    PROVE  \A i, j \in 1 .. n : i < j => s[i].at <= s[j].at
<1> SUFFICES ASSUME NEW i \in 1 .. n, NEW j \in 1 .. n, i < j, ~(s[i].at <= s[j].at)
             PROVE  FALSE
  OBVIOUS
<1> DEFINE A == {h \in i + 1 .. n : ~(s[i].at <= s[h].at)}
<1>1. A \subseteq Nat /\ j \in A
  OBVIOUS
<1>2. PICK h \in A : \A g \in A : h <= g
  <2> HIDE DEF A
  <2> QED BY <1>1, LeastNumber
<1>3. h \in i + 1 .. n /\ ~(s[i].at <= s[h].at)
  OBVIOUS
<1>4. h - 1 \notin A
  <2> HIDE DEF A
  <2> QED BY <1>2, <1>3
<1>5. s[i].at <= s[h - 1].at
  BY <1>3, <1>4
<1>6. h - 1 \in 1 .. n - 1 /\ (h - 1) + 1 = h
  BY <1>3
<1>7. s[h - 1].at <= s[h].at
  BY <1>6
<1> QED BY <1>3, <1>5, <1>6, <1>7

\* Two lists of the same rows are the same list if one is in strict and the other in weak order.
LEMMA SameOrder ==
    ASSUME NEW f \in Seq(Friendship), NEW g \in Seq(Friendship), Len(f) = Len(g),
           \A i, j \in 1 .. Len(g) : g[i] = g[j] => i = j,
           \A i \in 1 .. Len(f) : \E j \in 1 .. Len(g) : g[j] = f[i],
           \A j \in 1 .. Len(g) : \E i \in 1 .. Len(f) : f[i] = g[j],
           \A i, j \in 1 .. Len(f) : i < j => f[i].at < f[j].at,
           \A i, j \in 1 .. Len(g) : i < j => g[i].at <= g[j].at
    PROVE  f = g
<1>n. PICK n \in Nat : n = Len(f)
  OBVIOUS
<1> DEFINE A == {i \in 1 .. n : f[i] # g[i]}
<1>0. Len(g) = n /\ f \in [1 .. n -> Friendship] /\ g \in [1 .. n -> Friendship]
  BY <1>n
<1>1. \A i \in 1 .. n : f[i].at \in Nat /\ g[i].at \in Nat
  <2>1. \A r \in Friendship : r.at \in Nat
    BY DEF Friendship
  <2> QED BY <1>0, <2>1
<1>w. \A a, b \in Nat : a < b => a # b /\ ~(b <= a)
  OBVIOUS
<1> SUFFICES ASSUME f # g PROVE FALSE
  OBVIOUS
<1>a. A # {}
  <2> SUFFICES ASSUME A = {} PROVE FALSE
    OBVIOUS
  <2>1. \A i \in 1 .. n : f[i] = g[i]
    OBVIOUS
  <2>2. f = [i \in 1 .. n |-> f[i]] /\ g = [i \in 1 .. n |-> g[i]]
    BY <1>0
  <2> QED BY <2>1, <2>2, Zenon
<1>2. A \subseteq Nat
  OBVIOUS
<1>3. PICK k \in A : \A i \in A : k <= i
  <2> HIDE DEF A
  <2> QED BY <1>a, <1>2, LeastNumber
<1>4. k \in 1 .. n /\ f[k] # g[k] /\ \A i \in 1 .. n : i < k => f[i] = g[i]
  <2>1. \A i \in 1 .. n : i < k => i \notin A
    <3> HIDE DEF A
    <3> QED BY <1>2, <1>3
  <2> QED BY <2>1
<1> HIDE DEF A
<1>5. PICK j \in 1 .. n : g[j] = f[k]
  BY <1>n, <1>0, <1>4
<1>6. PICK i \in 1 .. n : f[i] = g[k]
  BY <1>n, <1>0, <1>4
<1>7. j > k
  <2>1. j # k
    BY <1>4, <1>5
  <2>2. ~(j < k)
    <3> SUFFICES ASSUME j < k PROVE FALSE
      OBVIOUS
    <3>1. f[j] = f[k]
      BY <1>4, <1>5
    <3>2. f[j].at < f[k].at
      BY <1>n, <1>4
    <3>3. f[j].at = f[k].at
      BY <3>1, Zenon
    <3>4. f[j].at \in Nat /\ f[k].at \in Nat
      BY <1>1, <1>4
    <3> QED BY <3>2, <3>3, <3>4, <1>w, Zenon
  <2> QED BY <2>1, <2>2, <1>4
<1>8. i > k
  <2>1. i # k
    BY <1>4, <1>6
  <2>2. ~(i < k)
    <3> SUFFICES ASSUME i < k PROVE FALSE
      OBVIOUS
    <3>1. g[i] = g[k]
      BY <1>4, <1>6
    <3> QED BY <3>1, <1>0, <1>4
  <2> QED BY <2>1, <2>2, <1>4
<1>9. f[k].at < f[i].at
  BY <1>n, <1>4, <1>8
<1>10. g[k].at <= g[j].at
  BY <1>0, <1>4, <1>7
<1>11. f[k].at \in Nat /\ g[k].at \in Nat
  BY <1>1, <1>4
<1>12. g[j].at = f[k].at /\ f[i].at = g[k].at
  BY <1>5, <1>6, Zenon
<1> QED BY <1>9, <1>10, <1>11, <1>12, <1>w, Zenon

\* A restart that can read the table.
LEMMA RestartReloads ==
    ASSUME FriendInv, Restart, dbActive', unsaved = {}, friends' # <<>>,
           \A i \in 1 .. Len(friends) - 1 : friends[i].at < friends[i + 1].at
    PROVE  friends' = friends
<1> USE DEF FriendInv, FriendTypes
<1> DEFINE f == friends
           g == friends'
<1>1. g \in Loaded
  BY DEF Restart
<1>2. /\ g \in Seq(Friendship) /\ Len(g) = Cardinality(table) /\ Len(g) \in Nat
      /\ \A i, j \in 1 .. Len(g) : g[i] = g[j] => i = j
      /\ \A r : r \in table <=> \E i \in 1 .. Len(g) : g[i] = r
  BY <1>1, LoadedIs
<1>0. \A r \in Friendship : r.at \in Nat
  BY DEF Friendship
<1>3. /\ f \in Seq(Friendship) /\ Len(f) \in Nat /\ DOMAIN f = 1 .. Len(f)
      /\ \A i \in 1 .. Len(f) : f[i] \in Friendship /\ f[i].at \in Nat
  BY <1>0
<1>4. \A r \in Friendship : r \in table <=> \E i \in 1 .. Len(f) : f[i] = r
  <2> SUFFICES ASSUME NEW r \in Friendship PROVE r \in table <=> \E i \in 1 .. Len(f) : f[i] = r
    OBVIOUS
  <2>1. r.id \in People \ unsaved
    BY DEF Friendship
  <2> QED BY <2>1, <1>3 DEF RowsFollow
<1>5. Len(f) = Cardinality(table)
  <2>1. f \in [1 .. Len(f) -> table]
    BY <1>3, <1>4
  <2>2. f \in Surjection(1 .. Len(f), table)
    BY <2>1, <1>4 DEF Surjection
  <2>3. f \in Injection(1 .. Len(f), table)
    BY <2>1, <1>3 DEF Injection, IsInjective, NobodyTwice
  <2>4. f \in Bijection(1 .. Len(f), table)
    BY <2>2, <2>3 DEF Bijection
  <2>5. ExistsBijection(1 .. Len(f), table)
    BY <2>4 DEF ExistsBijection
  <2> QED BY <2>5, <1>3, FS_CountingElements
<1>6. \A i, j \in 1 .. Len(f) : i < j => f[i].at < f[j].at
  <2>1. \A i \in 1 .. Len(f) - 1 : f[i].at <= f[i + 1].at
    BY <1>3
  <2>2. \A i, j \in 1 .. Len(f) : i < j => f[i].at <= f[j].at
    BY <2>1, <1>3, Ordered
  <2> SUFFICES ASSUME NEW i \in 1 .. Len(f), NEW j \in 1 .. Len(f), i < j PROVE f[i].at < f[j].at
    OBVIOUS
  <2>3. i + 1 \in 1 .. Len(f) /\ i \in 1 .. Len(f) - 1
    BY <1>3
  <2>4. f[i].at < f[i + 1].at
    BY <2>3
  <2>5. f[i + 1].at <= f[j].at
    BY <2>2, <2>3, <1>3
  <2> QED BY <2>3, <2>4, <2>5, <1>3
<1>7. \A i \in 1 .. Len(g) : g[i] \in Friendship /\ g[i].at \in Nat
  BY <1>0, <1>2
<1>8. \A i \in 1 .. Len(g) - 1 : g[i].at <= g[i + 1].at
  BY <1>1 DEF Loaded
<1>9. \A i, j \in 1 .. Len(g) : i < j => g[i].at <= g[j].at
  BY <1>2, <1>7, <1>8, Ordered
<1>10. /\ \A i \in 1 .. Len(f) : \E j \in 1 .. Len(g) : g[j] = f[i]
       /\ \A j \in 1 .. Len(g) : \E i \in 1 .. Len(f) : f[i] = g[j]
  BY <1>2, <1>3, <1>4, <1>7
<1> QED BY <1>2, <1>3, <1>5, <1>6, <1>9, <1>10, SameOrder

\* FriendsSound for any people and any time: whatever is added, removed, lost by a failed write
\* and read back, nobody is a friend twice, and memory differs from the table only in people
\* whose last change was not saved; a restart that reads the table brings the list back in its
\* order.
THEOREM FriendsAreSound == FriendsSpec => FriendsSound
<1>1. FriendsInit => FriendInv
  BY FriendInvInit
<1>2. FriendInv /\ [FriendsNext]_friendVars => FriendInv'
  BY FriendInvStep
<1>3. FriendInv => FriendsTypeOK /\ NobodyTwice /\ TableFollows
  BY FriendInvSound
<1>4. FriendInv => [Restart /\ dbActive' /\ unsaved = {} /\ friends' # <<>>
       /\ (\A i \in 1 .. Len(friends) - 1 : friends[i].at < friends[i + 1].at)
       => friends' = friends]_friendVars
  BY RestartReloads DEF friendVars
<1> QED BY <1>1, <1>2, <1>3, <1>4, PTL DEF FriendsSpec, FriendsSound, RestartKeepsOrder

-----------------------------------------------------------------------------
(***************************************************************************)
(* The handles of SDL objects.                                             *)
(***************************************************************************)
\* A handle table that can be used: the free handles name nothing, and each is free once.
TableSound(t) ==
    /\ t.slots \in Seq(Nat) /\ t.free \in Seq(Nat) /\ Len(t.slots) >= 1
    /\ \A i \in 1 .. Len(t.free) : t.free[i] \in 1 .. Len(t.slots) /\ t.slots[t.free[i]] = 0
    /\ \A i, j \in 1 .. Len(t.free) : i # j => t.free[i] # t.free[j]

\* ht_init.
LEMMA InitIsSound ==
    /\ TableSound(HtInit(1))
    /\ \A h : HtGet(HtInit(1), h) = 0
<1> DEFINE t == HtInit(1)
<1>1. t.slots = [h \in 1 .. 1 |-> 0] /\ t.free = [i \in 1 .. 1 |-> 1 + 1 - i]
  BY DEF HtInit
<1>2. t.slots \in Seq(Nat) /\ Len(t.slots) = 1 /\ t.free \in Seq(Nat) /\ Len(t.free) = 1
  <2>0. \A n \in Nat : \A f \in [1 .. n -> Nat] : f \in Seq(Nat) /\ Len(f) = n
    OBVIOUS
  <2>1. \A f \in [1 .. 1 -> Nat] : f \in Seq(Nat) /\ Len(f) = 1
    BY <2>0, 1 \in Nat, Zenon
  <2>2. t.slots \in [1 .. 1 -> Nat] /\ t.free \in [1 .. 1 -> Nat]
    BY <1>1
  <2> QED BY <2>1, <2>2
<1>3. t.free[1] = 1 /\ t.slots[1] = 0
  BY <1>1
<1> HIDE DEF t
<1>4. TableSound(t)
  BY <1>2, <1>3 DEF TableSound
<1>5. \A h : HtGet(t, h) = 0
  BY <1>2, <1>3 DEF HtGet, Capacity
<1> QED BY <1>4, <1>5 DEF t

\* ht_grow doubles an exhausted table; whoever has a handle keeps it.
LEMMA RoomIs ==
    ASSUME NEW t, TableSound(t)
    PROVE  LET r == HtRoom(t) IN
           /\ TableSound(r) /\ Len(r.free) >= 1
           /\ \A h : HtGet(r, h) = HtGet(t, h)
<1> DEFINE r == HtRoom(t)
           c == Len(t.slots)
<1>1. CASE t.free = <<>>
  <2>1. r.slots = t.slots \o [i \in 1 .. c |-> 0] /\ r.free = [i \in 1 .. c |-> 2 * c + 1 - i]
    BY <1>1 DEF HtRoom, HtGrown, Capacity
  <2>2. c \in Nat /\ c >= 1 /\ t.slots \in Seq(Nat)
    BY DEF TableSound
  <2> HIDE DEF r, c
  <2>3. [i \in 1 .. c |-> 0] \in Seq(Nat) /\ Len([i \in 1 .. c |-> 0]) = c
    BY <2>2
  <2>4. r.slots \in Seq(Nat) /\ Len(r.slots) = c + c
    BY <2>1, <2>2, <2>3 DEF c
  <2>5. \A h \in 1 .. c : r.slots[h] = t.slots[h]
    BY <2>1, <2>2, <2>3 DEF c
  <2>6. \A h \in c + 1 .. c + c : r.slots[h] = 0
    BY <2>1, <2>2, <2>3 DEF c
  <2>7. r.free \in Seq(Nat) /\ Len(r.free) = c /\ \A i \in 1 .. c : r.free[i] = 2 * c + 1 - i
    BY <2>1, <2>2
  <2>8. \A i \in 1 .. c : r.free[i] \in c + 1 .. c + c
    BY <2>2, <2>7
  <2>9. TableSound(r)
    <3>1. \A i \in 1 .. Len(r.free) : r.free[i] \in 1 .. Len(r.slots) /\ r.slots[r.free[i]] = 0
      <4> SUFFICES ASSUME NEW i \in 1 .. c
                   PROVE  r.free[i] \in 1 .. Len(r.slots) /\ r.slots[r.free[i]] = 0
        BY <2>7
      <4>1. r.free[i] \in c + 1 .. c + c
        BY <2>8
      <4>2. \A h \in c + 1 .. c + c : h \in 1 .. c + c
        BY <2>2
      <4> QED BY <2>4, <2>6, <4>1, <4>2
    <3>2. \A i, j \in 1 .. Len(r.free) : i # j => r.free[i] # r.free[j]
      BY <2>2, <2>7
    <3>3. Len(r.slots) >= 1
      BY <2>2, <2>4
    <3> QED BY <2>4, <2>7, <3>1, <3>2, <3>3 DEF TableSound
  <2>10. \A h : HtGet(r, h) = HtGet(t, h)
    <3> SUFFICES ASSUME NEW h PROVE HtGet(r, h) = HtGet(t, h)
      OBVIOUS
    <3>0. /\ HtGet(r, h) = IF h \in 1 .. c + c THEN r.slots[h] ELSE 0
          /\ HtGet(t, h) = IF h \in 1 .. c THEN t.slots[h] ELSE 0
      BY <2>4 DEF HtGet, Capacity, c
    <3>1. CASE h \in 1 .. c
      BY <3>0, <3>1, <2>2, <2>5
    <3>2. CASE h \in c + 1 .. c + c
      BY <3>0, <3>2, <2>2, <2>6
    <3>3. CASE h \notin 1 .. c /\ h \notin c + 1 .. c + c
      <4>1. h \notin 1 .. c + c
        BY <3>3, <2>2
      <4> QED BY <3>0, <3>3, <4>1
    <3> QED BY <3>1, <3>2, <3>3
  <2> QED BY <2>2, <2>7, <2>9, <2>10 DEF r
<1>2. CASE t.free # <<>>
  <2>1. r = t /\ Len(t.free) >= 1
    BY <1>2 DEF HtRoom, TableSound
  <2> QED BY <2>1
<1> QED BY <1>1, <1>2

\* ht_insert names one object more and touches no other handle.
LEMMA InsertIs ==
    ASSUME NEW t, TableSound(t), NEW o \in Nat \ {0}
    PROVE  LET u == HtInsert(t, o)
               n == HtNext(t)
           IN  /\ TableSound(u) /\ n \in Nat /\ HtGet(t, n) = 0
               /\ \A h : HtGet(u, h) = IF h = n THEN o ELSE HtGet(t, h)
<1> DEFINE r == HtRoom(t)
           n == HtNext(t)
           u == HtInsert(t, o)
           m == Len(r.free)
<1>1. TableSound(r) /\ m >= 1 /\ \A h : HtGet(r, h) = HtGet(t, h)
  BY RoomIs
<1>2. n = r.free[m]
  BY DEF HtNext, Last
<1>3. u.slots = [r.slots EXCEPT ![n] = o] /\ u.free = SubSeq(r.free, 1, m - 1)
  BY DEF HtInsert, Front
<1> HIDE DEF r, n, u
<1>4. /\ r.slots \in Seq(Nat) /\ r.free \in Seq(Nat) /\ m \in Nat /\ Len(r.slots) >= 1
      /\ \A i \in 1 .. m : r.free[i] \in 1 .. Len(r.slots) /\ r.slots[r.free[i]] = 0
      /\ \A i, j \in 1 .. m : i # j => r.free[i] # r.free[j]
  BY <1>1 DEF TableSound
<1>5. n \in 1 .. Len(r.slots) /\ r.slots[n] = 0
  BY <1>1, <1>2, <1>4
<1>6. u.slots \in Seq(Nat) /\ Len(u.slots) = Len(r.slots)
        /\ \A h \in 1 .. Len(r.slots) : u.slots[h] = IF h = n THEN o ELSE r.slots[h]
  BY <1>3, <1>4, <1>5
<1>m. m - 1 \in 0 .. m /\ m - 1 \in Nat
  BY <1>1, <1>4
<1>7. u.free \in Seq(Nat) /\ Len(u.free) = m - 1 /\ \A i \in 1 .. m - 1 : u.free[i] = r.free[i]
  <2>1. SubSeq(r.free, 1, m - 1) \in Seq(Nat)
    BY <1>4, <1>m
  <2>2. Len(SubSeq(r.free, 1, m - 1)) = m - 1
    BY <1>4, <1>m
  <2>3. \A i \in 1 .. m - 1 : SubSeq(r.free, 1, m - 1)[i] = r.free[i]
    BY <1>4, <1>m
  <2> QED BY <1>3, <2>1, <2>2, <2>3
<1>i. \A i \in 1 .. m - 1 : i \in 1 .. m /\ i # m
  BY <1>m, <1>4
<1>k. m \in 1 .. m
  BY <1>1, <1>4
<1> HIDE DEF m
<1>8. \A i \in 1 .. m - 1 : u.free[i] # n
  BY <1>2, <1>4, <1>7, <1>i, <1>k
<1>9. TableSound(u)
  <2>1. \A i \in 1 .. Len(u.free) : u.free[i] \in 1 .. Len(u.slots) /\ u.slots[u.free[i]] = 0
    BY <1>4, <1>6, <1>7, <1>8, <1>i
  <2>2. \A i, j \in 1 .. Len(u.free) : i # j => u.free[i] # u.free[j]
    BY <1>4, <1>7, <1>i
  <2> QED BY <1>4, <1>6, <1>7, <2>1, <2>2 DEF TableSound
<1>10. \A h : HtGet(u, h) = IF h = n THEN o ELSE HtGet(r, h)
  BY <1>5, <1>6 DEF HtGet, Capacity
<1>11. HtGet(r, n) = 0 /\ n \in Nat
  BY <1>5 DEF HtGet, Capacity
<1> QED BY <1>1, <1>9, <1>10, <1>11 DEF u, n

\* ht_remove forgets one handle and frees it.
LEMMA RemoveIs ==
    ASSUME NEW t, TableSound(t), NEW h \in HtUsed(t)
    PROVE  LET u == HtRemove(t, h) IN
           /\ TableSound(u)
           /\ \A g : HtGet(u, g) = IF g = h THEN 0 ELSE HtGet(t, g)
<1> DEFINE u == HtRemove(t, h)
<1>1. /\ t.slots \in Seq(Nat) /\ t.free \in Seq(Nat) /\ Len(t.free) \in Nat /\ Len(t.slots) >= 1
      /\ \A i \in 1 .. Len(t.free) : t.free[i] \in 1 .. Len(t.slots) /\ t.slots[t.free[i]] = 0
      /\ \A i, j \in 1 .. Len(t.free) : i # j => t.free[i] # t.free[j]
  BY DEF TableSound
<1>2. h \in 1 .. Len(t.slots) /\ t.slots[h] # 0 /\ h \in Nat
  BY DEF HtUsed, Capacity
<1>3. u.slots = [t.slots EXCEPT ![h] = 0] /\ u.free = Append(t.free, h)
  BY <1>2 DEF HtRemove, Capacity
<1> HIDE DEF u
<1>4. u.slots \in Seq(Nat) /\ Len(u.slots) = Len(t.slots)
        /\ \A g \in 1 .. Len(t.slots) : u.slots[g] = IF g = h THEN 0 ELSE t.slots[g]
  BY <1>1, <1>2, <1>3
<1>5. u.free \in Seq(Nat) /\ Len(u.free) = Len(t.free) + 1 /\ u.free[Len(t.free) + 1] = h
        /\ \A i \in 1 .. Len(t.free) : u.free[i] = t.free[i]
  BY <1>1, <1>2, <1>3, AppendProperties
<1>6. \A i \in 1 .. Len(t.free) : t.free[i] # h
  BY <1>1, <1>2
<1>7. \A i \in 1 .. Len(u.free) : i \in 1 .. Len(t.free) \/ i = Len(t.free) + 1
  BY <1>1, <1>5
<1>8. \A i \in 1 .. Len(u.free) : u.free[i] \in 1 .. Len(u.slots) /\ u.slots[u.free[i]] = 0
  BY <1>1, <1>2, <1>4, <1>5, <1>7
<1>9. \A i, j \in 1 .. Len(u.free) : i # j => u.free[i] # u.free[j]
  BY <1>1, <1>5, <1>6, <1>7
<1>10. TableSound(u)
  BY <1>1, <1>4, <1>5, <1>8, <1>9 DEF TableSound
<1>11. \A g : HtGet(u, g) = IF g = h THEN 0 ELSE HtGet(t, g)
  BY <1>2, <1>4 DEF HtGet, Capacity
<1> QED BY <1>10, <1>11 DEF u

-----------------------------------------------------------------------------
\* Every table can be used.
TablesSound(T) == \A k \in DOMAIN T : TableSound(T[k])

\* A name is a kind and a handle of that kind that gives the object.
LEMMA NamesAre ==
    ASSUME NEW T, NEW o, o # 0
    PROVE  \A p : p \in NamesOf(T, o) <=> \E k \in DOMAIN T : \E h : p = <<k, h>> /\ HtGet(T[k], h) = o
<1>1. \A k \in DOMAIN T : \A h : HtGet(T[k], h) = o => h \in HtUsed(T[k])
  BY DEF HtGet, HtUsed
<1> QED BY <1>1 DEF NamesOf

\* The tables after a handle of the kind k was given out for o, or the handle h removed.
Filled(T, k, o) == [T EXCEPT ![k] = HtInsert(@, o)]
Emptied(T, k, h) == [T EXCEPT ![k] = HtRemove(@, h)]

\* A handle more is a name more of its object, and of no other one.
LEMMA NamesGrow ==
    ASSUME NEW T, TablesSound(T), NEW k \in DOMAIN T, NEW o \in Nat \ {0}
    PROVE  /\ TablesSound(Filled(T, k, o)) /\ DOMAIN Filled(T, k, o) = DOMAIN T
           /\ <<k, HtNext(T[k])>> \notin NamesOf(T, o)
           /\ \A q \in Nat \ {0} : NamesOf(Filled(T, k, o), q) =
                IF q = o THEN NamesOf(T, q) \cup {<<k, HtNext(T[k])>>} ELSE NamesOf(T, q)
<1> DEFINE U == Filled(T, k, o)
           n == HtNext(T[k])
           p == <<k, n>>
           u == HtInsert(T[k], o)
<1>1. TableSound(T[k])
  BY DEF TablesSound
<1>2. TableSound(u) /\ HtGet(T[k], n) = 0 /\ \A h : HtGet(u, h) = IF h = n THEN o ELSE HtGet(T[k], h)
  BY <1>1, InsertIs
<1>3. DOMAIN U = DOMAIN T /\ \A j \in DOMAIN T : U[j] = IF j = k THEN u ELSE T[j]
  BY DEF Filled
<1> HIDE DEF U, u, n
<1>4. TablesSound(U)
  BY <1>2, <1>3 DEF TablesSound
<1>5. p \notin NamesOf(T, o)
  BY <1>2, NamesAre
<1>6. ASSUME NEW q \in Nat \ {0}
      PROVE  NamesOf(U, q) = IF q = o THEN NamesOf(T, q) \cup {p} ELSE NamesOf(T, q)
  <2>1. \A x : x \in NamesOf(U, q) <=> \E j \in DOMAIN T : \E h : x = <<j, h>> /\ HtGet(U[j], h) = q
    BY <1>3, NamesAre
  <2>2. \A x : x \in NamesOf(T, q) <=> \E j \in DOMAIN T : \E h : x = <<j, h>> /\ HtGet(T[j], h) = q
    BY NamesAre
  <2>3. \A j \in DOMAIN T : \A h :
          HtGet(U[j], h) = IF j = k /\ h = n THEN o ELSE HtGet(T[j], h)
    BY <1>2, <1>3
  <2>4. CASE q = o
    <3>1. \A j \in DOMAIN T : \A h : HtGet(U[j], h) = o <=> (j = k /\ h = n) \/ HtGet(T[j], h) = o
      BY <2>3
    <3>2. \A x : x \in NamesOf(U, o) <=> x = p \/ x \in NamesOf(T, o)
      BY <2>1, <2>2, <2>4, <3>1
    <3> QED BY <2>4, <3>2
  <2>5. CASE q # o
    <3>1. \A j \in DOMAIN T : \A h : HtGet(U[j], h) = q <=> HtGet(T[j], h) = q
      BY <1>2, <2>3, <2>5
    <3>2. \A x : x \in NamesOf(U, q) <=> x \in NamesOf(T, q)
      BY <2>1, <2>2, <3>1
    <3> QED BY <2>5, <3>2
  <2> QED BY <2>4, <2>5
<1> QED BY <1>3, <1>4, <1>5, <1>6 DEF U, n

\* A handle less is a name less.
LEMMA NamesShrink ==
    ASSUME NEW T, TablesSound(T), NEW k \in DOMAIN T, NEW h \in HtUsed(T[k])
    PROVE  /\ TablesSound(Emptied(T, k, h)) /\ DOMAIN Emptied(T, k, h) = DOMAIN T
           /\ HtGet(T[k], h) \in Nat \ {0} /\ <<k, h>> \in NamesOf(T, HtGet(T[k], h))
           /\ \A q \in Nat \ {0} : NamesOf(Emptied(T, k, h), q) =
                IF q = HtGet(T[k], h) THEN NamesOf(T, q) \ {<<k, h>>} ELSE NamesOf(T, q)
<1> DEFINE U == Emptied(T, k, h)
           o == HtGet(T[k], h)
           p == <<k, h>>
           u == HtRemove(T[k], h)
<1>1. TableSound(T[k])
  BY DEF TablesSound
<1>2. TableSound(u) /\ \A g : HtGet(u, g) = IF g = h THEN 0 ELSE HtGet(T[k], g)
  BY <1>1, RemoveIs
<1>3. DOMAIN U = DOMAIN T /\ \A j \in DOMAIN T : U[j] = IF j = k THEN u ELSE T[j]
  BY DEF Emptied
<1>4. o \in Nat \ {0}
  BY <1>1 DEF TableSound, HtUsed, HtGet, Capacity
<1> HIDE DEF U, u
<1>5. TablesSound(U)
  BY <1>2, <1>3 DEF TablesSound
<1>6. p \in NamesOf(T, o)
  BY <1>4, NamesAre
<1>7. ASSUME NEW q \in Nat \ {0}
      PROVE  NamesOf(U, q) = IF q = o THEN NamesOf(T, q) \ {p} ELSE NamesOf(T, q)
  <2>1. \A x : x \in NamesOf(U, q) <=> \E j \in DOMAIN T : \E g : x = <<j, g>> /\ HtGet(U[j], g) = q
    BY <1>3, NamesAre
  <2>2. \A x : x \in NamesOf(T, q) <=> \E j \in DOMAIN T : \E g : x = <<j, g>> /\ HtGet(T[j], g) = q
    BY NamesAre
  <2>3. \A j \in DOMAIN T : \A g :
          HtGet(U[j], g) = IF j = k /\ g = h THEN 0 ELSE HtGet(T[j], g)
    BY <1>2, <1>3
  <2> HIDE DEF o
  <2>4. \A j \in DOMAIN T : \A g : HtGet(U[j], g) = q <=> ~(j = k /\ g = h) /\ HtGet(T[j], g) = q
    BY <2>3
  <2>5. \A x : x \in NamesOf(U, q) <=> x # p /\ x \in NamesOf(T, q)
    BY <2>1, <2>2, <2>4
  <2>6. q # o => p \notin NamesOf(T, q)
    BY <2>2 DEF o
  <2> QED BY <2>5, <2>6
<1> QED BY <1>3, <1>4, <1>5, <1>6, <1>7 DEF U

-----------------------------------------------------------------------------
\* References and names of the objects of a state.
Counted(T, R, n) ==
    \A o \in 1 .. n : IsFiniteSet(NamesOf(T, o)) /\ R[o] = Cardinality(NamesOf(T, o))

\* The strengthened invariant of the SDL bindings: every table can be used, and what is not an
\* object has no name.
SdlInv ==
    /\ lib = "sdl" /\ misused = {}
    /\ DOMAIN tab = {"joystickA", "joystickB", "gamepadA", "streamA"} /\ TablesSound(tab)
    /\ refs \in Seq(Nat)
    /\ Counted(tab, refs, Len(refs))
    /\ \A q \in Nat : q > Len(refs) => NamesOf(tab, q) = {}

\* The tables are as ht_init leaves them, and SDL has opened nothing.
LEMMA SdlInvInit == SdlInit => SdlInv
<1> SUFFICES ASSUME SdlInit PROVE SdlInv
  OBVIOUS
<1>1. lib = "sdl" /\ misused = {} /\ refs = <<>> /\ (Nothing(SdlKinds) \/ OneOfEach(SdlKinds))
  BY DEF SdlInit, ObjectsInit
<1>2. ~OneOfEach(SdlKinds)
  <2>1. Len(SdlKinds) = 4
    BY DEF SdlKinds
  <2>2. OneOfEach(SdlKinds) => refs = [i \in 1 .. 4 |-> 1]
    BY <2>1 DEF OneOfEach
  <2>3. DOMAIN [i \in 1 .. 4 |-> 1] = 1 .. 4 /\ 1 \in 1 .. 4 /\ DOMAIN refs = {}
    BY <1>1
  <2> QED BY <2>2, <2>3
<1>3. tab = [k \in ToSet(SdlKinds) |-> HtInit(1)]
  BY <1>1, <1>2 DEF Nothing
<1>4. ToSet(SdlKinds) = {"joystickA", "joystickB", "gamepadA", "streamA"}
  BY DEF ToSet, SdlKinds
<1>5. DOMAIN tab = {"joystickA", "joystickB", "gamepadA", "streamA"}
        /\ \A k \in DOMAIN tab : tab[k] = HtInit(1)
  BY <1>3, <1>4
<1>6. TablesSound(tab) /\ \A k \in DOMAIN tab : \A h : HtGet(tab[k], h) = 0
  BY <1>5, InitIsSound DEF TablesSound
<1>7. \A q \in Nat \ {0} : NamesOf(tab, q) = {}
  BY <1>6, NamesAre
<1>8. refs \in Seq(Nat) /\ Len(refs) = 0 /\ 1 .. Len(refs) = {}
  BY <1>1
<1> QED BY <1>1, <1>5, <1>6, <1>7, <1>8 DEF SdlInv, Counted

\* An object that has a name has a reference.
LEMMA NamedLives ==
    ASSUME SdlInv, NEW k \in DOMAIN tab, NEW h \in HtUsed(tab[k])
    PROVE  HtGet(tab[k], h) \in 1 .. Len(refs) /\ refs[HtGet(tab[k], h)] > 0
<1> DEFINE o == HtGet(tab[k], h)
<1>1. o \in Nat \ {0} /\ <<k, h>> \in NamesOf(tab, o)
  BY NamesShrink DEF SdlInv
<1> HIDE DEF o
<1>2. o \in 1 .. Len(refs)
  BY <1>1 DEF SdlInv
<1>3. IsFiniteSet(NamesOf(tab, o)) /\ refs[o] = Cardinality(NamesOf(tab, o)) /\ NamesOf(tab, o) # {}
  BY <1>1, <1>2 DEF SdlInv, Counted
<1>4. Cardinality(NamesOf(tab, o)) \in Nat /\ Cardinality(NamesOf(tab, o)) # 0
  BY <1>3, FS_CardinalityType, FS_EmptySet
<1> QED BY <1>2, <1>3, <1>4 DEF o

\* SDL_CreateAudioStream, or a device that nobody has open.
LEMMA NewPadKeeps ==
    ASSUME SdlInv, NEW k \in DOMAIN tab, NEW d, NewPad(k, d), UNCHANGED lib
    PROVE  SdlInv'
<1> DEFINE o == Len(refs) + 1
           U == Filled(tab, k, o)
           p == <<k, HtNext(tab[k])>>
<1>1. refs' = Append(refs, 1) /\ tab' = U /\ misused' = misused
  <2>1. refs \in Seq(Nat) /\ Len(Append(refs, 1)) = Len(refs) + 1
    BY DEF SdlInv
  <2> QED BY <2>1 DEF NewPad, Become, List, Create, Newest, Present, Filled
<1>2. o \in Nat \ {0} /\ Len(refs) \in Nat
  BY DEF SdlInv
<1>3. refs' \in Seq(Nat) /\ Len(refs') = o /\ refs'[o] = 1 /\ \A i \in 1 .. Len(refs) : refs'[i] = refs[i]
  BY <1>1, <1>2, AppendProperties DEF SdlInv
<1> HIDE DEF o
<1>4. /\ TablesSound(U) /\ DOMAIN U = DOMAIN tab /\ p \notin NamesOf(tab, o)
      /\ \A q \in Nat \ {0} : NamesOf(U, q) = IF q = o THEN NamesOf(tab, q) \cup {p} ELSE NamesOf(tab, q)
  <2>1. TablesSound(tab)
    BY DEF SdlInv
  <2> QED BY <1>2, <2>1, NamesGrow
<1> HIDE DEF U, p
<1>5. NamesOf(U, o) = {p}
  <2>1. o > Len(refs)
    BY <1>2 DEF o
  <2> QED BY <1>2, <1>4, <2>1 DEF SdlInv
<1>6. IsFiniteSet({p}) /\ Cardinality({p}) = 1
  BY FS_Singleton
<1>7. \A i \in 1 .. o : i = o \/ (i \in 1 .. Len(refs) /\ i # o /\ i \in Nat \ {0})
  BY <1>2 DEF o
<1>8. Counted(tab', refs', Len(refs'))
  BY <1>1, <1>3, <1>4, <1>5, <1>6, <1>7 DEF SdlInv, Counted
<1>9. \A q \in Nat : q > Len(refs') => NamesOf(tab', q) = {}
  <2>1. \A q \in Nat : q > o => q # o /\ q # 0 /\ q > Len(refs)
    BY <1>2 DEF o
  <2> QED BY <1>1, <1>3, <1>4, <2>1 DEF SdlInv
<1> QED BY <1>1, <1>3, <1>4, <1>8, <1>9 DEF SdlInv

\* SDL_OpenJoystick and SDL_OpenGamepad of a device that is open: one reference more.
LEMMA RetainKeeps ==
    ASSUME SdlInv, NEW k \in DOMAIN tab, NEW o \in 1 .. Len(refs), refs[o] > 0,
           Become(List(Retain(Present, o), k, o)), UNCHANGED lib
    PROVE  SdlInv'
<1> DEFINE U == Filled(tab, k, o)
           p == <<k, HtNext(tab[k])>>
<1>1. o \in Nat \ {0} /\ o # 0 /\ refs \in Seq(Nat) /\ refs[o] # 0
  BY DEF SdlInv
<1>2. refs' = [refs EXCEPT ![o] = @ + 1] /\ tab' = U
        /\ misused' = misused \cup {x \in {o} \ {0} : refs[x] = 0}
  BY <1>1 DEF Become, List, Retain, Pass, Present, Filled
<1>3. misused' = {}
  BY <1>1, <1>2 DEF SdlInv
<1>4. refs' \in Seq(Nat) /\ Len(refs') = Len(refs) /\ refs'[o] = refs[o] + 1
        /\ \A i \in 1 .. Len(refs) : i # o => refs'[i] = refs[i]
  BY <1>1, <1>2
<1>5. /\ TablesSound(U) /\ DOMAIN U = DOMAIN tab /\ p \notin NamesOf(tab, o)
      /\ \A q \in Nat \ {0} : NamesOf(U, q) = IF q = o THEN NamesOf(tab, q) \cup {p} ELSE NamesOf(tab, q)
  <2>1. TablesSound(tab)
    BY DEF SdlInv
  <2> QED BY <1>1, <2>1, NamesGrow
<1> HIDE DEF U, p
<1>6. IsFiniteSet(NamesOf(U, o)) /\ Cardinality(NamesOf(U, o)) = refs[o] + 1
  BY <1>1, <1>5, FS_AddElement DEF SdlInv, Counted
<1>7. Counted(tab', refs', Len(refs'))
  <2>1. \A i \in 1 .. Len(refs) : i \in Nat \ {0}
    BY <1>1
  <2> QED BY <1>2, <1>4, <1>5, <1>6, <2>1 DEF SdlInv, Counted
<1>8. \A q \in Nat : q > Len(refs') => NamesOf(tab', q) = {}
  <2>1. \A q \in Nat : q > Len(refs) => q # o /\ q # 0
    BY <1>1
  <2> QED BY <1>2, <1>4, <1>5, <2>1 DEF SdlInv
<1> QED BY <1>2, <1>3, <1>4, <1>5, <1>7, <1>8 DEF SdlInv

\* SDL_CloseJoystick, SDL_CloseGamepad, SDL_DestroyAudioStream.
LEMMA ClosedKeeps ==
    ASSUME SdlInv, NEW k \in DOMAIN tab, NEW h \in HtUsed(tab[k]), Closed(k, h), UNCHANGED lib
    PROVE  SdlInv'
<1> DEFINE U == Emptied(tab, k, h)
           o == HtGet(tab[k], h)
           p == <<k, h>>
<1>1. o \in 1 .. Len(refs) /\ refs[o] > 0
  BY NamedLives
<1>2. /\ TablesSound(U) /\ DOMAIN U = DOMAIN tab /\ p \in NamesOf(tab, o)
      /\ \A q \in Nat \ {0} : NamesOf(U, q) = IF q = o THEN NamesOf(tab, q) \ {p} ELSE NamesOf(tab, q)
  <2>1. TablesSound(tab)
    BY DEF SdlInv
  <2> QED BY <2>1, NamesShrink
<1>3. refs \in Seq(Nat) /\ o \in Nat \ {0} /\ o # 0 /\ refs[o] # 0
  BY <1>1 DEF SdlInv
<1>4. refs' = [refs EXCEPT ![o] = IF @ = 0 THEN 0 ELSE @ - 1] /\ tab' = U
        /\ misused' = misused \cup {x \in {o} \ {0} : refs[x] = 0}
  <2>1. Become(Unlist(Release(Present, o), k, h))
    BY DEF Closed, Dropped, Present
  <2> HIDE DEF o
  <2> QED BY <1>3, <2>1 DEF Become, Unlist, Release, Pass, Present, Emptied
<1> HIDE DEF U, o, p
<1>5. misused' = {}
  BY <1>3, <1>4 DEF SdlInv
<1>6. refs' \in Seq(Nat) /\ Len(refs') = Len(refs) /\ refs'[o] = refs[o] - 1
        /\ \A i \in 1 .. Len(refs) : i # o => refs'[i] = refs[i]
  BY <1>1, <1>3, <1>4
<1>7. IsFiniteSet(NamesOf(U, o)) /\ Cardinality(NamesOf(U, o)) = refs[o] - 1
  BY <1>1, <1>2, <1>3, FS_RemoveElement DEF SdlInv, Counted
<1>8. Counted(tab', refs', Len(refs'))
  <2>1. \A i \in 1 .. Len(refs) : i \in Nat \ {0}
    BY <1>3
  <2> QED BY <1>2, <1>4, <1>6, <1>7, <2>1 DEF SdlInv, Counted
<1>9. \A q \in Nat : q > Len(refs') => NamesOf(tab', q) = {}
  <2>1. \A q \in Nat : q > Len(refs) => q # o /\ q # 0
    BY <1>1, <1>3
  <2> QED BY <1>2, <1>4, <1>6, <2>1 DEF SdlInv
<1> QED BY <1>2, <1>4, <1>5, <1>6, <1>8, <1>9 DEF SdlInv

\* The calls that only use an object: its handle resolves, so SDL has it.
LEMMA SdlUseKeeps ==
    ASSUME SdlInv, SdlUse
    PROVE  SdlInv'
<1>1. PICK c \in JoystickCalls \cup GamepadCalls \cup StreamCalls : UseCall(c)
  BY DEF SdlUse
<1>2. \E k \in DOMAIN tab : c.needs = <<k>> /\ c.opts = <<>>
  BY DEF JoystickCalls, GamepadCalls, StreamCalls, Uses, Row, SdlInv
<1>3. PICK k \in DOMAIN tab : c.needs = <<k>> /\ c.opts = <<>>
  BY <1>2
<1>4. PICK a \in ArgsFor(c.needs), w \in OptsFor(c.opts) : misused' = Given(c, a, w).misused
  BY <1>1 DEF UseCall
<1>5. UNCHANGED <<lib, tab, refs>>
  BY <1>1 DEF UseCall
<1>6. Objects(c.needs, a) \cup Objects(c.opts, w) = {HtGet(tab[k], a[1])}
  BY <1>3 DEF Objects
<1>7. a[1] \in HtUsed(tab[k])
  BY <1>3 DEF ArgsFor, Resolving
<1>8. refs[HtGet(tab[k], a[1])] # 0
  BY <1>7, NamedLives DEF SdlInv
<1>9. misused' = {}
  BY <1>4, <1>6, <1>8 DEF Given, Pass, Present, SdlInv
<1> QED BY <1>5, <1>9 DEF SdlInv, Counted

\* Every call of either guest.
LEMMA SdlInvStep == SdlInv /\ [SdlNext]_<<objVars, pad>> => SdlInv'
<1> SUFFICES ASSUME SdlInv, [SdlNext]_<<objVars, pad>> PROVE SdlInv'
  OBVIOUS
<1>1. CASE SdlUse
  BY <1>1, SdlUseKeeps
<1>2. CASE CreateStream
  <2>1. "streamA" \in DOMAIN tab
    BY DEF SdlInv
  <2> QED BY <1>2, <2>1, NewPadKeeps DEF CreateStream
<1>3. CASE CloseObject
  BY <1>3, ClosedKeeps DEF CloseObject
<1>4. ASSUME NEW k \in {"joystickA", "joystickB", "gamepadA"}, NEW d \in Pads, OpenPad(k, d)
      PROVE  SdlInv'
  <2>1. k \in DOMAIN tab
    BY DEF SdlInv
  <2>2. CASE OpenObject(SdlClass(k), d) = {}
    BY <1>4, <2>1, <2>2, NewPadKeeps DEF OpenPad
  <2>3. CASE OpenObject(SdlClass(k), d) # {}
    <3>1. PICK o \in OpenObject(SdlClass(k), d) : Become(List(Retain(Present, o), k, o))
      BY <1>4, <2>3 DEF OpenPad
    <3>2. o \in 1 .. Len(refs) /\ refs[o] > 0 /\ UNCHANGED lib
      BY <1>4 DEF OpenObject, OpenPad
    <3> QED BY <2>1, <3>1, <3>2, RetainKeeps
  <2> QED BY <2>2, <2>3
<1>5. CASE UNCHANGED <<objVars, pad>>
  BY <1>5 DEF objVars, SdlInv, Counted
<1> QED BY <1>1, <1>2, <1>3, <1>4, <1>5 DEF SdlNext

\* PadsAreCounted for any number of devices and calls: SDL's count of a joystick, gamepad or
\* stream is the number of handles that name it, in all guests, and no guest's call reaches one
\* that was closed.
THEOREM PadsAlwaysCounted == SdlSpec => []PadsAreCounted
<1>1. SdlInit => SdlInv
  BY SdlInvInit
<1>2. SdlInv /\ [SdlNext]_<<objVars, pad>> => SdlInv'
  BY SdlInvStep
<1>3. SdlInv => PadsAreCounted
  BY DEF SdlInv, Counted, PadsAreCounted
<1> QED BY <1>1, <1>2, <1>3, PTL DEF SdlSpec
=============================================================================
