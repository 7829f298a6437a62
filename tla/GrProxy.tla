------------------------------ MODULE GrProxy ------------------------------
(***************************************************************************)
(* The dashboard's calls on a group's registrar: the host functions of     *)
(* dashboard_runtime.c that a dashboard app imports, and the dashboard_gr_ *)
(* proxies behind them.                                                    *)
(*                                                                         *)
(* A host function checks its pointers against the guest's linear memory,  *)
(* with the lengths of the Host tables below; the proxy then reads or      *)
(* writes records of the lengths of the Proxy tables.  A list call takes   *)
(* the registrar's lock twice, once to count and once to list, and in      *)
(* between the group's client threads may merge what other members did.    *)
(*                                                                         *)
(* Texts, blobs and images are checked with the very length the guest      *)
(* gives and are left out.  Lengths are those of the code; the width of a  *)
(* uint32_t is a parameter, because a page of 2^32 bytes is out of reach.  *)
(***************************************************************************)
EXTENDS Integers, FiniteSets, Functions

CONSTANTS WordBits,     \* bound: width of uint32_t, scaled down
          MemSize,      \* bytes of guest memory
          Caps, Outs,   \* capacities and addresses a guest passes
          MaxRows,      \* bound: rows of one kind
          MaxMerges     \* bound: merges during one call

ASSUME ProxyAssumption ==
    /\ {WordBits, MemSize, MaxRows, MaxMerges} \subseteq Nat
    /\ Caps \subseteq Nat /\ Outs \subseteq Nat
    /\ MemSize <= 2 ^ WordBits

VARIABLES watched,   \* the list this behaviour calls; the others do not interact with it
          rows,      \* registrar: how many rows that list has
          online,    \* the group has a client
          req,       \* the list call between its count and its list
          merges,    \* merges during that call
          seen,      \* history: row counts during the call
          shrunk,    \* history: a merge took a row away during the call
          ret        \* the call that returned last

proxyVars == <<watched, rows, online, req, merges, seen, shrunk, ret>>

----------------------------------------------------------------------------
(* What the host functions check, in bytes per record.                     *)

PeerHost == [peer_kick |-> 32, peer_ban |-> 32, peer_touch |-> 32, peer_set_role |-> 32,
             peer_get |-> 280, peer_list |-> 280, peer_is_authorized |-> 32]
RoleHost == [role_get |-> 152, role_list |-> 152, role_add |-> 4]
WebappHost == [webapp_add |-> 304, webapp_remove |-> 128, webapp_is_authorized |-> 128,
               webapp_list |-> 304]
ServerHost == [server_add |-> 4480, server_remove |-> 128, server_list |-> 4480]
PolicyHost == [retention_get |-> 24, retention_set |-> 24]
IconHost == [icon_get |-> 248, icon_hash |-> 128]
InviteHost == [invite_create |-> 128, invite_invalidate |-> 128, invite_check |-> 128,
               invite_list |-> 216, invite_parse |-> 312]
AuditHost == [audit_list |-> 600, audit_verify_chain |-> 32, audit_list_forks |-> 1544]

\* A mutant: the snapshot is taken for the sum of four of its five parts
ShortBehaviorHost == [actor_burst |-> 32, mutation_rate |-> 24, admin_score |-> 32,
                      peer_churn |-> 32, delta_score |-> 40, stale_peers |-> 32,
                      epoch_pattern |-> 24, network_score |-> 32, snapshot |-> 144,
                      get_config |-> 40, set_config |-> 40]
BehaviorHost == [actor_burst |-> 32, mutation_rate |-> 24, admin_score |-> 32,
                 peer_churn |-> 32, delta_score |-> 40, stale_peers |-> 32,
                 epoch_pattern |-> 24, network_score |-> 32, snapshot |-> 200,
                 get_config |-> 40, set_config |-> 40]
\* the address is copied with its own length, which must be below 64
BlocklistHost == [blocklist_check |-> 63, blocklist_record_fail |-> 63, blocklist_reset |-> 63]

(* What the proxies and their marshallers read or write, in bytes.         *)

PeerProxy == [peer_kick |-> 32, peer_ban |-> 32, peer_touch |-> 32, peer_set_role |-> 32,
              peer_get |-> 280, peer_list |-> 152 + 128, peer_is_authorized |-> 32]
RoleProxy == [role_get |-> 152, role_list |-> 24 + 128, role_add |-> 4]
WebappProxy == [webapp_add |-> 176 + 128, webapp_remove |-> 128, webapp_is_authorized |-> 128,
                webapp_list |-> 176 + 128]
ServerProxy == [server_add |-> 2912 + 1568, server_remove |-> 128, server_list |-> 2912 + 1568]
PolicyProxy == [retention_get |-> 3 * 8, retention_set |-> 3 * 8]
IconProxy == [icon_get |-> 184 + 64, icon_hash |-> 128]
InviteProxy == [invite_create |-> 128, invite_invalidate |-> 128, invite_check |-> 128,
                invite_list |-> 212 + 4, invite_parse |-> 184 + 128]
AuditProxy == [audit_list |-> 344 + 256, audit_verify_chain |-> 28 + 4,
               audit_list_forks |-> 136 + 8 * 176]
BehaviorRecords == [actor_burst |-> 32, mutation_rate |-> 24, admin_score |-> 32,
                    peer_churn |-> 32, delta_score |-> 40, epoch_pattern |-> 24,
                    network_score |-> 32, config |-> 40]
BehaviorProxy == [actor_burst |-> BehaviorRecords.actor_burst,
                  mutation_rate |-> BehaviorRecords.mutation_rate,
                  admin_score |-> BehaviorRecords.admin_score,
                  peer_churn |-> BehaviorRecords.peer_churn,
                  delta_score |-> BehaviorRecords.delta_score, stale_peers |-> 32,
                  epoch_pattern |-> BehaviorRecords.epoch_pattern,
                  network_score |-> BehaviorRecords.network_score,
                  snapshot |-> 192 + 8,
                  get_config |-> BehaviorRecords.config, set_config |-> BehaviorRecords.config]
BlocklistProxy == [blocklist_check |-> 63, blocklist_record_fail |-> 63, blocklist_reset |-> 63]

Union(f, g) == [x \in DOMAIN f \cup DOMAIN g |-> IF x \in DOMAIN f THEN f[x] ELSE g[x]]
All(a, b, c, d, e, f, g, h, i, j) ==
    Union(a, Union(b, Union(c, Union(d, Union(e, Union(f, Union(g, Union(h, Union(i, j)))))))))
Checked == All(PeerHost, RoleHost, WebappHost, ServerHost, PolicyHost, IconHost, InviteHost,
               AuditHost, BehaviorHost, BlocklistHost)
Touched == All(PeerProxy, RoleProxy, WebappProxy, ServerProxy, PolicyProxy, IconProxy, InviteProxy,
               AuditProxy, BehaviorProxy, BlocklistProxy)

\* the list calls, and the rows each of them counts
CountedLists == {"peer_list", "role_list", "webapp_list", "server_list", "invite_list", "audit_list"}
DirectLists == {"stale_peers", "audit_list_forks"}
Lists == CountedLists \cup DirectLists
Singles == DOMAIN Checked \ Lists

\* calls that change the registrar, and how many rows of which list they add
Effect == [peer_kick |-> <<"peer_list", -1>>, peer_ban |-> <<"peer_list", -1>>,
           role_add |-> <<"role_list", 1>>, webapp_add |-> <<"webapp_list", 1>>,
           webapp_remove |-> <<"webapp_list", -1>>, server_add |-> <<"server_list", 1>>,
           server_remove |-> <<"server_list", -1>>, invite_create |-> <<"invite_list", 1>>]

----------------------------------------------------------------------------
Wrap(n) == n % 2 ^ WordBits
NoReq == [call |-> "none", out |-> 0, cap |-> 0, total |-> 0]
NoRet == [call |-> "none", value |-> 0, out |-> 0, cap |-> 0, wrote |-> 0, wrapped |-> FALSE,
          seen |-> {}, shrunk |-> FALSE]
Free == req = NoReq
Ready == Free /\ ret = NoRet

\* ipc_mem_check: the sum is a size_t and does not wrap
MemCheck(ptr, len) == ptr + len <= MemSize

Answer1(c, v, out, cap, wrote) ==
    ret' = [call |-> c, value |-> v, out |-> out, cap |-> cap, wrote |-> wrote,
            wrapped |-> Wrap(cap * Touched[c]) # cap * Touched[c],
            seen |-> seen', shrunk |-> shrunk']

\* a call on a single record: no group, no client, a bad pointer: -1; the
\* registrar may refuse for its own reasons
Single(c, out) ==
    /\ Ready
    /\ seen' = {} /\ shrunk' = FALSE
    /\ \/ /\ ~(online /\ MemCheck(out, Checked[c]))
          /\ Answer1(c, -1, out, 1, 0)
          /\ UNCHANGED rows
       \/ /\ online /\ MemCheck(out, Checked[c])
          /\ \/ Answer1(c, -1, out, 1, 0) /\ UNCHANGED rows
             \/ /\ Answer1(c, 0, out, 1, 1)
                /\ IF c \in DOMAIN Effect /\ Effect[c][1] = watched
                     THEN rows' = rows + Effect[c][2] /\ rows' \in 0 .. MaxRows
                     ELSE UNCHANGED rows
    /\ UNCHANGED <<watched, online, req, merges>>

Min2(a, b) == IF a < b THEN a ELSE b

\* the first half of a list call: the pointer check, whose product wraps, and the
\* count; without a buffer the count is the answer
ListBegin(c, out, cap) ==
    /\ Ready /\ c = watched
    /\ shrunk' = FALSE
    /\ IF ~online \/ (out # 0 /\ cap # 0 /\ ~MemCheck(out, Wrap(cap * Checked[c])))
         THEN seen' = {} /\ Answer1(c, -1, out, cap, 0) /\ UNCHANGED req
         ELSE IF out = 0 \/ cap = 0
         THEN /\ seen' = {rows}
              /\ Answer1(c, IF c \in DirectLists THEN -1 ELSE rows, out, cap, 0)
              /\ UNCHANGED req
         ELSE /\ seen' = {rows}
              /\ req' = [call |-> c, out |-> out, cap |-> cap, total |-> rows]
              /\ UNCHANGED ret
    /\ merges' = 0
    /\ UNCHANGED <<watched, rows, online>>

ToCopy(cap, total) == Min2(cap, total)
Reported(c, total, got) == IF c \in DirectLists \cup {"audit_list"} THEN got ELSE total

\* the second half: the list, limited by the buffer that was allocated
ListEnd ==
    LET want == IF req.call \in DirectLists THEN req.cap ELSE ToCopy(req.cap, req.total)
        got == Min2(want, rows)
    IN  /\ ~Free
        /\ UNCHANGED <<watched, rows, online, merges, seen, shrunk>>
        /\ Answer1(req.call, Reported(req.call, req.total, got), req.out, req.cap, got)
        /\ req' = NoReq

\* a client thread merges a delta of another member, under the registrar's lock
Merge(n) ==
    /\ online /\ n # rows /\ ret = NoRet
    /\ rows' = n
    /\ ~Free => merges < MaxMerges
    /\ merges' = IF Free THEN 0 ELSE merges + 1
    /\ seen' = IF Free THEN {} ELSE seen \cup {n}
    /\ shrunk' = (~Free /\ (shrunk \/ n < rows))
    /\ UNCHANGED <<watched, online, req, ret>>

\* the guest has looked at the answer
Taken ==
    /\ ret # NoRet
    /\ ret' = NoRet /\ seen' = {} /\ shrunk' = FALSE
    /\ UNCHANGED <<watched, rows, online, req, merges>>

\* dashboard_connect_group, dashboard_disconnect_group: the same thread
OpenOrClose ==
    /\ Ready /\ online' = ~online
    /\ UNCHANGED <<watched, rows, req, merges, seen, shrunk, ret>>

ProxyInit ==
    /\ watched \in Lists /\ rows \in 0 .. MaxRows
    /\ online = FALSE /\ req = NoReq /\ merges = 0
    /\ seen = {} /\ shrunk = FALSE /\ ret = NoRet

ProxyNext ==
    \/ \E c \in Singles, out \in Outs : Single(c, out)
    \/ \E c \in Lists, out \in Outs, cap \in Caps : ListBegin(c, out, cap)
    \/ ListEnd \/ Taken
    \/ \E n \in 0 .. MaxRows : Merge(n)
    \/ OpenOrClose

ProxySpec == ProxyInit /\ [][ProxyNext]_proxyVars

----------------------------------------------------------------------------
(* Properties.                                                             *)

ProxyTypeOK ==
    /\ watched \in Lists /\ rows \in 0 .. MaxRows
    /\ req.call \in Lists \cup {"none"}
    /\ ret.call \in DOMAIN Touched \cup {"none"}
    /\ merges \in 0 .. MaxMerges

\* What a call reads or writes in guest memory lies inside it: the length each
\* host function checks covers what its proxy and marshaller touch, record by
\* record, as long as capacity times record size fits a uint32_t.
StaysInMemory ==
    ret.wrote > 0 /\ ~ret.wrapped => ret.out + ret.wrote * Touched[ret.call] <= MemSize

\* The total a list call reports was the number of rows at some moment of the
\* call, although it counts and lists under two separate locks.
TotalWasTrue ==
    ret.call \in CountedLists \ {"audit_list"} /\ ret.value >= 0 => ret.value \in ret.seen

\* A list call fills the buffer as far as its own total allows, unless a row
\* was taken away between the count and the list.
ShortOnlyIfShrunk ==
    ret.call \in CountedLists /\ ret.value >= 0 /\ ret.out # 0 /\ ret.wrote < Min2(ret.cap, ret.value) =>
        ret.shrunk

\* The registrar calls of an app stay inside its memory, and a list call's total and rows are
\* those of some moment although it locks twice.
ProxySound == ProxyTypeOK /\ StaysInMemory /\ TotalWasTrue /\ ShortOnlyIfShrunk
=============================================================================
