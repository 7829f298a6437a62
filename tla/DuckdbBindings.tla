--------------------------- MODULE DuckdbBindings ---------------------------
(***************************************************************************)
(* duckdb_bindings.c: a web app's database.  A statement passes a gate     *)
(* (kinds of statement that are refused, a quota of disk space for those   *)
(* that write) and gives a result; a result is read chunk by chunk or cell *)
(* by cell, both from one list of chunks fetched so far; rows are also     *)
(* written through appenders, which buffer them.                           *)
(*                                                                         *)
(* Rows are counted, not stored, and a row takes one unit of disk.  DuckDB *)
(* is external: what a statement returns and how much it writes is free.   *)
(***************************************************************************)
EXTENDS HostObjects

CONSTANTS Shapes,     \* the chunk sizes of the results that occur
          Quotas      \* the quotas the dashboard sets, 0: no limit

VARIABLES info,       \* of each object: what the host keeps about it
          disk,       \* size of the database files
          quota,      \* quota_bytes
          lastError,  \* last_error is set
          ddbEnded,   \* the bindings are destroyed
          \* history
          ran,        \* forbidden statements given to DuckDB
          exempt,     \* of the last step: the quota was not looked at before or after
          early       \* a result was destroyed before a view into it

ddbVars == <<info, disk, quota, lastError, ddbEnded, ran, exempt, early>>

DdbKinds == <<"result", "chunk", "prepared", "appender", "table_desc", "extracted">>

\* what is kept per object; one record for all kinds
Plain == [sizes |-> <<>>, fetched |-> 0, all |-> FALSE, synthetic |-> FALSE,  \* ResultWrap
          of |-> 0, at |-> 0,                                                 \* ChunkWrap
          type |-> "none",                                                    \* prepared statement
          rows |-> 0, open |-> FALSE,                                         \* appender
          seen |-> <<>>, jumped |-> FALSE]   \* history: chunks fetch_chunk gave; others forced a fetch

----------------------------------------------------------------------------
(* Statements and the gate.                                                *)

Types == {"select", "execute", "insert", "copy"}

\* alone: it can be prepared before the statements ahead of it have run
Statements == [type : Types, alone : BOOLEAN]
Texts == {<<>>} \cup {<<s>> : s \in Statements} \cup {<<s, t>> : s, t \in Statements}

is_forbidden_stmt(t) == t = "copy"
is_writer_stmt(t) == t = "insert"

\* classify_sql: what cannot be prepared counts as a writer
Forbidden(q) == \E i \in 1 .. Len(q) : q[i].alone /\ is_forbidden_stmt(q[i].type)
Writer(q) == \E i \in 1 .. Len(q) : ~q[i].alone \/ is_writer_stmt(q[i].type)

quota_exceeded(used, limit) == limit # 0 /\ used >= limit

\* the check after a write: the overshoot stays, and the guest is told
Noted(used) == lastError \/ quota_exceeded(used, quota)

\* what running q may add to the files; deleting rows gives some back
Growth(q) ==
    IF \E i \in 1 .. Len(q) : q[i].type = "insert" THEN {-1, 0, 1}
    ELSE IF \E i \in 1 .. Len(q) : q[i].type = "execute" THEN {0, 1} ELSE {0}
Grown(g) == IF disk + g < 0 THEN 0 ELSE disk + g

\* bounds: sizes on disk count where appenders take part, rows where chunks do
Growths(q) == IF "appender" \in DOMAIN tab THEN Growth(q) ELSE {0}
Returned == IF "chunk" \in DOMAIN tab THEN Shapes ELSE {<<>>}

----------------------------------------------------------------------------
(* Objects.                                                                *)

DdPresent == [tab |-> tab, refs |-> refs, misused |-> misused, info |-> info]
DdBecome(s) == Become(s) /\ info' = s.info

DdMake(s, k, rec) ==
    LET n == Create(s) IN [List(n, k, Newest(n)) EXCEPT !.info = Append(@, rec)]

\* rw_new_synthetic: a result that only carries an error
Synthetic == [Plain EXCEPT !.synthetic = TRUE, !.all = TRUE]
Result(sizes) == [Plain EXCEPT !.sizes = sizes]

Keep == UNCHANGED <<lib, quota, ddbEnded>>
NothingRan == exempt' = {} /\ UNCHANGED <<disk, ran>>

\* the guest is told through the result and through last_error
Reject == /\ DdBecome(DdMake(DdPresent, "result", Synthetic))
          /\ lastError' = TRUE
          /\ NothingRan

\* the statements run; a writer's overshoot is noted afterwards
Run(q, writer) ==
    /\ \E g \in Growths(q), z \in Returned :
         /\ disk' = Grown(g)
         /\ exempt' = IF writer THEN {} ELSE {"before", "after"}
         /\ lastError' = IF writer THEN Noted(Grown(g)) ELSE lastError
         /\ DdBecome(DdMake(DdPresent, "result", Result(z)))
    /\ ran' = ran \cup {s \in ToSet(q) : is_forbidden_stmt(s.type)}

Query ==
    /\ "result" \in DOMAIN tab
    /\ Spend
    /\ \E q \in Texts :
         IF q = <<>> \/ Forbidden(q) \/ (Writer(q) /\ quota_exceeded(disk, quota))
         THEN Reject ELSE Run(q, Writer(q))
    /\ Keep /\ UNCHANGED early

----------------------------------------------------------------------------
(* Results and chunks.                                                     *)

\* rw_fetch_one, rw_ensure_chunk, rw_materialize_all: n chunks or all there are
Fetched(r, n) ==
    LET m == IF n <= Len(r.sizes) THEN n ELSE Len(r.sizes)
    IN  IF n <= r.fetched THEN r
        ELSE [r EXCEPT !.fetched = m, !.all = @ \/ n > Len(r.sizes)]

\* chunk_row_offsets: the rows before chunk i, counted from 0
Offset(r, i) == FoldLeft(LAMBDA a, b : a + b, 0, SubSeq(r.sizes, 1, i))

AtOrBefore(r, mid, row) == Offset(r, mid) <= row

\* rw_locate: the binary search for the chunk of a row
Locate(r, row) ==
    LET search[lo \in 0 .. Len(r.sizes), hi \in 0 .. Len(r.sizes)] ==
          IF lo + 1 >= hi THEN lo
          ELSE LET mid == (lo + hi) \div 2
               IN  IF AtOrBefore(r, mid, row) THEN search[mid, hi] ELSE search[lo, mid]
        ci == search[0, Len(r.sizes)]
    IN  [chunk |-> ci, at |-> row - Offset(r, ci)]

\* a result whose accessors answer: a synthetic one is hidden from them
Readable == {h \in HtUsed(tab["result"]) : ~info[tab["result"].slots[h]].synthetic}

\* a view of chunk i (counted from 1) of result o
View(s, o, i) == DdMake(s, "chunk", [Plain EXCEPT !.of = o, !.at = i])

ChunkKeep == Keep /\ NothingRan /\ UNCHANGED <<lastError, early>>

FetchChunk ==
    /\ "chunk" \in DOMAIN tab
    /\ Spend
    /\ \E h \in Readable :
         LET o == tab["result"].slots[h]
             r == Fetched(info[o], info[o].fetched + 1)
             s == [Pass(DdPresent, {o}) EXCEPT !.info[o] = [r EXCEPT !.seen = Append(@, r.fetched)]]
         IN  IF info[o].all THEN DdBecome(Pass(DdPresent, {o}))
             ELSE IF r.fetched = info[o].fetched
             THEN DdBecome([Pass(DdPresent, {o}) EXCEPT !.info[o] = r])
             ELSE DdBecome(View(s, o, r.fetched))
    /\ ChunkKeep

GetChunk ==
    /\ "chunk" \in DOMAIN tab
    /\ Spend
    /\ \E h \in Readable : \E i \in 1 .. 1 + Len(info[tab["result"].slots[h]].sizes) :
         LET o == tab["result"].slots[h]
             r == Fetched(info[o], i)
             s == [Pass(DdPresent, {o}) EXCEPT
                     !.info[o] = [r EXCEPT !.jumped = @ \/ r.fetched > info[o].fetched]]
         IN  IF i <= r.fetched THEN DdBecome(View(s, o, i)) ELSE DdBecome(s)
    /\ ChunkKeep

\* row_count and the cell accessors fetch everything first
ReadCells ==
    /\ "chunk" \in DOMAIN tab
    /\ \E h \in Readable :
         LET o == tab["result"].slots[h]
         IN  /\ ~info[o].all
             /\ DdBecome([Pass(DdPresent, {o}) EXCEPT
                            !.info[o] = [Fetched(@, Len(@.sizes) + 1) EXCEPT
                                           !.jumped = @ \/ info[o].fetched < Len(info[o].sizes)]])
    /\ UNCHANGED budget /\ ChunkKeep

\* the accessors of a chunk follow its pointer into the result
Followed(o) == {o, info[o].of}
ReadChunk ==
    /\ "chunk" \in DOMAIN tab
    /\ \E h \in HtUsed(tab["chunk"]) :
         misused' = Pass(DdPresent, Followed(tab["chunk"].slots[h])).misused
    /\ UNCHANGED <<tab, refs, info, budget>> /\ ChunkKeep

Viewed(o) == "chunk" \in DOMAIN tab /\ \E h \in HtUsed(tab["chunk"]) : info[tab["chunk"].slots[h]].of = o

DestroyResult ==
    /\ Spend
    /\ \E h \in HtUsed(tab["result"]) :
         /\ DdBecome(Dropped(DdPresent, "result", h))
         /\ early' = (early \/ Viewed(tab["result"].slots[h]))
    /\ Keep /\ NothingRan /\ UNCHANGED lastError

----------------------------------------------------------------------------
(* Objects that only come and go: rows of calls.                           *)

ChunkCalls == {Drops({"destroy_chunk"}, "chunk")}
ResultCalls == {Uses({"result_error", "column_count", "rows_changed", "column_name", "column_type",
                      "statement_type", "result_chunk_count"}, <<"result">>)}
PreparedCalls == {
    Drops({"destroy_prepare"}, "prepared"),
    Uses({"prepare_error", "nparams", "param_type", "clear_bindings"}, <<"prepared">>)}
BindCalls == {Uses({"bind_boolean .. bind_timestamp"}, <<"prepared">>)}
AppendCalls == {Uses({"appender_error", "appender_begin_row", "append_boolean .. append_timestamp"}, <<"appender">>)}
TableCalls == {
    Makes({"table_desc_create"}, <<>>, "table_desc"),
    Drops({"table_desc_destroy"}, "table_desc"),
    Uses({"table_desc_error", "column_has_default", "table_desc_column_name"}, <<"table_desc">>)}
ExtractCalls == {
    Makes({"extract_statements"}, <<>>, "extracted"),
    Drops({"destroy_extracted"}, "extracted"),
    Uses({"extract_statements_count", "extract_statements_error"}, <<"extracted">>)}

DdbCalls == UNION {ChunkCalls, ResultCalls, PreparedCalls, BindCalls, AppendCalls, TableCalls, ExtractCalls}

DdbUse == \E c \in Offered(DdbCalls) : UseCall(c) /\ UNCHANGED ddbVars
DdbChange ==
    /\ \E c \in Offered(DdbCalls) : ChangeCall(c, {})
    /\ info' = IF Len(refs') > Len(refs) THEN Append(info, Plain) ELSE info
    /\ exempt' = {} /\ UNCHANGED <<disk, quota, lastError, ddbEnded, ran, early>>

----------------------------------------------------------------------------
(* Prepared statements.                                                    *)

\* prepare lists what DuckDB returns, a failed statement too (its type is
\* none of the above); prepare_extracted lists only what succeeded
Prepare ==
    /\ "prepared" \in DOMAIN tab
    /\ Spend
    /\ \/ \E t \in Types \cup {"invalid"} : DdBecome(DdMake(DdPresent, "prepared", [Plain EXCEPT !.type = t]))
       \/ "extracted" \in DOMAIN tab /\ \E h \in HtUsed(tab["extracted"]), t \in Types :
            DdBecome(DdMake(Pass(DdPresent, {tab["extracted"].slots[h]}), "prepared", [Plain EXCEPT !.type = t]))
       \/ UNCHANGED <<tab, refs, misused, info>>
    /\ ChunkKeep

\* A mutant: the gate of fn_query only
ExecuteGateOpen(t) == is_forbidden_stmt(t)
ExecuteGate(t) == is_forbidden_stmt(t) \/ (is_writer_stmt(t) /\ quota_exceeded(disk, quota))

ExecutePrepared ==
    /\ "prepared" \in DOMAIN tab
    /\ Spend
    /\ \E h \in HtUsed(tab["prepared"]) :
         LET t == info[tab["prepared"].slots[h]].type
         IN  IF ExecuteGate(t) THEN Reject
             ELSE IF t = "invalid" THEN Run(<<>>, FALSE)
             ELSE Run(<<[type |-> t, alone |-> TRUE]>>, is_writer_stmt(t))
    /\ Keep /\ UNCHANGED early

----------------------------------------------------------------------------
(* Appenders.                                                              *)

AppenderKeep == Keep /\ UNCHANGED <<ran, early>>

\* a table that does not exist gives an appender that only has an error
AppenderCreate ==
    /\ "appender" \in DOMAIN tab
    /\ Spend
    /\ IF quota_exceeded(disk, quota)
       THEN lastError' = TRUE /\ UNCHANGED <<tab, refs, misused, info>>
       ELSE /\ \E ok \in BOOLEAN : DdBecome(DdMake(DdPresent, "appender", [Plain EXCEPT !.open = ok]))
            /\ UNCHANGED lastError
    /\ NothingRan /\ UNCHANGED <<lib, quota, ddbEnded, early>>

\* append_*, end_row: the row stays in the appender
AppendRow ==
    /\ "appender" \in DOMAIN tab
    /\ Spend
    /\ \E h \in HtUsed(tab["appender"]) :
         LET o == tab["appender"].slots[h]
         IN  info[o].open /\ DdBecome([Pass(DdPresent, {o}) EXCEPT !.info[o].rows = @ + 1])
    /\ ChunkKeep

Flush ==
    /\ "appender" \in DOMAIN tab
    /\ Spend
    /\ \E h \in HtUsed(tab["appender"]) :
         LET o == tab["appender"].slots[h]
         IN  IF quota_exceeded(disk, quota)
             THEN lastError' = TRUE /\ UNCHANGED <<disk, tab, refs, misused, info>>
             ELSE /\ disk' = disk + info[o].rows
                  /\ lastError' = Noted(disk + info[o].rows)
                  /\ DdBecome([Pass(DdPresent, {o}) EXCEPT !.info[o].rows = 0])
    /\ AppenderKeep /\ exempt' = {}

\* appender_close writes what is left, whatever the quota
CloseAppender ==
    /\ "appender" \in DOMAIN tab
    /\ Spend
    /\ \E h \in HtUsed(tab["appender"]) :
         LET o == tab["appender"].slots[h]
         IN  /\ disk' = disk + info[o].rows
             /\ lastError' = Noted(disk + info[o].rows)
             /\ DdBecome([Pass(DdPresent, {o}) EXCEPT !.info[o].rows = 0, !.info[o].open = FALSE])
    /\ AppenderKeep /\ exempt' = {"before"}

\* appender_destroy writes it too and does not look at the quota
DestroyAppender ==
    /\ "appender" \in DOMAIN tab
    /\ Spend
    /\ \E h \in HtUsed(tab["appender"]) :
         LET o == tab["appender"].slots[h]
         IN  /\ disk' = disk + info[o].rows
             /\ DdBecome([Dropped(DdPresent, "appender", h) EXCEPT !.info[o].rows = 0, !.info[o].open = FALSE])
    /\ AppenderKeep /\ exempt' = {"before", "after"} /\ UNCHANGED lastError

----------------------------------------------------------------------------
(* The rest: the error text, the dashboard's quota, the end.               *)

\* a call with a buffer takes the error, a call without only asks its length
LastError == /\ lastError /\ lastError' = FALSE /\ exempt' = {}
             /\ UNCHANGED <<lib, tab, refs, misused, budget, info, disk, quota, ddbEnded, ran, early>>

SetQuota(n) == /\ "appender" \in DOMAIN tab /\ n # quota
               /\ quota' = n /\ Spend /\ exempt' = {}
               /\ UNCHANGED <<lib, tab, refs, misused, info, disk, lastError, ddbEnded, ran, early>>

EndOrder == <<"chunk", "result", "prepared", "appender", "table_desc", "extracted">>

\* rows an appender still holds are written
LeftRows == FoldLeft(LAMBDA n, r : n + r.rows, 0, info)

DdbDestroy ==
    /\ DdBecome(FoldLeft(
          LAMBDA s, k : IF k \notin DOMAIN tab THEN s
                        ELSE FoldSet(LAMBDA h, x : Dropped(x, k, h), s, HtUsed(s.tab[k])),
          [DdPresent EXCEPT !.info = [o \in DOMAIN info |-> [info[o] EXCEPT !.rows = 0, !.open = FALSE]]],
          EndOrder))
    /\ disk' = disk + LeftRows /\ exempt' = {"before", "after"}
    /\ ddbEnded' = TRUE /\ lastError' = FALSE /\ quota' = 0 /\ budget' = 0
    /\ UNCHANGED <<lib, ran, early>>

----------------------------------------------------------------------------
DdbParked ==
    /\ info = <<>> /\ disk = 0 /\ quota = 0 /\ lastError = FALSE /\ ddbEnded = FALSE
    /\ ran = {} /\ exempt = {} /\ early = FALSE

DdbInit ==
    /\ \/ ObjectsInit("duckdb", DdbKinds, MaxCalls)
       \/ ObjectsInit("duckdb", <<"result", "prepared", "appender">>, DeepCalls - 1)
       \/ ObjectsInit("duckdb", <<"result", "chunk">>, DeepCalls - 1)
    /\ refs = <<>>
    /\ quota \in IF "appender" \in DOMAIN tab THEN Quotas ELSE {0}
    /\ info = <<>> /\ disk = 0 /\ lastError = FALSE /\ ddbEnded = FALSE
    /\ ran = {} /\ exempt = {} /\ early = FALSE

DdbNext ==
    /\ ~ddbEnded
    /\ \/ Query \/ FetchChunk \/ GetChunk \/ ReadCells \/ ReadChunk \/ DestroyResult
       \/ DdbUse \/ DdbChange \/ Prepare \/ ExecutePrepared
       \/ AppenderCreate \/ AppendRow \/ Flush \/ CloseAppender \/ DestroyAppender
       \/ LastError \/ (\E n \in Quotas : SetQuota(n)) \/ DdbDestroy

----------------------------------------------------------------------------
(* Properties.                                                             *)

\* Once the files have reached the quota in force they grow no more: not by a
\* text of several statements, a prepared statement or an appender's flush,
\* made before or after the quota was lowered.  What is left open is SQL's own
\* EXECUTE, which the policy passes, and the rows an appender still held.
QuotaHolds ==
    [][lib = "duckdb" /\ disk' > disk /\ "before" \notin exempt' => ~quota_exceeded(disk, quota)]_ddbVars

\* Growth that reaches the quota is never silent: ddb_last_error has it, unless
\* it came from EXECUTE, from destroying an appender or from the end.
OvershootIsReported ==
    [][lib = "duckdb" /\ disk' > disk /\ "after" \notin exempt' /\ quota_exceeded(disk', quota) => lastError']_ddbVars

\* A forbidden statement reaches DuckDB in no way but in a text where it cannot
\* be prepared by itself, which classify_sql takes for a writer.
ForbiddenIsRefused ==
    lib = "duckdb" => \A s \in ran : ~s.alone

\* Cell access finds the row: the chunk the binary search ends in has it, also
\* among empty chunks, at the place where counting from the first row leads.
LocateIsExact ==
    lib = "duckdb" =>
        \A o \in 1 .. Len(info) : \A row \in 0 .. Offset(info[o], Len(info[o].sizes)) - 1 :
            LET p == Locate(info[o], row)
            IN  /\ p.chunk \in 0 .. Len(info[o].sizes) - 1
                /\ p.at \in 0 .. info[o].sizes[p.chunk + 1] - 1
                /\ Offset(info[o], p.chunk) + p.at = row

\* fetch_chunk gives each chunk once and in order, and leaves none out unless
\* the guest mixed in a call that fetched ahead of it.
FetchesInOrder ==
    lib = "duckdb" =>
        \A o \in 1 .. Len(info) :
            LET r == info[o]
            IN  /\ \A i \in 1 .. Len(r.seen) - 1 : r.seen[i] < r.seen[i + 1]
                /\ ~r.jumped => r.seen = [i \in 1 .. r.fetched |-> i]

\* No call follows a pointer into a destroyed result, as long as the guest
\* destroys the views first; the end does so itself.
DdbSeesTheLiving == lib = "duckdb" /\ ~early => misused = {}

\* duckdb_bindings_destroy frees every object the guest left behind.
DdbEndsClean == lib = "duckdb" /\ ddbEnded => \A o \in 1 .. Len(refs) : refs[o] = 0

\* The guest's database: the quota and the policy hold over every way to run a statement,
\* cells and chunks are found, views and objects end before what they point into.
DatabaseRules ==
    /\ [](ForbiddenIsRefused /\ LocateIsExact /\ FetchesInOrder /\ DdbSeesTheLiving
          /\ DdbEndsClean)
    /\ QuotaHolds /\ OvershootIsReported
=============================================================================
