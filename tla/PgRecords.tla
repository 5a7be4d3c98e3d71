----------------------------- MODULE PgRecords ------------------------------
(***************************************************************************)
(* The operations of the postgres store on its tables.  A table is a       *)
(* function of its primary key, or, where rows are only added, of the run:  *)
(* the sequence of its rows.                                               *)
(* Every table but run refers to run(id), so that a row of a run that is   *)
(* not there is an error.                                                  *)
(***************************************************************************)
EXTENDS Records

PgEmpty ==
    [run |-> << >>, seq |-> << >>, dispatch |-> << >>, config |-> << >>,
     agent |-> << >>, candidate |-> << >>, ledger |-> << >>, doc |-> << >>,
     trace |-> << >>, spool |-> << >>]

RunExists(s, r) == r \in DOMAIN s.run
\* The rows of a table with primary key <<run, id>>, in the order of the ids.
RowsOf(table, r) ==
    LET keys == Asc({k[2] : k \in {l \in DOMAIN table : l[1] = r}}) IN
    [i \in DOMAIN keys |-> table[<<r, keys[i]>>]]
LinesOf(table, r) == Get(table, r, << >>)
Added(table, r, row) == Set(table, r, Append(LinesOf(table, r), row))

-----------------------------------------------------------------------------

\* There is no column for the store mode.
RunRow(x) ==
    [x EXCEPT !.depth = IF @ = 0 THEN DefaultMaxDepth ELSE @, !.mode = ""]

PgCreateRun(s, x) ==
    LET status == IF x.status = "" THEN "created" ELSE x.status IN
    IF RunExists(s, x.id) THEN Fail(s)
    ELSE Done([s EXCEPT !.run = Set(@, x.id, RunRow([x EXCEPT !.status = status]))])

PgReadRun(s, r) == IF RunExists(s, r) THEN Ok(s.run[r]) ELSE Err

\* An UPDATE: of a run that is not there it changes nothing and is no error.
PgWriteRun(s, x) ==
    Done(IF RunExists(s, x.id) THEN [s EXCEPT !.run = Set(@, x.id, RunRow(x))] ELSE s)

PgListDispatches(s, r) == RowsOf(s.dispatch, r)

PgListRuns(s) ==
    {[run |-> r, status |-> s.run[r].status, task |-> FirstLine(s.run[r].task),
      count |-> Len(PgListDispatches(s, r)),
      cost |-> TotalCost(PgListDispatches(s, r))] :
     r \in DOMAIN s.run}

-----------------------------------------------------------------------------

\* The defaults of the columns: the row that reserves an id.
Placeholder(id) ==
    [id |-> id, parent |-> NoParent, model |-> "", tier |-> "", status |-> "pending",
     enforcement |-> "full", cost |-> 0, pid |-> NoPid, usage |-> "nil",
     sandbox |-> "none", owner |-> "", lease |-> NoLease]

\* The counter is one statement, the placeholder another: ON CONFLICT DO
\* NOTHING leaves a row that is already there.
PgAllocDispatch(s, r) ==
    LET n == Get(s.seq, r, 1) IN
    IF ~ RunExists(s, r) \/ n > MaxDispatch THEN Fail(s)
    ELSE Answer([s EXCEPT !.seq = Set(@, r, n + 1),
                          !.dispatch = SetOnce(@, <<r, n>>, Placeholder(n))], n)

PgReadDispatch(s, r, d) == IF <<r, d>> \in DOMAIN s.dispatch THEN Ok(s.dispatch[<<r, d>>]) ELSE Err

\* DO NOTHING where the code has DO UPDATE.
PgWriteDispatchOnce(s, r, x) ==
    IF x.sandbox = "invalid" \/ ~ RunExists(s, r) THEN Fail(s)
    ELSE Done([s EXCEPT !.dispatch = SetOnce(@, <<r, x.id>>, x)])

\* The columns of a record: an invalid sandbox is refused, a usage that
\* counts nothing is stored as none.
PgWriteDispatch(s, r, x) ==
    IF x.sandbox = "invalid" \/ ~ RunExists(s, r) THEN Fail(s)
    ELSE Done([s EXCEPT !.dispatch =
                 Set(@, <<r, x.id>>, [x EXCEPT !.usage = UsageShown(@)])])

PgDispatchFacts(s, r) == Facts(PgListDispatches(s, r))

-----------------------------------------------------------------------------

\* CreateAgentRun and WriteAgentRun are one.
PgWriteAgentRun(s, r, a) ==
    LET status == IF a.status = "" THEN "spawned" ELSE a.status IN
    IF a.id = "" \/ ~ ValidAgentRunStatus(status) \/ ~ RunExists(s, r) THEN Fail(s)
    ELSE Done([s EXCEPT !.agent =
                 Set(@, <<r, a.id>>, [a EXCEPT !.status = status, !.usage = UsageShown(@)])])
PgListAgentRuns(s, r) == {s.agent[k] : k \in {l \in DOMAIN s.agent : l[1] = r}}

PgAppendCheckpointCandidate(s, r, c) ==
    LET status == IF c.status = "" THEN "proposed" ELSE c.status IN
    IF ~ ValidCheckpointStatus(status) \/ ~ RunExists(s, r) THEN Fail(s)
    ELSE Done([s EXCEPT !.candidate = Added(@, r, [c EXCEPT !.status = status])])
PgListCheckpointCandidates(s, r) == LinesOf(s.candidate, r)

PgAppendLedgerEvent(s, r, e) ==
    IF e.kind = "" \/ ~ RunExists(s, r) THEN Fail(s)
    ELSE Done([s EXCEPT !.ledger = Added(@, r, [e EXCEPT !.usage = UsageShown(@)])])
PgListLedgerEvents(s, r) == LinesOf(s.ledger, r)

\* doc is unique in kind, run, dispatch and filename.
upsertDoc(s, r, d, kind, body) ==
    IF ~ RunExists(s, r) THEN Fail(s)
    ELSE Done([s EXCEPT !.doc = Set(@, <<kind, r, d>>, body)])
readDoc(s, r, d, kind) ==
    IF <<kind, r, d>> \in DOMAIN s.doc THEN Ok(s.doc[<<kind, r, d>>]) ELSE Err

PgWriteBrief(s, r, d, body)  == upsertDoc(s, r, d, "brief", body)
PgWriteReport(s, r, d, body) == upsertDoc(s, r, d, "report", body)
PgReadBrief(s, r, d)  == readDoc(s, r, d, "brief")
PgReadReport(s, r, d) == readDoc(s, r, d, "report")

\* A note is a row named for the time it is written here and the author.
Named(s, r) == {k[3] : k \in {l \in DOMAIN s.doc : l[1] = "note" /\ l[2] = r}}
PgAppendNote(s, r, author, body) ==
    upsertDoc(s, r, [at |-> Cardinality(Named(s, r)) + 1, author |-> author], "note", body)
PgListNotes(s, r) == InTime(Named(s, r))

\* An UPDATE of the dispatch row: without one it changes nothing.
PgWriteAdapterConfig(s, r, d, cfg) ==
    Done(IF <<r, d>> \in DOMAIN s.dispatch
         THEN [s EXCEPT !.config = Set(@, <<r, d>>, cfg)] ELSE s)
\* A row without a configuration answers with nothing and no error.
PgReadAdapterConfig(s, r, d) ==
    IF <<r, d>> \notin DOMAIN s.dispatch THEN Err ELSE Ok(Get(s.config, <<r, d>>, ""))

PgAppendTraceEvent(s, r, d, e) ==
    IF ~ RunExists(s, r) THEN Fail(s)
    ELSE Done([s EXCEPT !.trace = Added(@, r, e)])

\* The sink that is returned appends to a spool file of the machine; the
\* goroutine beside it is given no event.
PgAuditSink(s, r, k) ==
    IF k \notin {"dispatch", "toolgate"} THEN Fail(s)
    ELSE Done([s EXCEPT !.spool = SetOnce(@, <<r, k>>, << >>)])
PgWriteDecision(s, r, k, e) ==
    Done([s EXCEPT !.spool = Set(@, <<r, k>>, Append(Get(@, <<r, k>>, << >>), e))])

-----------------------------------------------------------------------------

PgClaimDispatch(s, r, d, x, until) ==
    LET row == PgReadDispatch(s, r, d) IN
    IF row = Err \/ row[1].status # "pending" THEN Answer(s, FALSE)
    ELSE Answer([s EXCEPT !.dispatch =
                   Set(@, <<r, d>>, [row[1] EXCEPT !.status = "claimed", !.owner = x, !.lease = until])],
                TRUE)

PgRenewLease(s, r, d, x, until) ==
    LET row == PgReadDispatch(s, r, d) IN
    IF row = Err \/ row[1].owner # x \/ row[1].status # "claimed" THEN Fail(s)
    ELSE Done([s EXCEPT !.dispatch = Set(@, <<r, d>>, [row[1] EXCEPT !.lease = until])])

PgReleaseDispatch(s, r, d, x, status) ==
    LET row == PgReadDispatch(s, r, d) IN
    IF ~ IsTerminal(status) \/ row = Err \/ row[1].owner # x THEN Fail(s)
    ELSE Done([s EXCEPT !.dispatch =
                 Set(@, <<r, d>>, [row[1] EXCEPT !.status = status, !.owner = "", !.lease = NoLease])])

PgExpireLeases(s, r, now) ==
    LET over == {k \in DOMAIN s.dispatch :
                   /\ k[1] = r
                   /\ s.dispatch[k].status \in {"claimed", "running"}
                   /\ s.dispatch[k].lease # NoLease
                   /\ s.dispatch[k].lease < now} IN
    Answer([s EXCEPT !.dispatch = [k \in DOMAIN @ |->
              IF k \in over
              THEN [@[k] EXCEPT !.status = "pending", !.owner = "", !.lease = NoLease]
              ELSE @[k]]],
           Asc({k[2] : k \in over}))

\* The columns of the query are two fewer than scanDispatch reads: the first
\* row is an error.
PgListPendingDispatches(s, r) ==
    LET Pending(m) == m.status = "pending"
        rows == SelectSeq(PgListDispatches(s, r), Pending) IN
    IF rows = << >> THEN Ok(rows) ELSE Err

-----------------------------------------------------------------------------

PgBuildDispatchTree(s, r) ==
    LET ds == PgListDispatches(s, r) IN Shown(ds, [d \in ToSet(ds) |-> d])

\* run.Render: the model and the recorded status, no report.
PgRenderTree(s, r) ==
    LET ds == PgListDispatches(s, r)
        line(d) == [label |-> ModelLabel(d), status |-> d.status, report |-> FALSE]
    IN  Shown(ds, [d \in ToSet(ds) |-> line(d)])

PgBuildRunSummary(s, r) ==
    LET ds == PgListDispatches(s, r)
        entry(d) == [status |-> d.status, cost |-> d.cost,
                     usage |-> UsageShown(d.usage), report |-> FALSE]
    IN  IF ~ RunExists(s, r) THEN Err
        ELSE Ok([run |-> r, status |-> s.run[r].status, budget |-> s.run[r].budget,
                 dispatches |-> Shown(ds, [d \in ToSet(ds) |-> entry(d)])])
=============================================================================
