---------------------------- MODULE RecordStores ----------------------------
(***************************************************************************)
(* The file store and the postgres store side by side: the mirroring store *)
(* that writes one and then, behind, the other; the export of a run from   *)
(* postgres; and one interface for both.                                   *)
(***************************************************************************)
EXTENDS FsRecords, PgRecords

\* A call: what, of which run and dispatch, with what.
Call(op, r, d, v) == [op |-> op, run |-> r, id |-> d, v |-> v]
Reply(s, ans) == [store |-> s, ans |-> ans]

FsDo(s, o) ==
    LET r == o.run  d == o.id  v == o.v IN
    CASE o.op = "CreateRun"           -> FsCreateRun(s, v)
      [] o.op = "WriteRun"            -> FsWriteRun(s, v)
      [] o.op = "ReadRun"             -> Reply(s, FsReadRun(s, r))
      [] o.op = "ListRuns"            -> Reply(s, Ok(FsListRuns(s)))
      [] o.op = "AllocDispatch"       -> FsAllocDispatch(s, r)
      [] o.op = "WriteDispatch"       -> FsWriteDispatch(s, r, v)
      [] o.op = "ReadDispatch"        -> Reply(s, FsReadDispatch(s, r, d))
      [] o.op = "DispatchFacts"       -> Reply(s, Ok(FsDispatchFacts(s, r)))
      [] o.op = "WriteAgentRun"       -> FsWriteAgentRun(s, r, v)
      [] o.op = "ListAgentRuns"       -> Reply(s, Ok(FsListAgentRuns(s, r)))
      [] o.op = "AppendCandidate"     -> FsAppendCheckpointCandidate(s, r, v)
      [] o.op = "ListCandidates"      -> Reply(s, Ok(FsListCheckpointCandidates(s, r)))
      [] o.op = "AppendLedgerEvent"   -> FsAppendLedgerEvent(s, r, v)
      [] o.op = "ListLedgerEvents"    -> Reply(s, Ok(FsListLedgerEvents(s, r)))
      [] o.op = "WriteBrief"          -> FsWriteBrief(s, r, d, v)
      [] o.op = "ReadBrief"           -> Reply(s, FsReadBrief(s, r, d))
      [] o.op = "WriteReport"         -> FsWriteReport(s, r, d, v)
      [] o.op = "ReadReport"          -> Reply(s, FsReadReport(s, r, d))
      [] o.op = "AppendNote"          -> FsAppendNote(s, r, v.author, v.body)
      [] o.op = "ListNotes"           -> Reply(s, Ok(FsListNotes(s, r)))
      [] o.op = "WriteAdapterConfig"  -> FsWriteAdapterConfig(s, r, d, v)
      [] o.op = "ReadAdapterConfig"   -> Reply(s, FsReadAdapterConfig(s, r, d))
      [] o.op = "AppendTraceEvent"    -> FsAppendTraceEvent(s, r, d, v)
      [] o.op = "AuditSink"           -> FsAuditSink(s, r, v)
      [] o.op = "WriteDecision"       -> FsWriteDecision(s, r, v, "event")
      [] o.op = "Materialize"         -> Done(s)
      [] o.op = "ClaimDispatch"       -> FsClaimDispatch(s, r, d, v.executor, v.until)
      [] o.op = "RenewLease"          -> FsRenewLease(s, r, d, v.executor, v.until)
      [] o.op = "ReleaseDispatch"     -> FsReleaseDispatch(s, r, d, v.executor, v.status)
      [] o.op = "ExpireLeases"        -> FsExpireLeases(s, r, v)
      [] o.op = "ListPending"         -> Reply(s, Ok(FsListPendingDispatches(s, r)))
      [] o.op = "RenderTree"          -> Reply(s, Ok(FsRenderTree(s, r)))
      [] o.op = "BuildRunSummaryJSON" -> Reply(s, FsBuildRunSummary(s, r))
      [] o.op = "BuildDispatchTree"   -> Reply(s, Ok(FsBuildDispatchTree(s, r)))

PgDo(s, o) ==
    LET r == o.run  d == o.id  v == o.v IN
    CASE o.op = "CreateRun"           -> PgCreateRun(s, v)
      [] o.op = "WriteRun"            -> PgWriteRun(s, v)
      [] o.op = "ReadRun"             -> Reply(s, PgReadRun(s, r))
      [] o.op = "ListRuns"            -> Reply(s, Ok(PgListRuns(s)))
      [] o.op = "AllocDispatch"       -> PgAllocDispatch(s, r)
      [] o.op = "WriteDispatch"       -> PgWriteDispatch(s, r, v)
      [] o.op = "ReadDispatch"        -> Reply(s, PgReadDispatch(s, r, d))
      [] o.op = "DispatchFacts"       -> Reply(s, Ok(PgDispatchFacts(s, r)))
      [] o.op = "WriteAgentRun"       -> PgWriteAgentRun(s, r, v)
      [] o.op = "ListAgentRuns"       -> Reply(s, Ok(PgListAgentRuns(s, r)))
      [] o.op = "AppendCandidate"     -> PgAppendCheckpointCandidate(s, r, v)
      [] o.op = "ListCandidates"      -> Reply(s, Ok(PgListCheckpointCandidates(s, r)))
      [] o.op = "AppendLedgerEvent"   -> PgAppendLedgerEvent(s, r, v)
      [] o.op = "ListLedgerEvents"    -> Reply(s, Ok(PgListLedgerEvents(s, r)))
      [] o.op = "WriteBrief"          -> PgWriteBrief(s, r, d, v)
      [] o.op = "ReadBrief"           -> Reply(s, PgReadBrief(s, r, d))
      [] o.op = "WriteReport"         -> PgWriteReport(s, r, d, v)
      [] o.op = "ReadReport"          -> Reply(s, PgReadReport(s, r, d))
      [] o.op = "AppendNote"          -> PgAppendNote(s, r, v.author, v.body)
      [] o.op = "ListNotes"           -> Reply(s, Ok(PgListNotes(s, r)))
      [] o.op = "WriteAdapterConfig"  -> PgWriteAdapterConfig(s, r, d, v)
      [] o.op = "ReadAdapterConfig"   -> Reply(s, PgReadAdapterConfig(s, r, d))
      [] o.op = "AppendTraceEvent"    -> PgAppendTraceEvent(s, r, d, v)
      [] o.op = "AuditSink"           -> PgAuditSink(s, r, v)
      [] o.op = "WriteDecision"       -> PgWriteDecision(s, r, v, "event")
      [] o.op = "Materialize"         -> Done(s)
      [] o.op = "ClaimDispatch"       -> PgClaimDispatch(s, r, d, v.executor, v.until)
      [] o.op = "RenewLease"          -> PgRenewLease(s, r, d, v.executor, v.until)
      [] o.op = "ReleaseDispatch"     -> PgReleaseDispatch(s, r, d, v.executor, v.status)
      [] o.op = "ExpireLeases"        -> PgExpireLeases(s, r, v)
      [] o.op = "ListPending"         -> Reply(s, PgListPendingDispatches(s, r))
      [] o.op = "RenderTree"          -> Reply(s, Ok(PgRenderTree(s, r)))
      [] o.op = "BuildRunSummaryJSON" -> Reply(s, PgBuildRunSummary(s, r))
      [] o.op = "BuildDispatchTree"   -> Reply(s, Ok(PgBuildDispatchTree(s, r)))

-----------------------------------------------------------------------------

\* A file of the export is written when the store has something for it.
Copied(dest, path, ans) ==
    IF ans \in {Err, Ok("")} THEN dest ELSE Put(dest, path, ans[1])

\* Materialize without the configuration.
PgMaterializeBrief(s, r, d, dest) ==
    Copied(dest, In(DispatchDir(r, d), "brief.md"), PgReadBrief(s, r, d))

\* The directory of a dispatch, as Materialize fills it from postgres.
PgMaterialize(s, r, d, dest) ==
    Copied(Copied(dest, In(DispatchDir(r, d), "brief.md"), PgReadBrief(s, r, d)),
           In(DispatchDir(r, d), "settings.json"), PgReadAdapterConfig(s, r, d))

\* manifest.json of an export is a scratch.Run.  Most of its fields have no
\* JSON name, so their Go names are the keys; a reader takes Task and Status
\* for task and status, the others it does not know.
ExportedManifest(x) ==
    [ID |-> x.id, task |-> x.task, status |-> x.status, ReasonBudget |-> x.budget,
     MaxDepth |-> x.depth]

ExportDispatch(s, r, d, dest) ==
    LET meta == Put(dest, MetaPath(r, d), s.dispatch[<<r, d>>]) IN
    Copied(PgMaterialize(s, r, d, meta), In(DispatchDir(r, d), "report.md"), PgReadReport(s, r, d))

\* Each dispatch of the run, each in a directory of its own.
ExportDispatches(s, r, dest) ==
    LET made == [d \in {k[2] : k \in {l \in DOMAIN s.dispatch : l[1] = r}} |->
                   ExportDispatch(s, r, d, FsEmpty)] IN
    [dirs  |-> dest.dirs \cup UNION {made[d].dirs : d \in DOMAIN made},
     files |-> LET all == UNION {DOMAIN made[d].files : d \in DOMAIN made} IN
               [p \in DOMAIN dest.files \cup all |->
                  IF p \in all THEN made[p[3]].files[p] ELSE dest.files[p]]]

exportAuditKind(s, r, k, dest) == Put(dest, FsAuditPath(r, k), Get(s.spool, <<r, k>>, << >>))

\* ExportRun of a run in postgres; dest is the runs directory above destDir.
ExportRun(s, r, dest) ==
    IF PgReadRun(s, r) = Err THEN Fail(dest)
    ELSE LET manifest   == Put(dest, ManifestPath(r), ExportedManifest(PgReadRun(s, r)[1]))
             dispatches == ExportDispatches(s, r, manifest) IN
         Done(exportAuditKind(s, r, "toolgate",
                exportAuditKind(s, r, "dispatch",
                  [dispatches EXCEPT !.dirs = @ \cup {In(RunDir(r), "dispatches")}])))

-----------------------------------------------------------------------------
(* The mirroring store of one process, and its mirror                      *)

CONSTANTS MaxCalls,    \* bound on the calls of a session
          MaxBehind    \* bound on how far the mirror is behind

ASSUME RecordStoresAssumption == MaxCalls \in Nat /\ MaxBehind \in Nat

VARIABLES topic,   \* what the session is about: its dispatches or its agents
          fs, pg,
          queue,   \* the calls the mirror has yet to make
          calls

storevars == <<topic, fs, pg, queue, calls>>

R1 == [id |-> "r1", task |-> <<"", "task">>, status |-> "running", budget |-> 3,
       depth |-> 0, mode |-> "tee"]

\* What the program writes of a dispatch as it goes on.
Stages == {"pending", "running", "completed"}
Written(id, parent, stage) ==
    [Placeholder(id) EXCEPT
        !.parent = parent, !.status = stage,
        !.model = IF id = Root THEN "fable" ELSE "sonnet",
        !.tier = IF id = Root THEN "" ELSE "execute",
        !.pid = IF stage = "running" THEN DeadPid ELSE NoPid,
        !.cost = IF stage = "completed" THEN 1 ELSE 0,
        !.usage = IF stage = "completed" THEN "counts" ELSE
                  IF stage = "running" THEN "zeros" ELSE "nil"]

StoresInit ==
    /\ topic \in {"dispatches", "agents"}
    /\ fs = FsEmpty /\ pg = PgEmpty
    /\ queue = << >>
    /\ calls = 0

\* Every method that writes: the file store, and if it has succeeded the call
\* is put in the queue.
Tee(o) ==
    LET got == FsDo(fs, o) IN
    /\ calls < MaxCalls /\ calls' = calls + 1
    /\ Len(queue) < MaxBehind
    /\ fs' = got.store
    /\ queue' = IF got.ans = Err THEN queue ELSE Append(queue, o)
    /\ UNCHANGED <<topic, pg>>

\* The mirror logs an error and goes on.
Mirror ==
    /\ queue # << >>
    /\ pg' = PgDo(pg, Head(queue)).store
    /\ queue' = Tail(queue)
    /\ UNCHANGED <<topic, fs, calls>>

Allocated == {d \in 1..MaxDispatch : DispatchDir("r1", d) \in fs.dirs}

\* A session begins with the run, and has it once.
CreateRun == ~ Has(fs, ManifestPath("r1")) /\ Tee(Call("CreateRun", "r1", 0, R1))
TeeInRun(o) == Has(fs, ManifestPath("r1")) /\ Tee(o)
WriteRun  == \E st \in {"completed", "failed"} : TeeInRun(Call("WriteRun", "r1", 0, [R1 EXCEPT !.status = st]))
AllocDispatch == topic = "dispatches" /\ TeeInRun(Call("AllocDispatch", "r1", 0, 0))
WriteDispatch ==
    \E d \in Allocated \cup {Root}, stage \in Stages :
        /\ topic = "dispatches"
        /\ \E parent \in IF d = Root THEN {NoParent} ELSE {Root} \cup {e \in Allocated : e < d} :
            TeeInRun(Call("WriteDispatch", "r1", d, Written(d, parent, stage)))
WriteBrief  == topic = "dispatches" /\ \E d \in Allocated : TeeInRun(Call("WriteBrief", "r1", d, "brief"))
WriteReport == topic = "dispatches" /\ \E d \in Allocated : TeeInRun(Call("WriteReport", "r1", d, "report"))
WriteAdapterConfig ==
    topic = "dispatches" /\ \E d \in Allocated \cup {Root} : TeeInRun(Call("WriteAdapterConfig", "r1", d, "config"))
WriteAgentRun ==
    /\ topic = "agents"
    /\ \E id \in {"a1", "a2"}, st \in {"", "completed"} :
         TeeInRun(Call("WriteAgentRun", "r1", 0,
                  [id |-> id, status |-> st, usage |-> IF st = "" THEN "zeros" ELSE "counts"]))
AppendCheckpointCandidate ==
    /\ topic = "agents"
    /\ \E st \in {"", "fresh"} : TeeInRun(Call("AppendCandidate", "r1", 0, [id |-> "c", status |-> st]))
AppendLedgerEvent ==
    /\ topic = "agents"
    /\ \E kind \in {"agent_started", "agent_completed"} :
         TeeInRun(Call("AppendLedgerEvent", "r1", 0, [kind |-> kind, usage |-> "zeros"]))
AppendNote ==
    /\ topic = "agents"
    /\ \E author \in {"root", "worker"} : TeeInRun(Call("AppendNote", "r1", 0, [author |-> author, body |-> "note"]))
AppendTraceEvent ==
    /\ topic = "agents"
    /\ \E kind \in {"tool", "read"} : TeeInRun(Call("AppendTraceEvent", "r1", Root, [kind |-> kind]))

StoresNext ==
    \/ CreateRun \/ WriteRun
    \/ AllocDispatch \/ WriteDispatch
    \/ WriteBrief \/ WriteReport \/ WriteAdapterConfig
    \/ WriteAgentRun \/ AppendCheckpointCandidate \/ AppendLedgerEvent
    \/ AppendNote \/ AppendTraceEvent
    \/ Mirror

StoresSpec == StoresInit /\ [][StoresNext]_storevars

-----------------------------------------------------------------------------

Settled == queue = << >> /\ \A d \in Allocated : Has(fs, MetaPath("r1", d))
WithUsageShown(rows) == [i \in DOMAIN rows |-> [rows[i] EXCEPT !.usage = UsageShown(@)]]
Lines(tree) == [i \in DOMAIN tree |-> tree[i].line]
Authors(notes) == [i \in DOMAIN notes |-> notes[i].author]

\* When the mirror has caught up and every id that was allocated has a
\* record, the two stores answer every question alike: the run, the list of
\* runs, the dispatches and their tree, the counts, the documents, agents,
\* candidates, events and the order of the notes.  What the stores store
\* differently (a usage of zeros, the store mode, the names of the notes) is
\* compared as it is shown.
MirrorTellsSame ==
    Settled =>
      /\ LET a == FsReadRun(fs, "r1")  b == PgReadRun(pg, "r1") IN
         IF a = Err THEN b = Err ELSE b = Ok([a[1] EXCEPT !.mode = ""])
      /\ FsListRuns(fs) = PgListRuns(pg)
      /\ WithUsageShown(FsListDispatches(fs, "r1")) = PgListDispatches(pg, "r1")
      /\ FsDispatchFacts(fs, "r1") = PgDispatchFacts(pg, "r1")
      /\ Lines(FsBuildDispatchTree(fs, "r1")) = Lines(PgBuildDispatchTree(pg, "r1"))
      /\ \A d \in Allocated :
            /\ FsReadBrief(fs, "r1", d) = PgReadBrief(pg, "r1", d)
            /\ FsReadReport(fs, "r1", d) = PgReadReport(pg, "r1", d)
            /\ FsReadAdapterConfig(fs, "r1", d) # Err =>
                 FsReadAdapterConfig(fs, "r1", d) = PgReadAdapterConfig(pg, "r1", d)
      /\ {[a EXCEPT !.usage = UsageShown(@)] : a \in FsListAgentRuns(fs, "r1")} = PgListAgentRuns(pg, "r1")
      /\ FsListCheckpointCandidates(fs, "r1") = PgListCheckpointCandidates(pg, "r1")
      /\ WithUsageShown(FsListLedgerEvents(fs, "r1")) = PgListLedgerEvents(pg, "r1")
      /\ Authors(FsListNotes(fs, "r1")) = Authors(PgListNotes(pg, "r1"))

Exported == ExportRun(pg, "r1", FsEmpty).store

\* A reader of the exported directory lists the dispatches of postgres, all
\* fields and in order, and finds their briefs, reports and configurations.
ExportTellsSame ==
    /\ FsListDispatches(Exported, "r1") = PgListDispatches(pg, "r1")
    /\ \A d \in DispatchId :
         /\ <<"r1", d>> \in DOMAIN pg.dispatch =>
               FsReadBrief(Exported, "r1", d) = PgReadBrief(pg, "r1", d)
         /\ <<"r1", d>> \in DOMAIN pg.dispatch =>
               FsReadReport(Exported, "r1", d) = PgReadReport(pg, "r1", d)
         /\ <<"r1", d>> \in DOMAIN pg.config =>
               FsReadAdapterConfig(Exported, "r1", d) = PgReadAdapterConfig(pg, "r1", d)
=============================================================================
