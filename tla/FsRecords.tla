----------------------------- MODULE FsRecords ------------------------------
(***************************************************************************)
(* The operations of the file store on the tree of a runs directory: the   *)
(* directories and the files, each under the path from the base.           *)
(***************************************************************************)
EXTENDS Records

FsEmpty == [dirs |-> {}, files |-> << >>]

Above(path) == {SubSeq(path, 1, n) : n \in 1..(Len(path) - 1)}
Has(s, path) == path \in DOMAIN s.files

\* writeFileSafe: MkdirAll of the directory, and the whole file.
Put(s, path, v) ==
    [dirs |-> s.dirs \cup Above(path), files |-> Set(s.files, path, v)]

Overwrite(s, path, v) == [s EXCEPT !.files = Set(@, path, v)]
Unlink(s, path) ==
    [s EXCEPT !.files = [q \in DOMAIN s.files \ {path} |-> s.files[q]]]

\* Open with O_APPEND, MkdirAll before.
AppendLine(s, path, v) == Put(s, path, Append(Get(s.files, path, << >>), v))

ReadFile(s, path) == IF Has(s, path) THEN Ok(s.files[path]) ELSE Err

RunDir(r)         == <<r>>
DispatchDir(r, d) == <<r, "dispatches", d>>
In(dir, name)     == Append(dir, name)
MetaPath(r, d)    == In(DispatchDir(r, d), "meta.json")
ManifestPath(r)   == In(RunDir(r), "manifest.json")

-----------------------------------------------------------------------------

\* manifest.json has only the keys that were written.
runToManifest(x) ==
    [run_id |-> x.id, task |-> x.task, status |-> x.status,
     reason_budget |-> x.budget, max_depth |-> x.depth, store |-> x.mode]

\* A manifest of version 1 has fable_budget instead of reason_budget.
ReadManifest(m) ==
    LET budget == Get(m, "reason_budget", 0)
        depth  == Get(m, "max_depth", 0) IN
    [id     |-> Get(m, "run_id", ""),
     task   |-> Get(m, "task", << >>),
     status |-> Get(m, "status", ""),
     budget |-> IF budget = 0 THEN Get(m, "fable_budget", 0) ELSE budget,
     depth  |-> IF depth = 0 THEN DefaultMaxDepth ELSE depth,
     mode   |-> Get(m, "store", "")]

\* flockWrite creates the file, never its directory.
WriteManifest(s, x) ==
    IF RunDir(x.id) \notin s.dirs THEN Fail(s)
    ELSE Done(Overwrite(s, ManifestPath(x.id), runToManifest(x)))

CreateRunWithID(s, r) ==
    [s EXCEPT !.dirs = @ \cup {RunDir(r)} \cup {In(RunDir(r), n) : n \in {"audit", "notes", "dispatches"}}]

FsCreateRun(s, x) == WriteManifest(CreateRunWithID(s, x.id), x)
FsWriteRun(s, x)  == WriteManifest(s, x)
FsReadRun(s, r) ==
    IF Has(s, ManifestPath(r)) THEN Ok(ReadManifest(s.files[ManifestPath(r)])) ELSE Err

-----------------------------------------------------------------------------

\* One lock around counting the dNN directories and making the next one.
FsAllocDispatch(s, r) ==
    LET n == Cardinality({d \in 1..MaxDispatch : DispatchDir(r, d) \in s.dirs}) + 1 IN
    IF \/ n > MaxDispatch
       \/ In(RunDir(r), "dispatches") \notin s.dirs
       \/ DispatchDir(r, n) \in s.dirs
    THEN Fail(s)
    ELSE Answer([s EXCEPT !.dirs = @ \cup {DispatchDir(r, n)}], n)

FsReadDispatch(s, r, d) == ReadFile(s, MetaPath(r, d))
FsWriteDispatch(s, r, x) == Done(Put(s, MetaPath(r, x.id), x))

\* In the order of the names, as os.ReadDir gives them; a directory without
\* a readable meta.json is passed over.
FsListDispatches(s, r) ==
    LET dirs == Asc({d \in DispatchId :
                       DispatchDir(r, d) \in s.dirs /\ Has(s, MetaPath(r, d))}) IN
    [i \in DOMAIN dirs |-> s.files[MetaPath(r, dirs[i])]]

FsDispatchFacts(s, r) == Facts(FsListDispatches(s, r))

\* A run without a readable manifest is passed over.
FsListRuns(s) ==
    {LET m == FsReadRun(s, r)[1] IN
     [run |-> m.id, status |-> m.status, task |-> FirstLine(m.task),
      count |-> Len(FsListDispatches(s, r)),
      cost |-> TotalCost(FsListDispatches(s, r))] :
     r \in {q[1] : q \in {p \in DOMAIN s.files : Len(p) = 2 /\ p[2] = "manifest.json"}}}

-----------------------------------------------------------------------------

\* CreateAgentRun and WriteAgentRun are one.
FsWriteAgentRun(s, r, a) ==
    LET status == IF a.status = "" THEN "spawned" ELSE a.status IN
    IF a.id = "" \/ ~ ValidAgentRunStatus(status) THEN Fail(s)
    ELSE Done(Put(s, <<r, "agents", a.id>>, [a EXCEPT !.status = status]))
FsListAgentRuns(s, r) ==
    {s.files[p] : p \in {q \in DOMAIN s.files : Len(q) = 3 /\ q[1] = r /\ q[2] = "agents"}}

FsAppendCheckpointCandidate(s, r, c) ==
    LET status == IF c.status = "" THEN "proposed" ELSE c.status IN
    IF ~ ValidCheckpointStatus(status) THEN Fail(s)
    ELSE Done(AppendLine(s, In(RunDir(r), "checkpoint_candidates.jsonl"),
                         [c EXCEPT !.status = status]))
FsListCheckpointCandidates(s, r) ==
    Get(s.files, In(RunDir(r), "checkpoint_candidates.jsonl"), << >>)

FsAppendLedgerEvent(s, r, e) ==
    IF e.kind = "" THEN Fail(s)
    ELSE Done(AppendLine(s, In(RunDir(r), "ledger.jsonl"), e))
FsListLedgerEvents(s, r) == Get(s.files, In(RunDir(r), "ledger.jsonl"), << >>)

FsWriteBrief(s, r, d, body)  == Done(Put(s, In(DispatchDir(r, d), "brief.md"), body))
FsWriteReport(s, r, d, body) == Done(Put(s, In(DispatchDir(r, d), "report.md"), body))
FsReadBrief(s, r, d)  == ReadFile(s, In(DispatchDir(r, d), "brief.md"))
FsReadReport(s, r, d) == ReadFile(s, In(DispatchDir(r, d), "report.md"))
FsWriteAdapterConfig(s, r, d, cfg) == Done(Put(s, In(DispatchDir(r, d), "settings.json"), cfg))
FsReadAdapterConfig(s, r, d) == ReadFile(s, In(DispatchDir(r, d), "settings.json"))

\* A note is a file named for the time and the author; the time is its own,
\* after that of every note before it.
Notes(s, r) == {p[3] : p \in {q \in DOMAIN s.files : Len(q) = 3 /\ q[1] = r /\ q[2] = "notes"}}
FsAppendNote(s, r, author, body) ==
    Done(Put(s, <<r, "notes", [at |-> Cardinality(Notes(s, r)) + 1, author |-> author]>>, body))
FsListNotes(s, r) == InTime(Notes(s, r))

\* Reads, dispatches and reports are traced in one file, tools in another.
FsAppendTraceEvent(s, r, d, e) ==
    Done(AppendLine(s, In(DispatchDir(r, d),
                          IF e.kind \in {"read", "dispatch", "report"}
                          THEN "context_trace.jsonl" ELSE "tool_trace.jsonl"), e))

AuditKind(k) == k \in {"dispatch", "toolgate"}
FsAuditPath(r, k) == <<r, "audit", k>>
\* AuditSink makes the directory and an empty file; every write is appended
\* under a lock.
FsAuditSink(s, r, k) ==
    IF ~ AuditKind(k) THEN Fail(s)
    ELSE Done(Put(s, FsAuditPath(r, k), Get(s.files, FsAuditPath(r, k), << >>)))
FsWriteDecision(s, r, k, e) == Done(AppendLine(s, FsAuditPath(r, k), e))

-----------------------------------------------------------------------------

\* The claim operations, each between its first and its last system call
\* (FsClaims has them one call at a time).
ClaimPath(r, d) == In(DispatchDir(r, d), "claim")

FsClaimDispatch(s, r, d, x, until) ==
    IF Has(s, ClaimPath(r, d)) THEN Answer(s, FALSE)
    ELSE LET m == Get(s.files, MetaPath(r, d), << >>) IN
         IF m = << >> \/ m.status # "pending"
         THEN Fail([s EXCEPT !.dirs = @ \cup Above(ClaimPath(r, d))])
         ELSE Answer(Put(Overwrite(s, MetaPath(r, d),
                                   [m EXCEPT !.status = "claimed", !.owner = x, !.lease = until]),
                         ClaimPath(r, d), x), TRUE)

FsRenewLease(s, r, d, x, until) ==
    LET m == FsReadDispatch(s, r, d) IN
    IF m = Err \/ m[1].owner # x \/ m[1].status # "claimed" THEN Fail(s)
    ELSE Done(Put(Overwrite(s, MetaPath(r, d), [m[1] EXCEPT !.lease = until]),
                  ClaimPath(r, d), x))

FsReleaseDispatch(s, r, d, x, status) ==
    LET m == FsReadDispatch(s, r, d) IN
    IF ~ IsTerminal(status) \/ m = Err \/ m[1].owner # x THEN Fail(s)
    ELSE Done(Unlink(Overwrite(s, MetaPath(r, d),
                     [m[1] EXCEPT !.status = status, !.owner = "", !.lease = NoLease]),
              ClaimPath(r, d)))

Expired(m, now) ==
    m.status \in {"claimed", "running"} /\ m.lease # NoLease /\ m.lease < now

Requeued(s, r, over) ==
    LET requeued == [p \in DOMAIN s.files |->
            IF \E d \in over : p = MetaPath(r, d)
            THEN [s.files[p] EXCEPT !.status = "pending", !.owner = "", !.lease = NoLease]
            ELSE s.files[p]] IN
    Answer([s EXCEPT !.files =
              [p \in DOMAIN requeued \ {ClaimPath(r, d) : d \in over} |-> requeued[p]]],
           Asc(over))

\* Only what is claimed, not what runs.
FsExpireClaimed(s, r, now) ==
    Requeued(s, r, {m.id : m \in {n \in ToSet(FsListDispatches(s, r)) :
                                    Expired(n, now) /\ n.status = "claimed"}})

FsExpireLeases(s, r, now) ==
    Requeued(s, r, {m.id : m \in {n \in ToSet(FsListDispatches(s, r)) : Expired(n, now)}})

FsListPendingDispatches(s, r) ==
    LET Pending(m) == m.status = "pending" IN SelectSeq(FsListDispatches(s, r), Pending)

-----------------------------------------------------------------------------

FsBuildDispatchTree(s, r) ==
    LET ds == FsListDispatches(s, r) IN Shown(ds, [d \in ToSet(ds) |-> d])

HasReport(s, r, d) == Has(s, In(DispatchDir(r, d), "report.md"))

FsRenderTree(s, r) ==
    LET ds == FsListDispatches(s, r)
        line(d) == [label |-> TierOrModel(d), status |-> EffectiveStatus(d),
                    report |-> EffectiveStatus(d) = "completed" /\ HasReport(s, r, d.id)]
    IN  Shown(ds, [d \in ToSet(ds) |-> line(d)])

FsBuildRunSummary(s, r) ==
    LET ds == FsListDispatches(s, r)
        entry(d) == [status |-> EffectiveStatus(d), cost |-> d.cost,
                     usage |-> UsageShown(d.usage), report |-> HasReport(s, r, d.id)]
    IN  IF FsReadRun(s, r) = Err THEN Err
        ELSE Ok([run |-> FsReadRun(s, r)[1].id, status |-> FsReadRun(s, r)[1].status,
                 budget |-> FsReadRun(s, r)[1].budget,
                 dispatches |-> Shown(ds, [d \in ToSet(ds) |-> entry(d)])])
=============================================================================
