----------------------------- MODULE StoreCases -----------------------------
(***************************************************************************)
(* The conformance suite every store is tested with (storetest), as        *)
(* scripts of calls and of the answers they want.  A case is run on one of *)
(* the stores while a neighbour works on another run of the same store;    *)
(* the calls that the suite makes from several goroutines come in every    *)
(* order.                                                                  *)
(***************************************************************************)
EXTENDS RecordStores

CONSTANT MaxNeighbour   \* bound on the calls of the neighbour

ASSUME StoreCasesAssumption == MaxDispatch >= 3 /\ MaxNeighbour \in Nat

\* What a case wants of an answer.
Is(v)    == [want |-> "is", v |-> v]
AnyOk    == [want |-> "ok", v |-> {}]
Fails    == [want |-> "error", v |-> {}]
Runs(S)  == [want |-> "runs", v |-> S]
Shows(S) == [want |-> "shows", v |-> S]

Meets(w, ans) ==
    CASE w.want = "is"    -> ans = Ok(w.v)
      [] w.want = "ok"    -> ans # Err
      [] w.want = "error" -> ans = Err
      [] w.want = "runs"  -> ans # Err /\ w.v \subseteq {x.run : x \in ans[1]}
      [] w.want = "shows" -> ans # Err /\ w.v \subseteq {x.line.id : x \in ToSet(ans[1])}

Step(call, wanted) == [call |-> call, wanted |-> wanted]
Do(op, d, v, wanted) == Step(Call(op, "r1", d, v), wanted)

\* A case: first these steps, then these calls together, whose answers come
\* so often as the tally says, then these steps.
InOrder(steps) == [first |-> steps, together |-> {}, tally |-> << >>, last |-> << >>]

-----------------------------------------------------------------------------

SomeRun(id, status) ==
    [id |-> id, task |-> <<"task">>, status |-> status, budget |-> 3, depth |-> 0, mode |-> ""]
Stored(x) == [x EXCEPT !.depth = DefaultMaxDepth]

mustCreateRun == <<Do("CreateRun", 0, SomeRun("r1", "created"), AnyOk)>>
mustAllocDispatch(d) == <<Do("AllocDispatch", 0, 0, Is(d))>>

\* The records a case writes: the row's defaults and what it sets.
Record(d, model, status) == [Placeholder(d) EXCEPT !.model = model, !.status = status]
Write(x) == <<Do("WriteDispatch", x.id, x, AnyOk)>>

mustSeedPending(d) == mustAllocDispatch(d) \o Write(Record(d, "sonnet", "pending"))

RunCRUD ==
    LET x == SomeRun("r1", "created")
        y == Stored([x EXCEPT !.status = "running"]) IN
    InOrder(<<Do("CreateRun", 0, x, AnyOk), Do("ReadRun", 0, 0, Is(Stored(x))),
              Do("WriteRun", 0, y, AnyOk), Do("ReadRun", 0, 0, Is(y)),
              Step(Call("CreateRun", "r3", 0, SomeRun("r3", "created")), AnyOk),
              Step(Call("ReadRun", "r3", 0, 0), Is(Stored(SomeRun("r3", "created"))))>>)

DispatchAllocMonotonic ==
    InOrder(mustCreateRun \o mustAllocDispatch(1) \o mustAllocDispatch(2) \o mustAllocDispatch(3))

DispatchAllocConcurrent ==
    [first    |-> mustCreateRun,
     together |-> {Call("AllocDispatch", "r1", 0, g) : g \in 1..3},
     tally    |-> [d \in 1..3 |-> 1],
     last     |-> << >>]

DispatchFacts ==
    LET d01 == [Record(1, "fable", "running") EXCEPT !.usage = "counts"] IN
    InOrder(mustCreateRun \o mustAllocDispatch(1) \o mustAllocDispatch(2) \o mustAllocDispatch(3)
            \o Write(d01) \o <<Do("ReadDispatch", 1, 0, Is(d01))>>
            \o Write(Record(2, "sonnet", "running")) \o Write(Record(3, "fable", "completed"))
            \o <<Do("DispatchFacts", 0, 0, Is([active |-> 2, reason |-> 2]))>>)

AgentCheckpointLedgerRoundtrip ==
    LET a == [id |-> "a1", status |-> "running", usage |-> "counts"]
        b == [a EXCEPT !.status = "completed"]
        c == [id |-> "c", status |-> "proposed"]
        e == [kind |-> "checkpoint_candidate", usage |-> "counts"] IN
    InOrder(mustCreateRun \o mustAllocDispatch(1) \o
            <<Do("WriteAgentRun", 0, a, AnyOk), Do("WriteAgentRun", 0, b, AnyOk),
              Do("ListAgentRuns", 0, 0, Is({b})),
              Do("AppendCandidate", 0, c, AnyOk), Do("ListCandidates", 0, 0, Is(<<c>>)),
              Do("AppendLedgerEvent", 0, e, AnyOk), Do("ListLedgerEvents", 0, 0, Is(<<e>>))>>)

AgentCheckpointStatusDefaults ==
    LET a == [id |-> "a1", status |-> "", usage |-> "nil"]
        c == [id |-> "c", status |-> ""] IN
    InOrder(mustCreateRun \o mustAllocDispatch(1) \o
            <<Do("WriteAgentRun", 0, a, AnyOk),
              Do("ListAgentRuns", 0, 0, Is({[a EXCEPT !.status = "spawned"]})),
              Do("AppendCandidate", 0, c, AnyOk),
              Do("ListCandidates", 0, 0, Is(<<[c EXCEPT !.status = "proposed"]>>))>>)

BriefReportRoundtrip ==
    InOrder(mustCreateRun \o mustAllocDispatch(1) \o
            <<Do("WriteBrief", 1, "brief", AnyOk), Do("ReadBrief", 1, 0, Is("brief")),
              Do("WriteReport", 1, "report", AnyOk), Do("ReadReport", 1, 0, Is("report")),
              Do("WriteBrief", 1, "brief v2", AnyOk), Do("ReadBrief", 1, 0, Is("brief v2"))>>)

NoteOrdering ==
    LET note(a) == Do("AppendNote", 0, [author |-> a, body |-> "note"], AnyOk) IN
    InOrder(mustCreateRun \o
            <<note("orchestrator"), note("investigator"), note("worker"),
              Do("ListNotes", 0, 0, Is(<<[at |-> 1, author |-> "orchestrator"],
                                         [at |-> 2, author |-> "investigator"],
                                         [at |-> 3, author |-> "worker"]>>))>>)

AdapterConfig ==
    InOrder(mustCreateRun \o mustAllocDispatch(1) \o
            <<Do("WriteAdapterConfig", 1, "config", AnyOk), Do("WriteAdapterConfig", 1, "config", AnyOk)>>)

ConcurrentTraceAppend ==
    [first    |-> mustCreateRun \o mustAllocDispatch(1),
     together |-> {Call("AppendTraceEvent", "r1", 1, [kind |-> "tool", by |-> g]) : g \in 1..3},
     tally    |-> (TRUE :> 3),
     last     |-> <<Do("AppendTraceEvent", 1, [kind |-> "read", by |-> 1], AnyOk)>>]

AuditSinkWrites ==
    InOrder(mustCreateRun \o
            <<Do("AuditSink", 0, "dispatch", AnyOk), Do("WriteDecision", 0, "dispatch", AnyOk),
              Do("AuditSink", 0, "toolgate", AnyOk), Do("WriteDecision", 0, "toolgate", AnyOk),
              Do("AuditSink", 0, "unknown", Fails)>>)

MaterializeIdempotent ==
    InOrder(mustCreateRun \o mustAllocDispatch(1) \o
            <<Do("Materialize", 1, 0, AnyOk), Do("Materialize", 1, 0, AnyOk)>>)

ListRuns ==
    InOrder(<<Do("CreateRun", 0, SomeRun("r1", "completed"), AnyOk),
              Step(Call("CreateRun", "r3", 0, SomeRun("r3", "running")), AnyOk),
              Do("ListRuns", 0, 0, Runs({"r1", "r3"}))>>)

ReadAdapterConfig ==
    InOrder(mustCreateRun \o mustAllocDispatch(1) \o
            <<Do("WriteAdapterConfig", 1, "config", AnyOk), Do("ReadAdapterConfig", 1, 0, Is("config"))>>)

RenderTree ==
    InOrder(mustCreateRun \o mustAllocDispatch(1) \o Write(Record(1, "sonnet", "completed")) \o
            <<Do("RenderTree", 0, 0, Shows({1}))>>)

BuildRunSummaryJSON ==
    InOrder(mustCreateRun \o mustAllocDispatch(1)
            \o Write([Record(1, "sonnet", "completed") EXCEPT !.usage = "counts"]) \o
            <<Do("BuildRunSummaryJSON", 0, 0,
                 Is([run |-> "r1", status |-> "created", budget |-> 3,
                     dispatches |-> <<[line  |-> [id |-> 1, level |-> 0],
                                       shown |-> [status |-> "completed", cost |-> 0,
                                                  usage |-> "counts", report |-> FALSE]]>>]))>>)

BuildDispatchTree ==
    InOrder(mustCreateRun \o mustAllocDispatch(1) \o Write(Record(1, "sonnet", "running")) \o
            <<Do("BuildDispatchTree", 0, 0, Shows({1}))>>)

BuildDispatchTreeV2Fields ==
    LET d == [Record(1, "sonnet", "denied") EXCEPT !.enforcement = "degraded", !.sandbox = "container"] IN
    InOrder(mustCreateRun \o mustAllocDispatch(1) \o Write(d) \o
            <<Do("BuildDispatchTree", 0, 0, Is(<<[line |-> [id |-> 1, level |-> 0], shown |-> d]>>))>>)

-----------------------------------------------------------------------------
(* The claims.  A lease of 50 ms is over at 2, one of seconds at 9; the    *)
(* cases wait until 3.                                                     *)

Claim(d, x, until, won) == <<Do("ClaimDispatch", d, [executor |-> x, until |-> until], Is(won))>>
Expire(ids) == <<Do("ExpireLeases", 0, 3, Is(ids))>>
Reads(x) == <<Do("ReadDispatch", x.id, 0, Is(x))>>
Pending1 == Record(1, "sonnet", "pending")
Claimed1(x, until) == [Pending1 EXCEPT !.status = "claimed", !.owner = x, !.lease = until]

ClaimConcurrent ==
    [first    |-> mustCreateRun \o mustSeedPending(1),
     together |-> {Call("ClaimDispatch", "r1", 1, [executor |-> x, until |-> 9]) :
                       x \in {"exec-1", "exec-2", "exec-3"}},
     tally    |-> (TRUE :> 1) @@ (FALSE :> 2),
     last     |-> Claim(1, "exec-4", 9, FALSE)]

ClaimExpireRequeue ==
    InOrder(mustCreateRun \o mustSeedPending(1) \o Claim(1, "exec-a", 2, TRUE) \o Expire(<<1>>)
            \o Reads(Pending1) \o Claim(1, "exec-b", 9, TRUE))

ClaimRenewPreventsExpiry ==
    InOrder(mustCreateRun \o mustSeedPending(1) \o Claim(1, "exec-renew", 2, TRUE) \o
            <<Do("RenewLease", 1, [executor |-> "exec-renew", until |-> 9], AnyOk)>>
            \o Expire(<< >>) \o Reads(Claimed1("exec-renew", 9)))

ClaimReleaseTerminal ==
    InOrder(mustCreateRun \o mustSeedPending(1) \o Claim(1, "exec-rel", 9, TRUE) \o
            <<Do("ReleaseDispatch", 1, [executor |-> "exec-rel", status |-> "completed"], AnyOk)>>
            \o Reads([Pending1 EXCEPT !.status = "completed"]) \o Expire(<< >>) \o
            <<Do("ListPending", 0, 0, Is(<< >>))>>)

ListPendingDispatches ==
    InOrder(mustCreateRun \o mustSeedPending(1) \o mustSeedPending(2) \o mustSeedPending(3)
            \o Claim(2, "exec-x", 9, TRUE) \o
            <<Do("ListPending", 0, 0, Is(<<Pending1, Record(3, "sonnet", "pending")>>))>>)

RunningStateExpireWithLease ==
    InOrder(mustCreateRun \o mustSeedPending(1) \o Claim(1, "exec-crash", 2, TRUE)
            \o Reads(Claimed1("exec-crash", 2))
            \o Write([Claimed1("exec-crash", 2) EXCEPT !.status = "running"])
            \o Expire(<<1>>) \o Reads(Pending1) \o Claim(1, "exec-recovery", 9, TRUE))

RunningStateNoLeaseUntouched ==
    InOrder(mustCreateRun \o mustAllocDispatch(1) \o Write(Record(1, "fable", "running"))
            \o Expire(<< >>) \o Reads(Record(1, "fable", "running")))

-----------------------------------------------------------------------------

\* Run: every case, by its name.
Suite ==
    [RunCRUD                        |-> RunCRUD,
     DispatchAllocMonotonic         |-> DispatchAllocMonotonic,
     DispatchAllocConcurrent        |-> DispatchAllocConcurrent,
     DispatchFacts                  |-> DispatchFacts,
     BriefReportRoundtrip           |-> BriefReportRoundtrip,
     NoteOrdering                   |-> NoteOrdering,
     AdapterConfig                  |-> AdapterConfig,
     ConcurrentTraceAppend          |-> ConcurrentTraceAppend,
     AuditSinkWrites                |-> AuditSinkWrites,
     MaterializeIdempotent          |-> MaterializeIdempotent,
     ListRuns                       |-> ListRuns,
     ReadAdapterConfig              |-> ReadAdapterConfig,
     RenderTree                     |-> RenderTree,
     BuildRunSummaryJSON            |-> BuildRunSummaryJSON,
     BuildDispatchTree              |-> BuildDispatchTree,
     BuildDispatchTreeV2Fields      |-> BuildDispatchTreeV2Fields,
     AgentCheckpointLedgerRoundtrip |-> AgentCheckpointLedgerRoundtrip,
     AgentCheckpointStatusDefaults  |-> AgentCheckpointStatusDefaults,
     ClaimConcurrent                |-> ClaimConcurrent,
     ClaimExpireRequeue             |-> ClaimExpireRequeue,
     ClaimRenewPreventsExpiry       |-> ClaimRenewPreventsExpiry,
     ClaimReleaseTerminal           |-> ClaimReleaseTerminal,
     ListPendingDispatches          |-> ListPendingDispatches,
     RunningStateExpireWithLease    |-> RunningStateExpireWithLease,
     RunningStateNoLeaseUntouched   |-> RunningStateNoLeaseUntouched]

VARIABLES case, subject,   \* which case, on which store
          store,
          at,        \* the steps of the case that are done, in order
          together,  \* the answers to the concurrent calls
          last,      \* the step that was done last, and its answer
          neighbour  \* the calls of the neighbour

casevars == <<case, subject, store, at, together, last, neighbour>>

TheCase == Suite[case]
Perform(o) == IF subject = "fs" THEN FsDo(store, o) ELSE PgDo(store, o)

CaseInit ==
    /\ case \in DOMAIN Suite
    /\ subject \in {"fs", "pg"}
    /\ store = IF subject = "fs" THEN FsEmpty ELSE PgEmpty
    /\ at = 0
    /\ together = << >>
    /\ last = [step |-> Do("Materialize", 0, 0, AnyOk), ans |-> Ok(TRUE)]
    /\ neighbour = 0

DoStep(step) ==
    LET got == Perform(step.call) IN
    /\ store' = got.store
    /\ last' = [step |-> step, ans |-> got.ans]
    /\ at' = at + 1
    /\ UNCHANGED <<case, subject, together, neighbour>>

Before == at < Len(TheCase.first) /\ DoStep(TheCase.first[at + 1])

\* One of the goroutines.
Goroutine ==
    /\ at = Len(TheCase.first)
    /\ \E o \in TheCase.together \ DOMAIN together :
         LET got == Perform(o) IN
         /\ store' = got.store
         /\ together' = (o :> got.ans) @@ together
    /\ UNCHANGED <<case, subject, at, last, neighbour>>

\* wg.Wait() has returned.
After ==
    /\ DOMAIN together = TheCase.together
    /\ LET i == at - Len(TheCase.first) + 1 IN
       /\ i \in DOMAIN TheCase.last
       /\ DoStep(TheCase.last[i])

\* The neighbour has a run of its own, r2.
NeighbourCalls ==
    LET x == [executor |-> "exec-n", until |-> 2] IN
    <<Call("AllocDispatch", "r2", 0, 0), Call("WriteDispatch", "r2", 1, Record(1, "fable", "pending")),
      Call("ClaimDispatch", "r2", 1, x), Call("ExpireLeases", "r2", 0, 3),
      Call("WriteBrief", "r2", 1, "other"), Call("WriteAdapterConfig", "r2", 1, "other"),
      Call("AppendNote", "r2", 0, [author |-> "other", body |-> "other"])>>
Neighbour ==
    /\ neighbour < MaxNeighbour
    /\ neighbour' = neighbour + 1
    /\ IF neighbour = 0 THEN store' = Perform(Call("CreateRun", "r2", 0, SomeRun("r2", "running"))).store
       ELSE \E i \in DOMAIN NeighbourCalls : store' = Perform(NeighbourCalls[i]).store
    /\ UNCHANGED <<case, subject, at, together, last>>

CaseNext == Before \/ Goroutine \/ After \/ Neighbour

CaseSpec == CaseInit /\ [][CaseNext]_casevars

-----------------------------------------------------------------------------

AsWanted == Meets(last.step.wanted, last.ans)
Times(v) == Cardinality({o \in DOMAIN together : together[o] = Ok(v)})
TogetherAsWanted ==
    (TheCase.together # {} /\ DOMAIN together = TheCase.together) =>
        \A v \in DOMAIN TheCase.tally : Times(v) = TheCase.tally[v]

\* Every store passes every case of the suite, in every order of the
\* concurrent calls and whatever a neighbour does to another run meanwhile;
\* only the list of the pending dispatches of postgres is left out here.
SuitePasses ==
    /\ AsWanted \/ (subject = "pg" /\ last.step.call.op = "ListPending")
    /\ TogetherAsWanted

\* The pending dispatches are listed (store.go:180-182, storetest.go:1177).
PendingListed == last.step.call.op = "ListPending" => AsWanted
=============================================================================
