------------------------------ MODULE Records -------------------------------
(***************************************************************************)
(* What the two stores have in common: the shapes of the records, the      *)
(* defaults, the counters and the tree of dispatches.  A store is a value; *)
(* an operation on it gives a value and an answer, and an answer is <<v>>  *)
(* or, for an error, << >>.                                                *)
(***************************************************************************)
EXTENDS Naturals, Sequences, FiniteSets, SequencesExt

CONSTANT MaxDispatch   \* dispatches are numbered to this; up to 99 their
                       \* names d01, d02, ... sort as their numbers do
ASSUME RecordsAssumption == MaxDispatch \in 1..99

Root       == MaxDispatch + 1   \* "root" sorts after every dNN
DispatchId == 1..Root
NoParent   == 0
NoLease    == 0
NoPid      == 0
AlivePid   == 1     \* a supervisor of this dispatch runs under it
DeadPid    == 2

Ok(v) == <<v>>
Err   == << >>
Done(s)      == [store |-> s, ans |-> Ok(TRUE)]
Answer(s, v) == [store |-> s, ans |-> Ok(v)]
Fail(s)      == [store |-> s, ans |-> Err]

Get(f, k, default) == IF k \in DOMAIN f THEN f[k] ELSE default
Set(f, k, v) == [x \in DOMAIN f \cup {k} |-> IF x = k THEN v ELSE f[x]]
SetOnce(f, k, v) == IF k \in DOMAIN f THEN f ELSE Set(f, k, v)

\* The i-th of the numbers of S is the one with i - 1 below it.
Asc(S) == [i \in 1..Cardinality(S) |->
             CHOOSE x \in S : Cardinality({y \in S : y < x}) = i - 1]
InTime(notes) == SetToSortSeq(notes, LAMBDA m, n : m.at < n.at)

DefaultMaxDepth == 2

-----------------------------------------------------------------------------

IsActive(d)     == d.status \in {"running", "pending", "claimed"}
IsReasonTier(d) == IF d.tier # "" THEN d.tier = "reason" ELSE d.model = "fable"
IsTerminal(s)   == s \in {"completed", "failed", "halted", "stale", "denied"}

ValidAgentRunStatus(s) ==
    s \in {"requested", "spawned", "running", "completed", "failed", "halted",
           "late", "stale", "superseded", "closed"}
ValidCheckpointStatus(s) ==
    s \in {"proposed", "fresh", "late-valid", "late-stale", "conflicting",
           "accepted", "rejected"}

\* A usage is a nil pointer, a record of zeros, or counts something.
Usages == {"nil", "zeros", "counts"}
UsageShown(u) == IF u = "counts" THEN u ELSE "nil"

EffectiveStatus(d) ==
    IF d.status = "running" /\ d.pid = DeadPid THEN "stale" ELSE d.status

Facts(ds) ==
    [active |-> Cardinality({i \in DOMAIN ds : IsActive(ds[i])}),
     reason |-> Cardinality({i \in DOMAIN ds : IsReasonTier(ds[i])})]

Total(numbers) == FoldFunction(+, 0, numbers)
TotalCost(ds)  == Total([i \in DOMAIN ds |-> ds[i].cost])

\* A task is the sequence of its lines, a blank one is "".
FirstLine(task) ==
    LET NotBlank(l) == l # ""
        lines == SelectSeq(task, NotBlank) IN
    IF lines = << >> THEN task ELSE <<lines[1]>>

-----------------------------------------------------------------------------

\* The ids of the top of the tree: no parent, or one that is not listed.
Tops(ds) ==
    LET ids == {d.id : d \in ToSet(ds)} IN
    {d.id : d \in {e \in ToSet(ds) : e.parent \notin ids}}
Kids(ds, id) == {d.id : d \in {e \in ToSet(ds) : e.parent = id}}

\* Depth first from tops, a sequence; kids[id] is that of the ids under id.
Walk(kids, tops, top) ==
    LET walk[ids \in Seq(DispatchId), level \in Nat] ==
            IF ids = << >> THEN << >>
            ELSE <<[id |-> Head(ids), level |-> level]>>
                 \o walk[kids[Head(ids)], level + 1]
                 \o walk[Tail(ids), level]
    IN  walk[tops, top]

\* The tree in the order it is shown.  Several tops hang from a node without
\* a dispatch.
BuildTree(ds) ==
    Walk([id \in DispatchId |-> Asc(Kids(ds, id))], Asc(Tops(ds)),
         IF Cardinality(Tops(ds)) = 1 THEN 0 ELSE 1)

Listed(ds, id) == CHOOSE d \in ToSet(ds) : d.id = id

\* Every line of the tree with what view, a function, makes of its dispatch.
Shown(ds, view) ==
    LET lines == BuildTree(ds) IN
    [i \in DOMAIN lines |-> [line |-> lines[i], shown |-> view[Listed(ds, lines[i].id)]]]

TierOrModel(d) == IF d.tier # "" THEN d.tier ELSE IF d.model # "" THEN d.model ELSE "?"
ModelLabel(d)  == IF d.model # "" THEN d.model ELSE "?"
=============================================================================
