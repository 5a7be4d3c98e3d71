# A formal model of tiller

tiller runs a tree of coding agents.  An orchestrator (the *root* dispatch)
asks for further agents with `tiller dispatch`; a policy says yes or no; the
agent runs either as a detached process under `tiller _supervise` or, when it
was queued, inside `tiller pool`.  All parts meet in one place, the dispatch
records of the run, which every process reads and writes whole.

In an *ambient* session there is no run of tiller's own: an agent program calls
its tools, and hook processes keep a ledger of them and advise what to do next.

The TLA+ modules here model that machinery from the Go source: who may start
what, who holds a queued dispatch, what is written to its record and when, what
survives crashes, lost writes and late processes, how a file is written, what
the two stores make of the same calls, and what the hooks of a session make of
its tool calls.  TLC checks small instances; the safety properties of the lease
store, the pool and its detached agents, the file store's claims, the gates, the
supervised processes, the files of a run, the mirror, the agreement of the two
stores, their exports and the ambient sessions are proved with TLAPS for every
instance, with the exceptions section 5 names.

## 1. Inventory

| component | state | operations | talks to | what is hard | what makes it correct |
|---|---|---|---|---|---|
| lease store (`scratch/store.go`, `pgstore/claims.go`) | per dispatch: status, claimed_by, lease_until | claim, renew, release, expire | pool, dispatch | sweeps against holders, whole-record writes of the same row | a dispatch has a holder and a deadline exactly while held; finished is final; no hand-over without the queue |
| file store claims (`fsstore/claims.go`) | meta.json and the file `claim` | the same, in two steps each | pool | crash or another process between the two files | one party at a time may remove a claim file; held implies claim file; claim files are not left behind |
| executor pool (`pool/pool.go`) | worker position, copy of the record, delivery journal | deliver, claim, gate, mark, renew, run, release, sweep | store, policy, adapters | several pools, leases that expire under a slow worker, restart with a journal | no double run, outcomes are recorded, reruns only after a fault, every queued dispatch finishes |
| dispatch policy (`policy/defaults/dispatch.arb`, `policy/eval.go`, `combinator.go`) | none | allow or deny, grant a tier | dispatch, pool | fourteen rules with priorities that look at different fields of the request | judged through the histories it allows, in the next row |
| `tiller dispatch` (`cli/dispatch.go`, `run/store.go`) | an invocation between counters, allocation and record | count, ask, allocate, write | policy, stores, pool | counters read long before the record is written; planned and granted tier differ | bounded overshoot of the cap, reason tier only below the root, readonly subtrees, degraded adapters only for execute, the pool refuses for limits only |
| supervised process (`spawn/supervise.go`, `procutil`) | supervisor, claude, timer, copy of the record | spawn, write pid, run, time out, finalize | dispatch, run, await | two writers of whole records, timer race, killed supervisors | stale means gone, timed out is not completed |
| `tiller run`, `tiller await` (`cli/run.go`, `cli/poll.go`) | what was listed or read | wait, sweep orphans, kill, close the run; poll | supervised process | checks on records read earlier, waits without an end | run verdict agrees with the root, nothing is left running, await answers |
| claude-headless adapter (`adapter/claudeheadless`) | a poll of the record | spawn, poll, give up | pool, supervised process | the supervisor survives its pool and outlasts the lease; a poll without an orphan check | an outcome is there in the end; the slot is freed |
| command, claude-code, codex adapters | none of their own | prepare, run | pool, dispatch | | a result, in Pool |
| mirroring store (`scratch/teestore.go`) | bounded queue of mirror operations | every store operation | file and pg store | drops, reordering across processes, an operation that is not mirrored | no outcome or row that is not there; three named reasons to disagree; callers are not delayed, Close returns |
| record files (`fsstore/fsstore.go`, `fsstore/claims.go`, `run/lock.go`) | path, temporary path, inodes and their locks | put, update in place, rewrite, read | all | lock on an inode that is renamed away, shared temporary name, truncation, death between two calls | a document is an atomic register; undisturbed updates add up and are whole |
| file store (`fsstore`, `run/*.go`) | a tree of directories and files | every method of `scratch.Store` | all | defaults, orders and errors that come from files | answers as the other store does |
| postgres store (`pgstore`) | eight tables | the same | all | upserts and column lists by hand, foreign keys, a placeholder row | the same |
| export, materialize (`scratch/export.go`, `pgstore.go`) | a directory made from the tables | copy | both stores | field by field, file by file | a reader of the copy sees what postgres has |
| store suite (`scratch/storetest`) | 28 cases | calls with wanted answers, some concurrent | both stores | one order of the calls is tried | passes in every order |
| ambient hooks (`hook/ambient_*.go`, `hook/codex_lifecycle.go`, `hook/hook.go`, `ambientgate`) | ledger, agent records, candidates, status.md, the file that disables | PreToolUse, PostToolUse, SubagentStart | status, policy | a process per event, files shared without a lock, answers after other requests | attempts are told apart; a failure is not lost; wait means work; status.md is current |
| status and next action (`scratch/status.go`, `ambient_next_action.go`, `ambient_next_action.arb`, `cli/ambient*.go`) | none | derive facts, choose an action, propose an agent | ambient hooks | first case that applies, over facts of all attempts | judged through the histories, in the row above |
| agent runs, checkpoints, ledger (`scratch/records.go`, `checkpoint`) | their records | write, list, validate | stores, hooks | | part of the stores; `ClassifyFreshness` has no caller |
| tool gate (`hook/hook.go`, `cmdclass.go`) | none | classify a command, decide | policy | string matching over one call | not modelled but for the rules for Task (7) |
| promotion, sandbox plan, tiers, store resolution, audit, installation | configuration and output | | | | not modelled: input and output, or pure configuration |

The components and their status are also in `PROJECT.json`, with every hazard
at its line.

## 2. Modules

```
LeaseStore  <---- Pool <---- PoolProperties <---- MCPool, MCPoolAgents ----> HeadlessPool
    ^  ^                           ^------------- PoolProofs ------------------^
    |  |-- FsClaims <---- MCFsClaims
    |        ^----------- FsClaimsProofs
    |-- PgStore <---- TeeStore <---- TeeStoreProperties <---- MCTeeStore
    |                    ^---------- TeeStoreProofs
    |-- LeaseStoreProofs (extended by the other three)

DispatchPolicy <---- DispatchGate <---- MCDispatchGate
                         ^------------- DispatchGateProofs
Supervise <---- MCSupervise
    ^---------- SuperviseProofs

AtomicRecord <- - - RecordFile <---- RecordsProofs ----> RecordStores
                        ^----------------------------------------------- MCRecords
Records <---- FsRecords, PgRecords <---- RecordStores <---- StoreCases <-----'
NextAction <---- Ambient <---- MCAmbient
                    ^--------- AmbientProofs
```

* **LeaseStore** is the contract: the claim half of `scratch.Store`, one atomic
  step per operation.  That is what pgstore does (one UPDATE whose WHERE clause
  is the guard).  A deadline is the number of ticks until it has passed.
* **FsClaims** is the file store's way to keep the contract.  `rec` is
  meta.json, changed under a lock, so an update is one step; `claim` is the claim file.
  `op[p][d]` says between which two steps process `p` stands.  `FsSpec =>
  StoreSpec` says that it implements LeaseStore, with `rec` mapped to `rec`.
* **Pool** is `executeDispatch`, one action per store or adapter call, with the
  copy of the record (`snap`) a worker carries from its read to its write, the
  renewer beside it, the sweeper, the clock, and a crash that restarts the
  process with its journal.  It uses LeaseStore's operations on `rec`, except
  where the code does not: `DenyWrite` and `MarkRunning` write back the copy.
  That these writes are LeaseStore steps all the same is a property,
  `StoreSpec`, which needs the lease to outlast the worker.  The adapters it
  stands for are those that write nothing themselves (command); HeadlessPool has the other.
* **HeadlessPool** is the worker of a pool around `claudeheadless.Run`, with the
  supervisors it starts: one dispatch, several pools and supervisors, each with the record it has read
  (`read`, `taken`) and may write back later.  Here a lease may run out
  whenever its holder is past the set-up, since a running dispatch is not renewed, so
  that two agents of a dispatch do run side by side; `Shutdown` is the cancelled poll,
  `PoolDies` a pool whose supervisor goes on.
* **PoolProperties** are the pool's promises; the proofs and the runs share them.
* **DispatchPolicy** is dispatch.arb as a table of conditions and priorities, the
  combinator of `combinator.go`, and the tier that `EvalDispatch` grants.  Among
  the denials of the lowest matching priority any may be the one that is named.
* **DispatchGate** puts `tiller dispatch` (read counters and ask, allocate, write),
  the pool's second gate with the request it builds from the record, and the
  end of agents together over one run.  The root's record is not a variable:
  it is running and is counted.  `PoolExpire` stands for a pool that is gone; a
  pool that outlives its lease is Pool's subject.
* **Supervise** has four kinds of processes over the records: SpawnDetached,
  `_supervise` with its claude and its timer, `tiller await`, `tiller run`.
  Copies (`spcopy`, `copy`, `look`, `listed`) are what they read earlier.

* **PgStore** is the table of dispatches in postgres as a value, and what each
  statement of pgstore makes of it: `AllocDispatch` with its sequence and its
  placeholder row, `WriteDispatch`, and the claim statements, which change nothing
  when their WHERE clause matches no row.
* **TeeStore** is the store behind `--store tee`.  A call is a step of LeaseStore on
  `rec` (the file store) that leaves a mirror operation in `mid`; `Send` is
  `enqueue`, with its drop; `Mirror` is one turn of `mirrorLoop` on the `pg` table.
  Every process has its own queue, so operations of a requester and of a pool
  reach postgres in any order.  `apart` records why the two stores may disagree
  about a dispatch; no guard reads it.
* **TeeStoreProperties** are the promises about rows, records and callers.  `CaughtUp(d)`
  says that nothing of `d` is on its way any more.  The loop can always apply the
  next operation without losing it, so from every state there is a way to one
  where the mirror has caught up, and `MirrorFollows` says what it shows there.

* **AtomicRecord** is what readers of a document are promised: the text of one
  write, which takes effect at one moment or never.
* **RecordFile** is one file and the processes that write it, a system call at a
  time, over inodes: `writeFileSafe` (`OpenTmp`, `WriteTmp`, `Rename`),
  `flockUpdateMeta` (`OpenToUpdate`, `Lock`, `Decode`, `Truncate`, `Encode`),
  `flockWrite` (`OpenToRewrite`, `Lock`, `Rewrite`), and `Die`.  A text is the set of the
  writes it carries, so a lost update is a missing element.  `DocumentsAtomic`
  is the refinement of AtomicRecord, with `text` mapped to what the path shows.
* **Records**, **FsRecords**, **PgRecords** make each store a value and each of its
  methods an operator `(store, arguments) -> (store, answer)`: paths to texts and
  lines here, tables there.  An error is the answer `<< >>`.  Ids are numbers, as
  `d01` to `d99` sort like them; a record has the fields that some answer depends on.
  A list in the order of the ids is made by rank (`Asc`), the tree is walked by a recursive
  function (`Walk`) and lines are functions from the run to its rows, so that all of it can
  be reasoned about.
* **RecordStores** has one interface for both (`FsDo`, `PgDo`), `Tee`, which performs a call on
  the files and queues it for the mirror, `Materialize` and `ExportRun`, which makes the directory
  of each dispatch (`ExportDispatch`) apart from the others.  A session writes either dispatches and their documents or agents, candidates,
  events and notes (`topic`), since no method relates the two.
* **StoreCases** are the cases of `storetest` as scripts of calls and wanted answers; the
  calls a case makes from goroutines come in every order, and a neighbour works
  on another run of the same store.
* **NextAction** is `ambient_next_action.arb` as a list of cases, of which the first that
  applies is taken, with the fallback, the older recommendations and the agent
  `tiller ambient step` proposes.
* **Ambient** has the hook processes of a session.  `AskTask`, `AppendAmbientTaskDescriptor`
  and `HandleAmbientPreToolUse` are one PreToolUse process, `ReconcileAmbientPostToolUse` to
  `AppendAmbientReport` one PostToolUse process, and both end with `RenderStatusMarkdown`
  and `WriteStatusMarkdown`: each read of the shared files is a step, each write
  another.  `step` says where the hook of a call stands.  Claude Code calls Task;
  Codex calls spawn_agent, then wait_agent and close_agent, and has a hook for
  the start of an agent.

Some definitions are used by none of the actions: `ClaimsTerminal`,
`FiresDepthInclusive` and the like are variants of the definition below them,
each with one plausible mistake.  Putting a variant in place of its
definition violates one property; `PROJECT.json` lists the pairs under `mutants`.

## 3. Runs

| run | instance | result |
|---|---|---|
| `pool` | 2 pools, 2 dispatches, 1 fault (crash or failed write), lease 3, hold 2; detached agents: 2 pools, 2 supervisors, 1 crash, signal or failed call | all hold |
| `pool_long_run` | 2 pools, 1 dispatch, no fault, lease 3, adapter may take 5 | `NoDoubleRun` violated |
| `fs_claims` | 2 processes, 2 dispatches, 1 failed update, 1 crash or failed unlink | all hold |
| `fs_claims_crash` | 2 processes, 1 dispatch, 1 crash | `PendingTaken` violated |
| `dispatch_gate` | default limits but a cap of 3; one invocation after another over 6 roles, 5 values of `--tier`, queued or not, up to 3 dispatches; 2 invocations together up to 4 | all hold |
| `reason_budget` | max depth 3, 3 dispatches | `ReasonWithinBudget` violated |
| `supervise` | root and 1 dispatch, 1 kill, 1 lost write | all hold |
| `supervise_root` | root only, nobody killed, nothing lost | `RootSettles` violated |
| `tee_store` | 2 requesters, 1 pool, queue capacity 1, 1 crash or failed statement, 1 repeated call, postgres may hang | all hold |
| `records` | 3 writers, 4 writes, 1 death; 6 calls of a session, mirror 2 behind; all cases on both stores, 3 calls of a neighbour | all hold |
| `pg_pending` | the cases, no neighbour | `PendingListed` violated |
| `ambient` | 3 calls, 2 at a time, 2 tasks, 3 kinds of answers, 1 disable, either backend | all hold |

**Bounds.**  `MaxFaults`, `MaxCrashes`, `MaxKills`, `MaxLost` bound how often
something goes wrong; one is enough for each interesting sequence, because a
second fault starts from states the first has already been through.  Two pools
are what a race of claimants or of holder and sweeper needs; two dispatches let
a worker of one be interleaved with the sweep of the other and exceed
`MaxConcurrent` and `ActiveCap` of 1.  `MaxId = 3` gives chains as long as
`MaxDepth = 2` allows and one more.  MCDispatchGate joins the two questions that run is
for: the first invocation works alone, with every role and tier, up to `MaxAlone`
dispatches; two invocations at once only ask for workers, and 4 ids exceed the
cap of 3 by the one that is allowed.  SupTypeOK and the other sets of values at the head
of a module say what its variables range over.  `Lease = 3` against `MaxHold = 2` is the least
pair with room between the two, `RenewEvery = 1` the least interval.  `QueueCap = 1` makes
a drop possible after one operation, where the code needs 512.  `MaxRepeats`
bounds what a caller may do at will (renewals, writes of a reason, sweeps):
one sweep suffices for the second claim that the mirror does not know of.
Two supervisors and two pools are what it takes for a dispatch to be run beside
itself; a third would repeat what the second does to the first.
MCRecords runs three independent parts, chosen in the initial state.  Three writers
are what it takes for two to wait for a lock while a third replaces the file; six
calls write a record of each stage below the root and one document;
three dispatches are what the cases of the suite need.  Three tool calls are a
failed attempt, a second one of the same task, and one of another task between.
`Queued = {2}` lets dispatch 1 be allocated and never written, which is what
disturbs the numbering; `Ending` names the processes that close or crash, one
pool and one requester.  The proofs are for all values.

**Fairness** is weak and only for what the code does by itself: a live worker
goes on, the runner delivers what is pending, the sweeper runs after every
poll, a spawned supervisor goes on, a poll loop polls, agents end, time passes.
Nothing is assumed of users, crashes, timers or failures.  `QueuedFinishes`
needs a second pool: the one that crashed finds the dispatch in its journal
and does not take it again.  `AwaitAnswered` assumes that agents end, as the
supervisor would wait for one that does not; so does `SlotFreed`.  In TeeStore nothing is assumed of
postgres while a process is open (the statements have no timeout), which is why
`CallerNotBlocked` says something; `CloseDrains` assumes that it answers, or
fails, once the queue is being drained: if it hangs, so does the command.

RecordFile, RecordStores, StoreCases and Ambient make no claim about progress and
assume nothing: a hook or a writer may stop for ever at any step.

Deadlock is checked in `fs_claims`, where time always passes; the other systems stop when
their dispatches have ended, and in `pool` it is `QueuedFinishes` and `SlotFreed` that
exclude a standstill.

## 4. What the runs found

* **A long run is executed twice** (`pool_long_run`).  The pool marks the
  dispatch running before it starts the renewer, and `RenewLease` refuses
  everything that is not `claimed`.  So no lease of a running dispatch is ever
  renewed, and a run longer than the lease is handed to another pool.  README.md:318
  says the pool renews the lease on a fixed interval.
* **A crash can make a dispatch unclaimable** (`fs_claims_crash`).  The claim
  file outlives a crash between it and the record, and nothing removes it.
* **The reason budget is not enforced without `--tier`** (`reason_budget`).  The
  rule looks at the tier that is asked for, not at the one that is granted.
* **`tiller run` may wait for ever** (`supervise_root`).  A supervisor that fails
  before claude starts does not touch the record, and `waitForRoot` has neither
  a timeout nor an orphan check.

* **Postgres cannot list pending dispatches** (`pg_pending`).  The statement names 23
  columns and the scan 25, so a pool on postgres loads no queue once there is one.

`tee_store` finds no disagreement that the code does not state, but says how weak the
mirror is: after a single sweep, or a claim that overtakes its dispatch, the row
may stay behind the record for good, since no later operation repairs it except a
whole-record write.  The comment of teestore.go that all writes are mirrored
(teestore.go:12-13) leaves out the sweep (teestore.go:393).

Some properties hold only as they are stated, and the conditions in them are what the
code leaves open:

* RecordFile.  `spoiled` excuses a put that meets an update (the update goes to an
  inode nobody will open, claims.go:260), a rewrite that meets another (lock.go:16 truncates
  before it locks) and a writer that dies after it has truncated.  Readers of
  meta.json see it empty between `Truncate` and `Encode`; a put is never seen in
  part.  The comment at fsstore.go:857-858 that writes are atomic is true of puts only.
* HeadlessPool.  `Mishap` names what loses a dispatch or holds a slot for good: a supervisor that
  ends without having written (claudeheadless.go:146 looks at nothing but the record), one that is done before
  SpawnDetached writes the pid into the record it has read (supervise.go:496-498), and a
  worker that marks the dispatch running and starts nobody.  The outcome that is kept need
  not be the first one: an agent whose lease ran out, or whose pool was told to stop and
  released the dispatch as failed, replaces it when it ends, with a claim that is over.
* RecordStores.  The stores agree when every allocated id has a record: until then postgres
  shows a placeholder, which is pending, counted and claimable.  A usage of
  zeros, the store mode and the names of notes are stored differently; so are
  trees in which the label of a dispatch without a report names the tier or the model.
  A configuration that is written before its row exists is lost in postgres, an
  update of a run that does not exist is an error in one store and silent in
  the other, and creating a run again overwrites it in the file store only.  The manifest in
  an export has the names of Go's fields and does not read back (export.go:42-49).
* Ambient.  `blurred` excuses tasks of which two calls overlap, or one began while
  ambient was disabled: their attempts share or skip numbers (README.md:141 promises distinct
  ones).  `WaitMeansWork` names the request that was denied after it had been recorded
  (it stays `requested` for ever, and the advice stays to wait) and an answer that came
  while ambient was disabled.  It speaks of the first attempt only: the result of an
  earlier one hides that a second is at work (status.go:407-438).  And it speaks
  of Claude Code only, since a Codex descriptor is `requested` when spawn_agent has
  answered, and no later answer has its id.  `FailureStands` holds because the
  record of a failed attempt is never updated: after it no success brings
  back the advice to commit, and `retry` is unreachable in Claude Code.  Once a
  candidate is proposed no code accepts or rejects it.  `unsure` excuses a status.md
  written by a hook that ran together with another: the later rename may bring
  the older text.

Everything else that is stated holds, some of it with a reason worth knowing:
`ReasonFromRoot` holds although no rule looks at the granted tier, since the
scope rules happen to forbid insight roles to everybody but the orchestrator and
a person; `StaleIsGone` holds although await and run look at records read earlier,
since a supervisor never comes back; `PoolRefusesForLimits` is as weak as it is
because the pool counts the dispatch it is about to start, so a default budget
of 2 denies a queued reason dispatch for good.

## 5. Proofs

All are checked by tlapm, with no assumption but those named in the modules and
`MaxHold < Lease` where stated.

* **LeaseStoreProofs**: `HeldIffLeased` with the type invariant is inductive
  (`StoreInvInductive`).  `StoreTerminalIsFinal` and `StoreNoHandOver` are
  action properties: the first uses the invariant, since a release compares the
  holder and not the status.
* **PoolProofs**: `PoolTypeCorrect` needs nothing more.  The others assume
  `MaxHold < Lease`: a worker releases before its lease is over.  None of the
  properties is inductive; `IInv` adds
  - `ClaimCovered`: a worker that holds a dispatch is its recorded holder, and the
    ticks left to the deadline exceed the ticks left to the worker;
  - `SnapFresh`: the copy a worker is about to write back is the record as it is,
    which is why a whole-record write loses nothing;
  - `RunsPaid`: runs begun are covered by faults and the run of the present holder.

  `NoDoubleRun`, `OutcomeAccepted` and `RerunNeedsFault` follow from one
  conjunct each; `PoolImplementsStore` from `WriteBack`, which turns `MarkRunning`
  into `Start` and `DenyWrite` into a stutter; `PoolTerminalIsFinal` from it and
  the store's theorem.  The run `pool_long_run` shows that the assumption is needed.
* **FsClaimsProofs**: `FsInv` says for each dispatch who is alone with its claim
  file: a process midway, a sweeper, or the recorded holder (`MidwayAlone`,
  `SweepAlone`, `RewriteHeld`, `FileAccounted`).  The theorems hold for any number
  of crashes, `FsNoOrphanClaim` as long as there is none.  `FsImplementsStore` is
  the refinement of LeaseStore.

* **TeeStoreProofs**: `MirrorInventsNothing` is not inductive, since an outcome is on
  its way before it is shown.  `MirrorInv` adds `WaySound`: every operation in a
  queue or about to be queued is harmless whenever it is applied, because a copy
  that was captured is of an unfinished dispatch and a release was accepted,
  and because `FinalStep` (LeaseStoreProofs) makes an accepted outcome final.  Order
  plays no part, so drops and losses do not either.  `TeeTypeCorrect` includes
  the capacity of the queues.

  `MirrorRowsAllocated` counts.  The mirror draws a number of its own for each alloc it
  applies, and its rows below that number must be dispatches the file store has
  allocated.  `Served` are the allocated dispatches whose one alloc (`OneAlloc`) was applied or
  lost; `Numbered` keeps the mirror's sequence at or below their number, and the
  file store's ids without gaps, so a placeholder never gets ahead of the files.

  For `MirrorFollowsRecord`, where order is everything, `FollowInv` says of each dispatch with
  nothing to set it apart: its row-writing operations are on their way from one process
  only, the requester while it is pending and then its holder (`OneWriter`); the
  first of them fits the row as it is, and each of the others the row that those before
  it leave (`InTurn`), so that no WHERE clause fails; the last leaves the row of the record
  (`LeadsThere`); no operation is that of an earlier or later stage (`NotPast`); and
  with none left the row is that of the record (`Settled`).  An operation on its way has a
  place, in the queue or behind it, and `WayMoved` is the lemma that a step
  which keeps the order of places keeps all this, whatever it does to operations of
  other dispatches.  A drop, a failed statement, a crash, a sweep and a claim that
  overtakes the requester put the dispatch apart, and nothing brings it back.

* **DispatchGateProofs**: `GateInv` says that every record, written or about to be,
  is `Legal`: what the policy allowed for its parent, depth, role and tier, which
  no later step changes.  `AllowedIsClean` is the part of the fourteen rules this rests
  on: which conditions a request that is allowed does not meet.  `Underway` adds that
  an id belongs to one invocation until its record is there.  `GateReasonFromRoot`,
  `GateReadOnlySubtrees` and `GateDegradedServesExecute` follow from `Legal`,
  `GatePoolRefusesForLimits` from the fact that a `Legal` record meets only the conditions of
  the two limits when the pool asks again.  `GateActiveBounded` counts: `CapPaid` lets
  an invocation between its counters and its record pay for the one dispatch it may
  add, so that writing the record moves a unit from one side to the other.
* **SuperviseProofs**: `SupInv` has a part for each property.  `Pids` (a record that
  shows a pid, and any copy of one, was written by a spawner that has returned) and
  `Stale` (so whoever has read that a dispatch is stale is right for good) give
  `SupStaleIsGone`; `Completed`, that the word comes from the supervisor alone, gives
  `SupTimedOutNotCompleted`; `RootDecided`, that `tiller run` does not get past its
  wait before the root is decided and leaves its record alone, gives
  `SupRunTellsRoot`; `Settling`, that what is not settled is still on the list of
  the sweep, gives `SupRunSettles`.  The copies are in the invariant, since each of them may
  be written back or acted on later.
* **RecordsProofs**, of RecordFile: `DocumentIsAtomic` is the refinement of AtomicRecord by a
  file that is put.  `DocInv` says that the only writer has `path.tmp` open, that it is another
  inode than the one readers open, and that it is whole before the rename.
  `NewInodeIsFree` shows that the model's supply of inodes is never exhausted.

  `FileMatches` is about files that are put, updated in place or rewritten, by
  processes that may do different things.  `RecordInv` says who has which inode open
  and who holds its lock (`Descriptors`); that a writer which is alone finds in its
  inode nothing but its own write (`LoneWriter`); and, as long as no put or
  rewrite has met another write and nobody has died over a blank file, that a writer in place has the inode of the path open,
  that what it has decoded under the lock has every write expected so far, and that the file
  matches except while it is blank (`Unspoiled`).

* **RecordsProofs**, of RecordStores: `Same` relates a tree of files and tables that have had the same
  calls, a part for each kind of record: the manifest and the row of the run (`RunSame`), the ids
  that were counted and the sequence (`IdsSame`), records and rows, with a row and no
  record for an id that is only allocated (`RecordsSame`), documents (`DocsSame`),
  configurations, where the table may lack that of the root (`ConfigsSame`), agents, lines and
  the names of notes.  For each method that is mirrored a simulation lemma (`BriefKeepsSame` to
  `CreateKeepsSame`) says that making it on both keeps `Same`; once the run is
  there, postgres refuses no call of a session that the file store has accepted.

  That is not enough, because postgres is behind, and neither store by itself tells what the
  calls between them were.  `StoresInv` (theorem `StoresInvariant`) says that there is a
  sequence of tables that begins with `pg`, goes on by one queued call after the other,
  and ends in tables that are `Same` as the files; all those on the way are `Same` as some
  tree of files, which is what postgres will be compared with when it stands there.  A call is
  one more table at the end (`TeeStep`), a turn of the mirror drops the first (`MirrorStep`), so
  the length of the session and of the queue play no part.  With the queue empty the files and
  `pg` are `Same`, and `MirrorTells` follows list by list: `ListsAlike` shows that the ids
  in order, the shown records, the counts and the tree are the same, `RunsAlike`, `DocsAlike` and
  `AgentsAlike` the rest.  The order of the ids rests on `RanksDiffer` and `AscElements`; the tree is
  the same because it is walked over the same ids and parents, so the walk need not be
  unfolded.  `ExportTells` needs of `StoresInv` only that `pg` is `Same` as some tree, at any moment:
  its rows are of this run, and no document or configuration in it is empty, so `Copied` leaves
  out nothing that postgres would answer with (`DispatchExported`, `RunExported`).

* **PoolProofs**, of HeadlessPool: `HeadlessOutcomeKept` assumes nothing about the lease, since
  agents may outlive theirs.  `HeadlessInv` adds to the types that a worker
  which notes a pid has started the supervisor (`OwnStarted`), and that once a
  supervisor has spoken, either the record shows an outcome or another word is
  to come: from a supervisor that goes on, or one a worker is about to start (`WordToCome`
  in `OutcomeOrWord`).  Whatever clears an outcome (a requeue, a copy written back)
  is done by somebody who is about to start or has started an agent, or is a mishap.

* **AmbientProofs**: `AmbientInv` has a part for each kind of thing that a hook leaves to
  later ones.  `Ordered` says what a call is at each of its steps.  `Attempts`, for
  tasks whose calls do not overlap: requests are numbered as they come
  (`Counted`), one call of the task is under way at a time (`OneAtATime`), and the number it has
  is the length of the ledger's list, so what PostToolUse counts is what PreToolUse appended
  (`AttemptOf`).  `OnRecord` keeps what an answer recorded, against all later hooks, and accounts
  for every candidate.  `Waiting` accounts for every request without a result by a call
  that is at work, denied or unheard.  `ToldInTime` says that a hook which is alone
  writes to status.md what the files say, since nobody changes them between its
  read and its write.  `NextActionReads` and its companions reduce the eleven cases of the
  strategy to seven conditions on the files, from which `AttemptsTraced`,
  `FailuresStand`, `WaitsMeanWork` and `StatusTold` follow with one part each.

The types of Pool, HeadlessPool, FsClaims, RecordFile and Ambient are proved and not
among the runs' invariants.

Only model-checked:

* all liveness (`QueuedFinishes`, `SlotFreed`, `PendingTaken*`, `AwaitAnswered`,
  `RootSettles`, `CallerNotBlocked`, `CloseDrains`), which is out of this prover's
  reach, as is that a mirror which is let alone catches up;
* `SuitePasses`: the cases are a finite test suite, and TLC runs all of it, in every order of
  the calls that its goroutines make, with up to three calls of a neighbour;
* what the walk over the tree lists, and the sum of the costs: that is induction over data.
  The proofs show that both stores compute the same; the cases of the suite show what it is.

## 6. Abstractions

* Records carry status, claim, lease, depth, role, tier and parent; cost,
  session, report and sandbox fields are left out, wording and logging too.
* pgstore's and fsstore's clocks are one clock.  In FsClaims the deadline that
  RenewLease stores does not pass before it rewrites the claim file.
* In FsClaims meta.json is one value; the file behind it is RecordFile's subject.
* Policy overrides of a project, the kill switch and the hook's bundles are left
  out; the pool loads its policy once, so does the model.
* The supervisor of `d10` and that of `d100` are told apart, which
  `strings.Contains` in `CmdlineMatches` does not do.
* TeeStore leaves out the records of the root, hot-path dispatches, runs,
  briefs, notes, traces and ledger rows, which go through the same queue and are
  RecordStores' subject, where nothing is dropped; a row's
  deadline is kept as set or not set.  A pool's write is a step of its claim
  (what a stale copy can do is Pool's subject).
* RecordFile: a write(2) is one step, and over a longer text leaves its tail.
  Directories, fsync and a machine that dies are left out.
* Records: times are left out, of a cost it is kept whether there is one, of a sandbox whether it
  is valid; ids beyond `d99`, which sort
  out of order, too.  A line of a JSON file is whole, and no longer than 64 KiB.
* Ambient: reports are reduced to whether they failed, propose a candidate, name a
  verification, touch the policy, distill; budgets, token usage and the age of
  distillations are left out, so `halt`, `ask_user` and `escalate` do not occur there.
  wait_agent stands for resume_agent and send_input.  A candidate or agent record is
  read and written in one step.
* In Supervise processes run on the host the orphan check runs on.

## 7. Not modelled

* **A pool with detached agents and the commands of the run.**  HeadlessPool leaves out
  `tiller run` and `tiller await`, which may settle the same record; Supervise has
  them, without a pool.
* **The gate's command classification** (`cmdclass.go`): a decision about the text of one
  command, without state; its tests enumerate commands.
* **Pools that claim in postgres itself**, where the placeholder of AllocDispatch is
  pending before the requester has written its record (pgstore.go:219).
* **`ClassifyFreshness`**: no code calls it.
* Promotion to hyphae, sandbox plan and tiers, store resolution, installation,
  migrations: external programs, input and output, or pure configuration.

The theorems about the two stores are about the session that RecordStores describes: one run,
one text for every brief, report and configuration, the stages of `Written` for a record.
Nothing is said of two runs in one store beyond what the cases and their neighbour show.
