----------------------------- MODULE Supervise ------------------------------
(***************************************************************************)
(* Dispatches that run as a detached process.  SpawnDetached starts tiller *)
(* _supervise and then notes its pid in the record; the supervisor reads   *)
(* the record, runs claude under a timer, and writes the record back with  *)
(* the outcome.  Both write the whole record, and neither looks at what    *)
(* became of it since it was read.                                         *)
(*                                                                         *)
(* Two commands wait for the outcome: tiller await, which takes a running  *)
(* record for stale when the process behind the pid is gone, and tiller    *)
(* run, which waits for the root dispatch and then settles those that are  *)
(* still running.                                                          *)
(***************************************************************************)
EXTENDS Naturals

CONSTANTS Dispatch,
          Root,      \* the dispatch of the orchestrator, "root"
          Awaited,   \* the dispatches somebody runs tiller await for
          MaxKills,  \* bound on supervisors killed from outside
          MaxLost    \* bound on writes of a record, and spawns, that fail

ASSUME SuperviseAssumption ==
    /\ Root \in Dispatch
    /\ Awaited \subseteq Dispatch
    /\ MaxKills \in Nat /\ MaxLost \in Nat

VARIABLES
    rec,      \* rec[d]: status, and whether SupervisorPID is set
    spawner,  \* spawner[d]: where SpawnDetached stands
    spcopy,   \* spcopy[d]: the record it read
    sup,      \* sup[d]: where the supervisor process stands
    copy,     \* copy[d]: the record it read
    agent,    \* agent[d]: the claude process
    timer,    \* timer[d]: the kill timer, and whom it caught
    fin,      \* fin[d]: the outcome the supervisor decided on
    awaiter,  \* awaiter[d]: where a tiller await stands
    look,     \* look[d]: the record it read last
    answer,   \* answer[d]: what it said
    run,      \* where tiller run stands
    listed,   \* the records ListDispatches gave it
    todo,     \* those of them it has still to settle
    victim,   \* the one whose supervisor it has just killed
    verdict,  \* the status it gave the run
    kills,
    lost

spawning == <<spawner, spcopy>>
process  == <<sup, copy, agent, timer, fin>>
waiting  == <<awaiter, look, answer>>
runcmd   == <<run, listed, todo, victim, verdict>>
faults   == <<kills, lost>>
supvars  == <<rec, spawning, process, waiting, runcmd, faults>>

Outcome  == {"completed", "failed", "halted"}
Terminal == Outcome \cup {"stale"}
Status   == {"absent", "running"} \cup Terminal
Record   == [status : Status, pid : BOOLEAN]
Blank    == [status |-> "absent", pid |-> FALSE]

\* The values the variables range over.
SupTypeOK ==
    /\ rec \in [Dispatch -> Record]
    /\ spawner \in [Dispatch -> {"none", "start", "read", "write", "done"}]
    /\ spcopy \in [Dispatch -> Record]
    /\ sup \in [Dispatch -> {"none", "up", "has", "agent", "wrap", "gone"}]
    /\ copy \in [Dispatch -> Record]
    /\ agent \in [Dispatch -> {"none", "live", "exited"}]
    /\ timer \in [Dispatch -> {"set", "killed", "late"}]
    /\ fin \in [Dispatch -> Outcome \cup {"none"}]
    /\ awaiter \in [Dispatch -> {"idle", "poll", "check", "answered"}]
    /\ look \in [Dispatch -> Record]
    /\ answer \in [Dispatch -> Terminal \cup {"none", "running"}]
    /\ run \in {"spawn", "wait", "sweep", "killed", "done", "error"}
    /\ listed \in [Dispatch -> Record]
    /\ todo \subseteq Dispatch
    /\ victim \in Dispatch
    /\ verdict \in {"none", "completed", "failed"}
    /\ kills \in 0..MaxKills
    /\ lost \in 0..MaxLost

\* tiller run has written the root record and is about to spawn.
SupInit ==
    /\ rec = [d \in Dispatch |-> IF d = Root
                THEN [status |-> "running", pid |-> FALSE] ELSE Blank]
    /\ spawner = [d \in Dispatch |-> IF d = Root THEN "start" ELSE "none"]
    /\ spcopy = [d \in Dispatch |-> Blank]
    /\ sup = [d \in Dispatch |-> "none"]
    /\ copy = [d \in Dispatch |-> Blank]
    /\ agent = [d \in Dispatch |-> "none"]
    /\ timer = [d \in Dispatch |-> "set"]
    /\ fin = [d \in Dispatch |-> "none"]
    /\ awaiter = [d \in Dispatch |-> "idle"]
    /\ look = [d \in Dispatch |-> Blank]
    /\ answer = [d \in Dispatch |-> "none"]
    /\ run = "spawn"
    /\ listed = [d \in Dispatch |-> Blank]
    /\ todo = {}
    /\ victim = Root
    /\ verdict = "none"
    /\ kills = 0
    /\ lost = 0

-----------------------------------------------------------------------------

Alive(d) == sup[d] \in {"up", "has", "agent", "wrap"}

\* Variants with a plausible mistake, used by no action: see LeaseStore.
\* Here, a record without a pid is an orphan too.
IsOrphanWithoutPid(r, d) == r.status = "running" /\ ~ Alive(d)

\* IsOrphanIn, asked now of a record that was read earlier.
IsOrphan(r, d) == r.status = "running" /\ r.pid /\ ~ Alive(d)

WriteDispatch(d, r) == rec' = [rec EXCEPT ![d] = r]

Lost ==
    /\ lost < MaxLost
    /\ lost' = lost + 1
    /\ UNCHANGED kills

Spawner(d, step) == spawner' = [spawner EXCEPT ![d] = step]
Sup(d, step)     == sup' = [sup EXCEPT ![d] = step]

-----------------------------------------------------------------------------
(* tiller dispatch --background, and SpawnDetached                         *)

BeginDispatch(d) ==
    /\ spawner[d] = "none"
    /\ WriteDispatch(d, [status |-> "running", pid |-> FALSE])
    /\ Spawner(d, "start")
    /\ UNCHANGED <<spcopy, process, waiting, runcmd, faults>>

\* Without a supervisor nothing more happens to the record.
StartSupervisor(d) ==
    /\ spawner[d] = "start"
    /\ \/ /\ Sup(d, "up")
          /\ Spawner(d, "read")
          /\ UNCHANGED <<run, faults>>
       \/ /\ Lost
          /\ Spawner(d, "done")
          /\ run' = IF d = Root THEN "error" ELSE run
          /\ UNCHANGED sup
    /\ UNCHANGED <<rec, spcopy, copy, agent, timer, fin, waiting,
                   listed, todo, victim, verdict>>

ReadForPid(d) ==
    /\ spawner[d] = "read"
    /\ spcopy' = [spcopy EXCEPT ![d] = rec[d]]
    /\ Spawner(d, "write")
    /\ UNCHANGED <<rec, process, waiting, runcmd, faults>>

\* tiller run begins to wait when SpawnDetached has returned.
WritePid(d) ==
    /\ spawner[d] = "write"
    /\ \/ WriteDispatch(d, [spcopy[d] EXCEPT !.pid = TRUE]) /\ UNCHANGED faults
       \/ Lost /\ UNCHANGED rec
    /\ Spawner(d, "done")
    /\ run' = IF d = Root THEN "wait" ELSE run
    /\ UNCHANGED <<spcopy, process, waiting, listed, todo, victim, verdict>>

-----------------------------------------------------------------------------
(* tiller _supervise                                                       *)

\* An error before claude runs ends the process: the record is not touched.
SupRead(d) ==
    /\ sup[d] = "up"
    /\ \/ Sup(d, "has") /\ copy' = [copy EXCEPT ![d] = rec[d]]
       \/ Sup(d, "gone") /\ UNCHANGED copy
    /\ UNCHANGED <<rec, spawning, agent, timer, fin, waiting, runcmd, faults>>

StartAgent(d) ==
    /\ sup[d] = "has"
    /\ \/ Sup(d, "agent") /\ agent' = [agent EXCEPT ![d] = "live"]
       \/ Sup(d, "gone") /\ UNCHANGED agent
    /\ UNCHANGED <<rec, spawning, copy, timer, fin, waiting, runcmd, faults>>

\* claude ends; it does so too when its supervisor is gone.
AgentExits(d) ==
    /\ agent[d] = "live"
    /\ agent' = [agent EXCEPT ![d] = "exited"]
    /\ UNCHANGED <<rec, spawning, sup, copy, timer, fin, waiting, runcmd, faults>>

\* The timer fires: claude is killed, or has just ended by itself.  The root
\* dispatch has no timeout.
TimerFires(d) ==
    /\ d # Root
    /\ sup[d] = "agent"
    /\ timer[d] = "set"
    /\ timer' = [timer EXCEPT ![d] =
                    IF agent[d] = "live" THEN "killed" ELSE "late"]
    /\ agent' = [agent EXCEPT ![d] = "exited"]
    /\ UNCHANGED <<rec, spawning, sup, copy, fin, waiting, runcmd, faults>>

\* What the supervisor can find in transcript.json.
Transcript == {"none", "oversize", "unparsed", "error", "result"}

\* A parsed result outweighs the timeout.
FinalResultFirst(transcript, exitOK, timeoutKilled) ==
    IF transcript = "result" THEN "completed"
    ELSE IF timeoutKilled THEN "halted" ELSE "failed"

FinalStatus(transcript, exitOK, timeoutKilled) ==
    CASE transcript = "oversize" -> "halted"
      [] transcript = "error"    -> "failed"
      [] transcript = "result"   -> IF timeoutKilled THEN "halted" ELSE "completed"
      [] OTHER -> IF timeoutKilled THEN "halted"
                  ELSE IF exitOK THEN "completed" ELSE "failed"

\* timeoutKilled is written by the timer and read here without a lock: a
\* timer that fires late may or may not be seen.
Conclude(d) ==
    /\ sup[d] = "agent"
    /\ agent[d] = "exited"
    /\ \E transcript \in Transcript, exitOK \in BOOLEAN, timeoutKilled \in BOOLEAN :
        /\ timer[d] = "killed" => timeoutKilled /\ ~ exitOK
        /\ timer[d] = "set" => ~ timeoutKilled
        /\ fin' = [fin EXCEPT ![d] = FinalStatus(transcript, exitOK, timeoutKilled)]
    /\ Sup(d, "wrap")
    /\ UNCHANGED <<rec, spawning, copy, agent, timer, waiting, runcmd, faults>>

Finalize(d) ==
    /\ sup[d] = "wrap"
    /\ \/ WriteDispatch(d, [copy[d] EXCEPT !.status = fin[d]]) /\ UNCHANGED faults
       \/ Lost /\ UNCHANGED rec
    /\ Sup(d, "gone")
    /\ UNCHANGED <<spawning, copy, agent, timer, fin, waiting, runcmd>>

\* The supervisor is killed from outside; its claude goes on.
Killed(d) ==
    /\ Alive(d)
    /\ kills < MaxKills
    /\ kills' = kills + 1
    /\ Sup(d, "gone")
    /\ UNCHANGED <<rec, spawning, copy, agent, timer, fin, waiting, runcmd, lost>>

-----------------------------------------------------------------------------
(* tiller await                                                            *)

Await(d) ==
    /\ d \in Awaited
    /\ awaiter[d] = "idle"
    /\ rec[d].status # "absent"
    /\ awaiter' = [awaiter EXCEPT ![d] = "poll"]
    /\ UNCHANGED <<rec, spawning, process, look, answer, runcmd, faults>>

AwaitRead(d) ==
    /\ awaiter[d] = "poll"
    /\ look' = [look EXCEPT ![d] = rec[d]]
    /\ awaiter' = [awaiter EXCEPT ![d] = "check"]
    /\ UNCHANGED <<rec, spawning, process, answer, runcmd, faults>>

Answer(d, s) ==
    /\ answer' = [answer EXCEPT ![d] = s]
    /\ awaiter' = [awaiter EXCEPT ![d] = "answered"]

\* Without the orphan check, as waitForRoot and pollToTerminal do it.
AwaitTerminalOnly(d) ==
    /\ awaiter[d] = "check"
    /\ \/ look[d].status \in Terminal /\ Answer(d, look[d].status)
       \/ /\ look[d].status = "running"
          /\ awaiter' = [awaiter EXCEPT ![d] = "poll"]
          /\ UNCHANGED answer
    /\ UNCHANGED <<rec, spawning, process, look, runcmd, faults>>

\* The answer, or another round, or the deadline.
AwaitCheck(d) ==
    /\ awaiter[d] = "check"
    /\ \/ IsOrphan(look[d], d) /\ Answer(d, "stale")
       \/ look[d].status \in Terminal /\ Answer(d, look[d].status)
       \/ /\ look[d].status = "running"
          /\ ~ IsOrphan(look[d], d)
          /\ \/ Answer(d, "running")
             \/ awaiter' = [awaiter EXCEPT ![d] = "poll"] /\ UNCHANGED answer
    /\ UNCHANGED <<rec, spawning, process, look, runcmd, faults>>

-----------------------------------------------------------------------------
(* tiller run: waitForRoot and finalizeManifest                            *)

RootTerminal ==
    /\ run = "wait"
    /\ rec[Root].status \in Terminal
    /\ run' = "sweep"
    /\ listed' = rec
    /\ todo' = {d \in Dispatch : rec[d].status = "running"}
    /\ UNCHANGED <<rec, spawning, process, waiting, victim, verdict, faults>>

SweepOrphan(d) ==
    /\ run = "sweep"
    /\ d \in todo
    /\ IsOrphan(listed[d], d)
    /\ \/ WriteDispatch(d, [listed[d] EXCEPT !.status = "stale"]) /\ UNCHANGED faults
       \/ Lost /\ UNCHANGED rec
    /\ todo' = todo \ {d}
    /\ UNCHANGED <<spawning, process, waiting, run, listed, victim, verdict>>

\* graceFail: SIGTERM to the supervisor, then the record.
SweepKill(d) ==
    /\ run = "sweep"
    /\ d \in todo
    /\ ~ IsOrphan(listed[d], d)
    /\ sup' = IF Alive(d) THEN [sup EXCEPT ![d] = "gone"] ELSE sup
    /\ run' = "killed"
    /\ victim' = d
    /\ UNCHANGED <<rec, spawning, copy, agent, timer, fin, waiting,
                   listed, todo, verdict, faults>>

\* The signal only.
SweepSignal ==
    /\ run = "killed"
    /\ todo' = todo \ {victim}
    /\ run' = "sweep"
    /\ UNCHANGED <<rec, spawning, process, waiting, listed, victim, verdict, faults>>

SweepFail ==
    /\ run = "killed"
    /\ \/ /\ WriteDispatch(victim, [listed[victim] EXCEPT !.status = "failed"])
          /\ UNCHANGED faults
       \/ Lost /\ UNCHANGED rec
    /\ todo' = todo \ {victim}
    /\ run' = "sweep"
    /\ UNCHANGED <<spawning, process, waiting, listed, victim, verdict>>

\* The root's own outcome is not looked at.
CloseIfNoneRuns ==
    /\ run = "sweep"
    /\ todo = {}
    /\ run' = "done"
    /\ verdict' = IF \E d \in Dispatch : listed[d].status = "running"
                  THEN "failed" ELSE "completed"
    /\ UNCHANGED <<rec, spawning, process, waiting, listed, todo, victim, faults>>

CloseRun ==
    /\ run = "sweep"
    /\ todo = {}
    /\ run' = "done"
    /\ verdict' =
          IF \/ \E d \in Dispatch : listed[d].status = "running"
             \/ rec[Root].status \in {"failed", "halted"}
          THEN "failed" ELSE "completed"
    /\ UNCHANGED <<rec, spawning, process, waiting, listed, todo, victim, faults>>

-----------------------------------------------------------------------------

Spawning(d)    == StartSupervisor(d) \/ ReadForPid(d) \/ WritePid(d)
Supervising(d) == SupRead(d) \/ StartAgent(d) \/ Conclude(d) \/ Finalize(d)
Polling(d)     == AwaitRead(d) \/ AwaitCheck(d)
Sweeping       ==
    \/ RootTerminal \/ SweepFail \/ CloseRun
    \/ \E d \in Dispatch : SweepOrphan(d) \/ SweepKill(d)

SupNext ==
    \/ \E d \in Dispatch :
        \/ BeginDispatch(d) \/ Spawning(d)
        \/ Supervising(d) \/ AgentExits(d) \/ TimerFires(d) \/ Killed(d)
        \/ Await(d) \/ Polling(d)
    \/ Sweeping

\* Processes that exist go on, and claude ends.
SupFairness ==
    /\ \A d \in Dispatch :
        /\ WF_supvars(Spawning(d))
        /\ WF_supvars(Supervising(d))
        /\ WF_supvars(AgentExits(d))
        /\ WF_supvars(Polling(d))
    /\ WF_supvars(Sweeping)

SupSpec     == SupInit /\ [][SupNext]_supvars
FairSupSpec == SupSpec /\ SupFairness

-----------------------------------------------------------------------------
(* Properties                                                              *)

\* Nobody takes a dispatch for stale, neither tiller await nor tiller run,
\* while its supervisor is still there, however old the record is that the
\* check looks at.
StaleIsGone ==
    \A d \in Dispatch :
        rec[d].status = "stale" \/ answer[d] = "stale" => ~ Alive(d)

\* A dispatch whose agent was killed at its timeout is nowhere reported as
\* completed, whatever the agent had printed until then.
TimedOutNotCompleted ==
    \A d \in Dispatch :
        timer[d] = "killed"
            => rec[d].status # "completed" /\ answer[d] # "completed"

\* A run is recorded as completed only if the supervisor of its root dispatch
\* found that the root completed, and that is what the root record says.
RunTellsRoot ==
    verdict = "completed" => fin[Root] = "completed" /\ rec[Root].status = "completed"

\* When tiller run has ended, every dispatch whose supervisor it could know
\* of is settled: none is left running behind a finished run unless a write
\* failed.
RunSettles ==
    run = "done" /\ lost = 0
        => \A d \in Dispatch : listed[d].pid => rec[d].status \in Terminal

\* Once the pid of the supervisor is in the record, tiller await gets an
\* answer, also when the supervisor is killed or its last write fails.
AwaitAnswered ==
    \A d \in Dispatch :
        awaiter[d] = "poll" /\ rec[d].pid ~> awaiter[d] = "answered"

\* A supervised root dispatch reaches a terminal status, so tiller run ends.
RootSettles == sup[Root] = "up" ~> rec[Root].status \in Terminal
=============================================================================
