--------------------------- MODULE SuperviseProofs ---------------------------
(* Supervised dispatches, tiller await and tiller run, for any number of    *)
(* dispatches, killed supervisors and lost writes.                          *)
EXTENDS Supervise, TLAPS

\* A pid in a record, or in a copy of it, was written by a SpawnDetached that
\* has returned: no supervisor will be started any more.
PidIsLast(d, r) == r.pid => spawner[d] = "done" /\ r.status # "absent"

\* A supervisor is started once, and decides on the outcome at its end.
Lives(d) ==
    /\ spawner[d] \in {"none", "start"} => sup[d] = "none"
    /\ spawner[d] # "none" => rec[d].status # "absent"
    /\ spawner[d] = "write" => spcopy[d].status \notin {"absent", "stale"}
    /\ sup[d] \in {"has", "agent", "wrap"} => copy[d].status # "absent"
    /\ sup[d] = "wrap" => fin[d] # "none"
    /\ fin[d] # "none" => sup[d] \in {"wrap", "gone"}
    /\ fin[d] = "completed" => timer[d] # "killed"

Pids(d) ==
    /\ PidIsLast(d, rec[d]) /\ PidIsLast(d, look[d]) /\ PidIsLast(d, listed[d])
    /\ PidIsLast(d, copy[d])
    /\ spawner[d] = "write" => ~ spcopy[d].pid

\* Whoever has read that the dispatch is stale is right, for good.
Stale(d) ==
    rec[d].status = "stale" \/ look[d].status = "stale" \/ answer[d] = "stale"
        => spawner[d] = "done" /\ ~ Alive(d)

\* The supervisor is the only source of "completed".
Completed(d) ==
    "completed" \in {rec[d].status, look[d].status, answer[d], copy[d].status,
                     spcopy[d].status, listed[d].status}
        => fin[d] = "completed"

Local(d) == Lives(d) /\ Pids(d) /\ Stale(d) /\ Completed(d)

\* tiller run does not get past its wait before the outcome of the root is
\* decided, and does not touch it afterwards.
RootDecided ==
    /\ spawner[Root] # "none"
    /\ run \in {"spawn", "wait", "error"} =>
        /\ \A d \in Dispatch : rec[d].status # "stale"
        /\ rec[Root].status \in Outcome => sup[Root] = "gone"
        /\ spawner[Root] = "write" /\ spcopy[Root].status \in Outcome =>
              sup[Root] = "gone"
    /\ run = "wait" => spawner[Root] = "done"
    /\ run \in {"sweep", "killed", "done"} =>
        /\ spawner[Root] = "done" /\ sup[Root] = "gone"
        /\ rec[Root].status \in Outcome
        /\ listed[Root].status \in Outcome
    /\ run \in {"sweep", "killed"} => Root \notin todo
    /\ run = "killed" => victim \in todo
    /\ verdict = "completed" => run = "done" /\ rec[Root].status = "completed"

\* What tiller run has not settled yet it still has on its list.
Settling ==
    run \in {"sweep", "killed", "done"} /\ lost = 0 =>
        \A d \in Dispatch : listed[d].pid =>
            \/ rec[d].status \in Terminal
            \/ run # "done" /\ d \in todo

SupInv == SupTypeOK /\ (\A d \in Dispatch : Local(d)) /\ RootDecided /\ Settling

-----------------------------------------------------------------------------

\* Nothing has been spawned yet.
LEMMA SupInitInv == SupInit => SupInv
<1> SUFFICES ASSUME SupInit PROVE SupInv
  OBVIOUS
<1>1. SupTypeOK
  BY SuperviseAssumption
  DEF SupInit, SupTypeOK, Record, Status, Terminal, Outcome, Blank
<1>2. ASSUME NEW d \in Dispatch PROVE Local(d)
  BY DEF SupInit, Local, Lives, Pids, PidIsLast, Stale, Completed, Blank
<1>3. RootDecided
  BY SuperviseAssumption DEF SupInit, RootDecided, Outcome, Blank
<1>4. Settling
  BY DEF SupInit, Settling
<1>5. QED
  BY <1>1, <1>2, <1>3, <1>4 DEF SupInv

-----------------------------------------------------------------------------

\* What becomes of the record of d when r is written with another status.
LEMMA StatusWritten ==
    ASSUME SupTypeOK, NEW d \in Dispatch, NEW r \in Record, NEW s \in Status,
           WriteDispatch(d, [r EXCEPT !.status = s])
    PROVE  /\ rec' \in [Dispatch -> Record]
           /\ rec'[d].status = s /\ rec'[d].pid = r.pid
           /\ \A e \in Dispatch : e # d => rec'[e] = rec[e]
<1>1. /\ [r EXCEPT !.status = s] \in Record
      /\ [r EXCEPT !.status = s].status = s
      /\ [r EXCEPT !.status = s].pid = r.pid
  BY DEF Record
<1>2. QED
  BY <1>1 DEF SupTypeOK, WriteDispatch

LEMMA PidWritten ==
    ASSUME SupTypeOK, NEW d \in Dispatch, NEW r \in Record,
           WriteDispatch(d, [r EXCEPT !.pid = TRUE])
    PROVE  /\ rec' \in [Dispatch -> Record]
           /\ rec'[d].status = r.status /\ rec'[d].pid
           /\ \A e \in Dispatch : e # d => rec'[e] = rec[e]
<1>1. /\ [r EXCEPT !.pid = TRUE] \in Record
      /\ [r EXCEPT !.pid = TRUE].status = r.status
      /\ [r EXCEPT !.pid = TRUE].pid
  BY DEF Record
<1>2. QED
  BY <1>1 DEF SupTypeOK, WriteDispatch

\* A lost write is counted.
LEMMA LostCounts ==
    ASSUME SupTypeOK, Lost
    PROVE  lost' \in 0..MaxLost /\ lost' # 0 /\ kills' \in 0..MaxKills
BY SuperviseAssumption DEF SupTypeOK, Lost

\* The four writes of a record that is not new: they take effect or are lost.
RecordWritten(d, s, pid) ==
    \/ /\ rec' \in [Dispatch -> Record]
       /\ rec'[d].status = s /\ rec'[d].pid = pid
       /\ \A e \in Dispatch : e # d => rec'[e] = rec[e]
       /\ UNCHANGED faults
    \/ Lost /\ UNCHANGED rec

LEMMA WritePidRecord ==
    ASSUME SupTypeOK, NEW d \in Dispatch, WritePid(d)
    PROVE  RecordWritten(d, spcopy[d].status, TRUE)
<1>1. spcopy[d] \in Record
  BY DEF SupTypeOK
<1>2. CASE WriteDispatch(d, [spcopy[d] EXCEPT !.pid = TRUE])
  BY <1>1, <1>2, PidWritten DEF WritePid, RecordWritten, Record
<1>3. QED
  BY <1>2 DEF WritePid, RecordWritten

LEMMA FinalizeRecord ==
    ASSUME SupTypeOK, NEW d \in Dispatch, fin[d] # "none", Finalize(d)
    PROVE  RecordWritten(d, fin[d], copy[d].pid)
<1>1. copy[d] \in Record /\ fin[d] \in Status
  BY DEF SupTypeOK, Status, Terminal
<1>2. CASE WriteDispatch(d, [copy[d] EXCEPT !.status = fin[d]])
  BY <1>1, <1>2, StatusWritten DEF Finalize, RecordWritten
<1>3. QED
  BY <1>2 DEF Finalize, RecordWritten

LEMMA SweepOrphanRecord ==
    ASSUME SupTypeOK, NEW d \in Dispatch, SweepOrphan(d)
    PROVE  RecordWritten(d, "stale", listed[d].pid)
<1>1. listed[d] \in Record /\ "stale" \in Status
  BY DEF SupTypeOK, Status, Terminal
<1>2. CASE WriteDispatch(d, [listed[d] EXCEPT !.status = "stale"])
  BY <1>1, <1>2, StatusWritten DEF SweepOrphan, RecordWritten
<1>3. QED
  BY <1>2 DEF SweepOrphan, RecordWritten

LEMMA SweepFailRecord ==
    ASSUME SupTypeOK, SweepFail
    PROVE  RecordWritten(victim, "failed", listed[victim].pid)
<1>1. listed[victim] \in Record /\ victim \in Dispatch /\ "failed" \in Status
  BY DEF SupTypeOK, Status, Terminal, Outcome
<1>2. CASE WriteDispatch(victim, [listed[victim] EXCEPT !.status = "failed"])
  BY <1>1, <1>2, StatusWritten DEF SweepFail, RecordWritten
<1>3. QED
  BY <1>2 DEF SweepFail, RecordWritten

\* Whatever the transcript says, an agent that was killed did not complete.
LEMMA FinalOutcome ==
    ASSUME NEW t \in Transcript, NEW ok \in BOOLEAN, NEW killed \in BOOLEAN
    PROVE  /\ FinalStatus(t, ok, killed) \in Outcome
           /\ killed /\ ~ ok => FinalStatus(t, ok, killed) # "completed"
BY DEF FinalStatus, Transcript, Outcome

\* Each conjunct of the invariant, action by action.
LEMMA TypeStep ==
    ASSUME SupInv, [SupNext]_supvars PROVE SupTypeOK'
<1> USE SuperviseAssumption DEF
     SupInv, SupTypeOK, Status, Terminal, Outcome, Blank, Spawner, Sup,
     Alive, Answer, IsOrphan, spawning, process, waiting, runcmd, faults,
     supvars
<1>1. ASSUME NEW d \in Dispatch, BeginDispatch(d) PROVE SupTypeOK'
  BY <1>1 DEF BeginDispatch, WriteDispatch, Record
<1>2. ASSUME NEW d \in Dispatch, StartSupervisor(d) PROVE SupTypeOK'
  BY <1>2, LostCounts DEF StartSupervisor
<1>3. ASSUME NEW d \in Dispatch, ReadForPid(d) PROVE SupTypeOK'
  BY <1>3 DEF ReadForPid
<1>4. ASSUME NEW d \in Dispatch, WritePid(d) PROVE SupTypeOK'
  <2>1. RecordWritten(d, spcopy[d].status, TRUE)
    BY <1>4, WritePidRecord
  <2>2. /\ spawner[d] = "write" /\ spawner' = [spawner EXCEPT ![d] = "done"]
        /\ run' = IF d = Root THEN "wait" ELSE run
        /\ UNCHANGED <<spcopy, process, waiting, listed, todo, victim, verdict>>
    BY <1>4 DEF WritePid
  <2>3. QED
    BY <2>1, <2>2, LostCounts DEF RecordWritten
<1>5. ASSUME NEW d \in Dispatch, SupRead(d) PROVE SupTypeOK'
  BY <1>5 DEF SupRead
<1>6. ASSUME NEW d \in Dispatch, StartAgent(d) PROVE SupTypeOK'
  BY <1>6 DEF StartAgent
<1>7. ASSUME NEW d \in Dispatch, AgentExits(d) PROVE SupTypeOK'
  BY <1>7 DEF AgentExits
<1>8. ASSUME NEW d \in Dispatch, TimerFires(d) PROVE SupTypeOK'
  BY <1>8 DEF TimerFires
<1>9. ASSUME NEW d \in Dispatch, Conclude(d) PROVE SupTypeOK'
  BY <1>9, FinalOutcome DEF Conclude
<1>10. ASSUME NEW d \in Dispatch, Finalize(d) PROVE SupTypeOK'
  <2>1. d \in Dispatch /\ sup[d] = "wrap" /\ fin[d] # "none"
    BY <1>10 DEF Finalize, Local, Lives
  <2>2. RecordWritten(d, fin[d], copy[d].pid)
    BY <1>10, <2>1, FinalizeRecord
  <2>3. QED
    BY <1>10, <2>1, <2>2, LostCounts DEF Finalize, RecordWritten
<1>11. ASSUME NEW d \in Dispatch, Killed(d) PROVE SupTypeOK'
  BY <1>11 DEF Killed
<1>12. ASSUME NEW d \in Dispatch, Await(d) PROVE SupTypeOK'
  BY <1>12 DEF Await
<1>13. ASSUME NEW d \in Dispatch, AwaitRead(d) PROVE SupTypeOK'
  BY <1>13 DEF AwaitRead
<1>14. ASSUME NEW d \in Dispatch, AwaitCheck(d) PROVE SupTypeOK'
  BY <1>14 DEF AwaitCheck
<1>15. ASSUME NEW d \in Dispatch, SweepOrphan(d) PROVE SupTypeOK'
  BY <1>15, SweepOrphanRecord, LostCounts DEF SweepOrphan, RecordWritten
<1>16. ASSUME NEW d \in Dispatch, SweepKill(d) PROVE SupTypeOK'
  BY <1>16 DEF SweepKill
<1>17. CASE RootTerminal
  BY <1>17 DEF RootTerminal, WriteDispatch, Record
<1>18. CASE SweepFail
  BY <1>18, SweepFailRecord, LostCounts DEF SweepFail, RecordWritten
<1>19. CASE CloseRun
  BY <1>19 DEF CloseRun
<1>20. CASE UNCHANGED supvars
  BY <1>20
<1>21. QED
  BY <1>1, <1>2, <1>3, <1>4, <1>5, <1>6, <1>7, <1>8, <1>9, <1>10, <1>11,
     <1>12, <1>13, <1>14, <1>15, <1>16, <1>17, <1>18, <1>19, <1>20
  DEF SupNext, Spawning, Supervising, Polling, Sweeping

LEMMA LocalStep ==
    ASSUME SupInv, [SupNext]_supvars PROVE \A e \in Dispatch : Local(e)'
<1> USE SuperviseAssumption DEF
     SupInv, SupTypeOK, Local, Lives, Pids, PidIsLast, Stale, Completed,
     Status, Terminal, Outcome, Blank, Spawner, Sup, Alive, Answer,
     IsOrphan, spawning, process, waiting, runcmd, faults, supvars
<1>1. ASSUME NEW d \in Dispatch, BeginDispatch(d) PROVE \A e \in Dispatch :
     Local(e)'
  BY <1>1 DEF BeginDispatch, WriteDispatch, Record
<1>2. ASSUME NEW d \in Dispatch, StartSupervisor(d) PROVE \A e \in Dispatch :
     Local(e)'
  BY <1>2, LostCounts DEF StartSupervisor
<1>3. ASSUME NEW d \in Dispatch, ReadForPid(d) PROVE \A e \in Dispatch : Local(e)'
  BY <1>3 DEF ReadForPid
<1>4. ASSUME NEW d \in Dispatch, WritePid(d) PROVE \A e \in Dispatch : Local(e)'
  <2>1. RecordWritten(d, spcopy[d].status, TRUE)
    BY <1>4, WritePidRecord
  <2>2. /\ spawner[d] = "write" /\ spawner' = [spawner EXCEPT ![d] = "done"]
        /\ run' = IF d = Root THEN "wait" ELSE run
        /\ UNCHANGED <<spcopy, process, waiting, listed, todo, victim, verdict>>
    BY <1>4 DEF WritePid
  <2>3. QED
    BY <2>1, <2>2, LostCounts DEF RecordWritten
<1>5. ASSUME NEW d \in Dispatch, SupRead(d) PROVE \A e \in Dispatch : Local(e)'
  BY <1>5 DEF SupRead
<1>6. ASSUME NEW d \in Dispatch, StartAgent(d) PROVE \A e \in Dispatch : Local(e)'
  BY <1>6 DEF StartAgent
<1>7. ASSUME NEW d \in Dispatch, AgentExits(d) PROVE \A e \in Dispatch : Local(e)'
  BY <1>7 DEF AgentExits
<1>8. ASSUME NEW d \in Dispatch, TimerFires(d) PROVE \A e \in Dispatch : Local(e)'
  BY <1>8 DEF TimerFires
<1>9. ASSUME NEW d \in Dispatch, Conclude(d) PROVE \A e \in Dispatch : Local(e)'
  BY <1>9, FinalOutcome DEF Conclude
<1>10. ASSUME NEW d \in Dispatch, Finalize(d) PROVE \A e \in Dispatch : Local(e)'
  <2>1. d \in Dispatch /\ sup[d] = "wrap" /\ fin[d] # "none"
    BY <1>10 DEF Finalize, Local, Lives
  <2>2. RecordWritten(d, fin[d], copy[d].pid)
    BY <1>10, <2>1, FinalizeRecord
  <2>3. QED
    BY <1>10, <2>1, <2>2, LostCounts DEF Finalize, RecordWritten
<1>11. ASSUME NEW d \in Dispatch, Killed(d) PROVE \A e \in Dispatch : Local(e)'
  BY <1>11 DEF Killed
<1>12. ASSUME NEW d \in Dispatch, Await(d) PROVE \A e \in Dispatch : Local(e)'
  BY <1>12 DEF Await
<1>13. ASSUME NEW d \in Dispatch, AwaitRead(d) PROVE \A e \in Dispatch : Local(e)'
  BY <1>13 DEF AwaitRead
<1>14. ASSUME NEW d \in Dispatch, AwaitCheck(d) PROVE \A e \in Dispatch : Local(e)'
  BY <1>14 DEF AwaitCheck
<1>15. ASSUME NEW d \in Dispatch, SweepOrphan(d) PROVE \A e \in Dispatch : Local(e)'
  BY <1>15, SweepOrphanRecord, LostCounts DEF SweepOrphan, RecordWritten
<1>16. ASSUME NEW d \in Dispatch, SweepKill(d) PROVE \A e \in Dispatch : Local(e)'
  BY <1>16 DEF SweepKill
<1>17. CASE RootTerminal
  BY <1>17 DEF RootTerminal, WriteDispatch, Record
<1>18. CASE SweepFail
  BY <1>18, SweepFailRecord, LostCounts DEF SweepFail, RecordWritten
<1>19. CASE CloseRun
  BY <1>19 DEF CloseRun
<1>20. CASE UNCHANGED supvars
  BY <1>20
<1>21. QED
  BY <1>1, <1>2, <1>3, <1>4, <1>5, <1>6, <1>7, <1>8, <1>9, <1>10, <1>11,
     <1>12, <1>13, <1>14, <1>15, <1>16, <1>17, <1>18, <1>19, <1>20
  DEF SupNext, Spawning, Supervising, Polling, Sweeping

LEMMA RootStep ==
    ASSUME SupInv, [SupNext]_supvars PROVE RootDecided'
<1> USE SuperviseAssumption DEF
     SupInv, SupTypeOK, Local, Lives, Pids, PidIsLast, Stale, RootDecided,
     Status, Terminal, Outcome, Blank, Spawner, Sup, Alive, Answer,
     IsOrphan, spawning, process, waiting, runcmd, faults, supvars
<1>1. ASSUME NEW d \in Dispatch, BeginDispatch(d) PROVE RootDecided'
  BY <1>1 DEF BeginDispatch, WriteDispatch, Record
<1>2. ASSUME NEW d \in Dispatch, StartSupervisor(d) PROVE RootDecided'
  BY <1>2, LostCounts DEF StartSupervisor
<1>3. ASSUME NEW d \in Dispatch, ReadForPid(d) PROVE RootDecided'
  BY <1>3 DEF ReadForPid
<1>4. ASSUME NEW d \in Dispatch, WritePid(d) PROVE RootDecided'
  <2>1. RecordWritten(d, spcopy[d].status, TRUE)
    BY <1>4, WritePidRecord
  <2>2. /\ spawner[d] = "write" /\ spawner' = [spawner EXCEPT ![d] = "done"]
        /\ run' = IF d = Root THEN "wait" ELSE run
        /\ UNCHANGED <<spcopy, process, waiting, listed, todo, victim, verdict>>
    BY <1>4 DEF WritePid
  <2>3. QED
    BY <2>1, <2>2, LostCounts DEF RecordWritten
<1>5. ASSUME NEW d \in Dispatch, SupRead(d) PROVE RootDecided'
  BY <1>5 DEF SupRead
<1>6. ASSUME NEW d \in Dispatch, StartAgent(d) PROVE RootDecided'
  BY <1>6 DEF StartAgent
<1>7. ASSUME NEW d \in Dispatch, AgentExits(d) PROVE RootDecided'
  BY <1>7 DEF AgentExits
<1>8. ASSUME NEW d \in Dispatch, TimerFires(d) PROVE RootDecided'
  BY <1>8 DEF TimerFires
<1>9. ASSUME NEW d \in Dispatch, Conclude(d) PROVE RootDecided'
  BY <1>9, FinalOutcome DEF Conclude
<1>10. ASSUME NEW d \in Dispatch, Finalize(d) PROVE RootDecided'
  <2>1. d \in Dispatch /\ sup[d] = "wrap" /\ fin[d] # "none"
    BY <1>10 DEF Finalize, Local, Lives
  <2>2. RecordWritten(d, fin[d], copy[d].pid)
    BY <1>10, <2>1, FinalizeRecord
  <2>3. /\ rec'[d].status \in {fin[d], rec[d].status}
        /\ \A e \in Dispatch : e # d => rec'[e] = rec[e]
    BY <2>1, <2>2 DEF RecordWritten
  <2>4. /\ sup' = [sup EXCEPT ![d] = "gone"]
        /\ UNCHANGED <<spawner, spcopy, run, todo, listed, victim, verdict>>
    BY <1>10 DEF Finalize
  <2>5. fin[d] \in Outcome
    BY <2>1
  <2>6. QED
    BY <2>1, <2>3, <2>4, <2>5
<1>11. ASSUME NEW d \in Dispatch, Killed(d) PROVE RootDecided'
  BY <1>11 DEF Killed
<1>12. ASSUME NEW d \in Dispatch, Await(d) PROVE RootDecided'
  BY <1>12 DEF Await
<1>13. ASSUME NEW d \in Dispatch, AwaitRead(d) PROVE RootDecided'
  BY <1>13 DEF AwaitRead
<1>14. ASSUME NEW d \in Dispatch, AwaitCheck(d) PROVE RootDecided'
  BY <1>14 DEF AwaitCheck
<1>15. ASSUME NEW d \in Dispatch, SweepOrphan(d) PROVE RootDecided'
  BY <1>15, SweepOrphanRecord, LostCounts DEF SweepOrphan, RecordWritten
<1>16. ASSUME NEW d \in Dispatch, SweepKill(d) PROVE RootDecided'
  BY <1>16 DEF SweepKill
<1>17. CASE RootTerminal
  BY <1>17 DEF RootTerminal, WriteDispatch, Record
<1>18. CASE SweepFail
  BY <1>18, SweepFailRecord, LostCounts DEF SweepFail, RecordWritten
<1>19. CASE CloseRun
  BY <1>19 DEF CloseRun
<1>20. CASE UNCHANGED supvars
  BY <1>20
<1>21. QED
  BY <1>1, <1>2, <1>3, <1>4, <1>5, <1>6, <1>7, <1>8, <1>9, <1>10, <1>11,
     <1>12, <1>13, <1>14, <1>15, <1>16, <1>17, <1>18, <1>19, <1>20
  DEF SupNext, Spawning, Supervising, Polling, Sweeping

LEMMA SettlingStep ==
    ASSUME SupInv, [SupNext]_supvars PROVE Settling'
<1> USE SuperviseAssumption DEF
     SupInv, SupTypeOK, Local, Lives, Pids, PidIsLast, RootDecided,
     Settling, Status, Terminal, Outcome, Blank, Spawner, Sup, Alive,
     Answer, IsOrphan, spawning, process, waiting, runcmd, faults, supvars
<1>1. ASSUME NEW d \in Dispatch, BeginDispatch(d) PROVE Settling'
  BY <1>1 DEF BeginDispatch, WriteDispatch, Record
<1>2. ASSUME NEW d \in Dispatch, StartSupervisor(d) PROVE Settling'
  BY <1>2, LostCounts DEF StartSupervisor
<1>3. ASSUME NEW d \in Dispatch, ReadForPid(d) PROVE Settling'
  BY <1>3 DEF ReadForPid
<1>4. ASSUME NEW d \in Dispatch, WritePid(d) PROVE Settling'
  <2>1. RecordWritten(d, spcopy[d].status, TRUE)
    BY <1>4, WritePidRecord
  <2>2. /\ spawner[d] = "write" /\ spawner' = [spawner EXCEPT ![d] = "done"]
        /\ run' = IF d = Root THEN "wait" ELSE run
        /\ UNCHANGED <<spcopy, process, waiting, listed, todo, victim, verdict>>
    BY <1>4 DEF WritePid
  <2>3. QED
    BY <2>1, <2>2, LostCounts DEF RecordWritten
<1>5. ASSUME NEW d \in Dispatch, SupRead(d) PROVE Settling'
  BY <1>5 DEF SupRead
<1>6. ASSUME NEW d \in Dispatch, StartAgent(d) PROVE Settling'
  BY <1>6 DEF StartAgent
<1>7. ASSUME NEW d \in Dispatch, AgentExits(d) PROVE Settling'
  BY <1>7 DEF AgentExits
<1>8. ASSUME NEW d \in Dispatch, TimerFires(d) PROVE Settling'
  BY <1>8 DEF TimerFires
<1>9. ASSUME NEW d \in Dispatch, Conclude(d) PROVE Settling'
  BY <1>9, FinalOutcome DEF Conclude
<1>10. ASSUME NEW d \in Dispatch, Finalize(d) PROVE Settling'
  <2>1. d \in Dispatch /\ sup[d] = "wrap" /\ fin[d] # "none"
    BY <1>10 DEF Finalize, Local, Lives
  <2>2. RecordWritten(d, fin[d], copy[d].pid)
    BY <1>10, <2>1, FinalizeRecord
  <2>3. QED
    BY <1>10, <2>1, <2>2, LostCounts DEF Finalize, RecordWritten
<1>11. ASSUME NEW d \in Dispatch, Killed(d) PROVE Settling'
  BY <1>11 DEF Killed
<1>12. ASSUME NEW d \in Dispatch, Await(d) PROVE Settling'
  BY <1>12 DEF Await
<1>13. ASSUME NEW d \in Dispatch, AwaitRead(d) PROVE Settling'
  BY <1>13 DEF AwaitRead
<1>14. ASSUME NEW d \in Dispatch, AwaitCheck(d) PROVE Settling'
  BY <1>14 DEF AwaitCheck
<1>15. ASSUME NEW d \in Dispatch, SweepOrphan(d) PROVE Settling'
  BY <1>15, SweepOrphanRecord, LostCounts DEF SweepOrphan, RecordWritten
<1>16. ASSUME NEW d \in Dispatch, SweepKill(d) PROVE Settling'
  BY <1>16 DEF SweepKill
<1>17. CASE RootTerminal
  BY <1>17 DEF RootTerminal, WriteDispatch, Record
<1>18. CASE SweepFail
  BY <1>18, SweepFailRecord, LostCounts DEF SweepFail, RecordWritten
<1>19. CASE CloseRun
  BY <1>19 DEF CloseRun
<1>20. CASE UNCHANGED supvars
  BY <1>20
<1>21. QED
  BY <1>1, <1>2, <1>3, <1>4, <1>5, <1>6, <1>7, <1>8, <1>9, <1>10, <1>11,
     <1>12, <1>13, <1>14, <1>15, <1>16, <1>17, <1>18, <1>19, <1>20
  DEF SupNext, Spawning, Supervising, Polling, Sweeping

-----------------------------------------------------------------------------

LEMMA SupStep == ASSUME SupInv, [SupNext]_supvars PROVE SupInv'
BY TypeStep, LocalStep, RootStep, SettlingStep DEF SupInv

LEMMA SupInvariant == SupSpec => []SupInv
BY SupInitInv, SupStep, PTL DEF SupSpec

\* For any number of dispatches, kills and lost writes, and however old the
\* record is that await or run looks at: nobody takes a dispatch for stale
\* whose supervisor is there.
THEOREM SupStaleIsGone == SupSpec => []StaleIsGone
<1>1. SupInv => StaleIsGone
  BY DEF SupInv, Local, Stale, StaleIsGone
<1>2. QED
  BY <1>1, SupInvariant, PTL

\* A dispatch whose agent was killed at its timeout is never reported as
\* completed.
THEOREM SupTimedOutNotCompleted == SupSpec => []TimedOutNotCompleted
<1>1. SupInv => TimedOutNotCompleted
  BY DEF SupInv, Local, Lives, Completed, TimedOutNotCompleted
<1>2. QED
  BY <1>1, SupInvariant, PTL

\* tiller run calls the run completed only if its root completed.
THEOREM SupRunTellsRoot == SupSpec => []RunTellsRoot
<1>1. SupInv => RunTellsRoot
  <2> SUFFICES ASSUME SupInv, verdict = "completed"
               PROVE  fin[Root] = "completed" /\ rec[Root].status = "completed"
    BY DEF RunTellsRoot
  <2>1. rec[Root].status = "completed"
    BY DEF SupInv, RootDecided
  <2>2. Completed(Root)
    BY SuperviseAssumption DEF SupInv, Local
  <2>3. QED
    BY <2>1, <2>2 DEF Completed
<1>2. QED
  BY <1>1, SupInvariant, PTL

\* tiller run leaves no dispatch running whose pid was in the records it
\* listed, if no write failed.
THEOREM SupRunSettles == SupSpec => []RunSettles
<1>1. SupInv => RunSettles
  BY DEF SupInv, Settling, RunSettles
<1>2. QED
  BY <1>1, SupInvariant, PTL
=============================================================================
