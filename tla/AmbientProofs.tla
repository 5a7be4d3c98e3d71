--------------------------- MODULE AmbientProofs ---------------------------
(* The hooks of an ambient session, for any number of calls, tasks, models *)
(* and answers, and any number of calls under way at a time.               *)
EXTENDS Ambient, TLAPS

Steps == {"idle", "append", "decide", "render", "status", "start", "working",
          "denied", "agent", "result", "report", "done"}

Tools == {"Task", "spawn_agent", "wait_agent", "close_agent", "SubagentStart"}

Actions == {"distill", "wait", "review", "checkpoint", "debug", "retry", "proceed"}

Recommendations == {"triage_stale_work", "checkpoint_candidate", "compact_status",
                    "wait_for_agents", "proceed"}

Overrides == Models \cup {""}

Advices == Actions \X SUBSET Recommendations

CallState ==
    [step : Steps, tool : Tools, task : Task \cup {NoTask},
     model : Overrides, agent : Call \cup {Nobody}, attempt : Nat,
     asked : Nat, at : Nat, answer : Answer, seen : {"none"} \cup Advices,
     alone : BOOLEAN]

AgentStatus == {"running", "requested", "completed", "closed", "failed"}

Outcomes == AgentStatus \cup {""}

AmbientTypeOK ==
    /\ backend \in Backends
    /\ disabled \in BOOLEAN
    /\ ledger \in [Descriptor ->
            [requested : Seq(Nat), result : Outcomes, at : Nat]]
    /\ \A a \in DOMAIN agents :
            agents[a] \in [status : AgentStatus, policy : BOOLEAN]
    /\ candidates \subseteq
            [id : Descriptor \X Nat, verified : BOOLEAN, policy : BOOLEAN]
    /\ distilled \in BOOLEAN
    /\ status \in {"none"} \cup Advices
    /\ clock \in Nat
    /\ call \in [Call -> CallState]
    /\ blurred \subseteq Task
    /\ unsure \in BOOLEAN

\* What a call may be at which of its steps.
InOrder(c) ==
    LET r == call[c] IN
    /\ r.step = "idle" <=> (r.task = NoTask /\ r.tool = "Task")
    /\ r.step = "idle" => r.asked = 0 /\ r.at = 0
    /\ r.step # "idle" => (backend = "claude-code" <=> r.tool = "Task")
    /\ r.step # "idle" => (ForTask(c) <=> r.task \in Task)
    /\ r.step \in {"append", "decide", "working", "denied", "start"} => r.at = 0
    /\ r.step \in {"agent", "result", "report"} => r.at > 0
    /\ r.step = "append" => ForTask(c) /\ r.asked > 0
    /\ r.step = "start" => r.tool = "SubagentStart"
    /\ r.tool = "SubagentStart" =>
            r.at = 0 /\ r.step \in {"start", "render", "status", "done"}

Ordered == \A c \in Call : InOrder(c)

\* The attempts of a task whose calls never overlapped.
Clear(c) == call[c].task \in Task \ blurred

Logged(c) == ledger[DescriptorOf(c)].requested

Counted ==
    \A d \in Descriptor : d[2] \in Task \ blurred =>
        \A i \in 1..Len(ledger[d].requested) : ledger[d].requested[i] = i

OneAtATime ==
    \A c, x \in Call :
        Clear(c) /\ call[x].task = call[c].task /\ UnderWay(c) /\ UnderWay(x)
            => c = x

AskedApart ==
    \A c, x \in Call :
        Clear(c) /\ call[x].task = call[c].task /\ call[x].asked = call[c].asked
            => c = x

AttemptOf(c) ==
    /\ call[c].asked > 0
    /\ \/ call[c].attempt = call[c].asked
       \/ call[c].attempt = 0 /\ call[c].step = "done"
    /\ IF call[c].step = "append" THEN call[c].asked = Len(Logged(c)) + 1
       ELSE IF UnderWay(c) THEN call[c].asked = Len(Logged(c))
       ELSE call[c].asked <= Len(Logged(c))

Attempts ==
    /\ Counted
    /\ OneAtATime
    /\ AskedApart
    /\ \A c \in Call : Clear(c) => AttemptOf(c)

\* What the hook of an answer has recorded by then.
Reported(c) ==
    /\ call[c].step \in {"render", "status", "done"}
    /\ call[c].at > 0 /\ call[c].attempt > 0

Recorded(c) == call[c].step \in {"result", "report"} \/ Reported(c)

CandidateOf(c) ==
    [id |-> <<DescriptorOf(c), call[c].asked>>,
     verified |-> call[c].answer.verified, policy |-> call[c].answer.policy]

AgentsTell ==
    backend = "claude-code" =>
        \A c \in Call : Clear(c) /\ Recorded(c) =>
            /\ AgentOf(c) \in DOMAIN agents
            /\ agents[AgentOf(c)].status = ResultStatus(c)

CandidatesTell ==
    \A c \in Call : Clear(c) /\ Reported(c) /\ call[c].answer.candidate
        => CandidateOf(c) \in candidates

CandidatesMeant ==
    \A y \in candidates : y.id[1][2] \in Task \ blurred =>
        \E x \in Call : Reported(x) /\ DescriptorOf(x) = y.id[1]
                         /\ call[x].asked = y.id[2]

OnRecord == AgentsTell /\ CandidatesTell /\ CandidatesMeant

\* Requests that have no result yet.
Outstanding(c) ==
    \/ call[c].step \in {"decide", "working", "denied", "agent", "result"}
    \/ call[c].step \in {"render", "status"} /\ call[c].at = 0
    \/ call[c].step = "done" /\ call[c].attempt = 0

Waiting ==
    /\ \A c \in Call : Requested(c) /\ call[c].step # "append" => Logged(c) # <<>>
    /\ \A d \in Descriptor : ledger[d].at > 0 => ledger[d].result # ""
    /\ \A d \in Descriptor : ledger[d].requested # <<>> /\ ledger[d].result = ""
            => \E c \in Call : DescriptorOf(c) = d /\ Outstanding(c)
    /\ backend = "claude-code" =>
        /\ \A d \in Descriptor : ledger[d].result \in {"", "failed", "completed"}
        /\ \A a \in DOMAIN agents : agents[a].status \in {"failed", "completed"}

\* A hook that changed a file and has yet to write status.md.
ToTell == {"result", "report", "render", "status"}

\* What status.md says: that of the files, once no hook has more to tell.
ToldAll ==
    (\A c \in Call : call[c].step \notin ToTell) /\ ~ unsure /\ status # "none"
        => status = Advice

\* A hook that is alone is the only one, and what it is to write still holds.
AloneIsOne ==
    \A c, x \in Call : call[c].alone /\ InHook(c) /\ InHook(x) => c = x

SeenHolds ==
    \A c \in Call : call[c].step = "status" /\ call[c].alone
        => call[c].seen = Advice

ToldInTime == ToldAll /\ AloneIsOne /\ SeenHolds

AmbientInv == AmbientTypeOK /\ Ordered /\ Attempts /\ OnRecord /\ Waiting /\ ToldInTime

-----------------------------------------------------------------------------
(* What is advised                                                         *)

LEMMA FirstCaseIs ==
    ASSUME NEW cases, NEW n \in Nat, DOMAIN cases = 1..n, NEW i \in 1..n,
           cases[i].when, \A j \in 1..(i - 1) : ~ cases[j].when
    PROVE  FirstCase(cases) = cases[i].action
<1> DEFINE P(k) == cases[k].when /\ \A j \in 1..(k - 1) : ~ cases[j].when
<1>1. \A k \in 1..n : P(k) => k = i
  OBVIOUS
<1>2. (CHOOSE k \in DOMAIN cases : P(k)) = i
  BY <1>1
<1>3. QED
  BY <1>2 DEF FirstCase

LEMMA NextActionReads ==
    NextActionNow =
        IF AgentsIn({"late", "stale", "superseded"}) # {} THEN "distill"
        ELSE IF WorkPending(Facts) THEN "wait"
        ELSE IF Risky(Facts) THEN "review"
        ELSE IF CheckpointReady(Facts) THEN "checkpoint"
        ELSE IF Facts.failedAgent THEN "debug"
        ELSE IF Facts.failedDescriptor THEN "retry"
        ELSE "proceed"
<1> DEFINE s == AmbientNextAction(Facts)
           halted   == Facts.runStatus \in Failed
           outdated == \/ Facts.staleAgent \/ Facts.late
                       \/ Facts.distillation = "stale"
           spent    == /\ Facts.reasonBudget > 0
                       /\ Facts.reasonUsed >= Facts.reasonBudget
<1>1. DOMAIN s = 1..11
  BY DEF AmbientNextAction
<1>2. /\ Facts.outputBand = "ok" /\ Facts.reasoningBand = "ok"
      /\ Facts.runStatus = "running"
      /\ Facts.reasonBudget = 0 /\ Facts.reasonUsed = 0
      /\ Facts.late = FALSE
      /\ Facts.distillation \in {"fresh", ""}
      /\ Facts.staleAgent <=> AgentsIn({"late", "stale", "superseded"}) # {}
  BY DEF Facts
<1>3. /\ ~ OverBudget(Facts) /\ ~ NearBudget(Facts) /\ ~ halted /\ ~ spent
      /\ outdated <=> AgentsIn({"late", "stale", "superseded"}) # {}
  <2>1. ~ OverBudget(Facts) /\ ~ NearBudget(Facts)
    BY <1>2 DEF OverBudget, NearBudget
  <2>2. ~ halted
    BY <1>2 DEF Failed
  <2>5. ~ spent
    <3>1. Facts.reasonBudget = 0
      BY <1>2
    <3>2. ~ (Facts.reasonBudget > 0)
      BY <3>1
    <3>3. QED
      BY <3>2
  <2>3. outdated <=> AgentsIn({"late", "stale", "superseded"}) # {}
    BY <1>2
  <2>4. QED
    BY <2>1, <2>2, <2>3, <2>5
<1>4. /\ s[1] = Case(OverBudget(Facts), "halt") /\ s[2] = Case(halted, "escalate")
      /\ s[3] = Case(outdated, "distill") /\ s[4] = Case(NearBudget(Facts), "distill")
      /\ s[5] = Case(WorkPending(Facts), "wait") /\ s[6] = Case(Risky(Facts), "review")
      /\ s[7] = Case(CheckpointReady(Facts), "checkpoint")
      /\ s[8] = Case(Facts.failedAgent, "debug")
      /\ s[9] = Case(Facts.failedDescriptor, "retry")
      /\ s[10] = Case(spent, "ask_user") /\ s[11] = Case(TRUE, "proceed")
  BY DEF AmbientNextAction
<1> HIDE DEF s, halted, outdated, spent
<1>5. /\ s[1].when <=> OverBudget(Facts)
      /\ s[2].when <=> halted
      /\ s[3].when <=> outdated
      /\ s[4].when <=> NearBudget(Facts)
      /\ s[5].when <=> WorkPending(Facts)
      /\ s[6].when <=> Risky(Facts)
      /\ s[7].when <=> CheckpointReady(Facts)
      /\ s[8].when <=> Facts.failedAgent
      /\ s[9].when <=> Facts.failedDescriptor
      /\ s[10].when <=> spent
      /\ s[11].when
  BY <1>4 DEF Case
<1>6. /\ s[3].action = "distill" /\ s[5].action = "wait" /\ s[6].action = "review"
      /\ s[7].action = "checkpoint" /\ s[8].action = "debug"
      /\ s[9].action = "retry" /\ s[11].action = "proceed"
  BY <1>4 DEF Case
<1>7. ASSUME NEW i \in 1..11, s[i].when, \A j \in 1..(i - 1) : ~ s[j].when
      PROVE  FirstCase(s) = s[i].action
  BY <1>1, <1>7, FirstCaseIs
<1>8. FirstCase(s) = NextActionNow
  BY DEF NextActionNow, s
<1>9. QED
  BY <1>3, <1>5, <1>6, <1>7, <1>8

LEMMA AdviceTyped == Advice \in Advices
<1>1. NextActionNow \in Actions
  BY NextActionReads DEF Actions
<1> DEFINE first ==
       {a \in {"triage_stale_work", "checkpoint_candidate", "compact_status"} :
          \/ a = "triage_stale_work"
               /\ (Facts.staleAgent \/ Facts.late \/ Facts.conflicting)
          \/ a = "checkpoint_candidate"
               /\ (Facts.proposed \/ Facts.fresh \/ Facts.lateValid)
          \/ a = "compact_status" /\ (OverBudget(Facts) \/ NearBudget(Facts))}
<1>2. RecommendedNextActions(Facts) = IF first # {} THEN first
        ELSE IF WorkPending(Facts) THEN {"wait_for_agents"} ELSE {"proceed"}
  BY Zenon DEF RecommendedNextActions
<1>3. first \subseteq {"triage_stale_work", "checkpoint_candidate", "compact_status"}
  BY Zenon
<1> HIDE DEF first
<1>4. RecommendedNextActions(Facts) \subseteq Recommendations
  BY <1>2, <1>3 DEF Recommendations
<1>5. QED
  BY <1>1, <1>4 DEF Advice, Advices

LEMMA AdviceStays ==
    ASSUME UNCHANGED files PROVE Advice' = Advice
<1>1. /\ \A S : DescriptorsIn(S)' = DescriptorsIn(S)
      /\ \A S : AgentsIn(S)' = AgentsIn(S)
  BY DEF DescriptorsIn, AgentsIn, EffectiveStatus, files
<1>2. Facts' = Facts
  BY <1>1 DEF Facts, files
<1>3. QED
  BY <1>2 DEF Advice, NextActionNow

-----------------------------------------------------------------------------
(* What a step does to the calls                                           *)

\* A hook that starts takes nothing from another but its being alone.
Alike(r, s) ==
    /\ r.step = s.step /\ r.tool = s.tool /\ r.task = s.task /\ r.agent = s.agent
    /\ r.attempt = s.attempt /\ r.asked = s.asked /\ r.at = s.at
    /\ r.answer = s.answer

OthersAlike(c) == \A x \in Call \ {c} : Alike(call'[x], call[x])

LEMMA NoCallTyped == NoCall \in CallState
<1>1. NoAnswer \in Answer
  BY DEF NoAnswer, Answer
<1>2. QED
  BY <1>1 DEF NoCall, CallState, Steps, Tools, Overrides

LEMMA BeginEffect ==
    ASSUME NEW c \in Call, NEW r \in CallState, call \in [Call -> CallState],
           Begin(c, r)
    PROVE  /\ call' \in [Call -> CallState]
           /\ Alike(call'[c], r) /\ OthersAlike(c)
           /\ call'[c].alone => \A y \in Call \ {c} : ~ InHook(y)
           /\ \A x \in Call \ {c} : ~ call'[x].alone
<1> DEFINE lonely == \A y \in Call \ {c} : ~ InHook(y)
           new(x) == IF x = c THEN [r EXCEPT !.alone = lonely]
                     ELSE [call[x] EXCEPT !.alone = FALSE]
<1>1. call' = [x \in Call |-> new(x)]
  BY DEF Begin
<1>2. lonely \in BOOLEAN
  OBVIOUS
<1> HIDE DEF lonely
<1>3. ASSUME NEW s \in CallState, NEW b \in BOOLEAN
      PROVE  /\ [s EXCEPT !.alone = b] \in CallState
             /\ Alike([s EXCEPT !.alone = b], s)
             /\ [s EXCEPT !.alone = b].alone = b
  <2>1. [s EXCEPT !.alone = b] \in CallState
    BY DEF CallState
  <2>2. Alike([s EXCEPT !.alone = b], s)
    BY DEF CallState, Alike
  <2>3. [s EXCEPT !.alone = b].alone = b
    BY DEF CallState
  <2>4. QED
    BY <2>1, <2>2, <2>3
<1>4. \A x \in Call : new(x) \in CallState
  BY <1>2, <1>3
<1>5. call'[c] = [r EXCEPT !.alone = lonely]
  BY <1>1
<1>6. \A x \in Call \ {c} : call'[x] = [call[x] EXCEPT !.alone = FALSE]
  BY <1>1
<1>7. Alike(call'[c], r) /\ call'[c].alone = lonely
  BY <1>2, <1>3, <1>5
<1>8. ASSUME NEW x \in Call \ {c}
      PROVE  Alike(call'[x], call[x]) /\ call'[x].alone = FALSE
  <2>1. call[x] \in CallState /\ FALSE \in BOOLEAN
    OBVIOUS
  <2>2. QED
    BY <1>3, <1>6, <2>1, ZenonT(30)
<1>9. QED
  BY <1>1, <1>4, <1>7, <1>8 DEF OthersAlike, lonely

\* A hook that goes on changes its own call only.
LEMMA MoveEffect ==
    ASSUME NEW c \in Call, NEW r \in CallState, call \in [Call -> CallState],
           call' = [call EXCEPT ![c] = r]
    PROVE  /\ call' \in [Call -> CallState]
           /\ call'[c] = r /\ OthersAlike(c)
           /\ \A x \in Call \ {c} : call'[x] = call[x]
BY DEF OthersAlike, Alike

\* A hook goes on to another step of its call.
Moves(c, s) ==
    /\ call' \in [Call -> CallState]
    /\ OthersAlike(c)
    /\ call'[c].step = s
    /\ call'[c].tool = call[c].tool /\ call'[c].task = call[c].task
    /\ call'[c].agent = call[c].agent /\ call'[c].attempt = call[c].attempt
    /\ call'[c].asked = call[c].asked /\ call'[c].at = call[c].at
    /\ call'[c].answer = call[c].answer

LEMMA GotoEffect ==
    ASSUME NEW c \in Call, NEW s \in Steps, call \in [Call -> CallState], Goto(c, s)
    PROVE  Moves(c, s) /\ \A x \in Call : call'[x].alone = call[x].alone
<1>1. [call[c] EXCEPT !.step = s] \in CallState
  BY DEF CallState
<1>2. call' = [call EXCEPT ![c] = [call[c] EXCEPT !.step = s]]
  BY DEF Goto
<1>3. QED
  BY <1>1, <1>2, MoveEffect DEF CallState, Moves

LEMMA DecideEffect ==
    ASSUME AmbientTypeOK, NEW c \in Call, HandleAmbientPreToolUse(c)
    PROVE  /\ \E s \in {"denied", "working"} : Moves(c, s)
           /\ ~ call'[c].alone
           /\ \A x \in Call \ {c} : call'[x] = call[x]
<1>1. PICK s \in {"denied", "working"} :
        call' = [call EXCEPT ![c] = [call[c] EXCEPT !.step = s, !.model = "",
                                                    !.alone = FALSE]]
  BY DEF HandleAmbientPreToolUse, AmbientTypeOK
<1> DEFINE r == [call[c] EXCEPT !.step = s, !.model = "", !.alone = FALSE]
<1>2. call \in [Call -> CallState] /\ call[c] \in CallState
  BY DEF AmbientTypeOK
<1>3. r \in CallState
  <2>1. "" \in Overrides
    BY DEF Overrides
  <2>2. QED
    BY <1>2, <2>1 DEF CallState, Steps
<1>4. /\ r.step = s /\ r.tool = call[c].tool /\ r.task = call[c].task
      /\ r.agent = call[c].agent /\ r.attempt = call[c].attempt
      /\ r.asked = call[c].asked /\ r.at = call[c].at
      /\ r.answer = call[c].answer /\ r.alone = FALSE
  BY <1>2 DEF CallState
<1> HIDE DEF r
<1>5. call' = [call EXCEPT ![c] = r]
  BY <1>1 DEF r
<1>6. QED
  BY <1>2, <1>3, <1>4, <1>5, MoveEffect DEF Moves

LEMMA RenderEffect ==
    ASSUME AmbientTypeOK, NEW c \in Call, RenderStatusMarkdown(c)
    PROVE  /\ Moves(c, "status")
           /\ call'[c].seen = Advice
           /\ \A x \in Call : call'[x].alone = call[x].alone
           /\ \A x \in Call \ {c} : call'[x] = call[x]
<1> DEFINE r == [call[c] EXCEPT !.step = "status", !.seen = Advice]
<1>1. call \in [Call -> CallState] /\ call[c] \in CallState
  BY DEF AmbientTypeOK
<1>2. call' = [call EXCEPT ![c] = r]
  BY DEF RenderStatusMarkdown
<1>3. r \in CallState
  BY <1>1, AdviceTyped DEF CallState, Steps
<1>4. /\ r.step = "status" /\ r.tool = call[c].tool /\ r.task = call[c].task
      /\ r.agent = call[c].agent /\ r.attempt = call[c].attempt
      /\ r.asked = call[c].asked /\ r.at = call[c].at
      /\ r.answer = call[c].answer /\ r.alone = call[c].alone /\ r.seen = Advice
  BY <1>1 DEF CallState
<1> HIDE DEF r
<1>5. QED
  BY <1>1, <1>2, <1>3, <1>4, MoveEffect DEF Moves

LEMMA WriteEffect ==
    ASSUME AmbientTypeOK, NEW c \in Call, WriteStatusMarkdown(c)
    PROVE  /\ Moves(c, IF call[c].at > 0 \/ call[c].tool = "SubagentStart"
                       THEN "done" ELSE "decide")
           /\ ~ call'[c].alone
           /\ \A x \in Call \ {c} : call'[x] = call[x]
<1> DEFINE s == IF call[c].at > 0 \/ call[c].tool = "SubagentStart"
                THEN "done" ELSE "decide"
           r == [call[c] EXCEPT !.seen = "none", !.alone = FALSE, !.step = s]
<1>1. call \in [Call -> CallState] /\ call[c] \in CallState
  BY DEF AmbientTypeOK
<1>2. call' = [call EXCEPT ![c] = r]
  BY DEF WriteStatusMarkdown
<1>3. s \in Steps
  BY DEF Steps
<1> HIDE DEF s
<1>4. r \in CallState
  BY <1>1, <1>3 DEF CallState
<1>5. /\ r.step = s /\ r.tool = call[c].tool /\ r.task = call[c].task
      /\ r.agent = call[c].agent /\ r.attempt = call[c].attempt
      /\ r.asked = call[c].asked /\ r.at = call[c].at
      /\ r.answer = call[c].answer /\ r.alone = FALSE
  BY <1>1 DEF CallState
<1> HIDE DEF r
<1>6. Moves(c, s) /\ ~ call'[c].alone /\ \A x \in Call \ {c} : call'[x] = call[x]
  BY <1>1, <1>2, <1>4, <1>5, MoveEffect DEF Moves
<1>7. QED
  BY <1>6 DEF s

\* A hook starts, for a call that is then as r says; or it finds ambient
\* disabled, and leaves every other call as it was.
Starts(c, r) ==
    /\ call' \in [Call -> CallState]
    /\ Alike(call'[c], r)
    /\ OthersAlike(c)
    /\ \/ /\ call'[c].alone => \A y \in Call \ {c} : ~ InHook(y)
          /\ \A x \in Call \ {c} : ~ call'[x].alone
       \/ /\ call'[c].step \in {"working", "done"}
          /\ \A x \in Call \ {c} : call'[x] = call[x]

LEMMA StartsEffect ==
    ASSUME NEW c \in Call, NEW r \in CallState, call \in [Call -> CallState],
           \/ Begin(c, r)
           \/ r.step \in {"working", "done"} /\ call' = [call EXCEPT ![c] = r]
    PROVE  Starts(c, r)
BY BeginEffect, MoveEffect DEF Starts, Alike

LEMMA LedgerTyped ==
    ASSUME AmbientTypeOK, NEW d \in Descriptor
    PROVE  /\ ledger[d].requested \in Seq(Nat)
           /\ ledger[d].result \in Outcomes
           /\ ledger[d].at \in Nat
           /\ Len(ledger[d].requested) \in Nat
           /\ NextAttempt(d) \in Nat /\ LatestAttempt(d) \in Nat
<1> DEFINE s == ledger[d].requested
<1>1. s \in Seq(Nat) /\ ledger[d].result \in Outcomes
      /\ ledger[d].at \in Nat
  BY DEF AmbientTypeOK
<1>2. /\ NextAttempt(d) = Len(s) + 1
      /\ LatestAttempt(d) = IF s = <<>> THEN 1 ELSE s[Len(s)]
  BY DEF NextAttempt, LatestAttempt
<1> HIDE DEF s
<1>3. Len(s) \in Nat
  BY <1>1
<1>4. s # <<>> => s[Len(s)] \in Nat
  BY <1>1
<1>5. Len(s) + 1 \in Nat
  BY <1>3
<1>6. QED
  BY <1>1, <1>2, <1>3, <1>4, <1>5 DEF s

LEMMA AskTaskEffect ==
    ASSUME AmbientTypeOK, NEW c \in Call, AskTask(c)
    PROVE  \E t \in Task, r \in CallState :
              /\ call[c].step = "idle"
              /\ Starts(c, r)
              /\ r.task = t /\ r.at = 0 /\ r.attempt = r.asked
              /\ r.tool = IF backend = "codex" THEN "spawn_agent" ELSE "Task"
              /\ disabled => r.step = "working" /\ r.asked = 0
              /\ ~ disabled => r.step = "append"
                                /\ r.asked = NextAttempt(<<r.tool, t>>)
              /\ blurred' = IF disabled \/ \E x \in Call :
                                            UnderWay(x) /\ call[x].task = t
                            THEN blurred \cup {t} ELSE blurred
<1> DEFINE tool == IF backend = "codex" THEN "spawn_agent" ELSE "Task"
           n(t) == NextAttempt(<<tool, t>>)
           q(t, m) == [NoCall EXCEPT !.tool = tool, !.task = t, !.model = m]
           q0(t, m) == [q(t, m) EXCEPT !.step = "working", !.model = ""]
           q1(t, m) == [q(t, m) EXCEPT !.step = "append", !.attempt = n(t),
                                       !.asked = n(t)]
<1>1. call \in [Call -> CallState] /\ NoCall \in CallState /\ call[c].step = "idle"
  BY NoCallTyped DEF AmbientTypeOK, AskTask, MayStart
<1>2. PICK t \in Task, m \in Overrides :
        /\ IF disabled THEN call' = [call EXCEPT ![c] = q0(t, m)]
           ELSE Begin(c, q1(t, m))
        /\ blurred' = IF disabled \/ \E x \in Call : UnderWay(x) /\ call[x].task = t
                      THEN blurred \cup {t} ELSE blurred
  BY DEF AskTask, Overrides
<1>3. tool \in Tools
  BY DEF Tools
<1>4. n(t) \in Nat
  <2>1. <<tool, t>> \in Descriptor
    BY DEF Descriptor
  <2>2. QED
    BY <2>1, LedgerTyped
<1> HIDE DEF tool, n
<1>5. q(t, m) \in CallState
  BY <1>1, <1>3 DEF CallState
<1>6. /\ q(t, m).task = t /\ q(t, m).tool = tool /\ q(t, m).at = 0
      /\ q(t, m).attempt = 0 /\ q(t, m).asked = 0
  BY DEF NoCall
<1> HIDE DEF q
<1>7. /\ q0(t, m) \in CallState /\ q0(t, m).step = "working"
      /\ q0(t, m).task = t /\ q0(t, m).tool = tool /\ q0(t, m).at = 0
      /\ q0(t, m).attempt = 0 /\ q0(t, m).asked = 0
  <2>1. "" \in Overrides
    BY DEF Overrides
  <2>2. QED
    BY <1>5, <1>6, <2>1 DEF CallState, Steps
<1>8. /\ q1(t, m) \in CallState /\ q1(t, m).step = "append"
      /\ q1(t, m).task = t /\ q1(t, m).tool = tool /\ q1(t, m).at = 0
      /\ q1(t, m).attempt = n(t) /\ q1(t, m).asked = n(t)
  BY <1>4, <1>5, <1>6 DEF CallState, Steps
<1> HIDE DEF q0, q1
<1>9. CASE disabled
  <2>1. Starts(c, q0(t, m))
    BY <1>1, <1>2, <1>7, <1>9, StartsEffect
  <2>2. QED
    BY <1>1, <1>2, <1>7, <1>9, <2>1 DEF tool
<1>10. CASE ~ disabled
  <2>1. Starts(c, q1(t, m))
    BY <1>1, <1>2, <1>8, <1>10, StartsEffect
  <2>2. q1(t, m).asked = NextAttempt(<<q1(t, m).tool, t>>)
    BY <1>8 DEF n
  <2>3. QED
    BY <1>1, <1>2, <1>8, <1>10, <2>1, <2>2 DEF tool
<1>11. QED
  BY <1>9, <1>10

LEMMA AskAgentEffect ==
    ASSUME AmbientTypeOK, NEW c \in Call, AskAgent(c)
    PROVE  \E r \in CallState :
              /\ call[c].step = "idle" /\ backend = "codex"
              /\ Starts(c, r)
              /\ r.tool \in {"wait_agent", "close_agent"} /\ r.task = NoTask
              /\ r.attempt = 0 /\ r.asked = 0 /\ r.at = 0
              /\ r.step = IF disabled THEN "working" ELSE "render"
<1>1. call \in [Call -> CallState] /\ NoCall \in CallState
  BY NoCallTyped DEF AmbientTypeOK
<1>2. PICK a \in Call, tool \in {"wait_agent", "close_agent"} :
        LET q == [NoCall EXCEPT !.tool = tool, !.agent = a] IN
        IF disabled
        THEN call' = [call EXCEPT ![c] = [q EXCEPT !.step = "working"]]
        ELSE Begin(c, [q EXCEPT !.step = "render"])
  BY DEF AskAgent, Spawned
<1> DEFINE s == IF disabled THEN "working" ELSE "render"
           q == [NoCall EXCEPT !.tool = tool, !.agent = a]
           r == [q EXCEPT !.step = s]
<1>3. s \in Steps /\ tool \in Tools
  BY DEF Steps, Tools
<1>4. IF s = "working" THEN call' = [call EXCEPT ![c] = r] ELSE Begin(c, r)
  BY <1>2
<1> HIDE DEF s
<1>5. q \in CallState
  BY <1>1, <1>3 DEF CallState
<1>6. /\ q.tool = tool /\ q.task = NoTask /\ q.attempt = 0 /\ q.asked = 0
      /\ q.at = 0
  BY DEF NoCall
<1> HIDE DEF q
<1>7. /\ r \in CallState /\ r.tool = tool /\ r.task = NoTask
      /\ r.attempt = 0 /\ r.asked = 0 /\ r.at = 0 /\ r.step = s
  BY <1>3, <1>5, <1>6 DEF CallState
<1> HIDE DEF r
<1>8. Starts(c, r)
  BY <1>1, <1>4, <1>7, StartsEffect
<1>9. QED
  BY <1>7, <1>8 DEF s, AskAgent, MayStart

LEMMA SubagentStartEffect ==
    ASSUME AmbientTypeOK, NEW c \in Call, SubagentStart(c)
    PROVE  \E r \in CallState :
              /\ call[c].step = "idle" /\ backend = "codex"
              /\ Starts(c, r)
              /\ r.tool = "SubagentStart" /\ r.task = NoTask
              /\ r.attempt = 0 /\ r.asked = 0 /\ r.at = 0
              /\ r.step = "start"
<1>1. call \in [Call -> CallState] /\ NoCall \in CallState
  BY NoCallTyped DEF AmbientTypeOK
<1>2. PICK a \in Call : Begin(c, [NoCall EXCEPT !.step = "start", !.agent = a,
                                                !.tool = "SubagentStart"])
  BY DEF SubagentStart
<1> DEFINE r == [NoCall EXCEPT !.step = "start", !.agent = a,
                               !.tool = "SubagentStart"]
<1>3. r \in CallState
  BY <1>1 DEF CallState, Steps, Tools
<1>4. /\ r.tool = "SubagentStart" /\ r.task = NoTask /\ r.step = "start"
      /\ r.attempt = 0 /\ r.asked = 0 /\ r.at = 0
  BY DEF NoCall
<1> HIDE DEF r
<1>5. Starts(c, r)
  BY <1>1, <1>2, <1>3, StartsEffect DEF r
<1>6. QED
  BY <1>3, <1>4, <1>5 DEF SubagentStart, MayStart

LEMMA DescriptorTyped ==
    ASSUME AmbientTypeOK, Ordered, NEW c \in Call,
           call[c].step # "idle", call[c].tool # "SubagentStart"
    PROVE  DescriptorOf(c) \in Descriptor
<1>1. call[c].tool \in Tools /\ call[c].task \in Task \cup {NoTask}
  BY DEF AmbientTypeOK, CallState
<1>2. ForTask(c) <=> call[c].task \in Task
  BY DEF Ordered, InOrder
<1>3. QED
  BY <1>1, <1>2 DEF Tools, Descriptor, DescriptorOf, ForTask

LEMMA AnswerEffect ==
    ASSUME AmbientTypeOK, Ordered, NEW c \in Call, ReconcileAmbientPostToolUse(c)
    PROVE  \E r \in CallState :
              /\ call[c].step = "working"
              /\ Starts(c, r)
              /\ r.tool = call[c].tool /\ r.task = call[c].task
              /\ r.asked = call[c].asked /\ r.at = clock + 1
              /\ disabled => r.step = "done" /\ r.attempt = 0
              /\ ~ disabled => r.step = "agent"
                                /\ r.attempt = LatestAttempt(DescriptorOf(c))
<1> DEFINE n == LatestAttempt(DescriptorOf(c))
<1>1. /\ call \in [Call -> CallState] /\ call[c] \in CallState
      /\ call[c].step = "working" /\ clock + 1 \in Nat
  BY DEF AmbientTypeOK, ReconcileAmbientPostToolUse
<1>2. n \in Nat
  BY <1>1, DescriptorTyped, LedgerTyped DEF Ordered, InOrder
<1>3. PICK w \in Answer :
        LET q == [call[c] EXCEPT !.answer = w, !.attempt = n, !.at = clock + 1] IN
        IF disabled
        THEN call' = [call EXCEPT ![c] = [q EXCEPT !.step = "done",
                                                   !.attempt = 0]]
        ELSE Begin(c, [q EXCEPT !.step = "agent"])
  BY AmbientAssumption DEF ReconcileAmbientPostToolUse
<1> DEFINE q == [call[c] EXCEPT !.answer = w, !.attempt = n, !.at = clock + 1]
           q0 == [q EXCEPT !.step = "done", !.attempt = 0]
           q1 == [q EXCEPT !.step = "agent"]
<1> HIDE DEF n
<1>4. q \in CallState
  BY <1>1, <1>2 DEF CallState
<1>5. /\ q.tool = call[c].tool /\ q.task = call[c].task
      /\ q.asked = call[c].asked /\ q.at = clock + 1 /\ q.attempt = n
  BY <1>1 DEF CallState
<1>6. IF disabled THEN call' = [call EXCEPT ![c] = q0] ELSE Begin(c, q1)
  BY <1>3
<1> HIDE DEF q
<1>7. /\ q0 \in CallState /\ q0.step = "done" /\ q0.attempt = 0
      /\ q0.tool = call[c].tool /\ q0.task = call[c].task
      /\ q0.asked = call[c].asked /\ q0.at = clock + 1
  BY <1>4, <1>5 DEF CallState, Steps
<1>8. /\ q1 \in CallState /\ q1.step = "agent" /\ q1.attempt = n
      /\ q1.tool = call[c].tool /\ q1.task = call[c].task
      /\ q1.asked = call[c].asked /\ q1.at = clock + 1
  BY <1>4, <1>5 DEF CallState, Steps
<1> HIDE DEF q0, q1
<1>9. CASE disabled
  <2>1. Starts(c, q0)
    BY <1>1, <1>6, <1>7, <1>9, StartsEffect
  <2>2. QED
    BY <1>1, <1>7, <1>9, <2>1
<1>10. CASE ~ disabled
  <2>1. Starts(c, q1)
    BY <1>1, <1>6, <1>8, <1>10, StartsEffect
  <2>2. QED
    BY <1>1, <1>8, <1>10, <2>1 DEF n
<1>11. QED
  BY <1>9, <1>10

\* A record that is written stands for its agent; the others stay.
LEMMA AgentWritten ==
    ASSUME NEW a, NEW r, agents' = AgentsWith(a, r)
    PROVE  /\ DOMAIN agents' = DOMAIN agents \cup {a}
           /\ agents'[a] = r
           /\ \A x \in DOMAIN agents \ {a} : agents'[x] = agents[x]
BY DEF AgentsWith

LEMMA AgentsTyped ==
    ASSUME AmbientTypeOK, NEW a, NEW r \in [status : AgentStatus, policy : BOOLEAN],
           agents' = AgentsWith(a, r)
    PROVE  \A x \in DOMAIN agents' :
                agents'[x] \in [status : AgentStatus, policy : BOOLEAN]
<1>1. /\ DOMAIN agents' = DOMAIN agents \cup {a}
      /\ agents'[a] = r
      /\ \A x \in DOMAIN agents \ {a} : agents'[x] = agents[x]
  BY DEF AgentsWith
<1>2. ASSUME NEW x \in DOMAIN agents'
      PROVE  agents'[x] \in [status : AgentStatus, policy : BOOLEAN]
  <2>1. CASE x = a
    BY <1>1, <2>1
  <2>2. CASE x \in DOMAIN agents \ {a}
    BY <1>1, <2>2 DEF AmbientTypeOK
  <2>3. QED
    BY <1>1, <2>1, <2>2
<1>3. QED
  BY <1>2

-----------------------------------------------------------------------------
(* Types and order                                                         *)

LEMMA OrderKept ==
    ASSUME Ordered, NEW c \in Call, backend' = backend, OthersAlike(c), InOrder(c)'
    PROVE  Ordered'
<1>1. ASSUME NEW x \in Call \ {c} PROVE InOrder(x)'
  <2>1. Alike(call'[x], call[x]) /\ InOrder(x)
    BY DEF OthersAlike, Ordered
  <2>2. QED
    BY <2>1 DEF Alike, InOrder, ForTask
<1>2. QED
  BY <1>1 DEF Ordered

\* The steps a hook goes on to.
Follows(c, s) ==
    \/ call[c].step = "append" /\ s \in {"render", "decide"}
    \/ call[c].step = "decide" /\ s = "working"
    \/ call[c].step = "decide" /\ s = "denied"
    \/ call[c].step = "start" /\ s = "render"
    \/ call[c].step = "agent" /\ s = "result"
    \/ call[c].step = "result" /\ s = "report"
    \/ call[c].step = "report" /\ s = "render"
    \/ call[c].step = "render" /\ s = "status"
    \/ /\ call[c].step = "status"
       /\ s = IF call[c].at > 0 \/ call[c].tool = "SubagentStart"
              THEN "done" ELSE "decide"

LEMMA MovesOrdered ==
    ASSUME AmbientTypeOK, Ordered, NEW c \in Call, NEW s, Moves(c, s),
           Follows(c, s), backend' = backend
    PROVE  Ordered'
<1>1. call[c].at \in Nat /\ InOrder(c)
  BY DEF AmbientTypeOK, CallState, Ordered
<1>2. InOrder(c)'
  BY <1>1 DEF Moves, Follows, InOrder, ForTask
<1>3. QED
  BY <1>2, OrderKept DEF Moves

LEMMA StartsOrdered ==
    ASSUME AmbientTypeOK, Ordered, NEW c \in Call, NEW r, Starts(c, r),
           call[c].step = "idle", r.at = 0, backend' = backend,
           \/ /\ r.task \in Task
              /\ r.tool = IF backend = "codex" THEN "spawn_agent" ELSE "Task"
              /\ r.step = "working" \/ (r.step = "append" /\ r.asked > 0)
           \/ /\ r.task = NoTask /\ backend = "codex"
              /\ r.tool \in {"wait_agent", "close_agent"}
              /\ r.step \in {"working", "render"}
           \/ /\ r.task = NoTask /\ backend = "codex"
              /\ r.tool = "SubagentStart" /\ r.step = "start"
    PROVE  Ordered'
<1>1. InOrder(c)'
  <2>1. Alike(call'[c], r) /\ NoTask \notin Task /\ backend \in {"claude-code", "codex"}
    BY AmbientAssumption DEF Starts, AmbientTypeOK
  <2>2. QED
    BY <2>1 DEF Alike, InOrder, ForTask
<1>2. QED
  BY <1>1, OrderKept DEF Starts

LEMMA AnswerOrdered ==
    ASSUME AmbientTypeOK, Ordered, NEW c \in Call, ReconcileAmbientPostToolUse(c)
    PROVE  Ordered'
<1>1. PICK r \in CallState :
        /\ call[c].step = "working"
        /\ Starts(c, r)
        /\ r.tool = call[c].tool /\ r.task = call[c].task
        /\ r.at = clock + 1 /\ r.step \in {"done", "agent"}
  BY AnswerEffect
<1>2. InOrder(c) /\ clock + 1 > 0 /\ backend' = backend
  BY DEF Ordered, AmbientTypeOK, ReconcileAmbientPostToolUse
<1>3. Alike(call'[c], r) /\ call[c].tool # "SubagentStart"
  BY <1>1, <1>2 DEF Starts, InOrder
<1>4. InOrder(c)'
  BY <1>1, <1>2, <1>3 DEF Alike, InOrder, ForTask
<1>5. QED
  BY <1>1, <1>2, <1>4, OrderKept DEF Starts

\* Each action keeps the types, and the steps in order.
Kept == AmbientTypeOK' /\ Ordered'

LEMMA AppendEffect ==
    ASSUME AmbientTypeOK, NEW c \in Call, AppendAmbientTaskDescriptor(c)
    PROVE  /\ \/ Moves(c, "render")
              \/ Moves(c, "decide") /\ ledger' = ledger
           /\ \A x \in Call : call'[x].alone = call[x].alone
BY GotoEffect DEF AppendAmbientTaskDescriptor, AmbientTypeOK, Steps

LEMMA AppendTyped ==
    ASSUME AmbientTypeOK, Ordered, NEW c \in Call, AppendAmbientTaskDescriptor(c)
    PROVE  Kept
<1> DEFINE d == DescriptorOf(c)
<1>1. /\ call[c].step = "append" /\ call[c].attempt \in Nat
      /\ UNCHANGED <<backend, disabled, toggles, agents, candidates, distilled,
                     status, clock, history>>
  BY DEF AppendAmbientTaskDescriptor, AmbientTypeOK, CallState
<1>2. d \in Descriptor
  BY <1>1, DescriptorTyped DEF Ordered, InOrder, ForTask
<1>3. ledger' \in [Descriptor -> [requested : Seq(Nat), result : Outcomes, at : Nat]]
  <2>1. ledger[d].requested \in Seq(Nat)
    BY <1>2, LedgerTyped
  <2>2. Append(ledger[d].requested, call[c].attempt) \in Seq(Nat)
    BY <1>1, <2>1
  <2>3. \/ ledger' = ledger
        \/ ledger' = [ledger EXCEPT ![d].requested =
                          Append(ledger[d].requested, call[c].attempt)]
    BY <1>2 DEF AppendAmbientTaskDescriptor, AmbientTypeOK
  <2>4. QED
    BY <1>2, <2>2, <2>3, ZenonT(30) DEF AmbientTypeOK
<1>4. PICK s \in {"render", "decide"} : Moves(c, s)
  BY AppendEffect
<1>5. Ordered'
  BY <1>1, <1>4, MovesOrdered DEF Follows
<1>6. AmbientTypeOK'
  BY <1>1, <1>3, <1>4 DEF AmbientTypeOK, Moves, history
<1>7. QED
  BY <1>5, <1>6 DEF Kept

LEMMA DecideTyped ==
    ASSUME AmbientTypeOK, Ordered, NEW c \in Call, HandleAmbientPreToolUse(c)
    PROVE  Kept
<1>1. PICK s \in {"denied", "working"} : Moves(c, s)
  BY DecideEffect
<1>2. /\ call[c].step = "decide"
      /\ UNCHANGED <<backend, disabled, toggles, files, status, clock, history>>
  BY DEF HandleAmbientPreToolUse
<1>3. Ordered'
  BY <1>1, <1>2, MovesOrdered DEF Follows
<1>4. AmbientTypeOK'
  BY <1>1, <1>2 DEF AmbientTypeOK, Moves, files, history
<1>5. QED
  BY <1>3, <1>4 DEF Kept

LEMMA RenderTyped ==
    ASSUME AmbientTypeOK, Ordered, NEW c \in Call, RenderStatusMarkdown(c)
    PROVE  Kept
<1>1. Moves(c, "status")
  BY RenderEffect
<1>2. /\ call[c].step = "render"
      /\ UNCHANGED <<backend, disabled, toggles, files, status, clock, history>>
  BY DEF RenderStatusMarkdown
<1>3. Ordered'
  BY <1>1, <1>2, MovesOrdered DEF Follows
<1>4. AmbientTypeOK'
  BY <1>1, <1>2 DEF AmbientTypeOK, Moves, files, history
<1>5. QED
  BY <1>3, <1>4 DEF Kept

LEMMA WriteTyped ==
    ASSUME AmbientTypeOK, Ordered, NEW c \in Call, WriteStatusMarkdown(c)
    PROVE  Kept
<1>1. Moves(c, IF call[c].at > 0 \/ call[c].tool = "SubagentStart"
               THEN "done" ELSE "decide")
  BY WriteEffect
<1>2. /\ call[c].step = "status"
      /\ status' = call[c].seen /\ unsure' = ~ call[c].alone
      /\ UNCHANGED <<backend, disabled, toggles, files, clock, blurred>>
  BY DEF WriteStatusMarkdown
<1>3. Ordered'
  BY <1>1, <1>2, MovesOrdered DEF Follows
<1>4. status' \in {"none"} \cup Advices /\ unsure' \in BOOLEAN
  BY <1>2 DEF AmbientTypeOK, CallState
<1>5. AmbientTypeOK'
  BY <1>1, <1>2, <1>4 DEF AmbientTypeOK, Moves, files
<1>6. QED
  BY <1>3, <1>5 DEF Kept

LEMMA WriteAgentTyped ==
    ASSUME AmbientTypeOK, Ordered, NEW c \in Call, WriteAgentRun(c)
    PROVE  Kept
<1> DEFINE r == [status |-> "running", policy |-> FALSE]
<1>1. /\ call[c].step = "start" /\ Goto(c, "render")
      /\ agents' = AgentsWith(<<call[c].agent, 0>>, r)
      /\ UNCHANGED <<backend, disabled, toggles, ledger, candidates, distilled,
                     status, clock, history>>
  BY DEF WriteAgentRun
<1>2. Moves(c, "render")
  BY <1>1, GotoEffect DEF AmbientTypeOK, Steps
<1>3. Ordered'
  BY <1>1, <1>2, MovesOrdered DEF Follows
<1>4. r \in [status : AgentStatus, policy : BOOLEAN]
  BY DEF AgentStatus
<1>5. \A a \in DOMAIN agents' : agents'[a] \in [status : AgentStatus, policy : BOOLEAN]
  BY <1>1, <1>4, AgentsTyped
<1>6. AmbientTypeOK'
  BY <1>1, <1>2, <1>5 DEF AmbientTypeOK, Moves, history
<1>7. QED
  BY <1>3, <1>6 DEF Kept

LEMMA ResultStatusTyped ==
    ASSUME NEW c \in Call PROVE ResultStatus(c) \in AgentStatus
BY DEF ResultStatus, AgentStatus

LEMMA UpsertTyped ==
    ASSUME AmbientTypeOK, Ordered, NEW c \in Call, UpsertAmbientAgentRun(c)
    PROVE  Kept
<1> DEFINE policy == \/ call[c].answer.policy
                     \/ AgentOf(c) \in DOMAIN agents /\ agents[AgentOf(c)].policy
           r == [status |-> ResultStatus(c), policy |-> policy]
<1>1. /\ call[c].step = "agent" /\ Goto(c, "result")
      /\ agents' = IF NamesAgent(c) THEN AgentsWith(AgentOf(c), r) ELSE agents
      /\ UNCHANGED <<backend, disabled, toggles, ledger, candidates, distilled,
                     status, clock, history>>
  BY DEF UpsertAmbientAgentRun
<1>2. Moves(c, "result")
  BY <1>1, GotoEffect DEF AmbientTypeOK, Steps
<1>3. Ordered'
  BY <1>1, <1>2, MovesOrdered DEF Follows
<1>4. r \in [status : AgentStatus, policy : BOOLEAN]
  <2>1. policy \in BOOLEAN
    OBVIOUS
  <2>2. QED
    BY <2>1, ResultStatusTyped
<1> HIDE DEF r
<1>5. \A a \in DOMAIN agents' : agents'[a] \in [status : AgentStatus, policy : BOOLEAN]
  BY <1>1, <1>4, AgentsTyped DEF AmbientTypeOK
<1>6. AmbientTypeOK'
  BY <1>1, <1>2, <1>5 DEF AmbientTypeOK, Moves, history
<1>7. QED
  BY <1>3, <1>6 DEF Kept

LEMMA ResultTyped ==
    ASSUME AmbientTypeOK, Ordered, NEW c \in Call, ReconcileAmbientTaskResult(c)
    PROVE  Kept
<1> DEFINE d == DescriptorOf(c)
<1>1. /\ call[c].step = "result" /\ Goto(c, "report")
      /\ \/ ledger' = ledger
         \/ ledger' = [ledger EXCEPT ![d].result = ResultStatus(c),
                                     ![d].at = call[c].at]
      /\ UNCHANGED <<backend, disabled, toggles, agents, candidates, distilled,
                     status, clock, history>>
  BY DEF ReconcileAmbientTaskResult
<1>2. Moves(c, "report")
  BY <1>1, GotoEffect DEF AmbientTypeOK, Steps
<1>3. Ordered'
  BY <1>1, <1>2, MovesOrdered DEF Follows
<1>4. ResultStatus(c) \in Outcomes /\ call[c].at \in Nat
  BY ResultStatusTyped DEF Outcomes, AmbientTypeOK, CallState
<1>5. ledger' \in [Descriptor -> [requested : Seq(Nat), result : Outcomes, at : Nat]]
  <2>1. d \in Descriptor
    BY <1>1, DescriptorTyped DEF Ordered, InOrder
  <2>2. [ledger[d] EXCEPT !.result = ResultStatus(c), !.at = call[c].at]
          \in [requested : Seq(Nat), result : Outcomes, at : Nat]
    <3>1. ledger[d] \in [requested : Seq(Nat), result : Outcomes, at : Nat]
      BY <2>1 DEF AmbientTypeOK
    <3>2. QED
      BY <1>4, <3>1
  <2>3. \/ ledger' = ledger
        \/ ledger' = [ledger EXCEPT ![d] = [ledger[d] EXCEPT
                            !.result = ResultStatus(c), !.at = call[c].at]]
    BY <1>1, <2>1 DEF AmbientTypeOK
  <2>4. QED
    BY <2>1, <2>2, <2>3 DEF AmbientTypeOK
<1>6. AmbientTypeOK'
  BY <1>1, <1>2, <1>5 DEF AmbientTypeOK, Moves, history
<1>7. QED
  BY <1>3, <1>6 DEF Kept

LEMMA ReportTyped ==
    ASSUME AmbientTypeOK, Ordered, NEW c \in Call, AppendAmbientReport(c)
    PROVE  Kept
<1> DEFINE y == [id |-> <<DescriptorOf(c), call[c].attempt>>,
                 verified |-> call[c].answer.verified,
                 policy |-> call[c].answer.policy]
<1>1. /\ call[c].step = "report" /\ Goto(c, "render")
      /\ candidates' \subseteq candidates \cup {y}
      /\ distilled' = (distilled \/ call[c].answer.distilled)
      /\ UNCHANGED <<backend, disabled, toggles, ledger, agents, status, clock,
                     history>>
  BY DEF AppendAmbientReport
<1>2. Moves(c, "render")
  BY <1>1, GotoEffect DEF AmbientTypeOK, Steps
<1>3. Ordered'
  BY <1>1, <1>2, MovesOrdered DEF Follows
<1>4. y \in [id : Descriptor \X Nat, verified : BOOLEAN, policy : BOOLEAN]
  <2>1. DescriptorOf(c) \in Descriptor
    BY <1>1, DescriptorTyped DEF Ordered, InOrder
  <2>2. call[c].attempt \in Nat /\ call[c].answer \in Answer
    BY DEF AmbientTypeOK, CallState
  <2>3. call[c].answer.verified \in BOOLEAN /\ call[c].answer.policy \in BOOLEAN
    BY <2>2 DEF Answer
  <2>4. QED
    BY <2>1, <2>2, <2>3
<1> HIDE DEF y
<1>5. candidates' \subseteq [id : Descriptor \X Nat, verified : BOOLEAN, policy : BOOLEAN]
  BY <1>1, <1>4 DEF AmbientTypeOK
<1>6. distilled' \in BOOLEAN
  BY <1>1
<1>7. AmbientTypeOK'
  BY <1>1, <1>2, <1>5, <1>6 DEF AmbientTypeOK, Moves, history
<1>8. QED
  BY <1>3, <1>7 DEF Kept

LEMMA StartsTyped ==
    ASSUME AmbientTypeOK, Ordered, NEW c \in Call,
           AskTask(c) \/ AskAgent(c) \/ SubagentStart(c)
    PROVE  Kept
<1>1. CASE AskTask(c)
  <2>1. PICK t \in Task, r \in CallState :
          /\ call[c].step = "idle"
          /\ Starts(c, r)
          /\ r.task = t /\ r.at = 0 /\ r.attempt = r.asked
          /\ r.tool = IF backend = "codex" THEN "spawn_agent" ELSE "Task"
          /\ disabled => r.step = "working" /\ r.asked = 0
          /\ ~ disabled => r.step = "append" /\ r.asked = NextAttempt(<<r.tool, t>>)
          /\ blurred' \subseteq blurred \cup {t}
    BY <1>1, AskTaskEffect
  <2>2. r.step = "working" \/ (r.step = "append" /\ r.asked > 0)
    <3>1. <<r.tool, t>> \in Descriptor
      BY <2>1 DEF Descriptor
    <3>2. NextAttempt(<<r.tool, t>>) > 0
      BY <3>1, LedgerTyped DEF NextAttempt
    <3>3. QED
      BY <2>1, <3>2
  <2>3. UNCHANGED <<backend, disabled, toggles, files, status, clock, unsure>>
    BY <1>1 DEF AskTask
  <2>4. Ordered'
    BY <2>1, <2>2, <2>3, StartsOrdered
  <2>5. AmbientTypeOK'
    BY <2>1, <2>3 DEF AmbientTypeOK, Starts, files
  <2>6. QED
    BY <2>4, <2>5 DEF Kept
<1>2. CASE AskAgent(c)
  <2>1. PICK r \in CallState :
          /\ call[c].step = "idle" /\ backend = "codex"
          /\ Starts(c, r)
          /\ r.tool \in {"wait_agent", "close_agent"} /\ r.task = NoTask
          /\ r.at = 0 /\ r.step = IF disabled THEN "working" ELSE "render"
    BY <1>2, AskAgentEffect
  <2>2. UNCHANGED <<backend, disabled, toggles, files, status, clock, history>>
    BY <1>2 DEF AskAgent
  <2>3. Ordered'
    BY <2>1, <2>2, StartsOrdered
  <2>4. AmbientTypeOK'
    BY <2>1, <2>2 DEF AmbientTypeOK, Starts, files, history
  <2>5. QED
    BY <2>3, <2>4 DEF Kept
<1>3. CASE SubagentStart(c)
  <2>1. PICK r \in CallState :
          /\ call[c].step = "idle" /\ backend = "codex"
          /\ Starts(c, r)
          /\ r.tool = "SubagentStart" /\ r.task = NoTask
          /\ r.at = 0 /\ r.step = "start"
    BY <1>3, SubagentStartEffect
  <2>2. UNCHANGED <<backend, disabled, toggles, files, status, clock, history>>
    BY <1>3 DEF SubagentStart
  <2>3. Ordered'
    BY <2>1, <2>2, StartsOrdered
  <2>4. AmbientTypeOK'
    BY <2>1, <2>2 DEF AmbientTypeOK, Starts, files, history
  <2>5. QED
    BY <2>3, <2>4 DEF Kept
<1>4. QED
  BY <1>1, <1>2, <1>3

LEMMA AnswerTyped ==
    ASSUME AmbientTypeOK, Ordered, NEW c \in Call, ReconcileAmbientPostToolUse(c)
    PROVE  Kept
<1>1. call' \in [Call -> CallState]
  BY AnswerEffect DEF Starts
<1>2. /\ clock' = clock + 1
      /\ UNCHANGED <<backend, disabled, toggles, files, status, history>>
  BY DEF ReconcileAmbientPostToolUse
<1>3. clock' \in Nat
  BY <1>2 DEF AmbientTypeOK
<1>4. AmbientTypeOK'
  BY <1>1, <1>2, <1>3 DEF AmbientTypeOK, files, history
<1>5. QED
  BY <1>4, AnswerOrdered DEF Kept

LEMMA TypedStep ==
    ASSUME AmbientTypeOK, Ordered, [AmbientNext]_ambvars
    PROVE  AmbientTypeOK' /\ Ordered'
<1>1. CASE Toggle
  BY <1>1 DEF Toggle, AmbientTypeOK, Ordered, InOrder, ForTask, files, history
<1>2. CASE UNCHANGED ambvars
  BY <1>2 DEF ambvars, AmbientTypeOK, Ordered, InOrder, ForTask, files, history
<1>3. QED
  BY <1>1, <1>2, StartsTyped, AppendTyped, DecideTyped, WriteAgentTyped,
     AnswerTyped, UpsertTyped, ResultTyped, ReportTyped, RenderTyped, WriteTyped
  DEF AmbientNext, Kept

LEMMA TypedInit ==
    ASSUME AmbientInit PROVE AmbientTypeOK /\ Ordered
<1>1. NoCall \in CallState
  BY NoCallTyped
<1>2. AmbientTypeOK
  <2>1. PICK o \in Outcomes : o = ""
    BY DEF Outcomes
  <2>2. [requested |-> <<>>, result |-> "", at |-> 0]
          \in [requested : Seq(Nat), result : Outcomes, at : Nat]
    <3>1. [requested |-> <<>>, result |-> o, at |-> 0]
            \in [requested : Seq(Nat), result : Outcomes, at : Nat]
      OBVIOUS
    <3>2. QED
      BY <2>1, <3>1, Zenon
  <2>3. ledger \in [Descriptor -> [requested : Seq(Nat), result : Outcomes, at : Nat]]
    BY <2>2 DEF AmbientInit
  <2>4. DOMAIN agents = {}
    <3>1. agents = <<>>
      BY DEF AmbientInit
    <3>2. QED
      BY <3>1
  <2>5. QED
    BY <1>1, <2>3, <2>4 DEF AmbientInit, AmbientTypeOK
<1>3. Ordered
  BY AmbientAssumption DEF AmbientInit, Ordered, InOrder, NoCall, ForTask
<1>4. QED
  BY <1>2, <1>3

-----------------------------------------------------------------------------
(* status.md                                                               *)

LEMMA AloneKept ==
    ASSUME AloneIsOne, NEW c \in Call, NEW s, Moves(c, s), InHook(c),
           \A x \in Call : call'[x].alone => call[x].alone
    PROVE  AloneIsOne'
<1>1. \A x \in Call : InHook(x)' => InHook(x)
  BY DEF Moves, OthersAlike, Alike, InHook
<1>2. QED
  BY <1>1 DEF AloneIsOne

\* While a hook goes on, no other is about to write what it alone has seen.
LEMMA NoneElseAlone ==
    ASSUME AloneIsOne, NEW c \in Call, NEW s, Moves(c, s), InHook(c), s # "status",
           \A x \in Call : call'[x].alone => call[x].alone
    PROVE  SeenHolds'
<1>1. ASSUME NEW y \in Call, call'[y].step = "status", call'[y].alone PROVE FALSE
  <2>1. y # c
    BY <1>1 DEF Moves
  <2>2. call[y].step = "status" /\ call[y].alone
    BY <1>1, <2>1 DEF Moves, OthersAlike, Alike
  <2>3. InHook(y)
    BY <2>2 DEF InHook
  <2>4. QED
    BY <2>1, <2>2, <2>3 DEF AloneIsOne
<1>2. QED
  BY <1>1 DEF SeenHolds

\* A hook that changes a file goes on to a step that has yet to tell.
LEMMA ChangeTold ==
    ASSUME ToldInTime, NEW c \in Call, NEW s \in ToTell, Moves(c, s),
           InHook(c), s # "status",
           \A x \in Call : call'[x].alone => call[x].alone
    PROVE  ToldInTime'
<1>1. ToldAll'
  BY DEF Moves, ToldAll
<1>2. QED
  BY <1>1, AloneKept, NoneElseAlone DEF ToldInTime

LEMMA StartTold ==
    ASSUME ToldInTime, NEW c \in Call, NEW r, Starts(c, r),
           call[c].step \notin ToTell, ~ InHook(c), r.step # "status",
           UNCHANGED <<files, status, unsure>>
    PROVE  ToldInTime'
<1>1. Advice' = Advice
  BY AdviceStays
<1>2. call'[c].step # "status" /\ \A x \in Call \ {c} : call'[x].step = call[x].step
  BY DEF Starts, OthersAlike, Alike
<1>3. ToldAll'
  BY <1>1, <1>2 DEF ToldInTime, ToldAll
<1>4. CASE /\ call'[c].alone => \A y \in Call \ {c} : ~ InHook(y)
           /\ \A x \in Call \ {c} : ~ call'[x].alone
  <2>1. \A x \in Call \ {c} : InHook(x)' => InHook(x)
    BY <1>2 DEF InHook
  <2>2. AloneIsOne'
    BY <1>4, <2>1 DEF AloneIsOne
  <2>3. SeenHolds'
    BY <1>2, <1>4 DEF SeenHolds
  <2>4. QED
    BY <1>3, <2>2, <2>3 DEF ToldInTime
<1>5. CASE /\ call'[c].step \in {"working", "done"}
           /\ \A x \in Call \ {c} : call'[x] = call[x]
  <2>1. ~ InHook(c)' /\ \A x \in Call \ {c} : InHook(x)' => InHook(x)
    BY <1>5 DEF InHook
  <2>2. AloneIsOne'
    BY <1>5, <2>1 DEF AloneIsOne, ToldInTime
  <2>3. SeenHolds'
    BY <1>1, <1>2, <1>5 DEF SeenHolds, ToldInTime
  <2>4. QED
    BY <1>3, <2>2, <2>3 DEF ToldInTime
<1>6. QED
  BY <1>4, <1>5 DEF Starts

LEMMA ToldStep ==
    ASSUME AmbientTypeOK, Ordered, ToldInTime, [AmbientNext]_ambvars
    PROVE  ToldInTime'
<1>1. ASSUME NEW c \in Call, AskTask(c) PROVE ToldInTime'
  <2>1. PICK r : /\ Starts(c, r) /\ call[c].step = "idle"
                 /\ r.step \in {"working", "append"}
    BY <1>1, AskTaskEffect
  <2>2. UNCHANGED <<files, status, unsure>>
    BY <1>1 DEF AskTask
  <2>3. QED
    BY <2>1, <2>2, StartTold DEF InHook, ToTell
<1>2. ASSUME NEW c \in Call, AskAgent(c) PROVE ToldInTime'
  <2>1. PICK r : /\ Starts(c, r) /\ call[c].step = "idle"
                 /\ r.step \in {"working", "render"}
    BY <1>2, AskAgentEffect
  <2>2. UNCHANGED <<files, status, unsure>>
    BY <1>2 DEF AskAgent, history
  <2>3. QED
    BY <2>1, <2>2, StartTold DEF InHook, ToTell
<1>3. ASSUME NEW c \in Call, SubagentStart(c) PROVE ToldInTime'
  <2>1. PICK r : Starts(c, r) /\ call[c].step = "idle" /\ r.step = "start"
    BY <1>3, SubagentStartEffect
  <2>2. UNCHANGED <<files, status, unsure>>
    BY <1>3 DEF SubagentStart, history
  <2>3. QED
    BY <2>1, <2>2, StartTold DEF InHook, ToTell
<1>4. ASSUME NEW c \in Call, ReconcileAmbientPostToolUse(c) PROVE ToldInTime'
  <2>1. PICK r : /\ Starts(c, r) /\ call[c].step = "working"
                 /\ r.step \in {"done", "agent"}
    BY <1>4, AnswerEffect
  <2>2. UNCHANGED <<files, status, unsure>>
    BY <1>4 DEF ReconcileAmbientPostToolUse, history
  <2>3. QED
    BY <2>1, <2>2, StartTold DEF InHook, ToTell
<1>5. ASSUME NEW c \in Call,
             \/ WriteAgentRun(c) \/ UpsertAmbientAgentRun(c)
             \/ ReconcileAmbientTaskResult(c) \/ AppendAmbientReport(c)
      PROVE  ToldInTime'
  <2>1. PICK s \in {"render", "result", "report"} : Goto(c, s) /\ InHook(c)
    BY <1>5 DEF WriteAgentRun, UpsertAmbientAgentRun, ReconcileAmbientTaskResult,
                AppendAmbientReport, InHook
  <2>2. Moves(c, s) /\ \A x \in Call : call'[x].alone = call[x].alone
    BY <2>1, GotoEffect DEF AmbientTypeOK, Steps
  <2>3. QED
    BY <2>1, <2>2, ChangeTold DEF ToTell
<1>6. ASSUME NEW c \in Call, NEW s, s # "status", Moves(c, s), InHook(c),
             call[c].step \notin ToTell, UNCHANGED <<files, status, unsure>>,
             \A x \in Call : call'[x].alone => call[x].alone
      PROVE  ToldInTime'
  <2>1. Advice' = Advice
    BY <1>6, AdviceStays
  <2>2. \A x \in Call \ {c} : call'[x].step = call[x].step
    BY <1>6 DEF Moves, OthersAlike, Alike
  <2>3. ToldAll'
    BY <1>6, <2>1, <2>2 DEF ToldInTime, ToldAll
  <2>4. QED
    BY <1>6, <2>3, AloneKept, NoneElseAlone DEF ToldInTime
<1>7. ASSUME NEW c \in Call, AppendAmbientTaskDescriptor(c) PROVE ToldInTime'
  <2>1. /\ InHook(c) /\ call[c].step \notin ToTell
        /\ UNCHANGED <<agents, candidates, distilled, status, unsure>>
    BY <1>7 DEF AppendAmbientTaskDescriptor, InHook, ToTell, history
  <2>2. CASE Moves(c, "render")
    BY <1>7, <2>1, <2>2, AppendEffect, ChangeTold DEF ToTell
  <2>3. CASE Moves(c, "decide") /\ ledger' = ledger
    BY <1>7, <1>6, <2>1, <2>3, AppendEffect DEF files
  <2>4. QED
    BY <1>7, <2>2, <2>3, AppendEffect
<1>8. ASSUME NEW c \in Call, HandleAmbientPreToolUse(c) PROVE ToldInTime'
  <2>1. /\ InHook(c) /\ call[c].step \notin ToTell
        /\ UNCHANGED <<files, status, unsure>>
    BY <1>8 DEF HandleAmbientPreToolUse, InHook, ToTell, history
  <2>2. PICK s \in {"denied", "working"} : Moves(c, s)
    BY <1>8, DecideEffect
  <2>3. \A x \in Call : call'[x].alone => call[x].alone
    BY <1>8, DecideEffect
  <2>4. QED
    BY <1>6, <2>1, <2>2, <2>3
<1>9. ASSUME NEW c \in Call, RenderStatusMarkdown(c) PROVE ToldInTime'
  <2>1. /\ Moves(c, "status") /\ call'[c].seen = Advice
        /\ \A x \in Call : call'[x].alone = call[x].alone
        /\ \A x \in Call \ {c} : call'[x] = call[x]
    BY <1>9, RenderEffect
  <2>2. InHook(c) /\ Advice' = Advice
    BY <1>9, AdviceStays DEF RenderStatusMarkdown, InHook
  <2>3. ToldAll'
    BY <2>1 DEF Moves, ToldAll, ToTell
  <2>4. SeenHolds'
    BY <2>1, <2>2 DEF SeenHolds, ToldInTime
  <2>5. QED
    BY <2>1, <2>2, <2>3, <2>4, AloneKept DEF ToldInTime
<1>10. ASSUME NEW c \in Call, WriteStatusMarkdown(c) PROVE ToldInTime'
  <2>1. /\ call[c].step = "status" /\ InHook(c) /\ status' = call[c].seen
        /\ unsure' = ~ call[c].alone /\ UNCHANGED files
    BY <1>10 DEF WriteStatusMarkdown, InHook
  <2>2. PICK s \in {"done", "decide"} : Moves(c, s)
    BY <1>10, WriteEffect
  <2>3. \A x \in Call : call'[x].alone => call[x].alone
    BY <1>10, WriteEffect
  <2>4. ToldAll'
    <3>1. ~ unsure' => status' = Advice
      BY <2>1 DEF ToldInTime, SeenHolds
    <3>2. QED
      BY <2>1, <3>1, AdviceStays DEF ToldAll
  <2>5. QED
    BY <2>1, <2>2, <2>3, <2>4, AloneKept, NoneElseAlone DEF ToldInTime
<1>11. CASE Toggle \/ UNCHANGED ambvars
  <2>1. UNCHANGED <<files, status, unsure, call>>
    BY <1>11 DEF Toggle, ambvars, history
  <2>2. QED
    BY <2>1, AdviceStays DEF ToldInTime, ToldAll, AloneIsOne, SeenHolds, InHook
<1>12. QED
  BY <1>1, <1>2, <1>3, <1>4, <1>5, <1>7, <1>8, <1>9, <1>10, <1>11 DEF AmbientNext

-----------------------------------------------------------------------------
(* Attempts                                                                *)

Spawner == IF backend = "codex" THEN "spawn_agent" ELSE "Task"

LEMMA ClearFacts ==
    ASSUME AmbientTypeOK, Ordered, NEW c \in Call, call[c].task \in Task
    PROVE  /\ call[c].step # "idle" /\ ForTask(c)
           /\ DescriptorOf(c) = <<Spawner, call[c].task>>
           /\ DescriptorOf(c) \in Descriptor
           /\ Logged(c) \in Seq(Nat) /\ Len(Logged(c)) \in Nat
           /\ call[c].asked \in Nat /\ call[c].attempt \in Nat /\ call[c].at \in Nat
<1>1. InOrder(c) /\ NoTask \notin Task /\ backend \in {"claude-code", "codex"}
  BY AmbientAssumption DEF Ordered, AmbientTypeOK
<1>2. call[c].step # "idle" /\ ForTask(c)
  BY <1>1 DEF InOrder
<1>3. call[c].tool = Spawner
  BY <1>1, <1>2 DEF InOrder, ForTask, Spawner
<1>4. DescriptorOf(c) = <<Spawner, call[c].task>>
  BY <1>3 DEF DescriptorOf
<1>5. DescriptorOf(c) \in Descriptor
  BY <1>4 DEF Descriptor, Spawner
<1>6. Logged(c) \in Seq(Nat) /\ Len(Logged(c)) \in Nat
  BY <1>5, LedgerTyped DEF Logged
<1>7. QED
  BY <1>2, <1>4, <1>5, <1>6 DEF AmbientTypeOK, CallState

SameRequests ==
    \A d \in Descriptor : ledger'[d].requested = ledger[d].requested

\* What another call did to none of its own.
LEMMA AttemptOthers ==
    ASSUME AmbientTypeOK, Ordered, NEW c \in Call, OthersAlike(c),
           backend' = backend, SameRequests, blurred \subseteq blurred',
           NEW x \in Call \ {c}, AttemptOf(x), call[x].task \in Task
    PROVE  AttemptOf(x)' /\ call'[x].task = call[x].task
<1>1. Alike(call'[x], call[x]) /\ DescriptorOf(x) \in Descriptor
  BY ClearFacts DEF OthersAlike
<1>2. DescriptorOf(x)' = DescriptorOf(x)
  BY <1>1 DEF Alike, DescriptorOf
<1>3. Logged(x)' = Logged(x)
  BY <1>1, <1>2 DEF Logged, SameRequests
<1>4. QED
  BY <1>1, <1>3 DEF Alike, AttemptOf, UnderWay

LEMMA MoveAttempts ==
    ASSUME AmbientTypeOK, Ordered, Attempts, NEW c \in Call, NEW s, Moves(c, s),
           backend' = backend, SameRequests, blurred' = blurred,
           call[c].step \notin {"idle", "append", "done", "denied"},
           s \notin {"idle", "append"}
    PROVE  Attempts'
<1>1. Counted'
  BY DEF Attempts, Counted, SameRequests
<1>2. \A x \in Call :
        /\ call'[x].task = call[x].task /\ call'[x].asked = call[x].asked
        /\ UnderWay(x)' => UnderWay(x)
  BY DEF Moves, OthersAlike, Alike, UnderWay
<1>3. \A x \in Call : Clear(x)' <=> Clear(x)
  BY <1>2 DEF Clear
<1>4. OneAtATime' /\ AskedApart'
  BY <1>2, <1>3 DEF Attempts, OneAtATime, AskedApart
<1>5. ASSUME NEW x \in Call, Clear(x)' PROVE AttemptOf(x)'
  <2>1. Clear(x) /\ AttemptOf(x)
    BY <1>5, <1>3 DEF Attempts
  <2>2. CASE x # c
    BY <2>1, <2>2, AttemptOthers DEF Moves, Clear
  <2>3. CASE x = c
    <3>1. DescriptorOf(c)' = DescriptorOf(c) /\ DescriptorOf(c) \in Descriptor
      BY <2>1, <2>3, ClearFacts DEF Moves, DescriptorOf, Clear
    <3>2. Logged(c)' = Logged(c) /\ Len(Logged(c)) \in Nat
      BY <2>1, <2>3, <3>1, ClearFacts DEF Logged, SameRequests, Clear
    <3>3. UnderWay(c)
      BY DEF UnderWay
    <3>4. QED
      BY <2>1, <2>3, <3>2, <3>3 DEF Moves, AttemptOf
  <2>4. QED
    BY <2>2, <2>3
<1>6. QED
  BY <1>1, <1>4, <1>5 DEF Attempts

LEMMA AgentCallAttempts ==
    ASSUME AmbientTypeOK, Ordered, Attempts, NEW c \in Call, NEW r, Starts(c, r),
           r.task = NoTask, UNCHANGED <<backend, ledger, blurred>>
    PROVE  Attempts'
<1>1. call'[c].task \notin Task /\ OthersAlike(c)
  BY AmbientAssumption DEF Starts, Alike
<1>2. Counted'
  BY DEF Attempts, Counted
<1>3. \A x \in Call \ {c} :
        /\ call'[x].task = call[x].task /\ call'[x].asked = call[x].asked
        /\ UnderWay(x)' <=> UnderWay(x)
  BY <1>1 DEF OthersAlike, Alike, UnderWay
<1>4. OneAtATime' /\ AskedApart'
  BY <1>1, <1>3 DEF Attempts, OneAtATime, AskedApart, Clear
<1>5. ASSUME NEW x \in Call, Clear(x)' PROVE AttemptOf(x)'
  <2>1. x # c /\ Clear(x) /\ AttemptOf(x)
    BY <1>1, <1>3, <1>5 DEF Clear, Attempts
  <2>2. QED
    BY <1>1, <2>1, AttemptOthers DEF Clear, SameRequests
<1>6. QED
  BY <1>2, <1>4, <1>5 DEF Attempts

\* A new call of a task whose calls never overlapped takes the next ordinal:
\* the last call is over, and its request, the latest on record, has its own.
LEMMA AskTaskAttempts ==
    ASSUME AmbientTypeOK, Ordered, Attempts, NEW c \in Call, AskTask(c)
    PROVE  Attempts'
<1>1. PICK t \in Task, r \in CallState :
        /\ call[c].step = "idle"
        /\ Starts(c, r)
        /\ r.task = t /\ r.attempt = r.asked
        /\ r.tool = Spawner
        /\ disabled => r.step = "working" /\ r.asked = 0
        /\ ~ disabled => r.step = "append" /\ r.asked = NextAttempt(<<r.tool, t>>)
        /\ blurred' = IF disabled \/ \E x \in Call : UnderWay(x) /\ call[x].task = t
                      THEN blurred \cup {t} ELSE blurred
  BY AskTaskEffect DEF Spawner
<1>2. UNCHANGED <<backend, ledger>>
  BY DEF AskTask, files
<1>3. OthersAlike(c) /\ Alike(call'[c], r) /\ call'[c].task = t
  BY <1>1 DEF Starts, Alike
<1>4. Counted'
  BY <1>1, <1>2 DEF Attempts, Counted
<1>5. \A x \in Call \ {c} :
        /\ call'[x].task = call[x].task /\ call'[x].asked = call[x].asked
        /\ UnderWay(x)' <=> UnderWay(x)
        /\ Clear(x)' => Clear(x)
  BY <1>1, <1>3 DEF OthersAlike, Alike, UnderWay, Clear
<1>6. ASSUME NEW x \in Call \ {c}, Clear(x)' PROVE AttemptOf(x)'
  BY <1>1, <1>2, <1>3, <1>5, <1>6, AttemptOthers
  DEF Clear, Attempts, SameRequests
<1>7. CASE ~ Clear(c)'
  <2>1. ASSUME NEW x \in Call, NEW y \in Call, Clear(x)', call'[y].task = call'[x].task
        PROVE  x # c /\ y # c
    BY <1>7, <2>1 DEF Clear
  <2>2. OneAtATime' /\ AskedApart'
    BY <1>5, <2>1 DEF Attempts, OneAtATime, AskedApart, Clear
  <2>3. QED
    BY <1>4, <1>6, <1>7, <2>2 DEF Attempts
<1>8. CASE Clear(c)'
  <2>1. /\ ~ disabled /\ t \notin blurred /\ blurred' = blurred
        /\ \A x \in Call : call[x].task = t => ~ UnderWay(x)
    BY <1>1, <1>3, <1>8 DEF Clear
  <2>2. /\ call'[c].step = "append"
        /\ call'[c].asked = NextAttempt(<<Spawner, t>>)
        /\ call'[c].attempt = call'[c].asked
        /\ call'[c].tool = Spawner
    BY <1>1, <1>3, <2>1 DEF Alike
  <2>3. /\ <<Spawner, t>> \in Descriptor
        /\ Len(ledger[<<Spawner, t>>].requested) \in Nat
    BY LedgerTyped DEF Descriptor, Spawner
  <2>4. DescriptorOf(c)' = <<Spawner, t>>
    BY <1>3, <2>2 DEF DescriptorOf
  <2>5. AttemptOf(c)'
    BY <1>2, <2>2, <2>3, <2>4 DEF AttemptOf, Logged, NextAttempt
  <2>6. ASSUME NEW x \in Call \ {c}, call[x].task = t
        PROVE  call[x].asked # call'[c].asked
    <3>1. Clear(x) /\ ~ UnderWay(x) /\ AttemptOf(x)
      BY <2>1, <2>6 DEF Clear, Attempts
    <3>2. Logged(x) = ledger[<<Spawner, t>>].requested /\ call[x].asked \in Nat
      BY <2>6, ClearFacts DEF Logged
    <3>3. call[x].asked <= Len(ledger[<<Spawner, t>>].requested)
      BY <3>1, <3>2 DEF AttemptOf, UnderWay
    <3>4. QED
      BY <2>2, <2>3, <3>2, <3>3 DEF NextAttempt
  <2>7. AskedApart'
    <3>1. ASSUME NEW x \in Call, NEW y \in Call, Clear(x)',
                 call'[y].task = call'[x].task, call'[y].asked = call'[x].asked
          PROVE  x = y
      <4>1. CASE x = c /\ y # c
        BY <1>3, <1>5, <2>6, <3>1, <4>1
      <4>2. CASE x # c /\ y = c
        BY <1>3, <1>5, <2>6, <3>1, <4>2
      <4>3. CASE x # c /\ y # c
        BY <1>5, <3>1, <4>3 DEF Attempts, AskedApart
      <4>4. QED
        BY <4>1, <4>2, <4>3
    <3>2. QED
      BY <3>1 DEF AskedApart
  <2>8. OneAtATime'
    BY <1>3, <1>5, <2>1 DEF Attempts, OneAtATime
  <2>9. QED
    BY <1>4, <1>6, <2>5, <2>7, <2>8 DEF Attempts
<1>9. QED
  BY <1>7, <1>8

LEMMA CountedOn ==
    ASSUME NEW q \in Seq(Nat), \A i \in 1..Len(q) : q[i] = i
    PROVE  /\ Len(Append(q, Len(q) + 1)) = Len(q) + 1
           /\ \A i \in 1..(Len(q) + 1) : Append(q, Len(q) + 1)[i] = i
OBVIOUS

\* The ordinal is new, so the request is appended, and is the last.
LEMMA AppendAttempts ==
    ASSUME AmbientTypeOK, Ordered, Attempts, NEW c \in Call,
           AppendAmbientTaskDescriptor(c)
    PROVE  Attempts'
<1> DEFINE d == DescriptorOf(c)
           log == Logged(c)
<1>1. /\ call[c].step = "append" /\ UnderWay(c) /\ call[c].task \in Task
      /\ UNCHANGED <<backend, blurred>>
  BY DEF AppendAmbientTaskDescriptor, UnderWay, Ordered, InOrder, history
<1>2. /\ d = <<Spawner, call[c].task>> /\ d \in Descriptor
      /\ log \in Seq(Nat) /\ Len(log) \in Nat /\ call[c].attempt \in Nat
      /\ log = ledger[d].requested
  BY <1>1, ClearFacts DEF Logged
<1>3. PICK s \in {"render", "decide"} : Moves(c, s)
  BY AppendEffect
<1>4. \A x \in Call :
        /\ call'[x].task = call[x].task /\ call'[x].asked = call[x].asked
        /\ call'[x].attempt = call[x].attempt /\ call'[x].tool = call[x].tool
        /\ UnderWay(x)' <=> UnderWay(x)
        /\ x # c => call'[x].step = call[x].step
  BY <1>1, <1>3 DEF Moves, OthersAlike, Alike, UnderWay
<1>5. \A x \in Call : (Clear(x)' <=> Clear(x)) /\ DescriptorOf(x)' = DescriptorOf(x)
  BY <1>1, <1>4 DEF Clear, DescriptorOf
<1>6. \A e \in Descriptor \ {d} : ledger'[e].requested = ledger[e].requested
  BY <1>2 DEF AppendAmbientTaskDescriptor, AmbientTypeOK
<1>7. Clear(c) => /\ call[c].asked = Len(log) + 1 /\ call[c].attempt = Len(log) + 1
                  /\ \A i \in 1..Len(log) : log[i] = i
  BY <1>1, <1>2 DEF Attempts, AttemptOf, Counted, Clear
<1>8. Clear(c) => ledger'[d].requested = Append(log, call[c].attempt)
  <2>1. ASSUME Clear(c) PROVE ledger'[d].requested = Append(log, call[c].attempt)
    <3>1. ~ \E i \in DOMAIN ledger[d].requested :
                ledger[d].requested[i] = call[c].attempt
      <4>1. /\ DOMAIN log = 1..Len(log) /\ Len(log) \in Nat
            /\ log = ledger[d].requested
        BY <1>2
      <4>2. /\ \A i \in 1..Len(log) : log[i] = i
            /\ call[c].attempt = Len(log) + 1
        BY <1>7, <2>1
      <4>3. \A i \in 1..Len(log) : i # Len(log) + 1
        BY <4>1
      <4>4. QED
        BY <4>1, <4>2, <4>3
    <3>2. ledger' = [ledger EXCEPT ![d].requested =
                          Append(ledger[d].requested, call[c].attempt)]
      BY <3>1 DEF AppendAmbientTaskDescriptor
    <3>3. QED
      BY <1>2, <3>2 DEF AmbientTypeOK
  <2>2. QED
    BY <2>1
<1>9. Clear(c) => /\ Len(ledger'[d].requested) = Len(log) + 1
                  /\ \A i \in 1..(Len(log) + 1) : ledger'[d].requested[i] = i
  <2>1. ASSUME Clear(c)
        PROVE  /\ Len(ledger'[d].requested) = Len(log) + 1
               /\ \A i \in 1..(Len(log) + 1) : ledger'[d].requested[i] = i
    <3>1. ledger'[d].requested = Append(log, Len(log) + 1)
      BY <1>7, <1>8, <2>1
    <3>2. /\ Len(Append(log, Len(log) + 1)) = Len(log) + 1
          /\ \A i \in 1..(Len(log) + 1) : Append(log, Len(log) + 1)[i] = i
      BY <1>2, <1>7, <2>1, CountedOn
    <3> HIDE DEF log, d
    <3>3. QED
      BY <3>1, <3>2
  <2>2. QED
    BY <2>1
<1>10. Counted'
  <2>1. ASSUME NEW e \in Descriptor, e[2] \in Task \ blurred
        PROVE  \A i \in 1..Len(ledger'[e].requested) : ledger'[e].requested[i] = i
    <3>1. CASE e # d
      BY <1>6, <2>1, <3>1 DEF Attempts, Counted
    <3>2. CASE e = d
      <4>1. Clear(c)
        BY <1>2, <2>1, <3>2 DEF Clear
      <4>2. QED
        BY <1>9, <3>2, <4>1
    <3>3. QED
      BY <3>1, <3>2
  <2>2. QED
    BY <1>1, <2>1 DEF Counted
<1>11. OneAtATime' /\ AskedApart'
  BY <1>4, <1>5 DEF Attempts, OneAtATime, AskedApart
<1>12. ASSUME NEW x \in Call, Clear(x)' PROVE AttemptOf(x)'
  <2>1. Clear(x) /\ AttemptOf(x) /\ call[x].task \in Task
    BY <1>5, <1>12 DEF Attempts, Clear
  <2>2. /\ DescriptorOf(x) = <<Spawner, call[x].task>> /\ DescriptorOf(x) \in Descriptor
        /\ Len(Logged(x)) \in Nat /\ call[x].asked \in Nat
    BY <2>1, ClearFacts
  <2>3. Logged(x)' = ledger'[DescriptorOf(x)].requested
    BY <1>5 DEF Logged
  <2>4. CASE x = c
    <3>1. Len(Logged(c)') = call[c].asked
      BY <1>7, <1>9, <2>1, <2>3, <2>4
    <3>2. call[c].attempt = call[c].asked
      BY <1>1, <2>1, <2>4 DEF AttemptOf
    <3>3. QED
      BY <1>3, <1>4, <2>1, <2>4, <3>1, <3>2, <1>1 DEF AttemptOf, Moves
  <2>5. CASE x # c /\ DescriptorOf(x) # d
    <3>1. Logged(x)' = Logged(x)
      BY <1>6, <2>2, <2>3, <2>5 DEF Logged
    <3>2. QED
      BY <1>4, <2>1, <2>5, <3>1 DEF AttemptOf
  <2>6. CASE x # c /\ DescriptorOf(x) = d
    <3>1. call[x].task = call[c].task /\ Clear(c) /\ ~ UnderWay(x)
      BY <1>1, <1>2, <2>1, <2>2, <2>6 DEF Clear, Attempts, OneAtATime
    <3>2. Logged(x) = log /\ call[x].step # "append"
      BY <2>6, <3>1 DEF Logged, UnderWay
    <3>3. call[x].asked <= Len(log) /\ Len(Logged(x)') = Len(log) + 1
      BY <1>9, <2>1, <2>3, <2>6, <3>1, <3>2 DEF AttemptOf
    <3>4. call[x].asked <= Len(Logged(x)')
      BY <1>2, <2>2, <3>3
    <3>5. QED
      BY <1>4, <2>1, <2>6, <3>1, <3>2, <3>4 DEF AttemptOf
  <2>7. QED
    BY <2>4, <2>5, <2>6
<1>13. QED
  BY <1>10, <1>11, <1>12 DEF Attempts

\* The answer finds the request of its own call as the last one.
LEMMA AnswerAttempts ==
    ASSUME AmbientTypeOK, Ordered, Attempts, NEW c \in Call,
           ReconcileAmbientPostToolUse(c)
    PROVE  Attempts'
<1>1. PICK r \in CallState :
        /\ call[c].step = "working"
        /\ Starts(c, r)
        /\ r.tool = call[c].tool /\ r.task = call[c].task
        /\ r.asked = call[c].asked
        /\ disabled => r.step = "done" /\ r.attempt = 0
        /\ ~ disabled => r.step = "agent"
                          /\ r.attempt = LatestAttempt(DescriptorOf(c))
  BY AnswerEffect
<1>2. UNCHANGED <<backend, ledger, blurred>>
  BY DEF ReconcileAmbientPostToolUse, files, history
<1>3. OthersAlike(c) /\ Alike(call'[c], r)
  BY <1>1 DEF Starts
<1>4. \A x \in Call :
        /\ call'[x].task = call[x].task /\ call'[x].asked = call[x].asked
        /\ call'[x].tool = call[x].tool
        /\ UnderWay(x)' => UnderWay(x)
  BY <1>1, <1>3 DEF OthersAlike, Alike, UnderWay
<1>5. \A x \in Call : (Clear(x)' <=> Clear(x)) /\ DescriptorOf(x)' = DescriptorOf(x)
  BY <1>2, <1>4 DEF Clear, DescriptorOf
<1>6. Counted' /\ OneAtATime' /\ AskedApart'
  BY <1>2, <1>4, <1>5 DEF Attempts, Counted, OneAtATime, AskedApart
<1>7. ASSUME NEW x \in Call, Clear(x)' PROVE AttemptOf(x)'
  <2>1. Clear(x) /\ AttemptOf(x) /\ call[x].task \in Task
    BY <1>5, <1>7 DEF Attempts, Clear
  <2>2. CASE x # c
    BY <1>2, <1>3, <2>1, <2>2, AttemptOthers DEF SameRequests
  <2>3. CASE x = c
    <3>1. /\ call[c].asked > 0 /\ call[c].asked = Len(Logged(c))
          /\ Logged(c) \in Seq(Nat) /\ DescriptorOf(c) \in Descriptor
      BY <1>1, <2>1, <2>3, ClearFacts DEF AttemptOf, UnderWay
    <3>2. Logged(c)' = Logged(c)
      BY <1>2, <1>5 DEF Logged
    <3>3. LatestAttempt(DescriptorOf(c)) = call[c].asked
      <4>1. DescriptorOf(c)[2] \in Task \ blurred
        BY <2>1, <2>3, ClearFacts DEF Clear
      <4>2. \A i \in 1..Len(Logged(c)) : Logged(c)[i] = i
        BY <3>1, <4>1 DEF Attempts, Counted, Logged
      <4>3. Logged(c) # <<>> /\ Logged(c)[Len(Logged(c))] = Len(Logged(c))
        BY <3>1, <4>2
      <4>4. QED
        BY <3>1, <4>3 DEF LatestAttempt, Logged
    <3>4. \/ call'[c].step = "agent" /\ call'[c].attempt = call[c].asked
          \/ call'[c].step = "done" /\ call'[c].attempt = 0
      BY <1>1, <1>3, <3>3 DEF Alike
    <3>5. QED
      BY <1>4, <2>3, <3>1, <3>2, <3>4 DEF AttemptOf, UnderWay
  <2>4. QED
    BY <2>2, <2>3
<1>8. QED
  BY <1>6, <1>7 DEF Attempts

\* What the ledger is after a result.
Ends(e, o, n) == ledger' = [ledger EXCEPT ![e].result = o, ![e].at = n]

LEMMA ResultWritten ==
    ASSUME AmbientTypeOK, NEW e, NEW o, NEW n, Ends(e, o, n), NEW d \in Descriptor
    PROVE  /\ ledger'[d].requested = ledger[d].requested
           /\ d = e => ledger'[d].result = o /\ ledger'[d].at = n
           /\ d # e => ledger'[d] = ledger[d]
<1>1. ledger \in [Descriptor -> [requested : Seq(Nat), result : Outcomes, at : Nat]]
  BY DEF AmbientTypeOK
<1>2. CASE d # e
  BY <1>1, <1>2 DEF Ends
<1>3. CASE d = e
  <2>1. ledger[d] \in [requested : Seq(Nat), result : Outcomes, at : Nat]
    BY <1>1
  <2>2. ledger'[d] = [[ledger[d] EXCEPT !.result = o] EXCEPT !.at = n]
    BY <1>1, <1>3 DEF Ends
  <2>3. QED
    BY <1>3, <2>1, <2>2
<1>4. QED
  BY <1>2, <1>3

LEMMA AttemptsStep ==
    ASSUME AmbientTypeOK, Ordered, Attempts, [AmbientNext]_ambvars
    PROVE  Attempts'
<1>1. ASSUME NEW c \in Call, AskAgent(c) \/ SubagentStart(c) PROVE Attempts'
  <2>1. PICK r : Starts(c, r) /\ r.task = NoTask
    BY <1>1, AskAgentEffect, SubagentStartEffect
  <2>2. UNCHANGED <<backend, ledger, blurred>>
    BY <1>1 DEF AskAgent, SubagentStart, files, history
  <2>3. QED
    BY <2>1, <2>2, AgentCallAttempts
<1>2. ASSUME NEW c \in Call,
             \/ WriteAgentRun(c) \/ UpsertAmbientAgentRun(c)
             \/ AppendAmbientReport(c) \/ ReconcileAmbientTaskResult(c)
      PROVE  Attempts'
  <2>1. PICK s \in {"render", "result", "report"} : Goto(c, s)
    BY <1>2 DEF WriteAgentRun, UpsertAmbientAgentRun, ReconcileAmbientTaskResult,
                AppendAmbientReport
  <2>2. Moves(c, s)
    BY <2>1, GotoEffect DEF AmbientTypeOK, Steps
  <2>3. /\ UNCHANGED <<backend, blurred>>
        /\ call[c].step \in {"start", "agent", "report", "result"}
    BY <1>2 DEF WriteAgentRun, UpsertAmbientAgentRun, ReconcileAmbientTaskResult,
                AppendAmbientReport, history
  <2>4. SameRequests
    <3>1. \/ ledger' = ledger
          \/ Ends(DescriptorOf(c), ResultStatus(c), call[c].at)
      BY <1>2 DEF WriteAgentRun, UpsertAmbientAgentRun, ReconcileAmbientTaskResult,
                  AppendAmbientReport, Ends
    <3>2. QED
      BY <3>1, ResultWritten DEF SameRequests
  <2>5. QED
    BY <2>1, <2>2, <2>3, <2>4, MoveAttempts
<1>3. ASSUME NEW c \in Call,
             \/ HandleAmbientPreToolUse(c) \/ RenderStatusMarkdown(c)
             \/ WriteStatusMarkdown(c)
      PROVE  Attempts'
  <2>1. PICK s \in {"denied", "working", "status", "done", "decide"} : Moves(c, s)
    BY <1>3, DecideEffect, RenderEffect, WriteEffect
  <2>2. /\ UNCHANGED <<backend, blurred, ledger>>
        /\ call[c].step \in {"decide", "render", "status"}
    BY <1>3 DEF HandleAmbientPreToolUse, RenderStatusMarkdown, WriteStatusMarkdown,
                files, history
  <2>3. QED
    BY <2>1, <2>2, MoveAttempts DEF SameRequests
<1>4. CASE Toggle \/ UNCHANGED ambvars
  <2>1. UNCHANGED <<backend, ledger, blurred, call>>
    BY <1>4 DEF Toggle, ambvars, files, history
  <2>2. QED
    BY <2>1 DEF Attempts, Counted, OneAtATime, AskedApart, AttemptOf, Clear,
                UnderWay, Logged, DescriptorOf
<1>5. QED
  BY <1>1, <1>2, <1>3, <1>4, AskTaskAttempts, AppendAttempts, AnswerAttempts
  DEF AmbientNext

-----------------------------------------------------------------------------
(* What is on record about an answer                                       *)

SameRecord(x) ==
    /\ AgentOf(x)' = AgentOf(x)
    /\ ResultStatus(x)' = ResultStatus(x)
    /\ CandidateOf(x)' = CandidateOf(x)
    /\ DescriptorOf(x)' = DescriptorOf(x)
    /\ call'[x].task = call[x].task
    /\ call'[x].asked = call[x].asked
    /\ call'[x].answer = call[x].answer

LEMMA OthersSame ==
    ASSUME NEW c \in Call, OthersAlike(c), backend' = backend, NEW x \in Call \ {c}
    PROVE  /\ SameRecord(x)
           /\ Recorded(x)' <=> Recorded(x)
           /\ Reported(x)' <=> Reported(x)
<1>1. Alike(call'[x], call[x])
  BY DEF OthersAlike
<1>2. DescriptorOf(x)' = DescriptorOf(x) /\ ResultStatus(x)' = ResultStatus(x)
  BY <1>1 DEF Alike, DescriptorOf, ResultStatus
<1>3. AgentOf(x)' = AgentOf(x) /\ CandidateOf(x)' = CandidateOf(x)
  BY <1>1, <1>2 DEF Alike, AgentOf, CandidateOf
<1>4. QED
  BY <1>1, <1>2, <1>3 DEF SameRecord, Alike, Recorded, Reported

LEMMA MovedSame ==
    ASSUME NEW c \in Call, NEW s, Moves(c, s), backend' = backend
    PROVE  SameRecord(c)
<1>1. DescriptorOf(c)' = DescriptorOf(c) /\ ResultStatus(c)' = ResultStatus(c)
  BY DEF Moves, DescriptorOf, ResultStatus
<1>2. AgentOf(c)' = AgentOf(c) /\ CandidateOf(c)' = CandidateOf(c)
  BY <1>1 DEF Moves, AgentOf, CandidateOf
<1>3. QED
  BY <1>1, <1>2 DEF SameRecord, Moves

\* A step that writes no record, and records nothing of its own call.
LEMMA RecordKept ==
    ASSUME OnRecord, NEW c \in Call, OthersAlike(c), blurred \subseteq blurred',
           UNCHANGED <<backend, agents, candidates>>,
           \/ ~ Recorded(c) /\ ~ Recorded(c)'
           \/ /\ SameRecord(c)
              /\ Recorded(c)' <=> Recorded(c)
              /\ Reported(c)' <=> Reported(c)
    PROVE  OnRecord'
<1>1. ASSUME NEW x \in Call, Recorded(x)' \/ Recorded(x)
      PROVE  /\ SameRecord(x)
             /\ Recorded(x)' <=> Recorded(x)
             /\ Reported(x)' <=> Reported(x)
  BY <1>1, OthersSame
<1>2. \A x \in Call : (Reported(x) => Recorded(x)) /\ (Reported(x)' => Recorded(x)')
  BY DEF Recorded
<1>3. \A x \in Call : Clear(x)' /\ SameRecord(x) => Clear(x)
  BY DEF Clear, SameRecord
<1>4. AgentsTell'
  BY <1>1, <1>3 DEF OnRecord, AgentsTell, SameRecord
<1>5. CandidatesTell'
  BY <1>1, <1>2, <1>3 DEF OnRecord, CandidatesTell, SameRecord
<1>6. CandidatesMeant'
  <2>1. ASSUME NEW y \in candidates, y.id[1][2] \in Task \ blurred'
        PROVE  \E x \in Call : Reported(x)' /\ DescriptorOf(x)' = y.id[1]
                                /\ call'[x].asked = y.id[2]
    <3>1. PICK x \in Call : Reported(x) /\ DescriptorOf(x) = y.id[1]
                             /\ call[x].asked = y.id[2]
      BY <2>1 DEF OnRecord, CandidatesMeant
    <3>2. QED
      BY <1>1, <1>2, <3>1 DEF SameRecord
  <2>2. QED
    BY <2>1 DEF CandidatesMeant
<1>7. QED
  BY <1>4, <1>5, <1>6 DEF OnRecord

\* Calls that never overlapped have agents of their own.
LEMMA AgentsApart ==
    ASSUME AmbientTypeOK, Ordered, Attempts, backend = "claude-code",
           NEW c \in Call, NEW x \in Call, Clear(x), AgentOf(c) = AgentOf(x),
           call[c].attempt > 0, call[x].attempt > 0
    PROVE  c = x
<1>1. DescriptorOf(c) = DescriptorOf(x) /\ call[c].attempt = call[x].attempt
  BY DEF AgentOf
<1>2. call[c].task = call[x].task
  BY <1>1 DEF DescriptorOf
<1>3. Clear(c)
  BY <1>2 DEF Clear
<1>4. AttemptOf(c) /\ AttemptOf(x)
  BY <1>3 DEF Attempts
<1>5. call[c].asked = call[x].asked
  BY <1>1, <1>4 DEF AttemptOf
<1>6. QED
  BY <1>2, <1>5 DEF Attempts, AskedApart

LEMMA UpsertRecord ==
    ASSUME AmbientTypeOK, Ordered, Attempts, OnRecord, NEW c \in Call,
           UpsertAmbientAgentRun(c)
    PROVE  OnRecord'
<1> DEFINE r == [status |-> ResultStatus(c),
                 policy |-> \/ call[c].answer.policy
                            \/ /\ AgentOf(c) \in DOMAIN agents
                               /\ agents[AgentOf(c)].policy]
<1>1. /\ call[c].step = "agent"
      /\ backend = "claude-code" => agents' = AgentsWith(AgentOf(c), r)
      /\ UNCHANGED <<backend, candidates, blurred>>
  BY DEF UpsertAmbientAgentRun, NamesAgent, history
<1>2. Moves(c, "result")
  BY GotoEffect DEF UpsertAmbientAgentRun, AmbientTypeOK, Steps
<1>3. \A x \in Call : SameRecord(x) /\ (Clear(x)' <=> Clear(x))
  BY <1>1, <1>2, OthersSame, MovedSame DEF Moves, SameRecord, Clear
<1>4. /\ ~ Reported(c) /\ ~ Reported(c)'
      /\ \A x \in Call \ {c} : (Recorded(x)' <=> Recorded(x))
                                 /\ (Reported(x)' <=> Reported(x))
  BY <1>1, <1>2, OthersSame DEF Moves, Reported
<1>5. r.status = ResultStatus(c)
  OBVIOUS
<1> HIDE DEF r
<1>6. AgentsTell'
  <2>1. ASSUME backend = "claude-code", NEW x \in Call, Clear(x)', Recorded(x)'
        PROVE  /\ AgentOf(x)' \in DOMAIN agents'
               /\ agents'[AgentOf(x)'].status = ResultStatus(x)'
    <3>1. /\ Clear(x) /\ AgentOf(x)' = AgentOf(x) /\ ResultStatus(x)' = ResultStatus(x)
          /\ agents' = AgentsWith(AgentOf(c), r)
      BY <1>1, <1>3, <2>1 DEF SameRecord
    <3>5. AgentOf(c) \in DOMAIN agents' /\ agents'[AgentOf(c)] = r
      BY <3>1, AgentWritten
    <3>2. CASE x = c
      BY <1>5, <3>1, <3>2, <3>5
    <3>3. CASE x # c
      <4>1. Recorded(x) /\ AgentOf(x) \in DOMAIN agents
            /\ agents[AgentOf(x)].status = ResultStatus(x)
        BY <1>4, <2>1, <3>1, <3>3 DEF OnRecord, AgentsTell
      <4>2. CASE AgentOf(x) # AgentOf(c)
        BY <3>1, <4>1, <4>2, AgentWritten, ZenonT(30)
      <4>3. CASE AgentOf(x) = AgentOf(c)
        <5>1. call[x].attempt > 0
          BY <3>1, <4>1 DEF Recorded, Reported, Attempts, AttemptOf
        <5>2. call[c].attempt = call[x].attempt
          BY <2>1, <4>3 DEF AgentOf
        <5>3. QED
          BY <2>1, <3>1, <3>3, <4>3, <5>1, <5>2, AgentsApart
      <4>4. QED
        BY <4>2, <4>3
    <3>4. QED
      BY <3>2, <3>3
  <2>2. QED
    BY <1>1, <2>1 DEF AgentsTell
<1>7. CandidatesTell' /\ CandidatesMeant'
  BY <1>1, <1>3, <1>4 DEF OnRecord, CandidatesTell, CandidatesMeant, SameRecord
<1>8. QED
  BY <1>6, <1>7 DEF OnRecord

\* A report finds no candidate of its own attempt, so its candidate is the
\* one of the attempt.
LEMMA ReportRecord ==
    ASSUME AmbientTypeOK, Ordered, Attempts, OnRecord, NEW c \in Call,
           AppendAmbientReport(c)
    PROVE  OnRecord'
<1> DEFINE id == <<DescriptorOf(c), call[c].attempt>>
           y0 == [id |-> id, verified |-> call[c].answer.verified,
                  policy |-> call[c].answer.policy]
<1>1. /\ call[c].step = "report"
      /\ candidates \subseteq candidates' /\ candidates' \subseteq candidates \cup {y0}
      /\ call[c].answer.candidate /\ (\A x \in candidates : x.id # id)
            => y0 \in candidates'
      /\ UNCHANGED <<backend, agents, blurred>>
  BY DEF AppendAmbientReport, history
<1>2. Moves(c, "render")
  BY GotoEffect DEF AppendAmbientReport, AmbientTypeOK, Steps
<1>3. \A x \in Call : SameRecord(x) /\ (Clear(x)' <=> Clear(x))
  BY <1>1, <1>2, OthersSame, MovedSame DEF Moves, SameRecord, Clear
<1>4. /\ ~ Reported(c) /\ Recorded(c)
      /\ \A x \in Call \ {c} : (Recorded(x)' <=> Recorded(x))
                                 /\ (Reported(x)' <=> Reported(x))
  BY <1>1, <1>2, OthersSame DEF Moves, Reported, Recorded
<1>5. AgentsTell'
  BY <1>1, <1>3, <1>4 DEF OnRecord, AgentsTell, SameRecord
<1>6. Clear(c) => call[c].attempt = call[c].asked /\ call[c].asked > 0
  BY <1>1 DEF Attempts, AttemptOf
<1>7. y0.id = id /\ id[1] = DescriptorOf(c) /\ id[2] = call[c].attempt
      /\ id[1][2] = call[c].task
  BY DEF DescriptorOf
<1>8. call[c].asked = call[c].attempt => CandidateOf(c) = y0
  BY DEF CandidateOf
<1> HIDE DEF y0, id
<1>9. Clear(c) => \A y \in candidates : y.id # id
  <2>1. ASSUME Clear(c), NEW y \in candidates, y.id = id PROVE FALSE
    <3>1. y.id[1][2] \in Task \ blurred
      BY <1>7, <2>1 DEF Clear
    <3>2. PICK x \in Call : Reported(x) /\ DescriptorOf(x) = y.id[1]
                             /\ call[x].asked = y.id[2]
      BY <3>1 DEF OnRecord, CandidatesMeant
    <3>3. call[x].task = call[c].task /\ call[x].asked = call[c].asked
      BY <1>6, <1>7, <2>1, <3>2 DEF DescriptorOf
    <3>4. x = c
      BY <2>1, <3>3 DEF Attempts, AskedApart
    <3>5. QED
      BY <1>4, <3>2, <3>4
  <2>2. QED
    BY <2>1
<1>10. CandidatesTell'
  <2>1. ASSUME NEW x \in Call, Clear(x)', Reported(x)', call'[x].answer.candidate
        PROVE  CandidateOf(x)' \in candidates'
    <3>1. Clear(x) /\ CandidateOf(x)' = CandidateOf(x) /\ call[x].answer.candidate
      BY <1>3, <2>1 DEF SameRecord
    <3>2. CASE x # c
      BY <1>1, <1>4, <2>1, <3>1, <3>2 DEF OnRecord, CandidatesTell
    <3>3. CASE x = c
      BY <1>1, <1>6, <1>8, <1>9, <3>1, <3>3
    <3>4. QED
      BY <3>2, <3>3
  <2>2. QED
    BY <2>1 DEF CandidatesTell
<1>11. CandidatesMeant'
  <2>1. ASSUME NEW y \in candidates', y.id[1][2] \in Task \ blurred
        PROVE  \E x \in Call : Reported(x)' /\ DescriptorOf(x)' = y.id[1]
                                /\ call'[x].asked = y.id[2]
    <3>1. CASE y \in candidates
      <4>1. PICK x \in Call : Reported(x) /\ DescriptorOf(x) = y.id[1]
                               /\ call[x].asked = y.id[2]
        BY <2>1, <3>1 DEF OnRecord, CandidatesMeant
      <4>2. QED
        BY <1>3, <1>4, <4>1 DEF SameRecord
    <3>2. CASE y = y0
      <4>1. Clear(c)
        BY <1>7, <2>1, <3>2 DEF Clear
      <4>2. call[c].at > 0
        BY <1>1 DEF Ordered, InOrder
      <4>3. Reported(c)'
        BY <1>2, <1>6, <4>1, <4>2 DEF Moves, Reported
      <4>4. QED
        BY <1>3, <1>6, <1>7, <3>2, <4>1, <4>3 DEF SameRecord
    <3>3. QED
      BY <1>1, <2>1, <3>1, <3>2
  <2>2. QED
    BY <1>1, <2>1 DEF CandidatesMeant
<1>12. QED
  BY <1>5, <1>10, <1>11 DEF OnRecord

LEMMA RecordStep ==
    ASSUME AmbientTypeOK, Ordered, Attempts, OnRecord, [AmbientNext]_ambvars
    PROVE  OnRecord'
<1>1. ASSUME NEW c \in Call,
             \/ AskTask(c) \/ AskAgent(c) \/ SubagentStart(c)
             \/ ReconcileAmbientPostToolUse(c)
      PROVE  OnRecord'
  <2>1. PICK r : /\ Starts(c, r) /\ call[c].step \in {"idle", "working"}
                 /\ \/ r.step \in {"working", "append", "start", "agent"}
                    \/ r.step = "render" /\ r.at = 0
                    \/ r.step = "done" /\ r.attempt = 0
    <3>1. CASE AskTask(c)
      <4>1. PICK r : Starts(c, r) /\ call[c].step = "idle"
                      /\ r.step \in {"working", "append"}
        BY <3>1, AskTaskEffect
      <4>2. QED
        BY <4>1
    <3>2. CASE AskAgent(c)
      <4>1. PICK r : Starts(c, r) /\ call[c].step = "idle" /\ r.at = 0
                      /\ r.step \in {"working", "render"}
        BY <3>2, AskAgentEffect
      <4>2. QED
        BY <4>1
    <3>3. CASE SubagentStart(c)
      <4>1. PICK r : Starts(c, r) /\ call[c].step = "idle" /\ r.step = "start"
        BY <3>3, SubagentStartEffect
      <4>2. QED
        BY <4>1
    <3>4. CASE ReconcileAmbientPostToolUse(c)
      <4>1. PICK r : Starts(c, r) /\ call[c].step = "working"
                      /\ \/ r.step = "done" /\ r.attempt = 0
                         \/ r.step = "agent"
        BY <3>4, AnswerEffect
      <4>2. QED
        BY <4>1
    <3>5. QED
      BY <1>1, <3>1, <3>2, <3>3, <3>4
  <2>2. ~ Recorded(c) /\ ~ Recorded(c)' /\ OthersAlike(c)
    BY <2>1 DEF Starts, Alike, Recorded, Reported
  <2>3. /\ UNCHANGED <<backend, agents, candidates>>
        /\ blurred \subseteq blurred'
    BY <1>1 DEF AskTask, AskAgent, SubagentStart, ReconcileAmbientPostToolUse,
                files, history
  <2>4. QED
    BY <2>2, <2>3, RecordKept
<1>2. ASSUME NEW c \in Call, NEW s, Moves(c, s), Follows(c, s),
             call[c].step # "agent", call[c].step # "report",
             UNCHANGED <<backend, agents, candidates, blurred>>
      PROVE  OnRecord'
  <2>1. OthersAlike(c) /\ SameRecord(c)
    BY <1>2, MovedSame DEF Moves
  <2>2. InOrder(c)
    BY DEF Ordered
  <2>3. CASE call[c].step \in {"append", "decide", "start"}
    <3>1. ~ Recorded(c) /\ ~ Recorded(c)'
      BY <1>2, <2>2, <2>3 DEF Moves, Follows, InOrder, Recorded, Reported
    <3>2. QED
      BY <1>2, <2>1, <3>1, RecordKept
  <2>4. CASE call[c].step \in {"result", "render", "status"}
    <3>1. (Recorded(c)' <=> Recorded(c)) /\ (Reported(c)' <=> Reported(c))
      BY <1>2, <2>4 DEF Moves, Follows, Recorded, Reported
    <3>2. QED
      BY <1>2, <2>1, <3>1, RecordKept
  <2>5. QED
    BY <1>2, <2>3, <2>4 DEF Follows
<1>3. ASSUME NEW c \in Call, AppendAmbientTaskDescriptor(c) PROVE OnRecord'
  <2>1. PICK s \in {"render", "decide"} : Moves(c, s)
    BY <1>3, AppendEffect
  <2>2. /\ UNCHANGED <<backend, agents, candidates, blurred>>
        /\ call[c].step = "append"
    BY <1>3 DEF AppendAmbientTaskDescriptor, history
  <2>3. QED
    BY <1>2, <2>1, <2>2 DEF Follows
<1>4. ASSUME NEW c \in Call,
             \/ HandleAmbientPreToolUse(c) \/ RenderStatusMarkdown(c)
             \/ WriteStatusMarkdown(c)
      PROVE  OnRecord'
  <2>1. /\ UNCHANGED <<backend, agents, candidates, blurred>>
        /\ call[c].step \in {"decide", "render", "status"}
    BY <1>4 DEF HandleAmbientPreToolUse, RenderStatusMarkdown, WriteStatusMarkdown,
                files, history
  <2>2. PICK s : Moves(c, s) /\ Follows(c, s)
    <3>1. CASE HandleAmbientPreToolUse(c)
      <4>1. PICK s \in {"denied", "working"} : Moves(c, s)
        BY <3>1, DecideEffect
      <4>2. QED
        BY <3>1, <4>1 DEF Follows, HandleAmbientPreToolUse
    <3>2. CASE RenderStatusMarkdown(c)
      BY <3>2, RenderEffect DEF Follows, RenderStatusMarkdown
    <3>3. CASE WriteStatusMarkdown(c)
      BY <3>3, WriteEffect DEF Follows, WriteStatusMarkdown
    <3>4. QED
      BY <1>4, <3>1, <3>2, <3>3
  <2>3. QED
    BY <1>2, <2>1, <2>2
<1>5. ASSUME NEW c \in Call, ReconcileAmbientTaskResult(c) PROVE OnRecord'
  <2>1. /\ UNCHANGED <<backend, agents, candidates, blurred>>
        /\ call[c].step = "result" /\ Goto(c, "report")
    BY <1>5 DEF ReconcileAmbientTaskResult, history
  <2>2. Moves(c, "report")
    BY <2>1, GotoEffect DEF AmbientTypeOK, Steps
  <2>3. QED
    BY <1>2, <2>1, <2>2 DEF Follows
<1>6. ASSUME NEW c \in Call, WriteAgentRun(c) PROVE OnRecord'
  <2>1. /\ UNCHANGED <<backend, candidates, blurred>>
        /\ call[c].step = "start" /\ Goto(c, "render")
    BY <1>6 DEF WriteAgentRun, history
  <2>2. Moves(c, "render") /\ InOrder(c)
    BY <2>1, GotoEffect DEF AmbientTypeOK, Steps, Ordered
  <2>3. backend # "claude-code"
    BY <2>1, <2>2 DEF InOrder
  <2>4. AgentsTell'
    BY <2>1, <2>3 DEF AgentsTell
  <2>5. ~ Reported(c) /\ ~ Reported(c)'
    BY <2>1, <2>2 DEF Moves, InOrder, Reported
  <2>6. \A x \in Call : SameRecord(x) /\ (Reported(x)' <=> Reported(x))
    BY <2>1, <2>2, <2>5, OthersSame, MovedSame DEF Moves
  <2>7. CandidatesTell' /\ CandidatesMeant'
    BY <2>1, <2>6 DEF OnRecord, CandidatesTell, CandidatesMeant, SameRecord, Clear
  <2>8. QED
    BY <2>4, <2>7 DEF OnRecord
<1>7. CASE Toggle \/ UNCHANGED ambvars
  <2>1. UNCHANGED <<backend, agents, candidates, blurred, call>>
    BY <1>7 DEF Toggle, ambvars, files, history
  <2>2. \A x \in Call : /\ SameRecord(x) /\ (Clear(x)' <=> Clear(x))
                        /\ (Recorded(x)' <=> Recorded(x))
                        /\ (Reported(x)' <=> Reported(x))
    BY <2>1 DEF SameRecord, Clear, Recorded, Reported, AgentOf, ResultStatus,
                CandidateOf, DescriptorOf
  <2>3. QED
    BY <2>1, <2>2 DEF OnRecord, AgentsTell, CandidatesTell, CandidatesMeant, SameRecord
<1>8. QED
  BY <1>1, <1>3, <1>4, <1>5, <1>6, <1>7, UpsertRecord, ReportRecord DEF AmbientNext

-----------------------------------------------------------------------------
(* Requests without a result                                               *)

OpenHas(d) == ledger[d].requested # <<>> /\ ledger[d].result = ""

RequestsLogged ==
    \A c \in Call : Requested(c) /\ call[c].step # "append" => Logged(c) # <<>>

ResultsDated == \A d \in Descriptor : ledger[d].at > 0 => ledger[d].result # ""

OpenOutstanding ==
    \A d \in Descriptor : OpenHas(d)
        => \E c \in Call : DescriptorOf(c) = d /\ Outstanding(c)

ClaudeEnds ==
    backend = "claude-code" =>
        /\ \A d \in Descriptor : ledger[d].result \in {"", "failed", "completed"}
        /\ \A a \in DOMAIN agents : agents[a].status \in {"failed", "completed"}

LEMMA WaitingParts ==
    Waiting <=> RequestsLogged /\ ResultsDated /\ OpenOutstanding /\ ClaudeEnds
BY DEF Waiting, RequestsLogged, ResultsDated, OpenOutstanding, ClaudeEnds, OpenHas

\* A step that leaves the ledger and the agents alone.
LEMMA WaitingKept ==
    ASSUME AmbientTypeOK, Ordered, Waiting, NEW c \in Call, OthersAlike(c),
           UNCHANGED <<backend, ledger, agents>>,
           Requested(c)' /\ call'[c].step # "append"
                => /\ Requested(c) /\ call[c].step # "append"
                   /\ DescriptorOf(c)' = DescriptorOf(c),
           Outstanding(c) /\ DescriptorOf(c) \in Descriptor
                => Outstanding(c)' /\ DescriptorOf(c)' = DescriptorOf(c)
    PROVE  Waiting'
<1>1. \A x \in Call \ {c} :
        /\ DescriptorOf(x)' = DescriptorOf(x) /\ call'[x].step = call[x].step
        /\ Requested(x)' <=> Requested(x)
        /\ Outstanding(x)' <=> Outstanding(x)
  BY DEF OthersAlike, Alike, DescriptorOf, Requested, ForTask, Outstanding
<1>2. RequestsLogged'
  <2>1. ASSUME NEW x \in Call, Requested(x)', call'[x].step # "append"
        PROVE  Logged(x)' # <<>>
    <3>1. DescriptorOf(x)' = DescriptorOf(x) /\ Requested(x) /\ call[x].step # "append"
      BY <1>1, <2>1
    <3>2. Logged(x)' = Logged(x)
      BY <3>1 DEF Logged
    <3>3. QED
      BY <3>1, <3>2, WaitingParts DEF RequestsLogged
  <2>2. QED
    BY <2>1 DEF RequestsLogged
<1>3. ResultsDated' /\ ClaudeEnds'
  BY WaitingParts DEF ResultsDated, ClaudeEnds
<1>4. OpenOutstanding'
  <2>1. ASSUME NEW d \in Descriptor, OpenHas(d)
        PROVE  \E x \in Call : DescriptorOf(x)' = d /\ Outstanding(x)'
    <3>1. PICK x \in Call : DescriptorOf(x) = d /\ Outstanding(x)
      BY <2>1, WaitingParts DEF OpenOutstanding
    <3>2. QED
      BY <1>1, <2>1, <3>1
  <2>2. QED
    BY <2>1 DEF OpenOutstanding, OpenHas
<1>5. RequestsLogged' /\ ResultsDated' /\ OpenOutstanding' /\ ClaudeEnds' => Waiting'
  BY DEF Waiting, RequestsLogged, ResultsDated, OpenOutstanding, ClaudeEnds, OpenHas
<1>6. QED
  BY <1>2, <1>3, <1>4, <1>5

\* A hook goes on without touching the ledger or the agents.
LEMMA WaitingMoved ==
    ASSUME AmbientTypeOK, Ordered, Waiting, NEW c \in Call, NEW s, Moves(c, s),
           UNCHANGED <<backend, ledger, agents>>, Follows(c, s),
           call[c].step \in {"decide", "render", "status", "report"}
    PROVE  Waiting'
<1>1. DescriptorOf(c)' = DescriptorOf(c) /\ (Requested(c)' <=> Requested(c))
  BY DEF Moves, DescriptorOf, Requested, ForTask
<1>2. InOrder(c) /\ call[c].at \in Nat /\ call[c].attempt \in Nat
  BY DEF Ordered, AmbientTypeOK, CallState
<1>3. ASSUME Outstanding(c), DescriptorOf(c) \in Descriptor PROVE Outstanding(c)'
  <2>1. call[c].tool # "SubagentStart"
    BY <1>3 DEF Descriptor, DescriptorOf
  <2>2. CASE call[c].step \in {"decide", "report"}
    BY <1>2, <1>3, <2>2 DEF Moves, Follows, Outstanding
  <2>3. CASE call[c].step = "render"
    BY <1>2, <1>3, <2>3 DEF Moves, Follows, Outstanding
  <2>4. CASE call[c].step = "status"
    <3>1. call[c].at = 0
      BY <1>3, <2>4 DEF Outstanding
    <3>2. s = "decide"
      BY <1>2, <2>1, <2>4, <3>1 DEF Follows
    <3>3. QED
      BY <3>2 DEF Moves, Outstanding
  <2>5. QED
    BY <2>2, <2>3, <2>4
<1>4. QED
  BY <1>1, <1>3, WaitingKept DEF Moves

LEMMA StartWaiting ==
    ASSUME AmbientTypeOK, Ordered, Waiting, NEW c \in Call,
           AskTask(c) \/ AskAgent(c) \/ SubagentStart(c)
    PROVE  Waiting'
<1>1. PICK r : /\ Starts(c, r) /\ call[c].step = "idle"
               /\ r.step = "append" \/ r.asked = 0
  <2>1. CASE AskTask(c)
    <3>1. PICK r : /\ Starts(c, r) /\ call[c].step = "idle"
                   /\ disabled => r.asked = 0
                   /\ ~ disabled => r.step = "append"
      BY <2>1, AskTaskEffect
    <3>2. QED
      BY <3>1
  <2>2. CASE AskAgent(c)
    BY <2>2, AskAgentEffect
  <2>3. CASE SubagentStart(c)
    BY <2>3, SubagentStartEffect
  <2>4. QED
    BY <2>1, <2>2, <2>3
<1>2. UNCHANGED <<backend, ledger, agents>>
  BY DEF AskTask, AskAgent, SubagentStart, files
<1>3. ~ (Requested(c)' /\ call'[c].step # "append")
  BY <1>1 DEF Starts, Alike, Requested
<1>4. ~ Outstanding(c) /\ OthersAlike(c)
  BY <1>1 DEF Outstanding, Starts
<1>5. QED
  BY <1>2, <1>3, <1>4, WaitingKept

LEMMA AnswerWaiting ==
    ASSUME AmbientTypeOK, Ordered, Waiting, NEW c \in Call,
           ReconcileAmbientPostToolUse(c)
    PROVE  Waiting'
<1>1. PICK r : /\ Starts(c, r) /\ call[c].step = "working"
               /\ r.tool = call[c].tool /\ r.task = call[c].task
               /\ r.asked = call[c].asked
               /\ \/ r.step = "agent"
                  \/ r.step = "done" /\ r.attempt = 0
  <2>1. PICK r : /\ Starts(c, r) /\ call[c].step = "working"
                 /\ r.tool = call[c].tool /\ r.task = call[c].task
                 /\ r.asked = call[c].asked
                 /\ disabled => r.step = "done" /\ r.attempt = 0
                 /\ ~ disabled => r.step = "agent"
    BY AnswerEffect
  <2>2. QED
    BY <2>1
<1>2. Alike(call'[c], r) /\ OthersAlike(c)
  BY <1>1 DEF Starts
<1>3. DescriptorOf(c)' = DescriptorOf(c) /\ (Requested(c)' <=> Requested(c))
  BY <1>1, <1>2 DEF Alike, DescriptorOf, Requested, ForTask
<1>4. Outstanding(c)' /\ call[c].step # "append"
  BY <1>1, <1>2 DEF Alike, Outstanding
<1>5. UNCHANGED <<backend, ledger, agents>>
  BY DEF ReconcileAmbientPostToolUse, files
<1>6. QED
  BY <1>2, <1>3, <1>4, <1>5, WaitingKept

LEMMA AppendedNotEmpty ==
    ASSUME NEW q \in Seq(Nat), NEW n \in Nat PROVE Append(q, n) # <<>>
<1>1. Len(Append(q, n)) = Len(q) + 1 /\ Len(q) \in Nat
  OBVIOUS
<1>2. Len(Append(q, n)) # 0
  BY <1>1
<1>3. QED
  BY <1>2

Writes(d, q) == ledger' = [ledger EXCEPT ![d].requested = q]

LEMMA RequestWritten ==
    ASSUME AmbientTypeOK, NEW d \in Descriptor, NEW q, Writes(d, q),
           NEW e \in Descriptor
    PROVE  /\ ledger'[e].at = ledger[e].at /\ ledger'[e].result = ledger[e].result
           /\ e = d => ledger'[e].requested = q
           /\ e # d => ledger'[e] = ledger[e]
<1>1. ledger \in [Descriptor -> [requested : Seq(Nat), result : Outcomes, at : Nat]]
  BY DEF AmbientTypeOK
<1>2. ledger[d] \in [requested : Seq(Nat), result : Outcomes, at : Nat]
  BY <1>1
<1>3. ledger' = [ledger EXCEPT ![d] = [ledger[d] EXCEPT !.requested = q]]
  BY DEF Writes
<1>4. CASE e # d
  BY <1>1, <1>3, <1>4
<1>5. CASE e = d
  <2>1. ledger'[d] = [ledger[d] EXCEPT !.requested = q]
    BY <1>1, <1>3
  <2>2. QED
    BY <1>2, <1>5, <2>1
<1>6. QED
  BY <1>4, <1>5

\* A request that is on record stays there.
LEMMA AppendWaiting ==
    ASSUME AmbientTypeOK, Ordered, Waiting, NEW c \in Call,
           AppendAmbientTaskDescriptor(c)
    PROVE  Waiting'
<1> DEFINE d == DescriptorOf(c)
           log == ledger[d].requested
<1>1. /\ call[c].step = "append" /\ InOrder(c)
      /\ UNCHANGED <<backend, agents>>
  BY DEF AppendAmbientTaskDescriptor, Ordered
<1>2. d \in Descriptor /\ call[c].at = 0 /\ call[c].attempt \in Nat
  BY <1>1, DescriptorTyped DEF InOrder, ForTask, AmbientTypeOK, CallState
<1>3. log \in Seq(Nat)
  BY <1>2, LedgerTyped
<1>4. PICK s \in {"render", "decide"} : Moves(c, s)
  BY AppendEffect
<1>5. \A x \in Call :
        /\ DescriptorOf(x)' = DescriptorOf(x)
        /\ Requested(x)' <=> Requested(x)
        /\ x # c => call'[x].step = call[x].step
  BY <1>4 DEF Moves, OthersAlike, Alike, DescriptorOf, Requested, ForTask
<1>6. Outstanding(c)' /\ \A x \in Call \ {c} : Outstanding(x)' <=> Outstanding(x)
  BY <1>2, <1>4 DEF Moves, OthersAlike, Alike, Outstanding
<1>7. /\ \A e \in Descriptor : ledger'[e].at = ledger[e].at
                               /\ ledger'[e].result = ledger[e].result
      /\ \A e \in Descriptor \ {d} : ledger'[e] = ledger[e]
  <2>1. ledger' = ledger \/ Writes(d, Append(log, call[c].attempt))
    BY DEF AppendAmbientTaskDescriptor, Writes
  <2>2. QED
    BY <1>2, <2>1, RequestWritten
<1>8. ledger'[d].requested # <<>>
  <2>1. \/ log # <<>> /\ ledger' = ledger
        \/ Writes(d, Append(log, call[c].attempt))
    <3>1. CASE \E i \in DOMAIN log : log[i] = call[c].attempt
      <4>1. ledger' = ledger
        BY <3>1 DEF AppendAmbientTaskDescriptor
      <4>2. log # <<>>
        BY <1>3, <3>1
      <4>3. QED
        BY <4>1, <4>2
    <3>2. CASE ~ \E i \in DOMAIN log : log[i] = call[c].attempt
      BY <3>2 DEF AppendAmbientTaskDescriptor, Writes
    <3>3. QED
      BY <3>1, <3>2
  <2>2. Append(log, call[c].attempt) # <<>>
    BY <1>2, <1>3, AppendedNotEmpty
  <2>3. QED
    BY <1>2, <2>1, <2>2, RequestWritten, ZenonT(30)
<1>9. RequestsLogged'
  <2>1. ASSUME NEW x \in Call, Requested(x)', call'[x].step # "append"
        PROVE  Logged(x)' # <<>>
    <3>1. Requested(x) /\ Logged(x)' = ledger'[DescriptorOf(x)].requested
      BY <1>5, <2>1 DEF Logged
    <3>2. CASE DescriptorOf(x) = d
      BY <1>8, <3>1, <3>2
    <3>3. CASE DescriptorOf(x) # d
      <4>1. call[x].step # "append" /\ x # c
        BY <1>5, <2>1, <3>3
      <4>2. DescriptorOf(x) \in Descriptor
        BY <3>1, DescriptorTyped, AmbientAssumption
        DEF Requested, ForTask, Ordered, InOrder
      <4>3. Logged(x) # <<>>
        BY <3>1, <4>1, WaitingParts DEF RequestsLogged
      <4>4. QED
        BY <1>7, <3>1, <3>3, <4>2, <4>3 DEF Logged
    <3>4. QED
      BY <3>2, <3>3
  <2>2. QED
    BY <2>1 DEF RequestsLogged
<1>10. ResultsDated' /\ ClaudeEnds'
  BY <1>1, <1>7, WaitingParts DEF ResultsDated, ClaudeEnds
<1>11. OpenOutstanding'
  <2>1. ASSUME NEW e \in Descriptor, OpenHas(e)'
        PROVE  \E x \in Call : DescriptorOf(x)' = e /\ Outstanding(x)'
    <3>1. CASE e = d
      BY <1>5, <1>6, <3>1
    <3>2. CASE e # d
      <4>1. OpenHas(e)
        BY <1>7, <2>1, <3>2 DEF OpenHas
      <4>2. PICK x \in Call : DescriptorOf(x) = e /\ Outstanding(x)
        BY <4>1, WaitingParts DEF OpenOutstanding
      <4>3. QED
        BY <1>5, <1>6, <3>2, <4>2
    <3>3. QED
      BY <3>1, <3>2
  <2>2. QED
    BY <2>1 DEF OpenOutstanding
<1>12. RequestsLogged' /\ ResultsDated' /\ OpenOutstanding' /\ ClaudeEnds' => Waiting'
  BY DEF Waiting, RequestsLogged, ResultsDated, OpenOutstanding, ClaudeEnds, OpenHas
<1>13. QED
  BY <1>9, <1>10, <1>11, <1>12

\* In Claude Code an agent has failed or completed when it is first heard of.
LEMMA ClaudeResult ==
    ASSUME Ordered, NEW c \in Call, backend = "claude-code", call[c].step # "idle"
    PROVE  ResultStatus(c) \in {"failed", "completed"}
<1>1. call[c].tool = "Task"
  BY DEF Ordered, InOrder
<1>2. QED
  BY <1>1 DEF ResultStatus

LEMMA AgentWaiting ==
    ASSUME AmbientTypeOK, Ordered, Waiting, NEW c \in Call,
           UpsertAmbientAgentRun(c) \/ WriteAgentRun(c)
    PROVE  Waiting'
<1>1. /\ call[c].step \in {"agent", "start"} /\ UNCHANGED <<backend, ledger>>
      /\ call[c].step = "start" => WriteAgentRun(c)
      /\ call[c].step = "agent" => UpsertAmbientAgentRun(c)
  BY DEF UpsertAmbientAgentRun, WriteAgentRun
<1>2. PICK s \in {"result", "render"} : Moves(c, s) /\ (call[c].step = "agent" => s = "result")
  <2>1. CASE UpsertAmbientAgentRun(c)
    BY <2>1, GotoEffect DEF UpsertAmbientAgentRun, AmbientTypeOK, Steps
  <2>2. CASE WriteAgentRun(c)
    BY <2>2, GotoEffect DEF WriteAgentRun, AmbientTypeOK, Steps
  <2>3. QED
    BY <2>1, <2>2
<1>3. \A x \in Call :
        /\ DescriptorOf(x)' = DescriptorOf(x)
        /\ Requested(x)' <=> Requested(x)
        /\ x # c => call'[x].step = call[x].step
        /\ x # c => (Outstanding(x)' <=> Outstanding(x))
  BY <1>2 DEF Moves, OthersAlike, Alike, DescriptorOf, Requested, ForTask, Outstanding
<1>4. Outstanding(c) => Outstanding(c)'
  BY <1>1, <1>2 DEF Moves, Outstanding
<1>5. RequestsLogged'
  <2>1. ASSUME NEW x \in Call, Requested(x)', call'[x].step # "append"
        PROVE  Logged(x)' # <<>>
    <3>1. Requested(x) /\ call[x].step # "append" /\ Logged(x)' = Logged(x)
      BY <1>1, <1>3, <2>1 DEF Logged
    <3>2. QED
      BY <3>1, WaitingParts DEF RequestsLogged
  <2>2. QED
    BY <2>1 DEF RequestsLogged
<1>6. ResultsDated'
  BY <1>1, WaitingParts DEF ResultsDated
<1>7. OpenOutstanding'
  <2>1. ASSUME NEW d \in Descriptor, OpenHas(d)
        PROVE  \E x \in Call : DescriptorOf(x)' = d /\ Outstanding(x)'
    <3>1. PICK x \in Call : DescriptorOf(x) = d /\ Outstanding(x)
      BY <2>1, WaitingParts DEF OpenOutstanding
    <3>2. QED
      BY <1>3, <1>4, <3>1
  <2>2. QED
    BY <1>1, <2>1 DEF OpenOutstanding, OpenHas
<1>8. ClaudeEnds'
  <2>1. ASSUME backend = "claude-code", NEW a \in DOMAIN agents'
        PROVE  agents'[a].status \in {"failed", "completed"}
    <3>1. call[c].step = "agent"
      BY <1>1, <2>1 DEF Ordered, InOrder
    <3>2. PICK r : /\ r.status = ResultStatus(c)
                   /\ agents' = AgentsWith(AgentOf(c), r)
      <4> DEFINE r == [status |-> ResultStatus(c),
                       policy |-> \/ call[c].answer.policy
                                  \/ /\ AgentOf(c) \in DOMAIN agents
                                     /\ agents[AgentOf(c)].policy]
      <4>1. agents' = AgentsWith(AgentOf(c), r)
        BY <1>1, <2>1, <3>1 DEF UpsertAmbientAgentRun, NamesAgent
      <4>2. r.status = ResultStatus(c)
        OBVIOUS
      <4> HIDE DEF r
      <4>3. QED
        BY <4>1, <4>2
    <3>3. r.status \in {"failed", "completed"}
      BY <2>1, <3>1, <3>2, ClaudeResult
    <3>7. /\ DOMAIN agents' = DOMAIN agents \cup {AgentOf(c)}
          /\ agents'[AgentOf(c)] = r
          /\ \A y \in DOMAIN agents \ {AgentOf(c)} : agents'[y] = agents[y]
      BY <3>2, AgentWritten
    <3>4. CASE a = AgentOf(c)
      BY <3>2, <3>3, <3>4, <3>7
    <3>5. CASE a # AgentOf(c)
      <4>1. a \in DOMAIN agents /\ agents'[a] = agents[a]
        BY <2>1, <3>5, <3>7
      <4>2. QED
        BY <2>1, <4>1, WaitingParts DEF ClaudeEnds
    <3>6. QED
      BY <3>4, <3>5
  <2>2. QED
    BY <1>1, <2>1, WaitingParts DEF ClaudeEnds
<1>9. RequestsLogged' /\ ResultsDated' /\ OpenOutstanding' /\ ClaudeEnds' => Waiting'
  BY DEF Waiting, RequestsLogged, ResultsDated, OpenOutstanding, ClaudeEnds, OpenHas
<1>10. QED
  BY <1>5, <1>6, <1>7, <1>8, <1>9

\* A result closes its descriptor, or finds it closed.
LEMMA ResultWaiting ==
    ASSUME AmbientTypeOK, Ordered, Waiting, NEW c \in Call,
           ReconcileAmbientTaskResult(c)
    PROVE  Waiting'
<1> DEFINE d == DescriptorOf(c)
           o == ResultStatus(c)
<1>1. /\ call[c].step = "result" /\ UNCHANGED <<backend, agents>>
      /\ IF ledger[d].at > call[c].at THEN ledger' = ledger
         ELSE Ends(d, o, call[c].at)
  BY DEF ReconcileAmbientTaskResult, Ends
<1>2. Moves(c, "report")
  BY GotoEffect DEF ReconcileAmbientTaskResult, AmbientTypeOK, Steps
<1>3. \A x \in Call :
        /\ DescriptorOf(x)' = DescriptorOf(x)
        /\ Requested(x)' <=> Requested(x)
        /\ x # c => call'[x].step = call[x].step
        /\ x # c => (Outstanding(x)' <=> Outstanding(x))
  BY <1>2 DEF Moves, OthersAlike, Alike, DescriptorOf, Requested, ForTask, Outstanding
<1>4. d \in Descriptor /\ call[c].at \in Nat /\ InOrder(c)
  BY <1>1, DescriptorTyped DEF Ordered, InOrder, AmbientTypeOK, CallState
<1>5. o # "" /\ o \in AgentStatus
  BY ResultStatusTyped DEF AgentStatus
<1> HIDE DEF o
<1>6. ledger[d].at \in Nat
  BY <1>4, LedgerTyped
<1>7. /\ \A e \in Descriptor : ledger'[e].requested = ledger[e].requested
      /\ \A e \in Descriptor \ {d} : ledger'[e] = ledger[e]
      /\ \/ ledger'[d] = ledger[d] /\ ledger[d].at > 0
         \/ ledger'[d].result = o
  <2>1. CASE ledger[d].at > call[c].at
    BY <1>1, <1>4, <1>6, <2>1
  <2>2. CASE ~ (ledger[d].at > call[c].at)
    <3>1. Ends(d, o, call[c].at)
      BY <1>1, <2>2
    <3>2. \A e \in Descriptor :
            /\ ledger'[e].requested = ledger[e].requested
            /\ d = e => ledger'[e].result = o /\ ledger'[e].at = call[c].at
            /\ d # e => ledger'[e] = ledger[e]
      BY <3>1, ResultWritten
    <3>3. QED
      BY <1>4, <3>2
  <2>3. QED
    BY <2>1, <2>2
<1>8. ledger'[d].result # ""
  BY <1>4, <1>5, <1>7, WaitingParts DEF ResultsDated
<1>9. RequestsLogged'
  <2>1. ASSUME NEW x \in Call, Requested(x)', call'[x].step # "append"
        PROVE  Logged(x)' # <<>>
    <3>1. Requested(x) /\ call[x].step # "append"
      BY <1>1, <1>3, <2>1
    <3>2. DescriptorOf(x) \in Descriptor
      BY <3>1, DescriptorTyped, AmbientAssumption
      DEF Requested, ForTask, Ordered, InOrder
    <3>3. Logged(x)' = Logged(x)
      BY <1>3, <1>7, <3>2 DEF Logged
    <3>4. QED
      BY <3>1, <3>3, WaitingParts DEF RequestsLogged
  <2>2. QED
    BY <2>1 DEF RequestsLogged
<1>10. ResultsDated'
  BY <1>7, <1>8, WaitingParts DEF ResultsDated
<1>11. OpenOutstanding'
  <2>1. ASSUME NEW e \in Descriptor, OpenHas(e)'
        PROVE  \E x \in Call : DescriptorOf(x)' = e /\ Outstanding(x)'
    <3>1. e # d
      BY <1>8, <2>1 DEF OpenHas
    <3>2. OpenHas(e)
      BY <1>7, <2>1, <3>1 DEF OpenHas
    <3>3. PICK x \in Call : DescriptorOf(x) = e /\ Outstanding(x)
      BY <3>2, WaitingParts DEF OpenOutstanding
    <3>4. QED
      BY <1>3, <3>1, <3>3
  <2>2. QED
    BY <2>1 DEF OpenOutstanding
<1>12. ClaudeEnds'
  <2>1. backend = "claude-code" => o \in {"failed", "completed"}
    BY <1>1, ClaudeResult DEF o
  <2>2. QED
    BY <1>1, <1>7, <2>1, WaitingParts DEF ClaudeEnds
<1>13. RequestsLogged' /\ ResultsDated' /\ OpenOutstanding' /\ ClaudeEnds' => Waiting'
  BY DEF Waiting, RequestsLogged, ResultsDated, OpenOutstanding, ClaudeEnds, OpenHas
<1>14. QED
  BY <1>9, <1>10, <1>11, <1>12, <1>13

LEMMA WaitingStep ==
    ASSUME AmbientTypeOK, Ordered, Waiting, [AmbientNext]_ambvars
    PROVE  Waiting'
<1>1. ASSUME NEW c \in Call, HandleAmbientPreToolUse(c) PROVE Waiting'
  <2>1. PICK s \in {"denied", "working"} : Moves(c, s)
    BY <1>1, DecideEffect
  <2>2. UNCHANGED <<backend, ledger, agents>> /\ call[c].step = "decide"
    BY <1>1 DEF HandleAmbientPreToolUse, files
  <2>3. QED
    BY <2>1, <2>2, WaitingMoved DEF Follows
<1>2. ASSUME NEW c \in Call, RenderStatusMarkdown(c) PROVE Waiting'
  <2>1. UNCHANGED <<backend, ledger, agents>> /\ call[c].step = "render"
    BY <1>2 DEF RenderStatusMarkdown, files
  <2>2. QED
    BY <1>2, <2>1, RenderEffect, WaitingMoved DEF Follows
<1>3. ASSUME NEW c \in Call, WriteStatusMarkdown(c) PROVE Waiting'
  <2>1. UNCHANGED <<backend, ledger, agents>> /\ call[c].step = "status"
    BY <1>3 DEF WriteStatusMarkdown, files
  <2>2. PICK s : Moves(c, s) /\ Follows(c, s)
    BY <1>3, <2>1, WriteEffect DEF Follows
  <2>3. QED
    BY <2>1, <2>2, WaitingMoved
<1>4. ASSUME NEW c \in Call, AppendAmbientReport(c) PROVE Waiting'
  <2>1. /\ UNCHANGED <<backend, ledger, agents>> /\ call[c].step = "report"
        /\ Goto(c, "render")
    BY <1>4 DEF AppendAmbientReport
  <2>2. Moves(c, "render")
    BY <2>1, GotoEffect DEF AmbientTypeOK, Steps
  <2>3. QED
    BY <2>1, <2>2, WaitingMoved DEF Follows
<1>5. CASE Toggle \/ UNCHANGED ambvars
  <2>1. UNCHANGED <<backend, ledger, agents, call>>
    BY <1>5 DEF Toggle, ambvars, files
  <2>2. QED
    BY <2>1 DEF Waiting, Requested, ForTask, Logged, Outstanding, DescriptorOf
<1>6. QED
  BY <1>1, <1>2, <1>3, <1>4, <1>5, StartWaiting, AnswerWaiting, AppendWaiting,
     AgentWaiting, ResultWaiting DEF AmbientNext

-----------------------------------------------------------------------------
(* The invariant                                                           *)

LEMMA InvInit ==
    ASSUME AmbientInit PROVE AmbientInv
<1>1. AmbientTypeOK /\ Ordered
  BY TypedInit
<1>2. /\ \A c \in Call : call[c].step = "idle" /\ call[c].asked = 0
                          /\ call[c].alone = FALSE /\ call[c].task = NoTask
      /\ candidates = {} /\ status = "none"
  BY DEF AmbientInit, NoCall
<1>3. \A d \in Descriptor : ledger[d].requested = <<>> /\ ledger[d].at = 0
  BY DEF AmbientInit
<1>4. DOMAIN agents = {}
  <2>1. agents = <<>>
    BY DEF AmbientInit
  <2>2. QED
    BY <2>1
<1>5. Attempts
  <2>1. \A c \in Call : ~ Clear(c)
    BY <1>2, AmbientAssumption DEF Clear
  <2>2. Counted
    <3>1. ASSUME NEW d \in Descriptor PROVE 1..Len(ledger[d].requested) = {}
      <4>1. Len(ledger[d].requested) = 0
        BY <1>3
      <4>2. QED
        BY <4>1
    <3>2. QED
      BY <3>1 DEF Counted
  <2>3. QED
    BY <2>1, <2>2 DEF Attempts, OneAtATime, AskedApart
<1>6. OnRecord
  BY <1>2 DEF OnRecord, AgentsTell, CandidatesTell, CandidatesMeant, Recorded, Reported
<1>7. Waiting
  <2>1. RequestsLogged
    <3>1. \A c \in Call : ~ Requested(c)
      BY <1>2 DEF Requested
    <3>2. QED
      BY <3>1 DEF RequestsLogged
  <2>2. ResultsDated
    <3>1. \A d \in Descriptor : ~ (ledger[d].at > 0)
      BY <1>3
    <3>2. QED
      BY <3>1, Zenon DEF ResultsDated
  <2>3. OpenOutstanding
    <3>1. \A d \in Descriptor : ~ OpenHas(d)
      BY <1>3 DEF OpenHas
    <3>2. QED
      BY <3>1 DEF OpenOutstanding
  <2>4. ClaudeEnds
    <3>1. \A d \in Descriptor : ledger[d].result = ""
      BY Zenon DEF AmbientInit
    <3>2. \A d \in Descriptor : ledger[d].result \in {"", "failed", "completed"}
      BY <3>1
    <3>3. QED
      BY <1>4, <3>2 DEF ClaudeEnds
  <2>5. QED
    BY <2>1, <2>2, <2>3, <2>4, WaitingParts
<1>8. ToldInTime
  BY <1>2 DEF ToldInTime, ToldAll, AloneIsOne, SeenHolds
<1>9. QED
  BY <1>1, <1>5, <1>6, <1>7, <1>8 DEF AmbientInv

\* What hooks, files and history have to do with one another holds throughout.
THEOREM AmbientInvariant == AmbientSpec => []AmbientInv
<1>1. AmbientInit => AmbientInv
  BY InvInit
<1>2. AmbientInv /\ [AmbientNext]_ambvars => AmbientInv'
  BY TypedStep, AttemptsStep, RecordStep, WaitingStep, ToldStep DEF AmbientInv
<1>3. QED
  BY <1>1, <1>2, PTL DEF AmbientSpec

\* Every file of the run, and every call, is of its type: the ordinals are
\* natural numbers, the statuses those the readers know, and status.md is
\* advice that NextAmbientAction and the older list can give.
THEOREM AmbientTypeCorrect == AmbientSpec => []AmbientTypeOK
<1>1. AmbientInv => AmbientTypeOK
  BY DEF AmbientInv
<1>2. QED
  BY <1>1, AmbientInvariant, PTL

-----------------------------------------------------------------------------
(* The properties                                                          *)

\* However many hooks of however many calls interleave, an answer is put on
\* record under the attempt its own call was given, and no two calls of a task
\* that never overlapped share one: what ReconcileAmbientPostToolUse counts is
\* what AppendAmbientTaskDescriptor appended for it.
THEOREM AttemptsTraced == AmbientSpec => []AttemptTraced
<1>1. ASSUME AmbientInv PROVE AttemptTraced
  <2>1. AmbientTypeOK /\ Ordered /\ Attempts /\ OnRecord
    BY <1>1 DEF AmbientInv
  <2>2. ASSUME NEW c \in Call, Requested(c), call[c].task \notin blurred
        PROVE  Clear(c)
    <3>1. call[c].step # "idle"
      BY <2>1, <2>2 DEF Requested, Ordered, InOrder, AmbientTypeOK, CallState
    <3>2. QED
      BY <2>1, <2>2, <3>1 DEF Requested, Ordered, InOrder, Clear
  <2>3. ASSUME NEW c \in Call, Clear(c), NEW x \in Call \ {c},
               DescriptorOf(x) = DescriptorOf(c)
        PROVE  call[x].asked # call[c].asked
    <3>1. call[x].task = call[c].task
      BY <2>3 DEF DescriptorOf
    <3>2. QED
      BY <2>1, <2>3, <3>1 DEF Attempts, AskedApart
  <2>4. ASSUME NEW c \in Call, Clear(c), Answered(c)
        PROVE  /\ call[c].attempt = call[c].asked
               /\ Reported(c) /\ Recorded(c)
    <3>1. AttemptOf(c)
      BY <2>1, <2>4 DEF Attempts
    <3>2. QED
      BY <2>4, <3>1 DEF Answered, AttemptOf, Reported, Recorded
  <2>5. QED
    BY <2>1, <2>2, <2>3, <2>4
    DEF AttemptTraced, OnRecord, AgentsTell, CandidatesTell, CandidateOf
<1>2. QED
  BY <1>1, AmbientInvariant, PTL

\* No success of another task, and no later candidate, hides that a task
\* failed: NextAmbientAction keeps to a review or a debugger.
THEOREM FailuresStand == AmbientSpec => []FailureStands
<1>1. ASSUME AmbientInv PROVE FailureStands
  <2>1. AmbientTypeOK /\ Ordered /\ Attempts /\ OnRecord /\ Waiting
    BY <1>1 DEF AmbientInv
  <2>2. ASSUME backend = "claude-code", NEW c \in Call, Requested(c), Answered(c),
               call[c].answer.failed, call[c].task \notin blurred
        PROVE  \/ NextActionNow = "wait"
               \/ StepAgent(NextActionNow) \in {"tiller-reviewer", "tiller-debugger"}
    <3>1. Clear(c)
      BY <2>1, <2>2 DEF Requested, Answered, Ordered, InOrder, Clear
    <3>2. /\ AgentOf(c) \in DOMAIN agents
          /\ agents[AgentOf(c)].status = "failed"
      BY <2>1, <2>2, <3>1
      DEF OnRecord, AgentsTell, Answered, Recorded, Reported, ResultStatus
    <3>3. AgentsIn(Failed) # {}
      BY <3>2 DEF AgentsIn, Failed
    <3>4. Facts.failedAgent
      BY <3>3 DEF Facts
    <3>5. ~ CheckpointReady(Facts)
      BY <3>4 DEF CheckpointReady
    <3>6. AgentsIn({"late", "stale", "superseded"}) = {}
      BY <2>1 DEF AmbientTypeOK, AgentStatus, AgentsIn
    <3>7. NextActionNow \in {"wait", "review", "debug"}
      BY <3>4, <3>5, <3>6, NextActionReads
    <3>8. QED
      BY <3>7 DEF StepAgent
  <2>3. QED
    BY <2>2 DEF FailureStands
<1>2. QED
  BY <1>1, AmbientInvariant, PTL

LEMMA FallbackReads ==
    WorkPending(Facts) => FirstCase(FallbackNextAction(Facts)) = "wait"
<1> DEFINE s == FallbackNextAction(Facts)
<1>1. DOMAIN s = 1..3 /\ s[1] = Case(OverBudget(Facts), "halt")
      /\ s[2] = Case(WorkPending(Facts), "wait")
  BY DEF FallbackNextAction
<1>2. ~ OverBudget(Facts)
  <2>1. Facts.outputBand = "ok" /\ Facts.reasoningBand = "ok"
    BY DEF Facts
  <2>2. QED
    BY <2>1 DEF OverBudget
<1> HIDE DEF s
<1>3. (s[1].when <=> OverBudget(Facts)) /\ (s[2].when <=> WorkPending(Facts))
      /\ s[2].action = "wait"
  BY <1>1 DEF Case
<1>4. ASSUME WorkPending(Facts) PROVE FirstCase(s) = "wait"
  <2>1. ASSUME NEW i \in 1..3, s[i].when, \A j \in 1..(i - 1) : ~ s[j].when
        PROVE  FirstCase(s) = s[i].action
    BY <1>1, <2>1, FirstCaseIs
  <2>2. s[2].when /\ \A j \in 1..(2 - 1) : ~ s[j].when
    BY <1>2, <1>3, <1>4
  <2>3. QED
    BY <1>3, <2>1, <2>2
<1>5. QED
  BY <1>4 DEF s

\* A task at work is never passed over, by the strategy of the policy or by
\* the fallback, and the root is told to wait only while there is something
\* to wait for, or something that was denied or not heard.
THEOREM WaitsMeanWork == AmbientSpec => []WaitMeansWork
<1>1. ASSUME AmbientInv PROVE WaitMeansWork
  <2>1. AmbientTypeOK /\ Ordered /\ Waiting
    BY <1>1 DEF AmbientInv
  <2>2. AgentsIn({"late", "stale", "superseded"}) = {}
    BY <2>1 DEF AmbientTypeOK, AgentStatus, AgentsIn
  <2>3. NextActionNow = "wait" <=> WorkPending(Facts)
    BY <2>2, NextActionReads
  <2>4. WorkPending(Facts) <=>
            (DescriptorsIn(Pending) # {} \/ AgentsIn(Pending) # {})
    BY DEF Facts, WorkPending
  <2>5. ASSUME NEW c \in Call, Requested(c), call[c].step = "working",
               ledger[DescriptorOf(c)].result = ""
        PROVE  NextActionNow = "wait" /\ FirstCase(FallbackNextAction(Facts)) = "wait"
    <3>1. DescriptorOf(c) \in Descriptor
      BY <2>1, <2>5, DescriptorTyped DEF Requested, ForTask
    <3>2. Logged(c) # <<>>
      BY <2>1, <2>5, WaitingParts DEF RequestsLogged
    <3>3. DescriptorOf(c) \in DescriptorsIn(Pending)
      BY <2>5, <3>1, <3>2 DEF Logged, DescriptorsIn, EffectiveStatus, Pending
    <3>4. WorkPending(Facts)
      BY <2>4, <3>3
    <3>5. QED
      BY <2>3, <3>4, FallbackReads
  <2>6. ASSUME backend = "claude-code", Quiet, NextActionNow = "wait"
        PROVE  \E c \in Call : \/ call[c].step \in {"working", "denied"}
                              \/ (call[c].step = "done" /\ call[c].attempt = 0)
    <3>1. ClaudeEnds /\ OpenOutstanding
      BY <2>1, WaitingParts
    <3>2. AgentsIn(Pending) = {}
      BY <2>6, <3>1 DEF ClaudeEnds, AgentsIn, Pending
    <3>3. PICK d \in Descriptor : /\ ledger[d].requested # <<>>
                                  /\ EffectiveStatus(d) \in Pending
      BY <2>3, <2>4, <2>6, <3>2 DEF DescriptorsIn
    <3>4. ledger[d].result = ""
      <4>1. EffectiveStatus(d) \notin {"failed", "completed"}
        BY <3>3 DEF Pending
      <4>2. ledger[d].result \notin {"failed", "completed"}
        BY <4>1 DEF EffectiveStatus
      <4>3. ledger[d].result \in {"", "failed", "completed"}
        BY <2>6, <3>1 DEF ClaudeEnds
      <4>4. QED
        BY <4>2, <4>3
    <3>5. PICK c \in Call : Outstanding(c)
      BY <3>1, <3>3, <3>4 DEF OpenOutstanding, OpenHas
    <3>6. QED
      BY <2>6, <3>5 DEF Quiet, InHook, Outstanding
  <2>7. QED
    BY <2>5, <2>6 DEF WaitMeansWork
<1>2. QED
  BY <1>1, AmbientInvariant, PTL

\* When no hook runs, status.md is the advice of the files, unless the last
\* WriteStatusMarkdown was one of several hooks that ran at a time.
THEOREM StatusTold == AmbientSpec => []StatusCurrent
<1>1. AmbientInv => StatusCurrent
  BY DEF AmbientInv, ToldInTime, ToldAll, ToTell, StatusCurrent, Quiet, InHook
<1>2. QED
  BY <1>1, AmbientInvariant, PTL
=============================================================================
