------------------------------ MODULE Ambient ------------------------------
(***************************************************************************)
(* The hook processes of an ambient session.  The root session calls       *)
(* tools, several at a time; every call starts a PreToolUse process, and a *)
(* PostToolUse process when the tool has answered.  They share nothing but *)
(* the files of the run: each reads them, decides, and appends, and none   *)
(* takes a lock across the two.                                            *)
(*                                                                         *)
(* Claude Code calls Task for a task; Codex calls spawn_agent, and then    *)
(* wait_agent and close_agent for the agent it got.                        *)
(***************************************************************************)
EXTENDS NextAction, FiniteSets

CONSTANTS Call,       \* tool calls of the session
          Task,       \* an agent type with an objective
          TypeOf,     \* the agent type of a task
          Models,     \* values of the model override
          Answers,    \* what tools answer, see Answer
          Backends,   \* backends that are checked
          MaxUnderWay, \* bound on the calls under way at a time
          MaxToggles, \* bound on disable and enable
          NoTask, Nobody

\* An error, or a report: with a checkpoint candidate, with verification,
\* with changed files of the policy, with a distillation.
Answer == [failed : BOOLEAN, candidate : BOOLEAN, verified : BOOLEAN,
           policy : BOOLEAN, distilled : BOOLEAN]

ASSUME AmbientAssumption ==
    /\ IsFiniteSet(Call)
    /\ TypeOf \in [Task -> STRING]
    /\ Answers \subseteq Answer
    /\ Backends \subseteq {"claude-code", "codex"}
    /\ MaxUnderWay \in Nat /\ MaxToggles \in Nat
    /\ NoTask \notin Task /\ Nobody \notin Call

VARIABLES backend, disabled, toggles,
          ledger,      \* the descriptor events, and the last result of each
          agents,      \* agents/*.json
          candidates,  \* checkpoint_candidates.jsonl
          distilled,   \* whether there is an ambient.distillation event
          status,      \* what status.md advises
          clock,       \* orders the times of results
          call,
          blurred,  \* history: tasks of which two calls were under way
          unsure       \* history: the last status.md was written in a race

files    == <<ledger, agents, candidates, distilled>>
history  == <<blurred, unsure>>
ambvars  == <<backend, disabled, toggles, files, status, clock, call, history>>

\* The descriptor id hashes backend, tool, agent type and objective: wait_agent
\* and close_agent, which name no task, have descriptors of their own.
Descriptor == ({"Task", "spawn_agent"} \X Task)
                \cup ({"wait_agent", "close_agent"} \X {NoTask})

NoAnswer == [failed |-> FALSE, candidate |-> FALSE, verified |-> FALSE,
             policy |-> FALSE, distilled |-> FALSE]

NoCall == [step |-> "idle", tool |-> "Task", task |-> NoTask, model |-> "",
           agent |-> Nobody, attempt |-> 0, asked |-> 0, at |-> 0,
           answer |-> NoAnswer, seen |-> "none", alone |-> FALSE]

DescriptorOf(c) == <<call[c].tool, call[c].task>>

AmbientInit ==
    /\ backend \in Backends
    /\ disabled = FALSE
    /\ toggles = 0
    /\ ledger = [d \in Descriptor |->
                    [requested |-> <<>>, result |-> "", at |-> 0]]
    /\ agents = <<>>
    /\ candidates = {}
    /\ distilled = FALSE
    /\ status = "none"
    /\ clock = 0
    /\ call = [c \in Call |-> NoCall]
    /\ blurred = {}
    /\ unsure = FALSE

-----------------------------------------------------------------------------
(* The readers                                                             *)

\* The result with the latest time stands for all attempts of a descriptor.
EffectiveStatus(d) ==
    IF ledger[d].result = "" THEN "requested" ELSE ledger[d].result

DescriptorsIn(S) ==
    {d \in Descriptor : ledger[d].requested # <<>> /\ EffectiveStatus(d) \in S}

AgentsIn(S) == {a \in DOMAIN agents : agents[a].status \in S}

\* No budget is configured, the run goes on, it is younger than the two hours
\* after which a distillation is stale, and candidates are only ever proposed.
Facts ==
    [outputBand |-> "ok", reasoningBand |-> "ok", runStatus |-> "running",
     reasonBudget |-> 0, reasonUsed |-> 0,
     pendingDescriptor |-> DescriptorsIn(Pending) # {},
     pendingAgent |-> AgentsIn(Pending) # {},
     staleAgent |-> AgentsIn({"late", "stale", "superseded"}) # {},
     failedDescriptor |-> DescriptorsIn(Failed \cup {"denied"}) # {},
     failedAgent |-> AgentsIn(Failed) # {},
     proposed |-> candidates # {},
     verified |-> \E x \in candidates : x.verified,
     fresh |-> FALSE, late |-> FALSE, lateValid |-> FALSE,
     conflicting |-> FALSE,
     distillation |-> IF distilled THEN "fresh" ELSE "",
     touchesPolicy |-> \/ \E a \in DOMAIN agents : agents[a].policy
                       \/ \E x \in candidates : x.policy,
     touchesSandbox |-> FALSE]

NextActionNow == FirstCase(AmbientNextAction(Facts))

Advice == <<NextActionNow, RecommendedNextActions(Facts)>>

-----------------------------------------------------------------------------
(* PreToolUse                                                              *)

InHook(c) == call[c].step \notin {"idle", "working", "denied", "done"}

UnderWay(c) == call[c].step \notin {"idle", "denied", "done"}

MayStart(c) == /\ call[c].step = "idle"
               /\ Cardinality({x \in Call : UnderWay(x)}) < MaxUnderWay

Goto(c, step) == call' = [call EXCEPT ![c].step = step]

\* A hook of call c starts: it and those that run are no longer alone.
Begin(c, r) ==
    call' = [x \in Call |->
        IF x = c THEN [r EXCEPT !.alone = \A y \in Call \ {c} : ~ InHook(y)]
        ELSE [call[x] EXCEPT !.alone = FALSE]]

\* The ordinal of a new attempt is one more than the descriptor events, and
\* that of an answer is the one of the last of them.
NextAttempt(d) == Len(ledger[d].requested) + 1
LatestAttempt(d) ==
    IF ledger[d].requested = <<>> THEN 1
    ELSE ledger[d].requested[Len(ledger[d].requested)]

Thinker == {"tiller-architect", "tiller-deep-report", "tiller-investigator",
            "tiller-reviewer"}
Persona == Thinker \cup {"tiller-scout", "tiller-summary", "tiller-worker",
                         "tiller-debugger"}

\* Rules DenyReasonModelSubagent and DenyImplicitReasonInheritance.
Denied(c) ==
    /\ call[c].tool = "Task"
    /\ LET type == TypeOf[call[c].task] IN
       \/ call[c].model = "reason" /\ type \notin Thinker
       \/ /\ call[c].model = ""
          /\ type \in {"general-purpose", "claude", "Explore", "Plan", ""}

\* The root calls Task or spawn_agent.  The hook finds ambient enabled and
\* reads the ledger for the attempt.
AskTask(c) ==
    /\ MayStart(c)
    /\ \E t \in Task, m \in IF backend = "codex" THEN {""} ELSE Models :
        LET tool == IF backend = "codex" THEN "spawn_agent" ELSE "Task"
            r    == [NoCall EXCEPT !.tool = tool, !.task = t, !.model = m]
            n    == NextAttempt(<<tool, t>>)
        IN  /\ IF disabled
               THEN call' = [call EXCEPT ![c] = [r EXCEPT !.step = "working",
                                                          !.model = ""]]
               ELSE Begin(c, [r EXCEPT !.step = "append", !.attempt = n,
                                       !.asked = n])
            /\ blurred' =
                IF disabled \/ \E x \in Call : UnderWay(x) /\ call[x].task = t
                THEN blurred \cup {t} ELSE blurred
    /\ UNCHANGED <<backend, disabled, toggles, files, status, clock, unsure>>

\* Unless the event is there, it is appended.  Its status is "requested".
AppendAmbientTaskDescriptor(c) ==
    LET d == DescriptorOf(c) IN
    /\ call[c].step = "append"
    /\ \/ /\ \E i \in DOMAIN ledger[d].requested :
                ledger[d].requested[i] = call[c].attempt
          /\ Goto(c, IF backend = "codex" THEN "render" ELSE "decide")
          /\ UNCHANGED ledger
       \/ /\ \A i \in DOMAIN ledger[d].requested :
                ledger[d].requested[i] # call[c].attempt
          /\ ledger' = [ledger EXCEPT ![d].requested =
                                        Append(@, call[c].attempt)]
          /\ Goto(c, "render")
    /\ UNCHANGED <<backend, disabled, toggles, agents, candidates, distilled,
                   status, clock, history>>

\* The rules are asked after the request is on record.
HandleAmbientPreToolUse(c) ==
    /\ call[c].step = "decide"
    /\ call' = [call EXCEPT ![c].step = IF Denied(c) THEN "denied" ELSE "working",
                            ![c].model = "", ![c].alone = FALSE]
    /\ UNCHANGED <<backend, disabled, toggles, files, status, clock, history>>

\* Codex only: the agents that spawn_agent has answered with.
Spawned == {c \in Call : /\ call[c].tool = "spawn_agent"
                         /\ call[c].step = "done" /\ ~ call[c].answer.failed}

\* wait_agent (resume_agent and send_input do the same) and close_agent are
\* only put on record as lifecycle events, which no reader looks at.
AskAgent(c) ==
    /\ backend = "codex"
    /\ MayStart(c)
    /\ \E a \in Spawned, tool \in {"wait_agent", "close_agent"} :
        LET r == [NoCall EXCEPT !.tool = tool, !.agent = a] IN
        IF disabled
        THEN call' = [call EXCEPT ![c] = [r EXCEPT !.step = "working"]]
        ELSE Begin(c, [r EXCEPT !.step = "render"])
    /\ UNCHANGED <<backend, disabled, toggles, files, status, clock, history>>

\* The agent starts; this hook does not ask whether ambient is disabled.
SubagentStart(c) ==
    /\ backend = "codex"
    /\ MayStart(c)
    /\ \E a \in Call :
        /\ call[a].tool = "spawn_agent"
        /\ call[a].step = "working" \/ a \in Spawned
        /\ TypeOf[call[a].task] \in Persona
        /\ \A x \in Call : call[x].tool = "SubagentStart" => call[x].agent # a
        /\ Begin(c, [NoCall EXCEPT !.step = "start", !.agent = a,
                                   !.tool = "SubagentStart"])
    /\ UNCHANGED <<backend, disabled, toggles, files, status, clock, history>>

\* The agent runs when r is written for agent a.
AgentsWith(a, r) ==
    [x \in DOMAIN agents \cup {a} |-> IF x = a THEN r ELSE agents[x]]

\* The whole record is written, whatever was there.
WriteAgentRun(c) ==
    /\ call[c].step = "start"
    /\ agents' = AgentsWith(<<call[c].agent, 0>>,
                            [status |-> "running", policy |-> FALSE])
    /\ Goto(c, "render")
    /\ UNCHANGED <<backend, disabled, toggles, ledger, candidates, distilled,
                   status, clock, history>>

-----------------------------------------------------------------------------
(* PostToolUse                                                             *)

\* The attempt of an answer counted like that of a request.
ReconcileAmbientPostToolUseNext(c) ==
    /\ call[c].step = "working"
    /\ \E r \in Answers :
        LET a == [call[c] EXCEPT !.answer = r,
                                 !.attempt = NextAttempt(DescriptorOf(c)),
                                 !.at = clock + 1]
        IN  IF disabled
            THEN call' = [call EXCEPT ![c] = [a EXCEPT !.step = "done",
                                                          !.attempt = 0]]
            ELSE Begin(c, [a EXCEPT !.step = "agent"])
    /\ clock' = clock + 1
    /\ UNCHANGED <<backend, disabled, toggles, files, status, history>>

\* The tool answers, or the agent is never heard of again (the call stays
\* where it is).  The hook reads the ledger for the attempt, and the time.
ReconcileAmbientPostToolUse(c) ==
    /\ call[c].step = "working"
    /\ \E r \in Answers :
        LET a == [call[c] EXCEPT !.answer = r,
                                 !.attempt = LatestAttempt(DescriptorOf(c)),
                                 !.at = clock + 1]
        IN  IF disabled
            THEN call' = [call EXCEPT ![c] = [a EXCEPT !.step = "done",
                                                          !.attempt = 0]]
            ELSE Begin(c, [a EXCEPT !.step = "agent"])
    /\ clock' = clock + 1
    /\ UNCHANGED <<backend, disabled, toggles, files, status, history>>

ResultStatus(c) ==
    IF call[c].answer.failed THEN "failed"
    ELSE CASE call[c].tool = "Task"        -> "completed"
           [] call[c].tool = "spawn_agent" -> "requested"
           [] call[c].tool = "close_agent" -> "closed"
           [] OTHER                        -> "running"

\* One record of an agent for all attempts of its descriptor.
AgentOfTask(c) ==
    IF backend = "claude-code" THEN <<DescriptorOf(c), 1>>
    ELSE <<IF call[c].tool = "spawn_agent" THEN c ELSE call[c].agent, 0>>

\* The agent run: in Claude Code one of the hook's making for each attempt;
\* in Codex that of the agent the answer names; a failed spawn names none.
AgentOf(c) ==
    IF backend = "claude-code" THEN <<DescriptorOf(c), call[c].attempt>>
    ELSE <<IF call[c].tool = "spawn_agent" THEN c ELSE call[c].agent, 0>>

NamesAgent(c) ==
    backend = "codex" /\ call[c].tool = "spawn_agent" => ~ call[c].answer.failed

\* Changed files are kept when the new report has none.  (A read and a write:
\* only answers about one Codex agent, and its start, race for a record.)
UpsertAmbientAgentRun(c) ==
    /\ call[c].step = "agent"
    /\ agents' =
        IF NamesAgent(c)
        THEN AgentsWith(AgentOf(c),
                [status |-> ResultStatus(c),
                 policy |-> \/ call[c].answer.policy
                            \/ /\ AgentOf(c) \in DOMAIN agents
                               /\ agents[AgentOf(c)].policy])
        ELSE agents
    /\ Goto(c, "result")
    /\ UNCHANGED <<backend, disabled, toggles, ledger, candidates, distilled,
                   status, clock, history>>

\* The result event.  A second one with the same id would say the same.
ReconcileAmbientTaskResult(c) ==
    LET d == DescriptorOf(c) IN
    /\ call[c].step = "result"
    /\ ledger' = IF ledger[d].at > call[c].at THEN ledger
                 ELSE [ledger EXCEPT ![d].result = ResultStatus(c),
                                     ![d].at = call[c].at]
    /\ Goto(c, "report")
    /\ UNCHANGED <<backend, disabled, toggles, agents, candidates, distilled,
                   status, clock, history>>

\* A candidate for an attempt that has none, and a distillation.  Hooks race
\* for a candidate's id only when calls of one task overlap.
AppendAmbientReport(c) ==
    LET id == <<DescriptorOf(c), call[c].attempt>> IN
    /\ call[c].step = "report"
    /\ candidates' =
        IF call[c].answer.candidate /\ \A x \in candidates : x.id # id
        THEN candidates \cup {[id |-> id, verified |-> call[c].answer.verified,
                               policy |-> call[c].answer.policy]}
        ELSE candidates
    /\ distilled' = (distilled \/ call[c].answer.distilled)
    /\ Goto(c, "render")
    /\ UNCHANGED <<backend, disabled, toggles, ledger, agents, status, clock,
                   history>>

-----------------------------------------------------------------------------
(* status.md is rendered from the files and then replaced.                 *)

RenderStatusMarkdown(c) ==
    /\ call[c].step = "render"
    /\ call' = [call EXCEPT ![c].step = "status", ![c].seen = Advice]
    /\ UNCHANGED <<backend, disabled, toggles, files, status, clock, history>>

\* status.md is written when the descriptor and lifecycle events are.
WriteStatusMarkdownOnRequest(c) ==
    /\ call[c].step = "status"
    /\ status' = IF call[c].at > 0 THEN status ELSE call[c].seen
    /\ unsure' = ~ call[c].alone
    /\ call' = [call EXCEPT ![c].seen = "none", ![c].alone = FALSE,
                            ![c].step = IF call[c].at > 0
                                           \/ call[c].tool = "SubagentStart"
                                        THEN "done" ELSE "decide"]
    /\ UNCHANGED <<backend, disabled, toggles, files, clock, blurred>>

\* A hook that has no answer yet goes on to the rules, one that has ends.
WriteStatusMarkdown(c) ==
    /\ call[c].step = "status"
    /\ status' = call[c].seen
    /\ unsure' = ~ call[c].alone
    /\ call' = [call EXCEPT ![c].seen = "none", ![c].alone = FALSE,
                            ![c].step = IF call[c].at > 0
                                           \/ call[c].tool = "SubagentStart"
                                        THEN "done" ELSE "decide"]
    /\ UNCHANGED <<backend, disabled, toggles, files, clock, blurred>>

\* tiller ambient disable, tiller ambient enable.
Toggle ==
    /\ toggles < MaxToggles
    /\ toggles' = toggles + 1
    /\ disabled' = ~ disabled
    /\ UNCHANGED <<backend, files, status, clock, call, history>>

AmbientNext ==
    \/ \E c \in Call :
        \/ AskTask(c) \/ AppendAmbientTaskDescriptor(c)
        \/ HandleAmbientPreToolUse(c)
        \/ AskAgent(c) \/ SubagentStart(c) \/ WriteAgentRun(c)
        \/ ReconcileAmbientPostToolUse(c) \/ UpsertAmbientAgentRun(c)
        \/ ReconcileAmbientTaskResult(c) \/ AppendAmbientReport(c)
        \/ RenderStatusMarkdown(c) \/ WriteStatusMarkdown(c)
    \/ Toggle

AmbientSpec == AmbientInit /\ [][AmbientNext]_ambvars

-----------------------------------------------------------------------------
(* Properties                                                              *)

Quiet == \A c \in Call : ~ InHook(c)

ForTask(c) == call[c].tool \in {"Task", "spawn_agent"}

\* The hooks of call c recorded its request; and its answer.
Requested(c) == ForTask(c) /\ call[c].asked > 0
Answered(c)  == call[c].step = "done" /\ call[c].attempt > 0 /\ call[c].at > 0

\* Hooks that run long after one another agree on the attempt they are
\* about: what a call answered is on record under the attempt it was given,
\* whatever hooks of other tasks did in between, and no two calls share one
\* -- as long as calls of the same task do not overlap.
AttemptTraced ==
    \A c \in Call : (Requested(c) /\ call[c].task \notin blurred) =>
        /\ \A x \in Call \ {c} : Requested(x) /\ DescriptorOf(x) = DescriptorOf(c)
                => call[x].asked # call[c].asked
        /\ Answered(c) =>
            /\ call[c].attempt = call[c].asked
            /\ backend = "claude-code"
                => agents[AgentOf(c)].status = ResultStatus(c)
            /\ call[c].answer.candidate =>
                [id |-> <<DescriptorOf(c), call[c].asked>>,
                 verified |-> call[c].answer.verified,
                 policy |-> call[c].answer.policy] \in candidates

\* A failure is never papered over by a later success: after the failed
\* attempt of a task the root is told neither to go on nor to commit, and
\* the step it is offered is a review or a debugger, not more of the same.
FailureStands ==
    (backend = "claude-code"
     /\ \E c \in Call : /\ Requested(c) /\ Answered(c) /\ call[c].answer.failed
                       /\ call[c].task \notin blurred)
        => \/ NextActionNow = "wait"
           \/ StepAgent(NextActionNow) \in {"tiller-reviewer", "tiller-debugger"}

\* While the first attempt of a task is at work the advice is to wait, with
\* the policy and without it; and the advice to wait is given only then, or
\* when a request was denied after it had been recorded, or an answer came
\* while ambient was disabled.
WaitMeansWork ==
    /\ (\E c \in Call : /\ Requested(c) /\ call[c].step = "working"
                       /\ ledger[DescriptorOf(c)].result = "")
        => "wait" = NextActionNow /\ "wait" = FirstCase(FallbackNextAction(Facts))
    /\ (backend = "claude-code" /\ Quiet /\ NextActionNow = "wait")
        => \E c \in Call : \/ call[c].step \in {"working", "denied"}
                          \/ (call[c].step = "done" /\ call[c].attempt = 0)

\* Every hook that changes what the advice depends on leaves a status.md
\* that says so: when no hook runs, status.md is that of the files, unless
\* the one who wrote it last ran together with another.
StatusCurrent ==
    (Quiet /\ ~ unsure /\ status # "none") => status = Advice
=============================================================================
