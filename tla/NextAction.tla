----------------------------- MODULE NextAction -----------------------------
(***************************************************************************)
(* What status.md advises: the ambient_next_action strategy and its        *)
(* fallback, the older list of recommendations, and the agent that         *)
(* "tiller ambient step" proposes for an action.  The facts f are those    *)
(* BuildAmbientNextActionFacts derives; a count that is only compared with *)
(* zero is a Boolean.                                                      *)
(***************************************************************************)
EXTENDS Sequences, Integers

Pending == {"requested", "running", "spawned"}
Failed  == {"failed", "halted"}

Case(when, action) == [when |-> when, action |-> action]

OverBudget(f) == "over" \in {f.outputBand, f.reasoningBand}
NearBudget(f) == "warn" \in {f.outputBand, f.reasoningBand}
Risky(f)      == f.touchesPolicy \/ f.touchesSandbox \/ f.conflicting
WorkPending(f) == f.pendingDescriptor \/ f.pendingAgent

\* A checkpoint needs a candidate that is up to date and one that was
\* verified, and nothing against it.
CheckpointReady(f) ==
    /\ f.fresh \/ f.proposed
    /\ f.verified
    /\ ~ f.pendingAgent /\ ~ f.failedAgent
    /\ ~ Risky(f)

\* The strategy without the case for work that is still under way.
AmbientNextActionLate(f) == <<
    Case(OverBudget(f), "halt"),
    Case(Risky(f), "review"),
    Case(CheckpointReady(f), "checkpoint"),
    Case(f.failedAgent, "debug"),
    Case(WorkPending(f), "wait"),
    Case(TRUE, "proceed") >>

AmbientNextAction(f) == <<
    Case(OverBudget(f), "halt"),
    Case(f.runStatus \in Failed, "escalate"),
    Case(f.staleAgent \/ f.late \/ f.distillation = "stale", "distill"),
    Case(NearBudget(f), "distill"),
    Case(WorkPending(f), "wait"),
    Case(Risky(f), "review"),
    Case(CheckpointReady(f), "checkpoint"),
    Case(f.failedAgent, "debug"),
    Case(f.failedDescriptor, "retry"),
    Case(f.reasonBudget > 0 /\ f.reasonUsed >= f.reasonBudget, "ask_user"),
    Case(TRUE, "proceed") >>

\* When the policy does not load, or gives no action.
FallbackNextAction(f) == <<
    Case(OverBudget(f), "halt"),
    Case(WorkPending(f), "wait"),
    Case(TRUE, "proceed") >>

\* A strategy takes the first case that applies.
FirstCase(cases) ==
    cases[CHOOSE i \in DOMAIN cases :
            cases[i].when /\ \A j \in 1..(i - 1) : ~ cases[j].when].action

\* The older recommendations: all that apply, and waiting or going on only
\* when none does.
RecommendedNextActions(f) ==
    LET first ==
            {a \in {"triage_stale_work", "checkpoint_candidate", "compact_status"} :
                \/ a = "triage_stale_work" /\ (f.staleAgent \/ f.late \/ f.conflicting)
                \/ a = "checkpoint_candidate" /\ (f.proposed \/ f.fresh \/ f.lateValid)
                \/ a = "compact_status" /\ (OverBudget(f) \/ NearBudget(f))}
    IN  IF first # {} THEN first
        ELSE IF WorkPending(f) THEN {"wait_for_agents"} ELSE {"proceed"}

\* Who does the step: a persona, or the root and the user.  (An escalation
\* that mentions architecture, which the policy's own never does, goes to the
\* architect.)
StepAgent(action) ==
    CASE action = "distill"  -> "tiller-summary"
      [] action = "debug"    -> "tiller-debugger"
      [] action = "retry"    -> "tiller-worker"
      [] action = "review"   -> "tiller-reviewer"
      [] action = "escalate" -> "tiller-investigator"
      [] action = "ask_user" -> "user"
      [] OTHER               -> "orchestrator"
=============================================================================
