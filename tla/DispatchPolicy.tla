--------------------------- MODULE DispatchPolicy ---------------------------
(***************************************************************************)
(* The dispatch policy: the rules and the routing strategy of dispatch.arb *)
(* and the combinator and tier downgrade of package policy, as operators   *)
(* on a request.  A request q is a record with the fields                  *)
(*   role, tier, queued, enforcement, oversize   what is asked for,        *)
(*   callerRole, callerDepth                      who asks,                *)
(*   active, reason                               the counters of the run. *)
(* The strings of the policy are kept; a brief is oversize or it is not.   *)
(***************************************************************************)
EXTENDS Integers

CONSTANTS MaxDepth,      \* run.max_depth
          ReasonBudget,  \* run.reason_budget
          ActiveCap      \* the bound of DenyConcurrencyCap

ASSUME DispatchPolicyAssumption ==
    /\ MaxDepth \in Nat
    /\ ReasonBudget \in Nat
    /\ ActiveCap \in Nat \ {0}

InsightRole   == {"orchestrator", "chief-architect", "deep-report"}
ExecutionRole == {"worker", "debugger", "investigator", "reviewer"}
AgentRole     == (InsightRole \ {"orchestrator"}) \cup ExecutionRole
CallerRole    == AgentRole \cup {"orchestrator", "user"}

Tier     == {"reason", "scrutiny", "execute"}
TierFlag == Tier \cup {"", "other"}   \* other: any string tier.toml lacks

\* When each rule fires on a request.  HaltAll is a kill switch nobody has set.
Conditions(q) ==
    [HaltAll |-> FALSE,
     DenyReasonTierForExecution |->
        q.tier = "reason" /\ q.role \notin InsightRole,
     DenyReasonFromNonRoot |->
        q.tier = "reason" /\ q.callerRole # "orchestrator",
     DenyDirectSpawnAtDepth |-> q.callerDepth >= 2 /\ ~ q.queued,
     DenyDepthBeyondPolicy  |-> q.callerDepth >= MaxDepth,
     DenyReasonBudget       |-> q.tier = "reason" /\ q.reason >= ReasonBudget,
     DenyConcurrencyCap     |-> q.active >= ActiveCap,
     DenyExecutionSpawnsInsight |->
        /\ q.callerRole \in ExecutionRole
        /\ q.role \in {"chief-architect", "deep-report"},
     DenyReviewerDispatch   |-> q.callerRole = "reviewer",
     DenyInvestigatorScope  |->
        q.callerRole = "investigator" /\ q.role # "investigator",
     DenyInsightScope       |->
        /\ q.callerRole \in {"chief-architect", "deep-report"}
        /\ q.role # "investigator",
     DenyWorkerScope        |->
        /\ q.callerRole \in {"worker", "debugger"}
        /\ q.role \notin {"investigator", "debugger"},
     DenyDegradedInsight    |->
        q.enforcement = "degraded" /\ q.tier # "execute",
     DenyBriefTooLarge      |-> q.oversize,
     AllowDispatch          |-> q.role \in AgentRole]

\* The depth limit taken to be inclusive.
FiresDepthInclusive(q) ==
    [Conditions(q) EXCEPT !.DenyDepthBeyondPolicy = q.callerDepth > MaxDepth]
\* A scope rule that forgets one of its roles, and one that is missing.
FiresArchitectScope(q) ==
    [Conditions(q) EXCEPT !.DenyInsightScope =
        q.callerRole = "chief-architect" /\ q.role # "investigator"]
FiresNoInvestigatorScope(q) ==
    [Conditions(q) EXCEPT !.DenyInvestigatorScope = FALSE]

Fires(q) == Conditions(q)

Priority ==
    [HaltAll |-> 0,
     DenyReasonTierForExecution |-> 1, DenyReasonFromNonRoot |-> 1,
     DenyDirectSpawnAtDepth |-> 1, DenyDepthBeyondPolicy |-> 1,
     DenyReasonBudget |-> 2, DenyConcurrencyCap |-> 2,
     DenyExecutionSpawnsInsight |-> 3, DenyReviewerDispatch |-> 3,
     DenyInvestigatorScope |-> 3, DenyInsightScope |-> 3,
     DenyWorkerScope |-> 3,
     DenyDegradedInsight |-> 4, DenyBriefTooLarge |-> 5,
     AllowDispatch |-> 99]

Rule    == DOMAIN Priority
Matched(q) == LET fires == Fires(q) IN {r \in Rule : fires[r]}

\* The combinator: the lowest priority number decides.  Every rule that can
\* tie denies, so which of them is reported is open; no match denies.
Deciding(q) ==
    LET matched == Matched(q) IN
    IF matched = {} THEN {"no match"}
    ELSE {r \in matched : \A s \in matched : Priority[r] <= Priority[s]}

Allowed(q) == Deciding(q) = {"AllowDispatch"}

\* DispatchRoute, the tier a role is given; "" is the Reject route.
RouteTier(role) ==
    IF role \in {"chief-architect", "deep-report"} THEN "reason"
    ELSE IF role \in {"investigator", "reviewer"} THEN "scrutiny"
    ELSE IF role \in {"worker", "debugger"} THEN "execute"
    ELSE ""

TierCost(tier) ==
    IF tier = "reason" THEN 2 ELSE IF tier = "scrutiny" THEN 1 ELSE 0

\* The tier of an allowed request: an explicit tier counts if it is cheaper.
GrantedTier(q) ==
    IF q.tier # "" /\ TierCost(q.tier) < TierCost(RouteTier(q.role))
    THEN q.tier ELSE RouteTier(q.role)
=============================================================================
