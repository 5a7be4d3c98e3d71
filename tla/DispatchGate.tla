---------------------------- MODULE DispatchGate ----------------------------
(***************************************************************************)
(* The dispatches of one run: agents (and the user) call tiller dispatch,  *)
(* the pool takes up what was queued, and both ask the policy first.       *)
(*                                                                         *)
(* A tiller dispatch reads the counters of the run and evaluates the       *)
(* policy, allocates an id, and writes the record: three steps, between    *)
(* which other invocations and the pool run.  Only the record is counted.  *)
(***************************************************************************)
EXTENDS DispatchPolicy, FiniteSets

CONSTANTS Cmd,         \* tiller dispatch invocations in progress at a time
          MaxId,       \* bound on the dispatches of the run
          Roles,       \* roles asked for
          TierFlags,   \* values of --tier
          Queueing,    \* values of --queue
          Degraded     \* tiers served by the command adapter

ASSUME DispatchGateAssumption ==
    /\ IsFiniteSet(Cmd) /\ Cmd # {}
    /\ MaxId \in Nat
    /\ Roles \subseteq AgentRole
    /\ TierFlags \subseteq TierFlag
    /\ Queueing \subseteq BOOLEAN
    /\ Degraded \subseteq Tier

Id == 1..MaxId

\* Who is no dispatch: the root orchestrator, a person, nobody.
RootAgent == 0
Person    == -1
Nobody    == -2

VARIABLES rec,       \* rec[i]: the record of dispatch i
          reserved,  \* dispatch directories that exist
          cmd,       \* cmd[c]: what invocation c is about to write
          admitted   \* queued dispatches a pool worker has let through

gatevars == <<rec, reserved, cmd, admitted>>

\* The orchestrator's record exists, and is running, as long as the run does.
Root == [status |-> "running", role |-> "orchestrator", tier |-> "reason",
         depth |-> 0, parent |-> Nobody, why |-> "", leased |-> FALSE]

User == [Root EXCEPT !.role = "user", !.tier = ""]

Absent == [status |-> "absent", role |-> "", tier |-> "", depth |-> 0,
           parent |-> Nobody, why |-> "", leased |-> FALSE]

GateRecord ==
    [status : {"absent", "pending", "claimed", "running", "completed", "denied"},
     role   : Roles \cup {""},
     tier   : TierFlag,
     depth  : 0..MaxDepth,
     parent : {Nobody, Person, RootAgent} \cup Id,
     why    : Rule \cup {"", "no match"},   \* deny_reason
     leased : BOOLEAN]                     \* claimed_by, lease_until

IdleCmd == [step |-> "idle", rec |-> Absent, id |-> 0]

GateTypeOK ==
    /\ rec \in [Id -> GateRecord]
    /\ reserved \subseteq Id
    /\ cmd \in [Cmd -> [step : {"idle", "alloc", "write"},
                        rec : GateRecord, id : Id \cup {0}]]
    /\ admitted \subseteq Id

GateInit ==
    /\ rec = [i \in Id |-> Absent]
    /\ reserved = {}
    /\ cmd = [c \in Cmd |-> IdleCmd]
    /\ admitted = {}

-----------------------------------------------------------------------------
(* The counters.  The root record is counted too.                          *)

InStatus(S)   == {i \in Id : rec[i].status \in S}
\* What the comment on Facts.Active says: running dispatches only.
ActiveRunning == Cardinality(InStatus({"running"})) + 1
ActiveCount   == Cardinality(InStatus({"running", "pending", "claimed"})) + 1
RunningCount  == Cardinality(InStatus({"running"})) + 1
ReasonCount   ==
    Cardinality({i \in Id : rec[i].status # "absent" /\ rec[i].tier = "reason"}) + 1

(* Who can call: the orchestrator, a running agent, or a person.           *)
Caller == {Person, RootAgent} \cup InStatus({"running"})

CallerRecord(p) ==
    IF p = RootAgent THEN Root ELSE IF p = Person THEN User ELSE rec[p]

\* Without a requested tier, the one of an execution role.
PlannedForExecute(role, tier) ==
    IF (IF tier = "" THEN "execute" ELSE tier) \in Degraded
    THEN "degraded" ELSE "full"

\* The enforcement the gate is told: that of the adapter which serves the
\* requested tier, or the role's own tier.
PlannedEnforcement(role, tier) ==
    IF (IF tier = "" THEN RouteTier(role) ELSE tier) \in Degraded
    THEN "degraded" ELSE "full"

-----------------------------------------------------------------------------
(* tiller dispatch                                                         *)

Unallocated == {c \in Cmd : cmd[c].step = "alloc"}

Request(p, role, tier, queued, oversize) ==
    [role |-> role, tier |-> tier, queued |-> queued, oversize |-> oversize,
     enforcement |-> PlannedEnforcement(role, tier),
     callerRole |-> CallerRecord(p).role, callerDepth |-> CallerRecord(p).depth,
     active |-> ActiveCount, reason |-> ReasonCount]

\* DispatchFacts and EvalDispatch; a denied request leaves no trace here.
\* MaxId bounds the requests that are allowed.
Ask(c, roles, tiers) ==
    /\ cmd[c].step = "idle"
    /\ Cardinality(reserved) + Cardinality(Unallocated) < MaxId
    /\ \E p \in Caller, role \in roles, tier \in tiers, queued \in Queueing,
          oversize \in BOOLEAN :
        LET q == Request(p, role, tier, queued, oversize) IN
        /\ Allowed(q)
        /\ cmd' = [cmd EXCEPT ![c] =
              [step |-> "alloc", id |-> 0,
               rec |-> [status |-> IF queued THEN "pending" ELSE "running",
                        role |-> role, tier |-> GrantedTier(q), parent |-> p,
                        depth |-> CallerRecord(p).depth + 1, why |-> "",
                        leased |-> FALSE]]]
    /\ UNCHANGED <<rec, reserved, admitted>>

\* The next id after the directories that exist.
Alloc(c) ==
    /\ cmd[c].step = "alloc"
    /\ \E i \in Id \ reserved :
        /\ \A j \in Id \ reserved : i <= j
        /\ reserved' = reserved \cup {i}
        /\ cmd' = [cmd EXCEPT ![c].step = "write", ![c].id = i]
    /\ UNCHANGED <<rec, admitted>>

\* The tier resolves to an adapter, and the record is written.
WriteRecord(c) ==
    /\ cmd[c].step = "write"
    /\ cmd[c].rec.tier \in Tier
    /\ rec' = [rec EXCEPT ![cmd[c].id] = cmd[c].rec]
    /\ cmd' = [cmd EXCEPT ![c] = IdleCmd]
    /\ UNCHANGED <<reserved, admitted>>

\* Allocation, the brief, the tier's resolution or Prepare fails; a
\* directory that was allocated stays.
GiveUp(c) ==
    /\ cmd[c].step # "idle"
    /\ cmd' = [cmd EXCEPT ![c] = IdleCmd]
    /\ UNCHANGED <<rec, reserved, admitted>>

-----------------------------------------------------------------------------
(* The pool, and the end of an agent.                                      *)

SetStatus(i, s, leased) ==
    rec' = [rec EXCEPT ![i].status = s, ![i].leased = leased]

PoolClaim(i) ==
    /\ rec[i].status = "pending"
    /\ SetStatus(i, "claimed", TRUE)
    /\ UNCHANGED <<reserved, cmd, admitted>>

\* The pool asks as the orchestrator, for the tier that was granted, and
\* counts the running dispatches only.
PoolRequestAt(i, depth) ==
    [role |-> rec[i].role, tier |-> rec[i].tier, queued |-> TRUE,
     oversize |-> FALSE,
     enforcement |-> IF rec[i].tier \in Degraded THEN "degraded" ELSE "full",
     callerRole |-> "orchestrator", callerDepth |-> depth,
     active |-> RunningCount, reason |-> ReasonCount]

\* The depth of the dispatch passed as that of its caller.
PoolRequestAsCaller(i) == PoolRequestAt(i, rec[i].depth)

PoolRequest(i) ==
    PoolRequestAt(i, IF rec[i].depth > 0 THEN rec[i].depth - 1 ELSE 0)

PoolGate(i) ==
    /\ rec[i].status = "claimed"
    /\ i \notin admitted
    /\ \/ /\ Allowed(PoolRequest(i))
          /\ admitted' = admitted \cup {i}
          /\ UNCHANGED rec
       \/ /\ ~ Allowed(PoolRequest(i))
          /\ \E r \in Deciding(PoolRequest(i)) :
                rec' = [rec EXCEPT ![i].status = "denied", ![i].why = r,
                                   ![i].leased = FALSE]
          /\ UNCHANGED admitted
    /\ UNCHANGED <<reserved, cmd>>

PoolMark(i) ==
    /\ i \in admitted
    /\ SetStatus(i, "running", TRUE)
    /\ admitted' = admitted \ {i}
    /\ UNCHANGED <<reserved, cmd>>

\* The pool is gone before the dispatch has ended: its lease expires.
PoolExpire(i) ==
    /\ rec[i].leased
    /\ SetStatus(i, "pending", FALSE)
    /\ admitted' = admitted \ {i}
    /\ UNCHANGED <<reserved, cmd>>

Finish(i) ==
    /\ rec[i].status = "running"
    /\ SetStatus(i, "completed", FALSE)
    /\ UNCHANGED <<reserved, cmd, admitted>>

-----------------------------------------------------------------------------

\* The steps of the invocations C, of the pool and of the agents.
GateSteps(C, roles, tiers) ==
    \/ \E c \in C :
        Ask(c, roles, tiers) \/ Alloc(c) \/ WriteRecord(c) \/ GiveUp(c)
    \/ \E i \in Id :
        \/ PoolClaim(i) \/ PoolGate(i) \/ PoolMark(i) \/ PoolExpire(i)
        \/ Finish(i)

GateNext == GateSteps(Cmd, Roles, TierFlags)

GateSpec == GateInit /\ [][GateNext]_gatevars

-----------------------------------------------------------------------------
(* Properties                                                              *)

\* Invocations that read the counters together overshoot the cap of active
\* dispatches, by at most the number of invocations less one, however the
\* steps of dispatches, pool and agents fall.
ActiveBounded ==
    Cardinality({i \in Id : rec[i].status \in {"pending", "claimed", "running"}})
        <= ActiveCap - 2 + Cardinality(Cmd)

\* The reason tier is one level deep: whatever agent asked for it was the
\* root orchestrator, although no rule looks at the tier that is granted.
ReasonFromRoot ==
    \A i \in Id :
        rec[i].status # "absent" /\ rec[i].tier = "reason"
            => rec[i].parent \in {RootAgent, Person}

\* What an investigator, an architect or a deep report sets in motion is
\* readonly all the way down: their descendants are investigators.
ReadOnlySubtrees ==
    \A i \in Id :
        (rec[i].parent \in Id
         /\ rec[rec[i].parent].role \notin {"worker", "debugger"})
            => rec[i].role = "investigator"

\* An adapter without enforcement serves execute-tier dispatches only,
\* although the gate plans the enforcement before it knows the tier it will
\* grant.
DegradedServesExecute ==
    \A i \in Id :
        rec[i].status # "absent" /\ rec[i].tier \in Degraded
            => rec[i].tier = "execute"

\* The pool asks the policy again, with a request it puts together from the
\* record: it refuses what tiller dispatch let through only when one of the
\* run's counters has reached its limit.
PoolRefusesForLimits ==
    \A i \in Id :
        rec[i].status = "denied"
            => rec[i].why \in {"DenyReasonBudget", "DenyConcurrencyCap"}

\* The reason tier is limited to the budget of the run.
ReasonWithinBudget == ReasonCount <= ReasonBudget
=============================================================================
