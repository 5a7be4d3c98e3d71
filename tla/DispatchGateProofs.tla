------------------------- MODULE DispatchGateProofs -------------------------
(* What the dispatches of a run can be like, for any roles, tiers, limits  *)
(* and number of invocations at a time.                                    *)
EXTENDS DispatchGate, FiniteSetTheorems, TLAPS

\* What an allowed request is like, rule by rule.
Clean(q) ==
    /\ q.tier = "reason" => q.role \in InsightRole /\ q.callerRole = "orchestrator"
                            /\ q.reason < ReasonBudget
    /\ q.callerDepth < MaxDepth
    /\ q.active < ActiveCap
    /\ q.callerRole \in ExecutionRole => q.role \notin {"chief-architect", "deep-report"}
    /\ q.callerRole # "reviewer"
    /\ q.callerRole = "investigator" => q.role = "investigator"
    /\ q.callerRole \in {"chief-architect", "deep-report"} => q.role = "investigator"
    /\ q.callerRole \in {"worker", "debugger"} => q.role \in {"investigator", "debugger"}
    /\ q.enforcement = "degraded" => q.tier = "execute"
    /\ q.role \in AgentRole

\* Every other rule has a lower number, so none of them may fire.
LEMMA OnlyAllow ==
    ASSUME NEW q, Allowed(q)
    PROVE  /\ "AllowDispatch" \in Matched(q)
           /\ \A r \in Rule \ {"AllowDispatch"} : ~ Fires(q)[r]
<1>1. Matched(q) # {}
  BY DEF Allowed, Deciding
<1>2. /\ "AllowDispatch" \in Matched(q)
      /\ \A s \in Matched(q) : Priority["AllowDispatch"] <= Priority[s]
  BY <1>1 DEF Allowed, Deciding
<1>3. \A r \in Rule \ {"AllowDispatch"} : ~ (Priority["AllowDispatch"] <= Priority[r])
  BY DEF Priority, Rule
<1>4. QED
  BY <1>2, <1>3 DEF Matched
 
LEMMA AllowedIsClean ==
    ASSUME NEW q, Allowed(q), q.active \in Int, q.reason \in Int, q.callerDepth \in Int
    PROVE  Clean(q)
<1>1. /\ "AllowDispatch" \in Matched(q)
      /\ \A r \in Rule \ {"AllowDispatch"} : ~ Fires(q)[r]
  BY OnlyAllow
<1>2. /\ ~ Fires(q)["DenyReasonTierForExecution"]
      /\ ~ Fires(q)["DenyReasonFromNonRoot"]
      /\ ~ Fires(q)["DenyDepthBeyondPolicy"]
      /\ ~ Fires(q)["DenyReasonBudget"]
      /\ ~ Fires(q)["DenyConcurrencyCap"]
      /\ ~ Fires(q)["DenyExecutionSpawnsInsight"]
      /\ ~ Fires(q)["DenyReviewerDispatch"]
      /\ ~ Fires(q)["DenyInvestigatorScope"]
      /\ ~ Fires(q)["DenyInsightScope"]
      /\ ~ Fires(q)["DenyWorkerScope"]
      /\ ~ Fires(q)["DenyDegradedInsight"]
      /\ Fires(q)["AllowDispatch"]
  BY <1>1 DEF Rule, Priority, Matched
<1>3. QED
  BY <1>2, DispatchPolicyAssumption DEF Fires, Conditions, Clean

-----------------------------------------------------------------------------

Limits == {"DenyReasonBudget", "DenyConcurrencyCap"}

\* A record that tiller dispatch has written or is about to write.
Legal(r) ==
    /\ r.role \in Roles
    /\ r.depth # 0
    /\ r.tier = "reason" => r.parent \in {RootAgent, Person} /\ r.role \in InsightRole
    /\ r.tier \in Degraded /\ r.tier \in Tier => r.tier = "execute"
    /\ r.parent \in Id =>
        /\ rec[r.parent].status # "absent"
        /\ rec[r.parent].role \notin {"worker", "debugger"} => r.role = "investigator"

Written(i) ==
    /\ rec[i].status # "absent" =>
        i \in reserved /\ rec[i].tier \in Tier /\ Legal(rec[i])
    /\ rec[i].status = "absent" => rec[i] = Absent
    /\ rec[i].leased => rec[i].status \in {"claimed", "running"}
    /\ i \in admitted => rec[i].status = "claimed"
    /\ rec[i].status = "denied" => rec[i].why \in Limits

\* An id belongs to one invocation until its record is there.
Underway(c) ==
    /\ cmd[c].step # "idle" =>
        Legal(cmd[c].rec) /\ cmd[c].rec.status \in {"pending", "running"}
                          /\ ~ cmd[c].rec.leased
    /\ cmd[c].step = "write" =>
        /\ cmd[c].id \in reserved /\ rec[cmd[c].id].status = "absent"
        /\ \A e \in Cmd : cmd[e].step = "write" /\ cmd[e].id = cmd[c].id => e = c

GateInv ==
    /\ GateTypeOK
    /\ \A i \in Id : Written(i)
    /\ \A c \in Cmd : Underway(c)

-----------------------------------------------------------------------------

\* The counters are numbers, and no caller is deeper than the run allows.
LEMMA Numbers ==
    ASSUME GateTypeOK
    PROVE  /\ ActiveCount \in Int /\ RunningCount \in Int /\ ReasonCount \in Int
           /\ \A p \in Caller : CallerRecord(p).depth \in 0..MaxDepth
<1>1. \A S \in SUBSET Id : Cardinality(S) \in Nat
  <2>1. IsFiniteSet(Id)
    BY DispatchGateAssumption, FS_Interval DEF Id
  <2>2. QED
    BY <2>1, FS_Subset, FS_CardinalityType
<1>2. ActiveCount \in Int /\ RunningCount \in Int /\ ReasonCount \in Int
  BY <1>1 DEF ActiveCount, RunningCount, ReasonCount, InStatus
<1>3. \A p \in Caller : CallerRecord(p).depth \in 0..MaxDepth
  <2>1. Root.depth \in 0..MaxDepth /\ User.depth \in 0..MaxDepth
    BY DispatchPolicyAssumption DEF Root, User
  <2>2. \A i \in Id : rec[i].depth \in 0..MaxDepth
    BY DEF GateTypeOK, GateRecord
  <2>3. QED
    BY <2>1, <2>2 DEF Caller, CallerRecord, InStatus
<1>4. QED
  BY <1>2, <1>3

\* The route and the cost of its tier, for a role that may be asked for.
LEMMA RouteCost ==
    ASSUME NEW role \in AgentRole
    PROVE  \/ RouteTier(role) = "reason" /\ TierCost(RouteTier(role)) = 2
           \/ RouteTier(role) = "scrutiny" /\ TierCost(RouteTier(role)) = 1
           \/ RouteTier(role) = "execute" /\ TierCost(RouteTier(role)) = 0
BY DEF RouteTier, TierCost, AgentRole, InsightRole, ExecutionRole

\* What is granted is the route's tier, or the one asked for if it costs less.
LEMMA CheaperOrRoute ==
    ASSUME NEW q, q.role \in AgentRole
    PROVE  \/ /\ GrantedTier(q) = q.tier /\ q.tier # "" /\ q.tier # "reason"
           \/ /\ GrantedTier(q) = RouteTier(q.role)
              /\ q.tier # "" => ~ (TierCost(q.tier) < TierCost(RouteTier(q.role)))
<1> DEFINE cost == TierCost(RouteTier(q.role))
<1>1. cost \in {0, 1, 2}
  BY RouteCost
<1>2. q.tier = "reason" => TierCost(q.tier) = 2
  BY DEF TierCost
<1>3. q.tier = "reason" => ~ (TierCost(q.tier) < cost)
  BY <1>1, <1>2
<1>4. QED
  BY <1>3 DEF GrantedTier

\* The record of an allowed request.
Granted(p, role, tier, queued, oversize) ==
    [status |-> IF queued THEN "pending" ELSE "running", role |-> role,
     tier |-> GrantedTier(Request(p, role, tier, queued, oversize)), parent |-> p,
     depth |-> CallerRecord(p).depth + 1, why |-> "", leased |-> FALSE]

\* The rules that look at the caller and at the tier asked for decide the
\* tier that is granted.
LEMMA GrantedIsLegal ==
    ASSUME GateInv, NEW p \in Caller, NEW role \in Roles, NEW tier \in TierFlags,
           NEW queued \in BOOLEAN, NEW oversize \in BOOLEAN,
           Allowed(Request(p, role, tier, queued, oversize))
    PROVE  /\ Granted(p, role, tier, queued, oversize) \in GateRecord
           /\ Legal(Granted(p, role, tier, queued, oversize))
<1> DEFINE q == Request(p, role, tier, queued, oversize)
           r == Granted(p, role, tier, queued, oversize)
<1>1. /\ q.role = role /\ q.tier = tier /\ q.callerRole = CallerRecord(p).role
      /\ q.callerDepth = CallerRecord(p).depth
      /\ q.active = ActiveCount /\ q.reason = ReasonCount
      /\ q.enforcement = PlannedEnforcement(role, tier)
  BY DEF Request
<1>2. Clean(q)
  BY <1>1, AllowedIsClean, Numbers DEF GateInv
<1>3. /\ r.role = role /\ r.tier = GrantedTier(q) /\ r.parent = p
      /\ r.depth = CallerRecord(p).depth + 1 /\ r.why = "" /\ r.leased = FALSE
      /\ r.status \in {"pending", "running"}
  BY DEF Granted
<1>4. role \in AgentRole /\ tier \in TierFlag
  BY DispatchGateAssumption
<1> HIDE DEF q, r
<1>5. r.tier \in TierFlag
  BY <1>1, <1>3, <1>4 DEF GrantedTier, RouteTier, TierFlag, Tier
<1>6. p \in {Person, RootAgent} \cup Id
  BY DEF Caller, InStatus
<1>7. r.depth \in 0..MaxDepth /\ r.depth # 0
  <2>1. q.callerDepth \in 0..MaxDepth
    BY <1>1, Numbers DEF GateInv
  <2>2. q.callerDepth < MaxDepth /\ r.depth = q.callerDepth + 1
    BY <1>1, <1>2, <1>3 DEF Clean
  <2>3. QED
    BY <2>1, <2>2, DispatchPolicyAssumption
<1>8. r \in GateRecord
  BY <1>3, <1>5, <1>6, <1>7 DEF r, Granted, GateRecord
<1>9. p \in Id => /\ rec[p].status # "absent" /\ rec[p].role \in AgentRole
                  /\ q.callerRole = rec[p].role
  BY <1>1, DispatchGateAssumption
  DEF Caller, InStatus, CallerRecord, GateInv, Written, Legal, Id, RootAgent, Person
<1>10. r.tier = "reason" => p \in {RootAgent, Person} /\ role \in InsightRole
  <2>1. r.tier = "reason" => role \in {"chief-architect", "deep-report"}
    BY <1>1, <1>3, <1>4, CheaperOrRoute DEF RouteTier
  <2>2. role \in {"chief-architect", "deep-report"} => p \notin Id
    BY <1>1, <1>2, <1>9 DEF Clean, AgentRole, InsightRole, ExecutionRole
  <2>3. QED
    BY <1>6, <2>1, <2>2 DEF InsightRole
<1>11. r.tier \in Degraded /\ r.tier \in Tier => r.tier = "execute"
  <2> DEFINE asked == IF tier = "" THEN RouteTier(role) ELSE tier
  <2>1. asked \in Degraded => tier = "execute"
    BY <1>1, <1>2 DEF Clean, PlannedEnforcement
  <2>2. CASE r.tier = tier /\ tier # ""
    BY <2>1, <2>2
  <2>3. CASE /\ r.tier = RouteTier(role)
             /\ tier # "" => ~ (TierCost(tier) < TierCost(RouteTier(role)))
    <3>1. CASE tier = ""
      BY <2>1, <2>3, <3>1
    <3>2. CASE tier \in {"execute", "other"}
      <4>1. TierCost(tier) = 0
        BY <3>2 DEF TierCost
      <4>2. ~ (0 < TierCost(RouteTier(role)))
        BY <2>3, <3>2, <4>1
      <4>3. RouteTier(role) = "execute"
        BY <1>4, <4>2, RouteCost
      <4>4. QED
        BY <2>3, <4>3
    <3>3. CASE tier = "scrutiny"
      BY <1>4, <2>1, <2>3, <3>3, RouteCost DEF TierCost
    <3>4. CASE tier = "reason"
      <4>1. role \in {"chief-architect", "deep-report"}
        BY <1>1, <1>2, <1>4, <3>4 DEF Clean, InsightRole, AgentRole, ExecutionRole
      <4>2. QED
        BY <2>1, <2>3, <3>4, <4>1 DEF RouteTier
    <3>5. QED
      BY <1>4, <3>1, <3>2, <3>3, <3>4 DEF TierFlag, Tier
  <2>4. QED
    BY <1>1, <1>3, <1>4, <2>2, <2>3, CheaperOrRoute
<1>12. p \in Id /\ rec[p].role \notin {"worker", "debugger"} => role = "investigator"
  BY <1>1, <1>2, <1>9 DEF Clean, AgentRole, InsightRole, ExecutionRole
<1>13. Legal(r)
  BY <1>3, <1>7, <1>9, <1>10, <1>11, <1>12 DEF Legal
<1>14. QED
  BY <1>8, <1>13 DEF r

\* The pool refuses what tiller dispatch let through for a limit only.
LEMMA PoolDeniesForLimits ==
    ASSUME GateInv, NEW i \in Id, rec[i].status = "claimed",
           ~ Allowed(PoolRequest(i)), NEW r \in Deciding(PoolRequest(i))
    PROVE  r \in Limits
<1> DEFINE q == PoolRequest(i)
<1>1. /\ rec[i].role \in AgentRole /\ rec[i].depth \in 1..MaxDepth
      /\ rec[i].tier = "reason" => rec[i].role \in InsightRole
      /\ rec[i].tier \in Degraded => rec[i].tier = "execute"
  <2>1. rec[i] \in GateRecord /\ Legal(rec[i]) /\ rec[i].tier \in Tier
    BY DEF GateInv, GateTypeOK, Written
  <2>2. rec[i].depth \in 1..MaxDepth
    <3>1. rec[i].depth \in 0..MaxDepth /\ rec[i].depth # 0
      BY <2>1 DEF GateRecord, Legal
    <3>2. QED
      BY <3>1, DispatchPolicyAssumption
  <2>3. QED
    BY <2>1, <2>2, DispatchGateAssumption DEF Legal
<1>2. /\ q.role = rec[i].role /\ q.tier = rec[i].tier /\ q.queued /\ ~ q.oversize
      /\ q.callerRole = "orchestrator" /\ q.callerDepth = rec[i].depth - 1
      /\ q.enforcement = "degraded" => rec[i].tier \in Degraded
  BY <1>1, DispatchPolicyAssumption DEF PoolRequest, PoolRequestAt
<1> HIDE DEF q
<1>3. \A s \in Rule \ (Limits \cup {"AllowDispatch"}) : ~ Fires(q)[s]
  <2>1. q.callerDepth < MaxDepth
    BY <1>1, <1>2, DispatchPolicyAssumption
  <2>2. /\ ~ Fires(q)["HaltAll"]
        /\ ~ Fires(q)["DenyReasonTierForExecution"]
        /\ ~ Fires(q)["DenyReasonFromNonRoot"]
        /\ ~ Fires(q)["DenyDirectSpawnAtDepth"]
        /\ ~ Fires(q)["DenyExecutionSpawnsInsight"]
        /\ ~ Fires(q)["DenyReviewerDispatch"]
        /\ ~ Fires(q)["DenyInvestigatorScope"]
        /\ ~ Fires(q)["DenyInsightScope"]
        /\ ~ Fires(q)["DenyWorkerScope"]
        /\ ~ Fires(q)["DenyDegradedInsight"]
        /\ ~ Fires(q)["DenyBriefTooLarge"]
    BY <1>1, <1>2 DEF Fires, Conditions, ExecutionRole
  <2>3. ~ Fires(q)["DenyDepthBeyondPolicy"]
    <3>1. q.callerDepth \in Int
      BY <1>1, <1>2, DispatchPolicyAssumption
    <3>2. ~ (q.callerDepth >= MaxDepth)
      BY <2>1, <3>1, DispatchPolicyAssumption
    <3>3. QED
      BY <3>2 DEF Fires, Conditions
  <2>4. QED
    BY <2>2, <2>3 DEF Rule, Priority, Limits
<1>4. "AllowDispatch" \in Matched(q)
  BY <1>1, <1>2 DEF Matched, Fires, Conditions, Rule, Priority
<1>5. r \in Matched(q) /\ \A s \in Matched(q) : Priority[r] <= Priority[s]
  BY <1>4 DEF q, Deciding
<1>6. r = "AllowDispatch" => \A s \in Matched(q) : s = "AllowDispatch"
  <2>1. \A s \in Rule \ {"AllowDispatch"} : ~ (Priority["AllowDispatch"] <= Priority[s])
    BY DEF Priority, Rule
  <2>2. QED
    BY <1>5, <2>1 DEF Matched
<1>7. r # "AllowDispatch"
  <2>1. SUFFICES ASSUME r = "AllowDispatch" PROVE FALSE
    OBVIOUS
  <2>2. Matched(q) = {"AllowDispatch"}
    BY <1>4, <1>6, <2>1
  <2>3. Deciding(q) = {"AllowDispatch"}
    <3>1. Priority["AllowDispatch"] <= Priority["AllowDispatch"]
      BY DEF Priority
    <3>2. QED
      BY <2>2, <3>1 DEF Deciding
  <2>4. QED
    BY <2>3 DEF Allowed, q
<1>8. QED
  BY <1>3, <1>5, <1>7 DEF Matched

-----------------------------------------------------------------------------

LEMMA GateInitInv == GateInit => GateInv
<1> SUFFICES ASSUME GateInit PROVE GateInv
  OBVIOUS
<1>1. Absent \in GateRecord
  BY DispatchPolicyAssumption DEF Absent, GateRecord, TierFlag
<1>2. GateTypeOK
  BY <1>1 DEF GateInit, GateTypeOK, IdleCmd
<1>3. (\A i \in Id : Written(i)) /\ (\A c \in Cmd : Underway(c))
  BY DEF GateInit, Written, Underway, Absent, IdleCmd
<1>4. QED
  BY <1>2, <1>3 DEF GateInv

\* A record stays legal as long as none that is there disappears or changes
\* its role.
LEMMA LegalStays ==
    ASSUME NEW r, Legal(r),
           \A i \in Id : rec[i].status # "absent"
                            => rec'[i].status # "absent" /\ rec'[i].role = rec[i].role
    PROVE  Legal(r)'
BY DEF Legal

LEMMA AskStep ==
    ASSUME GateInv, NEW c \in Cmd, Ask(c, Roles, TierFlags)
    PROVE  GateInv'
<1>1. PICK p \in Caller, role \in Roles, tier \in TierFlags, queued \in Queueing,
           oversize \in BOOLEAN :
        /\ Allowed(Request(p, role, tier, queued, oversize))
        /\ cmd' = [cmd EXCEPT ![c] =
              [step |-> "alloc", id |-> 0,
               rec |-> Granted(p, role, tier, queued, oversize)]]
  BY DEF Ask, Granted
<1> DEFINE r == Granted(p, role, tier, queued, oversize)
<1>2. r \in GateRecord /\ Legal(r)
  BY <1>1, GrantedIsLegal, DispatchGateAssumption
<1>3. r.status \in {"pending", "running"} /\ ~ r.leased
  BY DEF Granted
<1>4. rec' = rec /\ reserved' = reserved /\ admitted' = admitted
  BY DEF Ask
<1> HIDE DEF r
<1>5. GateTypeOK'
  BY <1>1, <1>2, <1>4 DEF GateInv, GateTypeOK, r
<1>6. /\ cmd'[c].step = "alloc" /\ cmd'[c].rec = r
      /\ \A e \in Cmd : e # c => cmd'[e] = cmd[e]
  BY <1>1 DEF GateInv, GateTypeOK, r
<1>7. \A i \in Id : Written(i)'
  BY <1>4 DEF GateInv, Written, Legal
<1>8. \A e \in Cmd : Underway(e)'
  BY <1>2, <1>3, <1>4, <1>6 DEF GateInv, Underway, Legal
<1>9. QED
  BY <1>5, <1>7, <1>8 DEF GateInv

LEMMA AllocStep == ASSUME GateInv, NEW c \in Cmd, Alloc(c) PROVE GateInv'
<1>1. PICK i \in Id \ reserved :
        /\ cmd[c].step = "alloc"
        /\ reserved' = reserved \cup {i}
        /\ cmd' = [cmd EXCEPT ![c].step = "write", ![c].id = i]
        /\ rec' = rec /\ admitted' = admitted
  BY DEF Alloc
<1>2. /\ cmd'[c].step = "write" /\ cmd'[c].rec = cmd[c].rec /\ cmd'[c].id = i
      /\ \A e \in Cmd : e # c => cmd'[e] = cmd[e]
  BY <1>1 DEF GateInv, GateTypeOK
<1>3. GateTypeOK'
  BY <1>1 DEF GateInv, GateTypeOK
<1>4. rec[i].status = "absent"
  BY <1>1 DEF GateInv, Written
<1>5. \A e \in Cmd : cmd[e].step = "write" => cmd[e].id # i
  BY <1>1 DEF GateInv, Underway
<1>6. \A j \in Id : Written(j)'
  BY <1>1 DEF GateInv, Written, Legal
<1>7. ASSUME NEW e \in Cmd PROVE Underway(e)'
  <2>1. \A x : Legal(x)' <=> Legal(x)
    BY <1>1 DEF Legal
  <2>2. cmd'[e].step # "idle" => cmd[e].step # "idle" /\ cmd'[e].rec = cmd[e].rec
    BY <1>1, <1>2
  <2>3. PICK x : x = cmd[e].rec
    OBVIOUS
  <2>4. cmd[e].step # "idle" =>
            Legal(x)' /\ x.status \in {"pending", "running"} /\ ~ x.leased
    BY <2>1, <2>3 DEF GateInv, Underway
  <2>5. cmd'[e].step = "write" =>
            /\ cmd'[e].id \in reserved' /\ rec'[cmd'[e].id].status = "absent"
            /\ \A f \in Cmd :
                 cmd'[f].step = "write" /\ cmd'[f].id = cmd'[e].id => f = e
    <3>1. CASE e = c
      <4>1. /\ cmd'[e].id = i /\ i \in reserved' /\ rec'[i].status = "absent"
        BY <1>1, <1>2, <1>4, <3>1
      <4>2. \A f \in Cmd : cmd'[f].step = "write" /\ cmd'[f].id = i => f = c
        BY <1>2, <1>5
      <4>3. QED
        BY <3>1, <4>1, <4>2
    <3>2. CASE e # c /\ cmd[e].step = "write"
      <4>1. /\ cmd'[e] = cmd[e] /\ cmd[e].id # i /\ cmd[e].id \in reserved
            /\ rec[cmd[e].id].status = "absent"
        BY <1>2, <1>5, <3>2 DEF GateInv, Underway
      <4>2. \A f \in Cmd :
              cmd'[f].step = "write" /\ cmd'[f].id = cmd[e].id => f = e
        <5>1. \A f \in Cmd :
                cmd[f].step = "write" /\ cmd[f].id = cmd[e].id => f = e
          BY <3>2 DEF GateInv, Underway
        <5>2. cmd'[c].id # cmd[e].id
          BY <1>2, <4>1
        <5>3. QED
          BY <1>2, <5>1, <5>2
      <4>3. /\ cmd'[e].id = cmd[e].id /\ cmd[e].id \in reserved'
            /\ rec'[cmd[e].id].status = "absent"
        BY <1>1, <4>1
      <4>4. QED
        BY <4>2, <4>3
    <3>3. CASE e # c /\ cmd[e].step # "write"
      BY <1>2, <3>3
    <3>4. QED
      BY <3>1, <3>2, <3>3
  <2>6. QED
    BY <2>2, <2>3, <2>4, <2>5 DEF Underway
<1>8. QED
  BY <1>3, <1>6, <1>7 DEF GateInv

LEMMA WriteRecordStep == ASSUME GateInv, NEW c \in Cmd, WriteRecord(c) PROVE GateInv'
<1>0. PICK k, r : k = cmd[c].id /\ r = cmd[c].rec
  OBVIOUS
<1>1. /\ cmd[c].step = "write" /\ r.tier \in Tier
      /\ rec' = [rec EXCEPT ![k] = r]
      /\ cmd' = [cmd EXCEPT ![c] = IdleCmd]
      /\ reserved' = reserved /\ admitted' = admitted
  BY <1>0 DEF WriteRecord
<1>2. /\ r \in GateRecord /\ k \in reserved /\ k \in Id /\ rec[k].status = "absent"
      /\ Legal(r) /\ r.status \in {"pending", "running"} /\ ~ r.leased
  BY <1>0, <1>1 DEF GateInv, GateTypeOK, Underway
<1>3. \A e \in Cmd : e # c /\ cmd[e].step = "write" => cmd[e].id # k
  BY <1>0, <1>1 DEF GateInv, Underway
<1>4. rec'[k] = r /\ \A i \in Id : i # k => rec'[i] = rec[i]
  BY <1>1, <1>2 DEF GateInv, GateTypeOK
<1>5. IdleCmd.step = "idle" /\ \A e \in Cmd : e # c => cmd'[e] = cmd[e]
  BY <1>1 DEF GateInv, GateTypeOK, IdleCmd
<1>6. cmd'[c].step = "idle"
  BY <1>1, <1>5 DEF GateInv, GateTypeOK
<1>7. GateTypeOK'
  <2>1. IdleCmd \in [step : {"idle", "alloc", "write"}, rec : GateRecord, id : Id \cup {0}]
    BY DispatchPolicyAssumption DEF IdleCmd, Absent, GateRecord, TierFlag
  <2>2. QED
    BY <1>1, <1>2, <2>1 DEF GateInv, GateTypeOK
<1>8. \A x : Legal(x) => Legal(x)'
  BY <1>2, <1>4, LegalStays
<1>9. \A i \in Id : Written(i)'
  <2>1. ASSUME NEW i \in Id, i # k PROVE Written(i)'
    BY <1>1, <1>4, <1>8, <2>1 DEF GateInv, Written
  <2>2. Written(k)'
    BY <1>1, <1>2, <1>4, <1>8 DEF GateInv, Written
  <2>3. QED
    BY <2>1, <2>2
<1>10. \A e \in Cmd : Underway(e)'
  <2>1. ASSUME NEW e \in Cmd, e # c PROVE Underway(e)'
    BY <1>1, <1>3, <1>4, <1>5, <1>6, <1>8, <2>1 DEF GateInv, GateTypeOK, Underway
  <2>2. Underway(c)'
    BY <1>6 DEF Underway
  <2>3. QED
    BY <2>1, <2>2
<1>11. QED
  BY <1>7, <1>9, <1>10 DEF GateInv

LEMMA GiveUpStep == ASSUME GateInv, NEW c \in Cmd, GiveUp(c) PROVE GateInv'
<1>1. cmd' = [cmd EXCEPT ![c] = IdleCmd] /\ UNCHANGED <<rec, reserved, admitted>>
  BY DEF GiveUp
<1>2. IdleCmd \in [step : {"idle", "alloc", "write"}, rec : GateRecord, id : Id \cup {0}]
  BY DispatchPolicyAssumption DEF IdleCmd, Absent, GateRecord, TierFlag
<1>3. GateTypeOK'
  BY <1>1, <1>2 DEF GateInv, GateTypeOK
<1>4. cmd'[c].step = "idle" /\ \A e \in Cmd : e # c => cmd'[e] = cmd[e]
  BY <1>1 DEF GateInv, GateTypeOK, IdleCmd
<1>5. (\A i \in Id : Written(i)') /\ (\A e \in Cmd : Underway(e)')
  BY <1>1, <1>4 DEF GateInv, Written, Underway, Legal
<1>6. QED
  BY <1>3, <1>5 DEF GateInv

\* The pool and the end of an agent change the status of one record that is
\* there, its lease and its deny_reason.
LEMMA StatusStep ==
    ASSUME GateInv, NEW i \in Id, rec[i].status # "absent",
           cmd' = cmd, reserved' = reserved, admitted' \subseteq admitted \cup {i},
           NEW s \in {"pending", "claimed", "running", "completed", "denied"},
           NEW leased \in BOOLEAN, NEW why \in Rule \cup {"", "no match"},
           rec' = [rec EXCEPT ![i].status = s, ![i].why = why, ![i].leased = leased],
           leased => s \in {"claimed", "running"},
           s # "claimed" => i \notin admitted',
           s = "denied" => why \in Limits
    PROVE  GateInv'
<1>1. rec[i] \in GateRecord /\ rec \in [Id -> GateRecord]
  BY DEF GateInv, GateTypeOK
<1> DEFINE new == [rec[i] EXCEPT !.status = s, !.why = why, !.leased = leased]
<1>r. PICK r : r = new
  OBVIOUS
<1>2. /\ r \in GateRecord /\ r.status = s /\ r.why = why /\ r.leased = leased
      /\ r.role = rec[i].role /\ r.tier = rec[i].tier
      /\ r.depth = rec[i].depth /\ r.parent = rec[i].parent
  BY <1>r, <1>1 DEF GateRecord
<1>3. /\ rec' \in [Id -> GateRecord] /\ rec'[i] = r
      /\ \A j \in Id : j # i => rec'[j] = rec[j]
  BY <1>r, <1>1, <1>2
<1>4. GateTypeOK'
  BY <1>3 DEF GateInv, GateTypeOK
<1>5. \A x : Legal(x) => Legal(x)'
  BY <1>2, <1>3, LegalStays
<1>6. Written(i)'
  <2>1. Legal(rec[i]) /\ i \in reserved /\ rec[i].tier \in Tier
    BY DEF GateInv, Written
  <2>2. Legal(r)
    BY <1>2, <2>1 DEF Legal
  <2>3. Legal(r)'
    BY <1>5, <2>2
  <2>4. QED
    BY <1>2, <1>3, <2>1, <2>3 DEF Written
<1>7. ASSUME NEW j \in Id, j # i PROVE Written(j)'
  BY <1>3, <1>5, <1>7 DEF GateInv, Written
<1>8. ASSUME NEW c \in Cmd PROVE Underway(c)'
  <2>1. PICK x : x = cmd[c].rec
    OBVIOUS
  <2>2. cmd[c].step # "idle" => Legal(x)'
    BY <1>5, <2>1 DEF GateInv, Underway
  <2>3. cmd[c].step = "write" => cmd[c].id \in Id /\ cmd[c].id # i
    BY DEF GateInv, GateTypeOK, Underway
  <2>4. QED
    BY <1>3, <2>1, <2>2, <2>3 DEF GateInv, Underway
<1>9. QED
  BY <1>4, <1>6, <1>7, <1>8 DEF GateInv

LEMMA PoolStep ==
    ASSUME GateInv, NEW i \in Id,
           PoolClaim(i) \/ PoolGate(i) \/ PoolMark(i) \/ PoolExpire(i) \/ Finish(i)
    PROVE  GateInv'
<1>1. /\ rec \in [Id -> GateRecord] /\ rec[i] \in GateRecord
      /\ i \in admitted => rec[i].status = "claimed"
      /\ rec[i].leased => rec[i].status \in {"claimed", "running"}
  BY DEF GateInv, GateTypeOK, Written
<1>2. ASSUME NEW s \in {"pending", "running", "claimed", "completed"},
             NEW leased \in BOOLEAN, SetStatus(i, s, leased),
             rec[i].status \notin {"absent", "denied"}, cmd' = cmd, reserved' = reserved,
             admitted' \subseteq admitted, leased => s \in {"claimed", "running"},
             s # "claimed" => i \notin admitted'
      PROVE  GateInv'
  <2>1. PICK why \in Rule \cup {"", "no match"} : why = rec[i].why
    BY <1>1 DEF GateRecord
  <2>2. [rec[i] EXCEPT !.status = s, !.leased = leased]
            = [rec[i] EXCEPT !.status = s, !.why = why, !.leased = leased]
    BY <1>1, <2>1 DEF GateRecord
  <2>3. rec' = [rec EXCEPT ![i].status = s, ![i].why = why, ![i].leased = leased]
    BY <1>1, <1>2, <2>2 DEF SetStatus
  <2>4. QED
    BY <1>2, <2>3, StatusStep
<1>3. CASE PoolClaim(i)
  BY <1>1, <1>2, <1>3 DEF PoolClaim
<1>4. CASE PoolMark(i)
  BY <1>1, <1>2, <1>4 DEF PoolMark
<1>5. CASE PoolExpire(i)
  BY <1>1, <1>2, <1>5 DEF PoolExpire
<1>6. CASE Finish(i)
  BY <1>1, <1>2, <1>6 DEF Finish
<1>7. CASE PoolGate(i) /\ Allowed(PoolRequest(i))
  <2>1. rec' = rec /\ cmd' = cmd /\ reserved' = reserved
        /\ admitted' = admitted \cup {i} /\ rec[i].status = "claimed"
    BY <1>7 DEF PoolGate
  <2>2. GateTypeOK'
    BY <2>1 DEF GateInv, GateTypeOK
  <2>3. (\A j \in Id : Written(j)') /\ (\A c \in Cmd : Underway(c)')
    BY <2>1 DEF GateInv, Written, Underway, Legal
  <2>4. QED
    BY <2>2, <2>3 DEF GateInv
<1>8. CASE PoolGate(i) /\ ~ Allowed(PoolRequest(i))
  <2>1. PICK r \in Deciding(PoolRequest(i)) :
            rec' = [rec EXCEPT ![i].status = "denied", ![i].why = r, ![i].leased = FALSE]
    BY <1>8 DEF PoolGate
  <2>2. /\ rec[i].status = "claimed" /\ i \notin admitted
        /\ cmd' = cmd /\ reserved' = reserved /\ admitted' = admitted
    BY <1>8 DEF PoolGate
  <2>3. r \in Limits
    BY <1>8, <2>2, PoolDeniesForLimits
  <2>4. r \in Rule
    BY <2>3 DEF Limits, Rule, Priority
  <2>5. QED
    BY <2>1, <2>2, <2>3, <2>4, StatusStep
<1>9. QED
  BY <1>3, <1>4, <1>5, <1>6, <1>7, <1>8

LEMMA GateStep == ASSUME GateInv, [GateNext]_gatevars PROVE GateInv'
<1>1. CASE UNCHANGED gatevars
  <2>1. GateTypeOK'
    BY <1>1 DEF GateInv, GateTypeOK, gatevars
  <2>2. (\A j \in Id : Written(j)') /\ (\A c \in Cmd : Underway(c)')
    BY <1>1 DEF GateInv, Written, Underway, Legal, gatevars
  <2>3. QED
    BY <2>1, <2>2 DEF GateInv
<1>2. QED
  BY <1>1, AskStep, AllocStep, WriteRecordStep, GiveUpStep, PoolStep
  DEF GateNext, GateSteps

LEMMA GateInvariant == GateSpec => []GateInv
BY GateInitInv, GateStep, PTL DEF GateSpec

\* The variables of the gate keep their types; no dispatch is deeper than
\* the run allows.
THEOREM GateTypeCorrect == GateSpec => []GateTypeOK
<1>1. GateInv => GateTypeOK
  BY DEF GateInv
<1>2. QED
  BY <1>1, GateInvariant, PTL

\* Whatever roles and tiers are asked for, and however long the chain of
\* dispatches: the reason tier is given to children of the root only.
THEOREM GateReasonFromRoot == GateSpec => []ReasonFromRoot
<1>1. GateInv => ReasonFromRoot
  BY DEF GateInv, Written, Legal, ReasonFromRoot
<1>2. QED
  BY <1>1, GateInvariant, PTL

\* The subtree of a dispatch that may not write is readonly.
THEOREM GateReadOnlySubtrees == GateSpec => []ReadOnlySubtrees
<1>1. GateInv => ReadOnlySubtrees
  <2>1. Absent.parent \notin Id
    BY DEF Absent, Nobody, Id
  <2>2. QED
    BY <2>1 DEF GateInv, Written, Legal, ReadOnlySubtrees
<1>2. QED
  BY <1>1, GateInvariant, PTL

\* Degraded adapters serve the execute tier only.
THEOREM GateDegradedServesExecute == GateSpec => []DegradedServesExecute
<1>1. GateInv => DegradedServesExecute
  BY DEF GateInv, Written, Legal, DegradedServesExecute
<1>2. QED
  BY <1>1, GateInvariant, PTL

\* The pool refuses for a limit only.
THEOREM GatePoolRefusesForLimits == GateSpec => []PoolRefusesForLimits
<1>1. GateInv => PoolRefusesForLimits
  BY DEF GateInv, Written, Limits, PoolRefusesForLimits
<1>2. QED
  BY <1>1, GateInvariant, PTL

-----------------------------------------------------------------------------

Live(i) == rec[i].status \in {"pending", "claimed", "running"}
LiveIds == {i \in Id : Live(i)}
Paying  == {c \in Cmd : cmd[c].step # "idle"}

\* An invocation between the counters and the record pays for the one
\* dispatch above the cap it may add.
CapPaid == Cardinality(LiveIds) + Cardinality(Paying) <= ActiveCap - 2 + Cardinality(Cmd)

\* The sets that are counted.
LEMMA Finite ==
    /\ IsFiniteSet(Id) /\ IsFiniteSet(Cmd)
    /\ \A S : S \subseteq Id \/ S \subseteq Cmd => IsFiniteSet(S) /\ Cardinality(S) \in Nat
    /\ Cardinality(Cmd) \in Nat \ {0}
<1>1. IsFiniteSet(Id) /\ IsFiniteSet(Cmd) /\ Cmd # {}
  BY DispatchGateAssumption, FS_Interval DEF Id
<1>2. QED
  BY <1>1, FS_Subset, FS_CardinalityType, FS_EmptySet

LEMMA CapPaidInit == GateInit => CapPaid
<1> SUFFICES ASSUME GateInit PROVE CapPaid
  OBVIOUS
<1>1. LiveIds = {} /\ Paying = {}
  BY DEF GateInit, LiveIds, Live, Paying, Absent, IdleCmd
<1>2. Cardinality(Cmd) \in Nat \ {0} /\ ActiveCap \in Nat \ {0} /\ Cardinality({}) = 0
  BY Finite, DispatchPolicyAssumption, FS_EmptySet
<1>3. QED
  BY <1>1, <1>2 DEF CapPaid

LEMMA CapPaidStep ==
    ASSUME GateInv, CapPaid, [GateNext]_gatevars
    PROVE  CapPaid'
<1>1. /\ IsFiniteSet(LiveIds) /\ Cardinality(LiveIds) \in Nat /\ IsFiniteSet(LiveIds')
      /\ Cardinality(LiveIds') \in Nat
      /\ IsFiniteSet(Paying) /\ Cardinality(Paying) \in Nat /\ IsFiniteSet(Paying')
      /\ Cardinality(Paying') \in Nat
      /\ Cardinality(Cmd) \in Nat \ {0} /\ ActiveCap \in Nat \ {0}
      /\ Cardinality(Paying') <= Cardinality(Cmd)
  <2>1. LiveIds \subseteq Id /\ LiveIds' \subseteq Id /\ Paying \subseteq Cmd
        /\ Paying' \subseteq Cmd
    BY DEF LiveIds, Paying
  <2>2. QED
    BY <2>1, Finite, FS_Subset, DispatchPolicyAssumption
<1>2. ASSUME LiveIds' \subseteq LiveIds, Paying' \subseteq Paying PROVE CapPaid'
  <2>1. /\ Cardinality(LiveIds') <= Cardinality(LiveIds)
        /\ Cardinality(Paying') <= Cardinality(Paying)
    BY <1>1, <1>2, FS_Subset
  <2>2. QED
    BY <1>1, <2>1 DEF CapPaid
<1>3. ASSUME NEW c \in Cmd, Ask(c, Roles, TierFlags) PROVE CapPaid'
  <2>1. ActiveCount < ActiveCap
    <3>1. PICK p \in Caller, role \in Roles, tier \in TierFlags, queued \in Queueing,
               oversize \in BOOLEAN : Allowed(Request(p, role, tier, queued, oversize))
      BY <1>3 DEF Ask
    <3>2. /\ Request(p, role, tier, queued, oversize).active = ActiveCount
          /\ Request(p, role, tier, queued, oversize).reason = ReasonCount
          /\ Request(p, role, tier, queued, oversize).callerDepth = CallerRecord(p).depth
      BY DEF Request
    <3>3. Clean(Request(p, role, tier, queued, oversize))
      BY <3>1, <3>2, AllowedIsClean, Numbers DEF GateInv
    <3>4. QED
      BY <3>2, <3>3 DEF Clean
  <2>2. ActiveCount = Cardinality(LiveIds) + 1
    <3>1. InStatus({"running", "pending", "claimed"}) = LiveIds
      BY DEF InStatus, LiveIds, Live
    <3>2. QED
      BY <3>1 DEF ActiveCount
  <2>3. LiveIds' = LiveIds
    BY <1>3 DEF Ask, LiveIds, Live
  <2>4. QED
    BY <1>1, <2>1, <2>2, <2>3 DEF CapPaid
<1>4. ASSUME NEW c \in Cmd, Alloc(c) PROVE CapPaid'
  <2>1. LiveIds' \subseteq LiveIds
    BY <1>4 DEF Alloc, LiveIds, Live
  <2>2. Paying' \subseteq Paying
    BY <1>4 DEF Alloc, Paying, GateInv, GateTypeOK
  <2>3. QED
    BY <1>2, <2>1, <2>2
<1>5. ASSUME NEW c \in Cmd, WriteRecord(c) PROVE CapPaid'
  <2>1. PICK k : k = cmd[c].id
    OBVIOUS
  <2>2. k \in Id /\ LiveIds' \subseteq LiveIds \cup {k}
    BY <1>5, <2>1 DEF WriteRecord, GateInv, GateTypeOK, Underway, LiveIds, Live
  <2>3. c \in Paying /\ Paying' \subseteq Paying \ {c}
    BY <1>5 DEF WriteRecord, GateInv, GateTypeOK, Paying, IdleCmd
  <2>4. Cardinality(LiveIds') <= Cardinality(LiveIds) + 1
    <3>1. /\ IsFiniteSet(LiveIds \cup {k})
          /\ Cardinality(LiveIds \cup {k}) \in {Cardinality(LiveIds), Cardinality(LiveIds) + 1}
      BY <1>1, FS_AddElement
    <3>2. /\ Cardinality(LiveIds') <= Cardinality(LiveIds \cup {k})
          /\ Cardinality(LiveIds \cup {k}) \in Nat
      BY <2>2, <3>1, FS_Subset, FS_CardinalityType
    <3>3. QED
      BY <1>1, <3>1, <3>2
  <2>5. Cardinality(Paying') <= Cardinality(Paying) - 1
    <3>1. IsFiniteSet(Paying \ {c}) /\ Cardinality(Paying \ {c}) = Cardinality(Paying) - 1
      BY <1>1, <2>3, FS_RemoveElement
    <3>2. Cardinality(Paying') <= Cardinality(Paying \ {c})
      BY <2>3, <3>1, FS_Subset
    <3>3. QED
      BY <3>1, <3>2
  <2>6. QED
    BY <1>1, <2>4, <2>5 DEF CapPaid
<1>6. ASSUME NEW c \in Cmd, GiveUp(c) PROVE CapPaid'
  <2>1. LiveIds' \subseteq LiveIds
    BY <1>6 DEF GiveUp, LiveIds, Live
  <2>2. Paying' \subseteq Paying
    BY <1>6 DEF GiveUp, Paying, GateInv, GateTypeOK, IdleCmd
  <2>3. QED
    BY <1>2, <2>1, <2>2
<1>7. ASSUME NEW i \in Id,
             PoolClaim(i) \/ PoolGate(i) \/ PoolMark(i) \/ PoolExpire(i) \/ Finish(i)
      PROVE  CapPaid'
  <2>1. Live(i) \/ rec' = rec
    BY <1>7 DEF PoolClaim, PoolGate, PoolMark, PoolExpire, Finish, GateInv, Written, Live
  <2>2. \A j \in Id : j # i => rec'[j] = rec[j]
    BY <1>7
    DEF PoolClaim, PoolGate, PoolMark, PoolExpire, Finish, SetStatus, GateInv, GateTypeOK
  <2>3. LiveIds' \subseteq LiveIds
    BY <2>1, <2>2 DEF LiveIds, Live
  <2>4. Paying' \subseteq Paying
    BY <1>7 DEF PoolClaim, PoolGate, PoolMark, PoolExpire, Finish, Paying
  <2>5. QED
    BY <1>2, <2>3, <2>4
<1>8. CASE UNCHANGED gatevars
  BY <1>2, <1>8 DEF gatevars, LiveIds, Live, Paying
<1>9. QED
  BY <1>3, <1>4, <1>5, <1>6, <1>7, <1>8 DEF GateNext, GateSteps

\* For any cap and any number of invocations at a time, the overshoot is
\* less than that number.
THEOREM GateActiveBounded == GateSpec => []ActiveBounded
<1>1. GateInv /\ CapPaid => ActiveBounded
  <2> SUFFICES ASSUME GateInv, CapPaid PROVE ActiveBounded
    OBVIOUS
  <2>1. Cardinality(Paying) \in Nat /\ Cardinality(LiveIds) \in Nat
        /\ Cardinality(Cmd) \in Nat
    BY Finite DEF Paying, LiveIds
  <2>2. {i \in Id : rec[i].status \in {"pending", "claimed", "running"}} = LiveIds
    BY DEF LiveIds, Live
  <2>3. QED
    <3>1. ActiveCap \in Nat
      BY DispatchPolicyAssumption
    <3>2. Cardinality(LiveIds) <= ActiveCap - 2 + Cardinality(Cmd)
      BY <2>1, <3>1 DEF CapPaid
    <3>3. QED
      BY <2>2, <3>2 DEF ActiveBounded
<1>2. GateSpec => [](GateInv /\ CapPaid)
  BY GateInitInv, GateStep, CapPaidInit, CapPaidStep, PTL DEF GateSpec
<1>3. QED
  BY <1>1, <1>2, PTL
=============================================================================
