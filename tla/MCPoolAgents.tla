---------------------------- MODULE MCPoolAgents -----------------------------
(* Pools with adapters that run the agent themselves, and pools whose agent *)
(* is detached, each a part of its own: a behaviour is one of one part.     *)
EXTENDS PoolProperties, HeadlessPool

VARIABLE part

agentsvars == <<part, vars, headlessvars>>

AgentsInit == part \in {"attached", "detached"} /\ Init /\ HeadlessInit

AgentsNext ==
    \/ part = "attached" /\ Next /\ UNCHANGED <<part, headlessvars>>
    \/ part = "detached" /\ HeadlessNext /\ UNCHANGED <<part, vars>>

\* Fairness of Pool for its part.  For the other: a live worker goes on, a
\* supervisor goes on, agents end, and the sweeper runs after every poll.
AgentsFairness ==
    /\ \A d \in Dispatch :
        /\ WF_vars(part = "attached" /\ ExpireLease(d))
        /\ \A p \in Executor :
            /\ WF_vars(part = "attached" /\ Deliver(p, d))
            /\ WF_vars(part = "attached" /\ Work(p, d))
            /\ WF_vars(part = "attached" /\ RenewTick(p, d))
    /\ WF_vars(part = "attached" /\ Tick)
    /\ \A p \in Pools : WF_headlessvars(part = "detached" /\ Working(p))
    /\ \A n \in Starts : WF_headlessvars(part = "detached" /\ Attending(n))
    /\ WF_headlessvars(part = "detached" /\ ExpireRunOut)

AgentsSpec == AgentsInit /\ [][AgentsNext]_agentsvars /\ AgentsFairness
==============================================================================
