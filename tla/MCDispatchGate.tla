--------------------------- MODULE MCDispatchGate ---------------------------
(* The gates with the program's roles and tiers for one invocation at a    *)
(* time, and with two invocations at a time that ask for workers only.     *)
EXTENDS DispatchGate

CONSTANTS First,      \* the invocation that is always there
          MaxAlone    \* bound on the dispatches it makes alone

Racing(r) ==
    /\ r.role \in {"", "worker"}
    /\ r.tier \in {"", "execute"}
    /\ r.parent \in {Nobody, Person}

\* One invocation at a time.
Alone ==
    /\ \A c \in Cmd \ {First} : cmd[c] = IdleCmd
    /\ GateSteps({First}, IF Cardinality(reserved) < MaxAlone THEN Roles ELSE {},
                 TierFlags)

Together ==
    /\ \A i \in Id : Racing(rec[i])
    /\ \A c \in Cmd : Racing(cmd[c].rec)
    /\ GateSteps(Cmd, Roles \cap {"worker"}, TierFlags \cap {""})
    /\ \A c \in Cmd : Racing(cmd'[c].rec)

MCSpec == GateInit /\ [][Alone \/ Together]_gatevars
=============================================================================
