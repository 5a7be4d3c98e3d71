----------------------------- MODULE MCAmbient -----------------------------
EXTENDS Ambient, TLC

MCTypeOf ==
    [t \in Task |-> IF t = "look" THEN "general-purpose" ELSE "tiller-worker"]

MCAnswers ==
    {[NoAnswer EXCEPT !.failed = TRUE],
     [NoAnswer EXCEPT !.candidate = TRUE, !.verified = TRUE],
     [NoAnswer EXCEPT !.policy = TRUE, !.distilled = TRUE]}

Symmetry == Permutations(Call)
=============================================================================
