---------------------------- MODULE AtomicRecord ----------------------------
(***************************************************************************)
(* What a document of a run promises its readers: they see the text of one *)
(* write, the last that took effect, whole.  A write takes effect at one   *)
(* moment while its caller waits for it, or never.                         *)
(***************************************************************************)
CONSTANTS Writes,   \* the writes that may be asked for
          Absent    \* what a reader gets before the first

VARIABLES text,     \* what a reader gets now
          asked     \* the writes under way that have not taken effect

atomicvars == <<text, asked>>

AtomicInit == text = Absent /\ asked = {}

Ask(w) ==
    /\ w \in Writes \ asked
    /\ asked' = asked \cup {w}
    /\ UNCHANGED text

TakeEffect(w) ==
    /\ w \in asked
    /\ text' = w
    /\ asked' = asked \ {w}

\* The caller fails or dies first.
GiveUp(w) ==
    /\ w \in asked
    /\ asked' = asked \ {w}
    /\ UNCHANGED text

AtomicNext == \E w \in Writes : Ask(w) \/ TakeEffect(w) \/ GiveUp(w)

AtomicSpec == AtomicInit /\ [][AtomicNext]_atomicvars
=============================================================================
