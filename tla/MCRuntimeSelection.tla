------------------------- MODULE MCRuntimeSelection -------------------------
(***************************************************************************)
(* Small instances of RuntimeSelection.                                    *)
(***************************************************************************)
EXTENDS RuntimeSelection, TLC

CONSTANTS c1, c2, r1, r2, r3, s1, s2, s3

\* /tmp/x is a link to /private/tmp/x.
Link == [w \in Cwd |-> "/private/tmp/x"]
Here == [agent |-> "claude", cwd |-> "/private/tmp/x"]

\* One session from before, which its agent lists with the other path.
OneFromBefore == [s \in AgentSession |-> IF s = s1 THEN Here ELSE NoScope]
ByTheLink == [s \in AgentSession |-> "/tmp/x"]

ChatSymmetry == Permutations(Chat) \cup Permutations(Runtime)
=============================================================================
