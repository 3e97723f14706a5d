---------------------------- MODULE MCCodexWorker ----------------------------
(***************************************************************************)
(* Small instances of CodexWorker: turns of one thread.                    *)
(***************************************************************************)
EXTENDS CodexWorker

CONSTANTS t1, t2, t3, m1, thread, other

\* The third turn, where there is one, runs in a thread of its own.
ThreadByName == [t \in Turn |-> IF t = t3 THEN other ELSE thread]
=============================================================================
