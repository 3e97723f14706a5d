---------------------------- MODULE MCTurnService ----------------------------
(***************************************************************************)
(* Small instances of TurnService.                                         *)
(***************************************************************************)
EXTENDS TurnService, TLC

CONSTANTS t1, t2, t3, chat, codex, claude, old

\* Every message in one chat.
OneSession == [t \in Turn |-> chat]

\* One runtime of each kind.
KindByName == [r \in Runtime |-> IF r = codex THEN "codex" ELSE "acp"]

\* Every runtime opens a session of its own, or the Codex one was imported.
NoneImported == [r \in Runtime |-> NoRef]
CodexImported == [r \in Runtime |-> IF r = codex THEN old ELSE NoRef]

TurnSymmetry == Permutations(Turn)
=============================================================================
