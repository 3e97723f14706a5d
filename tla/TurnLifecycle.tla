---------------------------- MODULE TurnLifecycle ----------------------------
(***************************************************************************)
(* What the core promises about a turn, without its locks, its queue of    *)
(* waiting tasks, its snapshots or its agents: a session is owned by one   *)
(* turn at a time, only the owner moves its row, the row follows the       *)
(* documented diagram (docs/design.md, "Turn lifecycle"), and the user     *)
(* sees the final message of a turn only from its owner.                   *)
(***************************************************************************)
CONSTANTS Turn, Session, SessionOf, NoTurn

VARIABLES row,       \* row[t]: status column of core_turns
          owner,     \* owner[s]: the turn that runs in session s
          announced  \* turns whose final message the gateway acknowledged

vars == <<row, owner, announced>>

Init == /\ row = [t \in Turn |-> "absent"]
        /\ owner = [s \in Session |-> NoTurn]
        /\ announced = {}

Owns(t) == owner[SessionOf[t]] = t

\* The message is accepted: its row appears.
Submit(t) == /\ row[t] = "absent"
             /\ row' = [row EXCEPT ![t] = "queued"]
             /\ UNCHANGED <<owner, announced>>

\* A queued turn takes a free session.
Begin(t) == /\ row[t] = "queued"
            /\ owner[SessionOf[t]] = NoTurn
            /\ owner' = [owner EXCEPT ![SessionOf[t]] = t]
            /\ UNCHANGED <<row, announced>>

Run(t) == /\ Owns(t)
          /\ row[t] = "queued"
          /\ row' = [row EXCEPT ![t] = "running"]
          /\ UNCHANGED <<owner, announced>>

Finish(t) == /\ Owns(t)
             /\ row[t] = "running"
             /\ \E outcome \in {"completed", "failed"} :
                   row' = [row EXCEPT ![t] = outcome]
             /\ UNCHANGED <<owner, announced>>

\* A success is announced after it is recorded, a failure just before.
Announce(t) == /\ Owns(t)
               /\ row[t] \in {"running", "completed"}
               /\ t \notin announced
               /\ announced' = announced \cup {t}
               /\ UNCHANGED <<row, owner>>

\* The owner gives the session to nobody or to a turn that waits for it.
Leave(t) == /\ Owns(t)
            /\ \E next \in {NoTurn} \cup {u \in Turn : /\ SessionOf[u] = SessionOf[t]
                                                       /\ row[u] = "queued"
                                                       /\ u # t} :
                  owner' = [owner EXCEPT ![SessionOf[t]] = next]
            /\ UNCHANGED <<row, announced>>

\* The process dies: sessions are free again, rows stay as they are.
Crash == /\ owner' = [s \in Session |-> NoTurn]
         /\ UNCHANGED <<row, announced>>

Next == Crash \/ \E t \in Turn : \/ Submit(t) \/ Begin(t) \/ Run(t)
                                 \/ Finish(t) \/ Announce(t) \/ Leave(t)

Spec == Init /\ [][Next]_vars
=============================================================================
