--------------------------- MODULE RuntimeContract ---------------------------
(***************************************************************************)
(* What the turn service may expect of an AgentRuntime                     *)
(* (src/agent/runtime/types.rs): start_turn is answered once, with a       *)
(* RuntimeTurn or with an error; an agent works on one turn at a time; a   *)
(* RuntimeTurn delivers events while the agent works on it and then its    *)
(* completion, once.  Whether an answer or a completion ever comes is not  *)
(* part of the contract.                                                   *)
(***************************************************************************)
CONSTANTS Turn, NoTurn

VARIABLES start,       \* start[t]: what the caller of start_turn knows
          completion,  \* completion[t]: what the completion of t joined to
          working      \* the turn the agent works on

vars == <<start, completion, working>>

Init == /\ start = [t \in Turn |-> "none"]
        /\ completion = [t \in Turn |-> "none"]
        /\ working = NoTurn

Open(t) == start[t] = "ok" /\ completion[t] = "none"

Ask(t) == /\ start[t] = "none"
          /\ start' = [start EXCEPT ![t] = "asked"]
          /\ UNCHANGED <<completion, working>>

\* The caller gets its RuntimeTurn, before or as the agent takes the turn up.
Accept(t) == /\ start[t] \in {"none", "asked"}
             /\ start' = [start EXCEPT ![t] = "ok"]
             /\ \/ UNCHANGED working
                \/ working = NoTurn /\ working' = t
             /\ UNCHANGED completion

Refuse(t) == /\ start[t] \in {"none", "asked"}
             /\ start' = [start EXCEPT ![t] = "refused"]
             /\ UNCHANGED <<completion, working>>

Take(t) == /\ Open(t)
           /\ working = NoTurn
           /\ working' = t
           /\ UNCHANGED <<start, completion>>

Complete(t) == /\ Open(t)
               /\ working = t
               /\ \E result \in {"ok", "err"} :
                     completion' = [completion EXCEPT ![t] = result]
               /\ working' = NoTurn
               /\ UNCHANGED start

\* The worker goes and takes all with it that it was asked for.
Collapse == /\ working' = NoTurn
            /\ start' = [t \in Turn |-> IF start[t] = "asked" THEN "refused" ELSE start[t]]
            /\ \E ended \in SUBSET {t \in Turn : Open(t)} :
                  /\ working \in Turn => working \in ended
                  /\ completion' = [t \in Turn |-> IF t \in ended THEN "err" ELSE completion[t]]

Next == \/ \E t \in Turn : Ask(t) \/ Accept(t) \/ Refuse(t) \/ Take(t) \/ Complete(t)
        \/ Collapse

Spec == Init /\ [][Next]_vars
=============================================================================
