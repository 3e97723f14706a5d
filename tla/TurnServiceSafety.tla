-------------------------- MODULE TurnServiceSafety --------------------------
(***************************************************************************)
(* The safety of TurnService, proved for every set of messages, sessions   *)
(* and runtimes, any number of crashes and any choice of faults: the types,*)
(* one task per session, an active turn that is the one that holds the     *)
(* lock, stops that reach their turn.                                      *)
(***************************************************************************)
EXTENDS TurnService, SequenceTheorems, TLAPS

-----------------------------------------------------------------------------
(* Type correctness                                                        *)

\* The initial state is well typed.
LEMMA InitType == Init => TypeOK
<1> SUFFICES ASSUME Init PROVE TypeOK
  OBVIOUS
<1>1. snap \in [Turn -> Copy] /\ agent \in [Turn -> Agent]
  BY DEF Init, Copy, Agent, Phase
<1>2. render \in [Turn -> State] /\ registry \in [Session -> State]
  BY DEF Init, NoState, State
<1>3. sessionRow \in [Session -> State]
  BY DEF Init, NoState, State
<1>4. runtimeRow \in [Runtime -> State]
  BY ConstantsAssumption DEF Init, State, Ref
<1>5. pc \in [Turn -> Label] /\ row \in [Turn -> Status]
  BY DEF Init, Label, Status
<1>6. waiting \in [Session -> Seq(Turn)] /\ crashes \in 0 .. MaxCrashes
  BY ConstantsAssumption DEF Init
<1>7. QED
  BY <1>1, <1>2, <1>3, <1>4, <1>5, <1>6 DEF Init, TypeOK

\* The labels a task or handler is sent to are labels.
LEMMA GotoType ==
    ASSUME TypeOK, NEW t \in Turn, NEW l \in Label, Goto(t, l)
    PROVE  pc' \in [Turn -> Label]
BY DEF TypeOK, Goto

\* The message handler (handle_inbound, accept_turn) keeps the types.
LEMMA HandleType ==
    ASSUME TypeOK, NEW t \in Turn, Handle(t)
    PROVE  TypeOK'
<1> USE DEF lockVars, agentVars, turnVars, stateVars, seenVars
<1>1. CASE Receive(t)
  <2>1. active[SessionOf[t]].turn \in Turn \cup {NoTurn}
    BY ConstantsAssumption DEF TypeOK, Entry, NoEntry
  <2>2. steerTo' \in [Turn -> Turn \cup {NoTurn}]
    BY <1>1, <2>1 DEF TypeOK, Receive
  <2>3. pc' \in [Turn -> Label]
    BY <1>1, GotoType DEF Receive, Label, Handler
  <2>4. QED
    BY <1>1, <2>2, <2>3 DEF TypeOK, Receive
<1>2. CASE SteerFallsBack(t)
  <2>1. pc' \in [Turn -> Label]
    BY <1>2, GotoType DEF SteerFallsBack, Label, Handler
  <2>2. QED
    BY <1>2, <2>1 DEF TypeOK, SteerFallsBack
<1>3. CASE SteerAccepted(t)
  <2>1. pc' \in [Turn -> Label]
    BY <1>3, GotoType DEF SteerAccepted, Label, Ended
  <2>2. QED
    BY <1>3, <2>1 DEF TypeOK, SteerAccepted
<1>4. CASE SteerRefused(t)
  <2>1. pc' \in [Turn -> Label]
    BY <1>4, GotoType DEF SteerRefused, Label, Ended
  <2>2. QED
    BY <1>4, <2>1 DEF TypeOK, SteerRefused
<1>5. CASE Accept(t)
  <2>1. pc' \in [Turn -> Label]
    BY <1>5, GotoType DEF Accept, CopySession, CopySelection, CopyRuntime, Label, Handler, Ended
  <2>2. snap' \in [Turn -> Copy]
    <3>1. snap \in [Turn -> Copy] /\ snap[t] \in Copy
      BY DEF TypeOK
    <3>2. CASE CopySession(t)
      <4>1. registry[SessionOf[t]].ref \in Ref \cup {NoRef}
        BY ConstantsAssumption DEF TypeOK, State
      <4>2. QED
        BY <3>1, <3>2, <4>1, Zenon DEF CopySession, Copy
    <3>3. CASE CopySelection(t)
      <4> DEFINE r == selected[SessionOf[t]]
      <4>1. r \in Runtime \cup {NoRuntime}
        BY ConstantsAssumption DEF TypeOK
      <4>2. snap' = snap \/ snap' = [snap EXCEPT ![t].runtime = r]
        BY <3>3 DEF CopySelection
      <4>3. [snap EXCEPT ![t].runtime = r] \in [Turn -> Copy]
        BY <3>1, <4>1, Zenon DEF Copy
      <4>4. QED
        BY <3>1, <4>2, <4>3
    <3>4. CASE CopyRuntime(t)
      <4>1. PICK r \in Runtime : snap' = [snap EXCEPT ![t].ref = runtimeRow[r].ref]
        BY <3>4 DEF CopyRuntime
      <4>2. runtimeRow[r].ref \in Ref \cup {NoRef}
        BY DEF TypeOK, State
      <4>3. QED
        BY <3>1, <4>1, <4>2, Zenon DEF Copy
    <3>5. QED
      BY <1>5, <3>2, <3>3, <3>4 DEF Accept
  <2>3. QED
    BY <1>5, <2>1, <2>2 DEF TypeOK, Accept
<1>6. CASE CreateTurn(t)
  <2>1. pc' \in [Turn -> Label]
    BY <1>6, GotoType DEF CreateTurn, Label, Task
  <2>2. row' \in [Turn -> Status]
    BY <1>6 DEF TypeOK, CreateTurn, Status
  <2>3. QED
    BY <1>6, <2>1, <2>2 DEF TypeOK, CreateTurn
<1>7. CASE CreateFails(t)
  <2>1. pc' \in [Turn -> Label]
    BY <1>7, GotoType DEF CreateFails, Label, Ended
  <2>2. QED
    BY <1>7, <2>1 DEF TypeOK, CreateFails
<1>8. QED
  BY <1>1, <1>2, <1>3, <1>4, <1>5, <1>6, <1>7 DEF Handle

\* What a turn records has the type of a state.
LEMMA RecordedType ==
    ASSUME TypeOK, NEW t \in Turn
    PROVE  Recorded(t) \in State
BY DEF TypeOK, Recorded, State

\* COALESCE of two runtime states is a runtime state.
LEMMA CoalescedType ==
    ASSUME TypeOK, NEW r \in Runtime, NEW state \in State
    PROVE  Coalesced(r, state) \in State
BY DEF TypeOK, Coalesced, State

\* Asking for the lock and giving it up keep the types.
LEMMA LockStepType ==
    ASSUME TypeOK, NEW t \in Turn, RequestLock(t) \/ ReleaseLock(t)
    PROVE  TypeOK'
<1> DEFINE s == SessionOf[t]
<1> s \in Session
  BY ConstantsAssumption
<1> USE DEF lockVars, agentVars, turnVars, stateVars, seenVars
<1>1. CASE RequestLock(t)
  <2>1. pc' \in [Turn -> Label]
    BY <1>1, GotoType DEF RequestLock, Label, Task, Inside
  <2>2. holder' \in [Session -> Turn \cup {NoTurn}]
    BY <1>1 DEF TypeOK, RequestLock
  <2>3. waiting' \in [Session -> Seq(Turn)]
    <3>1. Append(waiting[s], t) \in Seq(Turn)
      BY DEF TypeOK
    <3>2. \/ waiting' = waiting
          \/ waiting' = [waiting EXCEPT ![s] = Append(waiting[s], t)]
      BY <1>1 DEF RequestLock
    <3>3. QED
      BY <3>1, <3>2 DEF TypeOK
  <2>4. QED
    BY <1>1, <2>1, <2>2, <2>3 DEF TypeOK, RequestLock
<1>2. CASE ReleaseLock(t)
  <2>1. CASE waiting[s] = <<>>
    <3>1. pc' \in [Turn -> Label]
      BY <1>2, <2>1, GotoType DEF ReleaseLock, Label, Ended
    <3>2. waiting' \in [Session -> Seq(Turn)] /\ holder' \in [Session -> Turn \cup {NoTurn}]
      BY <1>2, <2>1 DEF TypeOK, ReleaseLock
    <3>3. QED
      BY <1>2, <3>1, <3>2 DEF TypeOK, ReleaseLock
  <2>2. CASE waiting[s] # <<>>
    <3>1. Head(waiting[s]) \in Turn /\ Tail(waiting[s]) \in Seq(Turn)
      BY <2>2 DEF TypeOK
    <3>2. pc' = [pc EXCEPT ![t] = "done", ![Head(waiting[s])] = "entering"]
      BY <1>2, <2>2 DEF ReleaseLock
    <3>3. pc' \in [Turn -> Label]
      BY <3>2 DEF TypeOK, Label, Ended, Task, Inside
    <3>4. waiting' \in [Session -> Seq(Turn)] /\ holder' \in [Session -> Turn \cup {NoTurn}]
      BY <1>2, <2>2, <3>1 DEF TypeOK, ReleaseLock
    <3>5. QED
      BY <1>2, <3>3, <3>4 DEF TypeOK, ReleaseLock
  <2>3. QED
    BY <2>1, <2>2
<1>3. QED
  BY <1>1, <1>2

\* The operations of ActiveTurns by a task keep the types.
LEMMA ActiveStepType ==
    ASSUME TypeOK, NEW t \in Turn, SetStarting(t) \/ AttachCancel(t) \/ ClearActive(t)
    PROVE  TypeOK'
<1> DEFINE s == SessionOf[t]
<1> s \in Session
  BY ConstantsAssumption
<1> USE DEF lockVars, agentVars, turnVars, stateVars, seenVars
<1>1. pc' \in [Turn -> Label]
  BY GotoType DEF SetStarting, AttachCancel, ClearActive, Label, Task, Inside
<1>2. CASE SetStarting(t)
  <2>1. [turn |-> t, state |-> "starting", steerable |-> FALSE] \in Entry
    BY DEF Entry
  <2>2. active' \in [Session -> Entry \cup {NoEntry}]
    BY <1>2, <2>1 DEF TypeOK, SetStarting
  <2>3. QED
    BY <1>1, <1>2, <2>2 DEF TypeOK, SetStarting
<1>3. CASE AttachCancel(t)
  <2>1. [turn |-> t, state |-> "running",
         steerable |-> Kind[snap[t].runtime] = "codex"] \in Entry
    BY DEF Entry
  <2>2. active' \in [Session -> Entry \cup {NoEntry}]
    BY <1>3, <2>1 DEF TypeOK, AttachCancel
  <2>3. cancelled' \subseteq Turn
    BY <1>3 DEF TypeOK, AttachCancel
  <2>4. QED
    BY <1>1, <1>3, <2>2, <2>3 DEF TypeOK, AttachCancel
<1>4. CASE ClearActive(t)
  <2>1. active' \in [Session -> Entry \cup {NoEntry}]
    BY <1>4 DEF TypeOK, ClearActive
  <2>2. QED
    BY <1>1, <1>4, <2>1 DEF TypeOK, ClearActive
<1>5. QED
  BY <1>2, <1>3, <1>4

\* The records of run_turn in the registry and the rows keep the types.
LEMMA RecordStepType ==
    ASSUME TypeOK, NEW t \in Turn,
           RecordMemory(t) \/ RecordSession(t) \/ RecordRuntime(t)
    PROVE  TypeOK'
<1> SessionOf[t] \in Session
  BY ConstantsAssumption
<1> Recorded(t) \in State
  BY RecordedType
<1> USE DEF lockVars, agentVars, turnVars, stateVars, seenVars
<1>1. CASE RecordMemory(t)
  <2>1. pc' \in [Turn -> Label]
    BY <1>1, GotoType DEF RecordMemory, Label, Task, Inside
  <2>2. registry' \in [Session -> State]
    BY <1>1 DEF TypeOK, RecordMemory
  <2>3. QED
    BY <1>1, <2>1, <2>2 DEF TypeOK, RecordMemory
<1>2. CASE RecordSession(t)
  <2>1. pc' \in [Turn -> Label]
    BY <1>2, GotoType DEF RecordSession, Label, Task, Inside
  <2>2. sessionRow' \in [Session -> State]
    BY <1>2 DEF TypeOK, RecordSession
  <2>3. QED
    BY <1>2, <2>1, <2>2 DEF TypeOK, RecordSession
<1>3. CASE RecordRuntime(t)
  <2>1. pc' \in [Turn -> Label]
    BY <1>3, GotoType DEF RecordRuntime, Label, Task, Inside
  <2>2. snap[t].runtime \in Runtime => Coalesced(snap[t].runtime, Recorded(t)) \in State
    BY CoalescedType
  <2>3. runtimeRow' \in [Runtime -> State]
    BY <1>3, <2>2 DEF TypeOK, RecordRuntime
  <2>4. QED
    BY <1>3, <2>1, <2>3 DEF TypeOK, RecordRuntime
<1>4. QED
  BY <1>1, <1>2, <1>3

\* The steps that move the row, the final message or the error branch.
LEMMA OutcomeStepType ==
    ASSUME TypeOK, NEW t \in Turn,
           \/ MarkRunning(t) \/ JoinCompletion(t) \/ CompleteTurn(t) \/ PublishFinal(t)
           \/ PublishFailure(t) \/ FailTurn(t) \/ Abort(t)
    PROVE  TypeOK'
<1> USE DEF lockVars, agentVars, turnVars, stateVars, seenVars
<1>1. pc' \in [Turn -> Label]
  BY GotoType DEF MarkRunning, JoinCompletion, CompleteTurn, PublishFinal, PublishFailure,
                  FailTurn, Abort, Label, Task, Inside
<1>2. CASE MarkRunning(t) \/ CompleteTurn(t) \/ FailTurn(t)
  <2>1. row' \in [Turn -> Status]
    BY <1>2 DEF TypeOK, MarkRunning, CompleteTurn, FailTurn, Status
  <2>2. QED
    BY <1>1, <1>2, <2>1 DEF TypeOK, MarkRunning, CompleteTurn, FailTurn
<1>3. CASE PublishFinal(t) \/ PublishFailure(t)
  BY <1>1, <1>3 DEF TypeOK, PublishFinal, PublishFailure
<1>4. CASE JoinCompletion(t)
  <2>1. [render[t] EXCEPT !.last = agent[t].answer] \in State
    <3>1. render[t] \in State /\ agent[t].answer \in Turn \cup {NoTurn}
      BY DEF TypeOK, Agent
    <3>2. QED
      BY <3>1 DEF State
  <2>2. \/ render' = render
        \/ render' = [render EXCEPT ![t] = [render[t] EXCEPT !.last = agent[t].answer]]
    BY <1>4 DEF JoinCompletion
  <2>3. render' \in [Turn -> State]
    BY <2>1, <2>2 DEF TypeOK
  <2>4. QED
    BY <1>1, <1>4, <2>3 DEF TypeOK, JoinCompletion
<1>5. CASE Abort(t)
  BY <1>1, <1>5 DEF TypeOK, Abort
<1>6. QED
  BY <1>2, <1>3, <1>4, <1>5

\* The start of a turn and the steps of its agent keep the types.
LEMMA AgentStepType ==
    ASSUME TypeOK, NEW t \in Turn, Start(t) \/ Work(t)
    PROVE  TypeOK'
<1> USE DEF lockVars, agentVars, turnVars, stateVars, seenVars
<1>1. SessionFor(t) \in Ref /\ agent[t] \in Agent /\ render[t] \in State
  BY DEF TypeOK, Copy, SessionFor, Ref
<1>2. CASE StartReturns(t)
  <2> DEFINE opened == Kind[snap[t].runtime] = "codex"
             ref == IF opened THEN SessionFor(t) ELSE snap[t].ref
             mine == IF opened THEN ref ELSE NoRef
             shown == IF ref # NoRef THEN ref ELSE snap[t].sessionRef
  <2>1. mine \in Ref \cup {NoRef} /\ shown \in Ref \cup {NoRef}
    BY <1>1 DEF TypeOK, Copy
  <2>2. /\ agent' = [agent EXCEPT ![t].phase = "busy", ![t].ref = mine]
        /\ render' = [render EXCEPT ![t].ref = shown]
    BY <1>2 DEF StartReturns
  <2>3. agent' \in [Turn -> Agent]
    BY <1>1, <2>1, <2>2, Zenon DEF TypeOK, Agent, Phase
  <2>4. render' \in [Turn -> State]
    BY <1>1, <2>1, <2>2, Zenon DEF TypeOK, State
  <2>5. pc' \in [Turn -> Label]
    BY <1>2, GotoType DEF StartReturns, Label, Task, Inside
  <2>6. QED
    BY <1>2, <2>3, <2>4, <2>5 DEF TypeOK, StartReturns
<1>3. CASE StartFails(t)
  <2>1. agent' \in [Turn -> Agent]
    BY <1>1, <1>3, Zenon DEF TypeOK, StartFails, Agent, Phase
  <2>2. pc' \in [Turn -> Label]
    BY <1>3, GotoType DEF StartFails, Label, Task, Inside
  <2>3. QED
    BY <1>3, <2>1, <2>2 DEF TypeOK, StartFails
<1>4. CASE SessionReady(t)
  <2>1. agent' \in [Turn -> Agent]
    BY <1>1, <1>4, Zenon DEF TypeOK, SessionReady, Agent
  <2>2. render' \in [Turn -> State]
    BY <1>1, <1>4, Zenon DEF TypeOK, SessionReady, State
  <2>3. QED
    BY <1>4, <2>1, <2>2 DEF TypeOK, SessionReady
<1>5. CASE AgentFinishes(t)
  <2>1. PICK answer \in {t, NoTurn} :
           agent' = [agent EXCEPT ![t].phase = "ok", ![t].answer = answer]
    BY <1>5 DEF AgentFinishes
  <2>2. answer \in Turn \cup {NoTurn}
    OBVIOUS
  <2>3. agent' \in [Turn -> Agent]
    BY <1>1, <2>1, <2>2, Zenon DEF TypeOK, Agent, Phase
  <2>4. QED
    BY <1>5, <2>3 DEF TypeOK, AgentFinishes
<1>6. CASE AgentFails(t)
  <2>1. agent' \in [Turn -> Agent]
    BY <1>1, <1>6, Zenon DEF TypeOK, AgentFails, Agent, Phase
  <2>2. QED
    BY <1>6, <2>1 DEF TypeOK, AgentFails
<1>7. CASE WorkerGivesUp(t)
  <2>1. PICK phase \in {"ok", "err"}, answer \in {t, agent[t].answer, NoTurn} :
           agent' = [agent EXCEPT ![t].phase = phase, ![t].answer = answer]
    <3>1. CASE Kind[snap[t].runtime] # "codex"
      <4>1. agent' = [agent EXCEPT ![t].phase = "err"]
        BY <1>7, <3>1 DEF WorkerGivesUp
      <4>2. agent' = [agent EXCEPT ![t].phase = "err", ![t].answer = agent[t].answer]
        BY <4>1, <1>1 DEF TypeOK, Agent
      <4>3. QED
        BY <4>2
    <3>2. CASE Kind[snap[t].runtime] = "codex"
      BY <1>7, <3>2 DEF WorkerGivesUp
    <3>3. QED
      BY <3>1, <3>2
  <2>2. answer \in Turn \cup {NoTurn} /\ phase \in Phase
    BY <1>1 DEF Agent, Phase
  <2>3. agent' \in [Turn -> Agent]
    BY <1>1, <2>1, <2>2, Zenon DEF TypeOK, Agent
  <2>4. QED
    BY <1>7, <2>3 DEF TypeOK, WorkerGivesUp
<1>8. QED
  BY <1>2, <1>3, <1>4, <1>5, <1>6, <1>7 DEF Start, Work, AgentInterrupted

\* Control messages (stop, activate, clear) keep the types.
LEMMA ControlType == TypeOK /\ Control => TypeOK'
<1> SUFFICES ASSUME TypeOK, NEW s \in Session,
                    \/ RequestStop(s)
                    \/ ClearSelection(s)
                    \/ \E r \in Runtime : ActivateRuntime(s, r)
             PROVE  TypeOK'
  BY DEF Control
<1> USE DEF lockVars, agentVars, turnVars, stateVars, seenVars
<1>1. CASE RequestStop(s)
  <2>1. active[s] \in Entry
    BY <1>1 DEF TypeOK, RequestStop
  <2>2. active[s].turn \in Turn
    BY <2>1 DEF Entry
  <2>3. [active[s] EXCEPT !.state = "stopping"] \in Entry
    BY <2>1, Zenon DEF Entry
  <2>4. \/ active' = active
        \/ active' = [active EXCEPT ![s] = [active[s] EXCEPT !.state = "stopping"]]
    BY <1>1 DEF RequestStop
  <2>5. active' \in [Session -> Entry \cup {NoEntry}]
    BY <2>3, <2>4 DEF TypeOK
  <2>6. cancelled' \subseteq Turn /\ stopped' \subseteq Turn
    BY <1>1, <2>2 DEF TypeOK, RequestStop
  <2>7. QED
    BY <1>1, <2>5, <2>6 DEF TypeOK, RequestStop
<1>2. CASE ClearSelection(s)
  <2>1. selected' \in [Session -> Runtime \cup {NoRuntime}]
    BY <1>2 DEF TypeOK, ClearSelection
  <2>2. QED
    BY <1>2, <2>1 DEF TypeOK, ClearSelection
<1>3. ASSUME NEW r \in Runtime, ActivateRuntime(s, r) PROVE TypeOK'
  <2>1. selected' \in [Session -> Runtime \cup {NoRuntime}]
    BY <1>3 DEF TypeOK, ActivateRuntime
  <2>2. registry' \in [Session -> State] /\ sessionRow' \in [Session -> State]
    BY <1>3 DEF TypeOK, ActivateRuntime
  <2>3. QED
    BY <1>3, <2>1, <2>2 DEF TypeOK, ActivateRuntime
<1>4. QED
  BY <1>1, <1>2, <1>3

\* A crash of the core keeps the types.
LEMMA CrashType == TypeOK /\ Crash => TypeOK'
<1> SUFFICES ASSUME TypeOK, Crash PROVE TypeOK'
  OBVIOUS
<1>1. pc' \in [Turn -> Label]
  BY DEF TypeOK, Crash, Label, Ended
<1>2. agent' \in [Turn -> Agent]
  <2>1. ASSUME NEW t \in Turn PROVE [agent[t] EXCEPT !.phase = "gone"] \in Agent
    <3>1. agent[t] \in Agent
      BY DEF TypeOK
    <3>2. QED
      BY <3>1, Zenon DEF Agent, Phase
  <2>2. QED
    BY <2>1 DEF TypeOK, Crash
<1>3. waiting' \in [Session -> Seq(Turn)] /\ holder' \in [Session -> Turn \cup {NoTurn}]
  BY DEF Crash
<1>4. active' \in [Session -> Entry \cup {NoEntry}] /\ crashes' \in 0 .. MaxCrashes
  BY ConstantsAssumption DEF TypeOK, Crash
<1>5. QED
  BY <1>1, <1>2, <1>3, <1>4 DEF TypeOK, Crash

\* Every variable keeps its type: TypeOK is inductive by itself.
THEOREM TypeCorrect == Spec => []TypeOK
<1>1. TypeOK /\ [Next]_vars => TypeOK'
  <2> SUFFICES ASSUME TypeOK, [Next]_vars PROVE TypeOK'
    OBVIOUS
  <2>1. ASSUME NEW t \in Turn, Step(t) PROVE TypeOK'
    BY <2>1, LockStepType, ActiveStepType, RecordStepType, OutcomeStepType DEF Step
  <2>2. ASSUME NEW t \in Turn, Handle(t) \/ Start(t) \/ Work(t) \/ Abort(t) PROVE TypeOK'
    BY <2>2, HandleType, AgentStepType, OutcomeStepType
  <2>3. CASE Control \/ Crash
    BY <2>3, ControlType, CrashType
  <2>4. CASE Strays
    BY <2>4 DEF TypeOK, Strays, StrayEnds, lockVars, turnVars, stateVars, seenVars
  <2>5. CASE UNCHANGED vars
    BY <2>5 DEF TypeOK, vars
  <2>6. QED
    BY <2>1, <2>2, <2>3, <2>4, <2>5 DEF Next
<1>2. QED
  BY InitType, <1>1, PTL DEF Spec

-----------------------------------------------------------------------------
(* The lock                                                                *)

\* Waiters wait, each once, on the lock of their own session; whoever is inside
\* holds the lock of its session; whoever holds a lock is inside.
Queued ==
    \A s \in Session :
        /\ \A i \in 1 .. Len(waiting[s]) : /\ SessionOf[waiting[s][i]] = s
                                           /\ pc[waiting[s][i]] = "waiting"
        /\ \A i, j \in 1 .. Len(waiting[s]) : waiting[s][i] = waiting[s][j] => i = j

Held ==
    /\ \A t \in Turn : pc[t] \in Inside => holder[SessionOf[t]] = t
    /\ \A s \in Session : holder[s] # NoTurn => /\ SessionOf[holder[s]] = s
                                                /\ pc[holder[s]] \in Inside
    /\ \A s \in Session : waiting[s] # <<>> => holder[s] # NoTurn

LockOwner == Queued /\ Held

LockInv == TypeOK /\ LockOwner

\* Whoever queues on a lock is a turn.
LEMMA WaitersAreTurns ==
    ASSUME NEW queues \in [Session -> Seq(Turn)], NEW s \in Session
    PROVE  \A i \in 1 .. Len(queues[s]) : queues[s][i] \in Turn
<1>1. queues[s] \in Seq(Turn)
  OBVIOUS
<1>2. QED
  BY <1>1

\* A step that keeps the queue and the holder, and moves no task across the
\* edge of the critical section, keeps the invariant.
LEMMA LockKept ==
    ASSUME LockInv, UNCHANGED lockVars,
           \A t \in Turn : /\ pc'[t] \in Inside <=> pc[t] \in Inside
                           /\ pc[t] = "waiting" => pc'[t] = "waiting"
    PROVE  LockOwner'
<1>1. waiting' = waiting /\ holder' = holder
  BY DEF lockVars
<1>2. \A s \in Session : holder[s] \in Turn \cup {NoTurn}
  BY DEF LockInv, TypeOK
<1>3. waiting \in [Session -> Seq(Turn)]
  BY DEF LockInv, TypeOK
<1>4. Queued'
  <2> SUFFICES ASSUME NEW s \in Session
               PROVE  /\ \A i \in 1 .. Len(waiting[s]) : /\ SessionOf[waiting[s][i]] = s
                                                         /\ pc'[waiting[s][i]] = "waiting"
                      /\ \A i, j \in 1 .. Len(waiting[s]) :
                            waiting[s][i] = waiting[s][j] => i = j
    BY <1>1 DEF Queued
  <2>1. \A i \in 1 .. Len(waiting[s]) : waiting[s][i] \in Turn
    BY <1>3, WaitersAreTurns
  <2>2. QED
    BY <2>1 DEF LockInv, LockOwner, Queued
<1>5. Held'
  BY <1>1, <1>2 DEF LockInv, LockOwner, Held
<1>6. QED
  BY <1>4, <1>5 DEF LockOwner

\* Where one task moves, only its two labels have to be compared.
LEMMA LockKeptByGoto ==
    ASSUME LockInv, UNCHANGED lockVars, NEW t \in Turn, NEW l \in Label, Goto(t, l),
           l \in Inside <=> pc[t] \in Inside, pc[t] # "waiting"
    PROVE  LockOwner'
<1>1. pc \in [Turn -> Label] /\ pc' = [pc EXCEPT ![t] = l]
  BY DEF LockInv, TypeOK, Goto
<1>2. \A u \in Turn : /\ pc'[u] \in Inside <=> pc[u] \in Inside
                      /\ pc[u] = "waiting" => pc'[u] = "waiting"
  BY <1>1
<1>3. QED
  BY <1>2, LockKept

\* The message handler leaves the locks alone.
LEMMA LockByHandler ==
    ASSUME LockInv, NEW t \in Turn, Handle(t)
    PROVE  LockOwner'
<1>1. UNCHANGED lockVars
  BY DEF Handle, Receive, SteerFallsBack, SteerAccepted, SteerRefused, Accept, CopySession,
     CopySelection, CopyRuntime,
         CreateTurn, CreateFails
<1>2. pc[t] \in {"idle"} \cup Handler
  BY DEF Handle, Receive, SteerFallsBack, SteerAccepted, SteerRefused, Accept, CopySession,
     CopySelection, CopyRuntime,
         CreateTurn, CreateFails, At, Handler
<1>3. \E l \in Handler \cup {"spawned"} \cup Ended : Goto(t, l)
  BY DEF Handle, Receive, SteerFallsBack, SteerAccepted, SteerRefused, Accept, CopySession,
     CopySelection, CopyRuntime,
         CreateTurn, CreateFails, Handler, Ended
<1>4. PICK l \in Handler \cup {"spawned"} \cup Ended : Goto(t, l)
  BY <1>3
<1>5. l \in Label /\ l \notin Inside /\ pc[t] \notin Inside /\ pc[t] # "waiting"
  BY <1>2 DEF Label, Handler, Task, Ended, Inside
<1>6. QED
  BY <1>1, <1>4, <1>5, LockKeptByGoto

\* The steps of run_turn between the two ends of the critical section.
LEMMA LockInside ==
    ASSUME LockInv, NEW t \in Turn,
           \/ SetStarting(t) \/ MarkRunning(t) \/ RecordMemory(t) \/ RecordSession(t)
           \/ RecordRuntime(t) \/ AttachCancel(t) \/ JoinCompletion(t) \/ CompleteTurn(t)
           \/ PublishFinal(t) \/ PublishFailure(t) \/ FailTurn(t) \/ ClearActive(t)
           \/ Start(t) \/ Abort(t)
    PROVE  LockOwner'
<1> USE DEF SetStarting, MarkRunning, RecordMemory, RecordSession, RecordRuntime,
            AttachCancel, JoinCompletion, CompleteTurn, PublishFinal, PublishFailure,
            FailTurn, ClearActive, Start, StartReturns, StartFails, Abort
<1>1. UNCHANGED lockVars
  OBVIOUS
<1>2. pc[t] \in Inside /\ pc[t] # "waiting"
  BY DEF At, Inside
<1>3. \E l \in Inside : Goto(t, l)
  BY DEF Inside
<1>4. PICK l \in Inside : Goto(t, l)
  BY <1>3
<1>5. l \in Label
  BY DEF Label, Task
<1>6. QED
  BY <1>1, <1>2, <1>4, <1>5, LockKeptByGoto

\* Asking for the lock keeps LockInv, whether it is free or not.
LEMMA LockRequested ==
    ASSUME LockInv, NEW t \in Turn, RequestLock(t)
    PROVE  LockOwner'
<1> DEFINE s == SessionOf[t]
<1> s \in Session
  BY ConstantsAssumption
<1>1. /\ pc \in [Turn -> Label] /\ waiting \in [Session -> Seq(Turn)]
      /\ holder \in [Session -> Turn \cup {NoTurn}] /\ NoTurn \notin Turn
      /\ pc[t] = "spawned" /\ "spawned" \notin Inside /\ "waiting" \notin Inside
      /\ "entering" \in Inside
  BY ConstantsAssumption DEF LockInv, TypeOK, RequestLock, At, Inside
<1>2. CASE holder[s] = NoTurn
  <2>1. /\ holder' = [holder EXCEPT ![s] = t] /\ waiting' = waiting
        /\ pc' = [pc EXCEPT ![t] = "entering"]
    BY <1>2 DEF RequestLock, Goto
  <2>2. \A r \in Session : \A i \in 1 .. Len(waiting[r]) : waiting[r][i] \in Turn
    BY <1>1, WaitersAreTurns
  <2>3. Queued'
    BY <1>1, <2>1, <2>2 DEF LockInv, LockOwner, Queued
  <2>4. Held'
    BY <1>1, <1>2, <2>1 DEF LockInv, LockOwner, Held
  <2>5. QED
    BY <2>3, <2>4 DEF LockOwner
<1>3. CASE holder[s] # NoTurn
  <2>1. /\ holder' = holder /\ waiting' = [waiting EXCEPT ![s] = Append(waiting[s], t)]
        /\ pc' = [pc EXCEPT ![t] = "waiting"]
    BY <1>3 DEF RequestLock, Goto
  <2>2. Queued'
    <3> SUFFICES ASSUME NEW r \in Session
                 PROVE  /\ \A i \in 1 .. Len(waiting'[r]) : /\ SessionOf[waiting'[r][i]] = r
                                                            /\ pc'[waiting'[r][i]] = "waiting"
                        /\ \A i, j \in 1 .. Len(waiting'[r]) :
                              waiting'[r][i] = waiting'[r][j] => i = j
      BY DEF Queued
    <3>1. /\ \A i \in 1 .. Len(waiting[r]) : /\ waiting[r][i] \in Turn
                                             /\ SessionOf[waiting[r][i]] = r
                                             /\ pc[waiting[r][i]] = "waiting"
          /\ \A i, j \in 1 .. Len(waiting[r]) : waiting[r][i] = waiting[r][j] => i = j
      BY <1>1, WaitersAreTurns DEF LockInv, LockOwner, Queued
    <3>2. \A i \in 1 .. Len(waiting[r]) : waiting[r][i] # t /\ pc'[waiting[r][i]] = "waiting"
      BY <1>1, <2>1, <3>1
    <3>3. CASE r = s
      <4>1. waiting'[r] = Append(waiting[s], t) /\ waiting[s] \in Seq(Turn)
        BY <1>1, <2>1, <3>3
      <4>2. pc'[t] = "waiting"
        BY <1>1, <2>1
      <4>3. QED
        BY <3>1, <3>2, <3>3, <4>1, <4>2
    <3>4. CASE r # s
      BY <1>1, <2>1, <3>1, <3>2, <3>4
    <3>5. QED
      BY <3>3, <3>4
  <2>3. \A u \in Turn : pc'[u] \in Inside => holder'[SessionOf[u]] = u
    BY <1>1, <2>1 DEF LockInv, LockOwner, Held
  <2>4. \A r \in Session : holder'[r] # NoTurn => /\ SessionOf[holder'[r]] = r
                                                  /\ pc'[holder'[r]] \in Inside
    BY <1>1, <2>1 DEF LockInv, LockOwner, Held
  <2>5. \A r \in Session : waiting'[r] # <<>> => holder'[r] # NoTurn
    BY <1>1, <1>3, <2>1 DEF LockInv, LockOwner, Held
  <2>6. QED
    BY <2>2, <2>3, <2>4, <2>5 DEF LockOwner, Held
<1>4. QED
  BY <1>2, <1>3

\* Handing the lock to its first waiter, or to nobody, keeps LockInv.
LEMMA LockReleased ==
    ASSUME LockInv, NEW t \in Turn, ReleaseLock(t)
    PROVE  LockOwner'
<1> DEFINE s == SessionOf[t]
<1> s \in Session
  BY ConstantsAssumption
<1>1. /\ pc \in [Turn -> Label] /\ waiting \in [Session -> Seq(Turn)]
      /\ holder \in [Session -> Turn \cup {NoTurn}] /\ NoTurn \notin Turn
      /\ SessionOf \in [Turn -> Session]
      /\ pc[t] \in Inside /\ "done" \notin Inside /\ "entering" \in Inside
  BY ConstantsAssumption DEF LockInv, TypeOK, ReleaseLock, At, Inside
<1>2. holder[s] = t
  BY <1>1 DEF LockInv, LockOwner, Held
<1>3. CASE waiting[s] = <<>>
  <2>1. /\ holder' = [holder EXCEPT ![s] = NoTurn] /\ waiting' = waiting
        /\ pc' = [pc EXCEPT ![t] = "done"]
    BY <1>3 DEF ReleaseLock, Goto
  <2>2. \A r \in Session : \A i \in 1 .. Len(waiting[r]) : waiting[r][i] \in Turn
    BY <1>1, WaitersAreTurns
  <2>3. Queued'
    BY <1>1, <2>1, <2>2 DEF LockInv, LockOwner, Queued, Inside
  <2>4. Held'
    BY <1>1, <1>2, <1>3, <2>1 DEF LockInv, LockOwner, Held
  <2>5. QED
    BY <2>3, <2>4 DEF LockOwner
<1>4. CASE waiting[s] # <<>>
  <2> DEFINE next == Head(waiting[s])
  <2>1. /\ holder' = [holder EXCEPT ![s] = next]
        /\ waiting' = [waiting EXCEPT ![s] = Tail(waiting[s])]
        /\ pc' = [pc EXCEPT ![t] = "done", ![next] = "entering"]
    BY <1>4 DEF ReleaseLock
  <2>2. /\ next \in Turn /\ next = waiting[s][1] /\ 1 \in 1 .. Len(waiting[s])
        /\ \A i \in 1 .. Len(Tail(waiting[s])) : /\ i + 1 \in 1 .. Len(waiting[s])
                                                 /\ Tail(waiting[s])[i] = waiting[s][i + 1]
        /\ Tail(waiting[s]) \in Seq(Turn)
    <3>1. waiting[s] \in Seq(Turn) /\ waiting[s] # <<>>
      BY <1>1, <1>4
    <3>2. Len(waiting[s]) \in Nat /\ Len(waiting[s]) >= 1
      BY <3>1
    <3>3. Head(waiting[s]) = waiting[s][1]
      BY <3>1
    <3>4. /\ Head(waiting[s]) \in Turn
          /\ Tail(waiting[s]) \in Seq(Turn)
          /\ Len(Tail(waiting[s])) = Len(waiting[s]) - 1
          /\ \A i \in 1 .. Len(Tail(waiting[s])) : Tail(waiting[s])[i] = waiting[s][i + 1]
      BY <3>1, HeadTailProperties
    <3>5. QED
      BY <3>2, <3>3, <3>4
  <2>3. SessionOf[next] = s
    BY <2>2 DEF LockInv, LockOwner, Queued
  <2> HIDE DEF next
  <2>5. \A u \in Turn : pc'[u] = IF u = next THEN "entering" ELSE IF u = t THEN "done" ELSE pc[u]
    BY <1>1, <2>1, <2>2
  <2>6. \A r \in Session : holder'[r] = IF r = s THEN next ELSE holder[r]
    BY <1>1, <2>1
  <2>4. Queued'
    <3> SUFFICES ASSUME NEW r \in Session
                 PROVE  /\ \A i \in 1 .. Len(waiting'[r]) : /\ SessionOf[waiting'[r][i]] = r
                                                            /\ pc'[waiting'[r][i]] = "waiting"
                        /\ \A i, j \in 1 .. Len(waiting'[r]) :
                              waiting'[r][i] = waiting'[r][j] => i = j
      BY DEF Queued
    <3>1. /\ \A i \in 1 .. Len(waiting[r]) : /\ waiting[r][i] \in Turn
                                             /\ waiting[r][i] # t
                                             /\ SessionOf[waiting[r][i]] = r
                                             /\ pc[waiting[r][i]] = "waiting"
          /\ \A i, j \in 1 .. Len(waiting[r]) : waiting[r][i] = waiting[r][j] => i = j
      BY <1>1, WaitersAreTurns DEF LockInv, LockOwner, Queued, Inside
    <3>2. CASE r = s
      <4>1. waiting'[r] = Tail(waiting[s])
        BY <1>1, <2>1, <3>2
      <4>2. \A i \in 1 .. Len(waiting'[r]) : /\ i + 1 \in 1 .. Len(waiting[r])
                                             /\ waiting'[r][i] = waiting[r][i + 1]
                                             /\ waiting[r][i + 1] # next
        <5> SUFFICES ASSUME NEW i \in 1 .. Len(Tail(waiting[s]))
                     PROVE  /\ i + 1 \in 1 .. Len(waiting[s])
                            /\ Tail(waiting[s])[i] = waiting[s][i + 1]
                            /\ waiting[s][i + 1] # next
          BY <3>2, <4>1
        <5>1. /\ i + 1 \in 1 .. Len(waiting[s]) /\ i + 1 # 1
              /\ Tail(waiting[s])[i] = waiting[s][i + 1]
          BY <2>2
        <5>2. QED
          BY <2>2, <3>1, <3>2, <5>1
      <4>3. \A i, j \in 1 .. Len(waiting'[r]) : waiting'[r][i] = waiting'[r][j] => i = j
        <5> SUFFICES ASSUME NEW i \in 1 .. Len(waiting'[r]), NEW j \in 1 .. Len(waiting'[r]),
                            waiting'[r][i] = waiting'[r][j]
                     PROVE  i = j
          OBVIOUS
        <5>1. i + 1 = j + 1
          BY <3>1, <4>2
        <5>2. QED
          BY <5>1
      <4>4. ASSUME NEW i \in 1 .. Len(waiting'[r])
            PROVE  SessionOf[waiting'[r][i]] = r /\ pc'[waiting'[r][i]] = "waiting"
        <5>1. /\ i + 1 \in 1 .. Len(waiting[r])
              /\ waiting'[r][i] = waiting[r][i + 1]
              /\ waiting[r][i + 1] # next
          BY <4>2
        <5>2. QED
          BY <2>5, <3>1, <5>1
      <4>5. QED
        BY <4>3, <4>4
    <3>3. CASE r # s
      <4>1. waiting'[r] = waiting[r]
        BY <1>1, <2>1, <3>3
      <4>2. \A i \in 1 .. Len(waiting[r]) : waiting[r][i] # next
        BY <2>3, <3>1, <3>3
      <4>3. QED
        BY <2>5, <3>1, <4>1, <4>2
    <3>4. QED
      BY <3>2, <3>3
  <2>7. \A u \in Turn : pc'[u] \in Inside => holder'[SessionOf[u]] = u
    <3> SUFFICES ASSUME NEW u \in Turn, pc'[u] \in Inside PROVE holder'[SessionOf[u]] = u
      OBVIOUS
    <3>1. CASE u = next
      BY <2>3, <2>6, <3>1
    <3>2. CASE u # next
      <4>1. u # t /\ pc[u] \in Inside
        BY <1>1, <2>5, <3>2
      <4>2. SessionOf[u] \in Session /\ holder[SessionOf[u]] = u
        BY <1>1, <4>1 DEF LockInv, LockOwner, Held
      <4>3. SessionOf[u] # s
        BY <1>2, <4>1, <4>2
      <4>4. QED
        BY <2>6, <4>2, <4>3
    <3>3. QED
      BY <3>1, <3>2
  <2>8. \A r \in Session : holder'[r] # NoTurn => /\ SessionOf[holder'[r]] = r
                                                  /\ pc'[holder'[r]] \in Inside
    <3> SUFFICES ASSUME NEW r \in Session, holder'[r] # NoTurn
                 PROVE  /\ SessionOf[holder'[r]] = r
                        /\ pc'[holder'[r]] \in Inside
      OBVIOUS
    <3>1. CASE r = s
      BY <1>1, <2>2, <2>3, <2>5, <2>6, <3>1
    <3>2. CASE r # s
      <4>1. holder'[r] = holder[r] /\ holder[r] \in Turn
        BY <1>1, <2>6, <3>2
      <4>2. SessionOf[holder[r]] = r /\ pc[holder[r]] \in Inside
        BY <4>1, <1>1 DEF LockInv, LockOwner, Held
      <4>3. holder[r] # t
        BY <3>2, <4>2
      <4>4. QED
        BY <1>1, <2>5, <4>1, <4>2, <4>3
    <3>3. QED
      BY <3>1, <3>2
  <2>9. \A r \in Session : waiting'[r] # <<>> => holder'[r] # NoTurn
    BY <1>1, <2>1, <2>2, <2>6 DEF LockInv, LockOwner, Held
  <2>10. QED
    BY <2>4, <2>7, <2>8, <2>9 DEF LockOwner, Held
<1>5. QED
  BY <1>3, <1>4

\* After a crash no lock is held and nobody waits.
LEMMA LockFreedByCrash ==
    ASSUME LockInv, Crash
    PROVE  LockOwner'
<1>1. \A s \in Session : waiting'[s] = <<>> /\ holder'[s] = NoTurn
  BY DEF Crash
<1>2. \A t \in Turn : pc'[t] \notin Inside
  BY DEF LockInv, TypeOK, Crash, Task, Inside
<1>3. QED
  BY <1>1, <1>2 DEF LockOwner, Queued, Held

\* Every step of the service keeps the queue and the holder of every lock.
LEMMA LockStep == LockInv /\ [Next]_vars => LockOwner'
<1> SUFFICES ASSUME LockInv, [Next]_vars PROVE LockOwner'
  OBVIOUS
<1>1. ASSUME NEW t \in Turn, Handle(t) \/ Step(t) \/ Start(t) \/ Abort(t) PROVE LockOwner'
  BY <1>1, LockByHandler, LockInside, LockRequested, LockReleased DEF Step
<1>2. ASSUME UNCHANGED <<pc, lockVars>> PROVE LockOwner'
  BY <1>2, LockKept
<1>3. ASSUME NEW t \in Turn, Work(t) PROVE LockOwner'
  BY <1>2, <1>3 DEF Work, SessionReady, AgentFinishes, AgentFails, WorkerGivesUp,
     AgentInterrupted
<1>4. CASE Control \/ Strays
  BY <1>2, <1>4 DEF Control, RequestStop, ClearSelection, ActivateRuntime, Strays, StrayEnds
<1>5. CASE Crash
  BY <1>5, LockFreedByCrash
<1>6. CASE UNCHANGED vars
  BY <1>2, <1>6 DEF vars, lockVars
<1>7. QED
  BY <1>1, <1>3, <1>4, <1>5, <1>6 DEF Next

\* The inductive invariant of the session locks.
THEOREM LockCorrect == Spec => []LockInv
<1>1. Init => LockInv
  <2> SUFFICES ASSUME Init PROVE LockInv
    OBVIOUS
  <2>1. TypeOK
    BY InitType
  <2>2. LockOwner
    BY DEF Init, LockOwner, Queued, Held, Inside
  <2>3. QED
    BY <2>1, <2>2 DEF LockInv
<1>2. LockInv /\ TypeOK' /\ [Next]_vars => LockInv'
  BY LockStep DEF LockInv
<1>3. QED
  BY <1>1, <1>2, TypeCorrect, PTL DEF Spec

\* Two turns of one session never run at the same time, however the messages,
\* the stops, the faults and the crashes fall.
THEOREM OneTurnPerSession == Spec => []MutualExclusion
<1>1. LockInv => MutualExclusion
  BY DEF LockInv, LockOwner, Held, MutualExclusion
<1>2. QED
  BY <1>1, LockCorrect, PTL

\* No turn is queued on a lock that nobody is going to release.
THEOREM NobodyWaitsForNobody == Spec => []WaitersHaveAHolder
<1>1. LockInv => WaitersHaveAHolder
  BY DEF LockInv, TypeOK, LockOwner, Held, WaitersHaveAHolder
<1>2. QED
  BY <1>1, LockCorrect, PTL

-----------------------------------------------------------------------------
(* The active turn                                                         *)

\* The task that is handed the lock was waiting for it.
LEMMA NextWaits ==
    ASSUME LockInv, NEW s \in Session, waiting[s] # <<>>
    PROVE  Head(waiting[s]) \in Turn /\ pc[Head(waiting[s])] = "waiting"
<1>1. waiting[s] \in Seq(Turn)
  BY DEF LockInv, TypeOK
<1>2. Head(waiting[s]) = waiting[s][1] /\ 1 \in 1 .. Len(waiting[s])
  BY <1>1
<1>3. QED
  BY <1>1, <1>2 DEF LockInv, LockOwner, Queued

\* Labels under which the entry of ActiveTurns exists.
Registered == Inside \ {"entering", "releasing"}

\* Every registered task has its entry, and every entry its registered task.
EntryInv ==
    /\ \A t \in Turn : pc[t] \in Registered => active[SessionOf[t]].turn = t
    /\ \A s \in Session : active[s] # NoEntry => /\ active[s].turn = holder[s]
                                                 /\ pc[holder[s]] \in Registered

\* What the types say of the variables these proofs use most.
LEMMA Types ==
    ASSUME LockInv
    PROVE  /\ pc \in [Turn -> Label]
           /\ holder \in [Session -> Turn \cup {NoTurn}]
           /\ active \in [Session -> Entry \cup {NoEntry}]
           /\ \A s \in Session : active[s].turn \in Turn \cup {NoTurn}
           /\ \A s \in Session : active[s] # NoEntry <=> active[s].turn \in Turn
           /\ \A t \in Turn : SessionOf[t] \in Session
           /\ NoTurn \notin Turn
<1>1. active \in [Session -> Entry \cup {NoEntry}]
  BY DEF LockInv, TypeOK
<1>2. \A e \in Entry : e.turn \in Turn
  BY DEF Entry
<1>3. NoEntry.turn = NoTurn
  BY DEF NoEntry
<1>4. QED
  BY <1>1, <1>2, <1>3, ConstantsAssumption DEF LockInv, TypeOK

\* A task inside is alone in its session.
LEMMA Alone ==
    ASSUME LockInv, NEW t \in Turn, NEW u \in Turn, pc[t] \in Inside, pc[u] \in Inside,
           SessionOf[t] = SessionOf[u]
    PROVE  t = u
BY DEF LockInv, LockOwner, Held

\* Whoever holds the lock of another session is not this task.
LEMMA Elsewhere ==
    ASSUME LockInv, NEW s \in Session, holder[s] # NoTurn, NEW t \in Turn, SessionOf[t] # s
    PROVE  holder[s] # t
BY DEF LockInv, LockOwner, Held

\* A step that keeps holders, entries up to their state, and registration.
LEMMA EntryKept ==
    ASSUME LockInv, EntryInv, UNCHANGED holder,
           \A s \in Session : /\ active'[s].turn = active[s].turn
                              /\ active'[s] # NoEntry => active[s] # NoEntry,
           \A t \in Turn : pc'[t] \in Registered <=> pc[t] \in Registered
    PROVE  EntryInv'
<1>1. \A t \in Turn : pc'[t] \in Registered => active'[SessionOf[t]].turn = t
  BY Types DEF EntryInv
<1>2. \A s \in Session : active'[s] # NoEntry => /\ active'[s].turn = holder'[s]
                                                 /\ pc'[holder'[s]] \in Registered
  BY Types DEF EntryInv
<1>3. QED
  BY <1>1, <1>2 DEF EntryInv

\* A task that moves on between its set_starting and its clear keeps EntryInv.
LEMMA EntryKeptByGoto ==
    ASSUME LockInv, EntryInv, UNCHANGED <<holder, active>>, NEW t \in Turn, NEW l \in Label,
           Goto(t, l), l \in Registered <=> pc[t] \in Registered
    PROVE  EntryInv'
<1>1. \A u \in Turn : pc'[u] \in Registered <=> pc[u] \in Registered
  BY Types DEF Goto
<1>2. QED
  BY <1>1, EntryKept

\* The message handler keeps EntryInv.
LEMMA EntryByHandler ==
    ASSUME LockInv, EntryInv, NEW t \in Turn, Handle(t)
    PROVE  EntryInv'
<1> USE DEF Handle, Receive, SteerFallsBack, SteerAccepted, SteerRefused, Accept,
            CopySession, CopySelection, CopyRuntime,
            CreateTurn, CreateFails
<1>1. UNCHANGED <<holder, active>>
  BY DEF lockVars
<1>2. pc[t] \in {"idle"} \cup Handler
  BY DEF At, Handler
<1>3. PICK l \in Handler \cup {"spawned"} \cup Ended : Goto(t, l)
  BY DEF Handler, Ended
<1>4. l \in Label /\ l \notin Registered /\ pc[t] \notin Registered
  BY <1>2 DEF Label, Handler, Task, Ended, Inside, Registered
<1>5. QED
  BY <1>1, <1>3, <1>4, EntryKeptByGoto

\* The steps of run_turn between set_starting and clear.
LEMMA EntryInside ==
    ASSUME LockInv, EntryInv, NEW t \in Turn,
           \/ MarkRunning(t) \/ RecordMemory(t) \/ RecordSession(t) \/ RecordRuntime(t)
           \/ JoinCompletion(t) \/ CompleteTurn(t) \/ PublishFinal(t) \/ PublishFailure(t)
           \/ FailTurn(t) \/ Start(t) \/ Abort(t)
    PROVE  EntryInv'
<1> USE DEF MarkRunning, RecordMemory, RecordSession, RecordRuntime, JoinCompletion,
            CompleteTurn, PublishFinal, PublishFailure, FailTurn, Start, StartReturns,
            StartFails, Abort
<1>1. UNCHANGED <<holder, active>>
  BY DEF lockVars
<1>2. pc[t] \in Registered
  BY DEF At, Inside, Registered
<1>3. PICK l \in Registered : Goto(t, l)
  BY DEF Inside, Registered
<1>4. l \in Label
  BY DEF Label, Task, Registered
<1>5. QED
  BY <1>1, <1>2, <1>3, <1>4, EntryKeptByGoto

\* set_starting keeps EntryInv: the task has just got the lock.
LEMMA EntrySet ==
    ASSUME LockInv, EntryInv, NEW t \in Turn, SetStarting(t)
    PROVE  EntryInv'
<1> DEFINE s == SessionOf[t]
           e == [turn |-> t, state |-> "starting", steerable |-> FALSE]
<1>1. /\ s \in Session /\ holder' = holder /\ pc[t] = "entering" /\ pc[t] \in Inside
      /\ pc' = [pc EXCEPT ![t] = "marking"] /\ active' = [active EXCEPT ![s] = e]
      /\ "marking" \in Registered /\ e.turn = t
  BY Types DEF SetStarting, lockVars, At, Goto, Inside, Registered
<1>2. holder[s] = t
  BY <1>1 DEF LockInv, LockOwner, Held
<1> HIDE DEF e
<1>3. ASSUME NEW u \in Turn, pc'[u] \in Registered PROVE active'[SessionOf[u]].turn = u
  <2>1. CASE u = t
    BY <1>1, <2>1, Types
  <2>2. CASE u # t
    <3>1. pc[u] \in Registered /\ pc[u] \in Inside
      BY <1>1, <1>3, <2>2, Types DEF Registered
    <3>2. SessionOf[u] # s
      BY <1>1, <2>2, <3>1, Alone
    <3>3. QED
      BY <1>1, <3>1, <3>2, Types DEF EntryInv
  <2>3. QED
    BY <2>1, <2>2
<1>4. ASSUME NEW r \in Session, active'[r] # NoEntry
      PROVE  active'[r].turn = holder'[r] /\ pc'[holder'[r]] \in Registered
  <2>1. CASE r = s
    BY <1>1, <1>2, <2>1, Types
  <2>2. CASE r # s
    <3>1. active'[r] = active[r]
      BY <1>1, <2>2, Types
    <3>2. active[r].turn = holder[r] /\ pc[holder[r]] \in Registered /\ holder[r] \in Turn
      BY <1>4, <3>1, Types DEF EntryInv
    <3>3. holder[r] # t
      BY <2>2, <3>2, Elsewhere, Types
    <3>4. QED
      BY <1>1, <3>1, <3>2, <3>3, Types
  <2>3. QED
    BY <2>1, <2>2
<1>5. QED
  BY <1>3, <1>4 DEF EntryInv

\* attach_cancel finds the entry of its own turn.
LEMMA AttachFindsEntry ==
    ASSUME LockInv, EntryInv, NEW t \in Turn, At(t, "attaching")
    PROVE  active[SessionOf[t]].turn = t /\ active[SessionOf[t]] # NoEntry
<1>1. active[SessionOf[t]].turn = t
  BY DEF EntryInv, At, Registered, Inside
<1>2. QED
  BY <1>1, Types

\* attach_cancel keeps EntryInv: the entry is still the task's own.
LEMMA EntryAttach ==
    ASSUME LockInv, EntryInv, NEW t \in Turn, AttachCancel(t)
    PROVE  EntryInv'
<1> DEFINE s == SessionOf[t]
           e == [turn |-> t, state |-> "running",
                 steerable |-> Kind[snap[t].runtime] = "codex"]
<1>1. s \in Session /\ active[s].turn = t /\ active[s] # NoEntry
  BY AttachFindsEntry, Types DEF AttachCancel
<1>2. /\ active' = [active EXCEPT ![s] = e] /\ e.turn = t /\ holder' = holder
      /\ pc' = [pc EXCEPT ![t] = "streaming"]
      /\ pc[t] \in Registered /\ "streaming" \in Registered
  BY <1>1 DEF AttachCancel, lockVars, Goto, At, Inside, Registered
<1> HIDE DEF e
<1>3. \A r \in Session : /\ active'[r].turn = active[r].turn
                         /\ active'[r] # NoEntry => active[r] # NoEntry
  BY <1>1, <1>2, Types
<1>4. \A u \in Turn : pc'[u] \in Registered <=> pc[u] \in Registered
  BY <1>2, Types
<1>5. QED
  BY <1>2, <1>3, <1>4, EntryKept

\* The entry that clear removes is that of its own turn.
LEMMA ClearFindsEntry ==
    ASSUME LockInv, EntryInv, NEW t \in Turn, ClearActive(t)
    PROVE  /\ active' = [active EXCEPT ![SessionOf[t]] = NoEntry]
           /\ pc' = [pc EXCEPT ![t] = "releasing"]
           /\ UNCHANGED <<holder, cancelled, stopped>>
<1>1. active[SessionOf[t]].turn = t
  BY DEF EntryInv, ClearActive, At, Registered, Inside
<1>2. QED
  BY <1>1 DEF ClearActive, lockVars, agentVars, seenVars, Goto

\* clear keeps EntryInv: it removes the entry before the lock is released.
LEMMA EntryCleared ==
    ASSUME LockInv, EntryInv, NEW t \in Turn, ClearActive(t)
    PROVE  EntryInv'
<1> DEFINE s == SessionOf[t]
<1>1. /\ s \in Session /\ holder' = holder /\ pc[t] \in Inside
      /\ pc' = [pc EXCEPT ![t] = "releasing"] /\ active' = [active EXCEPT ![s] = NoEntry]
      /\ "releasing" \notin Registered
  BY Types, ClearFindsEntry DEF ClearActive, At, Inside, Registered
<1>2. ASSUME NEW u \in Turn, pc'[u] \in Registered PROVE active'[SessionOf[u]].turn = u
  <2>1. u # t /\ pc[u] \in Registered /\ pc[u] \in Inside
    BY <1>1, <1>2, Types DEF Registered
  <2>2. SessionOf[u] # s
    BY <1>1, <2>1, Alone
  <2>3. QED
    BY <1>1, <2>1, <2>2, Types DEF EntryInv
<1>3. ASSUME NEW r \in Session, active'[r] # NoEntry
      PROVE  active'[r].turn = holder'[r] /\ pc'[holder'[r]] \in Registered
  <2>1. r # s /\ active'[r] = active[r]
    BY <1>1, <1>3, Types
  <2>2. active[r].turn = holder[r] /\ pc[holder[r]] \in Registered /\ holder[r] \in Turn
    BY <1>3, <2>1, Types DEF EntryInv
  <2>3. holder[r] # t
    BY <2>1, <2>2, Elsewhere, Types
  <2>4. QED
    BY <1>1, <2>1, <2>2, <2>3, Types
<1>4. QED
  BY <1>2, <1>3 DEF EntryInv

\* A stop does not change whose entry it is.
LEMMA EntryRequested ==
    ASSUME LockInv, EntryInv, NEW t \in Turn, RequestLock(t)
    PROVE  EntryInv'
<1> DEFINE s == SessionOf[t]
<1>1. /\ s \in Session /\ active' = active /\ pc[t] \notin Registered
      /\ "entering" \notin Registered /\ "waiting" \notin Registered
  BY Types DEF RequestLock, At, Inside, Registered
<1>2. /\ pc' = [pc EXCEPT ![t] = "entering"] \/ pc' = [pc EXCEPT ![t] = "waiting"]
      /\ \/ holder' = holder
         \/ holder[s] = NoTurn /\ holder' = [holder EXCEPT ![s] = t]
  BY DEF RequestLock, Goto
<1>3. \A u \in Turn : pc'[u] \in Registered <=> pc[u] \in Registered
  BY <1>1, <1>2, Types
<1>4. ASSUME NEW r \in Session, active[r] # NoEntry
      PROVE  holder'[r] = holder[r] /\ holder[r] \in Turn
  BY <1>1, <1>2, <1>4, Types DEF EntryInv
<1>5. QED
  BY <1>1, <1>3, <1>4, Types DEF EntryInv

\* A released lock has no entry, so its next holder starts without one.
LEMMA EntryReleased ==
    ASSUME LockInv, EntryInv, NEW t \in Turn, ReleaseLock(t)
    PROVE  EntryInv'
<1> DEFINE s == SessionOf[t]
           next == Head(waiting[s])
<1>1. /\ s \in Session /\ active' = active /\ pc[t] = "releasing" /\ pc[t] \in Inside
      /\ pc[t] \notin Registered /\ "done" \notin Registered /\ "entering" \notin Registered
  BY Types DEF ReleaseLock, At, Inside, Registered
<1>2. holder[s] = t /\ active[s] = NoEntry
  <2>1. holder[s] = t
    BY <1>1 DEF LockInv, LockOwner, Held
  <2>2. QED
    BY <1>1, <2>1 DEF EntryInv
<1>3. CASE waiting[s] = <<>>
  <2>1. pc' = [pc EXCEPT ![t] = "done"] /\ holder' = [holder EXCEPT ![s] = NoTurn]
    BY <1>3 DEF ReleaseLock, Goto
  <2>2. \A u \in Turn : pc'[u] \in Registered <=> pc[u] \in Registered
    BY <1>1, <2>1, Types
  <2>3. ASSUME NEW r \in Session, active[r] # NoEntry
        PROVE  holder'[r] = holder[r] /\ holder[r] \in Turn
    BY <1>2, <2>1, <2>3, Types DEF EntryInv
  <2>4. QED
    BY <1>1, <2>2, <2>3, Types DEF EntryInv
<1>4. CASE waiting[s] # <<>>
  <2>1. /\ pc' = [pc EXCEPT ![t] = "done", ![next] = "entering"]
        /\ holder' = [holder EXCEPT ![s] = next]
    BY <1>4 DEF ReleaseLock
  <2>2. next \in Turn /\ pc[next] = "waiting"
    BY <1>1, <1>4, NextWaits
  <2>3. pc[next] \notin Registered
    BY <2>2 DEF Inside, Registered
  <2> HIDE DEF next
  <2>4. \A u \in Turn : pc'[u] \in Registered <=> pc[u] \in Registered
    BY <1>1, <2>1, <2>2, <2>3, Types
  <2>5. ASSUME NEW r \in Session, active[r] # NoEntry
        PROVE  holder'[r] = holder[r] /\ holder[r] \in Turn
    BY <1>2, <2>1, <2>5, Types DEF EntryInv
  <2>6. QED
    BY <1>1, <2>4, <2>5, Types DEF EntryInv
<1>5. QED
  BY <1>3, <1>4

\* What /ot stop does to the entries: the state of one may become "stopping".
LEMMA StopTouchesState ==
    ASSUME LockInv, NEW s \in Session, RequestStop(s)
    PROVE  /\ \A r \in Session : /\ active'[r].turn = active[r].turn
                                 /\ r # s => active'[r] = active[r]
                                 /\ active'[r] # NoEntry => active[r] # NoEntry
           /\ active[s] \in Entry /\ active[s].turn \in Turn
           /\ \/ active[s].state = "running" /\ active' = active
              \/ active[s].state # "running" /\ active'[s].state = "stopping"
<1>1. active \in [Session -> Entry \cup {NoEntry}] /\ active[s] \in Entry
  BY Types DEF RequestStop
<1>2. active[s].turn \in Turn
  BY <1>1 DEF Entry
<1>3. CASE active[s].state = "running"
  BY <1>1, <1>2, <1>3 DEF RequestStop
<1>4. CASE active[s].state # "running"
  <2> DEFINE e == [active[s] EXCEPT !.state = "stopping"]
  <2>1. e.turn = active[s].turn /\ e.state = "stopping"
    BY <1>1, Zenon DEF Entry
  <2>2. active' = [active EXCEPT ![s] = e]
    BY <1>4 DEF RequestStop
  <2> HIDE DEF e
  <2>3. active'[s] = e /\ \A r \in Session : r # s => active'[r] = active[r]
    BY <1>1, <2>2
  <2>4. active[s] # NoEntry
    BY DEF RequestStop
  <2>5. QED
    BY <1>1, <1>2, <1>4, <2>1, <2>3, <2>4
<1>5. QED
  BY <1>3, <1>4

\* Every step of the service keeps EntryInv.
LEMMA EntryStep == LockInv /\ EntryInv /\ [Next]_vars => EntryInv'
<1> SUFFICES ASSUME LockInv, EntryInv, [Next]_vars PROVE EntryInv'
  OBVIOUS
<1>1. ASSUME NEW t \in Turn, Handle(t) \/ Step(t) \/ Start(t) \/ Abort(t) PROVE EntryInv'
  BY <1>1, EntryByHandler, EntryInside, EntrySet, EntryAttach, EntryCleared,
     EntryRequested, EntryReleased DEF Step
<1>2. ASSUME UNCHANGED <<pc, holder, active>> PROVE EntryInv'
  BY <1>2, EntryKept
<1>3. ASSUME NEW t \in Turn, Work(t) PROVE EntryInv'
  BY <1>2, <1>3 DEF Work, SessionReady, AgentFinishes, AgentFails, WorkerGivesUp,
     AgentInterrupted, lockVars
<1>4. CASE Control \/ Strays
  <2>1. ASSUME NEW s \in Session, RequestStop(s) PROVE EntryInv'
    <3>1. UNCHANGED <<pc, holder>>
      BY <2>1 DEF RequestStop, lockVars
    <3>2. QED
      BY <2>1, <3>1, StopTouchesState, EntryKept
  <2>2. QED
    BY <1>2, <1>4, <2>1 DEF Control, ClearSelection, ActivateRuntime, Strays, StrayEnds, lockVars
<1>5. CASE Crash
  <2>1. \A s \in Session : active'[s] = NoEntry
    BY <1>5 DEF Crash
  <2>2. \A t \in Turn : pc'[t] \notin Registered
    BY <1>5, Types DEF Crash, Task, Inside, Registered
  <2>3. QED
    BY <2>1, <2>2 DEF EntryInv
<1>6. CASE UNCHANGED vars
  BY <1>2, <1>6 DEF vars
<1>7. QED
  BY <1>1, <1>3, <1>4, <1>5, <1>6 DEF Next

\* The inductive invariant of ActiveTurns, on top of that of the locks.
THEOREM EntryCorrect == Spec => []EntryInv
<1>1. Init => EntryInv
  BY ConstantsAssumption DEF Init, EntryInv, Registered, Inside
<1>2. QED
  BY <1>1, EntryStep, LockCorrect, PTL DEF Spec

\* /ot stop and a steer see only a turn that holds its session: an entry never
\* outlives its task, and never belongs to another one.
THEOREM ActiveTurnIsTheOwner == Spec => []ActiveTurnHoldsLock
<1>1. EntryInv => ActiveTurnHoldsLock
  BY DEF EntryInv, Registered, ActiveTurnHoldsLock
<1>2. QED
  BY <1>1, EntryCorrect, PTL

-----------------------------------------------------------------------------
(* Stops                                                                   *)

\* Labels of a task whose entry has no cancel handle yet, and has one.
Starting == {"marking", "launching", "startMemory", "startSession", "startRuntime",
             "attaching"}
Attached == {"streaming", "endMemory", "endSession", "endRuntime", "completing",
             "announcing", "failing", "failMarking"}

\* Labels a turn that was stopped can be at.
Stoppable == (Inside \ {"entering"}) \cup {"done", "lost"}

\* The state of the entry follows the label, and a stop is where it must be:
\* noted in the entry until the cancel handle exists, in the handle after.
StopInv ==
    /\ cancelled \subseteq stopped
    /\ \A t \in stopped : pc[t] \in Stoppable
    /\ \A s \in Session : active[s].state = "stopping" => active[s].turn \in stopped
    /\ \A t \in Turn : pc[t] \in Starting => /\ active[SessionOf[t]].state # "running"
                                             /\ t \in stopped => active[SessionOf[t]].state = "stopping"
    /\ \A t \in Turn : pc[t] \in Attached => active[SessionOf[t]].state = "running"
    /\ \A t \in Turn : pc[t] = "streaming" /\ t \in stopped => t \in cancelled

\* A stop is only ever answered for turns.
LEMMA StoppedAreTurns == LockInv => stopped \subseteq Turn
BY DEF LockInv, TypeOK

\* A step that moves one task and leaves entries, handles and stops alone.
LEMMA StopKept ==
    ASSUME LockInv, StopInv, UNCHANGED <<active, cancelled, stopped>>,
           NEW t \in Turn, NEW l \in Label, Goto(t, l),
           pc[t] \in Stoppable => l \in Stoppable,
           l \in Starting => pc[t] \in Starting,
           l \in Attached => pc[t] \in Attached,
           l = "streaming" => pc[t] = "streaming"
    PROVE  StopInv'
<1>1. \A u \in Turn : pc'[u] = IF u = t THEN l ELSE pc[u]
  BY Types DEF Goto
<1>2. \A u \in stopped : pc'[u] \in Stoppable
  BY <1>1, StoppedAreTurns DEF StopInv
<1>3. QED
  BY <1>1, <1>2 DEF StopInv

\* A step that moves no task, no entry, no handle and no stop.
LEMMA StopUntouched ==
    ASSUME StopInv, UNCHANGED <<pc, active, cancelled, stopped>>
    PROVE  StopInv'
BY DEF StopInv

\* The message handler keeps StopInv.
LEMMA StopByHandler ==
    ASSUME LockInv, StopInv, NEW t \in Turn, Handle(t)
    PROVE  StopInv'
<1> USE DEF Handle, Receive, SteerFallsBack, SteerAccepted, SteerRefused, Accept,
            CopySession, CopySelection, CopyRuntime,
            CreateTurn, CreateFails
<1>1. UNCHANGED <<active, cancelled, stopped>>
  BY DEF agentVars, seenVars
<1>2. pc[t] \in {"idle"} \cup Handler
  BY DEF At, Handler
<1>3. PICK l \in Handler \cup {"spawned"} \cup Ended : Goto(t, l)
  BY DEF Handler, Ended
<1>4. /\ l \in Label /\ l \notin Starting /\ l \notin Attached /\ l # "streaming"
      /\ pc[t] \notin Stoppable
  BY <1>2 DEF Label, Handler, Task, Ended, Inside, Starting, Attached, Stoppable
<1>5. QED
  BY <1>1, <1>3, <1>4, StopKept

\* run_turn between set_starting and attach_cancel.
LEMMA StopWhileStarting ==
    ASSUME LockInv, StopInv, NEW t \in Turn,
           \/ MarkRunning(t)
           \/ /\ RecordMemory(t) \/ RecordSession(t) \/ RecordRuntime(t)
              /\ pc[t] \in {"startMemory", "startSession", "startRuntime"}
           \/ Start(t)
           \/ Abort(t) /\ pc[t] \in Starting
    PROVE  StopInv'
<1> USE DEF MarkRunning, RecordMemory, RecordSession, RecordRuntime, Start, StartReturns,
            StartFails, Abort
<1>1. UNCHANGED <<active, cancelled, stopped>>
  BY DEF agentVars, seenVars
<1>2. pc[t] \in Starting
  BY DEF At, Starting
<1>3. PICK l \in Starting \cup {"clearing"} : Goto(t, l)
  BY DEF At, Starting
<1>4. /\ l \in Label /\ l \in Stoppable /\ l \notin Attached /\ l # "streaming"
  BY DEF Label, Task, Inside, Starting, Attached, Stoppable
<1>5. QED
  BY <1>1, <1>2, <1>3, <1>4, StopKept

\* run_turn between attach_cancel and clear.
LEMMA StopWhileAttached ==
    ASSUME LockInv, StopInv, NEW t \in Turn,
           \/ JoinCompletion(t) \/ CompleteTurn(t) \/ PublishFinal(t) \/ PublishFailure(t)
           \/ FailTurn(t)
           \/ /\ RecordMemory(t) \/ RecordSession(t) \/ RecordRuntime(t)
              /\ pc[t] \in {"endMemory", "endSession", "endRuntime"}
           \/ Abort(t) /\ pc[t] \in Attached
    PROVE  StopInv'
<1> USE DEF JoinCompletion, CompleteTurn, PublishFinal, PublishFailure, FailTurn,
            RecordMemory, RecordSession, RecordRuntime, Abort
<1>1. UNCHANGED <<active, cancelled, stopped>>
  BY DEF agentVars, seenVars
<1>2. pc[t] \in Attached
  BY DEF At, Attached
<1>3. PICK l \in (Attached \ {"streaming"}) \cup {"clearing"} : Goto(t, l)
  BY DEF At, Attached
<1>4. /\ l \in Label /\ l \in Stoppable /\ l \notin Starting /\ l # "streaming"
  BY DEF Label, Task, Inside, Starting, Attached, Stoppable
<1>5. QED
  BY <1>1, <1>2, <1>3, <1>4, StopKept

\* Every task and entry but those of the session of t are as they were.
OthersKept(t) ==
    /\ \A u \in Turn : u # t => pc'[u] = pc[u]
    /\ \A r \in Session : r # SessionOf[t] => active'[r] = active[r]

\* What is known of the tasks of other sessions then stays known.
LEMMA StopElsewhere ==
    ASSUME LockInv, StopInv, NEW t \in Turn, pc[t] \in Inside, OthersKept(t),
           UNCHANGED stopped, cancelled \subseteq cancelled',
           NEW u \in Turn, u # t
    PROVE  /\ pc'[u] \in Starting => /\ active'[SessionOf[u]].state # "running"
                                     /\ u \in stopped' => active'[SessionOf[u]].state = "stopping"
           /\ pc'[u] \in Attached => active'[SessionOf[u]].state = "running"
           /\ pc'[u] = "streaming" /\ u \in stopped' => u \in cancelled'
<1>1. pc'[u] = pc[u] /\ SessionOf[u] \in Session
  BY Types DEF OthersKept
<1>2. Starting \subseteq Inside /\ Attached \subseteq Inside /\ "streaming" \in Attached
  BY DEF Starting, Attached, Inside
<1>3. CASE pc[u] \in Inside
  <2>1. SessionOf[u] # SessionOf[t]
    BY <1>3, Alone
  <2>2. active'[SessionOf[u]] = active[SessionOf[u]]
    BY <1>1, <2>1 DEF OthersKept
  <2>3. QED
    BY <1>1, <2>2 DEF StopInv
<1>4. CASE pc[u] \notin Inside
  BY <1>1, <1>2, <1>4
<1>5. QED
  BY <1>3, <1>4

\* set_starting keeps StopInv: no stop was answered for this turn before.
LEMMA StopSet ==
    ASSUME LockInv, StopInv, NEW t \in Turn, SetStarting(t)
    PROVE  StopInv'
<1> DEFINE s == SessionOf[t]
           e == [turn |-> t, state |-> "starting", steerable |-> FALSE]
<1>1. /\ s \in Session /\ pc[t] = "entering" /\ pc[t] \in Inside
      /\ pc' = [pc EXCEPT ![t] = "marking"] /\ active' = [active EXCEPT ![s] = e]
      /\ UNCHANGED <<cancelled, stopped>> /\ e.state = "starting"
  BY Types DEF SetStarting, At, Goto, Inside, agentVars, seenVars
<1> HIDE DEF e
<1>2. t \notin stopped
  BY <1>1 DEF StopInv, Stoppable, Inside
<1>3. OthersKept(t) /\ pc'[t] = "marking" /\ active'[s] = e
  BY <1>1, Types DEF OthersKept
<1>4. \A u \in stopped' : pc'[u] \in Stoppable
  BY <1>1, <1>2, <1>3, StoppedAreTurns DEF StopInv, OthersKept
<1>5. \A r \in Session : active'[r].state = "stopping" => active'[r].turn \in stopped'
  BY <1>1, <1>3 DEF StopInv, OthersKept
<1>6. "marking" \in Starting /\ "marking" \notin Attached /\ "marking" # "streaming"
  BY DEF Starting, Attached
<1>7. \A u \in Turn : pc'[u] \in Starting =>
          /\ active'[SessionOf[u]].state # "running"
          /\ u \in stopped' => active'[SessionOf[u]].state = "stopping"
  BY <1>1, <1>2, <1>3, StopElsewhere
<1>8. \A u \in Turn : /\ pc'[u] \in Attached => active'[SessionOf[u]].state = "running"
                      /\ pc'[u] = "streaming" /\ u \in stopped' => u \in cancelled'
  BY <1>1, <1>3, <1>6, StopElsewhere
<1>9. QED
  BY <1>1, <1>4, <1>5, <1>7, <1>8 DEF StopInv

\* attach_cancel carries a stop out that came while the turn was starting.
LEMMA StopCarriedOut ==
    ASSUME LockInv, EntryInv, StopInv, NEW t \in Turn, AttachCancel(t)
    PROVE  StopInv'
<1> DEFINE s == SessionOf[t]
           e == [turn |-> t, state |-> "running",
                 steerable |-> Kind[snap[t].runtime] = "codex"]
<1>1. /\ s \in Session /\ active[s].turn = t /\ pc[t] = "attaching"
      /\ pc[t] \in Starting /\ pc[t] \in Inside
  BY AttachFindsEntry, Types DEF AttachCancel, At, Starting, Inside
<1>2. /\ active' = [active EXCEPT ![s] = e] /\ e.state = "running"
      /\ cancelled' = IF active[s].state = "stopping" THEN cancelled \cup {t} ELSE cancelled
      /\ pc' = [pc EXCEPT ![t] = "streaming"] /\ UNCHANGED stopped
  BY <1>1 DEF AttachCancel, Goto, seenVars
<1> HIDE DEF e
<1>3. OthersKept(t) /\ pc'[t] = "streaming" /\ active'[s] = e
  BY <1>1, <1>2, Types DEF OthersKept
<1>4. cancelled \subseteq cancelled' /\ cancelled' \subseteq stopped'
  BY <1>1, <1>2 DEF StopInv
<1>5. t \in stopped' => t \in cancelled'
  BY <1>1, <1>2 DEF StopInv
<1>6. "streaming" \in Stoppable /\ "streaming" \notin Starting
  BY DEF Stoppable, Inside, Starting
<1>7. \A u \in stopped' : pc'[u] \in Stoppable
  BY <1>2, <1>3, <1>6, StoppedAreTurns DEF StopInv, OthersKept
<1>8. \A r \in Session : active'[r].state = "stopping" => active'[r].turn \in stopped'
  BY <1>1, <1>2, <1>3 DEF StopInv, OthersKept
<1>9. \A u \in Turn : pc'[u] \in Starting =>
          /\ active'[SessionOf[u]].state # "running"
          /\ u \in stopped' => active'[SessionOf[u]].state = "stopping"
  BY <1>1, <1>2, <1>3, <1>4, <1>6, StopElsewhere
<1>10. \A u \in Turn : /\ pc'[u] \in Attached => active'[SessionOf[u]].state = "running"
                       /\ pc'[u] = "streaming" /\ u \in stopped' => u \in cancelled'
  BY <1>1, <1>2, <1>3, <1>4, <1>5, StopElsewhere
<1>11. QED
  BY <1>4, <1>7, <1>8, <1>9, <1>10 DEF StopInv

\* clear keeps StopInv: the turn no longer waits for its agent.
LEMMA StopCleared ==
    ASSUME LockInv, EntryInv, StopInv, NEW t \in Turn, ClearActive(t)
    PROVE  StopInv'
<1> DEFINE s == SessionOf[t]
<1>1. /\ s \in Session /\ pc[t] = "clearing" /\ pc[t] \in Inside
      /\ active' = [active EXCEPT ![s] = NoEntry] /\ pc' = [pc EXCEPT ![t] = "releasing"]
      /\ UNCHANGED <<cancelled, stopped>>
  BY ClearFindsEntry, Types DEF ClearActive, At, Inside
<1>2. OthersKept(t) /\ pc'[t] = "releasing" /\ active'[s] = NoEntry
  BY <1>1, Types DEF OthersKept
<1>3. /\ "releasing" \in Stoppable /\ "releasing" \notin Starting /\ "releasing" \notin Attached
      /\ "releasing" # "streaming" /\ NoEntry.state # "stopping"
  BY DEF Stoppable, Inside, Starting, Attached, NoEntry
<1>4. \A u \in stopped' : pc'[u] \in Stoppable
  BY <1>1, <1>2, <1>3, StoppedAreTurns DEF StopInv, OthersKept
<1>5. \A r \in Session : active'[r].state = "stopping" => active'[r].turn \in stopped'
  BY <1>1, <1>2, <1>3 DEF StopInv, OthersKept
<1>6. \A u \in Turn : pc'[u] \in Starting =>
          /\ active'[SessionOf[u]].state # "running"
          /\ u \in stopped' => active'[SessionOf[u]].state = "stopping"
  BY <1>1, <1>2, <1>3, StopElsewhere
<1>7. \A u \in Turn : /\ pc'[u] \in Attached => active'[SessionOf[u]].state = "running"
                      /\ pc'[u] = "streaming" /\ u \in stopped' => u \in cancelled'
  BY <1>1, <1>2, <1>3, StopElsewhere
<1>8. QED
  BY <1>1, <1>4, <1>5, <1>6, <1>7 DEF StopInv

\* Taking and giving the lock keep StopInv.
LEMMA StopAtLock ==
    ASSUME LockInv, StopInv, NEW t \in Turn, RequestLock(t) \/ ReleaseLock(t)
    PROVE  StopInv'
<1> DEFINE s == SessionOf[t]
           next == Head(waiting[s])
<1>1. UNCHANGED <<active, cancelled, stopped>> /\ s \in Session
  BY Types DEF RequestLock, ReleaseLock, agentVars, seenVars
<1> USE DEF Label, Task, Inside, Ended, Starting, Attached, Stoppable
<1>2. CASE RequestLock(t)
  <2>1. pc[t] = "spawned" /\ (Goto(t, "entering") \/ Goto(t, "waiting"))
    BY <1>2 DEF RequestLock, At
  <2>2. QED
    BY <1>1, <2>1, StopKept
<1>3. CASE ReleaseLock(t) /\ waiting[s] = <<>>
  <2>1. Goto(t, "done")
    BY <1>3 DEF ReleaseLock
  <2>2. QED
    BY <1>1, <2>1, StopKept
<1>4. CASE ReleaseLock(t) /\ waiting[s] # <<>>
  <2>1. /\ pc' = [pc EXCEPT ![t] = "done", ![next] = "entering"]
        /\ next \in Turn /\ pc[next] = "waiting"
    BY <1>1, <1>4, NextWaits DEF ReleaseLock
  <2> HIDE DEF next
  <2>2. next \notin stopped
    BY <2>1 DEF StopInv
  <2>3. \A u \in Turn : pc'[u] = IF u = next THEN "entering"
                                 ELSE IF u = t THEN "done" ELSE pc[u]
    BY <2>1, Types
  <2>4. \A u \in stopped' : pc'[u] \in Stoppable
    BY <1>1, <2>2, <2>3, StoppedAreTurns DEF StopInv
  <2>5. \A u \in Turn : /\ pc'[u] \in Starting => pc[u] \in Starting
                        /\ pc'[u] \in Attached => pc[u] \in Attached
                        /\ pc'[u] = "streaming" => pc[u] = "streaming"
    BY <2>3
  <2>6. QED
    BY <1>1, <2>4, <2>5 DEF StopInv
<1>5. QED
  BY <1>2, <1>3, <1>4

\* The request itself: a starting turn is marked, a running one is cancelled.
LEMMA StopRequested ==
    ASSUME LockInv, EntryInv, StopInv, NEW s \in Session, RequestStop(s)
    PROVE  StopInv'
<1> DEFINE t == active[s].turn
<1>1. /\ t \in Turn /\ active[s] # NoEntry /\ pc' = pc /\ stopped' = stopped \cup {t}
      /\ \/ /\ active[s].state = "running" /\ active' = active
            /\ cancelled' = cancelled \cup {t}
         \/ /\ active[s].state # "running" /\ active'[s].state = "stopping"
            /\ cancelled' = cancelled
      /\ \A r \in Session : /\ active'[r].turn = active[r].turn
                            /\ r # s => active'[r] = active[r]
  BY StopTouchesState DEF RequestStop
<1>2. t = holder[s] /\ pc[t] \in Registered /\ SessionOf[t] = s
  BY <1>1, Types DEF EntryInv, LockInv, LockOwner, Held
<1>3. \A u \in Turn : u # t /\ SessionOf[u] = s => pc[u] \notin Inside
  BY <1>1, <1>2, Alone DEF Registered
<1> HIDE DEF t
<1>4. pc[t] \in Stoppable
  BY <1>2 DEF Registered, Stoppable
<1>5. \A u \in stopped' : pc'[u] \in Stoppable
  BY <1>1, <1>4 DEF StopInv
<1>6. \A r \in Session : active'[r].state = "stopping" => active'[r].turn \in stopped'
  BY <1>1 DEF StopInv, t
<1>7. Starting \subseteq Inside /\ Attached \subseteq Inside /\ "streaming" \in Attached
  BY DEF Starting, Attached, Inside
<1>8. ASSUME NEW u \in Turn
      PROVE  /\ pc'[u] \in Starting => /\ active'[SessionOf[u]].state # "running"
                                       /\ u \in stopped' => active'[SessionOf[u]].state = "stopping"
             /\ pc'[u] \in Attached => active'[SessionOf[u]].state = "running"
             /\ pc'[u] = "streaming" /\ u \in stopped' => u \in cancelled'
  <2>1. SessionOf[u] \in Session
    BY Types
  <2>2. CASE u = t
    BY <1>1, <1>2, <1>7, <2>2 DEF StopInv
  <2>3. CASE u # t /\ SessionOf[u] = s
    BY <1>1, <1>3, <1>7, <2>3
  <2>4. CASE u # t /\ SessionOf[u] # s
    BY <1>1, <2>1, <2>4 DEF StopInv
  <2>5. QED
    BY <2>2, <2>3, <2>4
<1>9. cancelled' \subseteq stopped'
  BY <1>1 DEF StopInv
<1>10. QED
  BY <1>5, <1>6, <1>8, <1>9 DEF StopInv

\* A crash keeps StopInv: no turn waits for its agent any more.
LEMMA StopAtCrash ==
    ASSUME LockInv, StopInv, Crash
    PROVE  StopInv'
<1>1. \A s \in Session : active'[s] = NoEntry
  BY DEF Crash
<1>2. UNCHANGED <<cancelled, stopped>>
  BY DEF Crash
<1>3. \A t \in Turn : pc'[t] = IF pc[t] \in Handler \cup Task THEN "lost" ELSE pc[t]
  BY DEF Crash
<1>4. \A t \in Turn : /\ pc'[t] \notin Inside
                      /\ pc[t] \in Stoppable => pc'[t] \in Stoppable
  BY <1>3, Types DEF Task, Inside, Stoppable
<1>5. \A t \in stopped' : pc'[t] \in Stoppable
  BY <1>2, <1>4, StoppedAreTurns DEF StopInv
<1>6. Starting \subseteq Inside /\ Attached \subseteq Inside /\ "streaming" \in Inside
  BY DEF Starting, Attached, Inside
<1>7. NoEntry.state # "stopping"
  BY DEF NoEntry
<1>8. QED
  BY <1>1, <1>2, <1>4, <1>5, <1>6, <1>7 DEF StopInv

\* Every step of the service keeps StopInv.
LEMMA StopStep == LockInv /\ EntryInv /\ StopInv /\ [Next]_vars => StopInv'
<1> SUFFICES ASSUME LockInv, EntryInv, StopInv, [Next]_vars PROVE StopInv'
  OBVIOUS
<1>1. ASSUME NEW t \in Turn, Handle(t) PROVE StopInv'
  BY <1>1, StopByHandler
<1>2. ASSUME NEW t \in Turn, Step(t) PROVE StopInv'
  <2>1. CASE RecordMemory(t) \/ RecordSession(t) \/ RecordRuntime(t)
    <3>1. pc[t] \in {"startMemory", "startSession", "startRuntime",
                     "endMemory", "endSession", "endRuntime"}
      BY <2>1 DEF RecordMemory, RecordSession, RecordRuntime
    <3>2. QED
      BY <2>1, <3>1, StopWhileStarting, StopWhileAttached
  <2>2. QED
    BY <1>2, <2>1, StopWhileStarting, StopWhileAttached, StopSet, StopCarriedOut,
       StopCleared, StopAtLock DEF Step
<1>3. ASSUME NEW t \in Turn, Start(t) PROVE StopInv'
  BY <1>3, StopWhileStarting
<1>4. ASSUME NEW t \in Turn, Abort(t) PROVE StopInv'
  <2>1. pc[t] \in Starting \cup Attached
    BY <1>4 DEF Abort, Starting, Attached
  <2>2. QED
    BY <1>4, <2>1, StopWhileStarting, StopWhileAttached
<1>5. ASSUME NEW t \in Turn, Work(t) PROVE StopInv'
  BY <1>5, StopUntouched
     DEF Work, SessionReady, AgentFinishes, AgentFails, WorkerGivesUp,
        AgentInterrupted, seenVars
<1>6. CASE Control \/ Strays
  BY <1>6, StopRequested, StopUntouched
     DEF Control, ClearSelection, ActivateRuntime, Strays, StrayEnds, agentVars, seenVars
<1>7. CASE Crash
  BY <1>7, StopAtCrash
<1>8. CASE UNCHANGED vars
  BY <1>8, StopUntouched DEF vars
<1>9. QED
  BY <1>1, <1>2, <1>3, <1>4, <1>5, <1>6, <1>7, <1>8 DEF Next

\* The inductive invariant of the stops, on top of those of locks and entries.
THEOREM StopCorrect == Spec => []StopInv
<1>1. Init => StopInv
  BY ConstantsAssumption DEF Init, StopInv, Starting, Attached, NoEntry
<1>2. QED
  BY <1>1, StopStep, LockCorrect, EntryCorrect, PTL DEF Spec

\* A stop the user was told about fires the cancel handle of the turn it was
\* meant for, whenever it came, and of no other.
THEOREM StopIsNotLost == Spec => []StopReachesItsTurn
<1>1. LockInv /\ StopInv => StopReachesItsTurn
  BY StoppedAreTurns DEF StopInv, StopReachesItsTurn
<1>2. QED
  BY <1>1, LockCorrect, StopCorrect, PTL

=============================================================================
