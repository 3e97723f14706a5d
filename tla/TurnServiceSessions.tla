------------------------- MODULE TurnServiceSessions -------------------------
(***************************************************************************)
(* The turn service implements TurnLifecycle: the holder of the session    *)
(* lock is the owner of the session, and the row of core_turns moves as    *)
(* the lifecycle says.  The same invariant of the rows gives the order of  *)
(* the record of an answer and the message that shows it.                  *)
(*                                                                         *)
(* The second half is what TurnService keeps of the agents: which agent    *)
(* session a runtime names, what is left of a completed turn, which turns  *)
(* are at work, which steers are heard and which turns end in silence.     *)
(* All of it is proved for every set of messages, chats and runtimes.      *)
(***************************************************************************)
EXTENDS TurnServiceSafety

-----------------------------------------------------------------------------
(* The row follows the task                                                *)

\* The statuses the row of a turn can have while its task is at a label.
RowAt(label) ==
    CASE label \in {"idle"} \cup Handler -> {"absent"}
      [] label \in {"spawned", "waiting", "entering", "marking"} -> {"queued"}
      [] label \in (Starting \ {"marking"}) \cup (Attached \ {"announcing"}) -> {"running"}
      [] label = "announcing" -> {"completed"}
      [] OTHER -> Status

RowInv == \A t \in Turn : row[t] \in RowAt(pc[t])

\* The five kinds of label, one fact each.
LEMMA RowAtLabels ==
    /\ \A l \in {"idle"} \cup Handler : RowAt(l) = {"absent"}
    /\ \A l \in {"spawned", "waiting", "entering", "marking"} : RowAt(l) = {"queued"}
    /\ \A l \in (Starting \ {"marking"}) \cup (Attached \ {"announcing"}) : RowAt(l) = {"running"}
    /\ RowAt("announcing") = {"completed"}
    /\ \A l \in Ended \cup {"clearing", "releasing"} : RowAt(l) = Status
BY DEF RowAt, Handler, Starting, Attached, Ended

\* One task moves, and its row fits its new label.
LEMMA RowKept ==
    ASSUME LockInv, RowInv, NEW t \in Turn, NEW l \in Label, NEW status \in Status,
           Goto(t, l), row' = [row EXCEPT ![t] = status], status \in RowAt(l)
    PROVE  RowInv'
<1>1. pc \in [Turn -> Label] /\ row \in [Turn -> Status] /\ pc' = [pc EXCEPT ![t] = l]
  BY DEF LockInv, TypeOK, Goto
<1>2. ASSUME NEW u \in Turn PROVE row'[u] \in RowAt(pc'[u])
  <2>1. CASE u = t
    <3>1. row'[u] = status /\ pc'[u] = l
      BY <1>1, <2>1
    <3>2. QED
      BY <3>1
  <2>2. CASE u # t
    <3>1. row'[u] = row[u] /\ pc'[u] = pc[u]
      BY <1>1, <2>2
    <3>2. QED
      BY <3>1 DEF RowInv
  <2>3. QED
    BY <2>1, <2>2
<1>3. QED
  BY <1>2 DEF RowInv

\* The same for a step that leaves the rows alone.
LEMMA RowUnmoved ==
    ASSUME LockInv, RowInv, UNCHANGED row, NEW t \in Turn, NEW l \in Label,
           Goto(t, l), row[t] \in RowAt(l)
    PROVE  RowInv'
<1>1. row \in [Turn -> Status]
  BY DEF LockInv, TypeOK
<1>2. row' = [row EXCEPT ![t] = row[t]] /\ row[t] \in Status
  BY <1>1
<1>3. QED
  BY <1>2, RowKept

\* The message handler moves the row as the label says.
LEMMA RowByHandler ==
    ASSUME LockInv, RowInv, NEW t \in Turn, Handle(t)
    PROVE  RowInv'
<1> USE DEF Handler, Ended
<1>1. CASE CreateTurn(t)
  <2>1. Goto(t, "spawned") /\ row' = [row EXCEPT ![t] = "queued"]
    BY <1>1 DEF CreateTurn
  <2>2. "queued" \in RowAt("spawned") /\ "queued" \in Status /\ "spawned" \in Label
    BY RowAtLabels DEF Status, Label, Task
  <2>3. QED
    BY <2>1, <2>2, RowKept
<1>2. CASE ~CreateTurn(t)
  <2> USE DEF Handle, Receive, SteerFallsBack, SteerAccepted, SteerRefused, Accept,
              CopySession, CopySelection, CopyRuntime, CreateFails
  <2>1. UNCHANGED row /\ pc[t] \in {"idle"} \cup Handler
    BY <1>2 DEF At
  <2>2. PICK l \in Handler \cup Ended : Goto(t, l)
    BY <1>2
  <2>3. row[t] = "absent" /\ l \in Label
    BY <2>1, RowAtLabels DEF RowInv, Label
  <2>4. RowAt(l) = {"absent"} \/ RowAt(l) = Status
    BY RowAtLabels
  <2>5. row[t] \in RowAt(l)
    BY <2>3, <2>4 DEF Status
  <2>6. QED
    BY <2>1, <2>2, <2>3, <2>5, RowUnmoved
<1>3. QED
  BY <1>1, <1>2

\* The steps of run_turn that leave the rows alone, with the lock held.
LEMMA RowByWorking ==
    ASSUME LockInv, RowInv, NEW t \in Turn,
           \/ SetStarting(t) \/ RecordMemory(t) \/ RecordSession(t)
           \/ RecordRuntime(t) \/ AttachCancel(t) \/ JoinCompletion(t)
           \/ PublishFinal(t) \/ PublishFailure(t) \/ ClearActive(t)
           \/ Start(t) \/ Abort(t)
    PROVE  RowInv'
<1> USE DEF SetStarting, RecordMemory, RecordSession, RecordRuntime, AttachCancel,
            JoinCompletion, PublishFinal, PublishFailure, ClearActive, Start,
            StartReturns, StartFails, Abort
<1>1. UNCHANGED row
  OBVIOUS
<1>2. row[t] \in Status
  BY DEF LockInv, TypeOK
<1> DEFINE W == (Starting \ {"marking"}) \cup (Attached \ {"announcing"})
<1>3. \/ pc[t] = "entering" /\ Goto(t, "marking")
      \/ pc[t] \in W /\ \E l \in W : Goto(t, l)
      \/ Goto(t, "clearing") \/ Goto(t, "releasing")
  BY DEF At, Starting, Attached
<1>4. /\ W \subseteq Label /\ "marking" \in Label /\ "clearing" \in Label
      /\ "releasing" \in Label
  BY DEF Label, Task, Inside, Starting, Attached
<1> HIDE DEF W, SetStarting, RecordMemory, RecordSession, RecordRuntime, AttachCancel,
         JoinCompletion, PublishFinal, PublishFailure, ClearActive, Start,
         StartReturns, StartFails, Abort
<1>5. /\ RowAt("entering") = RowAt("marking")
      /\ \A k, l \in W : RowAt(k) = RowAt(l)
      /\ RowAt("clearing") = Status /\ RowAt("releasing") = Status
  BY RowAtLabels DEF W
<1>6. CASE pc[t] = "entering" /\ Goto(t, "marking")
  BY <1>1, <1>4, <1>5, <1>6, RowUnmoved DEF RowInv
<1>7. ASSUME pc[t] \in W, NEW l \in W, Goto(t, l) PROVE RowInv'
  <2>1. row[t] \in RowAt(l)
    BY <1>5, <1>7 DEF RowInv
  <2>2. QED
    BY <1>1, <1>4, <1>7, <2>1, RowUnmoved
<1>8. CASE Goto(t, "clearing") \/ Goto(t, "releasing")
  BY <1>1, <1>2, <1>4, <1>5, <1>8, RowUnmoved
<1>9. QED
  BY <1>3, <1>6, <1>7, <1>8

\* The steps of run_turn that move the row.
LEMMA RowMoved ==
    ASSUME LockInv, RowInv, NEW t \in Turn,
           MarkRunning(t) \/ CompleteTurn(t) \/ FailTurn(t)
    PROVE  RowInv'
<1>1. "launching" \in Label /\ "announcing" \in Label /\ "clearing" \in Label
  BY DEF Label, Task, Inside
<1>2. /\ RowAt("launching") = {"running"} /\ RowAt("announcing") = {"completed"}
      /\ RowAt("clearing") = Status
  BY RowAtLabels DEF Starting, Attached
<1>3. {"running", "completed", "failed"} \subseteq Status /\ row[t] \in Status
  BY DEF Status, LockInv, TypeOK
<1>4. CASE MarkRunning(t)
  BY <1>1, <1>2, <1>3, <1>4, RowKept DEF MarkRunning
<1>5. CASE CompleteTurn(t)
  BY <1>1, <1>2, <1>3, <1>5, RowKept DEF CompleteTurn
<1>6. CASE FailTurn(t)
  BY <1>1, <1>2, <1>3, <1>6, RowKept, RowUnmoved DEF FailTurn
<1>7. QED
  BY <1>4, <1>5, <1>6

\* Taking and giving the lock keep RowInv.
LEMMA RowAtLock ==
    ASSUME LockInv, RowInv, NEW t \in Turn, RequestLock(t) \/ ReleaseLock(t)
    PROVE  RowInv'
<1> DEFINE s == SessionOf[t]
           next == Head(waiting[s])
<1>1. s \in Session /\ UNCHANGED row /\ row[t] \in Status
  BY Types DEF RequestLock, ReleaseLock, LockInv, TypeOK
<1>2. /\ {"entering", "waiting", "done"} \subseteq Label
      /\ RowAt("spawned") = {"queued"} /\ RowAt("waiting") = {"queued"}
      /\ RowAt("entering") = {"queued"} /\ RowAt("done") = Status
  BY RowAtLabels DEF Label, Task, Inside, Ended
<1>3. CASE RequestLock(t)
  <2>1. row[t] = "queued"
    BY <1>2, <1>3 DEF RequestLock, At, RowInv
  <2>2. Goto(t, "entering") \/ Goto(t, "waiting")
    BY <1>3 DEF RequestLock
  <2>3. QED
    BY <1>1, <1>2, <2>1, <2>2, RowUnmoved
<1>4. CASE ReleaseLock(t) /\ waiting[s] = <<>>
  BY <1>1, <1>2, <1>4, RowUnmoved DEF ReleaseLock
<1>5. CASE ReleaseLock(t) /\ waiting[s] # <<>>
  <2>1. /\ pc' = [pc EXCEPT ![t] = "done", ![next] = "entering"]
        /\ next \in Turn /\ pc[next] = "waiting"
    BY <1>1, <1>5, NextWaits DEF ReleaseLock
  <2> HIDE DEF next
  <2>2. \A u \in Turn : pc'[u] = IF u = next THEN "entering"
                                 ELSE IF u = t THEN "done" ELSE pc[u]
    BY <2>1, Types
  <2>3. row[next] = "queued"
    BY <1>2, <2>1 DEF RowInv
  <2>4. QED
    BY <1>1, <1>2, <2>2, <2>3 DEF RowInv
<1>6. QED
  BY <1>3, <1>4, <1>5

\* Every step of the service keeps RowInv.
LEMMA RowStep == LockInv /\ RowInv /\ [Next]_vars => RowInv'
<1> SUFFICES ASSUME LockInv, RowInv, [Next]_vars PROVE RowInv'
  OBVIOUS
<1>1. ASSUME NEW t \in Turn, Handle(t) \/ Step(t) \/ Start(t) \/ Abort(t) PROVE RowInv'
  BY <1>1, RowByHandler, RowByWorking, RowMoved, RowAtLock DEF Step
<1>2. ASSUME UNCHANGED <<pc, row>> PROVE RowInv'
  BY <1>2 DEF RowInv
<1>3. ASSUME NEW t \in Turn, Work(t) PROVE RowInv'
  BY <1>2, <1>3 DEF Work, SessionReady, AgentFinishes, AgentFails, WorkerGivesUp,
     AgentInterrupted
<1>4. CASE Control \/ Strays
  BY <1>2, <1>4 DEF Control, RequestStop, ClearSelection, ActivateRuntime, Strays, StrayEnds
<1>5. CASE Crash
  <2>1. UNCHANGED row
    BY <1>5 DEF Crash
  <2>2. ASSUME NEW t \in Turn PROVE row[t] \in RowAt(pc'[t])
    <3>1. row[t] \in Status /\ RowAt("lost") = Status
      BY RowAtLabels DEF LockInv, TypeOK, Ended
    <3>2. pc'[t] = pc[t] \/ pc'[t] = "lost"
      BY <1>5 DEF Crash
    <3>3. QED
      BY <3>1, <3>2 DEF RowInv
  <2>3. QED
    BY <2>1, <2>2 DEF RowInv
<1>6. CASE UNCHANGED vars
  BY <1>2, <1>6 DEF vars
<1>7. QED
  BY <1>1, <1>3, <1>4, <1>5, <1>6 DEF Next

\* The row of a turn is where its task is: nothing but its own task moves it.
THEOREM RowCorrect == Spec => []RowInv
<1>1. Init => RowInv
  <2>1. RowAt("idle") = {"absent"}
    BY RowAtLabels
  <2>2. Init => \A t \in Turn : pc[t] = "idle" /\ row[t] = "absent"
    BY DEF Init
  <2>3. QED
    BY <2>1, <2>2 DEF RowInv
<1>2. QED
  BY <1>1, RowStep, LockCorrect, PTL DEF Spec

-----------------------------------------------------------------------------
(* The refinement                                                          *)

\* A step that moves no row, no owner and no announcement is a stutter.
LEMMA Stutter == UNCHANGED <<row, holder, announced>> => UNCHANGED Lifecycle!vars
BY DEF Lifecycle!vars

\* Whoever is inside owns its session.
LEMMA InsideOwns ==
    ASSUME LockInv, NEW t \in Turn, pc[t] \in Inside
    PROVE  Lifecycle!Owns(t)
BY DEF LockInv, LockOwner, Held, Lifecycle!Owns

\* Accepting a message is a Submit of the lifecycle or a stutter.
LEMMA HandlerRefines ==
    ASSUME LockInv, RowInv, NEW t \in Turn, Handle(t)
    PROVE  Lifecycle!Submit(t) \/ UNCHANGED Lifecycle!vars
<1>1. CASE CreateTurn(t)
  <2>1. row[t] = "absent"
    BY <1>1, RowAtLabels DEF CreateTurn, At, RowInv, Handler
  <2>2. QED
    BY <1>1, <2>1 DEF CreateTurn, Lifecycle!Submit, lockVars, seenVars
<1>2. CASE ~CreateTurn(t)
  BY <1>2, Stutter DEF Handle, Receive, SteerFallsBack, SteerAccepted, SteerRefused,
                       Accept, CopySession, CopySelection, CopyRuntime, CreateFails,
                       lockVars, seenVars
<1>3. QED
  BY <1>1, <1>2

\* A free lock taken is a Begin, a lock given up a Leave, a queued task a stutter.
LEMMA LockRefines ==
    ASSUME LockInv, RowInv, NEW t \in Turn, RequestLock(t) \/ ReleaseLock(t)
    PROVE  Lifecycle!Begin(t) \/ Lifecycle!Leave(t) \/ UNCHANGED Lifecycle!vars
<1> DEFINE s == SessionOf[t]
           next == Head(waiting[s])
<1>1. UNCHANGED <<row, announced>> /\ s \in Session
  BY Types DEF RequestLock, ReleaseLock, seenVars
<1>2. CASE RequestLock(t) /\ holder[s] = NoTurn
  <2>1. row[t] = "queued"
    BY <1>2, RowAtLabels DEF RequestLock, At, RowInv
  <2>2. QED
    BY <1>1, <1>2, <2>1 DEF RequestLock, Lifecycle!Begin
<1>3. CASE RequestLock(t) /\ holder[s] # NoTurn
  BY <1>1, <1>3, Stutter DEF RequestLock
<1>4. CASE ReleaseLock(t) /\ waiting[s] = <<>>
  <2>1. Lifecycle!Owns(t)
    BY <1>4, InsideOwns DEF ReleaseLock, At, Inside
  <2>2. holder' = [holder EXCEPT ![s] = NoTurn]
    BY <1>4 DEF ReleaseLock
  <2>3. QED
    BY <1>1, <2>1, <2>2 DEF Lifecycle!Leave
<1>5. CASE ReleaseLock(t) /\ waiting[s] # <<>>
  <2>1. Lifecycle!Owns(t) /\ pc[t] = "releasing"
    BY <1>5, InsideOwns DEF ReleaseLock, At, Inside
  <2>2. holder' = [holder EXCEPT ![s] = next]
    BY <1>5 DEF ReleaseLock
  <2>3. next \in Turn /\ pc[next] = "waiting"
    BY <1>1, <1>5, NextWaits
  <2>4. row[next] = "queued" /\ next # t
    BY <2>1, <2>3, RowAtLabels DEF RowInv
  <2>5. SessionOf[next] = s
    <3>1. waiting[s] \in Seq(Turn)
      BY <1>1 DEF LockInv, TypeOK
    <3>2. next = waiting[s][1] /\ 1 \in 1 .. Len(waiting[s])
      BY <1>5, <3>1
    <3>3. QED
      BY <1>1, <3>2 DEF LockInv, LockOwner, Queued
  <2>6. QED
    BY <1>1, <2>1, <2>2, <2>3, <2>4, <2>5 DEF Lifecycle!Leave
<1>6. QED
  BY <1>2, <1>3, <1>4, <1>5

\* The statements on the row and the final message are Run, Finish and Announce.
LEMMA OutcomeRefines ==
    ASSUME LockInv, RowInv, NEW t \in Turn,
           \/ MarkRunning(t) \/ CompleteTurn(t) \/ FailTurn(t)
           \/ PublishFinal(t) \/ PublishFailure(t)
    PROVE  \/ Lifecycle!Run(t) \/ Lifecycle!Finish(t) \/ Lifecycle!Announce(t)
           \/ UNCHANGED Lifecycle!vars
<1>1. UNCHANGED holder
  BY DEF MarkRunning, CompleteTurn, FailTurn, PublishFinal, PublishFailure, lockVars
<1>2. Lifecycle!Owns(t)
  BY InsideOwns DEF MarkRunning, CompleteTurn, FailTurn, PublishFinal, PublishFailure,
                    At, Inside
<1>3. CASE MarkRunning(t)
  <2>1. row[t] = "queued" /\ UNCHANGED announced
    BY <1>3, RowAtLabels DEF MarkRunning, At, RowInv, seenVars
  <2>2. QED
    BY <1>1, <1>2, <1>3, <2>1 DEF MarkRunning, Lifecycle!Run
<1>4. CASE CompleteTurn(t) \/ FailTurn(t)
  <2>1. row[t] = "running" /\ UNCHANGED announced
    BY <1>4, RowAtLabels DEF CompleteTurn, FailTurn, At, RowInv, Attached, seenVars
  <2>2. \/ row' = [row EXCEPT ![t] = "completed"]
        \/ row' = [row EXCEPT ![t] = "failed"]
        \/ UNCHANGED row
    BY <1>4 DEF CompleteTurn, FailTurn
  <2>3. QED
    BY <1>1, <1>2, <2>1, <2>2, Stutter DEF Lifecycle!Finish
<1>5. CASE PublishFinal(t) \/ PublishFailure(t)
  <2>1. row[t] \in {"running", "completed"} /\ UNCHANGED row
    BY <1>5, RowAtLabels DEF PublishFinal, PublishFailure, At, RowInv, Attached
  <2>2. announced' = announced \cup {t} \/ UNCHANGED announced
    BY <1>5 DEF PublishFinal, PublishFailure
  <2>3. CASE announced' = announced \cup {t} /\ t \notin announced
    BY <1>1, <1>2, <2>1, <2>3 DEF Lifecycle!Announce
  <2>4. CASE UNCHANGED announced \/ t \in announced
    BY <1>1, <2>1, <2>2, <2>4, Stutter
  <2>5. QED
    BY <2>2, <2>3, <2>4
<1>6. QED
  BY <1>3, <1>4, <1>5

\* Every other step of the service is a stutter of the lifecycle.
LEMMA QuietRefines ==
    ASSUME NEW t \in Turn,
           \/ SetStarting(t) \/ RecordMemory(t) \/ RecordSession(t) \/ RecordRuntime(t)
           \/ AttachCancel(t) \/ JoinCompletion(t) \/ ClearActive(t)
           \/ Start(t) \/ Work(t) \/ Abort(t)
    PROVE  UNCHANGED Lifecycle!vars
BY Stutter
   DEF SetStarting, RecordMemory, RecordSession, RecordRuntime, AttachCancel,
       JoinCompletion, ClearActive, Start, StartReturns, StartFails, Work, SessionReady,
       AgentFinishes, AgentFails, WorkerGivesUp, AgentInterrupted, Abort,
       lockVars, seenVars

\* The turn service keeps the promises of TurnLifecycle: one owner per session,
\* rows that only the owner moves along the documented diagram, and final
\* messages that come from the owner alone.
THEOREM Refinement == Spec => Lifecycle!Spec
<1>1. Init => Lifecycle!Init
  BY DEF Init, Lifecycle!Init
<1>2. LockInv /\ RowInv /\ [Next]_vars => [Lifecycle!Next]_Lifecycle!vars
  <2> SUFFICES ASSUME LockInv, RowInv, [Next]_vars PROVE [Lifecycle!Next]_Lifecycle!vars
    OBVIOUS
  <2>1. ASSUME NEW t \in Turn, Handle(t) \/ Step(t) \/ Start(t) \/ Work(t) \/ Abort(t)
        PROVE  [Lifecycle!Next]_Lifecycle!vars
    BY <2>1, HandlerRefines, LockRefines, OutcomeRefines, QuietRefines
       DEF Step, Lifecycle!Next
  <2>2. CASE Control \/ Strays
    BY <2>2, Stutter DEF Control, RequestStop, ClearSelection, ActivateRuntime, Strays, StrayEnds,
                         lockVars, seenVars
  <2>3. CASE Crash
    BY <2>3 DEF Crash, Lifecycle!Crash, Lifecycle!Next
  <2>4. CASE UNCHANGED vars
    BY <2>4, Stutter DEF vars
  <2>5. QED
    BY <2>1, <2>2, <2>3, <2>4 DEF Next
<1>3. QED
  BY <1>1, <1>2, LockCorrect, RowCorrect, PTL DEF Spec, Lifecycle!Spec

\* The same, named as the property that the runs check.
THEOREM TurnServiceImplementsLifecycle == Spec => ImplementsLifecycle
BY Refinement DEF ImplementsLifecycle

-----------------------------------------------------------------------------
(* The answer and the record of it                                         *)

\* Labels of a task that may have shown its final message.
Shown == {"failMarking", "clearing", "releasing", "done", "lost"}

\* The error branch is taken by a turn whose agent failed; who has shown a
\* final message has completed, or failed.
AnswerInv ==
    /\ \A t \in Turn : pc[t] \in {"failing", "failMarking"} => agent[t].phase = "err"
    /\ \A t \in announced : /\ pc[t] \in Shown
                            /\ row[t] = "completed" \/ agent[t].phase = "err"

\* Only turns are announced.
LEMMA AnnouncedAreTurns == LockInv => announced \subseteq Turn
BY DEF LockInv, TypeOK

\* A step of a turn that was not announced, and is not in the error branch.
LEMMA AnswerKept ==
    ASSUME LockInv, AnswerInv, UNCHANGED announced, NEW t \in Turn, t \notin announced,
           pc'[t] \notin {"failing", "failMarking"},
           \A u \in Turn : u # t => /\ pc'[u] = pc[u]
                                    /\ row'[u] = row[u]
                                    /\ agent'[u].phase = agent[u].phase
    PROVE  AnswerInv'
BY AnnouncedAreTurns DEF AnswerInv

\* A step that leaves rows, announcements and what agents said as they are,
\* and moves a task on without showing or failing.
LEMMA AnswerMoved ==
    ASSUME LockInv, AnswerInv, UNCHANGED <<announced, row>>, NEW t \in Turn,
           UNCHANGED agent, NEW l \in Label, Goto(t, l),
           pc[t] \in Shown => l \in Shown, l \notin {"failing", "failMarking"}
    PROVE  AnswerInv'
<1>1. \A u \in Turn : pc'[u] = IF u = t THEN l ELSE pc[u]
  BY Types DEF Goto
<1>2. QED
  BY <1>1, AnnouncedAreTurns DEF AnswerInv

\* The agent answers only while the turn is busy, so a failure stays one.
LEMMA AnswerByAgent ==
    ASSUME LockInv, AnswerInv, NEW t \in Turn, Work(t)
    PROVE  AnswerInv'
<1>1. UNCHANGED <<pc, row, announced>> /\ agent[t].phase = "busy"
  BY DEF Work, SessionReady, AgentFinishes, AgentFails, WorkerGivesUp,
     AgentInterrupted, seenVars
<1>2. \A u \in Turn : u # t => agent'[u] = agent[u]
  <2>1. agent \in [Turn -> Agent]
    BY DEF LockInv, TypeOK
  <2>2. \E e : agent' = [agent EXCEPT ![t] = e]
    <3>1. CASE SessionReady(t)
      BY <3>1, Zenon DEF SessionReady
    <3>2. CASE AgentFinishes(t)
      BY <3>2, Zenon DEF AgentFinishes
    <3>3. CASE AgentFails(t)
      BY <3>3, Zenon DEF AgentFails
    <3>4. CASE WorkerGivesUp(t)
      BY <3>4, Zenon DEF WorkerGivesUp
    <3>5. QED
      BY <3>1, <3>2, <3>3, <3>4 DEF Work, AgentInterrupted
  <2>3. QED
    BY <2>1, <2>2
<1>3. pc[t] \notin {"failing", "failMarking"}
  BY <1>1 DEF AnswerInv
<1>4. ASSUME NEW u \in announced
      PROVE  row[u] = "completed" \/ agent'[u].phase = "err"
  <2>1. CASE u = t
    BY <1>1, <1>4, <2>1 DEF AnswerInv
  <2>2. CASE u # t
    BY <1>2, <1>4, <2>2, AnnouncedAreTurns DEF AnswerInv
  <2>3. QED
    BY <2>1, <2>2
<1>5. QED
  BY <1>1, <1>2, <1>3, <1>4 DEF AnswerInv

\* The start of a turn keeps AnswerInv: the turn is not announced yet.
LEMMA AnswerAtStart ==
    ASSUME LockInv, AnswerInv, NEW t \in Turn, Start(t)
    PROVE  AnswerInv'
<1>1. pc[t] = "launching" /\ UNCHANGED <<row, announced>>
  BY DEF Start, StartReturns, StartFails, At, seenVars
<1>2. t \notin announced
  BY <1>1 DEF AnswerInv, Shown
<1>3. PICK l \in {"startMemory", "attaching", "clearing"} : Goto(t, l)
  BY DEF Start, StartReturns, StartFails
<1>4. \E e : agent' = [agent EXCEPT ![t] = e]
  <2>1. CASE StartReturns(t)
    BY <2>1, Zenon DEF StartReturns
  <2>2. CASE StartFails(t)
    BY <2>2, Zenon DEF StartFails
  <2>3. QED
    BY <2>1, <2>2 DEF Start
<1>5. agent \in [Turn -> Agent]
  BY DEF LockInv, TypeOK
<1>6. \A u \in Turn : u # t => agent'[u] = agent[u] /\ pc'[u] = pc[u]
  BY <1>3, <1>4, <1>5, Types DEF Goto
<1>7. pc'[t] = l
  BY <1>3, Types DEF Goto
<1>8. QED
  BY <1>1, <1>2, <1>6, <1>7, AnswerKept

\* The steps of handlers and tasks that show nothing and record no outcome.
LEMMA AnswerByQuiet ==
    ASSUME LockInv, AnswerInv, NEW t \in Turn,
           \/ Receive(t) \/ SteerFallsBack(t) \/ SteerAccepted(t) \/ SteerRefused(t)
           \/ Accept(t) \/ CreateFails(t) \/ RequestLock(t) \/ SetStarting(t)
           \/ RecordMemory(t) \/ RecordSession(t) \/ RecordRuntime(t)
           \/ AttachCancel(t) \/ ClearActive(t) \/ Abort(t)
    PROVE  AnswerInv'
<1> USE DEF Receive, SteerFallsBack, SteerAccepted, SteerRefused, Accept, CopySession,
            CopySelection, CopyRuntime, CreateFails,
            RequestLock, SetStarting, RecordMemory, RecordSession, RecordRuntime,
            AttachCancel, ClearActive, Abort
<1>1. UNCHANGED <<announced, row, agent>>
  BY DEF seenVars, agentVars
<1>2. \/ pc[t] = "clearing" /\ Goto(t, "releasing")
      \/ pc[t] \notin Shown /\ \E l \in {"steering", "accepting", "selecting", "copying",
             "steered", "rejected", "creating", "entering", "waiting", "marking",
             "startSession", "startRuntime", "attaching", "endSession", "endRuntime", "completing", "streaming",
             "clearing"} : Goto(t, l)
  BY DEF At, Shown
<1>3. /\ {"steering", "accepting", "selecting", "copying", "steered", "rejected", "creating",
          "entering", "waiting", "marking", "startSession", "startRuntime", "attaching", "endSession", "endRuntime",
          "completing", "streaming", "clearing", "releasing"} \subseteq Label
      /\ "releasing" \in Shown
  BY DEF Label, Handler, Task, Inside, Ended, Shown
<1>4. QED
  BY <1>1, <1>2, <1>3, AnswerMoved

\* The steps that record an outcome or show it.
LEMMA AnswerByOutcome ==
    ASSUME LockInv, RowInv, AnswerInv, NEW t \in Turn,
           \/ CreateTurn(t) \/ MarkRunning(t) \/ JoinCompletion(t) \/ CompleteTurn(t)
           \/ PublishFinal(t) \/ PublishFailure(t) \/ FailTurn(t)
    PROVE  AnswerInv'
<1> USE DEF seenVars, agentVars
<1>1. pc \in [Turn -> Label] /\ row \in [Turn -> Status]
  BY DEF LockInv, TypeOK
<1>2. CASE CreateTurn(t) \/ MarkRunning(t) \/ CompleteTurn(t)
  <2>1. /\ UNCHANGED <<announced, agent>> /\ pc[t] \in {"creating", "marking", "completing"}
        /\ \E l \in {"spawned", "launching", "announcing"} : Goto(t, l)
        /\ \E v \in {"queued", "running", "completed"} : row' = [row EXCEPT ![t] = v]
    BY <1>2 DEF CreateTurn, MarkRunning, CompleteTurn, At
  <2>2. t \notin announced
    BY <2>1 DEF AnswerInv, Shown
  <2>3. /\ pc'[t] \in {"spawned", "launching", "announcing"}
        /\ \A u \in Turn : u # t => pc'[u] = pc[u] /\ row'[u] = row[u]
    BY <1>1, <2>1 DEF Goto
  <2>4. QED
    BY <2>1, <2>2, <2>3, AnswerKept
<1>3. CASE JoinCompletion(t)
  <2>1. /\ UNCHANGED <<announced, row, agent>> /\ pc[t] = "streaming"
        /\ \/ Goto(t, "endMemory")
           \/ Goto(t, "failing") /\ agent[t].phase = "err"
    BY <1>3 DEF JoinCompletion, At
  <2>2. t \notin announced
    BY <2>1 DEF AnswerInv, Shown
  <2>3. /\ pc'[t] = "failing" => agent[t].phase = "err"
        /\ pc'[t] # "failMarking"
        /\ \A u \in Turn : u # t => pc'[u] = pc[u]
    BY <1>1, <2>1 DEF Goto
  <2>4. QED
    BY <2>1, <2>2, <2>3, AnnouncedAreTurns DEF AnswerInv
<1>4. CASE PublishFinal(t)
  <2>1. /\ pc[t] = "announcing" /\ UNCHANGED <<row, agent>>
        /\ announced' = announced \cup {t} /\ pc' = [pc EXCEPT ![t] = "clearing"]
    BY <1>4 DEF PublishFinal, At, Goto
  <2>2. row[t] = "completed"
    BY <2>1, RowAtLabels DEF RowInv
  <2>3. "clearing" \in Shown
    BY DEF Shown
  <2>4. QED
    BY <1>1, <2>1, <2>2, <2>3, AnnouncedAreTurns DEF AnswerInv
<1>5. CASE PublishFailure(t)
  <2>1. /\ pc[t] = "failing" /\ UNCHANGED <<row, agent>>
        /\ announced' = announced \cup {t} \/ announced' = announced
        /\ pc' = [pc EXCEPT ![t] = "failMarking"]
    BY <1>5 DEF PublishFailure, At, Goto
  <2>2. agent[t].phase = "err" /\ "failMarking" \in Shown
    BY <2>1 DEF AnswerInv, Shown
  <2>3. QED
    BY <1>1, <2>1, <2>2, AnnouncedAreTurns DEF AnswerInv
<1>6. CASE FailTurn(t)
  <2>1. /\ pc[t] = "failMarking" /\ UNCHANGED <<announced, agent>>
        /\ row' = [row EXCEPT ![t] = "failed"] \/ row' = row
        /\ pc' = [pc EXCEPT ![t] = "clearing"]
    BY <1>6 DEF FailTurn, At, Goto
  <2>2. agent[t].phase = "err" /\ "clearing" \in Shown
    BY <2>1 DEF AnswerInv, Shown
  <2>3. QED
    BY <1>1, <2>1, <2>2, AnnouncedAreTurns DEF AnswerInv
<1>7. QED
  BY <1>2, <1>3, <1>4, <1>5, <1>6

\* Taking and giving the lock keep AnswerInv.
LEMMA AnswerAtRelease ==
    ASSUME LockInv, AnswerInv, NEW t \in Turn, ReleaseLock(t)
    PROVE  AnswerInv'
<1> DEFINE s == SessionOf[t]
           next == Head(waiting[s])
<1>1. UNCHANGED <<row, announced, agent>> /\ s \in Session
  BY Types DEF ReleaseLock, seenVars, agentVars
<1>2. CASE waiting[s] = <<>>
  <2>1. Goto(t, "done") /\ "done" \in Label /\ "done" \in Shown
    BY <1>2 DEF ReleaseLock, Label, Ended, Shown
  <2>2. QED
    BY <1>1, <2>1, AnswerMoved
<1>3. CASE waiting[s] # <<>>
  <2>1. /\ pc' = [pc EXCEPT ![t] = "done", ![next] = "entering"]
        /\ next \in Turn /\ pc[next] = "waiting"
    BY <1>1, <1>3, NextWaits DEF ReleaseLock
  <2> HIDE DEF next
  <2>2. \A u \in Turn : pc'[u] = IF u = next THEN "entering"
                                 ELSE IF u = t THEN "done" ELSE pc[u]
    BY <2>1, Types
  <2>3. next \notin announced /\ "done" \in Shown
    BY <2>1 DEF AnswerInv, Shown
  <2>4. QED
    BY <1>1, <2>2, <2>3, AnnouncedAreTurns DEF AnswerInv
<1>4. QED
  BY <1>2, <1>3

\* A crash keeps AnswerInv.
LEMMA AnswerAtCrash ==
    ASSUME LockInv, AnswerInv, Crash
    PROVE  AnswerInv'
<1>1. UNCHANGED <<row, announced>>
  BY DEF Crash
<1>2. \A t \in Turn : pc'[t] = IF pc[t] \in Handler \cup Task THEN "lost" ELSE pc[t]
  BY DEF Crash
<1>3. \A t \in Turn : agent[t].phase = "err" => agent'[t] = agent[t]
  BY DEF Crash
<1>4. /\ {"failing", "failMarking"} \subseteq Handler \cup Task /\ "lost" \in Shown
  BY DEF Task, Inside, Shown
<1>5. QED
  BY <1>1, <1>2, <1>3, <1>4, AnnouncedAreTurns DEF AnswerInv

\* Every step of the service keeps AnswerInv.
LEMMA AnswerStep == LockInv /\ RowInv /\ AnswerInv /\ [Next]_vars => AnswerInv'
<1> SUFFICES ASSUME LockInv, RowInv, AnswerInv, [Next]_vars PROVE AnswerInv'
  OBVIOUS
<1>1. ASSUME NEW t \in Turn, Handle(t) \/ Step(t) \/ Abort(t) PROVE AnswerInv'
  BY <1>1, AnswerByQuiet, AnswerByOutcome, AnswerAtRelease DEF Handle, Step
<1>2. ASSUME NEW t \in Turn, Start(t) \/ Work(t) PROVE AnswerInv'
  BY <1>2, AnswerAtStart, AnswerByAgent
<1>3. ASSUME UNCHANGED <<pc, row, agent, announced>> PROVE AnswerInv'
  BY <1>3 DEF AnswerInv
<1>4. CASE Control \/ Strays
  BY <1>3, <1>4 DEF Control, RequestStop, ClearSelection, ActivateRuntime, Strays, StrayEnds,
     agentVars, seenVars
<1>5. CASE Crash
  BY <1>5, AnswerAtCrash
<1>6. CASE UNCHANGED vars
  BY <1>3, <1>6 DEF vars
<1>7. QED
  BY <1>1, <1>2, <1>4, <1>5, <1>6 DEF Next

\* The error branch and what was shown, of every turn at every time.
THEOREM AnswerCorrect == Spec => []AnswerInv
<1>1. Init => AnswerInv
  BY DEF Init, AnswerInv
<1>2. QED
  BY <1>1, AnswerStep, LockCorrect, RowCorrect, PTL DEF Spec

\* The user never sees the answer of a turn that a restart would not know to
\* be completed: complete_turn comes before the final message, always.
THEOREM AnswerIsRecorded == Spec => []AnswerIsRecordedBeforeSeen
<1>1. LockInv /\ AnswerInv => AnswerIsRecordedBeforeSeen
  BY AnnouncedAreTurns DEF AnswerInv, AnswerIsRecordedBeforeSeen
<1>2. QED
  BY <1>1, LockCorrect, AnswerCorrect, PTL

-----------------------------------------------------------------------------
(* The invariants                                                          *)

\* Labels of a message that is not accepted, and of a turn without an agent.
Unread == {"idle", "steering", "accepting", "selecting"}
Early == Unread \cup {"copying", "creating", "spawned", "waiting", "entering", "marking",
                         "launching"}

\* Labels of a task that has an agent and has not taken the error branch, and
\* of one whose agent has finished.
Finishing == {"endMemory", "endSession", "endRuntime", "completing", "announcing"}
Launched == {"startMemory", "startSession", "startRuntime", "attaching", "streaming"}
                \cup Finishing

\* A message carries nothing before it is accepted, a turn runs in a runtime and
\* has no agent before it is launched.
EarlyInv ==
    \A t \in Turn : /\ pc[t] \in Unread => snap[t].runtime = NoRuntime
                    /\ pc[t] \in {"copying", "creating"} \cup Task => snap[t].runtime \in Runtime
                    /\ pc[t] \in Early => /\ agent[t].phase = "none"
                                          /\ agent[t].ref = NoRef
                                          /\ agent[t].answer = NoTurn

\* Sessions that a runtime may ever name: the one it was imported with, or those
\* its own turns have opened.
Named == [r \in Runtime |->
             IF ImportedAs[r] # NoRef
               THEN {ImportedAs[r]}
               ELSE {u \in Turn : snap[u].runtime = r /\ agent[u].ref = u}]
NoName == [r \in Runtime |-> IF ImportedAs[r] # NoRef THEN {} ELSE {NoRef}]

\* The row of the runtime has been copied, and was not lost before.
HasCopy(t) == pc[t] \in {"creating"} \cup Task \/ agent[t].ref # NoRef

\* The row of a runtime and the copies of it name such a session; the agent of a
\* turn works in the session of the copy or in a new one.
RefInv ==
    /\ \A r \in Runtime : runtimeRow[r].ref \in Named[r] \cup NoName[r]
    /\ \A t \in Turn : \A r \in Runtime :
          snap[t].runtime = r /\ HasCopy(t) => snap[t].ref \in Named[r] \cup NoName[r]
    /\ \A t \in Turn : agent[t].ref # NoRef => /\ snap[t].runtime \in Runtime
                                               /\ agent[t].ref = SessionFor(t)

\* What TurnRenderState holds while it may be recorded.
RenderInv ==
    /\ \A t \in Turn : \A r \in Runtime :
          pc[t] \in {"startMemory", "startSession", "startRuntime"} /\ snap[t].runtime = r
              => render[t].ref \in Named[r]
    /\ \A t \in Turn : pc[t] \in Launched /\ agent[t].ref # NoRef
              => render[t].ref = agent[t].ref
    /\ \A t \in Turn : agent[t].phase = "ok" => agent[t].ref # NoRef
    /\ \A t \in Turn : pc[t] \in Finishing => agent[t].phase = "ok"
    /\ \A t \in Turn : pc[t] \in {"endMemory", "endSession", "endRuntime"}
              => render[t].last = agent[t].answer

\* The record of a turn that has completed is in the row of its runtime.
MemoryInv ==
    /\ \A t \in Turn : row[t] = "completed" => snap[t].runtime \in Runtime
    /\ \A t \in Turn : \A r \in Runtime :
          /\ snap[t].runtime = r
          /\ pc[t] = "completing" \/ row[t] = "completed"
          => /\ agent[t].phase = "ok"
             /\ runtimeRow[r].ref # NoRef
             /\ agent[t].answer # NoTurn => runtimeRow[r].last # NoTurn

\* Labels of a task after attach_cancel, and of one whose agent may be at work.
Past == Attached \cup {"clearing", "releasing", "done", "lost"}
AtWork == {"startMemory", "startSession", "startRuntime", "attaching", "streaming"}

\* Only a turn past attach_cancel is steered, and only launched turns are busy.
SteerInv ==
    /\ \A s \in Session : active[s].steerable => active[s].state = "running"
    /\ \A m \in Turn : pc[m] = "steering" => steerTo[m] \in Turn /\ pc[steerTo[m]] \in Past

BusyInv == EventsGoThrough => \A t \in Turn : agent[t].phase = "busy" => pc[t] \in AtWork

\* Whatever fails, a busy turn has its task or was deserted by it, and what the
\* agent goes on with was given up by the worker.
OwnedInv == \A t \in Turn : agent[t].phase = "busy" => pc[t] \in AtWork \/ Deserted(t)
AdriftInv == \A t \in adrift : agent[t].ref # NoRef /\ GivenUp(t)

\* Where nothing fails, a task that leaves the block has said so.
SilenceInv == Faults = {} =>
    \A t \in Turn : pc[t] \in {"failMarking", "clearing", "releasing", "done"}
                        => t \in announced

SessionsInv == EarlyInv /\ RefInv /\ RenderInv /\ MemoryInv

-----------------------------------------------------------------------------
(* One step, seen from one turn                                            *)

\* What the types say of the variables these proofs use most.
LEMMA Shapes ==
    ASSUME LockInv
    PROVE  /\ pc \in [Turn -> Label] /\ row \in [Turn -> Status]
           /\ snap \in [Turn -> Copy] /\ agent \in [Turn -> Agent]
           /\ render \in [Turn -> State] /\ runtimeRow \in [Runtime -> State]
           /\ registry \in [Session -> State] /\ steerTo \in [Turn -> Turn \cup {NoTurn}]
           /\ selected \in [Session -> Runtime \cup {NoRuntime}]
           /\ announced \subseteq Turn
           /\ \A t \in Turn : SessionOf[t] \in Session
           /\ NoTurn \notin Turn /\ NoRuntime \notin Runtime
           /\ NoRef \notin Turn /\ NoRef \notin Foreign /\ Turn \cap Foreign = {}
           /\ ImportedAs \in [Runtime -> Foreign \cup {NoRef}]
BY ConstantsAssumption DEF LockInv, TypeOK

\* What belongs to t and to nobody else.
Kept(t) == /\ snap'[t] = snap[t]
           /\ agent'[t] = agent[t]
           /\ render'[t] = render[t]
           /\ row'[t] = row[t]
           /\ steerTo'[t] = steerTo[t]
           /\ t \in announced' <=> t \in announced

\* Its label too, but for the lock that it may be handed.
Stays(t) == /\ Kept(t)
            /\ pc'[t] = pc[t] \/ (pc[t] = "waiting" /\ pc'[t] = "entering")

\* What a crash leaves of it.
Falls(t) == /\ pc'[t] = IF pc[t] \in Handler \cup Task THEN "lost" ELSE pc[t]
            /\ snap'[t] = snap[t]
            /\ render'[t] = render[t]
            /\ row'[t] = row[t]
            /\ steerTo'[t] = steerTo[t]
            /\ t \in announced' <=> t \in announced
            /\ agent'[t] = IF agent[t].phase = "busy" THEN [agent[t] EXCEPT !.phase = "gone"]
                                                      ELSE agent[t]

\* A step of another turn leaves this one where it is, or wakes it up.
LEMMA OthersStay ==
    ASSUME LockInv, NEW u \in Turn, NEW t \in Turn, t # u,
           Handle(u) \/ Step(u) \/ Start(u) \/ Work(u) \/ Abort(u)
    PROVE  Stays(t)
<1> USE Shapes DEF seenVars, agentVars, turnVars
<1>1. CASE Handle(u)
  BY <1>1 DEF Handle, Receive, SteerFallsBack, SteerAccepted, SteerRefused, Accept,
     CopySession, CopySelection, CopyRuntime,
     CreateTurn, CreateFails, Goto, Stays, Kept
<1>2. CASE RequestLock(u) \/ SetStarting(u) \/ MarkRunning(u) \/ RecordMemory(u)
              \/ RecordSession(u) \/ RecordRuntime(u) \/ AttachCancel(u)
  BY <1>2 DEF RequestLock, SetStarting, MarkRunning, RecordMemory, RecordSession,
     RecordRuntime, AttachCancel, Goto, Stays, Kept
<1>3. CASE JoinCompletion(u) \/ CompleteTurn(u) \/ PublishFinal(u) \/ PublishFailure(u)
              \/ FailTurn(u) \/ ClearActive(u)
  BY <1>3 DEF JoinCompletion, CompleteTurn, PublishFinal, PublishFailure, FailTurn,
     ClearActive, Goto, Stays, Kept
<1>4. CASE ReleaseLock(u)
  <2> DEFINE s == SessionOf[u]
  <2>1. Kept(t)
    BY <1>4 DEF ReleaseLock, Kept
  <2>2. CASE waiting[s] = <<>>
    BY <1>4, <2>1, <2>2 DEF ReleaseLock, Goto, Stays
  <2>3. CASE waiting[s] # <<>>
    <3>1. pc' = [pc EXCEPT ![u] = "done", ![Head(waiting[s])] = "entering"]
      BY <1>4, <2>3 DEF ReleaseLock
    <3>2. Head(waiting[s]) \in Turn /\ pc[Head(waiting[s])] = "waiting"
      BY <2>3, NextWaits
    <3>3. QED
      BY <2>1, <3>1, <3>2 DEF Stays
  <2>4. QED
    BY <2>2, <2>3
<1>5. CASE Start(u) \/ Work(u) \/ Abort(u)
  BY <1>5 DEF Start, StartReturns, StartFails, Work, SessionReady, AgentFinishes, AgentFails,
     WorkerGivesUp, AgentInterrupted, Abort, Goto, Stays, Kept
<1>6. QED
  BY <1>1, <1>2, <1>3, <1>4, <1>5 DEF Step

\* Whatever happens, it is a step of the turn itself, leaves it alone, or is the
\* crash of all.
LEMMA Seen ==
    ASSUME LockInv, [Next]_vars, NEW t \in Turn
    PROVE  \/ Handle(t) \/ Step(t) \/ Start(t) \/ Work(t) \/ Abort(t)
           \/ Stays(t)
           \/ Crash /\ Falls(t)
<1>1. ASSUME NEW u \in Turn, u # t, Handle(u) \/ Step(u) \/ Start(u) \/ Work(u) \/ Abort(u)
      PROVE  Stays(t)
  BY <1>1, OthersStay
<1>2. ASSUME Control \/ Strays \/ UNCHANGED vars PROVE Stays(t)
  BY <1>2 DEF Strays, StrayEnds, Control, RequestStop, ClearSelection, ActivateRuntime, vars, agentVars,
     turnVars, seenVars, Stays, Kept
<1>3. ASSUME Crash PROVE Falls(t)
  BY <1>3, Shapes DEF Crash, Falls
<1>4. QED
  BY <1>1, <1>2, <1>3 DEF Next


-----------------------------------------------------------------------------
(* Turns before they are launched                                          *)

\* Every step keeps EarlyInv: a message moves forward only.
LEMMA EarlyStep == LockInv /\ EarlyInv /\ [Next]_vars => EarlyInv'
<1> SUFFICES ASSUME LockInv, EarlyInv, [Next]_vars, NEW t \in Turn
             PROVE  /\ pc'[t] \in Unread => snap'[t].runtime = NoRuntime
                    /\ pc'[t] \in {"copying", "creating"} \cup Task => snap'[t].runtime \in Runtime
                    /\ pc'[t] \in Early => /\ agent'[t].phase = "none"
                                           /\ agent'[t].ref = NoRef
                                           /\ agent'[t].answer = NoTurn
  BY DEF EarlyInv
<1> USE Shapes
<1> USE DEF Unread, Early, Task, Inside, Handler
<1>1. /\ pc[t] \in Unread => snap[t].runtime = NoRuntime
      /\ pc[t] \in {"copying", "creating"} \cup Task => snap[t].runtime \in Runtime
      /\ pc[t] \in Early => /\ agent[t].phase = "none"
                            /\ agent[t].ref = NoRef
                            /\ agent[t].answer = NoTurn
  BY DEF EarlyInv
<1>2. CASE Stays(t)
  BY <1>1, <1>2 DEF Stays, Kept
<1>3. CASE Falls(t)
  BY <1>1, <1>3 DEF Falls
<1>4. CASE Accept(t)
  BY <1>1, <1>4 DEF Accept, CopySession, CopySelection, CopyRuntime, At, Goto, Copy, agentVars
<1>5. CASE Handle(t) /\ ~Accept(t)
  BY <1>1, <1>5 DEF Handle, Receive, SteerFallsBack, SteerAccepted, SteerRefused,
     CreateTurn, CreateFails, At, Goto, agentVars, turnVars
<1>6. CASE RequestLock(t) \/ SetStarting(t) \/ MarkRunning(t)
  BY <1>1, <1>6 DEF RequestLock, SetStarting, MarkRunning, At, Goto, agentVars, turnVars
<1>7. CASE Start(t) \/ Abort(t)
  BY <1>1, <1>7 DEF Start, StartReturns, StartFails, Abort, At, Goto, agentVars, turnVars
<1>8. CASE RecordMemory(t) \/ RecordSession(t) \/ RecordRuntime(t) \/ AttachCancel(t)
              \/ JoinCompletion(t) \/ CompleteTurn(t) \/ PublishFinal(t)
              \/ PublishFailure(t) \/ FailTurn(t) \/ ClearActive(t)
  BY <1>1, <1>8 DEF RecordMemory, RecordSession, RecordRuntime, AttachCancel,
     JoinCompletion, CompleteTurn, PublishFinal, PublishFailure, FailTurn, ClearActive,
     At, Goto, agentVars, turnVars
<1>9. CASE ReleaseLock(t)
  <2> DEFINE s == SessionOf[t]
  <2>1. pc[t] = "releasing" /\ snap' = snap /\ agent' = agent
    BY <1>9 DEF ReleaseLock, At, agentVars, turnVars
  <2>2. pc'[t] = "done"
    BY <1>9, <2>1, NextWaits DEF ReleaseLock, Goto
  <2>3. QED
    BY <1>1, <2>1, <2>2
<1>10. CASE Work(t)
  BY <1>1, <1>10 DEF Work, SessionReady, AgentFinishes, AgentFails, WorkerGivesUp,
     AgentInterrupted, At,
     turnVars
<1>11. QED
  BY <1>2, <1>3, <1>4, <1>5, <1>6, <1>7, <1>8, <1>9, <1>10, Seen DEF Step

-----------------------------------------------------------------------------
(* Which sessions a runtime names                                          *)

\* Only accept_turn fills in what a task goes by.
LEMMA SnapMoves ==
    ASSUME LockInv, [Next]_vars, NEW t \in Turn
    PROVE  snap'[t] = snap[t] \/ Accept(t)
<1>1. CASE Stays(t) \/ Falls(t)
  BY <1>1 DEF Stays, Kept, Falls
<1>2. CASE Handle(t) \/ Step(t) \/ Start(t) \/ Work(t) \/ Abort(t)
  BY <1>2 DEF Handle, Receive, SteerFallsBack, SteerAccepted, SteerRefused, CreateTurn,
     CreateFails, Step, RequestLock, SetStarting, MarkRunning, RecordMemory, RecordSession,
     RecordRuntime, AttachCancel, JoinCompletion, CompleteTurn, PublishFinal, PublishFailure,
     FailTurn, ClearActive, ReleaseLock, Start, StartReturns, StartFails, Work, SessionReady,
     AgentFinishes, AgentFails, WorkerGivesUp, AgentInterrupted, Abort, turnVars
<1>3. QED
  BY <1>1, <1>2, Seen

\* A task keeps its copies.
LEMMA SnapStays ==
    ASSUME LockInv, [Next]_vars, NEW t \in Turn, pc[t] \notin {"accepting", "selecting", "copying"}
    PROVE  snap'[t] = snap[t]
BY SnapMoves DEF Accept, CopySession, CopySelection, CopyRuntime, At

\* The runtime of a turn is chosen once.
LEMMA ChoiceStays ==
    ASSUME LockInv, EarlyInv, [Next]_vars, NEW t \in Turn, snap[t].runtime # NoRuntime
    PROVE  snap'[t].runtime = snap[t].runtime
<1>1. pc[t] \notin {"accepting", "selecting"}
  BY DEF EarlyInv, Unread
<1>2. CASE CopyRuntime(t)
  BY <1>2, Shapes DEF CopyRuntime, Copy
<1>3. CASE ~CopyRuntime(t)
  BY <1>1, <1>3, SnapMoves DEF Accept, CopySession, CopySelection, At
<1>4. QED
  BY <1>2, <1>3

\* An agent without a session is not heard of before the turn is launched.
LEMMA OpenedIsLate ==
    ASSUME EarlyInv, NEW t \in Turn, agent[t].ref # NoRef
    PROVE  pc[t] \notin Early
BY DEF EarlyInv

\* The steps that change the agent of a turn.
LEMMA AgentMoves ==
    ASSUME LockInv, [Next]_vars, NEW t \in Turn
    PROVE  \/ agent'[t] = agent[t]
           \/ Start(t) \/ Work(t)
           \/ Falls(t)
<1>1. CASE Stays(t)
  BY <1>1 DEF Stays, Kept
<1>2. CASE Handle(t) \/ Step(t) \/ Abort(t)
  BY <1>2 DEF Handle, Receive, SteerFallsBack, SteerAccepted, SteerRefused, Accept,
     CopySession, CopySelection, CopyRuntime, CreateTurn,
     CreateFails, Step, RequestLock, SetStarting, MarkRunning, RecordMemory, RecordSession,
     RecordRuntime, AttachCancel, JoinCompletion, CompleteTurn, PublishFinal, PublishFailure,
     FailTurn, ClearActive, ReleaseLock, Abort, agentVars
<1>3. QED
  BY <1>1, <1>2, Seen

\* A worker that gives a turn up leaves it in its session.
LEMMA GivingUpKeepsTheSession ==
    ASSUME LockInv, NEW t \in Turn, WorkerGivesUp(t)
    PROVE  agent'[t].ref = agent[t].ref
<1>1. agent \in [Turn -> Agent]
  BY Shapes
<1>2. CASE agent' = [agent EXCEPT ![t].phase = "err"]
  BY <1>1, <1>2 DEF Agent
<1>3. ASSUME NEW phase, NEW answer,
             agent' = [agent EXCEPT ![t].phase = phase, ![t].answer = answer]
      PROVE  agent'[t].ref = agent[t].ref
  BY <1>1, <1>3 DEF Agent
<1>4. QED
  BY <1>2, <1>3 DEF WorkerGivesUp

\* The session of an agent, once it has one, is its session for good.
LEMMA SessionStays ==
    ASSUME LockInv, EarlyInv, [Next]_vars, NEW t \in Turn, agent[t].ref # NoRef
    PROVE  agent'[t].ref = agent[t].ref
<1>1. ~Start(t)
  BY DEF EarlyInv, Early, Start, StartReturns, StartFails, At
<1>2. CASE Work(t)
  <2>0. agent \in [Turn -> Agent]
    BY Shapes
  <2>1. ~SessionReady(t)
    BY DEF SessionReady
  <2>2. CASE AgentFinishes(t)
    BY <2>0, <2>2 DEF AgentFinishes, Agent
  <2>3. CASE AgentFails(t)
    BY <2>0, <2>3 DEF AgentFails, Agent
  <2>4. CASE WorkerGivesUp(t)
    BY <2>4, GivingUpKeepsTheSession
  <2>5. QED
    BY <1>2, <2>1, <2>2, <2>3, <2>4 DEF Work, AgentInterrupted
<1>3. CASE Falls(t)
  BY <1>3 DEF Falls
<1>4. QED
  BY <1>1, <1>2, <1>3, AgentMoves

\* What a runtime may name it may name for good.
LEMMA NamedGrows ==
    ASSUME LockInv, EarlyInv, [Next]_vars, NEW r \in Runtime
    PROVE  Named[r] \subseteq Named'[r]
<1>1. CASE ImportedAs[r] # NoRef
  BY <1>1 DEF Named
<1>2. CASE ImportedAs[r] = NoRef
  <2>1. Named[r] = {u \in Turn : snap[u].runtime = r /\ agent[u].ref = u}
    BY <1>2 DEF Named
  <2>2. Named'[r] = {u \in Turn : snap'[u].runtime = r /\ agent'[u].ref = u}
    BY <1>2 DEF Named
  <2>3. ASSUME NEW u \in Turn, snap[u].runtime = r, agent[u].ref = u
        PROVE  snap'[u].runtime = r /\ agent'[u].ref = u
    BY <2>3, ChoiceStays, SessionStays, Shapes
  <2>4. QED
    BY <2>1, <2>2, <2>3
<1>3. QED
  BY <1>1, <1>2

\* The row of a runtime changes when a task records its ref there.
LEMMA RuntimeRowMoves ==
    ASSUME LockInv, [Next]_vars
    PROVE  UNCHANGED runtimeRow \/ \E t \in Turn : RecordRuntime(t)
<1> USE DEF stateVars
<1>1. ASSUME NEW t \in Turn, Handle(t) \/ Start(t) \/ Abort(t)
      PROVE  UNCHANGED runtimeRow
  BY <1>1 DEF Handle, Receive, SteerFallsBack, SteerAccepted, SteerRefused, Accept,
     CopySession, CopySelection, CopyRuntime, CreateTurn, CreateFails, Start, StartReturns,
     StartFails, Abort
<1>2. ASSUME NEW t \in Turn, Step(t)
      PROVE  UNCHANGED runtimeRow \/ RecordRuntime(t)
  BY <1>2 DEF Step, RequestLock, SetStarting, MarkRunning, RecordMemory, RecordSession,
     AttachCancel, JoinCompletion, CompleteTurn, PublishFinal, PublishFailure, FailTurn,
     ClearActive, ReleaseLock
<1>3. ASSUME NEW t \in Turn, Work(t)
      PROVE  UNCHANGED runtimeRow
  BY <1>3 DEF Work, SessionReady, AgentFinishes, AgentFails, WorkerGivesUp, AgentInterrupted
<1>4. Strays \/ Control \/ Crash \/ UNCHANGED vars => UNCHANGED runtimeRow
  BY DEF Strays, StrayEnds, Control, RequestStop, ClearSelection, ActivateRuntime, Crash, vars
<1>5. QED
  BY <1>1, <1>2, <1>3, <1>4 DEF Next

\* The session for a turn is one that its runtime may name, once it is open.
LEMMA OpenedIsNamed ==
    ASSUME LockInv, RefInv, NEW t \in Turn, NEW r \in Runtime, snap[t].runtime = r,
           agent[t].ref # NoRef
    PROVE  agent[t].ref \in Named[r]
<1>1. snap[t].ref \in Named[r] \cup NoName[r] /\ agent[t].ref = SessionFor(t)
  BY DEF RefInv, HasCopy
<1>2. CASE snap[t].ref = NoRef
  <2>1. ImportedAs[r] = NoRef /\ agent[t].ref = t
    BY <1>1, <1>2, Shapes DEF Named, NoName, SessionFor
  <2>2. QED
    BY <2>1 DEF Named
<1>3. CASE snap[t].ref # NoRef
  BY <1>1, <1>3 DEF SessionFor, NoName
<1>4. QED
  BY <1>2, <1>3

\* A name is never NoRef.
LEMMA NamesAreRefs ==
    ASSUME LockInv, NEW r \in Runtime
    PROVE  Named[r] \subseteq Ref /\ NoRef \notin Named[r] /\ NoName[r] \subseteq {NoRef}
BY Shapes DEF Named, NoName, Ref

\* What a task records is a session that its runtime may name.
LEMMA RecordedIsNamed ==
    ASSUME LockInv, RefInv, RenderInv, NEW t \in Turn, NEW r \in Runtime, snap[t].runtime = r,
           pc[t] \in {"startMemory", "startSession", "startRuntime",
                      "endMemory", "endSession", "endRuntime"}
    PROVE  render[t].ref \in Named[r]
<1>1. CASE pc[t] \in {"startMemory", "startSession", "startRuntime"}
  BY <1>1 DEF RenderInv
<1>2. CASE pc[t] \in {"endMemory", "endSession", "endRuntime"}
  <2>1. agent[t].ref # NoRef /\ render[t].ref = agent[t].ref
    BY <1>2 DEF RenderInv, Finishing, Launched
  <2>2. QED
    BY <2>1, OpenedIsNamed
<1>3. QED
  BY <1>1, <1>2

\* The row of a runtime goes from one session it may name to another.
LEMMA RowsNameTheirs ==
    ASSUME LockInv, EarlyInv, RefInv, RenderInv, [Next]_vars, NEW r \in Runtime
    PROVE  runtimeRow'[r].ref \in Named'[r] \cup NoName[r]
<1>1. Named[r] \subseteq Named'[r] /\ runtimeRow[r].ref \in Named[r] \cup NoName[r]
  BY NamedGrows DEF RefInv
<1>2. ASSUME NEW t \in Turn, RecordRuntime(t) PROVE runtimeRow'[r].ref \in Named'[r] \cup NoName[r]
  <2>1. pc[t] \in {"startRuntime", "endRuntime"} /\ snap[t].runtime \in Runtime
    BY <1>2 DEF RecordRuntime, EarlyInv, Task, Inside
  <2>2. runtimeRow' = [runtimeRow EXCEPT ![snap[t].runtime] =
                          Coalesced(snap[t].runtime, Recorded(t))]
    BY <1>2 DEF RecordRuntime
  <2>3. CASE snap[t].runtime = r
    <3>1. render[t].ref \in Named[r] /\ render[t].ref # NoRef
      BY <2>1, <2>3, RecordedIsNamed, NamesAreRefs
    <3>2. runtimeRow'[r].ref = render[t].ref
      BY <2>2, <2>3, <3>1, Shapes DEF Coalesced, Recorded
    <3>3. QED
      BY <1>1, <3>1, <3>2
  <2>4. CASE snap[t].runtime # r
    BY <1>1, <2>2, <2>4, Shapes
  <2>5. QED
    BY <2>3, <2>4
<1>3. QED
  BY <1>1, <1>2, RuntimeRowMoves

\* A turn that has a copy made it in this step or had it before.
LEMMA CopyIsOlder ==
    ASSUME LockInv, [Next]_vars, NEW t \in Turn, ~CopyRuntime(t),
           \/ pc'[t] \in {"creating"} \cup Task
           \/ agent'[t].ref # NoRef
    PROVE  HasCopy(t)
<1> USE Shapes DEF Task, Inside, Handler
<1>1. ASSUME pc'[t] \in {"creating"} \cup Task PROVE pc[t] \in {"creating"} \cup Task
  <2>1. CASE Stays(t)
    BY <1>1, <2>1 DEF Stays
  <2>2. CASE Falls(t)
    BY <1>1, <2>2 DEF Falls
  <2>3. CASE Handle(t)
    BY <1>1, <2>3 DEF Handle, Receive, SteerFallsBack, SteerAccepted, SteerRefused, Accept,
       CopySession, CopySelection, CreateTurn, CreateFails, At, Goto
  <2>4. CASE Step(t)
    BY <2>4 DEF Step, RequestLock, SetStarting, MarkRunning, RecordMemory, RecordSession,
       RecordRuntime, AttachCancel, JoinCompletion, CompleteTurn, PublishFinal, PublishFailure,
       FailTurn, ClearActive, ReleaseLock, At
  <2>5. CASE Start(t) \/ Abort(t)
    BY <2>5 DEF Start, StartReturns, StartFails, Abort, At
  <2>6. CASE Work(t)
    BY <1>1, <2>6 DEF Work, SessionReady, AgentFinishes, AgentFails, WorkerGivesUp,
       AgentInterrupted
  <2>7. QED
    BY <2>1, <2>2, <2>3, <2>4, <2>5, <2>6, Seen
<1>2. ASSUME agent'[t].ref # NoRef, agent[t].ref = NoRef PROVE pc[t] \in Task
  <2>1. ~Falls(t)
    BY <1>2 DEF Falls, Agent
  <2>2. Start(t) \/ Work(t)
    BY <1>2, <2>1, AgentMoves
  <2>3. CASE Start(t)
    BY <2>3 DEF Start, StartReturns, StartFails, At
  <2>4. CASE SessionReady(t)
    BY <2>4 DEF SessionReady, At
  <2>5. ~AgentFinishes(t) /\ ~WorkerGivesUp(t)
    BY <1>2 DEF AgentFinishes, WorkerGivesUp
  <2>6. ~AgentFails(t)
    BY <1>2 DEF AgentFails, Agent
  <2>7. QED
    BY <2>2, <2>3, <2>4, <2>5, <2>6 DEF Work, AgentInterrupted
<1>3. QED
  BY <1>1, <1>2 DEF HasCopy

\* So do the copies that tasks take of it.
LEMMA CopiesNameTheirs ==
    ASSUME LockInv, EarlyInv, RefInv, [Next]_vars, NEW t \in Turn, NEW r \in Runtime,
           snap'[t].runtime = r,
           \/ pc'[t] \in {"creating"} \cup Task
           \/ agent'[t].ref # NoRef
    PROVE  snap'[t].ref \in Named'[r] \cup NoName[r]
<1>1. Named[r] \subseteq Named'[r]
  BY NamedGrows
<1>2. CASE CopyRuntime(t)
  <2>1. snap'[t].ref = runtimeRow[r].ref
    BY <1>2, Shapes DEF CopyRuntime, Copy
  <2>2. QED
    BY <1>1, <2>1 DEF RefInv
<1>3. CASE ~CopyRuntime(t)
  <2>1. HasCopy(t)
    BY <1>3, CopyIsOlder
  <2>2. pc[t] \notin {"accepting", "selecting", "copying"}
    BY <2>1, OpenedIsLate DEF HasCopy, Early, Unread, Task, Inside
  <2>3. snap'[t] = snap[t]
    BY <2>2, SnapStays
  <2>4. QED
    BY <1>1, <2>1, <2>3 DEF RefInv
<1>4. QED
  BY <1>2, <1>3

\* An agent works in the session of the copy or in a new one.
LEMMA AgentsKeepToTheirs ==
    ASSUME LockInv, EarlyInv, RefInv, [Next]_vars, NEW t \in Turn, agent'[t].ref # NoRef
    PROVE  snap'[t].runtime \in Runtime /\ agent'[t].ref = SessionFor(t)'
<1>1. CASE agent[t].ref # NoRef
  <2>1. snap[t].runtime \in Runtime /\ agent[t].ref = SessionFor(t)
    BY <1>1 DEF RefInv
  <2>2. snap'[t] = snap[t] /\ agent'[t].ref = agent[t].ref
    BY <1>1, OpenedIsLate, SnapStays, SessionStays DEF Early, Unread
  <2>3. QED
    BY <2>1, <2>2 DEF SessionFor
<1>2. CASE agent[t].ref = NoRef
  <2>1. Start(t) \/ Work(t)
    <3>1. Falls(t) => agent'[t].ref = agent[t].ref
      BY Shapes DEF Falls, Agent
    <3>2. QED
      BY <1>2, <3>1, AgentMoves
  <2>2. CASE StartReturns(t)
    <3>1. snap[t].runtime \in Runtime
      BY <2>2 DEF StartReturns, At, EarlyInv, Task, Inside
    <3>2. snap' = snap /\ agent'[t].ref = SessionFor(t)
      BY <2>2, Shapes DEF StartReturns
    <3>3. QED
      BY <3>1, <3>2 DEF SessionFor
  <2>3. CASE StartFails(t)
    BY <1>2, <2>3, Shapes DEF StartFails
  <2>4. CASE SessionReady(t)
    <3>1. snap[t].runtime \in Runtime
      BY <2>4 DEF SessionReady, At, EarlyInv, Task, Inside
    <3>2. snap' = snap /\ agent'[t].ref = SessionFor(t)
      BY <2>4, Shapes DEF SessionReady
    <3>3. QED
      BY <3>1, <3>2 DEF SessionFor
  <2>5. CASE AgentFinishes(t)
    BY <1>2, <2>5 DEF AgentFinishes
  <2>6. CASE AgentFails(t)
    BY <1>2, <2>6, Shapes DEF AgentFails
  <2>7. CASE WorkerGivesUp(t)
    BY <1>2, <2>7 DEF WorkerGivesUp
  <2>8. QED
    BY <2>1, <2>2, <2>3, <2>4, <2>5, <2>6, <2>7 DEF Start, Work, AgentInterrupted
<1>3. QED
  BY <1>1, <1>2

\* Every step keeps RefInv.
LEMMA RefStep == LockInv /\ EarlyInv /\ RefInv /\ RenderInv /\ [Next]_vars => RefInv'
<1> SUFFICES ASSUME LockInv, EarlyInv, RefInv, RenderInv, [Next]_vars PROVE RefInv'
  OBVIOUS
<1>1. NoName' = NoName
  BY DEF NoName
<1>2. \A r \in Runtime : runtimeRow'[r].ref \in Named'[r] \cup NoName'[r]
  BY <1>1, RowsNameTheirs
<1>3. \A t \in Turn : \A r \in Runtime :
         snap'[t].runtime = r /\ HasCopy(t)' => snap'[t].ref \in Named'[r] \cup NoName'[r]
  BY <1>1, CopiesNameTheirs DEF HasCopy, Task, Inside
<1>4. \A t \in Turn : agent'[t].ref # NoRef => /\ snap'[t].runtime \in Runtime
                                               /\ agent'[t].ref = SessionFor(t)'
  BY AgentsKeepToTheirs
<1>5. QED
  BY <1>2, <1>3, <1>4 DEF RefInv


-----------------------------------------------------------------------------
(* What is recorded                                                        *)

\* The steps that change what TurnRenderState holds of a turn.
LEMMA RenderMoves ==
    ASSUME LockInv, [Next]_vars, NEW t \in Turn
    PROVE  render'[t] = render[t] \/ StartReturns(t) \/ SessionReady(t) \/ JoinCompletion(t)
<1>1. CASE Stays(t) \/ Falls(t)
  BY <1>1 DEF Stays, Kept, Falls
<1>2. CASE Handle(t) \/ Step(t) \/ Start(t) \/ Work(t) \/ Abort(t)
  BY <1>2 DEF Handle, Receive, SteerFallsBack, SteerAccepted, SteerRefused, Accept,
     CopySession, CopySelection, CopyRuntime, CreateTurn,
     CreateFails, Step, RequestLock, SetStarting, MarkRunning, RecordMemory, RecordSession,
     RecordRuntime, AttachCancel, CompleteTurn, PublishFinal, PublishFailure,
     FailTurn, ClearActive, ReleaseLock, Start, StartFails, Work, AgentFinishes, AgentFails,
     WorkerGivesUp, AgentInterrupted, Abort, turnVars
<1>3. QED
  BY <1>1, <1>2, Seen

\* How a task comes to a label between its launch and its final message.
LEMMA Arrivals ==
    ASSUME LockInv, [Next]_vars, NEW t \in Turn
    PROVE  /\ pc'[t] \in {"startMemory", "attaching"} /\ pc[t] # pc'[t]
                 => StartReturns(t) \/ (RecordRuntime(t) /\ pc[t] = "startRuntime")
           /\ pc'[t] = "startSession" /\ pc[t] # pc'[t] => pc[t] = "startMemory"
           /\ pc'[t] = "startRuntime" /\ pc[t] # pc'[t] => pc[t] = "startSession"
           /\ pc'[t] = "streaming" /\ pc[t] # pc'[t] => AttachCancel(t)
           /\ pc'[t] = "endMemory" /\ pc[t] # pc'[t] => /\ JoinCompletion(t)
                                                        /\ agent[t].phase = "ok"
                                                        /\ render'[t].last = agent[t].answer
           /\ pc'[t] = "endSession" /\ pc[t] # pc'[t] => pc[t] = "endMemory"
           /\ pc'[t] = "endRuntime" /\ pc[t] # pc'[t] => pc[t] = "endSession"
           /\ pc'[t] = "completing" /\ pc[t] # pc'[t] => RecordRuntime(t) /\ pc[t] = "endRuntime"
           /\ pc'[t] = "announcing" /\ pc[t] # pc'[t] => pc[t] = "completing"
<1> USE Shapes
<1>1. CASE Stays(t)
  BY <1>1 DEF Stays
<1>2. CASE Falls(t)
  BY <1>2 DEF Falls
<1>3. CASE Handle(t)
  BY <1>3 DEF Handle, Receive, SteerFallsBack, SteerAccepted, SteerRefused, Accept,
     CopySession, CopySelection, CopyRuntime, CreateTurn,
     CreateFails, Goto
<1>4. CASE RequestLock(t) \/ SetStarting(t) \/ MarkRunning(t) \/ CompleteTurn(t)
              \/ PublishFinal(t) \/ PublishFailure(t) \/ FailTurn(t) \/ ClearActive(t)
  BY <1>4 DEF RequestLock, SetStarting, MarkRunning, CompleteTurn, PublishFinal,
     PublishFailure, FailTurn, ClearActive, Goto, At
<1>5. CASE RecordMemory(t) \/ RecordSession(t) \/ RecordRuntime(t) \/ AttachCancel(t)
  BY <1>5 DEF RecordMemory, RecordSession, RecordRuntime, AttachCancel, Goto, At
<1>6. CASE JoinCompletion(t)
  BY <1>6 DEF JoinCompletion, Goto, At, State
<1>7. CASE ReleaseLock(t)
  BY <1>7, NextWaits DEF ReleaseLock, Goto, At
<1>8. CASE Start(t) \/ Abort(t)
  BY <1>8 DEF Start, StartReturns, StartFails, Abort, Goto
<1>9. CASE Work(t)
  BY <1>9 DEF Work, SessionReady, AgentFinishes, AgentFails, WorkerGivesUp,
     AgentInterrupted
<1>10. QED
  BY <1>1, <1>2, <1>3, <1>4, <1>5, <1>6, <1>7, <1>8, <1>9, Seen DEF Step


\* An agent that has finished is not heard of again.
LEMMA OkStays ==
    ASSUME LockInv, EarlyInv, [Next]_vars, NEW t \in Turn, agent[t].phase = "ok"
    PROVE  agent'[t] = agent[t]
<1>1. ~Start(t)
  BY DEF EarlyInv, Early, Start, StartReturns, StartFails, At
<1>2. ~Work(t)
  BY DEF Work, SessionReady, AgentFinishes, AgentFails, WorkerGivesUp,
     AgentInterrupted
<1>3. Falls(t) => agent'[t] = agent[t]
  BY DEF Falls
<1>4. QED
  BY <1>1, <1>2, <1>3, AgentMoves

\* What a starting task records.
LEMMA StartingRender ==
    ASSUME LockInv, EarlyInv, RefInv, RenderInv, [Next]_vars, NEW t \in Turn, NEW r \in Runtime,
           pc'[t] \in {"startMemory", "startSession", "startRuntime"}, snap'[t].runtime = r
    PROVE  render'[t].ref \in Named'[r]
<1>1. Named[r] \subseteq Named'[r]
  BY NamedGrows
<1>2. CASE StartReturns(t)
  <2> DEFINE ref == IF Kind[snap[t].runtime] = "codex" THEN SessionFor(t) ELSE snap[t].ref
  <2>1. /\ snap' = snap /\ render'[t].ref = ref /\ ref # NoRef
        /\ Kind[snap[t].runtime] = "codex" => agent'[t].ref = SessionFor(t)
    BY <1>2, Shapes DEF StartReturns, Goto
  <2>2. snap[t].ref \in Named[r] \cup NoName[r]
    BY <1>2, <2>1 DEF RefInv, HasCopy, StartReturns, At, Task, Inside
  <2>3. CASE snap[t].ref # NoRef
    BY <1>1, <2>1, <2>2, <2>3, NamesAreRefs DEF SessionFor
  <2>4. CASE snap[t].ref = NoRef
    <3>1. ref = t /\ agent'[t].ref = t
      BY <2>1, <2>4 DEF SessionFor
    <3>2. ImportedAs[r] = NoRef
      BY <2>2, <2>4, Shapes DEF Named, NoName
    <3>3. QED
      BY <2>1, <3>1, <3>2 DEF Named
  <2>5. QED
    BY <2>3, <2>4
<1>3. CASE ~StartReturns(t)
  <2>1. pc[t] \in {"startMemory", "startSession", "startRuntime"}
    BY <1>3, Arrivals
  <2>2. snap'[t] = snap[t]
    BY <2>1, SnapStays
  <2>3. render'[t] = render[t]
    BY <2>1, RenderMoves DEF StartReturns, SessionReady, JoinCompletion, At
  <2>4. QED
    BY <1>1, <2>1, <2>2, <2>3 DEF RenderInv
<1>4. QED
  BY <1>2, <1>3

\* What TurnRenderState shows is the session the agent works in.
LEMMA RenderFollows ==
    ASSUME LockInv, EarlyInv, RenderInv, [Next]_vars, NEW t \in Turn, pc'[t] \in Launched,
           agent'[t].ref # NoRef
    PROVE  render'[t].ref = agent'[t].ref
<1>1. CASE StartReturns(t)
  BY <1>1, Shapes DEF StartReturns
<1>2. CASE SessionReady(t)
  BY <1>2, Shapes DEF SessionReady
<1>3. CASE ~StartReturns(t) /\ ~SessionReady(t)
  <2>1. pc[t] \in Launched
    BY <1>3, Arrivals DEF Launched, Finishing, AttachCancel, JoinCompletion, RecordRuntime, At
  <2>2. ~Start(t)
    BY <2>1 DEF Launched, Finishing, Start, StartReturns, StartFails, At
  <2>3. agent'[t].ref = agent[t].ref
    <3>1. Falls(t) => agent'[t].ref = agent[t].ref
      BY Shapes DEF Falls, Agent
    <3>2. AgentFinishes(t) => agent'[t].ref = agent[t].ref
      BY Shapes DEF AgentFinishes
    <3>3. AgentFails(t) => agent'[t].ref = agent[t].ref
      BY Shapes DEF AgentFails
    <3>4. WorkerGivesUp(t) => agent'[t].ref = agent[t].ref
      BY GivingUpKeepsTheSession
    <3>5. QED
      BY <1>3, <2>2, <3>1, <3>2, <3>3, <3>4, AgentMoves DEF Work, AgentInterrupted
  <2>4. render'[t].ref = render[t].ref
    <3>1. JoinCompletion(t) => render'[t].ref = render[t].ref
      BY Shapes DEF JoinCompletion, State
    <3>2. QED
      BY <1>3, <3>1, RenderMoves
  <2>5. QED
    BY <2>1, <2>3, <2>4 DEF RenderInv
<1>4. QED
  BY <1>1, <1>2, <1>3

\* An agent finishes in its session.
LEMMA OkHasSession ==
    ASSUME LockInv, EarlyInv, RenderInv, [Next]_vars, NEW t \in Turn, agent'[t].phase = "ok"
    PROVE  agent'[t].ref # NoRef
<1>1. CASE agent[t].phase = "ok"
  BY <1>1, OkStays DEF RenderInv
<1>2. CASE agent[t].phase # "ok"
  <2>1. ~Start(t)
    BY Shapes DEF Agent, Start, StartReturns, StartFails
  <2>2. ~Falls(t)
    BY <1>2, Shapes DEF Falls, Agent
  <2>3. ~SessionReady(t)
    BY <1>2, Shapes DEF Agent, SessionReady
  <2>4. ~AgentFails(t)
    BY Shapes DEF Agent, AgentFails
  <2>5. AgentFinishes(t) \/ WorkerGivesUp(t)
    BY <1>2, <2>1, <2>2, <2>3, <2>4, AgentMoves DEF Work, AgentInterrupted
  <2>6. agent[t].ref # NoRef
    BY <2>5 DEF AgentFinishes, WorkerGivesUp
  <2>7. QED
    BY <2>6, SessionStays
<1>3. QED
  BY <1>1, <1>2

\* A task finishes after its agent, with the answer of that agent.
LEMMA FinishingIsOk ==
    ASSUME LockInv, EarlyInv, RenderInv, [Next]_vars, NEW t \in Turn, pc'[t] \in Finishing
    PROVE  /\ agent'[t].phase = "ok"
           /\ pc'[t] \in {"endMemory", "endSession", "endRuntime"}
                 => render'[t].last = agent'[t].answer
<1>1. CASE pc[t] \in Finishing
  <2>1. agent[t].phase = "ok" /\ agent'[t] = agent[t]
    BY <1>1, OkStays DEF RenderInv
  <2>2. render'[t] = render[t]
    BY <1>1, RenderMoves DEF Finishing, StartReturns, SessionReady, JoinCompletion, At
  <2>3. pc'[t] \in {"endMemory", "endSession", "endRuntime"}
           => pc[t] \in {"endMemory", "endSession", "endRuntime"}
    BY <1>1, Arrivals DEF Finishing, JoinCompletion, At
  <2>4. QED
    BY <2>1, <2>2, <2>3 DEF RenderInv
<1>2. CASE pc[t] \notin Finishing
  <2>1. /\ pc'[t] = "endMemory" /\ agent[t].phase = "ok"
        /\ render'[t].last = agent[t].answer
    BY <1>2, Arrivals DEF Finishing
  <2>2. QED
    BY <2>1, OkStays
<1>3. QED
  BY <1>1, <1>2

\* Every step keeps RenderInv.
LEMMA RenderStep == LockInv /\ EarlyInv /\ RefInv /\ RenderInv /\ [Next]_vars => RenderInv'
<1> SUFFICES ASSUME LockInv, EarlyInv, RefInv, RenderInv, [Next]_vars PROVE RenderInv'
  OBVIOUS
<1>1. \A t \in Turn : \A r \in Runtime :
         pc'[t] \in {"startMemory", "startSession", "startRuntime"} /\ snap'[t].runtime = r
             => render'[t].ref \in Named'[r]
  BY StartingRender
<1>2. \A t \in Turn : pc'[t] \in Launched' /\ agent'[t].ref # NoRef
         => render'[t].ref = agent'[t].ref
  BY RenderFollows DEF Launched, Finishing
<1>3. \A t \in Turn : agent'[t].phase = "ok" => agent'[t].ref # NoRef
  BY OkHasSession
<1>4. \A t \in Turn : pc'[t] \in Finishing' => agent'[t].phase = "ok"
  BY FinishingIsOk DEF Finishing
<1>5. \A t \in Turn : pc'[t] \in {"endMemory", "endSession", "endRuntime"}
         => render'[t].last = agent'[t].answer
  BY FinishingIsOk DEF Finishing
<1>6. QED
  BY <1>1, <1>2, <1>3, <1>4, <1>5 DEF RenderInv


-----------------------------------------------------------------------------
(* What is left of a completed turn                                        *)

\* Only complete_turn completes a row.
LEMMA RowCompletes ==
    ASSUME LockInv, RowInv, [Next]_vars, NEW t \in Turn, row'[t] = "completed",
           row[t] # "completed"
    PROVE  pc[t] = "completing"
<1>1. CASE Stays(t) \/ Falls(t)
  BY <1>1 DEF Stays, Kept, Falls
<1>2. CASE CreateTurn(t) \/ MarkRunning(t) \/ FailTurn(t)
  BY <1>2, Shapes DEF CreateTurn, MarkRunning, FailTurn
<1>3. CASE CompleteTurn(t)
  BY <1>3 DEF CompleteTurn, At
<1>4. CASE \/ Handle(t) /\ ~CreateTurn(t)
           \/ Step(t) /\ ~MarkRunning(t) /\ ~CompleteTurn(t) /\ ~FailTurn(t)
           \/ Start(t) \/ Work(t) \/ Abort(t)
  BY <1>4 DEF Handle, Receive, SteerFallsBack, SteerAccepted, SteerRefused, Accept,
     CopySession, CopySelection, CopyRuntime, CreateFails,
     Step, RequestLock, SetStarting, RecordMemory, RecordSession, RecordRuntime, AttachCancel,
     JoinCompletion, PublishFinal, PublishFailure, ClearActive, ReleaseLock, Start,
     StartReturns,
     StartFails, Work, SessionReady, AgentFinishes, AgentFails, WorkerGivesUp,
     AgentInterrupted, Abort
<1>5. QED
  BY <1>1, <1>2, <1>3, <1>4, Seen

\* COALESCE: no statement wipes what the row of a runtime has.
LEMMA NothingIsWiped ==
    ASSUME LockInv, EarlyInv, [Next]_vars, NEW r \in Runtime
    PROVE  /\ runtimeRow[r].ref # NoRef => runtimeRow'[r].ref # NoRef
           /\ runtimeRow[r].last # NoTurn => runtimeRow'[r].last # NoTurn
<1>1. ASSUME NEW t \in Turn, RecordRuntime(t)
      PROVE  /\ runtimeRow[r].ref # NoRef => runtimeRow'[r].ref # NoRef
             /\ runtimeRow[r].last # NoTurn => runtimeRow'[r].last # NoTurn
  <2>1. runtimeRow' = [runtimeRow EXCEPT ![snap[t].runtime] =
                          Coalesced(snap[t].runtime, Recorded(t))]
    BY <1>1 DEF RecordRuntime
  <2>2. CASE snap[t].runtime = r
    BY <2>1, <2>2, Shapes DEF Coalesced
  <2>3. CASE snap[t].runtime # r
    BY <2>1, <2>3, Shapes
  <2>4. QED
    BY <2>2, <2>3
<1>2. QED
  BY <1>1, RuntimeRowMoves

\* The record of a turn comes before its row is completed, and stays.
LEMMA RecordIsKept ==
    ASSUME LockInv, RowInv, EarlyInv, RefInv, RenderInv, MemoryInv, [Next]_vars,
           NEW t \in Turn, NEW r \in Runtime, snap'[t].runtime = r,
           pc'[t] = "completing" \/ row'[t] = "completed"
    PROVE  /\ agent'[t].phase = "ok"
           /\ runtimeRow'[r].ref # NoRef
           /\ agent'[t].answer # NoTurn => runtimeRow'[r].last # NoTurn
<1>1. CASE pc[t] = "completing" \/ row[t] = "completed"
  <2>1. pc[t] \notin {"accepting", "selecting", "copying"}
    BY <1>1, RowAtLabels DEF RowInv, Handler
  <2>2. snap'[t] = snap[t]
    BY <2>1, SnapStays
  <2>3. /\ agent[t].phase = "ok"
        /\ runtimeRow[r].ref # NoRef
        /\ agent[t].answer # NoTurn => runtimeRow[r].last # NoTurn
    BY <1>1, <2>2 DEF MemoryInv
  <2>4. QED
    BY <2>3, OkStays, NothingIsWiped
<1>2. CASE pc[t] # "completing" /\ row[t] # "completed"
  <2>1. RecordRuntime(t) /\ pc[t] = "endRuntime"
    BY <1>2, Arrivals, RowCompletes
  <2>2. /\ snap' = snap
        /\ runtimeRow' = [runtimeRow EXCEPT ![r] = Coalesced(r, Recorded(t))]
    BY <2>1 DEF RecordRuntime, turnVars
  <2>3. agent[t].phase = "ok" /\ agent'[t] = agent[t]
    BY <2>1, OkStays DEF RenderInv, Finishing
  <2>4. render[t].ref = agent[t].ref /\ render[t].ref # NoRef /\ render[t].last = agent[t].answer
    BY <2>1, <2>3 DEF RenderInv, Launched, Finishing
  <2>5. Recorded(t).ref # NoRef /\ Recorded(t).last = agent[t].answer
    BY <2>1, <2>4 DEF Recorded
  <2>6. runtimeRow'[r] = Coalesced(r, Recorded(t))
    BY <2>2, Shapes
  <2>7. QED
    BY <2>3, <2>5, <2>6 DEF Coalesced
<1>3. QED
  BY <1>1, <1>2

\* Every step keeps MemoryInv.
LEMMA MemoryStep ==
    LockInv /\ RowInv /\ EarlyInv /\ RefInv /\ RenderInv /\ MemoryInv /\ [Next]_vars => MemoryInv'
<1> SUFFICES ASSUME LockInv, RowInv, EarlyInv, RefInv, RenderInv, MemoryInv, [Next]_vars
             PROVE  MemoryInv'
  OBVIOUS
<1>1. ASSUME NEW t \in Turn, row'[t] = "completed" PROVE snap'[t].runtime \in Runtime
  <2>1. pc[t] = "completing" \/ row[t] = "completed"
    BY <1>1, RowCompletes
  <2>2. pc[t] \notin {"accepting", "selecting", "copying"} /\ snap[t].runtime \in Runtime
    BY <2>1, RowAtLabels DEF RowInv, Handler, MemoryInv, EarlyInv, Task, Inside
  <2>3. QED
    BY <2>2, SnapStays
<1>2. QED
  BY <1>1, RecordIsKept DEF MemoryInv

LEMMA SessionsStart == Init => SessionsInv
<1> SUFFICES ASSUME Init PROVE SessionsInv
  OBVIOUS
<1>1. EarlyInv
  <2>1. "idle" \notin {"copying", "creating"} \cup Task
    BY DEF Task, Inside
  <2>2. ASSUME NEW t \in Turn
        PROVE  /\ pc[t] = "idle" /\ snap[t].runtime = NoRuntime
               /\ agent[t].phase = "none" /\ agent[t].ref = NoRef /\ agent[t].answer = NoTurn
    BY DEF Init
  <2>3. QED
    BY <2>1, <2>2 DEF EarlyInv
<1>2. RefInv
  <2>1. \A t \in Turn : snap[t].runtime = NoRuntime /\ agent[t].ref = NoRef
    BY DEF Init
  <2>2. \A r \in Runtime : runtimeRow[r].ref \in Named[r] \cup NoName[r]
    BY ConstantsAssumption DEF Init, Named, NoName
  <2>3. QED
    BY <2>1, <2>2, ConstantsAssumption DEF RefInv
<1>3. RenderInv /\ MemoryInv
  <2>1. \A t \in Turn : /\ pc[t] = "idle" /\ snap[t].runtime = NoRuntime
                        /\ agent[t].phase = "none" /\ agent[t].ref = NoRef /\ row[t] = "absent"
    BY DEF Init
  <2>2. QED
    BY <2>1, ConstantsAssumption DEF RenderInv, MemoryInv, Launched, Finishing
<1>4. QED
  BY <1>1, <1>2, <1>3 DEF SessionsInv

\* The inductive invariant of what is kept of the agents, on top of those of the
\* locks and the rows.
THEOREM SessionsCorrect == Spec => []SessionsInv
<1>1. LockInv /\ RowInv /\ SessionsInv /\ [Next]_vars => SessionsInv'
  BY EarlyStep, RefStep, RenderStep, MemoryStep DEF SessionsInv
<1>2. QED
  BY <1>1, SessionsStart, LockCorrect, RowCorrect, PTL DEF Spec

\* The session a runtime names is the one it was imported with or one that its
\* own turns have opened, whatever chats select and wipe in between, and whatever
\* refs run_turn starts from.
THEOREM RefsBelongToRuntimes == Spec => []RuntimeNamesItsSession
<1>1. LockInv /\ SessionsInv => RuntimeNamesItsSession
  BY DEF SessionsInv, RefInv, Named, NoName, RuntimeNamesItsSession
<1>2. QED
  BY <1>1, LockCorrect, SessionsCorrect, PTL

\* A completed turn is remembered: the row of its runtime names a session in
\* which a turn of that runtime has worked, and an answer if it gave one, however
\* turns of other chats and failed turns record theirs.
THEOREM CompletedTurnsAreRemembered == Spec => []CompletedTurnIsRemembered
<1>1. LockInv /\ RowInv /\ SessionsInv => CompletedTurnIsRemembered
  <2> SUFFICES ASSUME LockInv, RowInv, EarlyInv, RefInv, RenderInv, MemoryInv,
                      NEW t \in Turn, row[t] = "completed"
               PROVE  /\ \E u \in Turn : /\ snap[u].runtime = snap[t].runtime
                                         /\ runtimeRow[snap[t].runtime].ref = agent[u].ref
                      /\ agent[t].answer # NoTurn => runtimeRow[snap[t].runtime].last # NoTurn
    BY DEF CompletedTurnIsRemembered, SessionsInv
  <2> DEFINE r == snap[t].runtime
  <2>1. r \in Runtime
    BY DEF MemoryInv
  <2>2. /\ agent[t].phase = "ok" /\ runtimeRow[r].ref # NoRef
        /\ agent[t].answer # NoTurn => runtimeRow[r].last # NoTurn
    BY <2>1 DEF MemoryInv
  <2>3. runtimeRow[r].ref \in Named[r]
    BY <2>1, <2>2, NamesAreRefs DEF RefInv
  <2>4. CASE ImportedAs[r] # NoRef
    <3>1. agent[t].ref # NoRef
      BY <2>2 DEF RenderInv
    <3>2. agent[t].ref \in Named[r]
      BY <2>1, <3>1, OpenedIsNamed
    <3>3. runtimeRow[r].ref = agent[t].ref
      BY <2>1, <2>3, <2>4, <3>2 DEF Named
    <3>4. QED
      BY <2>2, <3>3
  <2>5. CASE ImportedAs[r] = NoRef
    <3>1. \E u \in Turn : snap[u].runtime = r /\ agent[u].ref = u /\ runtimeRow[r].ref = u
      BY <2>1, <2>3, <2>5 DEF Named
    <3>2. QED
      BY <2>2, <3>1
  <2>6. QED
    BY <2>4, <2>5
<1>2. QED
  BY <1>1, LockCorrect, RowCorrect, SessionsCorrect, PTL


-----------------------------------------------------------------------------
(* Turns at work                                                           *)

\* Where no task leaves early, an agent is at work only under its task.
LEMMA BusyStep == LockInv /\ BusyInv /\ [Next]_vars => BusyInv'
<1> SUFFICES ASSUME LockInv, BusyInv, [Next]_vars, EventsGoThrough, NEW t \in Turn,
                    agent'[t].phase = "busy"
             PROVE  pc'[t] \in AtWork'
  BY DEF BusyInv, EventsGoThrough
<1> USE Shapes DEF AtWork
<1>1. CASE Stays(t)
  BY <1>1 DEF Stays, Kept, BusyInv
<1>2. CASE Falls(t)
  BY <1>2 DEF Falls, Agent
<1>3. CASE StartReturns(t)
  BY <1>3 DEF StartReturns, Goto
<1>4. CASE StartFails(t)
  BY <1>4 DEF StartFails, Agent
<1>5. CASE ~Start(t) /\ ~Falls(t) /\ ~Stays(t)
  <2>1. agent[t].phase = "busy" /\ pc[t] \in AtWork
    <3>1. CASE Work(t)
      BY <3>1 DEF Work, SessionReady, AgentFinishes, AgentFails, WorkerGivesUp,
         AgentInterrupted, BusyInv
    <3>2. CASE ~Work(t)
      BY <1>5, <3>2, AgentMoves DEF BusyInv
    <3>3. QED
      BY <3>1, <3>2
  <2>2. CASE Work(t)
    BY <2>1, <2>2 DEF Work, SessionReady, AgentFinishes, AgentFails, WorkerGivesUp,
       AgentInterrupted
  <2>3. ~Abort(t)
    BY DEF Abort, EventsGoThrough
  <2>4. CASE Handle(t) \/ Step(t)
    BY <2>1, <2>4 DEF Handle, Receive, SteerFallsBack, SteerAccepted, SteerRefused, Accept,
       CopySession, CopySelection, CopyRuntime,
       CreateTurn, CreateFails, Step, RequestLock, SetStarting, MarkRunning, RecordMemory,
       RecordSession, RecordRuntime, AttachCancel, JoinCompletion, CompleteTurn, PublishFinal,
       PublishFailure, FailTurn, ClearActive, ReleaseLock, At, Goto
  <2>5. QED
    BY <1>5, <2>2, <2>3, <2>4, Seen
<1>6. QED
  BY <1>1, <1>2, <1>3, <1>4, <1>5 DEF Start

THEOREM BusyCorrect == Spec => []BusyInv
<1>1. Init => BusyInv
  BY DEF Init, BusyInv
<1>2. QED
  BY <1>1, BusyStep, LockCorrect, PTL DEF Spec

\* Every step keeps OwnedInv: a task that leaves its block early has shown nothing.
LEMMA OwnedStep == LockInv /\ AnswerInv /\ OwnedInv /\ [Next]_vars => OwnedInv'
<1> SUFFICES ASSUME LockInv, AnswerInv, OwnedInv, [Next]_vars, NEW t \in Turn,
                    agent'[t].phase = "busy"
             PROVE  pc'[t] \in AtWork' \/ Deserted(t)'
  BY DEF OwnedInv
<1> USE Shapes DEF AtWork, Deserted
<1>1. CASE Stays(t)
  BY <1>1 DEF Stays, Kept, OwnedInv
<1>2. CASE Falls(t)
  BY <1>2 DEF Falls, Agent
<1>3. CASE StartReturns(t)
  BY <1>3 DEF StartReturns, Goto
<1>4. CASE StartFails(t)
  BY <1>4 DEF StartFails, Agent
<1>5. CASE ~Start(t) /\ ~Falls(t) /\ ~Stays(t)
  <2>1. agent[t].phase = "busy"
    <3>1. CASE Work(t)
      BY <3>1 DEF Work, SessionReady, AgentFinishes, AgentFails, WorkerGivesUp, AgentInterrupted
    <3>2. CASE ~Work(t)
      BY <1>5, <3>2, AgentMoves
    <3>3. QED
      BY <3>1, <3>2
  <2>2. pc[t] \in AtWork \/ Deserted(t)
    BY <2>1 DEF OwnedInv
  <2>3. pc[t] \in AtWork => t \notin announced
    BY DEF AnswerInv, Shown
  <2>4. CASE Work(t)
    BY <2>2, <2>4 DEF Work, SessionReady, AgentFinishes, AgentFails, WorkerGivesUp,
       AgentInterrupted, seenVars
  <2>5. CASE Abort(t)
    BY <2>2, <2>3, <2>5 DEF Abort, Goto, seenVars
  <2>6. CASE Handle(t)
    BY <2>2, <2>6 DEF Handle, Receive, SteerFallsBack, SteerAccepted, SteerRefused, Accept,
       CopySession, CopySelection, CopyRuntime, CreateTurn, CreateFails, At
  <2>7. CASE RecordMemory(t) \/ RecordSession(t) \/ RecordRuntime(t) \/ AttachCancel(t)
    BY <2>2, <2>7 DEF RecordMemory, RecordSession, RecordRuntime, AttachCancel, At, Goto
  <2>8. CASE ClearActive(t) \/ ReleaseLock(t)
    BY <2>2, <2>8, NextWaits DEF ClearActive, ReleaseLock, At, Goto, seenVars
  <2>9. ~JoinCompletion(t)
    BY <2>1 DEF JoinCompletion
  <2>10. CASE RequestLock(t) \/ SetStarting(t) \/ MarkRunning(t) \/ CompleteTurn(t)
                \/ PublishFinal(t) \/ PublishFailure(t) \/ FailTurn(t)
    BY <2>2, <2>10 DEF RequestLock, SetStarting, MarkRunning, CompleteTurn, PublishFinal,
       PublishFailure, FailTurn, At
  <2>11. QED
    BY <1>5, <2>4, <2>5, <2>6, <2>7, <2>8, <2>9, <2>10, Seen DEF Step
<1>6. QED
  BY <1>1, <1>2, <1>3, <1>4, <1>5 DEF Start

\* A turn goes adrift when its worker gives it up, and a stop is never taken back.
LEMMA AdriftMoves ==
    ASSUME LockInv, [Next]_vars, NEW t \in Turn
    PROVE  /\ t \in adrift' => t \in adrift \/ WorkerGivesUp(t)
           /\ t \in adrift' => ~Crash
           /\ t \in stopped => t \in stopped'
<1> USE DEF agentVars, seenVars
<1>1. ASSUME NEW u \in Turn, Handle(u) \/ Step(u) \/ Start(u) \/ Abort(u)
      PROVE  UNCHANGED <<adrift, stopped>>
  BY <1>1 DEF Handle, Receive, SteerFallsBack, SteerAccepted, SteerRefused, Accept, CreateTurn,
     CopySession, CopySelection, CopyRuntime,
     CreateFails, Step, RequestLock, SetStarting, MarkRunning, RecordMemory, RecordSession,
     RecordRuntime, AttachCancel, JoinCompletion, CompleteTurn, PublishFinal, PublishFailure,
     FailTurn, ClearActive, ReleaseLock, Start, StartReturns, StartFails, Abort
<1>2. ASSUME NEW u \in Turn, Work(u)
      PROVE  /\ UNCHANGED stopped
             /\ adrift' = adrift \/ WorkerGivesUp(u)
             /\ WorkerGivesUp(u) => adrift' = adrift \cup {u}
  <2>1. WorkerGivesUp(u) => UNCHANGED stopped /\ adrift' = adrift \cup {u}
    BY DEF WorkerGivesUp
  <2>2. SessionReady(u) \/ AgentFinishes(u) \/ AgentFails(u) => UNCHANGED <<adrift, stopped>>
    BY DEF SessionReady, AgentFinishes, AgentFails
  <2>3. QED
    BY <1>2, <2>1, <2>2 DEF Work, AgentInterrupted
<1>3. ASSUME Strays
      PROVE  UNCHANGED stopped /\ adrift' \subseteq adrift
  BY <1>3 DEF Strays, StrayEnds
<1>4. ASSUME Control
      PROVE  UNCHANGED adrift /\ (t \in stopped => t \in stopped')
  BY <1>4 DEF Control, RequestStop, ClearSelection, ActivateRuntime
<1>5. ASSUME Crash
      PROVE  UNCHANGED stopped /\ adrift' = {}
  BY <1>5 DEF Crash
<1>6. ASSUME UNCHANGED vars
      PROVE  UNCHANGED <<adrift, stopped>>
  BY <1>6 DEF vars
<1>7. CASE \E u \in Turn : Handle(u) \/ Step(u) \/ Start(u) \/ Work(u) \/ Abort(u)
  <2>1. PICK u \in Turn : Handle(u) \/ Step(u) \/ Start(u) \/ Work(u) \/ Abort(u)
    BY <1>7
  <2>2. Crash => adrift' = {}
    BY <1>5
  <2>3. QED
    BY <2>1, <2>2, <1>1, <1>2
<1>8. QED
  BY <1>3, <1>4, <1>5, <1>6, <1>7 DEF Next

\* A failure of an agent is final.
LEMMA ErrStays ==
    ASSUME LockInv, EarlyInv, [Next]_vars, NEW t \in Turn, agent[t].phase = "err"
    PROVE  agent'[t] = agent[t]
<1>1. ~Start(t)
  BY DEF EarlyInv, Early, Start, StartReturns, StartFails, At
<1>2. ~Work(t)
  BY DEF Work, SessionReady, AgentFinishes, AgentFails, WorkerGivesUp, AgentInterrupted
<1>3. Falls(t) => agent'[t] = agent[t]
  BY DEF Falls
<1>4. QED
  BY <1>1, <1>2, <1>3, AgentMoves

\* What a failed Codex turn has left stays where it is.
LEMMA LeftOverStays ==
    ASSUME LockInv, EarlyInv, RefInv, [Next]_vars, NEW t \in Turn, agent[t].ref # NoRef,
           LeftOver(t)
    PROVE  LeftOver(t)'
<1>1. PICK u \in Turn \ {t} : /\ agent[u].phase = "err"
                               /\ Kind[snap[u].runtime] = "codex"
                               /\ agent[u].ref = agent[t].ref
  BY DEF LeftOver
<1>2. agent'[u] = agent[u] /\ agent'[t].ref = agent[t].ref
  BY <1>1, ErrStays, SessionStays
<1>3. snap'[u] = snap[u]
  BY <1>1, OpenedIsLate, SnapStays DEF Early, Unread
<1>4. QED
  BY <1>1, <1>2, <1>3 DEF LeftOver

\* Every step keeps AdriftInv.
LEMMA AdriftStep ==
    /\ LockInv /\ LockInv'
    /\ EarlyInv /\ RefInv /\ StopInv /\ AdriftInv /\ [Next]_vars
    => AdriftInv'
<1> SUFFICES ASSUME LockInv, LockInv', EarlyInv, RefInv, StopInv, AdriftInv, [Next]_vars,
                    NEW t \in adrift'
             PROVE  agent'[t].ref # NoRef /\ (t \in stopped' \/ LeftOver(t)')
  BY DEF AdriftInv, GivenUp
<1>1. t \in Turn
  BY DEF LockInv, TypeOK
<1>2. CASE t \in adrift
  <2>1. agent[t].ref # NoRef /\ (t \in stopped \/ LeftOver(t))
    BY <1>2 DEF AdriftInv, GivenUp
  <2>2. QED
    BY <1>1, <2>1, AdriftMoves, SessionStays, LeftOverStays
<1>3. CASE t \notin adrift
  <2>1. WorkerGivesUp(t)
    BY <1>1, <1>3, AdriftMoves
  <2>2. agent[t].ref # NoRef /\ (t \in cancelled \/ LeftOver(t))
    BY <2>1 DEF WorkerGivesUp
  <2>3. t \in cancelled => t \in stopped
    BY DEF StopInv
  <2>4. QED
    BY <1>1, <2>2, <2>3, AdriftMoves, SessionStays, LeftOverStays
<1>4. QED
  BY <1>2, <1>3

THEOREM OwnersCorrect == Spec => [](OwnedInv /\ AdriftInv)
<1>1. Init => OwnedInv /\ AdriftInv
  BY DEF Init, OwnedInv, AdriftInv
<1>2. SessionsInv => EarlyInv /\ RefInv
  BY DEF SessionsInv
<1>3. QED
  BY <1>1, <1>2, OwnedStep, AdriftStep, LockCorrect, AnswerCorrect, StopCorrect, SessionsCorrect,
     PTL DEF Spec

\* A chat has one turn at work at its agents, unless the worker has given one up
\* (after a stop, or because of what a failed turn has left in the thread) or its
\* task has deserted it: for all faults, and with nothing left after a crash.
THEOREM OneTurnAtWork == Spec => []ChatHasOneTurnAtWork
<1>1. LockInv /\ OwnedInv /\ AdriftInv => ChatHasOneTurnAtWork
  <2> SUFFICES ASSUME LockInv, OwnedInv, AdriftInv, NEW t \in Turn, NEW u \in Turn,
                      SessionOf[t] = SessionOf[u], AgentWorksAt(t), AgentWorksAt(u),
                      ~GivenUp(t), ~Deserted(t), ~GivenUp(u), ~Deserted(u)
               PROVE  t = u
    BY DEF ChatHasOneTurnAtWork
  <2>1. agent[t].phase = "busy" /\ agent[u].phase = "busy"
    BY DEF AgentWorksAt, AdriftInv
  <2>2. pc[t] \in Inside /\ pc[u] \in Inside
    BY <2>1 DEF OwnedInv, AtWork, Inside
  <2>3. QED
    BY <2>2, Alone
<1>2. QED
  BY <1>1, LockCorrect, OwnersCorrect, PTL

-----------------------------------------------------------------------------
(* Steers                                                                  *)

\* A task that has attached its cancel handle never goes back.
LEMMA PastIsPast ==
    ASSUME LockInv, [Next]_vars, NEW t \in Turn, pc[t] \in Past
    PROVE  pc'[t] \in Past
<1> USE Shapes DEF Past, Attached
<1>1. CASE Stays(t)
  BY <1>1 DEF Stays
<1>2. CASE Falls(t)
  BY <1>2 DEF Falls
<1>3. CASE Handle(t) \/ Start(t) \/ Work(t) \/ Abort(t)
  BY <1>3 DEF Handle, Receive, SteerFallsBack, SteerAccepted, SteerRefused, Accept,
     CopySession, CopySelection, CopyRuntime,
     CreateTurn, CreateFails, Start, StartReturns, StartFails, Work, SessionReady,
     AgentFinishes, AgentFails, WorkerGivesUp, AgentInterrupted, Abort, At, Goto
<1>4. CASE Step(t) /\ ~ReleaseLock(t)
  BY <1>4 DEF Step, RequestLock, SetStarting, MarkRunning, RecordMemory, RecordSession,
     RecordRuntime, AttachCancel, JoinCompletion, CompleteTurn, PublishFinal,
     PublishFailure, FailTurn, ClearActive, At, Goto
<1>5. CASE ReleaseLock(t)
  BY <1>5, NextWaits DEF ReleaseLock, At, Goto
<1>6. QED
  BY <1>1, <1>2, <1>3, <1>4, <1>5, Seen

\* An entry that takes steers belongs to a task past attach_cancel.
LEMMA SteerableIsPast ==
    ASSUME LockInv, EntryInv, StopInv, SteerInv, NEW s \in Session, active[s].steerable
    PROVE  active[s].turn \in Turn /\ pc[active[s].turn] \in Past
<1>1. active[s] # NoEntry /\ active[s].turn \in Turn /\ active[s].state = "running"
  BY Types DEF SteerInv, NoEntry
<1>2. active[s].turn = holder[s] /\ pc[holder[s]] \in Registered
  BY <1>1 DEF EntryInv
<1>3. SessionOf[holder[s]] = s
  BY <1>1, <1>2, Shapes DEF LockInv, LockOwner, Held
<1>4. pc[holder[s]] \notin Starting
  BY <1>1, <1>2, <1>3 DEF StopInv
<1>5. Registered \subseteq Starting \cup Past
  BY DEF Registered, Inside, Starting, Attached, Past
<1>6. QED
  BY <1>1, <1>2, <1>4, <1>5

\* Only attach_cancel makes an entry steerable, and it makes it running.
LEMMA SteerableIsRunning ==
    ASSUME LockInv, SteerInv, [Next]_vars, NEW s \in Session, active'[s].steerable
    PROVE  active'[s].state = "running"
<1>1. active \in [Session -> Entry \cup {NoEntry}]
  BY DEF LockInv, TypeOK
<1>2. active[s].steerable => active[s].state = "running"
  BY DEF SteerInv
<1>3. ASSUME NEW t \in Turn, SetStarting(t) \/ AttachCancel(t) \/ ClearActive(t)
      PROVE  active'[s].state = "running"
  BY <1>1, <1>2, <1>3, Shapes DEF SetStarting, AttachCancel, ClearActive, NoEntry
<1>4. ASSUME NEW q \in Session, RequestStop(q) PROVE active'[s].state = "running"
  BY <1>1, <1>2, <1>4 DEF RequestStop, Entry
<1>5. CASE Crash
  BY <1>5 DEF Crash, NoEntry
<1>6. CASE UNCHANGED active
  BY <1>2, <1>6
<1>7. QED
  BY <1>3, <1>4, <1>5, <1>6 DEF Next, Handle, Receive, SteerFallsBack, SteerAccepted,
     SteerRefused, Accept, CopySession, CopySelection, CopyRuntime, CreateTurn, CreateFails,
     Step, RequestLock, MarkRunning, RecordMemory,
     RecordSession, RecordRuntime, JoinCompletion, CompleteTurn, PublishFinal, PublishFailure,
     FailTurn, ReleaseLock, Start, StartReturns, StartFails, Work, SessionReady, AgentFinishes,
     AgentFails, WorkerGivesUp, AgentInterrupted, Abort, Strays, StrayEnds, Control, ClearSelection,
     ActivateRuntime, vars

\* A message that waits to be steered names a turn past attach_cancel.
LEMMA SteeredIsPast ==
    ASSUME LockInv, EntryInv, StopInv, SteerInv, [Next]_vars, NEW m \in Turn,
           pc'[m] = "steering"
    PROVE  steerTo'[m] \in Turn /\ pc'[steerTo'[m]] \in Past
<1>1. CASE Receive(m)
  <2>1. active[SessionOf[m]].steerable /\ steerTo'[m] = active[SessionOf[m]].turn
    BY <1>1, Shapes DEF Receive, Goto
  <2>2. QED
    BY <2>1, SteerableIsPast, PastIsPast, Shapes
<1>2. CASE ~Receive(m)
  <2>1. pc[m] = "steering" /\ steerTo'[m] = steerTo[m]
    <3>1. CASE Stays(m) \/ Falls(m)
      BY <3>1 DEF Stays, Kept, Falls, Handler
    <3>2. CASE Handle(m) \/ Step(m) \/ Start(m) \/ Work(m) \/ Abort(m)
      BY <1>2, <3>2, NextWaits, Shapes DEF Handle, SteerFallsBack, SteerAccepted, SteerRefused,
         Accept, CopySession, CopySelection, CopyRuntime, CreateTurn, CreateFails, Step,
         RequestLock, SetStarting, MarkRunning,
         RecordMemory, RecordSession, RecordRuntime, AttachCancel, JoinCompletion, CompleteTurn,
         PublishFinal, PublishFailure, FailTurn, ClearActive, ReleaseLock, Start, StartReturns,
         StartFails, Work, SessionReady, AgentFinishes, AgentFails, WorkerGivesUp,
         AgentInterrupted, Abort,
         At, Goto, turnVars
    <3>3. QED
      BY <3>1, <3>2, Seen
  <2>2. QED
    BY <2>1, PastIsPast DEF SteerInv
<1>3. QED
  BY <1>1, <1>2

THEOREM SteerCorrect == Spec => []SteerInv
<1>1. Init => SteerInv
  BY DEF Init, SteerInv, NoEntry
<1>2. LockInv /\ EntryInv /\ StopInv /\ SteerInv /\ [Next]_vars => SteerInv'
  <2> SUFFICES ASSUME LockInv, EntryInv, StopInv, SteerInv, [Next]_vars PROVE SteerInv'
    OBVIOUS
  <2>1. \A m \in Turn : pc'[m] = "steering" => /\ steerTo'[m] \in Turn
                                               /\ pc'[steerTo'[m]] \in Past'
    BY SteeredIsPast DEF Past, Attached
  <2>2. QED
    BY <2>1, SteerableIsRunning DEF SteerInv
<1>3. QED
  BY <1>1, <1>2, LockCorrect, EntryCorrect, StopCorrect, PTL DEF Spec

\* Where no task leaves early, a steer that is acknowledged goes to a turn whose
\* task still reads the events of the agent, although the active turn was looked
\* up before and may have ended, been stopped or been followed since.
THEOREM AcceptedSteersAreHeard == Spec => AcceptedSteerIsHeard
<1> DEFINE Heard == EventsGoThrough => \A m \in Turn : At(m, "steering") /\ pc'[m] = "steered"
                        => At(steerTo[m], "streaming")
<1>1. LockInv /\ BusyInv /\ SteerInv /\ [Next]_vars => [Heard]_vars
  <2> SUFFICES ASSUME LockInv, BusyInv, SteerInv, [Next]_vars, EventsGoThrough,
                      NEW m \in Turn, pc[m] = "steering", pc'[m] = "steered"
               PROVE  pc[steerTo[m]] = "streaming"
    BY DEF At
  <2>1. agent[steerTo[m]].phase = "busy"
    <3>1. ~Stays(m) /\ ~Falls(m)
      BY DEF Stays, Falls
    <3>2. ~(Step(m) \/ Start(m) \/ Work(m) \/ Abort(m))
      BY DEF Step, RequestLock, SetStarting, MarkRunning, RecordMemory, RecordSession,
         RecordRuntime, AttachCancel, JoinCompletion, CompleteTurn, PublishFinal,
         PublishFailure, FailTurn, ClearActive, ReleaseLock, Start, StartReturns, StartFails,
         Work, SessionReady, AgentFinishes, AgentFails, WorkerGivesUp,
         AgentInterrupted, Abort, At
    <3>3. Handle(m)
      BY <3>1, <3>2, Seen
    <3>4. QED
      BY <3>3, Shapes DEF Handle, Receive, SteerFallsBack, SteerAccepted, SteerRefused,
         Accept, CopySession, CopySelection, CopyRuntime,
         CreateTurn, CreateFails, At, Goto
  <2>2. steerTo[m] \in Turn /\ pc[steerTo[m]] \in Past
    BY DEF SteerInv
  <2>3. pc[steerTo[m]] \in AtWork
    BY <2>1, <2>2 DEF BusyInv
  <2>4. QED
    BY <2>2, <2>3 DEF Past, Attached, AtWork
<1>2. QED
  BY <1>1, LockCorrect, BusyCorrect, SteerCorrect, PTL DEF Spec, AcceptedSteerIsHeard

-----------------------------------------------------------------------------
(* Silence                                                                 *)

\* Where nothing fails, the final message is on its way before the block is left.
LEMMA SilenceStep == LockInv /\ SilenceInv /\ [Next]_vars => SilenceInv'
<1> SUFFICES ASSUME LockInv, SilenceInv, [Next]_vars, Faults = {}, NEW t \in Turn,
                    pc'[t] \in {"failMarking", "clearing", "releasing", "done"}
             PROVE  t \in announced'
  BY DEF SilenceInv
<1> USE Shapes
<1>1. pc[t] \in {"failMarking", "clearing", "releasing", "done"} => t \in announced
  BY DEF SilenceInv
<1>2. CASE Stays(t)
  BY <1>1, <1>2 DEF Stays, Kept
<1>3. CASE Falls(t)
  BY <1>1, <1>3 DEF Falls
<1>4. CASE PublishFinal(t) \/ PublishFailure(t)
  BY <1>4 DEF PublishFinal, PublishFailure
<1>5. CASE FailTurn(t) \/ ClearActive(t) \/ ReleaseLock(t)
  BY <1>1, <1>5 DEF FailTurn, ClearActive, ReleaseLock, At, seenVars
<1>6. CASE Step(t) /\ ~PublishFinal(t) /\ ~PublishFailure(t) /\ ~FailTurn(t)
               /\ ~ClearActive(t) /\ ~ReleaseLock(t)
  BY <1>6 DEF Step, RequestLock, SetStarting, MarkRunning, RecordMemory, RecordSession,
     RecordRuntime, AttachCancel, JoinCompletion, CompleteTurn, At, Goto
<1>7. CASE Handle(t) \/ Start(t) \/ Abort(t)
  BY <1>7 DEF Handle, Receive, SteerFallsBack, SteerAccepted, SteerRefused, Accept,
     CopySession, CopySelection, CopyRuntime, CreateTurn,
     CreateFails, Start, StartReturns, StartFails, Abort, At, Goto
<1>8. CASE Work(t)
  BY <1>1, <1>8 DEF Work, SessionReady, AgentFinishes, AgentFails, WorkerGivesUp,
     AgentInterrupted, seenVars
<1>9. QED
  BY <1>2, <1>3, <1>4, <1>5, <1>6, <1>7, <1>8, Seen

\* Where nothing fails, no turn ends in silence, for any number of chats, turns
\* that wait for each other, stops and crashes in between.
THEOREM EveryTurnIsAnswered == Spec => []NoTurnEndsInSilence
<1>1. Init => SilenceInv
  BY DEF Init, SilenceInv
<1>2. SilenceInv => NoTurnEndsInSilence
  BY DEF SilenceInv, NoTurnEndsInSilence, At
<1>3. QED
  BY <1>1, <1>2, SilenceStep, LockCorrect, PTL DEF Spec


=============================================================================
