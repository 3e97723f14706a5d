----------------------------- MODULE TurnService -----------------------------
(***************************************************************************)
(* The turn service of the core (src/core/service.rs): a text message      *)
(* arrives (handle_inbound), is steered into the running Codex turn or     *)
(* accepted as a turn of its own (accept_turn), and the spawned task runs  *)
(* it under the lock of its session (run_turn), while /ot stop             *)
(* (request_stop) and /ot new, /ot pick, /ot cwd (activate_runtime,        *)
(* replace_runtime_selection) arrive at any moment.  Every await point of  *)
(* run_turn is a step.  The agent behind the runtime trait and the gateway *)
(* behind the event sink are the environment.                              *)
(*                                                                         *)
(* A turn is named by the message that asks for it.  An agent session is   *)
(* named by the turn that opened it, or is a foreign one that a runtime    *)
(* was imported with (two runtimes may be imported with the same one: the  *)
(* look for the session and the INSERT of import_runtime are two           *)
(* statements).  The final answer of a turn is named by the turn.          *)
(***************************************************************************)
EXTENDS Naturals, Sequences

CONSTANTS Turn,        \* messages, and the turns they become
          Session,     \* session keys
          Runtime,     \* rows of runtime_instances
          SessionOf,   \* the session a message is sent in
          Kind,        \* agent_kind of a runtime
          Foreign,     \* agent sessions that none of these turns has opened
          ImportedAs,  \* the session a runtime was imported with, or NoRef
          NoTurn, NoRuntime, NoRef,
          Faults,      \* which environment failures are considered
          MaxCrashes   \* bound on crashes of the core process

ASSUME ConstantsAssumption ==
    /\ SessionOf \in [Turn -> Session]
    /\ Kind \in [Runtime -> {"codex", "acp"}]
    /\ ImportedAs \in [Runtime -> Foreign \cup {NoRef}]
    /\ NoTurn \notin Turn
    /\ NoRuntime \notin Runtime
    /\ NoRef \notin Turn \cup Foreign
    /\ Turn \cap Foreign = {}
    /\ Faults \subseteq {"start", "db", "publish"}
    /\ MaxCrashes \in Nat

VARIABLES
    pc,          \* pc[t]: the next operation of the handler or task of t
    snap,        \* snap[t]: what accept_turn read and gave to the task
    row,         \* row[t]: status column of core_turns
    waiting,     \* waiting[s]: tasks queued on the lock of s, first in, first out
    holder,      \* holder[s]: the task that holds the lock of s
    active,      \* active[s]: the entry of ActiveTurns, or NoEntry
    cancelled,   \* turns whose cancel handle was fired
    agent,       \* agent[t]: what the worker of the agent holds of t
    adrift,      \* turns the agent goes on with although the worker has ended them
    render,      \* render[t]: session ref and final text of TurnRenderState
    steerTo,     \* steerTo[t]: the active turn the message is steered into
    selected,    \* selected[s]: selected_runtime_id of runtime_selections
    registry,    \* registry[s]: runtime state of SessionRegistry, in memory
    sessionRow,  \* sessionRow[s]: the same columns of core_sessions
    runtimeRow,  \* runtimeRow[r]: the same columns of runtime_instances
    stopped,     \* turns for which /ot stop answered "stop requested"
    announced,   \* turns whose final message the gateway acknowledged
    crashes

vars == <<pc, snap, row, waiting, holder, active, cancelled, agent,
          adrift, render, steerTo, selected, registry, sessionRow, runtimeRow,
          stopped, announced, crashes>>

-----------------------------------------------------------------------------
(* Types *)

Ref == Turn \cup Foreign
State == [ref : Ref \cup {NoRef}, last : Turn \cup {NoTurn}]
NoState == [ref |-> NoRef, last |-> NoTurn]

\* Labels of run_turn while its task holds the lock of the session.
Inside == {"entering", "marking", "launching", "startMemory", "startSession", "startRuntime", "attaching",
           "streaming", "endMemory", "endSession", "endRuntime",
           "completing", "announcing", "failing", "failMarking",
           "clearing", "releasing"}
Handler == {"steering", "accepting", "selecting", "copying", "creating"}
Task == {"spawned", "waiting"} \cup Inside
Ended == {"steered", "rejected", "done", "lost"}
Label == {"idle"} \cup Handler \cup Task \cup Ended

\* ActiveTurnEntry: agent kind and refs are only tested for "a Codex turn
\* with both refs known", which is what steerable records.
Entry == [turn : Turn, state : {"starting", "stopping", "running"}, steerable : BOOLEAN]
NoEntry == [turn |-> NoTurn, state |-> "none", steerable |-> FALSE]

Status == {"absent", "queued", "running", "completed", "failed"}
Copy == [runtime : Runtime \cup {NoRuntime},
         ref : Ref \cup {NoRef},
         sessionRef : Ref \cup {NoRef}]
Phase == {"none", "busy", "ok", "err", "refused", "gone"}
Agent == [phase : Phase, ref : Ref \cup {NoRef}, answer : Turn \cup {NoTurn}]

TypeOK ==
    /\ pc \in [Turn -> Label]
    /\ snap \in [Turn -> Copy]
    /\ row \in [Turn -> Status]
    /\ waiting \in [Session -> Seq(Turn)]
    /\ holder \in [Session -> Turn \cup {NoTurn}]
    /\ active \in [Session -> Entry \cup {NoEntry}]
    /\ cancelled \subseteq Turn
    /\ agent \in [Turn -> Agent]
    /\ adrift \subseteq Turn
    /\ render \in [Turn -> State]
    /\ steerTo \in [Turn -> Turn \cup {NoTurn}]
    /\ selected \in [Session -> Runtime \cup {NoRuntime}]
    /\ registry \in [Session -> State]
    /\ sessionRow \in [Session -> State]
    /\ runtimeRow \in [Runtime -> State]
    /\ stopped \subseteq Turn
    /\ announced \subseteq Turn
    /\ crashes \in 0 .. MaxCrashes

Init ==
    /\ pc = [t \in Turn |-> "idle"]
    /\ snap = [t \in Turn |-> [runtime |-> NoRuntime, ref |-> NoRef, sessionRef |-> NoRef]]
    /\ row = [t \in Turn |-> "absent"]
    /\ waiting = [s \in Session |-> <<>>]
    /\ holder = [s \in Session |-> NoTurn]
    /\ active = [s \in Session |-> NoEntry]
    /\ cancelled = {}
    /\ agent = [t \in Turn |-> [phase |-> "none", ref |-> NoRef, answer |-> NoTurn]]
    /\ adrift = {}
    /\ render = [t \in Turn |-> NoState]
    /\ steerTo = [t \in Turn |-> NoTurn]
    /\ selected = [s \in Session |-> NoRuntime]
    /\ registry = [s \in Session |-> NoState]
    /\ sessionRow = [s \in Session |-> NoState]
    /\ runtimeRow = [r \in Runtime |-> [ref |-> ImportedAs[r], last |-> NoTurn]]
    /\ stopped = {}
    /\ announced = {}
    /\ crashes = 0

\* Groups of variables that actions leave alone together.
lockVars == <<waiting, holder>>
agentVars == <<agent, adrift, cancelled>>
turnVars == <<snap, render, steerTo>>
stateVars == <<registry, sessionRow, runtimeRow>>
seenVars == <<stopped, announced, crashes>>

At(t, label) == pc[t] = label
Goto(t, label) == pc' = [pc EXCEPT ![t] = label]

-----------------------------------------------------------------------------
(* The message handler: handle_inbound, try_steer_active_codex_turn,       *)
(* accept_turn.                                                            *)

\* handle_inbound looks at the active turn: an attached Codex turn takes the
\* message as a steer, in every other case it becomes a turn.
Receive(m) ==
    /\ At(m, "idle")
    /\ IF active[SessionOf[m]].steerable
         THEN /\ Goto(m, "steering")
              /\ steerTo' = [steerTo EXCEPT ![m] = active[SessionOf[m]].turn]
         ELSE /\ Goto(m, "accepting")
              /\ UNCHANGED steerTo
    /\ UNCHANGED <<snap, row, lockVars, active, agentVars, render,
                   selected, stateVars, seenVars>>

\* The selection the steer goes by is read after the active turn: an agent
\* other than Codex sends the message down the path of a new turn.
SteerFallsBack(m) ==
    /\ At(m, "steering")
    /\ LET r == selected[SessionOf[m]] IN r # NoRuntime => Kind[r] # "codex"
    /\ Goto(m, "accepting")
    /\ UNCHANGED <<row, lockVars, active, agentVars, turnVars, selected,
                   stateVars, seenVars>>

\* The agent takes the message only while the turn it names is going on.
SteerAccepted(m) ==
    /\ At(m, "steering")
    /\ LET r == selected[SessionOf[m]] IN r # NoRuntime => Kind[r] = "codex"
    /\ agent[steerTo[m]].phase = "busy"
    /\ Goto(m, "steered")
    /\ UNCHANGED <<row, lockVars, active, agentVars, turnVars, selected,
                   stateVars, seenVars>>

\* The worker refuses (the turn it names is over, or the selection now points
\* at another worker): the error goes back to the user.
SteerRefused(m) ==
    /\ At(m, "steering")
    /\ Goto(m, "rejected")
    /\ UNCHANGED <<row, lockVars, active, agentVars, turnVars, selected,
                   stateVars, seenVars>>

\* accept_turn reads the session, the selection and the selected runtime, one
\* after the other; the task will run with these copies whatever happens before
\* it starts.
CopySession(t) ==
    /\ At(t, "accepting")
    /\ snap' = [snap EXCEPT ![t].sessionRef = registry[SessionOf[t]].ref]
    /\ Goto(t, "selecting")

CopySelection(t) ==
    /\ At(t, "selecting")
    /\ LET r == selected[SessionOf[t]]
       IN  IF r = NoRuntime
             THEN /\ Goto(t, "rejected")
                  /\ UNCHANGED snap
             ELSE /\ Goto(t, "copying")
                  /\ snap' = [snap EXCEPT ![t].runtime = r]

CopyRuntime(t) ==
    /\ At(t, "copying")
    /\ \E r \in Runtime : /\ snap[t].runtime = r
                         /\ snap' = [snap EXCEPT ![t].ref = runtimeRow[r].ref]
    /\ Goto(t, "creating")

Accept(t) ==
    /\ CopySession(t) \/ CopySelection(t) \/ CopyRuntime(t)
    /\ UNCHANGED <<row, lockVars, active, agentVars, render, steerTo,
                   selected, stateVars, seenVars>>

\* create_turn inserts the row, then the task is spawned and the turn id goes
\* back to the gateway.
CreateTurn(t) ==
    /\ At(t, "creating")
    /\ row' = [row EXCEPT ![t] = "queued"]
    /\ Goto(t, "spawned")
    /\ UNCHANGED <<lockVars, active, agentVars, turnVars, selected, stateVars,
                   seenVars>>

CreateFails(t) ==
    /\ "db" \in Faults
    /\ At(t, "creating")
    /\ Goto(t, "rejected")
    /\ UNCHANGED <<row, lockVars, active, agentVars, turnVars, selected,
                   stateVars, seenVars>>

-----------------------------------------------------------------------------
(* The session lock: a tokio Mutex, which serves its waiters in order.     *)
(* Spawned tasks reach it in any order.                                    *)

\* Slips that the properties must notice stand before the action they distort
\* and are no part of Next.  Here: the lock is taken whoever holds it.
RequestLockUnguarded(t) ==
    /\ At(t, "spawned")
    /\ holder' = [holder EXCEPT ![SessionOf[t]] = t]
    /\ Goto(t, "entering")
    /\ UNCHANGED <<row, waiting, active, agentVars, turnVars, selected, stateVars, seenVars>>

\* Slip: the row is marked running before the lock is asked for.
RequestLockMarksRunning(t) ==
    /\ At(t, "spawned")
    /\ row' = [row EXCEPT ![t] = "running"]
    /\ LET s == SessionOf[t]
       IN  IF holder[s] = NoTurn
             THEN /\ holder' = [holder EXCEPT ![s] = t]
                  /\ Goto(t, "entering")
                  /\ UNCHANGED waiting
             ELSE /\ waiting' = [waiting EXCEPT ![s] = Append(@, t)]
                  /\ Goto(t, "waiting")
                  /\ UNCHANGED holder
    /\ UNCHANGED <<active, agentVars, turnVars, selected, stateVars, seenVars>>

RequestLock(t) ==
    /\ At(t, "spawned")
    /\ LET s == SessionOf[t]
       IN  IF holder[s] = NoTurn
             THEN /\ holder' = [holder EXCEPT ![s] = t]
                  /\ Goto(t, "entering")
                  /\ UNCHANGED waiting
             ELSE /\ waiting' = [waiting EXCEPT ![s] = Append(@, t)]
                  /\ Goto(t, "waiting")
                  /\ UNCHANGED holder
    /\ UNCHANGED <<row, active, agentVars, turnVars, selected, stateVars, seenVars>>

\* The guard is dropped: the first waiter gets the lock.
ReleaseLock(t) ==
    /\ At(t, "releasing")
    /\ LET s == SessionOf[t]
       IN  IF waiting[s] = <<>>
             THEN /\ holder' = [holder EXCEPT ![s] = NoTurn]
                  /\ Goto(t, "done")
                  /\ UNCHANGED waiting
             ELSE /\ holder' = [holder EXCEPT ![s] = Head(waiting[s])]
                  /\ waiting' = [waiting EXCEPT ![s] = Tail(@)]
                  /\ pc' = [pc EXCEPT ![t] = "done", ![Head(waiting[s])] = "entering"]
    /\ UNCHANGED <<row, active, agentVars, turnVars, selected, stateVars, seenVars>>

-----------------------------------------------------------------------------
(* ActiveTurns                                                             *)

\* Slip: the refs of the runtime are in the entry before start_turn returned.
SetStartingSteerable(t) ==
    /\ At(t, "entering")
    /\ active' = [active EXCEPT ![SessionOf[t]] =
                     [turn |-> t, state |-> "starting",
                      steerable |-> Kind[snap[t].runtime] = "codex"]]
    /\ Goto(t, "marking")
    /\ UNCHANGED <<row, lockVars, agentVars, turnVars, selected, stateVars, seenVars>>

SetStarting(t) ==
    /\ At(t, "entering")
    /\ active' = [active EXCEPT ![SessionOf[t]] =
                     [turn |-> t, state |-> "starting", steerable |-> FALSE]]
    /\ Goto(t, "marking")
    /\ UNCHANGED <<row, lockVars, agentVars, turnVars, selected, stateVars, seenVars>>

\* Slip: attach_cancel does not look at stop_requested.
AttachCancelForgetsStop(t) ==
    /\ At(t, "attaching")
    /\ LET s == SessionOf[t]
       IN  active' = IF active[s].turn # t THEN active
                       ELSE [active EXCEPT ![s] =
                               [turn |-> t, state |-> "running",
                                steerable |-> Kind[snap[t].runtime] = "codex"]]
    /\ Goto(t, "streaming")
    /\ UNCHANGED <<row, lockVars, agentVars, turnVars, selected, stateVars, seenVars>>

\* A stop that came while the turn was starting is carried out now.
AttachCancel(t) ==
    /\ At(t, "attaching")
    /\ LET s == SessionOf[t]
       IN  IF active[s].turn = t
             THEN /\ active' = [active EXCEPT ![s] =
                         [turn |-> t, state |-> "running",
                          steerable |-> Kind[snap[t].runtime] = "codex"]]
                  /\ cancelled' = IF active[s].state = "stopping"
                                    THEN cancelled \cup {t} ELSE cancelled
             ELSE UNCHANGED <<active, cancelled>>
    /\ Goto(t, "streaming")
    /\ UNCHANGED <<row, lockVars, agent, adrift, turnVars, selected, stateVars, seenVars>>

\* Slip: the entry stays.
ClearActiveSkipped(t) ==
    /\ At(t, "clearing")
    /\ Goto(t, "releasing")
    /\ UNCHANGED <<row, lockVars, active, agentVars, turnVars, selected, stateVars, seenVars>>

ClearActive(t) ==
    /\ At(t, "clearing")
    /\ active' = IF active[SessionOf[t]].turn = t
                   THEN [active EXCEPT ![SessionOf[t]] = NoEntry] ELSE active
    /\ Goto(t, "releasing")
    /\ UNCHANGED <<row, lockVars, agentVars, turnVars, selected, stateVars, seenVars>>

\* /ot stop: a starting turn is marked, a running one has its handle fired.
RequestStop(s) ==
    /\ active[s] # NoEntry
    /\ LET t == active[s].turn
       IN  /\ IF active[s].state = "running"
                THEN /\ cancelled' = cancelled \cup {t}
                     /\ UNCHANGED active
                ELSE /\ active' = [active EXCEPT ![s].state = "stopping"]
                     /\ UNCHANGED cancelled
           /\ stopped' = stopped \cup {t}
    /\ UNCHANGED <<pc, row, lockVars, agent, adrift, turnVars, selected, stateVars,
                   announced, crashes>>

-----------------------------------------------------------------------------
(* run_turn, from the row it marks running to the final message.           *)

MarkRunning(t) ==
    /\ At(t, "marking")
    /\ row' = [row EXCEPT ![t] = "running"]
    /\ Goto(t, "launching")
    /\ UNCHANGED <<lockVars, active, agentVars, turnVars, selected, stateVars, seenVars>>

\* The agent session a turn runs in: the one its snapshot names, else a new one.
SessionFor(t) == IF snap[t].ref = NoRef THEN t ELSE snap[t].ref

\* start_turn returns.  The Codex worker has opened its thread by then; the
\* ACP runtime hands back the ref it was given and opens the session later.
\* TurnRenderState starts from the ref of the session snapshot.
StartReturns(t) ==
    /\ At(t, "launching")
    /\ LET opened == Kind[snap[t].runtime] = "codex"
           ref == IF opened THEN SessionFor(t) ELSE snap[t].ref
       IN  /\ agent' = [agent EXCEPT ![t].phase = "busy",
                                     ![t].ref = IF opened THEN ref ELSE NoRef]
           /\ render' = [render EXCEPT ![t].ref = IF ref # NoRef THEN ref
                                                             ELSE snap[t].sessionRef]
           /\ Goto(t, IF ref # NoRef THEN "startMemory" ELSE "attaching")
    /\ UNCHANGED <<row, lockVars, active, adrift, cancelled, snap, steerTo,
                   selected, stateVars, seenVars>>

\* start_turn fails: the error leaves the block, nothing is recorded.
StartFails(t) ==
    /\ "start" \in Faults
    /\ At(t, "launching")
    /\ agent' = [agent EXCEPT ![t].phase = "refused"]
    /\ Goto(t, "clearing")
    /\ UNCHANGED <<row, lockVars, active, adrift, cancelled, turnVars, selected,
                   stateVars, seenVars>>

\* The ref is recorded when the turn starts, and ref and answer when it ends.
Recorded(t) == [ref |-> render[t].ref,
                last |-> IF pc[t] \in {"endMemory", "endSession", "endRuntime"}
                           THEN render[t].last ELSE NoTurn]

\* replace_runtime_state, in memory.
RecordMemory(t) ==
    /\ pc[t] \in {"startMemory", "endMemory"}
    /\ registry' = [registry EXCEPT ![SessionOf[t]] = Recorded(t)]
    /\ Goto(t, IF At(t, "startMemory") THEN "startSession" ELSE "endSession")
    /\ UNCHANGED <<row, lockVars, active, agentVars, turnVars, selected,
                   sessionRow, runtimeRow, seenVars>>

\* replace_runtime_state, the row of core_sessions.
RecordSession(t) ==
    /\ pc[t] \in {"startSession", "endSession"}
    /\ sessionRow' = [sessionRow EXCEPT ![SessionOf[t]] = Recorded(t)]
    /\ Goto(t, IF At(t, "startSession") THEN "startRuntime" ELSE "endRuntime")
    /\ UNCHANGED <<row, lockVars, active, agentVars, turnVars, selected,
                   registry, runtimeRow, seenVars>>

\* Slip: the UPDATE writes what it is given.
NotCoalesced(r, state) == state

\* update_runtime_state: COALESCE keeps what the row had where nothing is given.
Coalesced(r, state) ==
    [ref |-> IF state.ref = NoRef THEN runtimeRow[r].ref ELSE state.ref,
     last |-> IF state.last = NoTurn THEN runtimeRow[r].last ELSE state.last]

RecordRuntime(t) ==
    /\ pc[t] \in {"startRuntime", "endRuntime"}
    /\ LET r == snap[t].runtime
       IN  runtimeRow' = [runtimeRow EXCEPT ![r] = Coalesced(r, Recorded(t))]
    /\ Goto(t, IF At(t, "startRuntime") THEN "attaching" ELSE "completing")
    /\ UNCHANGED <<row, lockVars, active, agentVars, turnVars, selected,
                   registry, sessionRow, seenVars>>

\* Slip: the event does not reach TurnRenderState.
SessionReadyNotRendered(t) ==
    /\ At(t, "streaming")
    /\ agent[t].phase = "busy"
    /\ agent[t].ref = NoRef
    /\ agent' = [agent EXCEPT ![t].ref = SessionFor(t)]
    /\ UNCHANGED <<pc, row, lockVars, active, adrift, cancelled, turnVars, selected,
                   stateVars, seenVars>>

\* The event loop receives RuntimeSessionReady of an ACP session.
SessionReady(t) ==
    /\ At(t, "streaming")
    /\ agent[t].phase = "busy"
    /\ agent[t].ref = NoRef
    /\ agent' = [agent EXCEPT ![t].ref = SessionFor(t)]
    /\ render' = [render EXCEPT ![t].ref = SessionFor(t)]
    /\ UNCHANGED <<pc, row, lockVars, active, adrift, cancelled, snap, steerTo,
                   selected, stateVars, seenVars>>

\* Slip: a stopped turn is not joined, its agent goes on unobserved.
JoinCompletionUnlessStopped(t) ==
    /\ At(t, "streaming")
    /\ \/ /\ agent[t].phase = "ok"
          /\ render' = [render EXCEPT ![t].last = agent[t].answer]
          /\ Goto(t, "endMemory")
       \/ /\ agent[t].phase = "err" \/ t \in cancelled
          /\ Goto(t, "failing")
          /\ UNCHANGED render
    /\ UNCHANGED <<row, lockVars, active, agentVars, snap, steerTo,
                   selected, stateVars, seenVars>>

\* Slip: a turn that was stopped leaves without a word.
JoinCompletionSilently(t) ==
    /\ At(t, "streaming")
    /\ \/ /\ agent[t].phase = "ok"
          /\ render' = [render EXCEPT ![t].last = agent[t].answer]
          /\ Goto(t, "endMemory")
       \/ /\ agent[t].phase = "err"
          /\ Goto(t, IF t \in cancelled THEN "clearing" ELSE "failing")
          /\ UNCHANGED render
    /\ UNCHANGED <<row, lockVars, active, agentVars, snap, steerTo,
                   selected, stateVars, seenVars>>

\* The events are drained and the completion joined: a turn that succeeded is
\* finalized, a turn that failed takes the error branch.
JoinCompletion(t) ==
    /\ At(t, "streaming")
    /\ \/ /\ agent[t].phase = "ok"
          /\ render' = [render EXCEPT ![t].last = agent[t].answer]
          /\ Goto(t, "endMemory")
       \/ /\ agent[t].phase = "err"
          /\ Goto(t, "failing")
          /\ UNCHANGED render
    /\ UNCHANGED <<row, lockVars, active, agentVars, snap, steerTo,
                   selected, stateVars, seenVars>>

\* Slip: the error of the statement is ignored, as fail_turn ignores it.
CompleteTurnIgnoresError(t) ==
    /\ At(t, "completing")
    /\ \/ row' = [row EXCEPT ![t] = "completed"]
       \/ "db" \in Faults /\ UNCHANGED row
    /\ Goto(t, "announcing")
    /\ UNCHANGED <<lockVars, active, agentVars, turnVars, selected, stateVars, seenVars>>

CompleteTurn(t) ==
    /\ At(t, "completing")
    /\ row' = [row EXCEPT ![t] = "completed"]
    /\ Goto(t, "announcing")
    /\ UNCHANGED <<lockVars, active, agentVars, turnVars, selected, stateVars, seenVars>>

PublishFinal(t) ==
    /\ At(t, "announcing")
    /\ announced' = announced \cup {t}
    /\ Goto(t, "clearing")
    /\ UNCHANGED <<row, lockVars, active, agentVars, turnVars, selected,
                   stateVars, stopped, crashes>>

\* Error branch: what the gateway answers to the final message is ignored.
PublishFailure(t) ==
    /\ At(t, "failing")
    /\ \/ announced' = announced \cup {t}
       \/ "publish" \in Faults /\ UNCHANGED announced
    /\ Goto(t, "failMarking")
    /\ UNCHANGED <<row, lockVars, active, agentVars, turnVars, selected,
                   stateVars, stopped, crashes>>

FailTurn(t) ==
    /\ At(t, "failMarking")
    /\ \/ row' = [row EXCEPT ![t] = "failed"]
       \/ "db" \in Faults /\ UNCHANGED row
    /\ Goto(t, "clearing")
    /\ UNCHANGED <<lockVars, active, agentVars, turnVars, selected, stateVars, seenVars>>

\* Slip: the error leaves run_turn without clearing and without unlocking.
AbortKeepsLock(t) ==
    /\ \/ "db" \in Faults /\ pc[t] \in {"marking", "startSession", "startRuntime",
                                        "endSession", "endRuntime", "completing"}
       \/ "publish" \in Faults /\ pc[t] \in {"streaming", "announcing"}
    /\ Goto(t, "done")
    /\ UNCHANGED <<row, lockVars, active, agentVars, turnVars, selected,
                   stateVars, seenVars>>

\* A statement fails, or the gateway does not take a progress, todo or final
\* event: "?" leaves the block, and the RuntimeTurn is dropped with its agent
\* still at work.
Abort(t) ==
    /\ \/ "db" \in Faults /\ pc[t] \in {"marking", "startSession", "startRuntime",
                                        "endSession", "endRuntime", "completing"}
       \/ "publish" \in Faults /\ pc[t] \in {"streaming", "announcing"}
    /\ Goto(t, "clearing")
    /\ UNCHANGED <<row, lockVars, active, agentVars, turnVars, selected,
                   stateVars, seenVars>>

-----------------------------------------------------------------------------
(* The agent, behind the AgentRuntime trait.                               *)

AgentFinishes(t) ==
    /\ agent[t].phase = "busy"
    /\ agent[t].ref # NoRef
    /\ \E answer \in {t, NoTurn} :
          agent' = [agent EXCEPT ![t].phase = "ok", ![t].answer = answer]
    /\ UNCHANGED <<pc, row, lockVars, active, adrift, cancelled, turnVars, selected,
                   stateVars, seenVars>>

\* The agent ends the turn with an error, or as it was told to by
\* session/cancel or turn/interrupt.
AgentFails(t) ==
    /\ agent[t].phase = "busy"
    /\ agent' = [agent EXCEPT ![t].phase = "err"]
    /\ UNCHANGED <<pc, row, lockVars, active, adrift, cancelled, turnVars, selected,
                   stateVars, seenVars>>

\* What a Codex turn that had an error may leave behind in its thread: a
\* turn/completed that ends whichever turn is open when it is read.
LeftOver(t) ==
    \E u \in Turn \ {t} : /\ agent[u].phase = "err"
                           /\ Kind[snap[u].runtime] = "codex"
                           /\ agent[u].ref = agent[t].ref

\* The worker ends the turn and the agent goes on with it: the ACP worker eight
\* seconds after it has passed on a cancel, the Codex worker when it reads what
\* another turn has left.
WorkerGivesUp(t) ==
    /\ agent[t].phase = "busy"
    /\ agent[t].ref # NoRef
    /\ \/ /\ Kind[snap[t].runtime] # "codex"
          /\ t \in cancelled
          /\ agent' = [agent EXCEPT ![t].phase = "err"]
       \/ /\ Kind[snap[t].runtime] = "codex"
          /\ LeftOver(t)
          /\ \E phase \in {"ok", "err"}, answer \in {t, NoTurn} :
                agent' = [agent EXCEPT ![t].phase = phase, ![t].answer = answer]
    /\ adrift' = adrift \cup {t}
    /\ UNCHANGED <<pc, row, lockVars, active, cancelled, turnVars, selected,
                   stateVars, seenVars>>

\* The agent is done with it at last.
StrayEnds(t) ==
    /\ t \in adrift
    /\ adrift' = adrift \ {t}
    /\ UNCHANGED <<pc, row, lockVars, active, agent, cancelled, turnVars, selected,
                   stateVars, seenVars>>

\* A fired cancel handle takes effect, by the agent's own answer or by the
\* deadline of the ACP worker.
AgentInterrupted(t) ==
    /\ t \in cancelled
    /\ AgentFails(t) \/ WorkerGivesUp(t)

-----------------------------------------------------------------------------
(* Control messages that change what turns read, and crashes.              *)

\* /ot new and /ot pick: replace_runtime_selection and activate_runtime.
ActivateRuntime(s, r) ==
    /\ selected' = [selected EXCEPT ![s] = r]
    /\ registry' = [registry EXCEPT ![s] = runtimeRow[r]]
    /\ sessionRow' = [sessionRow EXCEPT ![s] = runtimeRow[r]]
    /\ UNCHANGED <<pc, row, lockVars, active, agentVars, turnVars, runtimeRow, seenVars>>

\* /ot use, /ot cwd and /ot load: replace_runtime_selection without a runtime.
ClearSelection(s) ==
    /\ selected' = [selected EXCEPT ![s] = NoRuntime]
    /\ UNCHANGED <<pc, row, lockVars, active, agentVars, turnVars, stateVars, seenVars>>

\* The process dies and starts again: handlers and tasks are gone, so are the
\* locks, the active turns and the agent processes; the rows remain, and the
\* registry is loaded from them.  Nothing picks unfinished turns up.
Crash ==
    /\ crashes < MaxCrashes
    /\ crashes' = crashes + 1
    /\ pc' = [t \in Turn |-> IF pc[t] \in Handler \cup Task THEN "lost" ELSE pc[t]]
    /\ waiting' = [s \in Session |-> <<>>]
    /\ holder' = [s \in Session |-> NoTurn]
    /\ active' = [s \in Session |-> NoEntry]
    /\ agent' = [t \in Turn |->
                    IF agent[t].phase = "busy" THEN [agent[t] EXCEPT !.phase = "gone"]
                                               ELSE agent[t]]
    /\ adrift' = {}
    /\ registry' = sessionRow
    /\ UNCHANGED <<snap, row, cancelled, render, steerTo, selected,
                   sessionRow, runtimeRow, stopped, announced>>

-----------------------------------------------------------------------------

Handle(t) == \/ Receive(t) \/ SteerFallsBack(t) \/ SteerAccepted(t) \/ SteerRefused(t)
             \/ Accept(t) \/ CreateTurn(t) \/ CreateFails(t)

\* The steps of run_turn that wait for nobody but the executor, the database
\* and the gateway.
Step(t) == \/ RequestLock(t) \/ SetStarting(t) \/ MarkRunning(t)
           \/ RecordMemory(t) \/ RecordSession(t) \/ RecordRuntime(t)
           \/ AttachCancel(t) \/ JoinCompletion(t) \/ CompleteTurn(t)
           \/ PublishFinal(t) \/ PublishFailure(t) \/ FailTurn(t)
           \/ ClearActive(t) \/ ReleaseLock(t)

Start(t) == StartReturns(t) \/ StartFails(t)
Work(t) == \/ SessionReady(t) \/ AgentFinishes(t) \/ AgentFails(t)
           \/ WorkerGivesUp(t) \/ AgentInterrupted(t)
Strays == \E t \in Turn : StrayEnds(t)

Control == \E s \in Session : \/ RequestStop(s)
                              \/ ClearSelection(s)
                              \/ \E r \in Runtime : ActivateRuntime(s, r)

Next == \/ \E t \in Turn : Handle(t) \/ Step(t) \/ Start(t) \/ Work(t) \/ Abort(t)
        \/ Strays
        \/ Control
        \/ Crash

Spec == Init /\ [][Next]_vars

\* The executor runs every task that is ready; the database, the gateway and
\* the start of a turn answer, well or badly.  Nothing says that an agent ever
\* finishes by itself, nor that it heeds a cancel.
FairSpec == /\ Spec
            /\ \A t \in Turn : WF_vars(Step(t)) /\ WF_vars(Start(t))

-----------------------------------------------------------------------------
(* Safety                                                                  *)

\* run_turn holds the lock of its session from set_starting to clear: two
\* tasks of one session are never both inside.
MutualExclusion ==
    \A t, u \in Turn : /\ SessionOf[t] = SessionOf[u]
                       /\ pc[t] \in Inside
                       /\ pc[u] \in Inside
                       => t = u

\* The entry of ActiveTurns is always that of the task that holds the lock and
\* has not yet cleared it: /ot stop and a steer never see a turn that is over.
ActiveTurnHoldsLock ==
    \A s \in Session : active[s] # NoEntry =>
        /\ active[s].turn = holder[s]
        /\ pc[holder[s]] \in Inside \ {"entering", "releasing"}

\* No task sleeps on a lock that nobody will release (ReleaseLock hands over).
WaitersHaveAHolder ==
    \A s \in Session : waiting[s] # <<>> => /\ holder[s] \in Turn
                                            /\ pc[holder[s]] \in Inside

\* A stop the user was told about reaches the agent, also when it came while
\* the turn was starting (attach_cancel), and reaches no other turn.
StopReachesItsTurn ==
    /\ cancelled \subseteq stopped
    /\ \A t \in stopped : pc[t] = "streaming" => t \in cancelled

\* The final message of a turn that succeeded is seen only after complete_turn:
\* the user never sees an answer that a restart would not know of.
AnswerIsRecordedBeforeSeen ==
    \A t \in announced : agent[t].phase = "ok" => row[t] = "completed"

\* The session a runtime names is the one it was imported with or one that a
\* turn in this runtime has opened, although run_turn starts from the ref of
\* whatever runtime the chat used before.  (Concurrent imports may still give
\* one session to two runtimes: see RuntimeSelection.)
RuntimeNamesItsSession ==
    \A r \in Runtime :
        runtimeRow[r].ref \in {NoRef, ImportedAs[r]}
            \cup {t \in Turn : snap[t].runtime = r /\ agent[t].ref = t}

\* No statement fails and the gateway takes every event, so no task leaves its
\* block early.
EventsGoThrough == Faults \cap {"db", "publish"} = {}

\* The agent has the turn in hand, for its worker or left to itself.
AgentWorksAt(t) == agent[t].phase = "busy" \/ t \in adrift

\* Given up by its worker after a stop, or because of what a failed Codex turn
\* has left in the thread.
GivenUp(t) == t \in adrift /\ (t \in stopped \/ LeftOver(t))

\* Left by its task without a final message: a statement has failed, or the
\* gateway did not take an event.
Deserted(t) == pc[t] \in {"clearing", "releasing", "done"} /\ t \notin announced

\* The messages of one chat put two turns to work at agents, in whatever
\* sessions, only if the worker has given one of them up or its task has
\* deserted it: a turn that merely failed, was queued or was refused never
\* lets the next one start while its agent goes on, and nothing outlives a crash.
ChatHasOneTurnAtWork ==
    \A t, u \in Turn : /\ t # u
                       /\ SessionOf[t] = SessionOf[u]
                       /\ AgentWorksAt(t)
                       /\ AgentWorksAt(u)
                       => \E v \in {t, u} : GivenUp(v) \/ Deserted(v)

\* What a completed turn left behind (its agent session, its answer) is not
\* wiped by later turns of the same runtime, whatever they record.
CompletedTurnIsRemembered ==
    \A t \in Turn : row[t] = "completed" =>
        LET state == runtimeRow[snap[t].runtime]
        IN  /\ \E u \in Turn : /\ snap[u].runtime = snap[t].runtime
                               /\ state.ref = agent[u].ref
            /\ agent[t].answer # NoTurn => state.last # NoTurn

\* Where no task leaves early, a steer is only acknowledged while the task of its
\* turn still reads the agent's events: what the agent answers is seen.
AcceptedSteerIsHeard ==
    [][EventsGoThrough =>
          \A m \in Turn : At(m, "steering") /\ pc'[m] = "steered"
                              => At(steerTo[m], "streaming")]_vars

\* Where nothing fails no turn ends in silence, be it stopped, failed by its
\* agent, given up by its worker or queued behind others: its final message was
\* acknowledged.
NoTurnEndsInSilence == Faults = {} => \A t \in Turn : At(t, "done") => t \in announced

\* The core keeps what TurnLifecycle promises.
Lifecycle == INSTANCE TurnLifecycle WITH owner <- holder
ImplementsLifecycle == Lifecycle!Spec

-----------------------------------------------------------------------------
(* Liveness                                                                *)

\* /ot stop ends the turn it was answered for, whatever fails on the way, if
\* cancels take effect: the core never loses one between set_starting and
\* attach_cancel.  The hypothesis is the agent's and not granted: a worker looks
\* at a cancel only with the prompt in hand (it may be queued behind one of
\* another chat, or wait for session/new or session/load, without a deadline),
\* and the answer to turn/interrupt is ignored.
StoppedTurnEnds ==
    (\A t \in Turn : WF_vars(AgentInterrupted(t)))
       => \A t \in Turn : t \in stopped ~> pc[t] \in Ended

\* Every accepted turn gets its turn at the lock and leaves it, whatever fails,
\* if the agent finishes what it was asked to do.  (A turn that a crash has lost
\* is over for its task; its row is not picked up again.)
AcceptedTurnEnds ==
    (\A t \in Turn : WF_vars(Work(t)))
       => \A t \in Turn : At(t, "spawned") ~> pc[t] \in Ended

-----------------------------------------------------------------------------
(* What the documentation says and the code does not do.                   *)

\* docs/design.md, "failed: runtime start or execution failed".
StartFailureIsRecorded ==
    \A t \in Turn : At(t, "done") /\ agent[t].phase = "refused" => row[t] = "failed"

\* docs/design.md: while a Codex turn is active, a text message is steered and
\* no longer queued as a new turn.
ActiveCodexTurnTakesMessage ==
    [][\A m \in Turn :
          LET a == active[SessionOf[m]].turn
          IN  At(m, "idle") /\ pc'[m] = "accepting"
                 => ~(a # NoTurn /\ Kind[snap[a].runtime] = "codex")]_vars

\* docs/design.md: a runtime is one particular session of an agent.
RuntimeKeepsItsSession ==
    [][\A r \in Runtime : runtimeRow[r].ref # NoRef
                              => runtimeRow'[r].ref = runtimeRow[r].ref]_vars

=============================================================================
