----------------------------- MODULE CodexWorker -----------------------------
(***************************************************************************)
(* The Codex app-server worker (src/agent/runtime/codex_app_server.rs):    *)
(* start_turn and steer_turn send commands to the worker of their key,     *)
(* which is started by the first one (worker_for_key, spawn_worker) and    *)
(* owns a child process.  Its loop (run_worker) takes commands,            *)
(* notifications and a fired cancel handle; while it waits for the answer  *)
(* to a request it takes none of them.  The process writes answers and     *)
(* notifications into one pipe, which reader_task takes apart: answers go  *)
(* to the map of pending requests, notifications to a channel.             *)
(*                                                                         *)
(* Workers of different keys share nothing; this is the worker of one key, *)
(* and its callers are the tasks of one session, which hold the lock of    *)
(* the session from before start_turn until they joined the completion or  *)
(* dropped the turn.  A turn is named by its request; the reference the    *)
(* process gives to it is the same name.                                   *)
(***************************************************************************)
EXTENDS Naturals, Sequences

CONSTANTS Turn,      \* requests of start_turn
          Message,   \* messages to be steered
          Thread,
          ThreadOf,  \* the thread a turn runs in
          NoTurn,
          Faults,    \* which environment failures are considered
          MaxDeltas  \* bound on the chunks of a turn

ASSUME ConstantsAssumption ==
    /\ ThreadOf \in [Turn -> Thread]
    /\ Turn \cap Message = {}
    /\ NoTurn \notin Turn \cup Message
    /\ Faults \subseteq {"spawn", "die", "rpc", "deaf", "drop"}
    /\ MaxDeltas \in Nat

VARIABLES
    worker,      \* where run_worker is
    commands,    \* the command channel, oldest first
    current,     \* the turn or message of the command in hand
    active,      \* the turn of active_turn
    asked,       \* cancel_requested of active_turn
    call,        \* the request the worker waits for
    process,     \* the child process
    notes,       \* the channel of notifications, oldest first
    server,      \* server[t]: the turn t at the process
    interrupted, \* turns the process was told to interrupt
    start,       \* start[t]: what the caller of start_turn knows
    completion,  \* completion[t]: what was sent through completion_tx
    cancelled,   \* turns whose cancel handle was fired
    dropped,     \* turns whose RuntimeTurn was dropped by run_turn
    sent,        \* sent[t]: chunks of t the process wrote
    heard,       \* heard[t]: chunks put into the event channel of t
    steer,       \* steer[m]: what the caller of steer_turn knows
    steerTo      \* steerTo[m]: the turn the message is for

clientVars == <<start, completion, cancelled, dropped, heard, steer, steerTo>>
processVars == <<process, notes, server, interrupted, sent>>
loopVars == <<worker, commands, current, active, asked, call>>
vars == <<clientVars, processVars, loopVars>>

-----------------------------------------------------------------------------
(* Types *)

\* run_worker outside its loop's select: a request is pending.
Blocked == {"initializing", "preparing", "launching", "steering", "interrupting"}
Worker == {"absent", "spawning", "loop", "exited"} \cup Blocked
Command == Turn \cup Message
NoteKind == {"delta", "error", "completed", "failed", "interrupted"}
Note == [kind : NoteKind, turn : Turn]
Closing == {"completed", "failed", "interrupted"}  \* kinds of turn/completed

ClientTypes ==
    /\ start \in [Turn -> {"none", "asked", "ok", "refused"}]
    /\ completion \in [Turn -> {"none", "ok", "err"}]
    /\ cancelled \subseteq Turn
    /\ dropped \subseteq Turn
    /\ heard \in [Turn -> Nat]
    /\ steer \in [Message -> {"none", "asked", "ok", "refused"}]
    /\ steerTo \in [Message -> Turn \cup {NoTurn}]

ProcessTypes ==
    /\ process \in {"none", "up", "dead"}
    /\ notes \in Seq(Note)
    /\ server \in [Turn -> {"none", "running", "over", "failing", "failed"}]
    /\ interrupted \subseteq Turn
    /\ sent \in [Turn -> 0 .. MaxDeltas]

LoopTypes ==
    /\ worker \in Worker
    /\ commands \in Seq(Command)
    /\ current \in Command \cup {NoTurn}
    /\ active \in Turn \cup {NoTurn}
    /\ asked \in BOOLEAN
    /\ call \in {"none", "written", "lost"}
    /\ call = "none" <=> worker \notin Blocked

TypeOK == ClientTypes /\ ProcessTypes /\ LoopTypes

Init ==
    /\ worker = "absent"
    /\ commands = <<>>
    /\ current = NoTurn
    /\ active = NoTurn
    /\ asked = FALSE
    /\ call = "none"
    /\ process = "none"
    /\ notes = <<>>
    /\ server = [t \in Turn |-> "none"]
    /\ interrupted = {}
    /\ start = [t \in Turn |-> "none"]
    /\ completion = [t \in Turn |-> "none"]
    /\ cancelled = {}
    /\ dropped = {}
    /\ sent = [t \in Turn |-> 0]
    /\ heard = [t \in Turn |-> 0]
    /\ steer = [m \in Message |-> "none"]
    /\ steerTo = [m \in Message |-> NoTurn]

-----------------------------------------------------------------------------
(* The callers                                                             *)

\* A caller is at work in the session.
Held == \E t \in Turn : \/ start[t] = "asked"
                        \/ start[t] = "ok" /\ completion[t] = "none" /\ t \notin dropped

\* worker_for_key and the send: the entry of a worker that has exited stays in
\* the map, its channel is closed, and every later command for the key fails.
Enqueue(command) ==
    /\ worker # "exited"
    /\ commands' = Append(commands, command)
    /\ worker' = IF worker = "absent" THEN "spawning" ELSE worker

AskStart(t) ==
    /\ start[t] = "none"
    /\ ~Held
    /\ \/ /\ Enqueue(t)
          /\ start' = [start EXCEPT ![t] = "asked"]
       \/ /\ worker = "exited"
          /\ start' = [start EXCEPT ![t] = "refused"]
          /\ UNCHANGED <<worker, commands>>
    /\ UNCHANGED <<completion, cancelled, dropped, heard, steer, steerTo,
                   processVars, current, active, asked, call>>

\* The caller read the entry of a started turn, which may be over by now.
AskSteer(m, t) ==
    /\ steer[m] = "none"
    /\ start[t] = "ok"
    /\ steerTo' = [steerTo EXCEPT ![m] = t]
    /\ \/ /\ Enqueue(m)
          /\ steer' = [steer EXCEPT ![m] = "asked"]
       \/ /\ worker = "exited"
          /\ steer' = [steer EXCEPT ![m] = "refused"]
          /\ UNCHANGED <<worker, commands>>
    /\ UNCHANGED <<start, completion, cancelled, dropped, heard,
                   processVars, current, active, asked, call>>

\* RuntimeCancelHandle.cancel, while run_turn has the turn.
Cancel(t) ==
    /\ start[t] = "ok"
    /\ t \notin dropped \cup cancelled
    /\ cancelled' = cancelled \cup {t}
    /\ UNCHANGED <<start, completion, dropped, heard, steer, steerTo, processVars, loopVars>>

\* run_turn leaves by "?": receiver, completion and cancel handle are dropped.
Drop(t) ==
    /\ "drop" \in Faults
    /\ start[t] = "ok"
    /\ completion[t] = "none"
    /\ t \notin dropped
    /\ dropped' = dropped \cup {t}
    /\ UNCHANGED <<start, completion, cancelled, heard, steer, steerTo, processVars, loopVars>>

-----------------------------------------------------------------------------
(* The worker: start and end                                               *)

\* RpcConnection.request: the request is registered and written.  A dead
\* process breaks the pipe, the writer gives up and fails what is pending.
Request(label) ==
    /\ worker' = label
    /\ call' = IF process = "dead" THEN "lost" ELSE "written"

\* The answer is an error: from the process, or from the writer.  (reader_task
\* takes every message with an id for an answer, a request of the process too;
\* the process is assumed to send none, as approvals are switched off.)
Denied == call = "lost" \/ ("rpc" \in Faults /\ call = "written" /\ process = "up")
Granted == call = "written" /\ process = "up"

\* The process is killed, or dies by itself, with the turns it had.
Gone == [t \in Turn |-> CASE server[t] = "running" -> "over"
                        [] server[t] = "failing" -> "failed"
                        [] OTHER -> server[t]]

\* The worker's future ends: the command in hand and those in the channel are
\* dropped with their response channels, an open turn is completed with an
\* error, and the process is killed.
Exit ==
    /\ worker' = "exited"
    /\ commands' = <<>>
    /\ current' = NoTurn
    /\ active' = NoTurn
    /\ call' = "none"
    /\ start' = [t \in Turn |-> IF start[t] = "asked" THEN "refused" ELSE start[t]]
    /\ steer' = [m \in Message |-> IF steer[m] = "asked" THEN "refused" ELSE steer[m]]
    /\ completion' = [t \in Turn |-> IF t = active THEN "err" ELSE completion[t]]
    /\ process' = IF process = "none" THEN "none" ELSE "dead"
    /\ server' = Gone
    /\ UNCHANGED <<cancelled, dropped, heard, steerTo, notes, interrupted, sent, asked>>

Spawn ==
    /\ worker = "spawning"
    /\ process' = "up"
    /\ worker' = "initializing"
    /\ call' = "written"
    /\ UNCHANGED <<clientVars, notes, server, interrupted, sent,
                   commands, current, active, asked>>

SpawnFails ==
    /\ "spawn" \in Faults
    /\ worker = "spawning"
    /\ Exit

Initialized ==
    /\ worker = "initializing"
    /\ Granted
    /\ worker' = "loop"
    /\ call' = "none"
    /\ UNCHANGED <<clientVars, processVars, commands, current, active, asked>>

InitializeFails ==
    /\ worker = "initializing"
    /\ Denied
    /\ Exit

-----------------------------------------------------------------------------
(* The worker: commands                                                    *)

\* Back in the loop, the command in hand answered.
Idle == /\ worker' = "loop"
        /\ current' = NoTurn
        /\ call' = "none"

\* StartTurn while a turn is open is refused.
RefuseStart ==
    /\ worker = "loop"
    /\ commands # <<>>
    /\ Head(commands) \in Turn
    /\ active # NoTurn
    /\ start' = [start EXCEPT ![Head(commands)] = "refused"]
    /\ commands' = Tail(commands)
    /\ UNCHANGED <<completion, cancelled, dropped, heard, steer, steerTo,
                   processVars, worker, current, active, asked, call>>

\* Slips that the properties must notice stand before the definition they
\* distort and are no part of Next.  Here: the open turn is not
\* looked at.
PrepareUnguarded ==
    /\ worker = "loop"
    /\ commands # <<>>
    /\ Head(commands) \in Turn
    /\ current' = Head(commands)
    /\ commands' = Tail(commands)
    /\ Request("preparing")
    /\ UNCHANGED <<clientVars, processVars, active, asked>>

\* thread/start or thread/resume is sent.
Prepare ==
    /\ worker = "loop"
    /\ commands # <<>>
    /\ Head(commands) \in Turn
    /\ active = NoTurn
    /\ current' = Head(commands)
    /\ commands' = Tail(commands)
    /\ Request("preparing")
    /\ UNCHANGED <<clientVars, processVars, active, asked>>

\* The thread is known: RuntimeSessionReady and TurnStarted go to the caller,
\* and turn/start is sent.
Launch ==
    /\ worker = "preparing"
    /\ Granted
    /\ Request("launching")
    /\ UNCHANGED <<clientVars, processVars, commands, current, active, asked>>

\* turn/start is answered: the turn is active and the caller gets its handles.
Launched ==
    /\ worker = "launching"
    /\ Granted
    /\ active' = current
    /\ asked' = FALSE
    /\ start' = [start EXCEPT ![current] = "ok"]
    /\ server' = [server EXCEPT ![current] = IF @ = "none" THEN "running" ELSE @]
    /\ Idle
    /\ UNCHANGED <<completion, cancelled, dropped, heard, steer, steerTo,
                   process, notes, interrupted, sent, commands>>

StartFails ==
    /\ worker \in {"preparing", "launching"}
    /\ Denied
    /\ call = "written" => server[current] = "none"
    /\ start' = [start EXCEPT ![current] = "refused"]
    /\ Idle
    /\ UNCHANGED <<completion, cancelled, dropped, heard, steer, steerTo,
                   processVars, commands, active, asked>>

\* SteerTurn is refused unless the open turn is the one it names.
RefuseSteer ==
    /\ worker = "loop"
    /\ commands # <<>>
    /\ Head(commands) \in Message
    /\ active # steerTo[Head(commands)]
    /\ steer' = [steer EXCEPT ![Head(commands)] = "refused"]
    /\ commands' = Tail(commands)
    /\ UNCHANGED <<start, completion, cancelled, dropped, heard, steerTo,
                   processVars, worker, current, active, asked, call>>

\* Slip: the turn is not compared with the open one.
ForwardSteerUnguarded ==
    /\ worker = "loop"
    /\ commands # <<>>
    /\ Head(commands) \in Message
    /\ current' = Head(commands)
    /\ commands' = Tail(commands)
    /\ Request("steering")
    /\ UNCHANGED <<clientVars, processVars, active, asked>>

\* turn/steer is sent.
ForwardSteer ==
    /\ worker = "loop"
    /\ commands # <<>>
    /\ Head(commands) \in Message
    /\ active = steerTo[Head(commands)]
    /\ current' = Head(commands)
    /\ commands' = Tail(commands)
    /\ Request("steering")
    /\ UNCHANGED <<clientVars, processVars, active, asked>>

\* The process takes the message as long as the turn it names is going on.
Steered ==
    /\ worker = "steering"
    /\ \/ /\ Granted
          /\ server[steerTo[current]] = "running"
          /\ steer' = [steer EXCEPT ![current] = "ok"]
       \/ /\ \/ Denied
             \/ Granted /\ server[steerTo[current]] # "running"
          /\ steer' = [steer EXCEPT ![current] = "refused"]
    /\ Idle
    /\ UNCHANGED <<start, completion, cancelled, dropped, heard, steerTo,
                   processVars, commands, active, asked>>

-----------------------------------------------------------------------------
(* The worker: cancel                                                      *)

\* Slip: changed() also returns when the handle was dropped; what it holds is
\* not looked at.
InterruptUnguarded ==
    /\ worker = "loop"
    /\ active \in cancelled \cup dropped
    /\ ~asked
    /\ asked' = TRUE
    /\ Request("interrupting")
    /\ UNCHANGED <<clientVars, processVars, commands, current, active>>

\* Slip: the cancel is noted and not passed on.
InterruptNotSent ==
    /\ worker = "loop"
    /\ active \in cancelled
    /\ ~asked
    /\ asked' = TRUE
    /\ UNCHANGED <<clientVars, processVars, worker, commands, current, active, call>>

\* cancel_rx.changed(): turn/interrupt is sent, once.  (When the handle was
\* dropped, changed() returns at once and nothing is done: the loop turns.)
Interrupt ==
    /\ worker = "loop"
    /\ active \in cancelled
    /\ ~asked
    /\ asked' = TRUE
    /\ Request("interrupting")
    /\ UNCHANGED <<clientVars, processVars, commands, current, active>>

\* The answer to turn/interrupt is ignored: if the process does not take it
\* although the turn is going on ("deaf"), it is not asked again.
Interrupted ==
    /\ worker = "interrupting"
    /\ \/ /\ Granted
          /\ interrupted' = interrupted \cup {active}
       \/ /\ \/ call = "lost"
             \/ Granted /\ ("deaf" \in Faults \/ server[active] # "running")
          /\ UNCHANGED interrupted
    /\ Idle
    /\ UNCHANGED <<clientVars, process, notes, server, sent, commands, active, asked>>

-----------------------------------------------------------------------------
(* The worker: notifications                                               *)

\* matches_thread and matches_turn_or_global.  Chunks and errors carry turnId;
\* turn/completed carries turn.id alone, and a notification without turnId
\* passes as a global one, whatever its turn.id.
Matches(note) ==
    /\ ThreadOf[note.turn] = ThreadOf[active]
    /\ note.turn = active \/ note.kind \in Closing

\* Slip: notifications are also taken while turn/start is under way.
TakeNoteEarly ==
    /\ worker \in {"loop", "launching"}
    /\ notes # <<>>
    /\ notes' = Tail(notes)
    /\ LET note == Head(notes)
       IN  IF active = NoTurn \/ ~Matches(note)
             THEN UNCHANGED <<active, completion, heard>>
           ELSE IF note.kind = "delta"
             THEN /\ heard' = [heard EXCEPT ![active] = @ + 1]
                  /\ UNCHANGED <<active, completion>>
           ELSE /\ active' = NoTurn
                /\ completion' = [completion EXCEPT ![active] =
                                     IF note.kind = "completed" THEN "ok" ELSE "err"]
                /\ UNCHANGED heard
    /\ UNCHANGED <<start, cancelled, dropped, steer, steerTo, process, server,
                   interrupted, sent, worker, commands, current, asked, call>>

\* handle_notification and finish_active_turn.  With no open turn the
\* notification is dropped.
TakeNote ==
    /\ worker = "loop"
    /\ notes # <<>>
    /\ notes' = Tail(notes)
    /\ LET note == Head(notes)
       IN  IF active = NoTurn \/ ~Matches(note)
             THEN UNCHANGED <<active, completion, heard>>
           ELSE IF note.kind = "delta"
             THEN /\ heard' = [heard EXCEPT ![active] = @ + 1]
                  /\ UNCHANGED <<active, completion>>
           ELSE /\ active' = NoTurn
                /\ completion' = [completion EXCEPT ![active] =
                                     IF note.kind = "completed" THEN "ok" ELSE "err"]
                /\ UNCHANGED heard
    /\ UNCHANGED <<start, cancelled, dropped, steer, steerTo, process, server,
                   interrupted, sent, worker, commands, current, asked, call>>

\* Slip: the worker returns and leaves the open turn to itself.
StreamClosesSilently ==
    /\ worker = "loop"
    /\ process = "dead"
    /\ notes = <<>>
    /\ worker' = "exited"
    /\ UNCHANGED <<clientVars, processVars, commands, current, active, asked, call>>

\* The pipe is closed and the channel empty.
StreamCloses ==
    /\ worker = "loop"
    /\ process = "dead"
    /\ notes = <<>>
    /\ Exit

-----------------------------------------------------------------------------
(* The process                                                             *)

Tell(kind, t) == notes' = Append(notes, [kind |-> kind, turn |-> t])

\* The turn may be at work, and heard of, before turn/start is answered.
ServerStarts ==
    /\ worker = "launching"
    /\ Granted
    /\ server[current] = "none"
    /\ server' = [server EXCEPT ![current] = "running"]
    /\ UNCHANGED <<clientVars, process, notes, interrupted, sent, loopVars>>

Delta(t) ==
    /\ server[t] = "running"
    /\ sent[t] < MaxDeltas
    /\ sent' = [sent EXCEPT ![t] = @ + 1]
    /\ Tell("delta", t)
    /\ UNCHANGED <<clientVars, process, server, interrupted, loopVars>>

\* An error the process will not retry (one it will retry changes nothing);
\* turn/completed follows.
Fail(t) ==
    /\ server[t] = "running"
    /\ server' = [server EXCEPT ![t] = "failing"]
    /\ Tell("error", t)
    /\ UNCHANGED <<clientVars, process, interrupted, sent, loopVars>>

\* turn/completed, with the status of the turn; "failed" is the end of a turn
\* that had an error before it.
Finish(t) ==
    /\ \/ /\ server[t] = "running"
          /\ server' = [server EXCEPT ![t] = "over"]
          /\ \/ Tell("completed", t)
             \/ Tell("failed", t)
             \/ t \in interrupted /\ Tell("interrupted", t)
       \/ /\ server[t] = "failing"
          /\ server' = [server EXCEPT ![t] = "failed"]
          /\ Tell("failed", t)
    /\ UNCHANGED <<clientVars, process, interrupted, sent, loopVars>>

Die ==
    /\ "die" \in Faults
    /\ process = "up"
    /\ process' = "dead"
    /\ server' = Gone
    /\ UNCHANGED <<clientVars, notes, interrupted, sent, loopVars>>

-----------------------------------------------------------------------------

\* What the worker does without waiting for anybody, and what it does when it
\* has an answer.
Work == \/ Spawn \/ SpawnFails \/ RefuseStart \/ Prepare \/ RefuseSteer
        \/ ForwardSteer \/ Interrupt \/ TakeNote \/ StreamCloses
Answered == \/ Initialized \/ InitializeFails \/ Launch \/ Launched \/ StartFails
            \/ Steered \/ Interrupted

Caller == \/ \E t \in Turn : AskStart(t) \/ Cancel(t) \/ Drop(t)
          \/ \E m \in Message, t \in Turn : AskSteer(m, t)

Process == \/ ServerStarts
           \/ \E t \in Turn : Delta(t) \/ Fail(t) \/ Finish(t)
           \/ Die

Next == Caller \/ Work \/ Answered \/ Process

Spec == Init /\ [][Next]_vars

\* The worker's thread runs (of the ready branches select! draws one, and the
\* process writes finitely many notifications in a turn); the process, while it
\* lives, answers requests and ends a turn it was told to interrupt.  It never
\* has to finish by itself.
FairSpec == /\ Spec
            /\ WF_vars(Work)
            /\ WF_vars(Answered)
            /\ \A t \in Turn : WF_vars(t \in interrupted /\ Finish(t))

-----------------------------------------------------------------------------
(* Safety                                                                  *)

\* Turns that had an error: the error ends them at the worker, and their
\* turn/completed is left over for whichever turn is open when it comes.
Failed == {t \in Turn : server[t] \in {"failing", "failed"}}

\* A turn that ended well was heard in full, including what the process wrote
\* before it answered turn/start.  Only an earlier turn of its thread that had
\* an error can spoil this: what that one left over may end a turn that goes
\* on at the process, whose own end then ends the next one.
AnswerIsComplete ==
    \A t \in Turn :
        completion[t] = "ok" => \/ heard[t] = sent[t]
                               \/ \E u \in Failed \ {t} : ThreadOf[u] = ThreadOf[t]

\* Only turns that were stopped are interrupted, neither a later turn of the
\* thread nor one whose cancel handle was merely dropped.
OnlyStoppedIsInterrupted == interrupted \subseteq cancelled

\* When a steer is acknowledged its turn is still open: its caller will hear
\* what comes of it.
SteeredTurnIsOpen ==
    [][\A m \in Message : steer[m] = "asked" /\ steer'[m] = "ok"
          => start[steerTo[m]] = "ok" /\ completion[steerTo[m]] = "none"]_vars

\* The worker keeps the contract of AgentRuntime, as far as its callers see it:
\* "working" is the turn the worker takes the process to work on, and a process
\* that goes on with a turn that was ended early is not seen here.
Contract == INSTANCE RuntimeContract WITH working <- active
KeepsContract == Contract!Spec

-----------------------------------------------------------------------------
(* Liveness                                                                *)

\* While the process lives every start is answered, also one that waits behind
\* other commands, and a stopped turn ends.  A process that is "deaf" is assumed
\* away: the one it did not take is the only interrupt there is (StopEndsTurn).
LiveProcessServes ==
    [](process # "dead") =>
        \A t \in Turn : /\ start[t] = "asked" ~> start[t] # "asked"
                       /\ t \in cancelled ~> completion[t] # "none"

\* A process that dies while the worker waits for no answer is noticed, and
\* the caller of the open turn hears of it.
DeathIsNoticed ==
    \A t \in Turn : process = "dead" /\ call # "written" /\ active = t
                       ~> completion[t] # "none"

-----------------------------------------------------------------------------
(* What the documentation says and the code does not do.                   *)

\* docs/design.md: the end of a Codex turn goes by turn/completed.  So a turn
\* that is completed without an error of its own has ended at the process.
EndGoesByOwnCompleted ==
    [][\A t \in Turn : completion[t] = "none" /\ completion'[t] = "err"
          => server'[t] \notin {"none", "running"}]_vars

\* docs/interfaces.md: /ot stop ends the running turn by turn/interrupt.
StopEndsTurn == \A t \in Turn : t \in cancelled ~> completion[t] # "none"

=============================================================================
