----------------------------- MODULE TurnStream -----------------------------
(***************************************************************************)
(* How what the agent says in one turn reaches the user: the agent writes  *)
(* into a stream, the task of the runtime reads it and sends events on, and*)
(* the loop of run_turn (src/core/service.rs) turns them into messages     *)
(* (TurnRender).  Two runtimes have such a task:                           *)
(*                                                                         *)
(*   "exec_json"  one process for the turn, whose lines are normalized     *)
(*                (src/agent/runtime/exec_json.rs);                        *)
(*   "fallback"   the relay before the ACP runtime                         *)
(*                (src/agent/runtime/fallback.rs): it hands events on and  *)
(*                passes a stop through to the cancel handle it holds.     *)
(*                                                                         *)
(* The task, the watcher of the cancel handle, run_turn and /ot stop run   *)
(* side by side.  A turn has been attached when the model starts; locks,   *)
(* rows and start_turn are in TurnService.                                 *)
(***************************************************************************)
EXTENDS TurnRender

CONSTANTS Plans,   \* plans the agent may have
          Faults,  \* which environment failures are considered
          MaxSaid  \* bound on what the agent says

ASSUME ConstantsAssumption ==
    /\ \A plan \in Plans : plan \in Seq([content : STRING, status : STRING])
    /\ Faults \subseteq {"start", "publish"}
    /\ MaxSaid \in Nat

VARIABLES
    mode,     \* the runtime
    agent,    \* the process, or the turn of the primary runtime
    open,     \* pipes of the agent that somebody still holds at its end
    said,     \* what the agent said
    stream,   \* what of it nobody read yet
    task,     \* where the completion task is
    seen,     \* whether the task of exec_json saw the stop
    slot,     \* whether current_cancel holds the handle of the primary
    watching, \* whether the relay still waits for its cancel handle
    stopped,  \* whether the cancel handle was fired
    told,     \* whether the agent was: killed, or its own handle fired
    outcome,  \* what the completion joins to
    events,   \* the channel run_turn reads
    core,     \* where run_turn is
    render,   \* its TurnRenderState
    shown     \* what the gateway acknowledged, oldest first

agentVars == <<mode, agent, open, said, stream>>
taskVars == <<task, seen, slot, outcome>>
stopVars == <<watching, stopped, told>>
coreVars == <<core, render, shown>>
vars == <<agentVars, taskVars, stopVars, coreVars, events>>

-----------------------------------------------------------------------------
(* Types                                                                   *)

\* What an agent can say next: words are numbered as they come.
Sayable ==
    LET word == Len(said) + 1
    IN  {ToolBegins, Other}
          \cup {Plan(plan) : plan \in Plans}
          \cup (IF mode = "exec_json" THEN {Message(<<word>>), Completed}
                                      ELSE {Chunk(<<word>>), Chunk(<<Space>>)})

TypeOK ==
    /\ mode \in {"exec_json", "fallback"}
    /\ agent \in {"absent", "working", "ok", "err"}
    /\ open \subseteq {"stdout", "stderr"}
    /\ "stderr" \in open => mode = "exec_json"
    /\ Len(said) <= MaxSaid
    /\ stream = SubSeq(said, Len(said) - Len(stream) + 1, Len(said))
    /\ task \in {"starting", "reading", "joining", "ended"}
    /\ seen \in BOOLEAN
    /\ seen => mode = "exec_json" /\ task \in {"joining", "ended"}
    /\ slot \in BOOLEAN
    /\ slot => mode = "fallback" /\ task = "reading"
    /\ watching \in BOOLEAN
    /\ stopped \in BOOLEAN
    /\ told \in BOOLEAN
    /\ outcome \in {"none", "ok", "interrupted", "failed"}
    /\ outcome = "none" <=> task # "ended"
    /\ core \in {"streaming", "done", "aborted"}
    /\ HasProgressUpdate(render) => core = "aborted"

Init ==
    /\ mode \in {"exec_json", "fallback"}
    /\ agent = "absent"
    /\ open = {}
    /\ said = <<>>
    /\ stream = <<>>
    /\ task = "starting"
    /\ seen = FALSE
    /\ slot = FALSE
    /\ watching = (mode = "fallback")
    /\ stopped = FALSE
    /\ told = FALSE
    /\ outcome = "none"
    /\ events = <<>>
    /\ core = "streaming"
    /\ render = NewRender
    /\ shown = <<>>

-----------------------------------------------------------------------------
(* The agent                                                               *)

Say ==
    /\ agent = "working"
    /\ "stdout" \in open
    /\ Len(said) < MaxSaid
    /\ \E update \in Sayable :
          /\ said' = Append(said, update)
          /\ stream' = Append(stream, update)
    /\ UNCHANGED <<mode, agent, open, taskVars, stopVars, coreVars, events>>

\* The process exits, and what it started may still hold its pipes; the turn of
\* the primary ends, and its stream with it.
AgentEnds(result) ==
    /\ agent = "working"
    /\ agent' = result
    /\ open' \in (IF mode = "exec_json" THEN SUBSET open ELSE {{}})
    /\ UNCHANGED <<mode, said, stream, taskVars, stopVars, coreVars, events>>

\* The last holder of a pipe closes it.
LetGo(pipe) ==
    /\ mode = "exec_json"
    /\ pipe \in open
    /\ open' = open \ {pipe}
    /\ UNCHANGED <<mode, agent, said, stream, taskVars, stopVars, coreVars, events>>

\* The output: the process does, before it exits, or what it has started.
OutputEnds == LetGo("stdout")

\* A process that was killed is gone, and the turn of a runtime whose handle
\* was fired ends (AcpWorker): with an error both.
AgentStops ==
    /\ told
    /\ AgentEnds("err")

\* A process that has closed its output exits.
MuteExits ==
    /\ "stdout" \notin open
    /\ AgentEnds("ok") \/ AgentEnds("err")

\* The errors, which nobody waits for before the exit: what it has started does.
ErrorsEnd ==
    /\ agent \in {"ok", "err"}
    /\ LetGo("stderr")

-----------------------------------------------------------------------------
(* The completion task                                                     *)

Send(sequence) == events' = IF core = "aborted" THEN events ELSE events \o sequence

\* The process is spawned; the start_turn of the primary returns, and its
\* handle is put where the watcher looks for it.
Starts ==
    /\ task = "starting"
    /\ agent' = "working"
    /\ open' = {"stdout"} \cup (IF mode = "exec_json" THEN {"stderr"} ELSE {})
    /\ task' = "reading"
    /\ slot' = (mode = "fallback")
    /\ UNCHANGED <<mode, said, stream, seen, outcome, stopVars, coreVars, events>>

StartFails ==
    /\ "start" \in Faults
    /\ task = "starting"
    /\ task' = "ended"
    /\ outcome' = "failed"
    /\ UNCHANGED <<agentVars, seen, slot, stopVars, coreVars, events>>

ReadNext ==
    /\ task = "reading"
    /\ stream # <<>>
    /\ stream' = Tail(stream)
    /\ Send(IF mode = "exec_json" THEN NormalizeExecJsonEvent(Head(stream))
                                  ELSE NormalizeAcpUpdate(Head(stream)))
    /\ UNCHANGED <<mode, agent, open, said, taskVars, stopVars, coreVars>>

\* Slip: a stream that was closed is not read to its end.
EndOfStreamEarly ==
    /\ task = "reading"
    /\ "stdout" \notin open
    /\ task' = "joining"
    /\ slot' = FALSE
    /\ UNCHANGED <<agentVars, seen, outcome, stopVars, coreVars, events>>

\* The stream is read and closed: from here the task hears no stop.
EndOfStream ==
    /\ task = "reading"
    /\ stream = <<>>
    /\ "stdout" \notin open
    /\ task' = "joining"
    /\ slot' = FALSE
    /\ UNCHANGED <<agentVars, seen, outcome, stopVars, coreVars, events>>

\* Slip: the process is left alone.
SeeStopKillsNothing ==
    /\ mode = "exec_json"
    /\ task = "reading"
    /\ stopped
    /\ seen' = TRUE
    /\ task' = "joining"
    /\ UNCHANGED <<agentVars, slot, outcome, stopVars, coreVars, events>>

\* exec_json: the process is killed, what it still wrote is not read.
SeeStop ==
    /\ mode = "exec_json"
    /\ task = "reading"
    /\ stopped
    /\ seen' = TRUE
    /\ told' = TRUE
    /\ task' = "joining"
    /\ UNCHANGED <<agentVars, slot, outcome, watching, stopped, coreVars, events>>

\* The exit of the process and the end of its errors, or the completion of the
\* primary.
Join ==
    /\ task = "joining"
    /\ agent \in {"ok", "err"}
    /\ "stderr" \notin open
    /\ \/ seen /\ outcome' = "interrupted"
       \/ ~seen /\ agent = "ok" /\ outcome' = "ok"
       \/ ~seen /\ agent = "err" /\ outcome' = "failed"
       \/ mode = "fallback" /\ agent = "err" /\ told /\ outcome' = "interrupted"
    /\ task' = "ended"
    /\ UNCHANGED <<agentVars, seen, slot, stopVars, coreVars, events>>

-----------------------------------------------------------------------------
(* Stopping                                                                *)

\* /ot stop, as long as the turn is in ActiveTurns.
Stop ==
    /\ core = "streaming"
    /\ stopped' = TRUE
    /\ UNCHANGED <<agentVars, taskVars, watching, told, coreVars, events>>

\* The watcher of the relay wakes up once.  Before the primary is started and
\* after its events are read there is nothing it can fire.
PassOn ==
    /\ watching
    /\ stopped
    /\ told' = slot
    /\ watching' = FALSE
    /\ UNCHANGED <<agentVars, taskVars, stopped, coreVars, events>>

-----------------------------------------------------------------------------
(* run_turn                                                                *)

\* Slip: only a plan with more or fewer entries is a new one.
ReceiveCountsEntries ==
    /\ core = "streaming"
    /\ events # <<>>
    /\ events' = Tail(events)
    /\ LET next == ApplyEvent(render, Head(events))
           todo == IF Len(next.todo) # Len(render.todo) THEN <<TodoMessage(next)>> ELSE <<>>
           progress == IF HasProgressUpdate(next) THEN <<ProgressMessage(next)>> ELSE <<>>
       IN  /\ shown' = shown \o todo \o progress
           /\ render' = MarkFlushed(next)
    /\ UNCHANGED <<agentVars, taskVars, stopVars, core>>

\* One event: the plan is sent when it changed, then the progress there is.
\* When the gateway does not take one of them, run_turn gives up.
Receive ==
    /\ core = "streaming"
    /\ events # <<>>
    /\ events' = Tail(events)
    /\ LET next == ApplyEvent(render, Head(events))
           todo == IF next.todo # render.todo THEN <<TodoMessage(next)>> ELSE <<>>
           progress == IF HasProgressUpdate(next) THEN <<ProgressMessage(next)>> ELSE <<>>
           new == todo \o progress
       IN  \/ /\ shown' = shown \o new
              /\ render' = MarkFlushed(next)
              /\ UNCHANGED core
           \/ /\ "publish" \in Faults
              /\ \E n \in 0 .. Len(new) - 1 : shown' = shown \o SubSeq(new, 1, n)
              /\ render' = next
              /\ core' = "aborted"
    /\ UNCHANGED <<agentVars, taskVars, stopVars>>

\* The channel is drained and closed, and the completion is joined: finalize or
\* fail, and the final message.
Conclude ==
    /\ core = "streaming"
    /\ events = <<>>
    /\ task = "ended"
    /\ LET last == IF outcome = "ok" THEN Finalize(render) ELSE Fail(render)
       IN  /\ render' = last
           /\ \/ /\ shown' = Append(shown, FinalMessage(last))
                 /\ core' = "done"
              \/ /\ "publish" \in Faults
                 /\ core' = IF outcome = "ok" THEN "aborted" ELSE "done"
                 /\ UNCHANGED shown
    /\ UNCHANGED <<agentVars, taskVars, stopVars, events>>

-----------------------------------------------------------------------------

Agent == \/ Say \/ AgentEnds("ok") \/ AgentEnds("err") \/ AgentStops \/ MuteExits
         \/ OutputEnds \/ ErrorsEnd
TaskStep == Starts \/ StartFails \/ ReadNext \/ EndOfStream \/ SeeStop \/ Join
CoreStep == Receive \/ Conclude

Next == Agent \/ TaskStep \/ Stop \/ PassOn \/ CoreStep

Spec == Init /\ [][Next]_vars

\* Tasks run and the start of an agent is answered; of the agent nothing is
\* assumed.
FairSpec == /\ Spec
            /\ WF_vars(TaskStep)
            /\ WF_vars(SeeStop)
            /\ WF_vars(CoreStep)
            /\ WF_vars(PassOn)

-----------------------------------------------------------------------------
(* Safety                                                                  *)

SaidWords == FlattenSeq([i \in 1 .. Len(said) |-> Words(said[i].text)])
ShownWords == FlattenSeq([i \in 1 .. Len(shown) |-> shown[i].text])

\* docs/interfaces.md: no text is sent as progress and again as final.  Chunks
\* that pass through two channels, two texts and two kinds of messages reach
\* the user at most once and in the order the agent wrote them, without a gap
\* before what is shown, also when the turn is stopped, fails or gives up.
ChunksAreShownInOrder ==
    mode = "fallback" => IsPrefix(ShownWords, SaidWords)

\* When a turn succeeded, nothing of what the agent wrote in chunks, or of its
\* last message with exec_json, is missing but what the final message has no
\* room for.
AnswerIsWhole ==
    LET messages == {i \in 1 .. Len(said) : said[i].kind = "message"}
        written == CASE mode = "fallback" -> SaidWords
                     [] mode = "exec_json" /\ messages = {} -> <<>>
                     [] OTHER -> said[Max(messages)].text
    IN  core = "done" /\ outcome = "ok" =>
            ShownWords \o Words(CutOff(render.final.text)) = written

\* When a turn succeeded, the plan the user sees is the last one that the runtime
\* told of: exec_json tells of no plan without an entry, so that one that was
\* emptied stays as it was.
LastPlanIsShown ==
    LET Entries(i) == IF mode = "exec_json" THEN Usable(said[i].plan) ELSE said[i].plan
        plans == {i \in 1 .. Len(said) : /\ said[i].kind = "plan"
                                         /\ mode = "exec_json" => Entries(i) # <<>>}
        todos == {i \in 1 .. Len(shown) : shown[i].slot = "todo"}
    IN  core = "done" /\ outcome = "ok" /\ plans # {} =>
            \/ todos # {} /\ shown[Max(todos)].plan = OrderedTodos(Entries(Max(plans)))
            \/ todos = {} /\ \A i \in plans : Entries(i) = <<>>

-----------------------------------------------------------------------------
(* Liveness                                                                *)

\* What the code leaves to others once it has passed a stop on: the kernel ends
\* what was killed, and the primary a turn whose handle was fired (the ACP worker
\* does as soon as it has the prompt in hand; a turn that is queued behind the
\* prompt of another chat, or whose session is being opened, waits for that); a
\* process that has closed its output exits, and what it started closes its errors.
Cooperation == WF_vars(AgentStops) /\ WF_vars(MuteExits) /\ WF_vars(ErrorsEnd)

\* A stop ends the turn, also one the agent would never have ended: with
\* exec_json whenever it comes, with the relay once it has found the handle of
\* the primary; in both as far as the others cooperate.
StoppedTurnEnds ==
    Cooperation => (stopped /\ (mode = "exec_json" \/ told) ~> core # "streaming")

-----------------------------------------------------------------------------
(* What the documentation says and the code does not do.                   *)

\* docs/interfaces.md, "/ot stop stops the turn that is running": the watcher of
\* the relay wakes up once, and finds no handle while the primary starts.
EveryStopEndsTheTurn == stopped ~> core # "streaming"

=============================================================================
