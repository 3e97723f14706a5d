----------------------------- MODULE TurnRender -----------------------------
(***************************************************************************)
(* What agents say and what becomes of it: the two normalizations of       *)
(* src/agent/normalized.rs, and TurnRenderState of src/core/service.rs,    *)
(* which cuts the text of the agent into progress messages and one final   *)
(* message and keeps the plan.                                             *)
(*                                                                         *)
(* A text is a sequence of numbers, each of them one word the agent wrote; *)
(* Space stands for white space; the limit of the final message counts     *)
(* both.  A plan is a sequence of entries.  Usage, the count of active     *)
(* tools (nothing reads it) and what the cards look like are left out.     *)
(***************************************************************************)
EXTENDS Naturals, Sequences, SequencesExt

CONSTANT MaxFinal  \* how much text a final message has room for (2200)

ASSUME LimitAssumption == MaxFinal \in Nat

Space == 0

\* The text without its white space; trim().is_empty() in the code.
Words(text) ==
    FlattenSeq([i \in 1 .. Len(text) |-> IF text[i] = Space THEN <<>> ELSE <<text[i]>>])
Blank(text) == Words(text) = <<>>

None == [text |-> <<>>, given |-> FALSE]
Some(text) == [text |-> text, given |-> TRUE]

-----------------------------------------------------------------------------
(* Events                                                                  *)

Chunk(text) == [kind |-> "chunk", text |-> text, plan |-> <<>>]
Message(text) == [kind |-> "message", text |-> text, plan |-> <<>>]
ToolBegins == [kind |-> "tool", text |-> <<>>, plan |-> <<>>]
Plan(plan) == [kind |-> "plan", text |-> <<>>, plan |-> plan]
Completed == [kind |-> "completed", text |-> <<>>, plan |-> <<>>]
Other == [kind |-> "other", text |-> <<>>, plan |-> <<>>]

\* normalize_acp_update: a session update becomes one event, or none (thoughts,
\* commands, content that is no text).  The end of a tool is an event that only
\* changes the count of tools; it is Other as well.
NormalizeAcpUpdate(update) == IF update = Other THEN <<>> ELSE <<update>>

\* An entry counts when it says what is to be done.
Usable(plan) ==
    FlattenSeq([i \in 1 .. Len(plan) |->
                   IF plan[i].content = "none" THEN <<>> ELSE <<plan[i]>>])

\* normalize_exec_json_event: a line becomes its event, if it has one, and the
\* plan found in it, if there is one that is not empty.
NormalizeExecJsonEvent(line) ==
    LET plan == Usable(line.plan)
    IN  (IF line.kind \in {"plan", "other"} THEN <<>> ELSE <<[line EXCEPT !.plan = <<>>]>>)
          \o (IF plan = <<>> THEN <<>> ELSE <<Plan(plan)>>)

-----------------------------------------------------------------------------
(* TurnRenderState                                                         *)

NewRender == [status |-> "running",
              buffered |-> <<>>, \* text that may become progress
              pending |-> <<>>,  \* progress that is not yet sent
              current |-> <<>>,  \* text since the last tool
              final |-> None,
              todo |-> <<>>]

HasProgressUpdate(render) == ~Blank(render.pending)
MarkFlushed(render) == [render EXCEPT !.pending = <<>>]

QueueProgressFromBuffer(render) ==
    [render EXCEPT !.pending = IF Blank(@) /\ ~Blank(render.buffered)
                                 THEN render.buffered ELSE @,
                   !.buffered = <<>>]

AssistantMessage(render, text) ==
    [render EXCEPT !.buffered = <<>>, !.current = text, !.final = Some(text)]

\* Slips that the properties must notice stand before the definition they
\* distort.  Here: the text that becomes progress stays the last text as well.
ToolBegunKeepsText(render) == QueueProgressFromBuffer(render)

\* A tool interrupts the text: what was said so far becomes progress.
ToolBegun(render) ==
    [QueueProgressFromBuffer(render) EXCEPT !.current = IF Blank(@) THEN @ ELSE <<>>]

\* apply_event.
ApplyEvent(render, event) ==
    CASE event.kind = "chunk" -> [render EXCEPT !.buffered = @ \o event.text,
                                                !.current = @ \o event.text]
      [] event.kind = "message" -> AssistantMessage(render, event.text)
      [] event.kind = "tool" -> ToolBegun(render)
      [] event.kind = "plan" -> [render EXCEPT !.todo = event.plan]
      [] event.kind = "completed" -> [render EXCEPT !.status = "completed"]
      [] OTHER -> render

\* finalize: without a message the last text is the answer.
Finalize(render) ==
    [render EXCEPT !.status = "completed",
                   !.final = IF @ = None /\ ~Blank(render.current)
                               THEN Some(render.current) ELSE @,
                   !.buffered = <<>>]

Fail(render) == [render EXCEPT !.status = "failed"]

-----------------------------------------------------------------------------
(* What is shown                                                           *)

TodoSortKey(status) ==
    CASE status \in {"in_progress", "running"} -> 0
      [] status \in {"pending", "todo"} -> 1
      [] status \in {"completed", "done"} -> 2
      [] status \in {"failed", "error", "blocked"} -> 3
      [] OTHER -> 4

\* ordered_todos: by status, and entries of one status as the agent gave them.
OrderedTodos(plan) ==
    LET OfKey(key) == SelectSeq(plan, LAMBDA entry : TodoSortKey(entry.status) = key)
    IN  FlattenSeq([key \in 1 .. 5 |-> OfKey(key - 1)])

Shown(slot, text, plan, failed) ==
    [slot |-> slot, text |-> text, plan |-> plan, failed |-> failed]
ProgressMessage(render) == Shown("progress", Words(render.pending), <<>>, FALSE)
TodoMessage(render) == Shown("todo", <<>>, OrderedTodos(render.todo), FALSE)

\* shorten: what a message has room for, and what is cut off (and replaced by
\* three dots).
Shorten(text) == IF Len(text) > MaxFinal THEN SubSeq(text, 1, MaxFinal) ELSE text
CutOff(text) == IF Len(text) > MaxFinal THEN SubSeq(text, MaxFinal + 1, Len(text)) ELSE <<>>

\* A turn that failed shows its error and none of its text.
FinalMessage(render) ==
    LET failed == render.status = "failed"
    IN  Shown("final", IF failed THEN <<>> ELSE Words(Shorten(render.final.text)), <<>>, failed)
=============================================================================
