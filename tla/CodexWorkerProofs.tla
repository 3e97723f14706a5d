-------------------------- MODULE CodexWorkerProofs --------------------------
(***************************************************************************)
(* The safety of CodexWorker, proved for every number of turns, messages,  *)
(* threads and chunks and every set of failures: the types, what the       *)
(* process is told to interrupt, to whom a steer is acknowledged, the      *)
(* contract of AgentRuntime, and what a turn that ended well was heard of. *)
(***************************************************************************)
EXTENDS CodexWorker, FiniteSetTheorems, SequenceTheorems, TLAPS

-----------------------------------------------------------------------------
(* The worker and its commands                                             *)

\* What the command in hand and the open turn are, wherever the worker is.
InHand ==
    /\ worker \in {"preparing", "launching"} =>
          /\ current \in Turn
          /\ start[current] = "asked"
          /\ active = NoTurn
    /\ worker = "launching" => call = "written"
    /\ worker = "steering" =>
          /\ current \in Message
          /\ steer[current] = "asked"
          /\ active = steerTo[current]
          /\ active \in Turn
    /\ worker = "interrupting" => active \in cancelled
    /\ worker \notin {"preparing", "launching", "steering"} => current = NoTurn
    /\ worker \in {"absent", "spawning", "initializing", "exited"} => active = NoTurn
    /\ worker \in {"absent", "exited"} => commands = <<>>

\* The open turn is the one that was handed out and has not ended; no other
\* turn ends.
OneOpen ==
    \A t \in Turn : /\ active = t <=> start[t] = "ok" /\ completion[t] = "none"
                    /\ completion[t] # "none" => start[t] = "ok"

\* The commands whose callers wait for an answer.
Awaited == {t \in Turn : start[t] = "asked"} \cup {m \in Message : steer[m] = "asked"}

\* A command in the channel is there once, is not the one in hand, and its
\* caller waits; a message that was asked for names its turn.
Queued ==
    /\ \A i \in 1 .. Len(commands) : commands[i] \in Awaited /\ commands[i] # current
    /\ \A i, j \in 1 .. Len(commands) : commands[i] = commands[j] => i = j
    /\ \A m \in Message : steer[m] # "none" => steerTo[m] \in Turn

WorkerInv == TypeOK /\ InHand /\ OneOpen /\ Queued

-----------------------------------------------------------------------------
(* The process and its notifications                                       *)

\* The turn the worker has launched, from turn/start on.
Live == {t \in Turn : t = active \/ (worker = "launching" /\ t = current)}

\* The process works on turns that were launched; before that it has written
\* nothing about them.
Served ==
    \A t \in Turn : /\ server[t] # "none" => start[t] = "ok" \/ t \in Live
                    /\ server[t] = "none" => sent[t] = 0 /\ heard[t] = 0

\* A notification tells what the turn has come to at the process, and nothing
\* follows the end of a turn.
Written ==
    \A i \in 1 .. Len(notes) :
        /\ server[notes[i].turn] # "none"
        /\ notes[i].kind = "error" => notes[i].turn \in Failed
        /\ notes[i].kind = "completed" => server[notes[i].turn] = "over"
        /\ notes[i].kind \in Closing =>
              /\ server[notes[i].turn] \in {"over", "failed"}
              /\ \A j \in 1 .. Len(notes) : i < j => notes[j].turn # notes[i].turn

\* The chunks of a turn on their way.
DeltasOf(t, queue) == {i \in 1 .. Len(queue) : queue[i] = [kind |-> "delta", turn |-> t]}

Counted ==
    \A t \in Live : sent[t] = heard[t] + Cardinality(DeltasOf(t, notes))

\* The threads of turns that were given up and had an error: what is left over
\* of such a turn ends whichever turn of its thread is open.
Disturbed == {ThreadOf[u] : u \in Failed \ Live}

\* A turn that has been given up is not heard of again, unless its thread is
\* disturbed.
Orderly ==
    worker # "exited" =>
        \A t \in Turn \ Live :
            \/ server[t] = "running"
            \/ \E i \in 1 .. Len(notes) : notes[i].turn = t
            => ThreadOf[t] \in Disturbed

\* A turn that ended well is over at the process and was heard in full, unless
\* its thread was disturbed.
EndedWell ==
    \A t \in Turn :
        completion[t] = "ok" => \/ heard[t] = sent[t] /\ server[t] = "over"
                               \/ \E u \in Failed \ {t} : ThreadOf[u] = ThreadOf[t]

NoteInv == Served /\ Written /\ Counted /\ Orderly /\ EndedWell

-----------------------------------------------------------------------------
(* Channels                                                                *)

\* What is sent stands behind what is in the channel.
LEMMA Sent ==
    ASSUME NEW S, NEW queue \in Seq(S), NEW x \in S
    PROVE  /\ Append(queue, x) \in Seq(S)
           /\ Len(queue) \in Nat
           /\ Len(Append(queue, x)) = Len(queue) + 1
           /\ \A i \in 1 .. Len(queue) : Append(queue, x)[i] = queue[i]
           /\ Append(queue, x)[Len(queue) + 1] = x
           /\ \A i \in 1 .. Len(queue) : queue[i] \in S
BY AppendProperties, LenProperties, ElementOfSeq

\* What is received is the first in the channel; the rest moves up.
LEMMA Received ==
    ASSUME NEW S, NEW queue \in Seq(S), queue # <<>>
    PROVE  /\ Tail(queue) \in Seq(S)
           /\ Head(queue) = queue[1]
           /\ Head(queue) \in S
           /\ Len(queue) \in Nat \ {0}
           /\ Len(Tail(queue)) = Len(queue) - 1
           /\ \A i \in 1 .. Len(Tail(queue)) : /\ i + 1 \in 1 .. Len(queue)
                                              /\ Tail(queue)[i] = queue[i + 1]
           /\ \A i \in 1 .. Len(queue) : queue[i] \in S
<1>1. /\ Len(queue) \in Nat
      /\ Len(queue) # 0
      /\ \A i \in 1 .. Len(queue) : queue[i] \in S
  BY LenProperties, ElementOfSeq, EmptySeq
<1>2. /\ Tail(queue) \in Seq(S)
      /\ Head(queue) = queue[1]
      /\ Head(queue) \in S
      /\ Len(Tail(queue)) = Len(queue) - 1
      /\ \A i \in 1 .. Len(Tail(queue)) : Tail(queue)[i] = queue[i + 1]
  BY HeadTailProperties
<1>3. QED
  BY <1>1, <1>2

-----------------------------------------------------------------------------
(* The worker and its commands: the steps                                  *)

\* The start satisfies the invariant of the worker.
LEMMA WorkerStart == Init => WorkerInv
<1> SUFFICES ASSUME Init PROVE WorkerInv
  OBVIOUS
<1>1. <<>> \in Seq(Command) /\ <<>> \in Seq(Note)
  BY EmptySeq
<1>2. ClientTypes
  BY DEF Init, ClientTypes
<1>3. ProcessTypes
  BY <1>1, ConstantsAssumption DEF Init, ProcessTypes
<1>4. LoopTypes
  BY <1>1 DEF Init, LoopTypes, Worker, Blocked
<1>5. InHand /\ OneOpen /\ Queued
  BY ConstantsAssumption DEF Init, InHand, OneOpen, Queued
<1>6. QED
  BY <1>2, <1>3, <1>4, <1>5 DEF WorkerInv, TypeOK

\* A command is sent that nobody waited for before, and whoever waits goes on
\* waiting.
LEMMA QueuedBySending ==
    ASSUME WorkerInv, NEW c \in Command, c \notin Awaited, c # current,
           commands' = Append(commands, c), current' = current,
           Awaited \cup {c} \subseteq Awaited',
           \A m \in Message : steer'[m] # "none" => steerTo'[m] \in Turn
    PROVE  Queued'
<1>1. commands \in Seq(Command)
  BY DEF WorkerInv, TypeOK, LoopTypes
<1>2. /\ Len(commands) \in Nat
      /\ Len(commands') = Len(commands) + 1
      /\ \A i \in 1 .. Len(commands) : commands'[i] = commands[i]
      /\ commands'[Len(commands) + 1] = c
      /\ \A i \in 1 .. Len(commands) : commands[i] \in Command
  BY <1>1, Sent
<1>3. /\ \A i \in 1 .. Len(commands) : commands[i] \in Awaited /\ commands[i] # current
      /\ \A i, j \in 1 .. Len(commands) : commands[i] = commands[j] => i = j
  BY DEF WorkerInv, Queued
<1>4. \A i \in 1 .. Len(commands) : commands[i] # c
  BY <1>3
<1>5. \A i \in 1 .. Len(commands') : i \in 1 .. Len(commands) \/ i = Len(commands) + 1
  BY <1>2
<1>6. ASSUME NEW i \in 1 .. Len(commands')
      PROVE  commands'[i] \in Awaited' /\ commands'[i] # current'
  <2>1. CASE i \in 1 .. Len(commands)
    <3>1. commands'[i] = commands[i]
      BY <1>2, <2>1
    <3>2. QED
      BY <1>2, <1>3, <2>1, <3>1
  <2>2. CASE i = Len(commands) + 1
    BY <1>2, <2>2
  <2>3. QED
    BY <1>5, <2>1, <2>2
<1>7. \A i, j \in 1 .. Len(commands') : commands'[i] = commands'[j] => i = j
  BY <1>2, <1>3, <1>4, <1>5
<1>8. QED
  BY <1>6, <1>7 DEF Queued

\* The first command leaves the channel, and whoever waits for another one
\* goes on waiting.
LEMMA QueuedByTaking ==
    ASSUME WorkerInv, commands # <<>>, commands' = Tail(commands),
           current' = NoTurn \/ current' = Head(commands),
           Awaited \ {Head(commands)} \subseteq Awaited',
           UNCHANGED steerTo, \A m \in Message : steer'[m] # "none" => steer[m] # "none"
    PROVE  Queued'
<1>1. commands \in Seq(Command)
  BY DEF WorkerInv, TypeOK, LoopTypes
<1>2. /\ Len(commands) \in Nat \ {0}
      /\ Head(commands) = commands[1]
      /\ Len(commands') = Len(commands) - 1
      /\ \A i \in 1 .. Len(commands') : /\ i + 1 \in 1 .. Len(commands)
                                         /\ commands'[i] = commands[i + 1]
      /\ \A i \in 1 .. Len(commands) : commands[i] \in Command
  BY <1>1, Received
<1>3. /\ \A i \in 1 .. Len(commands) : commands[i] \in Awaited /\ commands[i] # current
      /\ \A i, j \in 1 .. Len(commands) : commands[i] = commands[j] => i = j
      /\ \A m \in Message : steer[m] # "none" => steerTo[m] \in Turn
  BY DEF WorkerInv, Queued
<1>4. ASSUME NEW i \in 1 .. Len(commands')
      PROVE  commands'[i] \in Awaited \ {Head(commands)}
  <2>1. /\ i + 1 \in 1 .. Len(commands) /\ 1 \in 1 .. Len(commands) /\ i + 1 # 1
        /\ commands'[i] = commands[i + 1]
    BY <1>2
  <2>2. commands[i + 1] # commands[1]
    BY <1>3, <2>1
  <2>3. QED
    BY <1>2, <1>3, <2>1, <2>2
<1>5. NoTurn \notin Awaited
  BY ConstantsAssumption DEF Awaited
<1>6. \A i \in 1 .. Len(commands') : commands'[i] \in Awaited' /\ commands'[i] # current'
  BY <1>4, <1>5
<1>7. \A i, j \in 1 .. Len(commands') : commands'[i] = commands'[j] => i = j
  BY <1>2, <1>3
<1>8. QED
  BY <1>3, <1>6, <1>7 DEF Queued

\* The channel stays as it is, and whoever waits for a command in it goes on
\* waiting.
LEMMA QueuedStays ==
    ASSUME WorkerInv, UNCHANGED <<commands, steerTo>>, current' \in {current, NoTurn},
           Awaited \ {current} \subseteq Awaited',
           \A m \in Message : steer'[m] # "none" => steer[m] # "none"
    PROVE  Queued'
<1>1. commands \in Seq(Command)
  BY DEF WorkerInv, TypeOK, LoopTypes
<1>2. \A i \in 1 .. Len(commands) : commands[i] \in Command
  BY <1>1, ElementOfSeq
<1>3. NoTurn \notin Command
  BY ConstantsAssumption DEF Command
<1>4. \A i \in 1 .. Len(commands) : commands[i] \in Awaited /\ commands[i] # current
  BY DEF WorkerInv, Queued
<1>5. \A i \in 1 .. Len(commands') : commands'[i] \in Awaited' /\ commands'[i] # current'
  BY <1>2, <1>3, <1>4
<1>6. QED
  BY <1>5 DEF WorkerInv, Queued

\* A caller asks for a turn.
LEMMA WorkerByAskStart ==
    ASSUME WorkerInv, NEW t \in Turn, AskStart(t)
    PROVE  WorkerInv'
<1> USE ConstantsAssumption DEF WorkerInv, AskStart, Enqueue, clientVars, processVars, loopVars
<1>1. commands \in Seq(Command) /\ t \in Command
  BY DEF TypeOK, LoopTypes, Command
<1>2. Append(commands, t) \in Seq(Command)
  BY <1>1, Sent
<1>3. ClientTypes'
  BY DEF TypeOK, ClientTypes
<1>4. ProcessTypes'
  BY DEF TypeOK, ProcessTypes
<1>5. LoopTypes'
  BY <1>2 DEF TypeOK, LoopTypes, Worker, Blocked
<1>6. InHand' /\ OneOpen'
  BY DEF TypeOK, ClientTypes, LoopTypes, InHand, OneOpen
<1>7. Queued'
  <2>1. Awaited \subseteq Awaited'
    BY DEF TypeOK, ClientTypes, Awaited
  <2>2. CASE commands' = commands
    BY <2>1, <2>2, QueuedStays
  <2>3. CASE commands' = Append(commands, t)
    <3>1. t \in Awaited' /\ t \notin Awaited /\ t # current
      BY <2>3 DEF TypeOK, ClientTypes, LoopTypes, Awaited, InHand
    <3>2. QED
      BY <1>1, <2>1, <2>3, <3>1, QueuedBySending DEF Queued
  <2>4. QED
    BY <2>2, <2>3
<1>8. QED
  BY <1>3, <1>4, <1>5, <1>6, <1>7 DEF TypeOK

\* A caller sends a message to a turn that was handed out.
LEMMA WorkerByAskSteer ==
    ASSUME WorkerInv, NEW m \in Message, NEW t \in Turn, AskSteer(m, t)
    PROVE  WorkerInv'
<1> USE ConstantsAssumption DEF WorkerInv, AskSteer, Enqueue, clientVars, processVars, loopVars
<1>1. commands \in Seq(Command) /\ m \in Command
  BY DEF TypeOK, LoopTypes, Command
<1>2. Append(commands, m) \in Seq(Command)
  BY <1>1, Sent
<1>3. ClientTypes'
  BY DEF TypeOK, ClientTypes
<1>4. ProcessTypes'
  BY DEF TypeOK, ProcessTypes
<1>5. LoopTypes'
  BY <1>2 DEF TypeOK, LoopTypes, Worker, Blocked
<1>6. InHand' /\ OneOpen'
  BY DEF TypeOK, ClientTypes, LoopTypes, InHand, OneOpen
<1>7. Queued'
  <2>1. Awaited \subseteq Awaited'
    BY DEF TypeOK, ClientTypes, Awaited
  <2>2. \A n \in Message : steer'[n] # "none" => steerTo'[n] \in Turn
    BY DEF TypeOK, ClientTypes, Queued
  <2>3. CASE commands' = commands
    <3>1. \A i \in 1 .. Len(commands) : commands[i] \in Awaited' /\ commands[i] # current'
      BY <2>1 DEF Queued
    <3>2. QED
      BY <2>2, <2>3, <3>1 DEF Queued
  <2>4. CASE commands' = Append(commands, m)
    <3>1. m \in Awaited' /\ m \notin Awaited /\ m # current
      BY <2>4 DEF TypeOK, ClientTypes, LoopTypes, Awaited, InHand
    <3>2. QED
      BY <1>1, <2>1, <2>2, <2>4, <3>1, QueuedBySending
  <2>5. QED
    BY <2>3, <2>4
<1>8. QED
  BY <1>3, <1>4, <1>5, <1>6, <1>7 DEF TypeOK

\* A cancel handle is fired or dropped.
LEMMA WorkerByLeaving ==
    ASSUME WorkerInv, NEW t \in Turn, Cancel(t) \/ Drop(t)
    PROVE  WorkerInv'
<1> USE DEF WorkerInv, Cancel, Drop, clientVars, processVars, loopVars
<1>1. TypeOK'
  BY DEF TypeOK, ClientTypes, ProcessTypes, LoopTypes
<1>2. InHand' /\ OneOpen'
  BY DEF InHand, OneOpen
<1>3. Queued'
  BY DEF Queued, Awaited
<1>4. QED
  BY <1>1, <1>2, <1>3

\* The worker ends.
LEMMA WorkerByExit ==
    ASSUME WorkerInv, Exit, worker \in {"spawning", "initializing", "loop"}
    PROVE  WorkerInv'
<1> USE DEF WorkerInv, Exit
<1>1. ClientTypes'
  BY DEF TypeOK, ClientTypes
<1>2. ProcessTypes'
  BY DEF TypeOK, ProcessTypes, Gone
<1>3. LoopTypes'
  BY EmptySeq DEF TypeOK, LoopTypes, Worker, Blocked
<1>4. InHand' /\ OneOpen'
  BY ConstantsAssumption DEF TypeOK, ClientTypes, LoopTypes, InHand, OneOpen
<1>5. Queued'
  BY DEF TypeOK, ClientTypes, Queued
<1>6. QED
  BY <1>1, <1>2, <1>3, <1>4, <1>5 DEF TypeOK

\* The worker waits for an answer, or has one that nobody else waits for.
LEMMA WorkerByWaiting ==
    ASSUME WorkerInv, Spawn \/ Initialized \/ Launch \/ Interrupt \/ Interrupted
    PROVE  WorkerInv'
<1> USE DEF WorkerInv, Spawn, Initialized, Launch, Interrupt, Interrupted, Request, Granted,
            Idle, clientVars, processVars, loopVars
<1>1. ClientTypes'
  BY DEF TypeOK, ClientTypes
<1>2. ProcessTypes'
  BY DEF TypeOK, ClientTypes, ProcessTypes, InHand
<1>3. LoopTypes'
  BY DEF TypeOK, LoopTypes, Worker, Blocked
<1>4. InHand' /\ OneOpen'
  BY DEF TypeOK, ClientTypes, LoopTypes, InHand, OneOpen
<1>5. Queued'
  <2>1. UNCHANGED <<start, steer, steerTo, commands>> /\ current' \in {current, NoTurn}
    BY DEF InHand
  <2>2. Awaited' = Awaited
    BY <2>1 DEF Awaited
  <2>3. QED
    BY <2>1, <2>2, QueuedStays
<1>6. QED
  BY <1>1, <1>2, <1>3, <1>4, <1>5 DEF TypeOK

\* The worker takes a command out of the channel.
LEMMA WorkerByTaking ==
    ASSUME WorkerInv, RefuseStart \/ Prepare \/ RefuseSteer \/ ForwardSteer
    PROVE  WorkerInv'
<1> USE DEF WorkerInv, RefuseStart, Prepare, RefuseSteer, ForwardSteer, Request,
            clientVars, processVars, loopVars
<1>1. commands \in Seq(Command) /\ commands # <<>> /\ commands' = Tail(commands)
  BY DEF TypeOK, LoopTypes
<1>2. /\ Tail(commands) \in Seq(Command)
      /\ Head(commands) = commands[1]
      /\ Head(commands) \in Command
      /\ 1 \in 1 .. Len(commands)
  BY <1>1, Received
<1>3. Head(commands) \in Awaited /\ Head(commands) # NoTurn
  BY <1>2, ConstantsAssumption DEF Queued, Command
<1>4. ClientTypes'
  BY DEF TypeOK, ClientTypes
<1>5. ProcessTypes'
  BY DEF TypeOK, ProcessTypes
<1>6. LoopTypes'
  BY <1>1, <1>2 DEF TypeOK, LoopTypes, Worker, Blocked
<1>7. InHand'
  BY <1>3, ConstantsAssumption DEF TypeOK, ClientTypes, LoopTypes, InHand, Awaited, Queued
<1>8. OneOpen'
  BY <1>3, ConstantsAssumption DEF TypeOK, ClientTypes, OneOpen, Awaited
<1>9. Queued'
  <2>1. Awaited \ {Head(commands)} \subseteq Awaited'
    BY DEF TypeOK, ClientTypes, Awaited
  <2>2. \A m \in Message : steer'[m] # "none" => steer[m] # "none"
    BY <1>3, ConstantsAssumption DEF TypeOK, ClientTypes, Awaited
  <2>3. current' = NoTurn \/ current' = Head(commands)
    BY DEF InHand
  <2>4. QED
    BY <1>1, <2>1, <2>2, <2>3, QueuedByTaking
<1>10. QED
  BY <1>4, <1>5, <1>6, <1>7, <1>8, <1>9 DEF TypeOK

\* The command in hand is answered.
LEMMA WorkerByAnswering ==
    ASSUME WorkerInv, Launched \/ StartFails \/ Steered
    PROVE  WorkerInv'
<1> USE DEF WorkerInv, Launched, StartFails, Steered, Idle, clientVars, processVars, loopVars
<1>1. ClientTypes'
  BY DEF TypeOK, ClientTypes
<1>2. ProcessTypes'
  BY DEF TypeOK, ProcessTypes
<1>3. LoopTypes'
  BY DEF TypeOK, LoopTypes, Worker, Blocked, InHand
<1>4. InHand' /\ OneOpen'
  <2>1. CASE Launched
    <3>1. /\ active = NoTurn /\ current \in Turn
          /\ start[current] = "asked" /\ completion' = completion
          /\ start' = [start EXCEPT ![current] = "ok"]
          /\ active' = current /\ worker' = "loop" /\ current' = NoTurn
          /\ commands' = commands
      BY <2>1 DEF InHand
    <3>2. completion[current] = "none"
      BY <3>1 DEF TypeOK, ClientTypes, OneOpen
    <3>3. QED
      BY <3>1, <3>2, ConstantsAssumption DEF TypeOK, ClientTypes, LoopTypes, InHand, OneOpen
  <2>2. CASE StartFails
    BY <2>2, ConstantsAssumption DEF TypeOK, ClientTypes, LoopTypes, InHand, OneOpen
  <2>3. CASE Steered
    BY <2>3, ConstantsAssumption DEF TypeOK, ClientTypes, LoopTypes, InHand, OneOpen
  <2>4. QED
    BY <2>1, <2>2, <2>3
<1>5. Queued'
  <2>1. Awaited \ {current} \subseteq Awaited'
    BY DEF TypeOK, ClientTypes, Awaited
  <2>2. \A m \in Message : steer'[m] # "none" => steer[m] # "none"
    BY DEF TypeOK, ClientTypes, InHand
  <2>3. QED
    BY <2>1, <2>2, QueuedStays
<1>6. QED
  BY <1>1, <1>2, <1>3, <1>4, <1>5 DEF TypeOK

\* A notification is taken.
LEMMA WorkerByNote ==
    ASSUME WorkerInv, TakeNote
    PROVE  WorkerInv'
<1> USE DEF WorkerInv, TakeNote
<1>1. Tail(notes) \in Seq(Note)
  BY Received DEF TypeOK, ProcessTypes
<1>2. ClientTypes'
  <2>1. /\ UNCHANGED <<start, cancelled, dropped, steer, steerTo>>
        /\ \/ UNCHANGED <<completion, heard>>
           \/ /\ active # NoTurn
              /\ heard' = [heard EXCEPT ![active] = @ + 1]
              /\ UNCHANGED completion
           \/ /\ \E result \in {"ok", "err"} :
                    completion' = [completion EXCEPT ![active] = result]
              /\ UNCHANGED heard
    OBVIOUS
  <2>2. completion' \in [Turn -> {"none", "ok", "err"}]
    BY <2>1 DEF TypeOK, ClientTypes
  <2>3. heard' \in [Turn -> Nat]
    <3>1. active # NoTurn => heard[active] + 1 \in Nat
      BY DEF TypeOK, ClientTypes, LoopTypes
    <3>2. QED
      BY <2>1, <3>1 DEF TypeOK, ClientTypes
  <2>4. QED
    BY <2>1, <2>2, <2>3 DEF TypeOK, ClientTypes
<1>3. ProcessTypes'
  BY <1>1 DEF TypeOK, ProcessTypes
<1>4. LoopTypes'
  BY DEF TypeOK, LoopTypes
<1>5. InHand' /\ OneOpen'
  BY ConstantsAssumption DEF TypeOK, ClientTypes, LoopTypes, InHand, OneOpen
<1>6. Queued'
  <2>1. Awaited' = Awaited
    BY DEF Awaited
  <2>2. QED
    BY <2>1, QueuedStays
<1>7. QED
  BY <1>2, <1>3, <1>4, <1>5, <1>6 DEF TypeOK

\* The process works on.
LEMMA WorkerByProcess ==
    ASSUME WorkerInv, Process
    PROVE  WorkerInv'
<1> USE DEF WorkerInv, clientVars, processVars, loopVars
<1>1. UNCHANGED <<clientVars, loopVars>>
  BY DEF Process, ServerStarts, Delta, Fail, Finish, Die
<1>2. ClientTypes' /\ LoopTypes'
  BY <1>1 DEF TypeOK, ClientTypes, LoopTypes
<1>3. InHand' /\ OneOpen'
  BY <1>1 DEF InHand, OneOpen
<1>4. Queued'
  BY <1>1 DEF Queued, Awaited
<1>5. ProcessTypes'
  <2>1. CASE ServerStarts \/ Die
    BY <2>1 DEF TypeOK, ProcessTypes, ServerStarts, Die, Gone, LoopTypes, InHand
  <2>2. ASSUME NEW t \in Turn, Delta(t) \/ Fail(t) \/ Finish(t) PROVE ProcessTypes'
    <3>1. PICK kind \in NoteKind : notes' = Append(notes, [kind |-> kind, turn |-> t])
      BY <2>2 DEF Delta, Fail, Finish, Tell, NoteKind
    <3>2. notes' \in Seq(Note)
      BY <3>1, Sent DEF TypeOK, ProcessTypes, Note
    <3>3. sent' \in [Turn -> 0 .. MaxDeltas]
      BY <2>2, ConstantsAssumption DEF TypeOK, ProcessTypes, Delta, Fail, Finish
    <3>4. server' \in [Turn -> {"none", "running", "over", "failing", "failed"}]
      BY <2>2 DEF TypeOK, ProcessTypes, Delta, Fail, Finish
    <3>5. process' = process /\ interrupted' = interrupted
      BY <2>2 DEF Delta, Fail, Finish
    <3>6. QED
      BY <3>2, <3>3, <3>4, <3>5 DEF TypeOK, ProcessTypes
  <2>3. QED
    BY <2>1, <2>2 DEF Process
<1>6. QED
  BY <1>2, <1>3, <1>4, <1>5 DEF TypeOK

\* Every step keeps the invariant of the worker.
LEMMA WorkerStep == WorkerInv /\ [Next]_vars => WorkerInv'
<1> SUFFICES ASSUME WorkerInv, [Next]_vars PROVE WorkerInv'
  OBVIOUS
<1>1. CASE Caller
  BY <1>1, WorkerByAskStart, WorkerByAskSteer, WorkerByLeaving DEF Caller
<1>2. CASE SpawnFails \/ InitializeFails \/ StreamCloses
  BY <1>2, WorkerByExit DEF SpawnFails, InitializeFails, StreamCloses
<1>3. CASE Spawn \/ Initialized \/ Launch \/ Interrupt \/ Interrupted
  BY <1>3, WorkerByWaiting
<1>4. CASE RefuseStart \/ Prepare \/ RefuseSteer \/ ForwardSteer
  BY <1>4, WorkerByTaking
<1>5. CASE Launched \/ StartFails \/ Steered
  BY <1>5, WorkerByAnswering
<1>6. CASE TakeNote
  BY <1>6, WorkerByNote
<1>7. CASE Process
  BY <1>7, WorkerByProcess
<1>8. CASE UNCHANGED vars
  BY <1>8 DEF vars, clientVars, processVars, loopVars, WorkerInv, TypeOK, ClientTypes,
              ProcessTypes, LoopTypes, InHand, OneOpen, Queued, Awaited
<1>9. QED
  BY <1>1, <1>2, <1>3, <1>4, <1>5, <1>6, <1>7, <1>8 DEF Next, Work, Answered

\* In every behaviour the worker, its commands and the turns handed out stand
\* to each other as WorkerInv says.
LEMMA WorkerAlways == Spec => []WorkerInv
<1>1. QED
  BY WorkerStart, WorkerStep, PTL DEF Spec

-----------------------------------------------------------------------------
(* What the worker promises                                                *)

\* The values of the variables stay in their types, for every number of turns,
\* messages and threads and every set of failures.
THEOREM TypeCorrect == Spec => []TypeOK
BY WorkerAlways, PTL DEF WorkerInv

\* The process is told to interrupt the open turn only, and only when its
\* cancel handle was fired; no later turn of the thread and no turn whose handle
\* was merely dropped is ever interrupted.
THEOREM InterruptsAreWanted == Spec => []OnlyStoppedIsInterrupted
<1>1. Init => OnlyStoppedIsInterrupted
  BY DEF Init, OnlyStoppedIsInterrupted
<1>2. WorkerInv /\ OnlyStoppedIsInterrupted /\ [Next]_vars => OnlyStoppedIsInterrupted'
  <2> SUFFICES ASSUME WorkerInv, OnlyStoppedIsInterrupted, [Next]_vars
               PROVE  OnlyStoppedIsInterrupted'
    OBVIOUS
  <2>1. cancelled \subseteq cancelled'
    BY DEF Next, Caller, AskStart, AskSteer, Cancel, Drop, Work, Spawn, SpawnFails, Exit,
           RefuseStart, Prepare, RefuseSteer, ForwardSteer, Interrupt, TakeNote, StreamCloses,
           Answered, Initialized, InitializeFails, Launch, Launched, StartFails, Steered,
           Interrupted, Process, ServerStarts, Delta, Fail, Finish, Die, vars, clientVars
  <2>2. interrupted' \subseteq interrupted \cup cancelled
    <3>1. CASE Interrupted
      BY <3>1 DEF Interrupted, WorkerInv, InHand
    <3>2. CASE ~Interrupted
      BY <3>2 DEF Next, Caller, AskStart, AskSteer, Cancel, Drop, Work, Spawn, SpawnFails,
             Exit, RefuseStart, Prepare, RefuseSteer, ForwardSteer, Interrupt, TakeNote,
             StreamCloses, Answered, Initialized, InitializeFails, Launch, Launched,
             StartFails, Steered, Process, ServerStarts, Delta, Fail, Finish, Die,
             vars, processVars
    <3>3. QED
      BY <3>1, <3>2
  <2>3. QED
    BY <2>1, <2>2 DEF OnlyStoppedIsInterrupted
<1>3. QED
  BY <1>1, <1>2, WorkerAlways, PTL DEF Spec

\* A steer is acknowledged while its turn is open: between the look at the open
\* turn and the answer of the process the worker takes no notification, so the
\* turn cannot have ended in between.
THEOREM SteersAreHeard == Spec => SteeredTurnIsOpen
<1> DEFINE Step == \A m \in Message : steer[m] = "asked" /\ steer'[m] = "ok"
                      => start[steerTo[m]] = "ok" /\ completion[steerTo[m]] = "none"
<1>1. WorkerInv /\ [Next]_vars => [Step]_vars
  <2> SUFFICES ASSUME WorkerInv, Next, NEW m \in Message,
                      steer[m] = "asked", steer'[m] = "ok"
               PROVE  start[steerTo[m]] = "ok" /\ completion[steerTo[m]] = "none"
    OBVIOUS
  <2>1. Steered
    BY DEF Next, Caller, AskStart, AskSteer, Cancel, Drop, Work, Spawn, SpawnFails, Exit,
           RefuseStart, Prepare, RefuseSteer, ForwardSteer, Interrupt, TakeNote, StreamCloses,
           Answered, Initialized, InitializeFails, Launch, Launched, StartFails,
           Interrupted, Process, ServerStarts, Delta, Fail, Finish, Die, clientVars,
           WorkerInv, TypeOK, ClientTypes
  <2>2. m = current /\ active = steerTo[m] /\ active \in Turn
    BY <2>1 DEF Steered, WorkerInv, InHand, TypeOK, ClientTypes
  <2>3. QED
    BY <2>2 DEF WorkerInv, OneOpen
<1>2. QED
  BY <1>1, WorkerAlways, PTL DEF Spec, SteeredTurnIsOpen

\* Every step of the worker, of its callers and of the process is a step of the
\* contract or leaves what the contract is about alone.
LEMMA ContractStep ==
    ASSUME WorkerInv, [Next]_vars
    PROVE  [Contract!Next]_(Contract!vars)
<1> USE DEF Contract!vars
<1>1. CASE \E t \in Turn : AskStart(t)
  BY <1>1 DEF AskStart, Contract!Next, Contract!Ask, Contract!Refuse
<1>2. CASE Launched
  <2>1. current \in Turn /\ start[current] = "asked" /\ active = NoTurn
    BY <1>2 DEF Launched, WorkerInv, InHand
  <2>2. Contract!Accept(current)
    BY <1>2, <2>1 DEF Launched, Contract!Accept
  <2>3. QED
    BY <2>1, <2>2 DEF Contract!Next
<1>3. CASE StartFails
  <2>1. current \in Turn /\ start[current] = "asked"
    BY <1>3 DEF StartFails, WorkerInv, InHand
  <2>2. Contract!Refuse(current)
    BY <1>3, <2>1 DEF StartFails, Contract!Refuse
  <2>3. QED
    BY <2>1, <2>2 DEF Contract!Next
<1>4. CASE RefuseStart
  <2>1. Head(commands) \in Turn /\ start[Head(commands)] = "asked"
    <3>1. /\ Head(commands) = commands[1] /\ 1 \in 1 .. Len(commands)
      BY <1>4, Received DEF RefuseStart, WorkerInv, TypeOK, LoopTypes
    <3>2. QED
      BY <1>4, <3>1, ConstantsAssumption DEF RefuseStart, WorkerInv, Queued, Awaited
  <2>2. Contract!Refuse(Head(commands))
    BY <1>4, <2>1 DEF RefuseStart, Contract!Refuse
  <2>3. QED
    BY <2>1, <2>2 DEF Contract!Next
<1>5. CASE TakeNote
  <2>1. CASE active' = active
    BY <1>5, <2>1, ConstantsAssumption DEF TakeNote
  <2>2. CASE active' # active
    <3>1. active \in Turn /\ Contract!Open(active)
      BY <1>5, <2>2 DEF TakeNote, WorkerInv, TypeOK, LoopTypes, OneOpen, Contract!Open
    <3>2. Contract!Complete(active)
      BY <1>5, <2>2, <3>1 DEF TakeNote, Contract!Complete
    <3>3. QED
      BY <3>1, <3>2 DEF Contract!Next
  <2>3. QED
    BY <2>1, <2>2
<1>6. CASE SpawnFails \/ InitializeFails \/ StreamCloses
  <2>1. Exit
    BY <1>6 DEF SpawnFails, InitializeFails, StreamCloses
  <2> DEFINE ended == {active} \cap Turn
  <2>2. ended \in SUBSET {t \in Turn : Contract!Open(t)}
    BY DEF WorkerInv, OneOpen, Contract!Open
  <2>3. completion' = [t \in Turn |-> IF t \in ended THEN "err" ELSE completion[t]]
    BY <2>1 DEF Exit
  <2>4. QED
    BY <2>1, <2>2, <2>3 DEF Exit, Contract!Next, Contract!Collapse
<1>7. CASE UNCHANGED <<start, completion, active>>
  BY <1>7
<1>8. QED
  BY <1>1, <1>2, <1>3, <1>4, <1>5, <1>6, <1>7
     DEF Next, Caller, AskSteer, Cancel, Drop, Work, Spawn, Prepare, RefuseSteer, ForwardSteer,
         Interrupt, Answered, Initialized, Launch, Steered, Interrupted, Idle, Process,
         ServerStarts, Delta, Fail, Finish, Die, vars, clientVars, loopVars

\* The worker keeps the contract of AgentRuntime: every request is answered
\* once, one turn is open at a time, and each turn that was handed out is
\* completed at most once, by its own end or with the worker.
THEOREM WorkerKeepsContract == Spec => KeepsContract
<1>1. Init => Contract!Init
  BY DEF Init, Contract!Init
<1>2. QED
  BY <1>1, ContractStep, WorkerAlways, PTL DEF Spec, KeepsContract, Contract!Spec

-----------------------------------------------------------------------------
(* Counting chunks                                                         *)

\* A channel holds finitely many chunks of a turn.
LEMMA DeltasAreFinite ==
    ASSUME NEW queue \in Seq(Note), NEW t
    PROVE  /\ IsFiniteSet(DeltasOf(t, queue))
           /\ Cardinality(DeltasOf(t, queue)) \in Nat
<1>1. Len(queue) \in Nat
  BY LenProperties
<1>2. IsFiniteSet(1 .. Len(queue))
  BY <1>1, FS_Interval
<1>3. DeltasOf(t, queue) \subseteq 1 .. Len(queue)
  BY DEF DeltasOf
<1>4. QED
  BY <1>2, <1>3, FS_Subset, FS_CardinalityType

\* A turn that no notification is about has no chunk in the channel.
LEMMA NoDeltas ==
    ASSUME NEW queue \in Seq(Note), NEW t,
           \A i \in 1 .. Len(queue) : queue[i].turn # t
    PROVE  Cardinality(DeltasOf(t, queue)) = 0
<1>1. DeltasOf(t, queue) = {}
  <2>1. [kind |-> "delta", turn |-> t].turn = t
    OBVIOUS
  <2>2. QED
    BY <2>1 DEF DeltasOf
<1>2. QED
  BY <1>1, FS_EmptySet

\* A chunk that is written is one more in the channel of its turn.
LEMMA DeltasAfterSending ==
    ASSUME NEW queue \in Seq(Note), NEW note \in Note, NEW t
    PROVE  Cardinality(DeltasOf(t, Append(queue, note))) =
              IF note = [kind |-> "delta", turn |-> t]
                THEN Cardinality(DeltasOf(t, queue)) + 1
                ELSE Cardinality(DeltasOf(t, queue))
<1> DEFINE longer == Append(queue, note)
           last == Len(queue) + 1
<1>1. /\ Len(queue) \in Nat
      /\ Len(longer) = last
      /\ \A i \in 1 .. Len(queue) : longer[i] = queue[i]
      /\ longer[last] = note
  BY Sent
<1>2. IsFiniteSet(DeltasOf(t, queue)) /\ last \notin DeltasOf(t, queue)
  BY <1>1, DeltasAreFinite DEF DeltasOf
<1> HIDE DEF longer
<1>3. CASE note = [kind |-> "delta", turn |-> t]
  <2>1. DeltasOf(t, longer) = DeltasOf(t, queue) \cup {last}
    BY <1>1, <1>3 DEF DeltasOf
  <2>2. QED
    BY <1>2, <1>3, <2>1, FS_AddElement DEF longer
<1>4. CASE note # [kind |-> "delta", turn |-> t]
  <2>1. DeltasOf(t, longer) = DeltasOf(t, queue)
    BY <1>1, <1>4 DEF DeltasOf
  <2>2. QED
    BY <1>4, <2>1 DEF longer
<1>5. QED
  BY <1>3, <1>4

\* A chunk that is taken is one less in the channel of its turn.
LEMMA DeltasAfterReceiving ==
    ASSUME NEW queue \in Seq(Note), queue # <<>>, NEW t
    PROVE  Cardinality(DeltasOf(t, queue)) =
              IF Head(queue) = [kind |-> "delta", turn |-> t]
                THEN Cardinality(DeltasOf(t, Tail(queue))) + 1
                ELSE Cardinality(DeltasOf(t, Tail(queue)))
<1> DEFINE rest == Tail(queue)
           up == [i \in DeltasOf(t, rest) |-> i + 1]
<1>1. /\ rest \in Seq(Note)
      /\ Head(queue) = queue[1]
      /\ Len(queue) \in Nat \ {0}
      /\ Len(rest) = Len(queue) - 1
      /\ \A i \in 1 .. Len(rest) : i + 1 \in 1 .. Len(queue) /\ rest[i] = queue[i + 1]
  BY Received
<1>2. /\ IsFiniteSet(DeltasOf(t, rest))
      /\ IsFiniteSet(DeltasOf(t, queue))
      /\ Cardinality(DeltasOf(t, rest)) \in Nat
      /\ Cardinality(DeltasOf(t, queue)) \in Nat
  BY <1>1, DeltasAreFinite
<1> HIDE DEF rest
<1>3. up \in Bijection(DeltasOf(t, rest), DeltasOf(t, queue) \ {1})
  <2>1. \A i \in DeltasOf(t, rest) : i \in Int /\ i + 1 \in DeltasOf(t, queue) \ {1}
    BY <1>1 DEF DeltasOf
  <2>2. \A j \in DeltasOf(t, queue) \ {1} : j - 1 \in DeltasOf(t, rest) /\ (j - 1) + 1 = j
    BY <1>1 DEF DeltasOf
  <2>3. \A i, j \in DeltasOf(t, rest) : up[i] = up[j] => i = j
    BY <2>1
  <2>4. up \in [DeltasOf(t, rest) -> DeltasOf(t, queue) \ {1}]
    BY <2>1
  <2>5. \A j \in DeltasOf(t, queue) \ {1} : \E i \in DeltasOf(t, rest) : up[i] = j
    BY <2>2
  <2>6. QED
    BY <2>3, <2>4, <2>5 DEF Bijection, Injection, Surjection, IsInjective
<1>4. Cardinality(DeltasOf(t, rest)) = Cardinality(DeltasOf(t, queue) \ {1})
  BY <1>2, <1>3, FS_Bijection DEF ExistsBijection
<1>5. CASE Head(queue) = [kind |-> "delta", turn |-> t]
  <2>1. 1 \in DeltasOf(t, queue)
    BY <1>1, <1>5 DEF DeltasOf
  <2>2. Cardinality(DeltasOf(t, queue) \ {1}) = Cardinality(DeltasOf(t, queue)) - 1
    BY <1>2, <2>1, FS_RemoveElement
  <2>3. QED
    BY <1>2, <1>4, <1>5, <2>2 DEF rest
<1>6. CASE Head(queue) # [kind |-> "delta", turn |-> t]
  <2>1. DeltasOf(t, queue) \ {1} = DeltasOf(t, queue)
    BY <1>1, <1>6 DEF DeltasOf
  <2>2. QED
    BY <1>4, <1>6, <2>1 DEF rest
<1>7. QED
  BY <1>5, <1>6

-----------------------------------------------------------------------------
(* The process and its notifications: the steps                            *)

\* Only a worker in its loop with no command in hand, or one that waits for the
\* answer to turn/start, has launched a turn, and it has launched one at most.
LEMMA OneLive ==
    ASSUME WorkerInv
    PROVE  /\ Live \subseteq Turn
           /\ active \in Turn => Live = {active}
           /\ worker = "launching" => Live = {current}
           /\ active = NoTurn /\ worker # "launching" => Live = {}
           /\ NoTurn \notin Turn
BY ConstantsAssumption DEF WorkerInv, TypeOK, LoopTypes, InHand, Live

\* What is in the channel are notifications of turns.
LEMMA NotesAreOfTurns ==
    ASSUME WorkerInv
    PROVE  /\ notes \in Seq(Note)
           /\ \A i \in 1 .. Len(notes) : notes[i].turn \in Turn /\ notes[i].kind \in NoteKind
<1>1. notes \in Seq(Note)
  BY DEF WorkerInv, TypeOK, ProcessTypes
<1>2. \A i \in 1 .. Len(notes) : notes[i] \in Note
  BY <1>1, ElementOfSeq
<1>3. QED
  BY <1>1, <1>2 DEF Note

\* The start satisfies the invariant of the notifications.
LEMMA NoteStart == Init => NoteInv
<1> SUFFICES ASSUME Init PROVE NoteInv
  OBVIOUS
<1>1. notes = <<>> /\ Len(notes) = 0 /\ Live = {}
  BY EmptySeq, ConstantsAssumption DEF Init, Live
<1>2. Served /\ Written /\ Counted /\ Orderly /\ EndedWell
  BY <1>1 DEF Init, Served, Written, Counted, Orderly, EndedWell
<1>3. QED
  BY <1>2 DEF NoteInv

\* A step that the notifications and the launched turn do not notice.
LEMMA NoteKept ==
    ASSUME NoteInv, Live' = Live, UNCHANGED <<notes, server, sent, completion, heard>>,
           \A t \in Turn : start[t] = "ok" => start'[t] = "ok",
           worker = "exited" => worker' = "exited"
    PROVE  NoteInv'
<1> USE DEF NoteInv
<1>1. Served'
  BY DEF Served
<1>2. Written'
  BY DEF Written, Failed
<1>3. Counted'
  BY DEF Counted
<1>4. Orderly'
  BY DEF Orderly, Disturbed, Failed
<1>5. EndedWell'
  BY DEF EndedWell, Failed
<1>6. QED
  BY <1>1, <1>2, <1>3, <1>4, <1>5

\* The callers, and the steps of the worker that are not about a launched turn.
LEMMA NoteByOthers ==
    ASSUME WorkerInv, NoteInv,
           \/ Caller \/ Spawn \/ Initialized \/ Interrupt \/ Interrupted
           \/ RefuseStart \/ Prepare \/ RefuseSteer \/ ForwardSteer \/ Steered
    PROVE  NoteInv'
<1> USE DEF Caller, AskStart, AskSteer, Enqueue, Cancel, Drop, Spawn, Initialized,
            Interrupt, Interrupted, RefuseStart, Prepare, RefuseSteer, ForwardSteer, Steered,
            Request, Idle, clientVars, processVars, loopVars
<1>1. Live' = Live
  BY DEF Live
<1>2. UNCHANGED <<notes, server, sent, completion, heard>>
  OBVIOUS
<1>3. \A t \in Turn : start[t] = "ok" => start'[t] = "ok"
  <2>1. CASE RefuseStart
    <3>1. Head(commands) \in Awaited
      <4>1. Head(commands) = commands[1] /\ 1 \in 1 .. Len(commands)
        BY <2>1, Received DEF WorkerInv, TypeOK, LoopTypes
      <4>2. QED
        BY <4>1 DEF WorkerInv, Queued
    <3>2. QED
      BY <2>1, <3>1, ConstantsAssumption DEF Awaited, WorkerInv, TypeOK, ClientTypes
  <2>2. CASE ~RefuseStart
    BY <2>2 DEF WorkerInv, TypeOK, ClientTypes
  <2>3. QED
    BY <2>1, <2>2
<1>4. worker = "exited" => worker' = "exited"
  OBVIOUS
<1>5. QED
  BY <1>1, <1>2, <1>3, <1>4, NoteKept

\* A turn is launched: nothing of it was written before.
LEMMA NoteByLaunch ==
    ASSUME WorkerInv, NoteInv, Launch
    PROVE  NoteInv'
<1> USE DEF NoteInv
<1>1. /\ UNCHANGED <<clientVars, processVars, current, active>>
      /\ worker = "preparing" /\ worker' = "launching"
  BY DEF Launch, Request, loopVars
<1>2. current \in Turn /\ start[current] = "asked" /\ Live = {} /\ Live' = {current}
  BY <1>1, ConstantsAssumption DEF WorkerInv, InHand, Live
<1>3. server[current] = "none"
  BY <1>2 DEF Served
<1>4. UNCHANGED <<start, completion, heard, notes, server, sent>>
  BY <1>1 DEF clientVars, processVars
<1>5. Served'
  BY <1>4, <1>2 DEF Served
<1>6. Written'
  BY <1>4 DEF Written, Failed
<1>7. Counted'
  <2>1. notes \in Seq(Note) /\ \A i \in 1 .. Len(notes) : notes[i].turn # current
    BY <1>3 DEF Written, WorkerInv, TypeOK, ProcessTypes
  <2>2. Cardinality(DeltasOf(current, notes)) = 0
    BY <2>1, NoDeltas
  <2>3. QED
    BY <1>2, <1>3, <1>4, <2>2 DEF Counted, Served
<1>8. Orderly'
  <2>1. Failed' = Failed /\ current \notin Failed
    BY <1>3, <1>4 DEF Failed
  <2>2. Disturbed' = Disturbed
    BY <2>1, <1>2 DEF Disturbed
  <2>3. QED
    BY <1>1, <1>2, <1>4, <2>2 DEF Orderly
<1>9. EndedWell'
  BY <1>4 DEF EndedWell, Failed
<1>10. QED
  BY <1>5, <1>6, <1>7, <1>8, <1>9

\* turn/start is answered: the launched turn is the open one, and at work.
LEMMA NoteByLaunched ==
    ASSUME WorkerInv, NoteInv, Launched
    PROVE  NoteInv'
<1> USE DEF NoteInv
<1>1. /\ worker = "launching" /\ worker' = "loop" /\ active' = current
      /\ current \in Turn /\ start[current] = "asked" /\ active = NoTurn
      /\ UNCHANGED <<completion, heard, notes, sent>>
      /\ start' = [start EXCEPT ![current] = "ok"]
      /\ server' = [server EXCEPT ![current] = IF @ = "none" THEN "running" ELSE @]
  BY DEF Launched, Idle, WorkerInv, InHand
<1>2. Live = {current} /\ Live' = {current}
  BY <1>1, ConstantsAssumption DEF Live
<1>3. /\ server \in [Turn -> {"none", "running", "over", "failing", "failed"}]
      /\ start \in [Turn -> {"none", "asked", "ok", "refused"}]
      /\ notes \in Seq(Note)
  BY DEF WorkerInv, TypeOK, ClientTypes, ProcessTypes
<1>4. /\ \A t \in Turn : server[t] # "none" => server'[t] = server[t]
      /\ \A t \in Turn \ {current} : server'[t] = server[t]
      /\ server'[current] # "none"
      /\ \A t \in Turn : server'[t] \in {"failing", "failed"} <=>
                             server[t] \in {"failing", "failed"}
  BY <1>1, <1>3
<1>5. Failed' = Failed
  BY <1>4 DEF Failed
<1>6. Served'
  BY <1>1, <1>2, <1>3, <1>4 DEF Served
<1>7. Written'
  BY <1>1, <1>4, <1>5, NotesAreOfTurns DEF Written
<1>8. Counted'
  BY <1>1, <1>2 DEF Counted
<1>9. Orderly'
  BY <1>1, <1>2, <1>4, <1>5 DEF Orderly, Disturbed
<1>10. EndedWell'
  BY <1>1, <1>4, <1>5 DEF EndedWell
<1>11. QED
  BY <1>6, <1>7, <1>8, <1>9, <1>10

\* A start that fails leaves nothing at the process.
LEMMA NoteByFailedStart ==
    ASSUME WorkerInv, NoteInv, StartFails
    PROVE  NoteInv'
<1> USE DEF NoteInv
<1>1. /\ worker \in {"preparing", "launching"} /\ worker' = "loop" /\ active' = NoTurn
      /\ current \in Turn /\ start[current] = "asked" /\ active = NoTurn
      /\ UNCHANGED <<completion, heard, notes, server, sent>>
      /\ start' = [start EXCEPT ![current] = "refused"]
      /\ worker = "launching" => server[current] = "none"
  BY DEF StartFails, Idle, WorkerInv, InHand, processVars
<1>2. Live' = {} /\ Live \subseteq {current} /\ (worker = "preparing" => Live = {})
  BY <1>1, ConstantsAssumption DEF Live
<1>3. server[current] = "none"
  BY <1>1, <1>2 DEF Served
<1>4. start \in [Turn -> {"none", "asked", "ok", "refused"}]
  BY DEF WorkerInv, TypeOK, ClientTypes
<1>5. Served'
  BY <1>1, <1>2, <1>3, <1>4 DEF Served
<1>6. Written'
  BY <1>1 DEF Written, Failed
<1>7. Counted'
  BY <1>2 DEF Counted
<1>8. Orderly'
  <2>1. \A i \in 1 .. Len(notes) : notes[i].turn # current
    BY <1>3 DEF Written
  <2>2. Disturbed \subseteq Disturbed'
    BY <1>1, <1>2 DEF Disturbed, Failed
  <2>3. QED
    BY <1>1, <1>2, <1>3, <2>1, <2>2 DEF Orderly
<1>9. EndedWell'
  BY <1>1 DEF EndedWell, Failed
<1>10. QED
  BY <1>5, <1>6, <1>7, <1>8, <1>9

\* What the death of the process, or of the worker, makes of the turns.
LEMMA WhatIsGone ==
    ASSUME WorkerInv
    PROVE  /\ \A t \in Turn : Gone[t] = "none" <=> server[t] = "none"
           /\ \A t \in Turn : Gone[t] \in {"failing", "failed"} <=>
                                  server[t] \in {"failing", "failed"}
           /\ \A t \in Turn : Gone[t] # "running"
           /\ \A t \in Turn : server[t] \in {"over", "failed"} => Gone[t] = server[t]
BY DEF WorkerInv, TypeOK, ProcessTypes, Gone

\* The worker ends; what is left in its channel is read by nobody.
LEMMA NoteByExit ==
    ASSUME WorkerInv, NoteInv, Exit, worker \in {"spawning", "initializing", "loop"}
    PROVE  NoteInv'
<1> USE DEF NoteInv
<1>1. /\ worker' = "exited" /\ active' = NoTurn
      /\ server' = Gone
      /\ completion' = [t \in Turn |-> IF t = active THEN "err" ELSE completion[t]]
      /\ start' = [t \in Turn |-> IF start[t] = "asked" THEN "refused" ELSE start[t]]
      /\ UNCHANGED <<heard, notes, sent>>
  BY DEF Exit
<1>2. Live' = {} /\ Live \subseteq {active}
  BY <1>1, ConstantsAssumption DEF Live
<1>3. notes \in Seq(Note) /\ \A i \in 1 .. Len(notes) : notes[i].turn \in Turn
  BY NotesAreOfTurns
<1>4. Failed' = Failed
  BY <1>1, WhatIsGone DEF Failed
<1>5. Served'
  <2>1. \A t \in Live : start[t] = "ok"
    BY <1>2 DEF Live, WorkerInv, OneOpen
  <2>2. \A t \in Turn : start[t] = "ok" => start'[t] = "ok"
    BY <1>1
  <2>3. QED
    BY <1>1, <2>1, <2>2, WhatIsGone DEF Served
<1>6. Written'
  BY <1>1, <1>3, <1>4, WhatIsGone DEF Written
<1>7. Counted'
  BY <1>2 DEF Counted
<1>8. Orderly'
  BY <1>1 DEF Orderly
<1>9. EndedWell'
  BY <1>1, <1>4, WhatIsGone DEF EndedWell
<1>10. QED
  BY <1>5, <1>6, <1>7, <1>8, <1>9

\* The process writes about a turn it works on.
LEMMA NoteByTelling ==
    ASSUME WorkerInv, NoteInv, NEW t \in Turn, NEW kind \in NoteKind,
           NEW status \in {"running", "failing", "over", "failed"},
           server[t] \in {"running", "failing"},
           server[t] = "failing" => kind = "failed" /\ status = "failed",
           kind = "delta" => status = "running",
           kind = "error" => status = "failing",
           kind = "completed" => status = "over",
           kind \in Closing => status \in {"over", "failed"},
           notes' = Append(notes, [kind |-> kind, turn |-> t]),
           server' = [server EXCEPT ![t] = status],
           sent' = IF kind = "delta" THEN [sent EXCEPT ![t] = @ + 1] ELSE sent,
           UNCHANGED <<clientVars, loopVars>>
    PROVE  NoteInv'
<1> USE DEF NoteInv
<1> DEFINE note == [kind |-> kind, turn |-> t]
           last == Len(notes) + 1
<1>1. /\ UNCHANGED <<start, completion, heard, worker, current, active>>
      /\ Live' = Live
  BY DEF clientVars, loopVars, Live
<1>2. /\ note \in Note /\ note.kind = kind /\ note.turn = t
      /\ notes \in Seq(Note)
      /\ \A i \in 1 .. Len(notes) : notes[i].turn \in Turn
      /\ server \in [Turn -> {"none", "running", "over", "failing", "failed"}]
      /\ sent \in [Turn -> 0 .. MaxDeltas]
  BY NotesAreOfTurns DEF WorkerInv, TypeOK, ProcessTypes, Note
<1>3. /\ Len(notes) \in Nat
      /\ Len(notes') = last
      /\ \A i \in 1 .. Len(notes) : notes'[i] = notes[i]
      /\ notes'[last] = note
  BY <1>2, Sent
<1>4. \A i \in 1 .. Len(notes') : i \in 1 .. Len(notes) \/ i = last
  BY <1>3
<1>5. /\ \A u \in Turn \ {t} : server'[u] = server[u] /\ sent'[u] = sent[u]
      /\ server'[t] = status
  BY <1>2
<1>6. Failed \subseteq Failed' /\ Disturbed \subseteq Disturbed'
  BY <1>1, <1>5 DEF Failed, Disturbed
<1>7. Served'
  BY <1>1, <1>5 DEF Served
<1>8. Written'
  <2> SUFFICES ASSUME NEW i \in 1 .. Len(notes')
               PROVE  /\ server'[notes'[i].turn] # "none"
                      /\ notes'[i].kind = "error" => notes'[i].turn \in Failed'
                      /\ notes'[i].kind = "completed" => server'[notes'[i].turn] = "over"
                      /\ notes'[i].kind \in Closing =>
                            /\ server'[notes'[i].turn] \in {"over", "failed"}
                            /\ \A j \in 1 .. Len(notes') :
                                  i < j => notes'[j].turn # notes'[i].turn
    BY DEF Written
  <2>1. CASE i = last
    BY <1>2, <1>3, <1>5, <2>1 DEF Failed
  <2>2. CASE i \in 1 .. Len(notes)
    <3>1. notes'[i] = notes[i] /\ notes[i].turn \in Turn
      BY <1>2, <1>3, <2>2
    <3>2. /\ server[notes[i].turn] # "none"
          /\ notes[i].kind = "error" => notes[i].turn \in Failed
          /\ notes[i].kind = "completed" => server[notes[i].turn] = "over"
          /\ notes[i].kind \in Closing =>
                /\ server[notes[i].turn] \in {"over", "failed"}
                /\ \A j \in 1 .. Len(notes) : i < j => notes[j].turn # notes[i].turn
      BY <2>2 DEF Written
    <3>3. server'[notes[i].turn] # "none"
      BY <1>5, <3>1, <3>2
    <3>4. notes[i].kind \in Closing \cup {"completed"} => notes[i].turn # t
      BY <3>2
    <3>5. notes[i].kind \in Closing =>
             \A j \in 1 .. Len(notes') : i < j => notes'[j].turn # notes[i].turn
      BY <1>2, <1>3, <1>4, <3>2, <3>4
    <3>6. QED
      BY <1>5, <1>6, <3>1, <3>2, <3>3, <3>4, <3>5
  <2>3. QED
    BY <1>4, <2>1, <2>2
<1>9. Counted'
  <2> SUFFICES ASSUME NEW u \in Live
               PROVE  sent'[u] = heard[u] + Cardinality(DeltasOf(u, notes'))
    BY <1>1 DEF Counted
  <2>1. sent[u] = heard[u] + Cardinality(DeltasOf(u, notes)) /\ u \in Turn
    BY OneLive DEF Counted
  <2>2. Cardinality(DeltasOf(u, notes)) \in Nat /\ heard[u] \in Nat
    BY <1>2, <2>1, DeltasAreFinite DEF WorkerInv, TypeOK, ClientTypes
  <2>3. Cardinality(DeltasOf(u, notes')) =
           IF note = [kind |-> "delta", turn |-> u]
             THEN Cardinality(DeltasOf(u, notes)) + 1 ELSE Cardinality(DeltasOf(u, notes))
    BY <1>2, DeltasAfterSending
  <2>4. CASE u = t /\ kind = "delta"
    <3>1. sent'[u] = sent[u] + 1 /\ note = [kind |-> "delta", turn |-> u]
      BY <1>2, <2>4
    <3>2. Cardinality(DeltasOf(u, notes')) = Cardinality(DeltasOf(u, notes)) + 1
      BY <2>3, <3>1
    <3>3. \A h, c \in Nat : (h + c) + 1 = h + (c + 1)
      OBVIOUS
    <3>4. QED
      BY <2>1, <2>2, <3>1, <3>2, <3>3, Zenon
  <2>5. CASE ~(u = t /\ kind = "delta")
    <3>1. sent'[u] = sent[u] /\ note # [kind |-> "delta", turn |-> u]
      BY <1>2, <1>5, <2>1, <2>5
    <3>2. QED
      BY <2>1, <2>3, <3>1
  <2>6. QED
    BY <2>4, <2>5
<1>10. Orderly'
  <2> SUFFICES ASSUME worker # "exited", NEW u \in Turn \ Live,
                      \/ server'[u] = "running"
                      \/ \E i \in 1 .. Len(notes') : notes'[i].turn = u
               PROVE  ThreadOf[u] \in Disturbed'
    BY <1>1 DEF Orderly
  <2>1. CASE u = t
    <3>1. server[t] = "running" \/ t \in Failed \ Live
      BY <2>1 DEF Failed
    <3>2. QED
      BY <1>6, <2>1, <3>1 DEF Orderly, Disturbed
  <2>2. CASE u # t
    <3>1. server[u] = "running" \/ \E i \in 1 .. Len(notes) : notes[i].turn = u
      BY <1>2, <1>3, <1>4, <1>5, <2>2
    <3>2. QED
      BY <1>6, <3>1 DEF Orderly
  <2>3. QED
    BY <2>1, <2>2
<1>11. EndedWell'
  <2> SUFFICES ASSUME NEW u \in Turn, completion[u] = "ok"
               PROVE  \/ heard[u] = sent'[u] /\ server'[u] = "over"
                      \/ \E v \in Failed' \ {u} : ThreadOf[v] = ThreadOf[u]
    BY <1>1 DEF EndedWell
  <2>1. CASE heard[u] = sent[u] /\ server[u] = "over"
    BY <1>5, <2>1
  <2>2. CASE \E v \in Failed \ {u} : ThreadOf[v] = ThreadOf[u]
    BY <1>6, <2>2
  <2>3. QED
    BY <2>1, <2>2 DEF EndedWell
<1>12. QED
  BY <1>7, <1>8, <1>9, <1>10, <1>11

\* The process works on.
LEMMA NoteByProcess ==
    ASSUME WorkerInv, NoteInv, Process
    PROVE  NoteInv'
<1>1. /\ server \in [Turn -> {"none", "running", "over", "failing", "failed"}]
      /\ sent \in [Turn -> 0 .. MaxDeltas]
  BY DEF WorkerInv, TypeOK, ProcessTypes
<1>2. CASE ServerStarts
  <2> USE DEF NoteInv
  <2>1. /\ UNCHANGED <<notes, sent, completion, heard, start, worker>>
        /\ server[current] = "none" /\ server' = [server EXCEPT ![current] = "running"]
        /\ current \in Live /\ Live' = Live
    BY <1>2 DEF ServerStarts, clientVars, loopVars, Live, WorkerInv, InHand
  <2>2. \A t \in Turn \ {current} : server'[t] = server[t]
    BY <1>1, <2>1
  <2>3. Failed' = Failed
    BY <1>1, <2>1 DEF Failed
  <2>4. Served' /\ Written'
    BY <1>1, <2>1, <2>2, <2>3, NotesAreOfTurns DEF Served, Written
  <2>5. Counted' /\ Orderly' /\ EndedWell'
    BY <1>1, <2>1, <2>2, <2>3 DEF Counted, Orderly, Disturbed, EndedWell
  <2>6. QED
    BY <2>4, <2>5
<1>3. CASE Die
  <2> USE DEF NoteInv
  <2>1. /\ UNCHANGED <<notes, sent, completion, heard, start, worker>>
        /\ server' = Gone /\ Live' = Live
    BY <1>3 DEF Die, clientVars, loopVars, Live
  <2>2. Failed' = Failed
    BY <2>1, WhatIsGone DEF Failed
  <2>3. Served' /\ Written'
    BY <2>1, <2>2, WhatIsGone, NotesAreOfTurns DEF Served, Written
  <2>4. Counted' /\ Orderly' /\ EndedWell'
    BY <2>1, <2>2, WhatIsGone DEF Counted, Orderly, Disturbed, EndedWell
  <2>5. QED
    BY <2>3, <2>4
<1>4. ASSUME NEW t \in Turn, Delta(t) PROVE NoteInv'
  <2>1. server[t] = "running" /\ UNCHANGED <<clientVars, loopVars, server>>
    BY <1>4 DEF Delta
  <2>2. server' = [server EXCEPT ![t] = "running"]
    BY <1>1, <2>1
  <2>3. /\ notes' = Append(notes, [kind |-> "delta", turn |-> t])
        /\ sent' = [sent EXCEPT ![t] = @ + 1]
    BY <1>4 DEF Delta, Tell
  <2>4. QED
    BY <2>1, <2>2, <2>3, NoteByTelling DEF NoteKind, Closing
<1>5. ASSUME NEW t \in Turn, Fail(t) PROVE NoteInv'
  <2>1. /\ server[t] = "running" /\ server' = [server EXCEPT ![t] = "failing"]
        /\ notes' = Append(notes, [kind |-> "error", turn |-> t])
        /\ UNCHANGED <<clientVars, loopVars, sent>>
    BY <1>5 DEF Fail, Tell
  <2>2. QED
    BY <2>1, NoteByTelling DEF NoteKind, Closing
<1>6. ASSUME NEW t \in Turn, Finish(t) PROVE NoteInv'
  <2>1. /\ UNCHANGED <<clientVars, loopVars, sent>>
        /\ \/ /\ server[t] = "running" /\ server' = [server EXCEPT ![t] = "over"]
              /\ \E kind \in Closing : notes' = Append(notes, [kind |-> kind, turn |-> t])
           \/ /\ server[t] = "failing" /\ server' = [server EXCEPT ![t] = "failed"]
              /\ notes' = Append(notes, [kind |-> "failed", turn |-> t])
    BY <1>6 DEF Finish, Tell, Closing
  <2>2. QED
    BY <2>1, NoteByTelling DEF NoteKind, Closing
<1>7. QED
  BY <1>2, <1>3, <1>4, <1>5, <1>6 DEF Process

\* A notification is taken: whether the open turn hears it, is ended by it or is
\* not concerned.
LEMMA NoteTaken ==
    ASSUME WorkerInv, TakeNote
    PROVE  /\ worker = "loop" /\ UNCHANGED <<start, worker, server, sent>>
           /\ notes # <<>> /\ notes' = Tail(notes)
           /\ Head(notes).turn \in Turn
           /\ \/ /\ UNCHANGED <<active, completion, heard>>
                 /\ active \in Turn => Head(notes).turn # active
              \/ /\ active \in Turn
                 /\ Head(notes) = [kind |-> "delta", turn |-> active]
                 /\ heard' = [heard EXCEPT ![active] = @ + 1]
                 /\ UNCHANGED <<active, completion>>
              \/ /\ active \in Turn
                 /\ ThreadOf[Head(notes).turn] = ThreadOf[active]
                 /\ \/ Head(notes).kind = "error" /\ Head(notes).turn = active
                    \/ Head(notes).kind \in Closing
                 /\ active' = NoTurn
                 /\ completion' = [completion EXCEPT ![active] =
                                     IF Head(notes).kind = "completed" THEN "ok" ELSE "err"]
                 /\ UNCHANGED heard
<1>1. Head(notes) \in Note /\ active \in Turn \cup {NoTurn}
  BY Received DEF TakeNote, WorkerInv, TypeOK, ProcessTypes, LoopTypes
<1>2. /\ Head(notes) = [kind |-> Head(notes).kind, turn |-> Head(notes).turn]
      /\ Head(notes).turn \in Turn /\ Head(notes).kind \in NoteKind
  BY <1>1 DEF Note
<1>3. QED
  BY <1>1, <1>2, ConstantsAssumption DEF TakeNote, Matches, NoteKind, Closing

\* A notification is taken: the invariant of the notifications is kept, and a
\* turn that is ended by a turn/completed of its own was heard in full.
LEMMA NoteByTaking ==
    ASSUME WorkerInv, NoteInv, TakeNote
    PROVE  /\ NoteInv'
           /\ \A t \in Turn : /\ active = t /\ active' = NoTurn
                               /\ Head(notes).turn = t /\ Head(notes).kind \in Closing
                               => heard'[t] = sent'[t]
<1> USE DEF NoteInv
<1> DEFINE note == Head(notes)
           last == Len(notes) - 1
<1>1. /\ worker = "loop" /\ UNCHANGED <<start, worker, server, sent>>
      /\ note.turn \in Turn
      /\ notes \in Seq(Note) /\ notes # <<>>
  BY NoteTaken, NotesAreOfTurns
<1>2. /\ note = notes[1] /\ Len(notes) \in Nat \ {0}
      /\ Len(notes') = last
      /\ \A i \in 1 .. Len(notes') : i + 1 \in 1 .. Len(notes) /\ notes'[i] = notes[i + 1]
  BY <1>1, NoteTaken, Received
<1>3. /\ server[note.turn] # "none"
      /\ note.kind = "error" => note.turn \in Failed
      /\ note.kind = "completed" => server[note.turn] = "over"
      /\ note.kind \in Closing =>
            /\ server[note.turn] \in {"over", "failed"}
            /\ \A j \in 1 .. Len(notes) : 1 < j => notes[j].turn # note.turn
  <2>1. 1 \in 1 .. Len(notes)
    BY <1>2
  <2>2. QED
    BY <1>2, <2>1 DEF Written
<1>4. Live = {active} \cap Turn /\ Live' = {active'} \cap Turn /\ active' \in {active, NoTurn}
  BY <1>1, NoteTaken DEF Live
<1>5. Failed' = Failed /\ Live' \subseteq Live /\ Disturbed \subseteq Disturbed'
  BY <1>1, <1>4, ConstantsAssumption DEF Failed, Disturbed
<1>6. heard \in [Turn -> Nat] /\ completion \in [Turn -> {"none", "ok", "err"}]
  BY DEF WorkerInv, TypeOK, ClientTypes
<1>7. Written'
  <2> SUFFICES ASSUME NEW i \in 1 .. Len(notes')
               PROVE  /\ server[notes'[i].turn] # "none"
                      /\ notes'[i].kind = "error" => notes'[i].turn \in Failed
                      /\ notes'[i].kind = "completed" => server[notes'[i].turn] = "over"
                      /\ notes'[i].kind \in Closing =>
                            /\ server[notes'[i].turn] \in {"over", "failed"}
                            /\ \A j \in 1 .. Len(notes') :
                                  i < j => notes'[j].turn # notes'[i].turn
    BY <1>1, <1>5 DEF Written
  <2>1. notes'[i] = notes[i + 1] /\ i + 1 \in 1 .. Len(notes)
    BY <1>2
  <2>2. /\ server[notes[i + 1].turn] # "none"
        /\ notes[i + 1].kind = "error" => notes[i + 1].turn \in Failed
        /\ notes[i + 1].kind = "completed" => server[notes[i + 1].turn] = "over"
        /\ notes[i + 1].kind \in Closing =>
              /\ server[notes[i + 1].turn] \in {"over", "failed"}
              /\ \A j \in 1 .. Len(notes) : i + 1 < j => notes[j].turn # notes[i + 1].turn
    BY <2>1 DEF Written
  <2>3. notes[i + 1].kind \in Closing =>
           \A j \in 1 .. Len(notes') : i < j => notes'[j].turn # notes[i + 1].turn
    <3> SUFFICES ASSUME notes[i + 1].kind \in Closing, NEW j \in 1 .. Len(notes'), i < j
                 PROVE  notes'[j].turn # notes[i + 1].turn
      OBVIOUS
    <3>1. notes'[j] = notes[j + 1] /\ j + 1 \in 1 .. Len(notes) /\ i + 1 < j + 1
      BY <1>2
    <3>2. QED
      BY <2>2, <3>1
  <2>4. QED
    BY <2>1, <2>2, <2>3
<1>8. Served'
  <2>1. \A t \in Live \ Live' : start[t] = "ok"
    BY <1>4 DEF WorkerInv, OneOpen
  <2>2. \A t \in Turn : heard'[t] # heard[t] => server[t] # "none"
    BY <1>3, <1>6, NoteTaken
  <2>3. QED
    BY <1>1, <2>1, <2>2 DEF Served
<1>9. Counted'
  <2> SUFFICES ASSUME NEW t \in Live'
               PROVE  sent[t] = heard'[t] + Cardinality(DeltasOf(t, notes'))
    BY <1>1 DEF Counted
  <2>1. t \in Turn /\ t = active /\ active' = active
    BY <1>4, ConstantsAssumption
  <2>2. sent[t] = heard[t] + Cardinality(DeltasOf(t, notes))
    BY <1>5 DEF Counted
  <2>3. Cardinality(DeltasOf(t, notes)) =
           IF note = [kind |-> "delta", turn |-> t]
             THEN Cardinality(DeltasOf(t, notes')) + 1 ELSE Cardinality(DeltasOf(t, notes'))
    BY <1>1, NoteTaken, DeltasAfterReceiving
  <2>4. Cardinality(DeltasOf(t, notes')) \in Nat /\ heard[t] \in Nat
    BY <1>1, <1>6, <2>1, NoteTaken, Received, DeltasAreFinite
  <2>5. CASE note = [kind |-> "delta", turn |-> t]
    <3>1. heard'[t] = heard[t] + 1
      BY <1>6, <2>1, <2>5, ConstantsAssumption, NoteTaken
    <3>2. Cardinality(DeltasOf(t, notes)) = Cardinality(DeltasOf(t, notes')) + 1
      BY <2>3, <2>5
    <3>3. \A h, c \in Nat : h + (c + 1) = (h + 1) + c
      OBVIOUS
    <3>4. QED
      BY <2>2, <2>4, <3>1, <3>2, <3>3, Zenon
  <2>6. CASE note # [kind |-> "delta", turn |-> t]
    <3>1. heard'[t] = heard[t]
      BY <2>1, <2>6, ConstantsAssumption, NoteTaken
    <3>2. QED
      BY <2>2, <2>3, <2>6, <3>1
  <2>7. QED
    BY <2>5, <2>6
<1>10. ASSUME active \in Turn, active' = NoTurn, note.turn = active, note.kind \in Closing
       PROVE  heard[active] = sent[active] /\ heard' = heard
  <2>1. sent[active] = heard[active] + Cardinality(DeltasOf(active, notes))
    BY <1>4, <1>10 DEF Counted
  <2>2. \A i \in 1 .. Len(notes) : notes[i] # [kind |-> "delta", turn |-> active]
    <3>1. \A i \in 1 .. Len(notes) : i = 1 \/ 1 < i
      BY <1>2
    <3>2. [kind |-> "delta", turn |-> active].kind \notin Closing
      BY DEF Closing
    <3>3. [kind |-> "delta", turn |-> active].turn = active
      OBVIOUS
    <3>4. QED
      BY <1>2, <1>3, <1>10, <3>1, <3>2, <3>3
  <2>3. DeltasOf(active, notes) = {}
    BY <2>2 DEF DeltasOf
  <2>4. Cardinality(DeltasOf(active, notes)) = 0
    BY <2>3, FS_EmptySet
  <2>5. heard[active] + 0 = heard[active]
    BY <1>6, <1>10
  <2>6. heard' = heard
    BY <1>10, NoteTaken, ConstantsAssumption
  <2>7. QED
    BY <2>1, <2>4, <2>5, <2>6
<1>11. ASSUME active \in Turn, active' = NoTurn, note.turn # active
       PROVE  \E u \in Failed \ {active} : ThreadOf[u] = ThreadOf[active]
  <2>1. note.turn \in Turn \ Live /\ ThreadOf[note.turn] = ThreadOf[active]
    BY <1>1, <1>4, <1>11, ConstantsAssumption, NoteTaken
  <2>2. \E i \in 1 .. Len(notes) : notes[i].turn = note.turn
    BY <1>2
  <2>3. ThreadOf[note.turn] \in Disturbed
    BY <1>1, <2>1, <2>2 DEF Orderly
  <2>4. QED
    BY <1>4, <1>11, <2>1, <2>3 DEF Disturbed
<1>12. Orderly'
  <2> SUFFICES ASSUME NEW t \in Turn \ Live',
                      server[t] = "running" \/ \E i \in 1 .. Len(notes') : notes'[i].turn = t
               PROVE  ThreadOf[t] \in Disturbed'
    BY <1>1 DEF Orderly
  <2>1. server[t] = "running" \/ \E i \in 1 .. Len(notes) : i > 1 /\ notes[i].turn = t
    BY <1>2
  <2>2. CASE t \notin Live
    BY <1>1, <1>5, <2>1, <2>2 DEF Orderly
  <2>3. CASE t \in Live
    <3>1. t = active /\ active \in Turn /\ active' = NoTurn /\ Live' = {}
      BY <1>4, <2>3, ConstantsAssumption
    <3>2. CASE note.turn # active
      <4>1. PICK u \in Failed \ {active} : ThreadOf[u] = ThreadOf[active]
        BY <1>11, <3>1, <3>2
      <4>2. QED
        BY <1>5, <3>1, <4>1 DEF Disturbed
    <3>3. CASE note.turn = active /\ note.kind = "error"
      BY <1>3, <1>5, <3>1, <3>3 DEF Disturbed
    <3>4. CASE note.turn = active /\ note.kind \in Closing
      BY <1>3, <2>1, <3>1, <3>4
    <3>5. QED
      BY <3>1, <3>2, <3>3, <3>4, NoteTaken, ConstantsAssumption
  <2>4. QED
    BY <2>2, <2>3
<1>13. EndedWell'
  <2> SUFFICES ASSUME NEW t \in Turn, completion'[t] = "ok"
               PROVE  \/ heard'[t] = sent[t] /\ server[t] = "over"
                      \/ \E u \in Failed \ {t} : ThreadOf[u] = ThreadOf[t]
    BY <1>1, <1>5 DEF EndedWell
  <2>1. CASE completion[t] = "ok"
    <3>1. t # active
      BY <2>1 DEF WorkerInv, OneOpen
    <3>2. heard'[t] = heard[t]
      BY <1>6, <3>1, NoteTaken
    <3>3. QED
      BY <2>1, <3>2 DEF EndedWell
  <2>2. CASE completion[t] # "ok"
    <3>1. /\ t = active /\ active' = NoTurn
          /\ note.kind = "completed"
      BY <1>6, <2>2, NoteTaken
    <3>2. CASE note.turn = active
      BY <1>3, <1>10, <3>1, <3>2 DEF Closing
    <3>3. CASE note.turn # active
      BY <1>11, <3>1, <3>3
    <3>4. QED
      BY <3>2, <3>3
  <2>3. QED
    BY <2>1, <2>2
<1>14. \A t \in Turn : /\ active = t /\ active' = NoTurn
                       /\ note.turn = t /\ note.kind \in Closing
                       => heard'[t] = sent'[t]
  BY <1>1, <1>10
<1>15. QED
  BY <1>7, <1>8, <1>9, <1>12, <1>13, <1>14

\* Every step keeps the invariant of the notifications.
LEMMA NoteStep == WorkerInv /\ NoteInv /\ [Next]_vars => NoteInv'
<1> SUFFICES ASSUME WorkerInv, NoteInv, [Next]_vars PROVE NoteInv'
  OBVIOUS
<1>1. CASE Launch
  BY <1>1, NoteByLaunch
<1>2. CASE Launched
  BY <1>2, NoteByLaunched
<1>3. CASE StartFails
  BY <1>3, NoteByFailedStart
<1>4. CASE SpawnFails \/ InitializeFails \/ StreamCloses
  BY <1>4, NoteByExit DEF SpawnFails, InitializeFails, StreamCloses
<1>5. CASE TakeNote
  BY <1>5, NoteByTaking
<1>6. CASE Process
  BY <1>6, NoteByProcess
<1>7. CASE UNCHANGED vars
  <2>1. UNCHANGED <<notes, server, sent, completion, heard, start, worker>> /\ Live' = Live
    BY <1>7 DEF vars, clientVars, processVars, loopVars, Live
  <2>2. QED
    BY <2>1, NoteKept
<1>8. QED
  BY <1>1, <1>2, <1>3, <1>4, <1>5, <1>6, <1>7, NoteByOthers DEF Next, Work, Answered

\* In every behaviour the notifications tell what NoteInv says.
LEMMA NoteAlways == Spec => []NoteInv
BY NoteStart, NoteStep, WorkerAlways, PTL DEF Spec

-----------------------------------------------------------------------------
(* What is heard of a turn                                                 *)

\* A turn that ended well was heard in full, whatever the process wrote before
\* it answered turn/start, unless another turn of its thread had an error.
THEOREM AnswersAreComplete == Spec => []AnswerIsComplete
<1>1. NoteInv => AnswerIsComplete
  BY DEF NoteInv, EndedWell, AnswerIsComplete
<1>2. QED
  BY <1>1, NoteAlways, PTL

\* A turn that is ended by its own turn/completed was heard in full, whatever
\* happened to other turns.
OwnEndIsComplete ==
    [][\A t \in Turn : /\ completion[t] = "none" /\ completion'[t] = "ok"
                       /\ Head(notes).turn = t
                       => heard'[t] = sent'[t]]_vars

\* No failure of the process, of another turn or of the caller comes between a
\* turn's own turn/completed and the chunks before it.
THEOREM OwnEndsAreComplete == Spec => OwnEndIsComplete
<1> DEFINE Step == \A t \in Turn : /\ completion[t] = "none" /\ completion'[t] = "ok"
                                   /\ Head(notes).turn = t
                                   => heard'[t] = sent'[t]
<1>1. WorkerInv /\ NoteInv /\ [Next]_vars => [Step]_vars
  <2> SUFFICES ASSUME WorkerInv, NoteInv, Next, NEW t \in Turn, completion[t] = "none",
                      completion'[t] = "ok", Head(notes).turn = t
               PROVE  heard'[t] = sent'[t]
    OBVIOUS
  <2>1. TakeNote
    BY DEF Next, Caller, AskStart, AskSteer, Cancel, Drop, Work, Spawn, SpawnFails, Exit,
           RefuseStart, Prepare, RefuseSteer, ForwardSteer, Interrupt, StreamCloses,
           Answered, Initialized, InitializeFails, Launch, Launched, StartFails, Steered,
           Interrupted, Process, ServerStarts, Delta, Fail, Finish, Die, clientVars,
           WorkerInv, TypeOK, ClientTypes
  <2>2. active = t /\ active' = NoTurn /\ Head(notes).kind \in Closing
    BY <2>1, NoteTaken DEF Closing, WorkerInv, TypeOK, ClientTypes
  <2>3. QED
    BY <2>1, <2>2, NoteByTaking
<1>2. QED
  BY <1>1, WorkerAlways, NoteAlways, PTL DEF Spec, OwnEndIsComplete

=============================================================================
