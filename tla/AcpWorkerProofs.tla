--------------------------- MODULE AcpWorkerProofs ---------------------------
(***************************************************************************)
(* The safety of AcpWorker, proved for every number of turns, queries,     *)
(* sessions and updates, every agent's capabilities and every set of       *)
(* failures: the types, the contract of AgentRuntime, permissions, whose   *)
(* updates a turn hears, and that a turn that ended well was heard in full.*)
(***************************************************************************)
EXTENDS AcpWorker, FiniteSetTheorems, SequenceTheorems, TLAPS

-----------------------------------------------------------------------------
(* The worker and its commands                                             *)

AtTurn == {"creating", "loading", "moding", "prompting"}
AtQuery == {"listing", "reading"}

\* What the command in hand is, wherever the worker is.
InHand ==
    /\ worker \in AtTurn =>
          /\ current \in Turn
          /\ start[current] = "ok"
          /\ completion[current] = "none"
    /\ worker \in AtQuery => current \in Query /\ query[current] = "asked"
    /\ worker = "loading" => session[current] \in Session
    /\ worker = "reading" => target[current] \in Session
    /\ worker \in {"moding", "prompting"} => session[current] \in loaded
    /\ worker \in {"absent", "exited"} => commands = <<>>

\* Only a turn that was handed out ends, and none before the agent is there.
HandedOut ==
    /\ \A t \in Turn : /\ start[t] # "asked"
                       /\ completion[t] # "none" => start[t] = "ok"
    /\ worker \in {"absent", "connecting"} => \A t \in Turn : completion[t] = "none"

\* The commands whose callers wait for a result.
Awaited == {t \in Turn : start[t] = "ok" /\ completion[t] = "none"}
               \cup {q \in Query : query[q] = "asked"}

\* A command in the channel is there once, is not the one in hand, and its
\* caller waits.
Queued ==
    /\ \A i \in 1 .. Len(commands) : commands[i] \in Awaited /\ commands[i] # current
    /\ \A i, j \in 1 .. Len(commands) : commands[i] = commands[j] => i = j

\* The turn whose prompt the worker waits for.
InPrompt == {t \in Turn : t = current /\ worker = "prompting"}

\* The flag tells whether that turn was stopped.  The agent works on nothing
\* else but prompts that were stopped and given up.
PromptInv ==
    /\ worker \in {"creating", "loading", "moding"} => ~flag
    /\ worker = "prompting" => (flag <=> current \in told)
    /\ \A t \in told : t \in InPrompt \/ completion[t] # "none"
    /\ \A t \in agentWork : \/ t \in InPrompt /\ reply = "none"
                            \/ completion[t] = "interrupted" /\ t \in told

WorkerInv == TypeOK /\ InHand /\ HandedOut /\ Queued /\ PromptInv

-----------------------------------------------------------------------------
(* The updates                                                             *)

\* Whose updates the worker waits for.
Listening == IF worker = "prompting" THEN {current}
             ELSE IF worker = "loading" THEN {session[current]}
             ELSE IF worker = "reading" THEN {target[current]} ELSE {}

\* Until something is given up, nobody else writes any.
ApartInv ==
    astray = {} =>
        /\ agentWork \subseteq InPrompt
        /\ \A i \in DOMAIN updates : updates[i] \in Listening
        /\ \A t \in Turn : \A i \in DOMAIN heard[t] : heard[t][i] = t
        /\ \A s \in Session : history[s] \subseteq {s}

\* The turns that wait for their prompt.
Fresh == {t \in Turn : completion[t] = "none"} \ InPrompt

\* The updates of o in a channel or among what was passed on.
UpdatesOf(o, queue) == {i \in DOMAIN queue : queue[i] = o}

\* Of a turn nothing was written before its prompt; then all of it was passed on
\* or is in the channel; and a turn that ended well has all of it.
CountInv ==
    /\ \A t \in Fresh : /\ sent[t] = 0 /\ heard[t] = <<>>
                        /\ \A i \in DOMAIN updates : updates[i] # t
    /\ \A t \in InPrompt : sent[t] = Cardinality(UpdatesOf(t, heard[t]))
                                       + Cardinality(UpdatesOf(t, updates))
    /\ \A t \in Turn : completion[t] = "ok" => sent[t] = Cardinality(UpdatesOf(t, heard[t]))

UpdatesInv == ApartInv /\ CountInv

-----------------------------------------------------------------------------
(* Channels                                                                *)

\* What is sent stands behind what is in the channel.
LEMMA Sent ==
    ASSUME NEW S, NEW queue \in Seq(S), NEW x \in S
    PROVE  /\ Append(queue, x) \in Seq(S)
           /\ Len(queue) \in Nat
           /\ Len(Append(queue, x)) = Len(queue) + 1
           /\ DOMAIN queue = 1 .. Len(queue)
           /\ DOMAIN Append(queue, x) = 1 .. Len(queue) + 1
           /\ \A i \in 1 .. Len(queue) : Append(queue, x)[i] = queue[i] /\ queue[i] \in S
           /\ Append(queue, x)[Len(queue) + 1] = x
<1>1. /\ Append(queue, x) \in Seq(S)
      /\ Len(Append(queue, x)) = Len(queue) + 1
      /\ \A i \in 1 .. Len(queue) : Append(queue, x)[i] = queue[i]
      /\ Append(queue, x)[Len(queue) + 1] = x
  BY AppendProperties
<1>2. /\ Len(queue) \in Nat /\ DOMAIN queue = 1 .. Len(queue)
      /\ DOMAIN Append(queue, x) = 1 .. Len(Append(queue, x))
      /\ \A i \in 1 .. Len(queue) : queue[i] \in S
  BY <1>1, LenProperties, ElementOfSeq
<1>3. QED
  BY <1>1, <1>2

\* What is received is the first in the channel; the rest moves up.
LEMMA Received ==
    ASSUME NEW S, NEW queue \in Seq(S), queue # <<>>
    PROVE  /\ Tail(queue) \in Seq(S)
           /\ Head(queue) = queue[1]
           /\ Head(queue) \in S
           /\ Len(queue) \in Nat \ {0}
           /\ Len(Tail(queue)) = Len(queue) - 1
           /\ DOMAIN queue = 1 .. Len(queue)
           /\ DOMAIN Tail(queue) = 1 .. Len(queue) - 1
           /\ \A i \in 1 .. Len(queue) - 1 : /\ i + 1 \in 1 .. Len(queue)
                                            /\ Tail(queue)[i] = queue[i + 1]
           /\ \A i \in 1 .. Len(queue) : queue[i] \in S
<1>1. /\ Len(queue) \in Nat
      /\ Len(queue) # 0
      /\ DOMAIN queue = 1 .. Len(queue)
      /\ \A i \in 1 .. Len(queue) : queue[i] \in S
  BY LenProperties, ElementOfSeq, EmptySeq
<1>2. /\ Tail(queue) \in Seq(S)
      /\ Head(queue) = queue[1]
      /\ Head(queue) \in S
      /\ Len(Tail(queue)) = Len(queue) - 1
      /\ \A i \in 1 .. Len(Tail(queue)) : Tail(queue)[i] = queue[i + 1]
  BY HeadTailProperties
<1>3. DOMAIN Tail(queue) = 1 .. Len(Tail(queue))
  BY <1>2, LenProperties
<1>4. QED
  BY <1>1, <1>2, <1>3

\* What is drained stands behind what was passed on.
LEMMA Drained ==
    ASSUME NEW S, NEW old \in Seq(S), NEW rest \in Seq(S)
    PROVE  /\ old \o rest \in Seq(S)
           /\ Len(old) \in Nat /\ Len(rest) \in Nat
           /\ DOMAIN old = 1 .. Len(old) /\ DOMAIN rest = 1 .. Len(rest)
           /\ DOMAIN (old \o rest) = 1 .. Len(old) + Len(rest)
           /\ \A i \in 1 .. Len(old) : (old \o rest)[i] = old[i]
           /\ \A i \in 1 .. Len(rest) : (old \o rest)[Len(old) + i] = rest[i]
<1>1. /\ old \o rest \in Seq(S)
      /\ Len(old \o rest) = Len(old) + Len(rest)
      /\ \A i \in 1 .. Len(old) + Len(rest) :
            (old \o rest)[i] = IF i <= Len(old) THEN old[i] ELSE rest[i - Len(old)]
  BY ConcatProperties
<1>2. /\ Len(old) \in Nat /\ Len(rest) \in Nat
      /\ DOMAIN old = 1 .. Len(old) /\ DOMAIN rest = 1 .. Len(rest)
      /\ DOMAIN (old \o rest) = 1 .. Len(old \o rest)
  BY <1>1, LenProperties
<1>3. \A i \in 1 .. Len(old) : (old \o rest)[i] = old[i]
  BY <1>1, <1>2
<1>4. ASSUME NEW i \in 1 .. Len(rest) PROVE (old \o rest)[Len(old) + i] = rest[i]
  <2>1. /\ Len(old) + i \in 1 .. Len(old) + Len(rest)
        /\ ~(Len(old) + i <= Len(old))
        /\ (Len(old) + i) - Len(old) = i
    BY <1>2
  <2>2. QED
    BY <1>1, <2>1
<1>5. QED
  BY <1>1, <1>2, <1>3, <1>4

-----------------------------------------------------------------------------
(* Counting updates                                                        *)

\* A channel holds finitely many updates.
LEMMA UpdatesAreFinite ==
    ASSUME NEW S, NEW queue \in Seq(S), NEW o
    PROVE  /\ IsFiniteSet(UpdatesOf(o, queue))
           /\ Cardinality(UpdatesOf(o, queue)) \in Nat
<1>1. Len(queue) \in Nat /\ DOMAIN queue = 1 .. Len(queue)
  BY LenProperties
<1>2. IsFiniteSet(1 .. Len(queue))
  BY <1>1, FS_Interval
<1>3. UpdatesOf(o, queue) \subseteq 1 .. Len(queue)
  BY <1>1 DEF UpdatesOf
<1>4. QED
  BY <1>2, <1>3, FS_Subset, FS_CardinalityType

\* Where there is no update of o, there are none.
LEMMA NoUpdates ==
    ASSUME NEW queue, NEW o, \A i \in DOMAIN queue : queue[i] # o
    PROVE  Cardinality(UpdatesOf(o, queue)) = 0
<1>1. UpdatesOf(o, queue) = {}
  BY DEF UpdatesOf
<1>2. QED
  BY <1>1, FS_EmptySet

\* An update that is written is one more.
LEMMA UpdatesAfterSending ==
    ASSUME NEW S, NEW queue \in Seq(S), NEW u \in S, NEW o
    PROVE  Cardinality(UpdatesOf(o, Append(queue, u))) =
              IF u = o THEN Cardinality(UpdatesOf(o, queue)) + 1
                       ELSE Cardinality(UpdatesOf(o, queue))
<1> DEFINE longer == Append(queue, u)
           last == Len(queue) + 1
<1>1. /\ Len(queue) \in Nat
      /\ DOMAIN queue = 1 .. Len(queue) /\ DOMAIN longer = 1 .. last
      /\ \A i \in 1 .. Len(queue) : longer[i] = queue[i]
      /\ longer[last] = u
  BY Sent
<1>2. IsFiniteSet(UpdatesOf(o, queue)) /\ last \notin UpdatesOf(o, queue)
  <2>1. last \notin UpdatesOf(o, queue)
    BY <1>1 DEF UpdatesOf
  <2>2. QED
    BY <2>1, UpdatesAreFinite
<1> HIDE DEF longer
<1>3. CASE u = o
  <2>1. UpdatesOf(o, longer) = UpdatesOf(o, queue) \cup {last}
    BY <1>1, <1>3 DEF UpdatesOf
  <2>2. QED
    BY <1>2, <1>3, <2>1, FS_AddElement DEF longer
<1>4. CASE u # o
  <2>1. UpdatesOf(o, longer) = UpdatesOf(o, queue)
    BY <1>1, <1>4 DEF UpdatesOf
  <2>2. QED
    BY <1>4, <2>1 DEF longer
<1>5. QED
  BY <1>3, <1>4

\* What was passed on and what is drained from the channel add up.
LEMMA UpdatesAfterDraining ==
    ASSUME NEW S, NEW old \in Seq(S), NEW rest \in Seq(S), NEW o
    PROVE  Cardinality(UpdatesOf(o, old \o rest)) =
              Cardinality(UpdatesOf(o, old)) + Cardinality(UpdatesOf(o, rest))
<1> DEFINE all == old \o rest
           late == {i \in UpdatesOf(o, all) : i > Len(old)}
           up == [i \in UpdatesOf(o, rest) |-> Len(old) + i]
<1>1. /\ Len(old) \in Nat /\ Len(rest) \in Nat
      /\ DOMAIN old = 1 .. Len(old) /\ DOMAIN rest = 1 .. Len(rest)
      /\ DOMAIN all = 1 .. Len(old) + Len(rest)
      /\ \A i \in 1 .. Len(old) : all[i] = old[i]
      /\ \A i \in 1 .. Len(rest) : all[Len(old) + i] = rest[i]
      /\ all \in Seq(S)
  BY Drained
<1>2. /\ IsFiniteSet(UpdatesOf(o, old)) /\ IsFiniteSet(UpdatesOf(o, rest))
      /\ IsFiniteSet(UpdatesOf(o, all))
      /\ Cardinality(UpdatesOf(o, rest)) \in Nat
  BY <1>1, UpdatesAreFinite
<1> HIDE DEF all
<1>3. IsFiniteSet(late)
  BY <1>2, FS_Subset
<1>4. up \in Bijection(UpdatesOf(o, rest), late)
  <2>1. \A i \in UpdatesOf(o, rest) : i \in Int /\ Len(old) + i \in late
    BY <1>1 DEF UpdatesOf
  <2>2. \A j \in late : j - Len(old) \in UpdatesOf(o, rest) /\ Len(old) + (j - Len(old)) = j
    <3> SUFFICES ASSUME NEW j \in late
                 PROVE  j - Len(old) \in UpdatesOf(o, rest) /\ Len(old) + (j - Len(old)) = j
      OBVIOUS
    <3>1. /\ j \in 1 .. Len(old) + Len(rest) /\ j > Len(old) /\ all[j] = o
      BY <1>1 DEF UpdatesOf
    <3>2. j - Len(old) \in 1 .. Len(rest) /\ Len(old) + (j - Len(old)) = j
      BY <1>1, <3>1
    <3>3. rest[j - Len(old)] = o
      BY <1>1, <3>1, <3>2
    <3>4. QED
      BY <1>1, <3>2, <3>3 DEF UpdatesOf
  <2>3. \A i, j \in UpdatesOf(o, rest) : up[i] = up[j] => i = j
    BY <1>1, <2>1
  <2>4. up \in [UpdatesOf(o, rest) -> late]
    BY <2>1
  <2>5. \A j \in late : \E i \in UpdatesOf(o, rest) : up[i] = j
    BY <2>2
  <2>6. QED
    BY <2>3, <2>4, <2>5 DEF Bijection, Injection, Surjection, IsInjective
<1>5. Cardinality(UpdatesOf(o, rest)) = Cardinality(late)
  BY <1>2, <1>3, <1>4, FS_Bijection DEF ExistsBijection
<1>6. UpdatesOf(o, all) = UpdatesOf(o, old) \cup late /\ UpdatesOf(o, old) \cap late = {}
  BY <1>1 DEF UpdatesOf
<1>7. Cardinality(UpdatesOf(o, all)) = Cardinality(UpdatesOf(o, old)) + Cardinality(late)
  <2>1. /\ Cardinality(UpdatesOf(o, old)) \in Nat /\ Cardinality(late) \in Nat
        /\ Cardinality({}) = 0
    BY <1>2, <1>3, FS_CardinalityType, FS_EmptySet
  <2>2. Cardinality(UpdatesOf(o, old) \cup late) = Cardinality(UpdatesOf(o, old))
           + Cardinality(late) - Cardinality(UpdatesOf(o, old) \cap late)
    BY <1>2, <1>3, FS_Union
  <2>3. \A a, b \in Nat : a + b - 0 = a + b
    OBVIOUS
  <2>4. QED
    BY <1>6, <2>1, <2>2, <2>3, Zenon
<1>8. QED
  BY <1>5, <1>7 DEF all

\* An update that is taken is the first of what is in the channel.
LEMMA UpdatesAfterReceiving ==
    ASSUME NEW S, NEW queue \in Seq(S), queue # <<>>, NEW o
    PROVE  Cardinality(UpdatesOf(o, queue)) =
              IF Head(queue) = o THEN Cardinality(UpdatesOf(o, Tail(queue))) + 1
                                 ELSE Cardinality(UpdatesOf(o, Tail(queue)))
<1>1. Head(queue) \in S /\ Tail(queue) \in Seq(S)
  BY Received
<1>2. <<Head(queue)>> \in Seq(S) /\ <<Head(queue)>> \o Tail(queue) = queue
  <2> DEFINE one == <<Head(queue)>>
  <2>1. one \in Seq(S) /\ Len(one) = 1 /\ one[1] = queue[1]
    BY <1>1, Received
  <2> HIDE DEF one
  <2>2. /\ Len(queue) \in Nat \ {0} /\ Len(Tail(queue)) = Len(queue) - 1
        /\ \A i \in 1 .. Len(queue) - 1 : Tail(queue)[i] = queue[i + 1]
    BY Received
  <2>3. /\ one \o Tail(queue) \in Seq(S)
        /\ Len(one \o Tail(queue)) = Len(one) + Len(Tail(queue))
        /\ \A i \in 1 .. Len(one) + Len(Tail(queue)) :
              (one \o Tail(queue))[i] = IF i <= Len(one) THEN one[i]
                                         ELSE Tail(queue)[i - Len(one)]
    BY <1>1, <2>1, ConcatProperties, Zenon
  <2>4. ASSUME NEW i \in 1 .. Len(queue) PROVE (one \o Tail(queue))[i] = queue[i]
    <3>1. CASE i = 1
      BY <2>1, <2>2, <2>3, <3>1
    <3>2. CASE i # 1
      <4>1. i - 1 \in 1 .. Len(queue) - 1 /\ (i - 1) + 1 = i /\ ~(i <= 1)
        BY <2>2, <3>2
      <4>2. QED
        BY <2>1, <2>2, <2>3, <4>1
    <3>3. QED
      BY <3>1, <3>2
  <2>5. Len(one \o Tail(queue)) = Len(queue)
    BY <2>1, <2>2, <2>3
  <2>6. one \o Tail(queue) = queue
    BY <2>3, <2>4, <2>5, SeqEqual
  <2>7. QED
    BY <2>1, <2>6 DEF one
<1>3. Cardinality(UpdatesOf(o, queue)) =
         Cardinality(UpdatesOf(o, <<Head(queue)>>)) + Cardinality(UpdatesOf(o, Tail(queue)))
  BY <1>1, <1>2, UpdatesAfterDraining
<1>4. Cardinality(UpdatesOf(o, Tail(queue))) \in Nat
  BY <1>1, UpdatesAreFinite
<1>5. Cardinality(UpdatesOf(o, <<Head(queue)>>)) = IF Head(queue) = o THEN 1 ELSE 0
  <2>1. UpdatesOf(o, <<Head(queue)>>) = IF Head(queue) = o THEN {1} ELSE {}
    BY DEF UpdatesOf
  <2>2. QED
    BY <2>1, FS_EmptySet, FS_Singleton
<1>6. QED
  BY <1>3, <1>4, <1>5

-----------------------------------------------------------------------------
(* The types                                                               *)

\* At the start nobody has asked for anything.
LEMMA WorkerStart == Init => WorkerInv
<1> SUFFICES ASSUME Init PROVE WorkerInv
  OBVIOUS
<1>1. CallerTypes /\ SessionTypes /\ AgentTypes
  BY DEF Init, CallerTypes, SessionTypes, AgentTypes, Asked
<1>2. <<>> \in Seq(Origin) /\ <<>> \in Seq(Turn \cup Query)
  BY EmptySeq
<1>3. LoopTypes /\ TurnTypes
  BY <1>2 DEF Init, LoopTypes, TurnTypes, Worker
<1>4. InHand /\ HandedOut /\ Queued /\ PromptInv
  BY DEF Init, InHand, AtTurn, AtQuery, HandedOut, Queued, PromptInv
<1>5. QED
  BY <1>1, <1>3, <1>4 DEF WorkerInv, TypeOK

\* What the callers know stays well typed.
LEMMA CallerStep ==
    ASSUME WorkerInv, [Next]_vars
    PROVE  CallerTypes'
<1>1. TypeOK /\ CallerTypes
  BY DEF WorkerInv, TypeOK
<1>2. CASE UNCHANGED callerVars
  BY <1>1, <1>2 DEF CallerTypes, callerVars
<1>3. Known \cup {NoTurn} \subseteq Session \cup {NoTurn}
  BY DEF Known, Session
<1>4. ASSUME NEW t \in Turn, NEW ref, AskStart(t, ref) PROVE CallerTypes'
  BY <1>1, <1>4 DEF AskStart, CallerTypes, Asked
<1>5. ASSUME NEW q \in Query, NEW s \in Known \cup {NoTurn}, AskQuery(q, s) PROVE CallerTypes'
  BY <1>1, <1>3, <1>5 DEF AskQuery, CallerTypes, Asked
<1>6. ASSUME NEW t \in Turn, Cancel(t) PROVE CallerTypes'
  BY <1>1, <1>6 DEF Cancel, CallerTypes
<1>7. CASE ConnectFails
  BY <1>1, <1>7 DEF ConnectFails, CallerTypes, Asked
<1>8. ASSUME NEW q \in Query, TakeQuery(q) PROVE CallerTypes'
  BY <1>1, <1>8 DEF TakeQuery, Answer, CallerTypes, Asked
<1>9. CASE Listed \/ HistoryRead
  BY <1>1, <1>9 DEF Listed, HistoryRead, Answer, CallerTypes, Asked
<1>10. QED
  BY <1>2, <1>4, <1>5, <1>6, <1>7, <1>8, <1>9
     DEF Next, Caller, Work, Answered, AgentStep, Connect, TakeTurn, Begin, TakeHopelessTurn,
         SeeCancel, Deadline, TakeUpdate, PromptAnswered, PromptFails, AskAgent, NewSession,
         LoadSession, SessionFails, Prompt, Update, Replay, AgentEnds, RequestPermission, Die,
         vars

\* Every update in the channel has an origin.
LEMMA CapturedIsOrigin ==
    ASSUME WorkerInv, NEW s \in Session, Capture(s)
    PROVE  /\ history' \in [Session -> SUBSET Origin]
           /\ updates' = <<>>
<1>1. \A i \in DOMAIN updates : updates[i] \in Origin
  BY LenProperties, ElementOfSeq DEF WorkerInv, TypeOK, TurnTypes
<1>2. QED
  BY <1>1 DEF Capture, WorkerInv, TypeOK, SessionTypes

\* The sessions stay well typed.
LEMMA SessionStep ==
    ASSUME WorkerInv, [Next]_vars
    PROVE  SessionTypes'
<1>1. TypeOK /\ SessionTypes /\ InHand
  BY DEF WorkerInv, TypeOK
<1>2. CASE UNCHANGED sessionVars
  BY <1>1, <1>2 DEF SessionTypes, sessionVars
<1>3. CASE NewSession
  BY <1>1, <1>3 DEF NewSession, InHand, AtTurn, SessionTypes, Session
<1>4. CASE LoadSession
  <2>1. session[current] \in Session
    BY <1>1, <1>4 DEF LoadSession, InHand
  <2>2. QED
    BY <1>1, <1>4, <2>1, CapturedIsOrigin DEF LoadSession, SessionTypes
<1>5. CASE Prompt
  BY <1>1, <1>5 DEF Prompt, InHand, SessionTypes
<1>6. CASE HistoryRead
  <2>1. target[current] \in Session
    BY <1>1, <1>6 DEF HistoryRead, InHand
  <2>2. QED
    BY <1>1, <1>6, <2>1, CapturedIsOrigin DEF HistoryRead, SessionTypes
<1>7. QED
  BY <1>2, <1>3, <1>4, <1>5, <1>6
     DEF Next, Caller, Work, Answered, AgentStep, AskStart, AskQuery, Cancel, Connect, ConnectFails,
         TakeTurn, TakeHopelessTurn, SeeCancel, Deadline, TakeUpdate, PromptAnswered, PromptFails,
         TakeQuery, AskAgent, SessionFails, Listed, Update, Replay, AgentEnds, RequestPermission,
         Die, vars

\* The agent stays well typed.
LEMMA AgentTypesStep ==
    ASSUME WorkerInv, [Next]_vars
    PROVE  AgentTypes'
<1>1. TypeOK /\ AgentTypes /\ InHand
  BY DEF WorkerInv, TypeOK
<1>2. CASE UNCHANGED agentVars
  BY <1>1, <1>2 DEF AgentTypes, agentVars
<1>3. CASE \E announced \in Capability : Connect(announced)
  BY <1>1, <1>3 DEF Connect, AgentTypes
<1>4. CASE Prompt
  BY <1>1, <1>4 DEF Prompt, InHand, AtTurn, AgentTypes
<1>5. ASSUME NEW o \in Origin, Tell(o), UNCHANGED <<process, agentWork, permission>>
      PROVE  AgentTypes'
  BY <1>1, <1>5 DEF Tell, AgentTypes
<1>6. CASE Replay
  <2>1. PICK s \in Old : Tell(s)
    BY <1>6 DEF Replay
  <2>2. QED
    BY <1>5, <1>6, <2>1 DEF Replay, Origin
<1>7. ASSUME NEW t \in Turn, Update(t) PROVE AgentTypes'
  BY <1>5, <1>7 DEF Update, Origin
<1>8. ASSUME NEW t \in Turn, AgentEnds(t) \/ RequestPermission(t) PROVE AgentTypes'
  BY <1>1, <1>8 DEF AgentEnds, RequestPermission, AgentTypes
<1>9. CASE Die
  BY <1>1, <1>9 DEF Die, AgentTypes
<1>10. QED
  BY <1>2, <1>3, <1>4, <1>6, <1>7, <1>8, <1>9
     DEF Next, Caller, Work, Answered, AgentStep, AskStart, AskQuery, Cancel, ConnectFails,
         TakeTurn, Begin, TakeHopelessTurn, SeeCancel, Deadline, TakeUpdate, PromptAnswered,
         PromptFails, TakeQuery, AskAgent, NewSession, LoadSession, SessionFails, Listed,
         HistoryRead, vars

\* A command that is taken is the first in the channel.
LEMMA Taken ==
    ASSUME WorkerInv, NEW command, Take(command)
    PROVE  /\ worker = "idle" /\ current = NoTurn
           /\ commands # <<>> /\ commands' = Tail(commands)
           /\ commands' \in Seq(Turn \cup Query)
           /\ command = commands[1] /\ 1 \in 1 .. Len(commands)
           /\ command \in Awaited
<1>1. commands \in Seq(Turn \cup Query) /\ commands # <<>> /\ command = Head(commands)
  BY DEF Take, WorkerInv, TypeOK, LoopTypes
<1>2. /\ Tail(commands) \in Seq(Turn \cup Query)
      /\ command = commands[1] /\ 1 \in 1 .. Len(commands)
  BY <1>1, Received
<1>3. QED
  BY <1>1, <1>2 DEF Take, WorkerInv, TypeOK, LoopTypes, Queued

\* A request that is asked for is sent, or the worker is gone.
LEMMA Asking ==
    ASSUME WorkerInv, NEW command \in Turn \cup Query, Enqueue(command)
    PROVE  /\ commands' \in Seq(Turn \cup Query)
           /\ worker # "exited"
           /\ worker' = IF worker = "absent" THEN "connecting" ELSE worker
BY Sent DEF Enqueue, WorkerInv, TypeOK, LoopTypes

\* The agent works on the turn in hand only while the worker waits for it.
LEMMA OnlyPromptsAreWork ==
    ASSUME WorkerInv, current \in agentWork
    PROVE  current \in InPrompt /\ worker = "prompting" /\ reply = "none"
<1>1. current \in Turn
  BY DEF WorkerInv, TypeOK, AgentTypes
<1>2. worker \in AtTurn
  BY <1>1, ConstantsAssumption
     DEF WorkerInv, TypeOK, LoopTypes, Worker, InHand, AtTurn, AtQuery
<1>3. completion[current] = "none"
  BY <1>2 DEF WorkerInv, InHand
<1>4. QED
  BY <1>3 DEF WorkerInv, PromptInv, InPrompt

\* The worker's loop stays well typed.
LEMMA LoopStep ==
    ASSUME WorkerInv, [Next]_vars
    PROVE  LoopTypes'
<1> USE ConstantsAssumption DEF LoopTypes
<1>1. TypeOK /\ LoopTypes /\ InHand
  BY DEF WorkerInv, TypeOK
<1>2. CASE UNCHANGED <<loopVars, cancelled>>
  BY <1>1, <1>2 DEF loopVars
<1>3. ASSUME NEW t \in Turn, NEW ref, AskStart(t, ref) PROVE LoopTypes'
  <2>1. CASE Enqueue(t)
    BY <1>1, <1>3, <2>1, Asking DEF AskStart, Worker
  <2>2. CASE NoEntry
    BY <1>1, <1>3, <2>2 DEF AskStart, NoEntry
  <2>3. QED
    BY <1>3, <2>1, <2>2 DEF AskStart
<1>4. ASSUME NEW q \in Query, NEW s, AskQuery(q, s) PROVE LoopTypes'
  <2>1. CASE Enqueue(q)
    BY <1>1, <1>4, <2>1, Asking DEF AskQuery, Worker
  <2>2. CASE NoEntry
    BY <1>1, <1>4, <2>2 DEF AskQuery, NoEntry
  <2>3. QED
    BY <1>4, <2>1, <2>2 DEF AskQuery
<1>5. ASSUME NEW t \in Turn, Cancel(t) PROVE LoopTypes'
  BY <1>1, <1>5 DEF Cancel, loopVars
<1>6. ASSUME NEW announced \in Capability, Connect(announced) PROVE LoopTypes'
  BY <1>1, <1>6 DEF Connect, callerVars, Worker
<1>7. CASE ConnectFails
  BY <1>1, <1>7, EmptySeq DEF ConnectFails, Worker
<1>8. ASSUME NEW t \in Turn, TakeTurn(t) PROVE LoopTypes'
  <2>1. Begin(t) /\ Take(t) /\ worker' \in {"creating", "loading", "moding"}
    BY <1>8 DEF TakeTurn, Begin
  <2>2. /\ commands' \in Seq(Turn \cup Query)
        /\ reply = "none" /\ worker = "idle"
    BY <1>1, <2>1, Taken
  <2>3. QED
    BY <1>1, <2>1, <2>2 DEF Begin, callerVars, Worker
<1>9. ASSUME NEW t \in Turn, TakeHopelessTurn(t) PROVE LoopTypes'
  BY <1>1, <1>9, Taken DEF TakeHopelessTurn, callerVars
<1>10. ASSUME NEW q \in Query, TakeQuery(q) PROVE LoopTypes'
  BY <1>1, <1>10, Taken DEF TakeQuery
<1>11. ASSUME NEW q \in Query, AskAgent(q) PROVE LoopTypes'
  <2>1. Take(q) /\ worker' \in {"listing", "reading"} /\ current' = q
    BY <1>11 DEF AskAgent
  <2>2. commands' \in Seq(Turn \cup Query) /\ reply = "none" /\ worker = "idle"
    BY <1>1, <2>1, Taken
  <2>3. QED
    BY <1>1, <1>11, <2>1, <2>2 DEF AskAgent, callerVars, Worker
<1>12. CASE NewSession \/ LoadSession \/ Prompt
  BY <1>1, <1>12 DEF NewSession, LoadSession, Prompt, callerVars, Worker
<1>13. CASE SeeCancel
  BY <1>1, <1>13 DEF SeeCancel, callerVars
<1>14. ASSUME Idle, UNCHANGED <<commands, capabilities, flag, told, cancelled>>
       PROVE  LoopTypes'
  BY <1>1, <1>14 DEF Idle, Worker
<1>15. CASE SessionFails \/ Deadline \/ PromptAnswered \/ PromptFails
  BY <1>14, <1>15 DEF SessionFails, Deadline, PromptAnswered, PromptFails, End, callerVars
<1>16. CASE Listed \/ HistoryRead
  BY <1>14, <1>16 DEF Listed, HistoryRead
<1>17. ASSUME NEW t \in Turn, AgentEnds(t) PROVE LoopTypes'
  <2>1. t = current => worker \notin {"absent", "connecting", "idle", "exited"}
    BY <1>1
  <2>2. t = current => worker = "prompting"
    BY <1>17, OnlyPromptsAreWork DEF AgentEnds
  <2>3. QED
    BY <1>1, <1>17, <2>1, <2>2 DEF AgentEnds, callerVars
<1>18. CASE Die
  BY <1>1, <1>18, OnlyPromptsAreWork DEF Die, callerVars
<1>19. QED
  BY <1>2, <1>3, <1>4, <1>5, <1>6, <1>7, <1>8, <1>9, <1>10, <1>11, <1>12, <1>13, <1>15, <1>16,
     <1>17, <1>18
     DEF Next, Caller, Work, Answered, AgentStep, TakeUpdate, Update, Replay, RequestPermission,
         vars, callerVars

\* The turns and the channel of updates stay well typed.
LEMMA TurnTypesStep ==
    ASSUME WorkerInv, [Next]_vars
    PROVE  TurnTypes'
<1> USE DEF TurnTypes
<1>1. TypeOK /\ TurnTypes /\ InHand
  BY DEF WorkerInv, TypeOK
<1>2. CASE UNCHANGED <<turnVars, updates>>
  BY <1>1, <1>2 DEF turnVars
<1>3. ASSUME NEW t \in Turn, NEW ref \in Known \cup {NoTurn}, AskStart(t, ref) PROVE TurnTypes'
  <2>1. ref \in Session \cup {NoTurn}
    BY DEF Known, Session
  <2>2. QED
    BY <1>1, <1>3, <2>1 DEF AskStart
<1>4. CASE ConnectFails
  BY <1>1, <1>4 DEF ConnectFails
<1>5. ASSUME NEW t \in Turn, TakeHopelessTurn(t) PROVE TurnTypes'
  BY <1>1, <1>5 DEF TakeHopelessTurn
<1>6. ASSUME NEW t \in Turn, TakeTurn(t) PROVE TurnTypes'
  BY <1>1, <1>6 DEF TakeTurn, Begin
<1>7. CASE NewSession
  BY <1>1, <1>7 DEF NewSession, InHand, AtTurn, Session
<1>8. ASSUME NEW s \in Session, Capture(s), UNCHANGED <<session, completion, heard, astray>>
      PROVE  TurnTypes'
  BY <1>1, <1>8, CapturedIsOrigin, EmptySeq
<1>9. CASE LoadSession
  <2>1. session[current] \in Session
    BY <1>1, <1>9 DEF LoadSession, InHand
  <2>2. QED
    BY <1>8, <1>9, <2>1 DEF LoadSession, turnVars
<1>10. CASE HistoryRead
  <2>1. target[current] \in Session /\ target[current] \in Origin
    BY <1>1, <1>10 DEF HistoryRead, InHand, Session, Origin
  <2>2. CASE UNCHANGED astray
    BY <1>1, <1>8, <1>10, <2>1, <2>2 DEF HistoryRead
  <2>3. QED
    BY <1>1, <1>8, <1>10, <2>1 DEF HistoryRead
<1>11. ASSUME NEW o \in Origin, Tell(o), UNCHANGED turnVars PROVE TurnTypes'
  BY <1>1, <1>11, Sent DEF Tell, turnVars
<1>12. CASE Replay
  <2>1. PICK s \in Old : Tell(s)
    BY <1>12 DEF Replay
  <2>2. QED
    BY <1>11, <1>12, <2>1 DEF Replay, Origin
<1>13. ASSUME NEW t \in Turn, Update(t) PROVE TurnTypes'
  BY <1>11, <1>13 DEF Update, Origin
<1>14. CASE SessionFails
  <2>1. worker = "loading" => session[current] \in Origin
    BY <1>1 DEF InHand, Session, Origin
  <2>2. QED
    BY <1>1, <1>14, <2>1 DEF SessionFails, End
<1>15. CASE Deadline \/ PromptFails
  <2>1. current \in Origin
    BY <1>1, <1>15 DEF Deadline, PromptFails, InHand, AtTurn, Origin
  <2>2. QED
    BY <1>1, <1>15, <2>1 DEF Deadline, PromptFails, End
<1>16. CASE TakeUpdate
  <2>1. current \in Turn /\ heard[current] \in Seq(Origin)
    BY <1>1, <1>16 DEF TakeUpdate, InHand, AtTurn
  <2>2. Head(updates) \in Origin /\ Tail(updates) \in Seq(Origin)
    BY <1>1, <1>16, Received DEF TakeUpdate
  <2>3. Append(heard[current], Head(updates)) \in Seq(Origin)
    BY <2>1, <2>2, Sent
  <2>4. QED
    BY <1>1, <1>16, <2>2, <2>3 DEF TakeUpdate
<1>17. CASE PromptAnswered
  <2>1. current \in Turn /\ heard[current] \in Seq(Origin)
    BY <1>1, <1>17 DEF PromptAnswered, InHand, AtTurn
  <2>2. heard[current] \o updates \in Seq(Origin)
    BY <1>1, <2>1, Drained
  <2>3. <<>> \in Seq(Origin)
    BY EmptySeq
  <2>4. QED
    BY <1>1, <1>17, <2>2, <2>3 DEF PromptAnswered, End
<1>18. QED
  BY <1>2, <1>3, <1>4, <1>5, <1>6, <1>7, <1>9, <1>10, <1>12, <1>13, <1>14, <1>15, <1>16, <1>17
     DEF Next, Caller, Work, Answered, AgentStep, AskQuery, Cancel, Connect, SeeCancel, TakeQuery,
         AskAgent, Prompt, Listed, AgentEnds, RequestPermission, Die, vars, turnVars

\* All variables stay well typed.
LEMMA TypesStep ==
    ASSUME WorkerInv, [Next]_vars
    PROVE  TypeOK'
BY CallerStep, SessionStep, AgentTypesStep, LoopStep, TurnTypesStep DEF TypeOK

-----------------------------------------------------------------------------
(* The command in hand and those that wait                                 *)

\* A turn that is handed out may end; no other turn does.
LEMMA HandedOutStep ==
    ASSUME WorkerInv, [Next]_vars
    PROVE  HandedOut'
<1> USE DEF HandedOut
<1>1. TypeOK /\ HandedOut /\ InHand
  BY DEF WorkerInv
<1>2. /\ start \in [Turn -> Asked]
      /\ completion \in [Turn -> {"none", "ok", "interrupted", "failed"}]
  BY <1>1 DEF TypeOK, CallerTypes, TurnTypes
<1>3. CASE UNCHANGED <<start, completion, worker>>
  BY <1>1, <1>3
<1>4. ASSUME NEW t \in Turn, NEW ref, AskStart(t, ref) PROVE HandedOut'
  BY <1>1, <1>2, <1>4 DEF AskStart, Enqueue, NoEntry
<1>5. ASSUME NEW q \in Query, NEW s, AskQuery(q, s) PROVE HandedOut'
  BY <1>1, <1>5 DEF AskQuery, Enqueue, NoEntry, turnVars
<1>6. CASE ConnectFails
  BY <1>1, <1>2, <1>6 DEF ConnectFails
<1>7. ASSUME NEW t \in Turn, TakeHopelessTurn(t) PROVE HandedOut'
  <2>1. t \in Awaited /\ worker = "idle"
    BY <1>7, Taken DEF TakeHopelessTurn
  <2>2. start[t] = "ok"
    BY <2>1, ConstantsAssumption DEF Awaited
  <2>3. QED
    BY <1>1, <1>2, <1>7, <2>1, <2>2 DEF TakeHopelessTurn, callerVars
<1>8. ASSUME NEW result, End(result), worker \in AtTurn, UNCHANGED start PROVE HandedOut'
  BY <1>1, <1>2, <1>8 DEF End, Idle, InHand
<1>9. CASE SessionFails \/ Deadline \/ PromptAnswered \/ PromptFails
  BY <1>8, <1>9 DEF SessionFails, Deadline, PromptAnswered, PromptFails, callerVars, AtTurn
<1>10. ASSUME UNCHANGED <<start, completion>>, worker \notin {"absent", "connecting"} => worker' \notin {"absent", "connecting"}
       PROVE  HandedOut'
  BY <1>1, <1>10
<1>11. CASE \/ \E announced \in Capability : Connect(announced)
            \/ \E t \in Turn : TakeTurn(t)
            \/ \E q \in Query : TakeQuery(q) \/ AskAgent(q)
            \/ NewSession \/ LoadSession \/ Prompt \/ Listed \/ HistoryRead
  BY <1>10, <1>11
     DEF Connect, TakeTurn, Begin, TakeQuery, AskAgent, NewSession, LoadSession, Prompt, Listed,
         HistoryRead, Idle, callerVars, turnVars
<1>12. QED
  BY <1>3, <1>4, <1>5, <1>6, <1>7, <1>9, <1>11
     DEF Next, Caller, Work, Answered, AgentStep, Cancel, SeeCancel, TakeUpdate, Update, Replay,
         AgentEnds, RequestPermission, Die, vars, callerVars, loopVars, turnVars

\* What the command in hand is.
LEMMA InHandStep ==
    ASSUME WorkerInv, [Next]_vars
    PROVE  InHand'
<1> USE DEF InHand, AtTurn, AtQuery
<1>1. TypeOK /\ InHand
  BY DEF WorkerInv
<1>2. /\ start \in [Turn -> Asked] /\ query \in [Query -> Asked]
      /\ target \in [Query -> Session \cup {NoTurn}]
      /\ session \in [Turn -> Session \cup {NoTurn}]
      /\ completion \in [Turn -> {"none", "ok", "interrupted", "failed"}]
  BY <1>1 DEF TypeOK, CallerTypes, TurnTypes
<1>3. CASE UNCHANGED <<worker, current, commands, start, completion, query, target, session, loaded>>
  BY <1>1, <1>3
<1>4. CASE worker' = "idle"
  BY <1>4
<1>5. ASSUME NEW t \in Turn, NEW ref, AskStart(t, ref) PROVE InHand'
  <2>1. current \in Turn => current # t \/ start[current] = "none"
    BY <1>5 DEF AskStart
  <2>2. worker' \in {"absent", "exited"} => commands' = <<>>
    BY <1>1, <1>5 DEF AskStart, Enqueue, NoEntry
  <2>3. /\ worker' \in {"connecting", worker} /\ UNCHANGED <<current, query, target, loaded, completion>>
        /\ \A u \in Turn : u # t => start'[u] = start[u] /\ session'[u] = session[u]
        /\ start[t] = "none"
    BY <1>2, <1>5 DEF AskStart, Enqueue, NoEntry, sessionVars
  <2>4. QED
    BY <1>1, <2>1, <2>2, <2>3
<1>6. ASSUME NEW q \in Query, NEW s, AskQuery(q, s) PROVE InHand'
  <2>1. worker' \in {"absent", "exited"} => commands' = <<>>
    BY <1>1, <1>6 DEF AskQuery, Enqueue, NoEntry
  <2>2. /\ worker' \in {"connecting", worker}
        /\ UNCHANGED <<current, start, session, completion, loaded>>
        /\ \A u \in Query : u # q => query'[u] = query[u] /\ target'[u] = target[u]
        /\ query[q] = "none"
    BY <1>2, <1>6 DEF AskQuery, Enqueue, NoEntry, sessionVars, turnVars
  <2>3. QED
    BY <1>1, <2>1, <2>2
<1>7. CASE ConnectFails
  BY <1>7 DEF ConnectFails
<1>8. ASSUME NEW t \in Turn, TakeTurn(t) PROVE InHand'
  <2>1. start[t] = "ok" /\ completion[t] = "none"
    BY <1>8, Taken, ConstantsAssumption DEF TakeTurn, Begin, Awaited
  <2>2. /\ current' = t /\ UNCHANGED <<callerVars, completion, session, loaded>>
        /\ \/ worker' = "creating"
           \/ session[t] \in Session /\ worker' = "loading"
           \/ session[t] \in loaded /\ worker' = "moding"
    BY <1>8 DEF TakeTurn, Begin, sessionVars
  <2>3. QED
    BY <2>1, <2>2 DEF callerVars
<1>9. ASSUME NEW q \in Query, AskAgent(q) PROVE InHand'
  <2>1. query[q] = "asked"
    BY <1>9, Taken, ConstantsAssumption DEF AskAgent, Awaited
  <2>2. /\ current' = q /\ UNCHANGED callerVars
        /\ \/ worker' = "listing"
           \/ target[q] \in Session /\ worker' = "reading"
    BY <1>9 DEF AskAgent
  <2>3. QED
    BY <2>1, <2>2 DEF callerVars
<1>10. CASE NewSession
  BY <1>1, <1>2, <1>10 DEF NewSession, callerVars
<1>11. CASE LoadSession
  BY <1>1, <1>2, <1>11 DEF LoadSession, callerVars, turnVars
<1>12. CASE Prompt
  BY <1>1, <1>12 DEF Prompt, callerVars, turnVars
<1>13. CASE \/ \E announced \in Capability : Connect(announced)
            \/ \E t \in Turn : TakeHopelessTurn(t)
            \/ \E q \in Query : TakeQuery(q)
            \/ SessionFails \/ Deadline \/ PromptAnswered \/ PromptFails \/ Listed \/ HistoryRead
  BY <1>4, <1>13
     DEF Connect, TakeHopelessTurn, TakeQuery, Take, SessionFails, Deadline, PromptAnswered,
         PromptFails, Listed, HistoryRead, End, Idle
<1>14. QED
  BY <1>3, <1>5, <1>6, <1>7, <1>8, <1>9, <1>10, <1>11, <1>12, <1>13
     DEF Next, Caller, Work, Answered, AgentStep, Cancel, SeeCancel, TakeUpdate, Update, Replay,
         AgentEnds, RequestPermission, Die, vars, callerVars, sessionVars, loopVars, turnVars

\* A command is sent that nobody waited for before.
LEMMA QueuedBySending ==
    ASSUME WorkerInv, NEW c \in Turn \cup Query, c \notin Awaited, c # current,
           commands' = Append(commands, c), current' = current,
           Awaited \cup {c} \subseteq Awaited'
    PROVE  Queued'
<1>1. commands \in Seq(Turn \cup Query)
  BY DEF WorkerInv, TypeOK, LoopTypes
<1>2. /\ Len(commands) \in Nat
      /\ Len(commands') = Len(commands) + 1
      /\ \A i \in 1 .. Len(commands) : commands'[i] = commands[i]
      /\ commands'[Len(commands) + 1] = c
  BY <1>1, Sent
<1>3. /\ \A i \in 1 .. Len(commands) : commands[i] \in Awaited /\ commands[i] # current
      /\ \A i, j \in 1 .. Len(commands) : commands[i] = commands[j] => i = j
  BY DEF WorkerInv, Queued
<1>4. \A i \in 1 .. Len(commands) : commands[i] # c
  BY <1>3
<1>5. \A i \in 1 .. Len(commands') : i \in 1 .. Len(commands) \/ i = Len(commands) + 1
  BY <1>2
<1>6. ASSUME NEW i \in 1 .. Len(commands')
      PROVE  commands'[i] \in Awaited' /\ commands'[i] # current'
  <2>1. CASE i \in 1 .. Len(commands)
    <3>1. commands'[i] = commands[i]
      BY <1>2, <2>1
    <3>2. QED
      BY <1>3, <2>1, <3>1
  <2>2. CASE i = Len(commands) + 1
    BY <1>2, <2>2
  <2>3. QED
    BY <1>5, <2>1, <2>2
<1>7. \A i, j \in 1 .. Len(commands') : commands'[i] = commands'[j] => i = j
  BY <1>2, <1>3, <1>4, <1>5
<1>8. QED
  BY <1>6, <1>7 DEF Queued

\* The first command leaves the channel, and whoever waits for another one
\* goes on waiting.
LEMMA QueuedByTaking ==
    ASSUME WorkerInv, NEW c, Take(c), current' = NoTurn \/ current' = c,
           Awaited \ {c} \subseteq Awaited'
    PROVE  Queued'
<1>1. commands \in Seq(Turn \cup Query) /\ commands # <<>> /\ commands' = Tail(commands)
      /\ c = commands[1] /\ 1 \in 1 .. Len(commands)
  BY Taken DEF WorkerInv, TypeOK, LoopTypes
<1>2. /\ Len(commands) \in Nat \ {0}
      /\ Len(commands') = Len(commands) - 1
      /\ \A i \in 1 .. Len(commands') : /\ i + 1 \in 1 .. Len(commands)
                                         /\ commands'[i] = commands[i + 1]
  BY <1>1, Received
<1>3. /\ \A i \in 1 .. Len(commands) : commands[i] \in Awaited
      /\ \A i, j \in 1 .. Len(commands) : commands[i] = commands[j] => i = j
  BY DEF WorkerInv, Queued
<1>4. ASSUME NEW i \in 1 .. Len(commands')
      PROVE  commands'[i] \in Awaited \ {c}
  <2>1. i + 1 \in 1 .. Len(commands) /\ i + 1 # 1 /\ commands'[i] = commands[i + 1]
    BY <1>2
  <2>2. commands[i + 1] # commands[1]
    BY <1>1, <1>3, <2>1
  <2>3. QED
    BY <1>1, <1>3, <2>1, <2>2
<1>5. NoTurn \notin Awaited
  BY ConstantsAssumption DEF Awaited
<1>6. \A i \in 1 .. Len(commands') : commands'[i] \in Awaited' /\ commands'[i] # current'
  BY <1>4, <1>5
<1>7. \A i, j \in 1 .. Len(commands') : commands'[i] = commands'[j] => i = j
  BY <1>2, <1>3
<1>8. QED
  BY <1>6, <1>7 DEF Queued

\* The channel stays as it is, and whoever waits for a command in it goes on
\* waiting.
LEMMA QueuedStays ==
    ASSUME WorkerInv, commands' = commands, current' \in {current, NoTurn},
           Awaited \ {current} \subseteq Awaited'
    PROVE  Queued'
<1>1. /\ \A i \in 1 .. Len(commands) : commands[i] \in Awaited /\ commands[i] # current
      /\ \A i, j \in 1 .. Len(commands) : commands[i] = commands[j] => i = j
  BY DEF WorkerInv, Queued
<1>2. NoTurn \notin Awaited
  BY ConstantsAssumption DEF Awaited
<1>3. QED
  BY <1>1, <1>2 DEF Queued

\* A command in hand is one whose caller waits.
LEMMA InHandIsAwaited ==
    ASSUME WorkerInv, current # NoTurn
    PROVE  /\ current \in Awaited
           /\ current \in Turn <=> worker \in AtTurn
BY ConstantsAssumption
   DEF WorkerInv, TypeOK, LoopTypes, Worker, InHand, AtTurn, AtQuery, Awaited

\* The channel of commands.
LEMMA QueuedStep ==
    ASSUME WorkerInv, [Next]_vars
    PROVE  Queued'
<1>1. TypeOK /\ HandedOut
  BY DEF WorkerInv
<1>2. /\ start \in [Turn -> Asked] /\ query \in [Query -> Asked]
      /\ completion \in [Turn -> {"none", "ok", "interrupted", "failed"}]
      /\ current \in Turn \cup Query \cup {NoTurn}
  BY <1>1 DEF TypeOK, CallerTypes, TurnTypes, LoopTypes
<1>3. CASE UNCHANGED <<commands, current, start, completion, query>>
  BY <1>3, QueuedStays DEF Awaited
<1>4. ASSUME NEW t \in Turn, NEW ref, AskStart(t, ref) PROVE Queued'
  <2>1. t \notin Awaited /\ t # NoTurn /\ completion[t] = "none"
    BY <1>1, <1>4, ConstantsAssumption DEF AskStart, Awaited, HandedOut
  <2>2. t # current
    BY <2>1, InHandIsAwaited
  <2>3. Awaited \subseteq Awaited' /\ current' = current
    BY <1>2, <1>4 DEF AskStart, Awaited
  <2>4. CASE Enqueue(t) /\ start' = [start EXCEPT ![t] = "ok"]
    <3>1. t \in Awaited'
      BY <1>2, <1>4, <2>1, <2>4 DEF AskStart, Awaited
    <3>2. QED
      BY <2>1, <2>2, <2>3, <2>4, <3>1, QueuedBySending DEF Enqueue
  <2>5. CASE NoEntry
    BY <2>3, <2>5, QueuedStays DEF NoEntry
  <2>6. QED
    BY <1>4, <2>4, <2>5 DEF AskStart
<1>5. ASSUME NEW q \in Query, NEW s, AskQuery(q, s) PROVE Queued'
  <2>1. q \notin Awaited /\ q # NoTurn
    BY <1>5, ConstantsAssumption DEF AskQuery, Awaited
  <2>2. q # current
    BY <2>1, InHandIsAwaited
  <2>3. Awaited \subseteq Awaited' /\ current' = current
    BY <1>2, <1>5 DEF AskQuery, Awaited, turnVars
  <2>4. CASE Enqueue(q) /\ query' = [query EXCEPT ![q] = "asked"]
    <3>1. q \in Awaited'
      BY <1>2, <2>4 DEF Awaited
    <3>2. QED
      BY <2>1, <2>2, <2>3, <2>4, <3>1, QueuedBySending DEF Enqueue
  <2>5. CASE NoEntry
    BY <2>3, <2>5, QueuedStays DEF NoEntry
  <2>6. QED
    BY <1>5, <2>4, <2>5 DEF AskQuery
<1>6. CASE ConnectFails
  <2>1. commands' = <<>> /\ Len(<<>>) = 0
    BY <1>6 DEF ConnectFails
  <2>2. QED
    BY <2>1 DEF Queued
<1>7. ASSUME NEW t \in Turn, TakeTurn(t) PROVE Queued'
  BY <1>7, QueuedByTaking DEF TakeTurn, Begin, callerVars, Awaited
<1>8. ASSUME NEW q \in Query, AskAgent(q) PROVE Queued'
  BY <1>8, QueuedByTaking DEF AskAgent, callerVars, turnVars, Awaited
<1>9. ASSUME NEW t \in Turn, TakeHopelessTurn(t) PROVE Queued'
  <2>1. Awaited \ {t} \subseteq Awaited'
    BY <1>2, <1>9 DEF TakeHopelessTurn, callerVars, Awaited
  <2>2. current' = NoTurn
    BY <1>9, Taken DEF TakeHopelessTurn
  <2>3. QED
    BY <1>9, <2>1, <2>2, QueuedByTaking DEF TakeHopelessTurn
<1>10. ASSUME NEW q \in Query, TakeQuery(q) PROVE Queued'
  <2>1. Awaited \ {q} \subseteq Awaited'
    BY <1>2, <1>10 DEF TakeQuery, Answer, turnVars, Awaited
  <2>2. current' = NoTurn
    BY <1>10, Taken DEF TakeQuery
  <2>3. QED
    BY <1>10, <2>1, <2>2, QueuedByTaking DEF TakeQuery
<1>11. ASSUME NEW result, End(result), UNCHANGED <<commands, start, query>> PROVE Queued'
  BY <1>2, <1>11, QueuedStays DEF End, Idle, Awaited
<1>12. CASE SessionFails \/ Deadline \/ PromptAnswered \/ PromptFails
  BY <1>11, <1>12 DEF SessionFails, Deadline, PromptAnswered, PromptFails, callerVars
<1>13. CASE Listed \/ HistoryRead
  <2>1. Awaited \ {current} \subseteq Awaited' /\ current' = NoTurn /\ commands' = commands
    BY <1>2, <1>13 DEF Listed, HistoryRead, Answer, Idle, turnVars, Awaited
  <2>2. QED
    BY <2>1, QueuedStays
<1>14. QED
  BY <1>3, <1>4, <1>5, <1>6, <1>7, <1>8, <1>9, <1>10, <1>12, <1>13
     DEF Next, Caller, Work, Answered, AgentStep, Cancel, Connect, SeeCancel, TakeUpdate,
         NewSession, LoadSession, Prompt, Update, Replay, AgentEnds, RequestPermission, Die, vars,
         callerVars, loopVars, turnVars

-----------------------------------------------------------------------------
(* The prompt                                                              *)

\* Before its prompt a turn is neither stopped nor worked on.
LEMMA FreshIsUntouched ==
    ASSUME WorkerInv, NEW t \in Turn, completion[t] = "none", t \notin InPrompt
    PROVE  t \notin told /\ t \notin agentWork
BY DEF WorkerInv, PromptInv

\* The flag and the prompts.
LEMMA PromptStep ==
    ASSUME WorkerInv, [Next]_vars
    PROVE  PromptInv'
<1> USE DEF PromptInv
<1>1. TypeOK /\ PromptInv /\ InHand
  BY DEF WorkerInv
<1>2. /\ completion \in [Turn -> {"none", "ok", "interrupted", "failed"}]
      /\ reply # "none" => worker = "prompting"
      /\ flag \in BOOLEAN /\ told \subseteq Turn /\ agentWork \subseteq Turn
  BY <1>1 DEF TypeOK, CallerTypes, TurnTypes, LoopTypes, AgentTypes
<1>3. CASE UNCHANGED <<worker, current, flag, told, agentWork, reply, completion>>
  BY <1>1, <1>3 DEF InPrompt
<1>4. ASSUME UNCHANGED <<told, agentWork, completion>>, worker # "prompting",
             worker' # "prompting",
             worker' \in {"creating", "loading", "moding"} => ~flag'
      PROVE  PromptInv'
  BY <1>1, <1>4 DEF InPrompt
<1>5. CASE \/ \E t \in Turn, ref \in Known \cup {NoTurn} : AskStart(t, ref)
           \/ \E q \in Query, s \in Known \cup {NoTurn} : AskQuery(q, s)
  <2>1. UNCHANGED <<current, flag, told, agentWork, reply, completion>>
        /\ (worker' = worker \/ (worker = "absent" /\ worker' = "connecting"))
    BY <1>5 DEF AskStart, AskQuery, Enqueue, NoEntry, agentVars, turnVars
  <2>2. QED
    BY <1>3, <1>4, <2>1
<1>6. ASSUME NEW t \in Turn, TakeTurn(t) PROVE PromptInv'
  <2>1. UNCHANGED <<told, agentWork, completion>> /\ flag' = FALSE /\ worker = "idle"
        /\ worker' \in {"creating", "loading", "moding"}
    BY <1>6 DEF TakeTurn, Begin, Take, agentVars
  <2>2. QED
    BY <1>4, <2>1
<1>7. CASE \/ \E announced \in Capability : Connect(announced)
           \/ \E q \in Query : TakeQuery(q) \/ AskAgent(q)
           \/ NewSession \/ LoadSession \/ Listed \/ HistoryRead
  <2>1. UNCHANGED <<told, agentWork, completion, flag>> /\ worker # "prompting"
        /\ worker' # "prompting"
        /\ (worker' \in {"creating", "loading", "moding"} => worker \in {"creating", "loading"})
    BY <1>7 DEF Connect, TakeQuery, AskAgent, Take, NewSession, LoadSession, Listed, HistoryRead,
                Idle, agentVars, turnVars
  <2>2. QED
    BY <1>1, <1>4, <2>1
<1>8. CASE ConnectFails
  <2>1. /\ worker = "connecting" /\ worker' = "exited" /\ UNCHANGED <<told, agentWork>>
        /\ \A t \in Turn : completion[t] = "none"
    BY <1>8 DEF ConnectFails, agentVars, WorkerInv, HandedOut
  <2>2. told = {} /\ agentWork = {}
    BY <1>1, <1>2, <2>1 DEF InPrompt
  <2>3. QED
    BY <2>1, <2>2
<1>9. ASSUME NEW t \in Turn, TakeHopelessTurn(t) PROVE PromptInv'
  <2>1. worker = "idle" /\ t \in Awaited
    BY <1>9, Taken DEF TakeHopelessTurn
  <2>2. t \notin told /\ t \notin agentWork
    BY <2>1, FreshIsUntouched, ConstantsAssumption DEF Awaited, InPrompt
  <2>3. /\ UNCHANGED <<worker, current, told, agentWork>>
        /\ \A u \in Turn : u # t => completion'[u] = completion[u]
    BY <1>2, <1>9 DEF TakeHopelessTurn, agentVars
  <2>4. QED
    BY <1>1, <1>2, <2>1, <2>2, <2>3 DEF InPrompt
<1>10. CASE Prompt
  <2>1. /\ worker = "moding" /\ worker' = "prompting" /\ current \in Turn
        /\ UNCHANGED <<current, flag, told, completion>> /\ reply = "none"
        /\ \/ agentWork' = agentWork \cup {current} /\ reply' = reply
           \/ agentWork' = agentWork
    BY <1>1, <1>2, <1>10 DEF Prompt, InHand, AtTurn, turnVars
  <2>2. ~flag /\ current \notin told /\ current \notin agentWork
    BY <1>1, <2>1, FreshIsUntouched DEF InHand, AtTurn, InPrompt
  <2>3. QED
    BY <1>1, <1>2, <2>1, <2>2 DEF InPrompt
<1>11. CASE SeeCancel
  <2>1. /\ worker = "prompting" /\ flag' = TRUE /\ told' = told \cup {current}
        /\ UNCHANGED <<worker, current, agentWork, reply, completion>>
    BY <1>11 DEF SeeCancel, agentVars, turnVars
  <2>2. InPrompt' = InPrompt /\ current \in InPrompt
    BY <1>1, <2>1 DEF InPrompt, InHand, AtTurn
  <2>3. QED
    BY <1>1, <2>1, <2>2
<1>12. CASE SessionFails
  <2>1. /\ worker \in {"creating", "loading"} /\ worker' = "idle" /\ current \in Turn
        /\ UNCHANGED <<told, agentWork>>
        /\ \A u \in Turn : u # current => completion'[u] = completion[u]
    BY <1>1, <1>2, <1>12 DEF SessionFails, End, Idle, InHand, AtTurn, agentVars
  <2>2. current \notin told /\ current \notin agentWork
    BY <1>1, <2>1, FreshIsUntouched DEF InHand, AtTurn, InPrompt
  <2>3. QED
    BY <1>1, <1>2, <2>1, <2>2 DEF InPrompt
<1>13. CASE Deadline
  BY <1>1, <1>2, <1>13 DEF Deadline, End, Idle, InHand, AtTurn, InPrompt, agentVars
<1>14. CASE PromptAnswered \/ PromptFails
  <2>1. /\ worker = "prompting" /\ worker' = "idle" /\ current \in Turn /\ reply # "none"
        /\ UNCHANGED <<told, agentWork>>
        /\ \A u \in Turn : u # current => completion'[u] = completion[u]
        /\ completion'[current] # "none"
    BY <1>1, <1>2, <1>14 DEF PromptAnswered, PromptFails, End, Idle, InHand, AtTurn, agentVars
  <2>2. current \notin agentWork
    BY <2>1, OnlyPromptsAreWork
  <2>3. QED
    BY <1>1, <1>2, <2>1, <2>2 DEF InPrompt
<1>15. ASSUME NEW t \in Turn, AgentEnds(t) PROVE PromptInv'
  BY <1>1, <1>15 DEF AgentEnds, InPrompt, turnVars
<1>16. CASE Die
  BY <1>1, <1>16 DEF Die, InPrompt, turnVars
<1>17. QED
  BY <1>3, <1>5, <1>6, <1>7, <1>8, <1>9, <1>10, <1>11, <1>12, <1>13, <1>14, <1>15, <1>16
     DEF Next, Caller, Work, Answered, AgentStep, Cancel, TakeUpdate, Update, Replay,
         RequestPermission, vars, agentVars, loopVars, turnVars

\* Every step keeps the invariant of the worker.
LEMMA WorkerStep == WorkerInv /\ [Next]_vars => WorkerInv'
<1> SUFFICES ASSUME WorkerInv, [Next]_vars PROVE WorkerInv'
  OBVIOUS
<1>1. QED
  BY TypesStep, InHandStep, HandedOutStep, QueuedStep, PromptStep DEF WorkerInv

\* So it always holds.
LEMMA WorkerAlways == Spec => []WorkerInv
<1> QED
  BY WorkerStart, WorkerStep, PTL DEF Spec

-----------------------------------------------------------------------------
(* Types, permissions, the contract                                        *)

\* Every variable stays within its type: the worker has a command in hand
\* exactly while it works on one, session/cancel is sent for turns that were
\* stopped, and an answer waits only for a prompt.
THEOREM TypeCorrect == Spec => []TypeOK
<1>1. WorkerInv => TypeOK
  BY DEF WorkerInv
<1>2. QED
  BY <1>1, WorkerAlways, PTL

\* Only request_permission grants or refuses.
LEMMA PermissionAsked ==
    ASSUME WorkerInv, [Next]_vars, NEW t \in Turn, permission[t] = "none",
           permission'[t] # "none"
    PROVE  RequestPermission(t)
<1>1. permission \in [Turn -> {"none", "granted", "cancelled"}]
  BY DEF WorkerInv, TypeOK, AgentTypes
<1>2. UNCHANGED permission \/ (\E u \in Turn : AgentEnds(u) \/ RequestPermission(u)) \/ Die
  BY DEF Next, Caller, Work, Answered, AgentStep, AskStart, AskQuery, Cancel, Connect,
     ConnectFails, TakeTurn, Begin, TakeHopelessTurn, SeeCancel, Deadline, TakeUpdate,
     PromptAnswered, PromptFails, TakeQuery, AskAgent, NewSession, LoadSession, SessionFails,
     Prompt, Listed, HistoryRead, Update, Replay, vars, agentVars
<1>3. QED
  BY <1>1, <1>2 DEF AgentEnds, RequestPermission, Die

\* request_permission goes by a flag that all turns of the worker share, and yet
\* refuses only turns that were stopped, and grants nothing to the turn in hand
\* once its cancel was seen: the flag is that of the turn in hand, and whatever
\* else the agent still works on was stopped before it was given up.
THEOREM PermissionsFollowStops == Spec => PermissionFollowsStop
<1> DEFINE Step == \A t \in Turn : permission[t] = "none" =>
                      /\ permission'[t] = "cancelled" => t \in cancelled
                      /\ permission'[t] = "granted" => ~(t = current /\ t \in told)
<1>1. WorkerInv /\ [Next]_vars => [Step]_vars
  <2> SUFFICES ASSUME WorkerInv, [Next]_vars, NEW t \in Turn, permission[t] = "none",
                      permission'[t] # "none"
               PROVE  /\ permission'[t] = "cancelled" => t \in cancelled
                      /\ permission'[t] = "granted" => ~(t = current /\ t \in told)
    OBVIOUS
  <2>1. /\ t \in agentWork
        /\ permission'[t] = IF flag THEN "cancelled" ELSE "granted"
    BY PermissionAsked DEF RequestPermission, WorkerInv, TypeOK, AgentTypes
  <2>2. told \subseteq cancelled /\ (t \in told \/ (t = current /\ worker = "prompting"))
    BY <2>1 DEF WorkerInv, TypeOK, LoopTypes, PromptInv, InPrompt
  <2>3. t = current => worker = "prompting" /\ (flag <=> t \in told)
    BY <2>1, OnlyPromptsAreWork DEF WorkerInv, PromptInv
  <2>4. QED
    BY <2>1, <2>2, <2>3
<1>2. QED
  BY <1>1, WorkerAlways, PTL DEF Spec, PermissionFollowsStop

\* What the contract sees of a turn.
BarStart == [t \in Turn |-> IF start[t] = "failed" THEN "refused" ELSE start[t]]
BarCompletion == [t \in Turn |-> IF completion[t] \in {"interrupted", "failed"}
                                 THEN "err" ELSE completion[t]]
BarWorking == IF current \in Turn THEN current ELSE NoTurn

\* Every step of the worker, of its callers and of the agent is a step of the
\* contract or leaves what the contract is about alone.
LEMMA ContractStep ==
    ASSUME WorkerInv, [Next]_vars
    PROVE  [Contract!Next]_(Contract!vars)
<1>1. TypeOK /\ InHand /\ HandedOut
  BY DEF WorkerInv
<1>2. /\ start \in [Turn -> Asked]
      /\ completion \in [Turn -> {"none", "ok", "interrupted", "failed"}]
      /\ current \in Turn \cup Query \cup {NoTurn}
      /\ NoTurn \notin Turn
  BY <1>1, ConstantsAssumption DEF TypeOK, CallerTypes, TurnTypes, LoopTypes
<1>3. SUFFICES [Contract!Next]_<<BarStart, BarCompletion, BarWorking>>
  BY DEF Contract!vars, BarStart, BarCompletion, BarWorking
<1>4. CASE UNCHANGED <<start, completion, BarWorking>>
  BY <1>4 DEF BarStart, BarCompletion
<1>5. ASSUME NEW t \in Turn, NEW ref, AskStart(t, ref) PROVE Contract!Next
  <2>1. /\ BarWorking' = BarWorking /\ BarCompletion' = BarCompletion /\ BarStart[t] = "none"
    BY <1>5 DEF AskStart, BarStart, BarWorking, BarCompletion
  <2>2. \/ BarStart' = [BarStart EXCEPT ![t] = "ok"]
        \/ BarStart' = [BarStart EXCEPT ![t] = "refused"]
    BY <1>2, <1>5 DEF AskStart, BarStart
  <2>3. Contract!Accept(t) \/ Contract!Refuse(t)
    BY <2>1, <2>2 DEF Contract!Accept, Contract!Refuse, BarStart, BarWorking, BarCompletion
  <2>4. QED
    BY <2>3 DEF Contract!Next
<1>6. ASSUME NEW t \in Turn, TakeTurn(t) PROVE Contract!Next
  <2>1. start[t] = "ok" /\ completion[t] = "none" /\ current = NoTurn
    BY <1>6, Taken, ConstantsAssumption DEF TakeTurn, Begin, Awaited
  <2>2. UNCHANGED <<start, completion>> /\ current' = t
    BY <1>6 DEF TakeTurn, Begin, callerVars
  <2>3. Contract!Take(t)
    BY <1>2, <2>1, <2>2 DEF Contract!Take, Contract!Open
  <2>4. QED
    BY <2>3 DEF Contract!Next
<1>7. ASSUME NEW t \in Turn, TakeHopelessTurn(t) PROVE Contract!Next
  <2>1. start[t] = "ok" /\ completion[t] = "none" /\ current = NoTurn
    BY <1>7, Taken, ConstantsAssumption DEF TakeHopelessTurn, Awaited
  <2>2. /\ UNCHANGED <<start, current>> /\ completion' = [completion EXCEPT ![t] = "failed"]
    BY <1>7 DEF TakeHopelessTurn, callerVars
  <2> DEFINE ended == {t}
  <2>3. /\ ended \in SUBSET {u \in Turn : Contract!Open(u)}
        /\ BarCompletion' = [u \in Turn |-> IF u \in ended THEN "err" ELSE BarCompletion[u]]
    BY <1>2, <2>1, <2>2 DEF Contract!Open, BarCompletion
  <2>4. /\ BarWorking = NoTurn /\ BarWorking' = NoTurn
        /\ BarStart' = [u \in Turn |-> IF BarStart[u] = "asked" THEN "refused" ELSE BarStart[u]]
    BY <1>1, <1>2, <2>1, <2>2 DEF HandedOut, BarWorking, BarStart
  <2>5. Contract!Collapse
    BY <1>2, <2>3, <2>4 DEF Contract!Collapse, BarStart, BarWorking, BarCompletion
  <2>6. QED
    BY <2>5 DEF Contract!Next
<1>8. CASE ConnectFails
  <2>1. /\ worker = "connecting" /\ UNCHANGED <<start, current>> /\ current = NoTurn
        /\ completion' = [t \in Turn |-> IF start[t] = "ok" THEN "failed" ELSE completion[t]]
    BY <1>1, <1>8 DEF ConnectFails, TypeOK, LoopTypes
  <2> DEFINE ended == {u \in Turn : start[u] = "ok"}
  <2>2. /\ ended \in SUBSET {u \in Turn : Contract!Open(u)}
        /\ BarCompletion' = [u \in Turn |-> IF u \in ended THEN "err" ELSE BarCompletion[u]]
    BY <1>1, <1>2, <2>1 DEF HandedOut, Contract!Open, BarCompletion
  <2>3. /\ BarWorking = NoTurn /\ BarWorking' = NoTurn
        /\ BarStart' = [u \in Turn |-> IF BarStart[u] = "asked" THEN "refused" ELSE BarStart[u]]
    BY <1>1, <1>2, <2>1 DEF HandedOut, BarWorking, BarStart
  <2>4. Contract!Collapse
    BY <1>2, <2>2, <2>3 DEF Contract!Collapse, BarStart, BarWorking, BarCompletion
  <2>5. QED
    BY <2>4 DEF Contract!Next
<1>9. ASSUME NEW result \in {"ok", "interrupted", "failed"}, worker \in AtTurn, End(result),
             UNCHANGED start
      PROVE  Contract!Next
  <2>1. PICK t \in Turn : t = current /\ start[t] = "ok" /\ completion[t] = "none"
    BY <1>1, <1>9 DEF InHand
  <2>2. completion' = [completion EXCEPT ![t] = result] /\ current' = NoTurn
    BY <1>9, <2>1 DEF End, Idle
  <2>3. PICK seen \in {"ok", "err"} : BarCompletion' = [BarCompletion EXCEPT ![t] = seen]
    <3>1. CASE result = "ok"
      BY <1>2, <2>1, <2>2, <3>1 DEF BarCompletion
    <3>2. CASE result # "ok"
      BY <1>2, <1>9, <2>1, <2>2, <3>2 DEF BarCompletion
    <3>3. QED
      BY <3>1, <3>2
  <2>4. Contract!Complete(t)
    BY <1>2, <1>9, <2>1, <2>2, <2>3 DEF Contract!Complete, Contract!Open, BarCompletion
  <2>5. QED
    BY <2>4 DEF Contract!Next
<1>10. CASE SessionFails \/ Deadline \/ PromptAnswered \/ PromptFails
  BY <1>9, <1>10 DEF SessionFails, Deadline, PromptAnswered, PromptFails, callerVars, AtTurn
<1>11. CASE \/ \E q \in Query : TakeQuery(q) \/ AskAgent(q)
            \/ Listed \/ HistoryRead
  <2>1. UNCHANGED <<start, completion>> /\ current \notin Turn /\ current' \notin Turn
    BY <1>1, <1>2, <1>11, ConstantsAssumption
       DEF TakeQuery, AskAgent, Take, Listed, HistoryRead, Idle, InHand, AtQuery, TypeOK,
           LoopTypes, callerVars, turnVars
  <2>2. QED
    BY <1>4, <2>1 DEF BarWorking
<1>12. CASE UNCHANGED <<start, completion, current>>
  BY <1>4, <1>12 DEF BarWorking
<1>13. QED
  BY <1>5, <1>6, <1>7, <1>8, <1>10, <1>11, <1>12
     DEF Next, Caller, Work, Answered, AgentStep, AskQuery, Cancel, Connect, NewSession,
         LoadSession, Prompt, SeeCancel, TakeUpdate, Update, Replay, AgentEnds, RequestPermission,
         Die, vars, callerVars, loopVars, turnVars

\* The worker keeps the contract of AgentRuntime: start_turn is answered once,
\* one turn is in hand at a time, and a turn that was handed out is completed at
\* most once, in its own time or with the worker that never came up.
THEOREM WorkerKeepsContract == Spec => KeepsContract
<1>1. Init => Contract!Init
  BY ConstantsAssumption DEF Init, Contract!Init
<1>2. QED
  BY <1>1, ContractStep, WorkerAlways, PTL DEF Spec, KeepsContract, Contract!Spec

-----------------------------------------------------------------------------
(* Whose updates they are                                                  *)

\* At the start there are none.
LEMMA UpdatesStart == Init => UpdatesInv
<1> SUFFICES ASSUME Init PROVE UpdatesInv
  OBVIOUS
<1>1. ApartInv
  BY DEF Init, ApartInv
<1>2. CountInv
  BY ConstantsAssumption DEF Init, CountInv, Fresh, InPrompt, Origin
<1>3. QED
  BY <1>1, <1>2 DEF UpdatesInv

\* What was given up stays given up.
LEMMA AstrayGrows ==
    ASSUME [Next]_vars
    PROVE  astray \subseteq astray'
BY DEF Next, Caller, Work, Answered, AgentStep, AskStart, AskQuery, Cancel, Connect, ConnectFails,
   TakeTurn, Begin, TakeHopelessTurn, SeeCancel, Deadline, TakeUpdate, PromptAnswered, PromptFails,
   TakeQuery, AskAgent, NewSession, LoadSession, SessionFails, Prompt, Listed, HistoryRead, Update,
   Replay, AgentEnds, RequestPermission, Die, vars, turnVars

\* While nothing is given up, updates stay apart.
LEMMA ApartStep ==
    ASSUME WorkerInv, ApartInv, [Next]_vars
    PROVE  ApartInv'
<1> SUFFICES ASSUME astray' = {} PROVE ApartInv'
  BY DEF ApartInv
<1>1. /\ astray = {}
      /\ agentWork \subseteq InPrompt
      /\ \A i \in DOMAIN updates : updates[i] \in Listening
      /\ \A t \in Turn : \A i \in DOMAIN heard[t] : heard[t][i] = t
      /\ \A s \in Session : history[s] \subseteq {s}
  BY AstrayGrows DEF ApartInv
<1>2. TypeOK /\ InHand
  BY DEF WorkerInv
<1>3. /\ updates \in Seq(Origin) /\ heard \in [Turn -> Seq(Origin)]
      /\ history \in [Session -> SUBSET Origin]
  BY <1>2 DEF TypeOK, TurnTypes, SessionTypes
<1>4. ASSUME agentWork' \subseteq agentWork, UNCHANGED <<updates, heard, history>>,
             InPrompt \subseteq InPrompt', Listening \subseteq Listening'
      PROVE  ApartInv'
  BY <1>1, <1>4 DEF ApartInv
<1>5. CASE UNCHANGED <<agentWork, updates, heard, history, worker, current, session, target>>
  BY <1>4, <1>5 DEF InPrompt, Listening
<1>6. ASSUME NEW t \in Turn, NEW ref, AskStart(t, ref) PROVE ApartInv'
  <2>1. worker = "loading" => session'[current] = session[current]
    BY <1>2, <1>6 DEF AskStart, InHand, AtTurn, TypeOK, TurnTypes
  <2>2. /\ UNCHANGED <<agentWork, updates, heard, history, current, target>>
        /\ worker' = worker \/ (worker = "absent" /\ worker' = "connecting")
    BY <1>6 DEF AskStart, Enqueue, NoEntry, sessionVars, agentVars
  <2>3. InPrompt \subseteq InPrompt' /\ Listening \subseteq Listening'
    BY <2>1, <2>2 DEF InPrompt, Listening
  <2>4. QED
    BY <1>4, <2>2, <2>3
<1>7. ASSUME NEW q \in Query, NEW s, AskQuery(q, s) PROVE ApartInv'
  <2>1. worker = "reading" => target'[current] = target[current]
    BY <1>2, <1>7 DEF AskQuery, InHand, AtQuery, TypeOK, CallerTypes
  <2>2. /\ UNCHANGED <<agentWork, updates, heard, history, current, session>>
        /\ worker' = worker \/ (worker = "absent" /\ worker' = "connecting")
    BY <1>7 DEF AskQuery, Enqueue, NoEntry, sessionVars, agentVars, turnVars
  <2>3. InPrompt \subseteq InPrompt' /\ Listening \subseteq Listening'
    BY <2>1, <2>2 DEF InPrompt, Listening
  <2>4. QED
    BY <1>4, <2>2, <2>3
<1>8. CASE \/ \E announced \in Capability : Connect(announced)
           \/ ConnectFails
           \/ \E t \in Turn : TakeTurn(t) \/ TakeHopelessTurn(t)
           \/ \E q \in Query : TakeQuery(q) \/ AskAgent(q)
           \/ NewSession \/ Listed
  <2>1. /\ UNCHANGED <<agentWork, updates, heard, history>>
        /\ worker \notin {"prompting", "loading", "reading"}
    BY <1>8 DEF Connect, ConnectFails, TakeTurn, Begin, TakeHopelessTurn, Take, TakeQuery, AskAgent,
                NewSession, Listed, sessionVars, agentVars, turnVars
  <2>2. QED
    BY <1>4, <2>1 DEF InPrompt, Listening
<1>9. ASSUME NEW s \in Session, Capture(s), Listening = {s}, UNCHANGED <<agentWork, heard>>,
             worker # "prompting"
      PROVE  ApartInv'
  <2>1. \A q \in Session : history'[q] \subseteq {q}
    BY <1>1, <1>3, <1>9 DEF Capture
  <2>2. updates' = <<>> /\ agentWork' = {}
    BY <1>1, <1>9 DEF Capture, InPrompt
  <2>3. QED
    BY <1>1, <1>9, <2>1, <2>2 DEF ApartInv
<1>10. CASE LoadSession
  <2>1. session[current] \in Session /\ Listening = {session[current]} /\ worker = "loading"
    BY <1>2, <1>10 DEF LoadSession, InHand, Listening
  <2>2. QED
    BY <1>9, <1>10, <2>1 DEF LoadSession, agentVars, turnVars
<1>11. CASE HistoryRead
  <2>1. target[current] \in Session /\ Listening = {target[current]} /\ worker = "reading"
    BY <1>2, <1>11 DEF HistoryRead, InHand, Listening
  <2>2. Capture(target[current])
    BY <1>11 DEF HistoryRead
  <2>3. QED
    BY <1>9, <1>11, <2>1, <2>2 DEF HistoryRead, agentVars
<1>12. CASE SessionFails
  <2>1. worker = "creating" /\ UNCHANGED <<agentWork, updates, heard, history>>
    BY <1>12 DEF SessionFails, sessionVars, agentVars
  <2>2. QED
    BY <1>4, <2>1 DEF InPrompt, Listening
<1>13. CASE Prompt
  <2>1. /\ worker = "moding" /\ worker' = "prompting" /\ current' = current /\ current \in Turn
        /\ UNCHANGED <<updates, heard, history>>
        /\ agentWork' \subseteq agentWork \cup {current}
    BY <1>2, <1>13 DEF Prompt, InHand, AtTurn, turnVars
  <2>2. agentWork' \subseteq InPrompt' /\ \A i \in DOMAIN updates : FALSE
    BY <1>1, <2>1 DEF InPrompt, Listening
  <2>3. QED
    BY <1>1, <2>1, <2>2 DEF ApartInv
<1>14. CASE Deadline \/ PromptFails
  BY <1>14 DEF Deadline, PromptFails
<1>15. CASE TakeUpdate
  <2>1. /\ worker = "prompting" /\ current \in Turn /\ updates # <<>>
        /\ heard' = [heard EXCEPT ![current] = Append(@, Head(updates))]
        /\ updates' = Tail(updates)
        /\ UNCHANGED <<agentWork, history, worker, current, session, target>>
    BY <1>2, <1>15 DEF TakeUpdate, InHand, AtTurn, callerVars, sessionVars, agentVars, loopVars
  <2>2. Listening = {current} /\ Listening' = {current} /\ InPrompt' = InPrompt
    BY <2>1 DEF Listening, InPrompt
  <2>3. /\ Head(updates) = updates[1] /\ 1 \in DOMAIN updates /\ Head(updates) \in Origin
        /\ \A i \in DOMAIN Tail(updates) : i + 1 \in DOMAIN updates /\ Tail(updates)[i] = updates[i + 1]
    <3>1. Len(updates) \in Nat \ {0} /\ DOMAIN updates = 1 .. Len(updates)
      BY <1>3, <2>1, Received
    <3>2. QED
      BY <1>3, <2>1, <3>1, Received
  <2>4. Head(updates) = current /\ \A i \in DOMAIN updates' : updates'[i] \in Listening'
    BY <1>1, <2>1, <2>2, <2>3
  <2>5. \A i \in DOMAIN Append(heard[current], current) : Append(heard[current], current)[i] = current
    <3>1. heard[current] \in Seq(Origin) /\ current \in Origin
      BY <1>3, <2>1 DEF Origin
    <3>2. QED
      BY <1>1, <2>1, <3>1, Sent
  <2>6. \A t \in Turn : \A i \in DOMAIN heard'[t] : heard'[t][i] = t
    <3>1. /\ heard'[current] = Append(heard[current], current)
          /\ \A t \in Turn : t # current => heard'[t] = heard[t]
      BY <1>3, <2>1, <2>4
    <3>2. QED
      BY <1>1, <2>5, <3>1
  <2>7. QED
    BY <1>1, <2>1, <2>2, <2>4, <2>6 DEF ApartInv
<1>16. CASE PromptAnswered
  <2>1. /\ worker = "prompting" /\ current \in Turn /\ reply # "none"
        /\ heard' = [heard EXCEPT ![current] = @ \o updates]
        /\ updates' = <<>>
        /\ UNCHANGED <<agentWork, history>>
    BY <1>2, <1>16 DEF PromptAnswered, InHand, AtTurn, sessionVars, agentVars
  <2>2. agentWork' = {}
    <3>1. current \notin agentWork
      BY <2>1, OnlyPromptsAreWork
    <3>2. QED
      BY <1>1, <2>1, <3>1 DEF InPrompt
  <2>3. \A i \in DOMAIN updates : updates[i] = current
    BY <1>1, <2>1 DEF Listening
  <2>4. \A i \in DOMAIN (heard[current] \o updates) : (heard[current] \o updates)[i] = current
    <3> DEFINE all == heard[current] \o updates
               old == heard[current]
    <3>1. /\ Len(old) \in Nat /\ Len(updates) \in Nat
          /\ DOMAIN old = 1 .. Len(old) /\ DOMAIN updates = 1 .. Len(updates)
          /\ DOMAIN all = 1 .. Len(old) + Len(updates)
          /\ \A i \in 1 .. Len(old) : all[i] = old[i]
          /\ \A i \in 1 .. Len(updates) : all[Len(old) + i] = updates[i]
      BY <1>3, <2>1, Drained
    <3> HIDE DEF all
    <3>2. SUFFICES ASSUME NEW i \in DOMAIN all PROVE all[i] = current
      BY DEF all
    <3>3. CASE i \in 1 .. Len(old)
      BY <1>1, <2>1, <3>1, <3>3
    <3>4. CASE i \notin 1 .. Len(old)
      <4>1. i - Len(old) \in 1 .. Len(updates) /\ Len(old) + (i - Len(old)) = i
        BY <3>1, <3>4
      <4>2. QED
        BY <2>3, <3>1, <4>1
    <3>5. QED
      BY <3>3, <3>4
  <2>5. \A t \in Turn : \A i \in DOMAIN heard'[t] : heard'[t][i] = t
    <3>1. /\ heard'[current] = heard[current] \o updates
          /\ \A t \in Turn : t # current => heard'[t] = heard[t]
      BY <1>3, <2>1
    <3>2. QED
      BY <1>1, <2>4, <3>1
  <2>6. QED
    BY <1>1, <2>1, <2>2, <2>5 DEF ApartInv
<1>17. ASSUME NEW o \in Listening, o \in Origin, updates' = Append(updates, o),
              UNCHANGED <<agentWork, heard, history, worker, current, session, target>>
       PROVE  ApartInv'
  <2>1. InPrompt' = InPrompt /\ Listening' = Listening
    BY <1>17 DEF InPrompt, Listening
  <2>2. \A i \in DOMAIN updates' : updates'[i] \in Listening
    BY <1>1, <1>3, <1>17, Sent
  <2>3. QED
    BY <1>1, <1>17, <2>1, <2>2 DEF ApartInv
<1>18. ASSUME NEW t \in Turn, Update(t) PROVE ApartInv'
  <2>1. t \in Listening /\ t \in Origin
    BY <1>1, <1>18 DEF Update, InPrompt, Listening, Origin
  <2>2. QED
    BY <1>17, <1>18, <2>1 DEF Update, Tell, callerVars, sessionVars, loopVars, turnVars
<1>19. CASE Replay
  <2>1. PICK s \in Old : /\ s = IF worker = "loading" THEN session[current]
                                ELSE IF worker = "reading" THEN target[current] ELSE NoTurn
                         /\ Tell(s)
    BY <1>19 DEF Replay
  <2>2. s \in Listening /\ s \in Origin
    BY <2>1, ConstantsAssumption DEF Listening, Origin
  <2>3. QED
    BY <1>17, <1>19, <2>1, <2>2 DEF Replay, Tell, callerVars, sessionVars, loopVars, turnVars
<1>20. CASE Die \/ (\E t \in Turn : AgentEnds(t)) \/ SeeCancel
  <2>1. /\ agentWork' \subseteq agentWork
        /\ UNCHANGED <<updates, heard, history, worker, current, session, target>>
    BY <1>20 DEF Die, AgentEnds, SeeCancel, callerVars, sessionVars, agentVars, turnVars
  <2>2. QED
    BY <1>4, <2>1 DEF InPrompt, Listening
<1>21. QED
  BY <1>5, <1>6, <1>7, <1>8, <1>10, <1>11, <1>12, <1>13, <1>14, <1>15, <1>16, <1>18, <1>19, <1>20
     DEF Next, Caller, Work, Answered, AgentStep, Cancel, RequestPermission, vars, callerVars,
         sessionVars, agentVars, loopVars, turnVars

\* The updates of a turn are passed on or in the channel.
LEMMA CountStep ==
    ASSUME WorkerInv, CountInv, [Next]_vars
    PROVE  CountInv'
<1>1. TypeOK /\ InHand
  BY DEF WorkerInv
<1>2. /\ updates \in Seq(Origin) /\ heard \in [Turn -> Seq(Origin)] /\ sent \in [Origin -> Nat]
      /\ completion \in [Turn -> {"none", "ok", "interrupted", "failed"}]
      /\ Turn \subseteq Origin
  BY <1>1 DEF TypeOK, TurnTypes, AgentTypes, Origin
<1>3. /\ \A t \in Fresh : /\ sent[t] = 0 /\ heard[t] = <<>>
                          /\ \A i \in DOMAIN updates : updates[i] # t
      /\ \A t \in InPrompt : sent[t] = Cardinality(UpdatesOf(t, heard[t]))
                                         + Cardinality(UpdatesOf(t, updates))
      /\ \A t \in Turn : completion[t] = "ok" => sent[t] = Cardinality(UpdatesOf(t, heard[t]))
  BY DEF CountInv
<1>4. ASSUME UNCHANGED <<sent, heard, updates>>, Fresh' \subseteq Fresh, InPrompt' \subseteq InPrompt,
             \A t \in Turn : completion'[t] = "ok" => completion[t] = "ok"
      PROVE  CountInv'
  BY <1>3, <1>4 DEF CountInv, UpdatesOf
<1>5. ASSUME UNCHANGED <<sent, heard, updates>>, InPrompt' = InPrompt, UNCHANGED completion
      PROVE  CountInv'
  BY <1>4, <1>5 DEF Fresh
<1>6. CASE UNCHANGED <<sent, heard, updates, completion, worker, current>>
  BY <1>5, <1>6 DEF InPrompt
<1>7. CASE \/ \E t \in Turn, ref \in Known \cup {NoTurn} : AskStart(t, ref)
           \/ \E q \in Query, s \in Known \cup {NoTurn} : AskQuery(q, s)
  <2>1. /\ UNCHANGED <<sent, heard, updates, completion, current>>
        /\ worker' = worker \/ (worker = "absent" /\ worker' = "connecting")
    BY <1>7 DEF AskStart, AskQuery, Enqueue, NoEntry, agentVars, turnVars
  <2>2. QED
    BY <1>5, <2>1 DEF InPrompt
<1>8. CASE \/ \E announced \in Capability : Connect(announced)
           \/ \E t \in Turn : TakeTurn(t)
           \/ \E q \in Query : TakeQuery(q) \/ AskAgent(q)
           \/ NewSession \/ Listed
  <2>1. UNCHANGED <<sent, heard, updates, completion>> /\ worker # "prompting"
        /\ worker' # "prompting"
    BY <1>8 DEF Connect, TakeTurn, Begin, Take, TakeQuery, AskAgent, NewSession, Listed, Idle,
                agentVars, turnVars
  <2>2. QED
    BY <1>5, <2>1 DEF InPrompt
<1>9. CASE ConnectFails
  BY <1>2, <1>4, <1>9 DEF ConnectFails, Fresh, InPrompt, agentVars
<1>10. ASSUME NEW t \in Turn, TakeHopelessTurn(t) PROVE CountInv'
  <2>1. /\ UNCHANGED <<sent, heard, updates, worker, current>>
        /\ completion' = [completion EXCEPT ![t] = "failed"]
    BY <1>10 DEF TakeHopelessTurn, agentVars
  <2>2. InPrompt' = InPrompt
    BY <2>1 DEF InPrompt
  <2>3. Fresh' \subseteq Fresh
    BY <1>2, <2>1, <2>2 DEF Fresh
  <2>4. QED
    BY <1>2, <1>4, <2>1, <2>2, <2>3
<1>11. ASSUME NEW result \in {"interrupted", "failed"}, End(result), worker \in AtTurn,
              UNCHANGED <<sent, heard, updates>>
       PROVE  CountInv'
  <2>1. /\ completion' = [completion EXCEPT ![current] = result]
        /\ current \in Turn /\ InPrompt' = {}
    BY <1>1, <1>11 DEF End, Idle, InHand, InPrompt
  <2>2. Fresh' \subseteq Fresh
    BY <1>2, <2>1 DEF Fresh, InPrompt
  <2>3. QED
    BY <1>2, <1>4, <1>11, <2>1, <2>2
<1>12. CASE SessionFails \/ Deadline \/ PromptFails
  BY <1>11, <1>12 DEF SessionFails, Deadline, PromptFails, AtTurn, agentVars
<1>13. CASE LoadSession \/ HistoryRead
  <2>1. /\ UNCHANGED <<sent, heard, completion>> /\ worker # "prompting" /\ worker' # "prompting"
        /\ updates' = <<>> \/ updates' = updates
    BY <1>13 DEF LoadSession, HistoryRead, Capture, Idle, agentVars, turnVars
  <2>2. InPrompt = {} /\ InPrompt' = {} /\ Fresh' = Fresh
    BY <2>1 DEF InPrompt, Fresh
  <2>3. QED
    BY <1>3, <2>1, <2>2 DEF CountInv, UpdatesOf
<1>14. CASE Prompt
  <2>1. PICK t \in Turn : t = current /\ completion[t] = "none"
    BY <1>1, <1>14 DEF Prompt, InHand, AtTurn
  <2>2. /\ UNCHANGED <<sent, heard, updates, completion>>
        /\ InPrompt = {} /\ InPrompt' = {t}
    BY <1>14, <2>1 DEF Prompt, InPrompt, turnVars
  <2>3. t \in Fresh /\ Fresh' \subseteq Fresh
    BY <2>1, <2>2 DEF Fresh
  <2>4. /\ sent[t] = 0
        /\ Cardinality(UpdatesOf(t, heard[t])) = 0 /\ Cardinality(UpdatesOf(t, updates)) = 0
    BY <1>3, <2>3, NoUpdates
  <2>5. QED
    BY <1>3, <2>2, <2>3, <2>4 DEF CountInv, UpdatesOf
<1>15. CASE TakeUpdate
  <2>1. PICK t \in Turn : t = current /\ completion[t] = "none"
    BY <1>1, <1>15 DEF TakeUpdate, InHand, AtTurn
  <2>2. /\ worker = "prompting" /\ updates # <<>>
        /\ heard' = [heard EXCEPT ![t] = Append(heard[t], Head(updates))]
        /\ updates' = Tail(updates)
        /\ UNCHANGED <<sent, completion, worker, current>>
    BY <1>15, <2>1 DEF TakeUpdate, agentVars, loopVars
  <2>3. InPrompt = {t} /\ InPrompt' = {t} /\ Fresh' = Fresh /\ t \notin Fresh
    BY <2>1, <2>2 DEF InPrompt, Fresh
  <2>4. /\ Head(updates) \in Origin /\ Tail(updates) \in Seq(Origin)
        /\ heard'[t] = Append(heard[t], Head(updates)) /\ heard[t] \in Seq(Origin)
        /\ \A u \in Turn : u # t => heard'[u] = heard[u]
    BY <1>2, <2>2, Received
  <2>5. \A i \in DOMAIN Tail(updates) : \E j \in DOMAIN updates : Tail(updates)[i] = updates[j]
    <3>1. /\ DOMAIN updates = 1 .. Len(updates)
          /\ DOMAIN Tail(updates) = 1 .. Len(updates) - 1
          /\ \A i \in 1 .. Len(updates) - 1 : /\ i + 1 \in 1 .. Len(updates)
                                             /\ Tail(updates)[i] = updates[i + 1]
      BY <1>2, <2>2, Received
    <3>2. QED
      BY <3>1
  <2>6. sent[t] = Cardinality(UpdatesOf(t, heard'[t])) + Cardinality(UpdatesOf(t, updates'))
    <3>1. /\ Cardinality(UpdatesOf(t, heard[t])) \in Nat
          /\ Cardinality(UpdatesOf(t, Tail(updates))) \in Nat
      BY <2>4, UpdatesAreFinite
    <3>2. Cardinality(UpdatesOf(t, heard'[t])) =
             IF Head(updates) = t THEN Cardinality(UpdatesOf(t, heard[t])) + 1
                                  ELSE Cardinality(UpdatesOf(t, heard[t]))
      BY <2>4, UpdatesAfterSending
    <3>3. Cardinality(UpdatesOf(t, updates)) =
             IF Head(updates) = t THEN Cardinality(UpdatesOf(t, Tail(updates))) + 1
                                  ELSE Cardinality(UpdatesOf(t, Tail(updates)))
      BY <1>2, <2>2, UpdatesAfterReceiving
    <3>4. \A h, c \in Nat : h + (c + 1) = (h + 1) + c
      OBVIOUS
    <3>5. sent[t] = Cardinality(UpdatesOf(t, heard[t])) + Cardinality(UpdatesOf(t, updates))
      BY <1>3, <2>3
    <3>6. CASE Head(updates) = t
      <4>1. Cardinality(UpdatesOf(t, heard'[t])) = Cardinality(UpdatesOf(t, heard[t])) + 1
        BY <3>2, <3>6
      <4>2. Cardinality(UpdatesOf(t, updates)) = Cardinality(UpdatesOf(t, updates')) + 1
        BY <2>2, <3>3, <3>6
      <4>3. Cardinality(UpdatesOf(t, updates')) \in Nat
        BY <2>2, <3>1
      <4>4. QED
        BY <3>1, <3>4, <3>5, <4>1, <4>2, <4>3, Zenon
    <3>7. CASE Head(updates) # t
      BY <2>2, <3>2, <3>3, <3>5, <3>7, Zenon
    <3>8. QED
      BY <3>6, <3>7
  <2>7. \A u \in Fresh : /\ sent[u] = 0 /\ heard'[u] = <<>>
                         /\ \A i \in DOMAIN updates' : updates'[i] # u
    BY <1>3, <2>2, <2>3, <2>4, <2>5 DEF Fresh
  <2>8. \A u \in Turn : completion[u] = "ok" => sent[u] = Cardinality(UpdatesOf(u, heard'[u]))
    BY <1>3, <2>1, <2>4
  <2>9. QED
    <3>1. \A u \in InPrompt' : sent'[u] = Cardinality(UpdatesOf(u, heard'[u]))
                                           + Cardinality(UpdatesOf(u, updates'))
      BY <2>2, <2>3, <2>6
    <3>2. /\ \A u \in Fresh' : /\ sent'[u] = 0 /\ heard'[u] = <<>>
                              /\ \A i \in DOMAIN updates' : updates'[i] # u
          /\ \A u \in Turn : completion'[u] = "ok"
                            => sent'[u] = Cardinality(UpdatesOf(u, heard'[u]))
      BY <2>2, <2>3, <2>7, <2>8
    <3>3. QED
      BY <3>1, <3>2, Zenon DEF CountInv, UpdatesOf
<1>16. CASE PromptAnswered
  <2>1. PICK t \in Turn : t = current /\ completion[t] = "none"
    BY <1>1, <1>16 DEF PromptAnswered, InHand, AtTurn
  <2>2. /\ worker = "prompting" /\ worker' = "idle"
        /\ heard' = [heard EXCEPT ![t] = heard[t] \o updates]
        /\ updates' = <<>> /\ UNCHANGED sent
        /\ \E result \in {"ok", "interrupted"} : completion' = [completion EXCEPT ![t] = result]
    BY <1>16, <2>1 DEF PromptAnswered, End, Idle, agentVars
  <2>3. InPrompt = {t} /\ InPrompt' = {} /\ Fresh' \subseteq Fresh /\ t \notin Fresh
    BY <1>2, <2>1, <2>2 DEF InPrompt, Fresh
  <2>4. /\ heard'[t] = heard[t] \o updates /\ heard[t] \in Seq(Origin)
        /\ \A u \in Turn : u # t => heard'[u] = heard[u] /\ completion'[u] = completion[u]
    BY <1>2, <2>2
  <2>5. sent[t] = Cardinality(UpdatesOf(t, heard'[t]))
    <3>1. Cardinality(UpdatesOf(t, heard'[t])) =
             Cardinality(UpdatesOf(t, heard[t])) + Cardinality(UpdatesOf(t, updates))
      BY <1>2, <2>4, UpdatesAfterDraining
    <3>2. QED
      BY <1>3, <2>3, <3>1
  <2>6. \A u \in Fresh' : sent[u] = 0 /\ heard'[u] = <<>>
    BY <1>3, <2>3, <2>4 DEF Fresh
  <2>7. \A u \in Turn : completion'[u] = "ok" => sent[u] = Cardinality(UpdatesOf(u, heard'[u]))
    BY <1>3, <2>4, <2>5
  <2>8. QED
    <3>1. /\ \A u \in Fresh' : /\ sent'[u] = 0 /\ heard'[u] = <<>>
                              /\ \A i \in DOMAIN updates' : updates'[i] # u
          /\ \A u \in Turn : completion'[u] = "ok"
                            => sent'[u] = Cardinality(UpdatesOf(u, heard'[u]))
          /\ \A u \in InPrompt' : FALSE
      BY <2>2, <2>3, <2>6, <2>7
    <3>2. QED
      BY <3>1, Zenon DEF CountInv, UpdatesOf
<1>17. ASSUME NEW o \in Origin, o \notin Fresh, o \in Turn => completion[o] # "ok", Tell(o),
              UNCHANGED <<heard, completion, worker, current>>
       PROVE  CountInv'
  <2>1. /\ updates' = Append(updates, o)
        /\ \A p \in Origin : sent'[p] = IF p = o THEN sent[p] + 1 ELSE sent[p]
    BY <1>2, <1>17 DEF Tell
  <2>2. InPrompt' = InPrompt /\ Fresh' = Fresh
    BY <1>17 DEF InPrompt, Fresh
  <2>3. \A t \in Fresh : /\ sent'[t] = 0 /\ heard[t] = <<>>
                         /\ \A i \in DOMAIN updates' : updates'[i] # t
    BY <1>2, <1>3, <1>17, <2>1, Sent DEF Fresh
  <2>4. ASSUME NEW t \in InPrompt
        PROVE  sent'[t] = Cardinality(UpdatesOf(t, heard[t])) + Cardinality(UpdatesOf(t, updates'))
    <3>1. t \in Turn /\ t \in Origin
      BY <1>2 DEF InPrompt
    <3>2. /\ Cardinality(UpdatesOf(t, heard[t])) \in Nat
          /\ Cardinality(UpdatesOf(t, updates)) \in Nat
      BY <1>2, <3>1, UpdatesAreFinite
    <3>3. Cardinality(UpdatesOf(t, updates')) =
             IF o = t THEN Cardinality(UpdatesOf(t, updates)) + 1
                      ELSE Cardinality(UpdatesOf(t, updates))
      BY <1>2, <2>1, UpdatesAfterSending
    <3>4. sent[t] = Cardinality(UpdatesOf(t, heard[t])) + Cardinality(UpdatesOf(t, updates))
      BY <1>3
    <3>5. \A h, c \in Nat : (h + c) + 1 = h + (c + 1)
      OBVIOUS
    <3>6. CASE o = t
      <4>1. sent'[t] = sent[t] + 1
        BY <2>1, <3>1, <3>6
      <4>2. QED
        BY <3>2, <3>3, <3>4, <3>5, <3>6, <4>1, Zenon
    <3>7. CASE o # t
      BY <2>1, <3>1, <3>3, <3>4, <3>7
    <3>8. QED
      BY <3>6, <3>7
  <2>5. \A t \in Turn : completion[t] = "ok" => sent'[t] = Cardinality(UpdatesOf(t, heard[t]))
    BY <1>2, <1>3, <1>17, <2>1
  <2>6. QED
    BY <1>17, <2>2, <2>3, <2>4, <2>5 DEF CountInv, UpdatesOf
<1>18. ASSUME NEW t \in Turn, Update(t) PROVE CountInv'
  <2>1. t \in InPrompt \/ completion[t] = "interrupted"
    BY <1>18 DEF Update, WorkerInv, PromptInv
  <2>2. t \in InPrompt => completion[t] = "none"
    BY <1>1 DEF InPrompt, InHand, AtTurn
  <2>3. t \notin Fresh /\ completion[t] # "ok" /\ t \in Origin
    BY <1>2, <2>1, <2>2 DEF Fresh
  <2>4. QED
    BY <1>17, <1>18, <2>3 DEF Update, loopVars, turnVars
<1>19. CASE Replay
  <2>1. PICK s \in Old : Tell(s)
    BY <1>19 DEF Replay
  <2>2. s \in Origin /\ s \notin Turn
    BY ConstantsAssumption DEF Origin
  <2>3. QED
    BY <1>17, <1>19, <2>1, <2>2 DEF Replay, Fresh, loopVars, turnVars
<1>20. QED
  BY <1>6, <1>7, <1>8, <1>9, <1>10, <1>12, <1>13, <1>14, <1>15, <1>16, <1>18, <1>19
     DEF Next, Caller, Work, Answered, AgentStep, Cancel, SeeCancel, AgentEnds, RequestPermission,
         Die, vars, agentVars, loopVars, turnVars

\* Every step keeps the invariant of the updates.
LEMMA UpdatesStep == WorkerInv /\ UpdatesInv /\ [Next]_vars => UpdatesInv'
BY ApartStep, CountStep DEF UpdatesInv

\* So it always holds.
LEMMA UpdatesAlways == Spec => []UpdatesInv
<1> QED
  BY UpdatesStart, UpdatesStep, WorkerAlways, PTL DEF Spec

\* As long as no turn and no load was given up, a turn hears the updates of its
\* own prompt only, and a cached history is that of its session, whatever the
\* order in which chats share the worker.
THEOREM UpdatesAreApart == Spec => []UpdatesStayApart
<1>1. UpdatesInv => UpdatesStayApart
  BY DEF UpdatesInv, ApartInv, UpdatesStayApart
<1>2. QED
  BY <1>1, UpdatesAlways, PTL

\* A turn that ended well has heard all that the agent wrote for its prompt, also
\* what was in the channel when the answer was seen and also after turns that were
\* given up.
THEOREM AnswersAreComplete == Spec => []AnswerIsComplete
<1>1. UpdatesInv => AnswerIsComplete
  BY DEF UpdatesInv, CountInv, UpdatesOf, AnswerIsComplete
<1>2. QED
  BY <1>1, UpdatesAlways, PTL

=============================================================================
