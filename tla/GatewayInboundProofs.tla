------------------------- MODULE GatewayInboundProofs -------------------------
(***************************************************************************)
(* Proofs about GatewayInbound, for all sets of pushes, messages and       *)
(* sessions: the order in which the core gets the messages of a session    *)
(* follows from the chain of promises (ChainInv), the window of the        *)
(* deduper from the age of its entries (WindowInv).                        *)
(***************************************************************************)
EXTENDS GatewayInbound, TLAPS

-----------------------------------------------------------------------------
(* Types                                                                   *)

\* Pruning keeps a table of time stamps.
LEMMA PrunedType == TypeOK => Pruned \in [Message -> Time \cup {Never}]
  BY DEF TypeOK, Pruned

\* Taking a push in keeps the types.
LEMMA TakeType == ASSUME TypeOK, NEW p \in Push, Take(p) PROVE TypeOK'
<1>1. MessageOf[p] \in Message /\ Key(p) \in Session
  BY ConstantsAssumption DEF Key
<1>2. seenAt' \in [Message -> Time \cup {Never}]
  BY <1>1, PrunedType DEF Take, TypeOK
<1>3. phase' \in [Push -> Phase]
  BY DEF Take, TypeOK, Goto, Phase
<1>4. /\ takenAt' \in [Push -> Time \cup {Never}]
      /\ taken' \in Nat
      /\ ticket' \in [Push -> Nat]
  BY DEF Take, TypeOK
<1>5. /\ after' \in [Push -> Push \cup {NoPush}]
      /\ tail' \in [Session -> Push \cup {NoPush}]
  BY <1>1 DEF Take, TypeOK
<1>6. QED
  BY <1>2, <1>3, <1>4, <1>5 DEF Take, TypeOK, turnVars

\* The handler of a push keeps the types.
LEMMA HandleType == ASSUME TypeOK, NEW p \in Push, Handle(p) PROVE TypeOK'
<1>1. \E l \in Phase : Goto(p, l)
  BY DEF Handle, Begin, Respond, RespondFails, React, Reply, Reject, Cleanup, Settles,
         Phase, Handling, Settled, Over, Answered, At
<1>2. phase' \in [Push -> Phase]
  BY <1>1 DEF Goto, TypeOK
<1>3. core' \in [Push -> Request]
  BY DEF Handle, Begin, Respond, RespondFails, React, Reply, Reject, Cleanup, Settles,
         TypeOK, Request, Answered, turnVars
<1>4. contexts' \subseteq Push /\ told' \subseteq Push
  BY DEF Handle, Begin, Respond, RespondFails, React, Reply, Reject, Cleanup, Settles,
         TypeOK, turnVars
<1>5. tail' \in [Session -> Push \cup {NoPush}]
  BY DEF Handle, Begin, Respond, RespondFails, React, Reply, Reject, Cleanup, Settles,
         TypeOK, queueVars
<1>6. UNCHANGED <<after, ticket, taken, dedupVars, final, restarts>>
  BY DEF Handle, Begin, Respond, RespondFails, React, Reply, Reject, Cleanup, Settles,
         queueVars, turnVars
<1>7. QED
  BY <1>2, <1>3, <1>4, <1>5, <1>6 DEF TypeOK, dedupVars

\* Every variable keeps its type: TypeOK is inductive by itself.
THEOREM TypeCorrect == Spec => []TypeOK
<1>1. Init => TypeOK
  BY ConstantsAssumption DEF Init, TypeOK, Phase, Request, Time, Never
<1>2. TypeOK /\ [Next]_vars => TypeOK'
  <2> SUFFICES ASSUME TypeOK, [Next]_vars PROVE TypeOK'
    OBVIOUS
  <2>1. ASSUME NEW p \in Push, Ignore(p) PROVE TypeOK'
    BY <2>1, PrunedType DEF Ignore, TypeOK, Goto, Phase, queueVars, turnVars
  <2>2. ASSUME NEW p \in Push, Take(p) PROVE TypeOK'
    BY <2>2, TakeType
  <2>3. ASSUME NEW p \in Push, Handle(p) PROVE TypeOK'
    BY <2>3, HandleType
  <2>4. ASSUME NEW p \in Push, CoreTakes(p) PROVE TypeOK'
    BY <2>4 DEF CoreTakes, TypeOK, Request, queueVars, dedupVars
  <2>5. ASSUME NEW p \in Push, PublishFinal(p) PROVE TypeOK'
    BY <2>5 DEF PublishFinal, TypeOK, queueVars, dedupVars
  <2>6. CASE Tick
    BY <2>6, ConstantsAssumption DEF Tick, TypeOK, Time, queueVars, turnVars
  <2>7. ASSUME Restart \/ \E p \in Push : Dies(p) PROVE TypeOK'
    <3>1. StartAgain
      BY <2>7 DEF Restart, Dies
    <3>2. phase' \in [Push -> Phase]
      BY <3>1 DEF StartAgain, TypeOK, Phase, Over
    <3>3. restarts' \in 0 .. MaxRestarts
      BY <2>7, ConstantsAssumption DEF Restart, Dies, TypeOK
    <3>4. QED
      BY <3>1, <3>2, <3>3 DEF StartAgain, TypeOK
  <2>8. CASE UNCHANGED vars
    BY <2>8 DEF vars, TypeOK
  <2>9. QED
    BY <2>1, <2>2, <2>3, <2>4, <2>5, <2>6, <2>7, <2>8 DEF Next
<1>3. QED
  BY <1>1, <1>2, PTL DEF Spec

-----------------------------------------------------------------------------
(* The chain of promises                                                   *)

Running == Handling \cup Settled

\* Tickets are given out in order, one to each push that is taken in.
Ranks ==
    /\ \A p \in Push : /\ ticket[p] <= taken
                       /\ ticket[p] = 0 <=> phase[p] \in {"new", "ignored"}
    /\ \A p, q \in Push : ticket[p] = ticket[q] /\ ticket[p] > 0 => p = q

\* Everything of the same session that was taken in before p is over.
EarlierOver(p) ==
    \A q \in Push : /\ Key(q) = Key(p)
                    /\ 0 < ticket[q] /\ ticket[q] < ticket[p]
                    => phase[q] \in Over

\* sessionQueues names the latest push of a session, as long as it is not over.
TailOf(s) ==
    IF tail[s] = NoPush
      THEN \A q \in Push : Key(q) = s => ticket[q] = 0 \/ phase[q] \in Over
      ELSE /\ Key(tail[s]) = s
           /\ phase[tail[s]] \in {"queued"} \cup Running
           /\ \A q \in Push : Key(q) = s => ticket[q] <= ticket[tail[s]]

Tails == \A s \in Session : TailOf(s)

\* A queued push waits for the one taken in just before it.
LinkOf(p) ==
    IF after[p] = NoPush
      THEN EarlierOver(p)
      ELSE /\ Key(after[p]) = Key(p)
           /\ 0 < ticket[after[p]] /\ ticket[after[p]] < ticket[p]
           /\ \A q \in Push : Key(q) = Key(p) /\ ticket[q] < ticket[p]
                                 => ticket[q] <= ticket[after[p]]

Links == \A p \in Push : At(p, "queued") => LinkOf(p)

\* Who runs or ran had nobody before it.
Turns == \A p \in Push : phase[p] \in Running \cup Over => EarlierOver(p)

\* Requests are sent by handlers only, and handlers go on with an answer only.
Requests ==
    \A p \in Push :
        /\ core[p] # "none" => phase[p] \in Running \cup Over
        /\ At(p, "submitting") => core[p] # "none"
        /\ phase[p] \in (Running \ {"submitting"}) \cup {"resolved", "broken"}
              => core[p] \in Answered

ChainInv == TypeOK /\ Ranks /\ Tails /\ Links /\ Turns /\ Requests

\* The key of a push is a session.
LEMMA KeyType == \A p \in Push : Key(p) \in Session
  BY ConstantsAssumption DEF Key

\* The phases of a push do not overlap.
LEMMA Phases ==
    /\ "new" \notin Running \cup Over
    /\ "ignored" \notin Running \cup Over
    /\ "queued" \notin Running \cup Over
    /\ Running \cap Over = {}
  BY DEF Running, Handling, Settled, Over

\* A push taken in gets the last ticket and waits for the latest of its session.
LEMMA ChainTake ==
    ASSUME ChainInv, TypeOK', NEW p \in Push, Take(p)
    PROVE  ChainInv'
<1> USE DEF ChainInv
<1>1. /\ At(p, "new") /\ ticket[p] = 0
      /\ taken \in Nat /\ taken' = taken + 1
      /\ \A q \in Push : ticket[q] \in Nat /\ ticket[q] <= taken
      /\ \A q \in Push : ticket'[q] = IF q = p THEN taken + 1 ELSE ticket[q]
      /\ \A q \in Push : phase'[q] = IF q = p THEN "queued" ELSE phase[q]
      /\ \A q \in Push : after'[q] = IF q = p THEN tail[Key(p)] ELSE after[q]
      /\ \A s \in Session : tail'[s] = IF s = Key(p) THEN p ELSE tail[s]
      /\ UNCHANGED core
      /\ Key(p) \in Session
  BY KeyType DEF Take, TypeOK, Goto, At, Ranks, turnVars
<1>2. Ranks'
  BY <1>1 DEF Ranks, At
<1>3. ASSUME NEW q \in Push, q # p, EarlierOver(q) PROVE EarlierOver(q)'
  BY <1>1, <1>3 DEF EarlierOver, Key
<1>4. Tails'
  <2> SUFFICES ASSUME NEW s \in Session PROVE TailOf(s)'
    BY DEF Tails
  <2>1. CASE s = Key(p)
    <3>1. tail'[s] = p /\ p # NoPush /\ Key(p)' = s /\ phase'[p] = "queued"
      BY <2>1, <1>1, ConstantsAssumption DEF Key
    <3>2. \A q \in Push : ticket'[q] <= taken + 1 /\ ticket'[p] = taken + 1
      BY <1>1
    <3>3. QED
      BY <3>1, <3>2 DEF TailOf
  <2>2. CASE s # Key(p)
    <3>1. TailOf(s) /\ tail'[s] = tail[s] /\ tail[s] \in Push \cup {NoPush}
      BY <2>2, <1>1 DEF Tails, TypeOK
    <3>2. \A q \in Push : Key(q)' = Key(q) /\ (Key(q) = s => q # p)
      BY <2>2 DEF Key
    <3>3. CASE tail[s] = NoPush
      BY <3>1, <3>2, <3>3, <1>1 DEF TailOf
    <3>4. CASE tail[s] # NoPush
      BY <3>1, <3>2, <3>4, <1>1 DEF TailOf
    <3>5. QED
      BY <3>3, <3>4
  <2>3. QED
    BY <2>1, <2>2
<1>5. Links'
  <2> SUFFICES ASSUME NEW q \in Push, At(q, "queued")' PROVE LinkOf(q)'
    BY DEF Links
  <2>1. CASE q = p
    <3>1. /\ after'[p] = tail[Key(p)] /\ TailOf(Key(p))
          /\ tail[Key(p)] \in Push \cup {NoPush}
          /\ \A r \in Push : Key(r)' = Key(r)
      BY <1>1 DEF Tails, TypeOK, Key
    <3>2. CASE tail[Key(p)] = NoPush
      <4>1. \A r \in Push : Key(r) = Key(p) /\ r # p
                              => ticket[r] = 0 \/ phase[r] \in Over
        BY <3>1, <3>2 DEF TailOf
      <4>2. EarlierOver(p)'
        BY <4>1, <3>1, <1>1 DEF EarlierOver
      <4>3. QED
        BY <2>1, <3>1, <3>2, <4>2 DEF LinkOf
    <3>3. CASE tail[Key(p)] # NoPush
      <4> DEFINE u == tail[Key(p)]
      <4>1. /\ u \in Push /\ u # p /\ Key(u) = Key(p)
            /\ \A r \in Push : Key(r) = Key(p) => ticket[r] <= ticket[u]
        BY <3>1, <3>3, <1>1, Phases DEF TailOf, At
      <4>2. ticket[u] > 0
        BY <4>1, <3>1, <3>3, <1>1, Phases DEF Ranks, TailOf
      <4>3. QED
        BY <4>1, <4>2, <2>1, <3>1, <3>3, <1>1 DEF LinkOf
    <3>4. QED
      BY <3>2, <3>3
  <2>2. CASE q # p
    <3>1. LinkOf(q) /\ after'[q] = after[q] /\ after[q] \in Push \cup {NoPush}
      BY <2>2, <1>1 DEF Links, At, TypeOK
    <3>2. CASE after[q] = NoPush
      BY <3>1, <3>2, <2>2, <1>3 DEF LinkOf
    <3>3. CASE after[q] # NoPush
      <4>1. after[q] # p /\ \A r \in Push : Key(r)' = Key(r)
        BY <3>1, <3>3, <1>1 DEF LinkOf, Key
      <4>2. QED
        BY <4>1, <3>1, <3>3, <2>2, <1>1 DEF LinkOf
    <3>4. QED
      BY <3>2, <3>3
  <2>3. QED
    BY <2>1, <2>2
<1>6. Turns'
  BY <1>1, <1>3, Phases DEF Turns
<1>7. Requests'
  BY <1>1, Phases DEF Requests, At
<1>8. QED
  BY <1>2, <1>4, <1>5, <1>6, <1>7

\* What is over stays over, so earlier pushes and links stay what they are.
LEMMA ChainKept ==
    ASSUME ChainInv, UNCHANGED <<after, ticket>>,
           \A q \in Push : phase[q] \in Over => phase'[q] \in Over,
           NEW p \in Push
    PROVE  /\ EarlierOver(p) => EarlierOver(p)'
           /\ LinkOf(p) => LinkOf(p)'
<1>1. EarlierOver(p) => EarlierOver(p)'
  BY DEF EarlierOver, Key
<1>2. QED
  BY <1>1 DEF LinkOf, Key

\* A push whose earlier ones are over runs, or goes on running.
LEMMA ChainRun ==
    ASSUME ChainInv, TypeOK', Requests', UNCHANGED queueVars,
           NEW p \in Push, NEW l \in Running, Goto(p, l),
           phase[p] \in {"queued"} \cup Running, EarlierOver(p)
    PROVE  ChainInv'
<1> USE DEF ChainInv, queueVars
<1>1. \A q \in Push : phase'[q] = IF q = p THEN l ELSE phase[q]
  BY DEF Goto, TypeOK
<1>2. \A q \in Push : phase[q] \in Over => phase'[q] \in Over
  BY <1>1, Phases
<1>3. Ranks'
  BY <1>1, Phases DEF Ranks
<1>4. Tails'
  <2> SUFFICES ASSUME NEW s \in Session PROVE TailOf(s)'
    BY DEF Tails
  <2>1. TailOf(s) /\ tail[s] \in Push \cup {NoPush}
    BY DEF Tails, TypeOK
  <2>2. \A q \in Push : Key(q)' = Key(q)
    BY DEF Key
  <2>3. QED
    BY <1>1, <1>2, <2>1, <2>2 DEF TailOf
<1>5. Links'
  BY <1>1, <1>2, ChainKept, Phases DEF Links, At
<1>6. Turns'
  BY <1>1, <1>2, ChainKept DEF Turns
<1>7. QED
  BY <1>3, <1>4, <1>5, <1>6

\* The promise a queued push waits for is over: so is everything before it.
LEMMA LinkOver ==
    ASSUME ChainInv, NEW p \in Push, At(p, "queued"), LinkOf(p),
           after[p] # NoPush => phase[after[p]] \in Over
    PROVE  EarlierOver(p)
<1> USE DEF ChainInv
<1>1. CASE after[p] = NoPush
  BY <1>1 DEF LinkOf
<1>2. CASE after[p] # NoPush
  <2> DEFINE u == after[p]
  <2>1. u \in Push /\ Key(u) = Key(p) /\ EarlierOver(u) /\ phase[u] \in Over
    BY <1>2 DEF TypeOK, LinkOf, Turns
  <2> SUFFICES ASSUME NEW q \in Push, Key(q) = Key(p), 0 < ticket[q], ticket[q] < ticket[p]
               PROVE  phase[q] \in Over
    BY DEF EarlierOver
  <2>2. ticket[q] <= ticket[u] /\ ticket[q] \in Nat /\ ticket[u] \in Nat
    BY <1>2, <2>1 DEF LinkOf, TypeOK
  <2>3. CASE ticket[q] = ticket[u]
    BY <2>1, <2>3 DEF Ranks
  <2>4. CASE ticket[q] < ticket[u]
    BY <2>1, <2>4 DEF EarlierOver
  <2>5. QED
    BY <2>2, <2>3, <2>4
<1>3. QED
  BY <1>1, <1>2

\* A handler begins when the promise it was chained to is settled.
LEMMA ChainBegin ==
    ASSUME ChainInv, TypeOK', NEW p \in Push, Begin(p)
    PROVE  ChainInv'
<1> USE DEF ChainInv
<1>1. EarlierOver(p)
  BY LinkOver DEF Begin, Links
<1>2. Requests'
  BY Phases DEF Begin, Requests, Goto, TypeOK, At, Running, Handling, Settled, Over
<1>3. QED
  BY <1>1, <1>2, ChainRun DEF Begin, At, Running, Handling

\* The handler goes on with the answer of the core.
LEMMA ChainRespond ==
    ASSUME ChainInv, TypeOK', NEW p \in Push,
           Respond(p) \/ RespondFails(p) \/ React(p) \/ Reply(p) \/ Reject(p)
    PROVE  ChainInv'
<1> USE DEF ChainInv
<1>1. phase[p] \in Running /\ UNCHANGED queueVars
  BY DEF Respond, RespondFails, React, Reply, Reject, At, Running, Handling
<1>2. EarlierOver(p)
  BY <1>1 DEF Turns
<1>3. PICK l \in Running \ {"submitting"} : Goto(p, l)
  BY DEF Respond, RespondFails, React, Reply, Reject, Running, Handling, Settled, Answered
<1>4. core'[p] \in Answered /\ \A q \in Push \ {p} : core'[q] = core[q]
  BY <1>1 DEF Respond, RespondFails, React, Reply, Reject, Requests, TypeOK, At,
              Running, Handling, Answered, Request, turnVars
<1>5. Requests'
  BY <1>3, <1>4, Phases DEF Requests, Goto, TypeOK, At, Answered
<1>6. QED
  BY <1>1, <1>2, <1>3, <1>5, ChainRun

\* A handler that is over leaves its entry to a later push or to nobody.
LEMMA ChainCleanup ==
    ASSUME ChainInv, TypeOK', NEW p \in Push, Cleanup(p)
    PROVE  ChainInv'
<1> USE DEF ChainInv
<1>1. PICK l \in {"resolved", "broken"} : Goto(p, l)
  BY DEF Cleanup, Settles
<1>2. \A q \in Push : phase'[q] = IF q = p THEN l ELSE phase[q]
  BY <1>1 DEF Goto, TypeOK
<1>3. phase[p] \in Settled /\ l \in Over /\ UNCHANGED <<after, ticket, taken, core>>
  BY DEF Cleanup, Settles, Settled, At, Over, turnVars
<1>4. \A q \in Push : phase[q] \in Over => phase'[q] \in Over
  BY <1>2, <1>3
<1>5. EarlierOver(p) /\ Key(p) \in Session
  BY <1>3, KeyType DEF Turns, Running
<1>6. Ranks'
  BY <1>2, <1>3, Phases DEF Ranks, Running
<1>7. Tails'
  <2> SUFFICES ASSUME NEW s \in Session PROVE TailOf(s)'
    BY DEF Tails
  <2>1. TailOf(s) /\ tail[s] \in Push \cup {NoPush} /\ \A q \in Push : Key(q)' = Key(q)
    BY DEF Tails, TypeOK, Key
  <2>2. CASE tail[s] = p
    <3>1. Key(p) = s /\ \A q \in Push : Key(q) = s => ticket[q] <= ticket[p]
      BY <2>1, <2>2, ConstantsAssumption DEF TailOf
    <3>2. tail'[s] = NoPush
      BY <2>2, <3>1, <1>5 DEF Cleanup, TypeOK
    <3>3. ASSUME NEW q \in Push, Key(q) = s PROVE ticket[q] = 0 \/ phase'[q] \in Over
      <4>1. ticket[q] \in Nat /\ ticket[p] \in Nat /\ ticket[q] <= ticket[p]
        BY <3>1, <3>3 DEF TypeOK
      <4>2. CASE ticket[q] = ticket[p]
        BY <4>1, <4>2, <1>2, <1>3 DEF Ranks
      <4>3. CASE ticket[q] < ticket[p]
        BY <4>1, <4>3, <3>1, <3>3, <1>4, <1>5 DEF EarlierOver
      <4>4. QED
        BY <4>1, <4>2, <4>3
    <3>4. QED
      BY <3>2, <3>3, <2>1, <1>3 DEF TailOf
  <2>3. CASE tail[s] # p
    <3>1. tail'[s] = tail[s]
      BY <2>3 DEF Cleanup, TypeOK
    <3>2. QED
      BY <3>1, <2>1, <2>3, <1>2, <1>3, <1>4 DEF TailOf
  <2>4. QED
    BY <2>2, <2>3
<1>8. Links'
  BY <1>2, <1>3, <1>4, ChainKept DEF Links, At
<1>9. Turns'
  BY <1>2, <1>3, <1>4, <1>5, ChainKept DEF Turns
<1>10. Requests'
  BY <1>2, <1>3 DEF Requests, Running, Handling, Settled, At
<1>11. QED
  BY <1>6, <1>7, <1>8, <1>9, <1>10

\* After a restart everything that was taken in is over.
LEMMA ChainRestart ==
    ASSUME ChainInv, TypeOK', StartAgain
    PROVE  ChainInv'
<1> USE DEF ChainInv
<1>1. \A q \in Push : phase'[q] = IF phase[q] \in {"queued"} \cup Running
                                    THEN "gone" ELSE phase[q]
  BY DEF StartAgain, Running
<1>2. UNCHANGED <<after, ticket, taken, core>> /\ \A s \in Session : tail'[s] = NoPush
  BY DEF StartAgain
<1>3. \A q \in Push : ticket[q] = 0 \/ phase'[q] \in Over
  BY <1>1 DEF Ranks, TypeOK, Phase, Running, Over
<1>4. \A q \in Push : EarlierOver(q)'
  BY <1>2, <1>3 DEF EarlierOver, TypeOK
<1>5. Ranks'
  BY <1>1, <1>2 DEF Ranks, Running, Handling, Settled
<1>6. Tails'
  BY <1>2, <1>3 DEF Tails, TailOf
<1>7. Links'
  BY <1>1 DEF Links, At
<1>8. Turns'
  BY <1>4 DEF Turns
<1>9. Requests'
  BY <1>1, <1>2, Phases DEF Requests, Running, Over, Handling, Settled, At
<1>10. QED
  BY <1>5, <1>6, <1>7, <1>8, <1>9

\* A duplicate that is ignored has no place in the queue.
LEMMA ChainIgnore ==
    ASSUME ChainInv, TypeOK', NEW p \in Push, Ignore(p)
    PROVE  ChainInv'
<1> USE DEF ChainInv
<1>1. \A q \in Push : phase'[q] = IF q = p THEN "ignored" ELSE phase[q]
  BY DEF Ignore, Goto, TypeOK
<1>2. phase[p] = "new" /\ UNCHANGED <<after, tail, ticket, taken, core>>
  BY DEF Ignore, At, queueVars, turnVars
<1>3. \A q \in Push : phase[q] \in Over => phase'[q] \in Over
  BY <1>1, <1>2, Phases
<1>4. Ranks'
  BY <1>1, <1>2 DEF Ranks
<1>5. Tails'
  <2> SUFFICES ASSUME NEW s \in Session PROVE TailOf(s)'
    BY DEF Tails
  <2>1. TailOf(s) /\ tail[s] \in Push \cup {NoPush} /\ \A q \in Push : Key(q)' = Key(q)
    BY DEF Tails, TypeOK, Key
  <2>2. QED
    BY <1>1, <1>2, <1>3, <2>1, Phases DEF TailOf
<1>6. Links'
  BY <1>1, <1>2, <1>3, ChainKept DEF Links, At
<1>7. Turns'
  BY <1>1, <1>2, <1>3, ChainKept, Phases DEF Turns
<1>8. Requests'
  BY <1>1, <1>2, Phases DEF Requests, Running, Over, Handling, Settled, At
<1>9. QED
  BY <1>4, <1>5, <1>6, <1>7, <1>8

\* Nothing that leaves the handlers alone touches the chain.
LEMMA ChainQuiet ==
    ASSUME ChainInv, TypeOK', UNCHANGED <<phase, after, tail, ticket, taken>>,
           \A q \in Push : \/ core'[q] = core[q]
                           \/ core[q] # "none" /\ core'[q] \in Answered
    PROVE  ChainInv'
<1> USE DEF ChainInv
<1>1. Ranks' /\ Turns' /\ Tails' /\ Links'
  BY DEF Ranks, Turns, Tails, TailOf, Links, LinkOf, EarlierOver, Key, At
<1>2. Requests'
  BY DEF Requests, At, Answered
<1>3. QED
  BY <1>1, <1>2

\* The inductive invariant of the queues.
THEOREM ChainCorrect == Spec => []ChainInv
<1>1. Init => ChainInv
  <2> SUFFICES ASSUME Init PROVE ChainInv
    OBVIOUS
  <2>1. TypeOK
    BY ConstantsAssumption DEF Init, TypeOK, Phase, Request, Time, Never
  <2>2. Ranks /\ Tails /\ Links /\ Turns /\ Requests
    BY Phases DEF Init, Ranks, Tails, TailOf, Links, Turns, Requests, At, Running,
                  Handling, Settled
  <2>3. QED
    BY <2>1, <2>2 DEF ChainInv
<1>2. ChainInv /\ TypeOK' /\ [Next]_vars => ChainInv'
  <2> SUFFICES ASSUME ChainInv, TypeOK', [Next]_vars PROVE ChainInv'
    OBVIOUS
  <2>1. ASSUME NEW p \in Push, Ignore(p) PROVE ChainInv'
    BY <2>1, ChainIgnore
  <2>2. ASSUME NEW p \in Push, Take(p) PROVE ChainInv'
    BY <2>2, ChainTake
  <2>3. ASSUME NEW p \in Push, Handle(p) PROVE ChainInv'
    BY <2>3, ChainBegin, ChainRespond, ChainCleanup DEF Handle
  <2>4. ASSUME NEW p \in Push, CoreTakes(p) PROVE ChainInv'
    <3>1. \A q \in Push : \/ core'[q] = core[q]
                          \/ core[q] # "none" /\ core'[q] \in Answered
      BY <2>4 DEF CoreTakes, ChainInv, TypeOK
    <3>2. QED
      BY <2>4, <3>1, ChainQuiet DEF CoreTakes, queueVars
  <2>5. ASSUME NEW p \in Push, PublishFinal(p) PROVE ChainInv'
    BY <2>5, ChainQuiet DEF PublishFinal, queueVars
  <2>6. CASE Tick
    BY <2>6, ChainQuiet DEF Tick, queueVars, turnVars
  <2>7. ASSUME Restart \/ \E p \in Push : Dies(p) PROVE ChainInv'
    BY <2>7, ChainRestart DEF Restart, Dies
  <2>8. CASE UNCHANGED vars
    BY <2>8, ChainQuiet DEF vars
  <2>9. QED
    BY <2>1, <2>2, <2>3, <2>4, <2>5, <2>6, <2>7, <2>8 DEF Next
<1>3. QED
  BY <1>1, <1>2, TypeCorrect, PTL DEF Spec

\* enqueueForSession serializes: the core gets the messages of a session in the
\* order in which they were taken in, each after it has answered the one before.
THEOREM SerializedPerSession == Spec => []InOrder
<1>1. ChainInv => InOrder
  <2> SUFFICES ASSUME ChainInv, NEW p \in Push, NEW q \in Push, Key(p) = Key(q),
                      0 < ticket[p], ticket[p] < ticket[q], core[q] # "none"
               PROVE  core[p] \in Answered \/ At(p, "gone")
    BY DEF InOrder
  <2>1. phase[p] \in Over
    BY DEF ChainInv, Requests, Turns, EarlierOver
  <2>2. QED
    BY <2>1 DEF ChainInv, Requests, Over, At
<1>2. QED
  BY <1>1, ChainCorrect, PTL

\* sessionQueues keeps no entry of a session whose handlers are all over.
THEOREM NoEntryIsLeft == Spec => []QueueIsFreed
<1>1. ChainInv => QueueIsFreed
  <2> SUFFICES ASSUME ChainInv, NEW s \in Session, tail[s] # NoPush,
                      \A p \in Push : Key(p) = s
                         => phase[p] \in {"new", "ignored"} \cup Over
               PROVE  FALSE
    BY DEF QueueIsFreed
  <2>1. tail[s] \in Push /\ Key(tail[s]) = s /\ phase[tail[s]] \in {"queued"} \cup Running
    BY DEF ChainInv, TypeOK, Tails, TailOf
  <2>2. QED
    BY <2>1, Phases
<1>2. QED
  BY <1>1, ChainCorrect, PTL

-----------------------------------------------------------------------------
(* The window of the deduper                                               *)

\* A push of this process is as old as the entry of its message, or older than
\* the window.
Aged(p) ==
    /\ takenAt[p] <= now
    /\ phase[p] # "new"
    /\ \/ Ttl > 0 /\ now - takenAt[p] > Ttl
       \/ seenAt[MessageOf[p]] # Never /\ takenAt[p] <= seenAt[MessageOf[p]]

WindowInv ==
    /\ TypeOK
    /\ \A m \in Message : seenAt[m] # Never => seenAt[m] <= now
    /\ \A p \in Push : takenAt[p] # Never => Aged(p)
    /\ TakenOnce

\* A step that leaves the table alone, or prunes it, at the same time.
LEMMA WindowKept ==
    ASSUME WindowInv, TypeOK', UNCHANGED <<now, takenAt>>,
           seenAt' = seenAt \/ seenAt' = Pruned,
           \A p \in Push : phase[p] # "new" => phase'[p] # "new"
    PROVE  WindowInv'
<1> USE DEF WindowInv
<1>1. \A m \in Message : \/ seenAt'[m] = seenAt[m]
                         \/ /\ seenAt'[m] = Never
                            /\ Ttl > 0 /\ seenAt[m] # Never /\ now - seenAt[m] > Ttl
  BY DEF Pruned
<1>2. \A m \in Message : seenAt'[m] # Never => seenAt'[m] <= now
  BY <1>1
<1>3. ASSUME NEW p \in Push, takenAt[p] # Never PROVE Aged(p)'
  <2>1. /\ Aged(p) /\ MessageOf[p] \in Message
        /\ now \in Nat /\ takenAt[p] \in Nat /\ Ttl \in Nat
        /\ seenAt[MessageOf[p]] \in Nat
    BY <1>3, ConstantsAssumption DEF TypeOK, Time, Never
  <2>2. QED
    BY <1>1, <2>1 DEF Aged
<1>4. TakenOnce'
  BY DEF TakenOnce
<1>5. QED
  BY <1>2, <1>3, <1>4 DEF Never

\* What is taken in now was never taken in, or longer ago than the window.
LEMMA WindowTake ==
    ASSUME WindowInv, TypeOK', NEW p \in Push, Take(p)
    PROVE  WindowInv'
<1> USE DEF WindowInv
<1> DEFINE m == MessageOf[p]
<1>1. /\ m \in Message /\ now \in Nat /\ now # Never /\ Ttl \in Nat
      /\ now' = now /\ phase[p] = "new"
      /\ \A q \in Push : takenAt'[q] = IF q = p THEN now ELSE takenAt[q]
      /\ \A q \in Push : phase'[q] = IF q = p THEN "queued" ELSE phase[q]
      /\ \A k \in Message : seenAt'[k] = IF k = m THEN now ELSE Pruned[k]
      /\ Pruned[m] = Never
  BY ConstantsAssumption, PrunedType DEF Take, TypeOK, Goto, At, Time, Never
<1>2. \A k \in Message : \/ Pruned[k] = seenAt[k]
                         \/ /\ Pruned[k] = Never
                            /\ Ttl > 0 /\ seenAt[k] # Never /\ now - seenAt[k] > Ttl
  BY DEF Pruned
<1>3. \A q \in Push : takenAt[q] # Never => /\ Aged(q) /\ q # p
                                            /\ takenAt[q] \in Nat
                                            /\ MessageOf[q] \in Message
                                            /\ seenAt[MessageOf[q]] \in Nat
  BY <1>1, ConstantsAssumption DEF Aged, TypeOK, Time, Never
<1>4. ASSUME NEW q \in Push, takenAt[q] # Never, MessageOf[q] = m
      PROVE  Ttl > 0 /\ now - takenAt[q] > Ttl
  <2>1. CASE Ttl > 0 /\ now - takenAt[q] > Ttl
    BY <2>1
  <2>2. CASE seenAt[m] # Never /\ takenAt[q] <= seenAt[m]
    <3>1. Ttl > 0 /\ now - seenAt[m] > Ttl
      BY <2>2, <1>1, <1>2
    <3>2. QED
      BY <2>2, <3>1, <1>1, <1>3, <1>4
  <2>3. QED
    BY <1>3, <1>4, <2>1, <2>2 DEF Aged
<1>5. \A k \in Message : seenAt'[k] # Never => seenAt'[k] <= now
  BY <1>1, <1>2
<1>6. ASSUME NEW q \in Push, takenAt'[q] # Never PROVE Aged(q)'
  <2>1. CASE q = p
    BY <2>1, <1>1 DEF Aged
  <2>2. CASE q # p
    <3>1. Aged(q) /\ takenAt'[q] = takenAt[q] /\ phase'[q] = phase[q]
      BY <1>6, <2>2, <1>1, <1>3
    <3>2. CASE MessageOf[q] = m
      BY <3>1, <3>2, <2>2, <1>1, <1>3, <1>6 DEF Aged
    <3>3. CASE MessageOf[q] # m
      BY <3>1, <3>3, <2>2, <1>1, <1>2, <1>3, <1>6 DEF Aged
    <3>4. QED
      BY <3>2, <3>3
  <2>3. QED
    BY <2>1, <2>2
<1>7. TakenOnce'
  BY <1>1, <1>3, <1>4 DEF TakenOnce
<1>8. QED
  BY <1>1, <1>5, <1>6, <1>7 DEF Never

\* The inductive invariant of the deduper.
THEOREM WindowCorrect == Spec => []WindowInv
<1>1. Init => WindowInv
  <2> SUFFICES ASSUME Init PROVE WindowInv
    OBVIOUS
  <2>1. TypeOK
    BY ConstantsAssumption DEF Init, TypeOK, Phase, Request, Time, Never
  <2>2. QED
    BY <2>1 DEF Init, WindowInv, TakenOnce
<1>2. WindowInv /\ TypeOK' /\ [Next]_vars => WindowInv'
  <2> SUFFICES ASSUME WindowInv, TypeOK', [Next]_vars PROVE WindowInv'
    OBVIOUS
  <2>1. ASSUME NEW p \in Push, Ignore(p) PROVE WindowInv'
    <3>1. \A q \in Push : phase[q] # "new" => phase'[q] # "new"
      BY <2>1 DEF Ignore, Goto, WindowInv, TypeOK
    <3>2. QED
      BY <2>1, <3>1, WindowKept DEF Ignore
  <2>2. ASSUME NEW p \in Push, Take(p) PROVE WindowInv'
    BY <2>2, WindowTake
  <2>3. ASSUME NEW p \in Push, Handle(p) PROVE WindowInv'
    <3>1. UNCHANGED dedupVars /\ \E l \in Phase \ {"new"} : Goto(p, l)
      BY <2>3 DEF Handle, Begin, Respond, RespondFails, React, Reply, Reject, Cleanup, Settles,
                  Phase, Handling, Settled, Over, Answered
    <3>2. \A q \in Push : phase[q] # "new" => phase'[q] # "new"
      BY <3>1 DEF Goto, WindowInv, TypeOK
    <3>3. QED
      BY <3>1, <3>2, WindowKept DEF dedupVars
  <2>4. ASSUME NEW p \in Push, CoreTakes(p) \/ PublishFinal(p) PROVE WindowInv'
    BY <2>4, WindowKept DEF CoreTakes, PublishFinal, dedupVars
  <2>5. CASE Tick
    <3>1. now \in Nat /\ now' = now + 1 /\ UNCHANGED <<phase, seenAt, takenAt>>
      BY <2>5 DEF Tick, WindowInv, TypeOK, Time
    <3>2. \A p \in Push : /\ takenAt[p] \in Nat /\ MessageOf[p] \in Message
                          /\ seenAt[MessageOf[p]] \in Nat
      BY ConstantsAssumption DEF WindowInv, TypeOK, Time, Never
    <3>3. \A p \in Push : takenAt[p] # Never => Aged(p)'
      BY <3>1, <3>2, ConstantsAssumption DEF WindowInv, Aged
    <3>4. \A m \in Message : seenAt[m] # Never => seenAt[m] <= now'
      BY <3>1, ConstantsAssumption DEF WindowInv, TypeOK, Time, Never
    <3>5. TakenOnce'
      BY <3>1 DEF WindowInv, TakenOnce
    <3>6. QED
      BY <3>1, <3>3, <3>4, <3>5 DEF WindowInv
  <2>6. ASSUME Restart \/ \E p \in Push : Dies(p) PROVE WindowInv'
    BY <2>6 DEF Restart, Dies, StartAgain, WindowInv, TakenOnce
  <2>7. CASE UNCHANGED vars
    BY <2>7, WindowKept DEF vars
  <2>8. QED
    BY <2>1, <2>2, <2>3, <2>4, <2>5, <2>6, <2>7 DEF Next
<1>3. QED
  BY <1>1, <1>2, TypeCorrect, PTL DEF Spec

\* A message that Feishu pushes again is taken in at most once per window.
THEOREM DuplicatesAreIgnored == Spec => []TakenOnce
BY WindowCorrect, PTL DEF WindowInv

-----------------------------------------------------------------------------
(* Rejections                                                              *)

\* A turn in turnContexts, or shown at some time, was read from a response, and
\* from there its handler only goes on to the reaction and its end; a turn that
\* was rejected is past the reading of its response.
KnownAt(p) ==
    /\ p \in contexts => phase[p] \in {"reacting", "fulfilled", "resolved"}
    /\ final[p] = "shown" => phase[p] \in {"reacting", "fulfilled", "resolved", "gone"}
    /\ p \in told => /\ phase[p] \in {"fulfilled", "rejected"} \cup Over
                     /\ p \notin contexts
                     /\ final[p] # "shown"

KnownInv == TypeOK /\ \A p \in Push : KnownAt(p)

\* A step of the handler of p says nothing of the other turns.
LEMMA KnownKept ==
    ASSUME KnownInv, TypeOK', NEW p \in Push, NEW label, Goto(p, label), KnownAt(p)',
           UNCHANGED final, contexts' \subseteq contexts \cup {p}, contexts \subseteq contexts',
           told' \subseteq told \cup {p}
    PROVE  KnownInv'
<1> SUFFICES ASSUME NEW q \in Push, q # p PROVE KnownAt(q)'
  BY DEF KnownInv
<1>1. phase'[q] = phase[q]
  BY DEF KnownInv, TypeOK, Goto
<1>2. KnownAt(q)
  BY DEF KnownInv
<1>3. QED
  BY <1>1, <1>2 DEF KnownAt

\* Every step keeps KnownInv.
LEMMA KnownStep == KnownInv /\ TypeOK' /\ [Next]_vars => KnownInv'
<1> SUFFICES ASSUME KnownInv, TypeOK', [Next]_vars PROVE KnownInv'
  OBVIOUS
<1>1. ASSUME NEW p \in Push, Ignore(p) \/ Take(p) \/ Begin(p) \/ RespondFails(p) \/ Reply(p)
      PROVE  KnownInv'
  <2>1. UNCHANGED <<contexts, final, told>> /\ \E label \in Phase : Goto(p, label)
    BY <1>1 DEF Ignore, Take, Begin, RespondFails, Reply, turnVars, Phase, Handling, Settled
  <2>2. p \notin contexts /\ p \notin told /\ final[p] # "shown"
    BY <1>1 DEF Ignore, Take, Begin, RespondFails, Reply, At, KnownInv, KnownAt, Over
  <2>3. KnownAt(p)'
    BY <2>1, <2>2 DEF KnownAt
  <2>4. QED
    BY <2>1, <2>3, KnownKept
<1>2. ASSUME NEW p \in Push, Respond(p) PROVE KnownInv'
  <2>1. p \notin told /\ final[p] # "shown" /\ p \notin contexts
    BY <1>2 DEF Respond, At, KnownInv, KnownAt, Over
  <2>2. UNCHANGED <<final, told>> /\ contexts' \in {contexts, contexts \cup {p}}
    BY <1>2 DEF Respond
  <2>3. \E label \in {"reacting", "replying", "rejecting"} :
            Goto(p, label) /\ (p \in contexts' => label = "reacting")
    BY <1>2, <2>1 DEF Respond, Answered
  <2>4. KnownAt(p)'
    BY <2>1, <2>2, <2>3 DEF KnownAt, Goto, KnownInv, TypeOK
  <2>5. QED
    BY <2>2, <2>3, <2>4, KnownKept
<1>3. ASSUME NEW p \in Push, React(p) PROVE KnownInv'
  <2>1. UNCHANGED <<contexts, final, told>> /\ Goto(p, "fulfilled")
    BY <1>3 DEF React, turnVars
  <2>2. KnownAt(p)'
    BY <2>1 DEF KnownAt, Goto, KnownInv, TypeOK
  <2>3. QED
    BY <2>1, <2>2, KnownKept
<1>4. ASSUME NEW p \in Push, Reject(p) PROVE KnownInv'
  <2>1. p \notin contexts /\ final[p] # "shown"
    BY <1>4 DEF Reject, At, KnownInv, KnownAt
  <2>2. /\ UNCHANGED <<contexts, final>> /\ told' \subseteq told \cup {p}
        /\ \E label \in {"fulfilled", "rejected"} : Goto(p, label)
    BY <1>4 DEF Reject
  <2>3. KnownAt(p)'
    BY <2>1, <2>2 DEF KnownAt, Goto, KnownInv, TypeOK
  <2>4. QED
    BY <2>2, <2>3, KnownKept
<1>5. ASSUME NEW p \in Push, Cleanup(p) PROVE KnownInv'
  <2>1. /\ UNCHANGED <<contexts, final, told>>
        /\ Goto(p, IF At(p, "fulfilled") THEN "resolved" ELSE "broken")
    BY <1>5 DEF Cleanup, Settles, turnVars
  <2>2. p \in contexts \/ final[p] = "shown" => At(p, "fulfilled")
    BY <1>5 DEF Cleanup, Settles, Settled, At, KnownInv, KnownAt
  <2>3. KnownAt(p)'
    BY <2>1, <2>2 DEF KnownAt, Goto, KnownInv, TypeOK, Over
  <2>4. QED
    BY <2>1, <2>3, KnownKept
<1>6. ASSUME NEW p \in Push, PublishFinal(p) PROVE KnownInv'
  <2>1. /\ UNCHANGED <<phase, contexts, told>>
        /\ final' = [final EXCEPT ![p] = IF p \in contexts THEN "shown" ELSE "dropped"]
    BY <1>6 DEF PublishFinal
  <2> SUFFICES ASSUME NEW q \in Push PROVE KnownAt(q)'
    BY DEF KnownInv
  <2>2. final'[q] = "shown" => final[q] = "shown" \/ q \in contexts
    BY <2>1 DEF KnownInv, TypeOK
  <2>3. QED
    BY <2>1, <2>2 DEF KnownInv, KnownAt
<1>7. CASE Restart \/ \E p \in Push : Dies(p)
  <2>1. /\ contexts' = {} /\ UNCHANGED <<final, told>>
        /\ phase' = [p \in Push |-> IF phase[p] \in {"queued"} \cup Handling \cup Settled
                                      THEN "gone" ELSE phase[p]]
    BY <1>7 DEF Restart, Dies, StartAgain
  <2> SUFFICES ASSUME NEW q \in Push PROVE KnownAt(q)'
    BY DEF KnownInv
  <2>2. phase'[q] \in {phase[q], "gone"} /\ phase'[q] \notin Handling \cup Settled
    BY <2>1 DEF Handling, Settled
  <2>3. QED
    BY <2>1, <2>2 DEF KnownInv, KnownAt, Handling, Settled, Over
<1>8. ASSUME Tick \/ UNCHANGED vars \/ \E p \in Push : CoreTakes(p) PROVE KnownInv'
  BY <1>8 DEF Tick, CoreTakes, turnVars, vars, KnownInv, KnownAt
<1>9. QED
  BY <1>1, <1>2, <1>3, <1>4, <1>5, <1>6, <1>7, <1>8 DEF Next, Handle

\* A turn whose user was told that it could not be started is never shown: for
\* all messages and sessions, with any number of restarts, lost responses and
\* requests that Feishu refuses.
THEOREM RejectedTurnsStaySilent == Spec => []RejectedTurnIsNotShown
<1>1. Init /\ TypeOK => KnownInv
  BY DEF Init, KnownInv, KnownAt
<1>2. KnownInv /\ TypeOK' /\ [Next]_vars => KnownInv'
  BY KnownStep
<1>3. KnownInv => RejectedTurnIsNotShown
  BY DEF KnownInv, KnownAt, TypeOK, RejectedTurnIsNotShown
<1>4. QED
  BY <1>1, <1>2, <1>3, TypeCorrect, PTL DEF Spec

=============================================================================
