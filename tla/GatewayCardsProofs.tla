-------------------------- MODULE GatewayCardsProofs --------------------------
(***************************************************************************)
(* Proofs about the card slots of a turn: for any slots, any number of     *)
(* heartbeats at work at once and any failures of Feishu.                  *)
(***************************************************************************)
EXTENDS GatewayCards, TLAPS

-----------------------------------------------------------------------------
(* Types                                                                   *)

\* What the entries and timers are.
LEMMA SlotType ==
    ASSUME TypeOK
    PROVE  /\ slot \in [Slot -> Entry]
           /\ pending \in [Slot -> SUBSET (Nat \ {0})]
           /\ timers \in [Slot -> Nat]
           /\ work \in [Worker -> Work]
           /\ \A b \in Beat : work[b].stage \in {"idle", "content", "settings", "reason"}
           /\ card \in [Slot -> [Version -> Card]]
BY DEF TypeOK

\* A new entry of a slot keeps the types of the slots and of their timers.
LEMMA EntryType ==
    ASSUME TypeOK, NEW k \in Slot, NEW entry \in Entry, NEW named,
           Replace(k, entry, named) \/ ReplaceAndArm(k, entry, named)
    PROVE  /\ slot' \in [Slot -> Entry]
           /\ pending' \in [Slot -> SUBSET (Nat \ {0})]
           /\ timers' \in [Slot -> Nat]
           /\ beats' = beats
<1>1. CASE Replace(k, entry, named)
  BY <1>1, SlotType DEF Replace
<1>2. CASE ReplaceAndArm(k, entry, named) /\ ~Replace(k, entry, named)
  <2> DEFINE t == timers[k] + 1
             new == [entry EXCEPT !.timer = t]
  <2>1. t \in Nat \ {0}
    BY SlotType
  <2>2. new \in Entry
    BY <2>1 DEF Entry
  <2>3. /\ timers' = [timers EXCEPT ![k] = @ + 1]
        /\ pending' = [pending EXCEPT ![k] = (@ \ {slot[k].timer, entry.timer}) \cup {t}]
        /\ slot' = [slot EXCEPT ![k] = new]
        /\ UNCHANGED beats
    BY <1>2 DEF ReplaceAndArm
  <2> HIDE DEF new
  <2>4. slot' \in [Slot -> Entry]
    BY <2>2, <2>3, SlotType
  <2>5. pending' \in [Slot -> SUBSET (Nat \ {0})]
    BY <2>1, <2>3, SlotType
  <2>6. timers' \in [Slot -> Nat]
    BY <2>3, SlotType
  <2>7. QED
    BY <2>3, <2>4, <2>5, <2>6
<1>3. QED
  BY <1>1, <1>2

\* So does an entry without its timer.
LEMMA ClearType ==
    ASSUME TypeOK, NEW k \in Slot, ClearHeartbeat(k)
    PROVE  /\ slot' \in [Slot -> Entry]
           /\ pending' \in [Slot -> SUBSET (Nat \ {0})]
           /\ UNCHANGED <<timers, beats>>
BY DEF ClearHeartbeat, TypeOK, Entry

\* The slot of a handler is one, and what it shows is a version.
LEMMA WorkType ==
    ASSUME TypeOK, NEW w \in Worker
    PROVE  /\ work[w] \in Work /\ work[w].of \in Slot /\ work[w].shows \in Version
           /\ work[w].sequence \in Nat /\ work[w].timer \in Nat /\ work[w].stage \in Stage
           /\ slot[work[w].of] \in Entry /\ work[w].card \in Version
BY DEF TypeOK, Work

\* Of the cards one is written: it stays a card.
LEMMA CardType ==
    ASSUME TypeOK, NEW k \in Slot, NEW c \in Version, NEW new \in Card,
           card' = [card EXCEPT ![k][c] = new]
    PROVE  card' \in [Slot -> [Version -> Card]]
BY DEF TypeOK

\* A handler that goes to another step keeps the types, if a heartbeat may.
LEMMA GotoType ==
    ASSUME TypeOK, NEW w \in Worker, NEW stage \in Stage, Goto(w, stage),
           w \in Beat => stage \in {"idle", "content", "settings", "reason"}
    PROVE  /\ work' \in [Worker -> Work]
           /\ \A b \in Beat : work'[b].stage \in {"idle", "content", "settings", "reason"}
BY DEF TypeOK, Goto, Work, Worker

\* The core posts an event.
LEMMA PostType ==
    ASSUME TypeOK, NEW k \in Slot, NEW isText \in BOOLEAN, Post(k, isText)
    PROVE  TypeOK'
<1>1. version' \in [Slot -> Version] /\ version[k] + 1 \in Version
  BY ConstantsAssumption DEF Post, TypeOK, Version
<1>2. CoreEvent \in Worker /\ CoreEvent \notin Beat
  BY ConstantsAssumption DEF Worker
<1>3. NextSequence(k) \in Nat /\ slot[k].timer \in Nat /\ slot[k].card \in Version
  BY DEF NextSequence, TypeOK, Entry
<1>4. PICK stage \in {"plain", "content", "create"} :
         work' = [work EXCEPT ![CoreEvent] =
                    [stage |-> stage, of |-> k, card |-> slot[k].card,
                     shows |-> version[k] + 1,
                     sequence |-> NextSequence(k), timer |-> slot[k].timer]]
  BY DEF Post
<1>5. /\ work' \in [Worker -> Work]
      /\ \A b \in Beat : work'[b].stage \in {"idle", "content", "settings", "reason"}
  BY <1>1, <1>2, <1>3, <1>4 DEF TypeOK, Work, Stage, Worker
<1>6. /\ slot' \in [Slot -> Entry]
      /\ pending' \in [Slot -> SUBSET (Nat \ {0})]
      /\ UNCHANGED <<timers, beats>>
  BY ClearType DEF Post, TypeOK, timerVars
<1>7. texts' \in [Slot -> SUBSET Version]
  BY <1>1 DEF Post, TypeOK
<1>8. QED
  BY <1>1, <1>5, <1>6, <1>7 DEF Post, TypeOK, feishuVars, mixVars

\* A timer fires.
LEMMA FireType == ASSUME TypeOK, NEW k \in Slot, NEW t \in pending[k], Fire(k, t) PROVE TypeOK'
<1>1. beats' \in [Slot -> 0 .. MaxBeats] /\ pending' \in [Slot -> SUBSET (Nat \ {0})]
  BY ConstantsAssumption DEF Fire, TypeOK
<1>2. /\ NextSequence(k) \in Nat /\ slot[k].timer \in Nat
      /\ slot[k].shows \in Version /\ slot[k].card \in Version
  BY DEF NextSequence, TypeOK, Entry
<1>3. \/ UNCHANGED work
      \/ \E b \in Beat : work' = [work EXCEPT ![b] =
            [stage |-> "content", of |-> k, card |-> slot[k].card, shows |-> slot[k].shows,
             sequence |-> NextSequence(k), timer |-> slot[k].timer]]
  BY DEF Fire
<1>4. /\ work' \in [Worker -> Work]
      /\ \A b \in Beat : work'[b].stage \in {"idle", "content", "settings", "reason"}
  <2>1. ASSUME NEW b \in Beat
        PROVE  /\ b \in Worker
               /\ [stage |-> "content", of |-> k, card |-> slot[k].card, shows |-> slot[k].shows,
                   sequence |-> NextSequence(k), timer |-> slot[k].timer] \in Work
    BY <1>2 DEF Work, Stage, Worker
  <2>2. CASE UNCHANGED work
    BY <2>2, SlotType
  <2>3. CASE ~UNCHANGED work
    <3>1. PICK b \in Beat : work' = [work EXCEPT ![b] =
            [stage |-> "content", of |-> k, card |-> slot[k].card, shows |-> slot[k].shows,
             sequence |-> NextSequence(k), timer |-> slot[k].timer]]
      BY <1>3, <2>3
    <3> DEFINE new == [stage |-> "content", of |-> k, card |-> slot[k].card,
                       shows |-> slot[k].shows, sequence |-> NextSequence(k),
                       timer |-> slot[k].timer]
    <3>2. b \in Worker /\ new \in Work /\ new.stage = "content"
      BY <2>1
    <3> HIDE DEF new
    <3>3. work' = [work EXCEPT ![b] = new]
      BY <3>1 DEF new
    <3>4. QED
      BY <3>2, <3>3, SlotType DEF Worker
  <2>4. QED
    BY <2>2, <2>3
<1>5. QED
  BY <1>1, <1>4 DEF Fire, TypeOK, feishuVars, postVars, mixVars

\* A handler takes a step.
LEMMA HandlerType ==
    ASSUME TypeOK, NEW w \in Worker,
           \/ CreateCard(w) \/ SendPlain(w)
           \/ UpdateContent(w) \/ RepeatContent(w) \/ UpdateSettings(w)
           \/ Fail(w) \/ SendReason(w) \/ SendBody(w) \/ GiveUp(w)
    PROVE  TypeOK'
<1> DEFINE k == work[w].of
<1>1. /\ k \in Slot /\ work[w].shows \in Version /\ slot[k] \in Entry
      /\ work[w].card \in Version
  BY WorkType
<1>2. work[w].sequence \in Nat /\ work[w].timer \in Nat
  BY WorkType
<1>3. w \in Beat => work[w].stage \in {"idle", "content", "settings", "reason"}
  BY DEF TypeOK
<1>4. \E stage \in Stage : /\ Goto(w, stage)
                           /\ w \in Beat => stage \in {"idle", "content", "settings", "reason"}
  BY <1>3, ConstantsAssumption DEF CreateCard, SendPlain, UpdateContent, RepeatContent,
     UpdateSettings, Fail, SendReason, SendBody, GiveUp, Done, Goto, At, Stage
<1>5. /\ work' \in [Worker -> Work]
      /\ \A b \in Beat : work'[b].stage \in {"idle", "content", "settings", "reason"}
  BY <1>4, GotoType
<1>6. CASE CreateCard(w)
  <2>1. [slot[k] EXCEPT !.card = work[w].shows, !.sequence = 1, !.shows = work[w].shows] \in Entry
    BY <1>1 DEF Entry
  <2>2. /\ slot' \in [Slot -> Entry]
        /\ pending' \in [Slot -> SUBSET (Nat \ {0})]
        /\ timers' \in [Slot -> Nat]
        /\ beats' = beats
    BY <1>6, <1>1, <2>1, EntryType DEF CreateCard
  <2>3. card' \in [Slot -> [Version -> Card]]
    <3>1. [last |-> 0, shows |-> work[w].shows] \in Card
      BY <1>1 DEF Card
    <3>2. QED
      BY <3>1, <1>6, <1>1, CardType DEF CreateCard
  <2>4. QED
    BY <1>6, <1>1, <1>5, <2>2, <2>3 DEF CreateCard, TypeOK, postVars
<1>7. CASE SendPlain(w)
  <2>1. [slot[k] EXCEPT !.card = 0, !.sequence = 0] \in Entry
    <3>1. 0 \in Version /\ 0 \in Nat
      BY ConstantsAssumption DEF Version
    <3>2. QED
      BY <1>1, <3>1 DEF Entry
  <2>2. /\ slot' \in [Slot -> Entry]
        /\ pending' \in [Slot -> SUBSET (Nat \ {0})]
        /\ timers' \in [Slot -> Nat]
        /\ beats' = beats
    BY <1>7, <1>1, <2>1, EntryType DEF SendPlain, timerVars, TypeOK
  <2>3. QED
    BY <1>7, <1>1, <1>5, <2>2 DEF SendPlain, TypeOK, postVars, mixVars
<1>8. CASE UpdateContent(w)
  <2>1. card' \in [Slot -> [Version -> Card]]
    <3>1. [last |-> work[w].sequence, shows |-> work[w].shows] \in Card
      BY <1>1, <1>2 DEF Card
    <3>2. QED
      BY <3>1, <1>8, <1>1, CardType DEF UpdateContent
  <2>2. QED
    BY <1>8, <1>1, <1>5, <2>1 DEF UpdateContent, TypeOK, timerVars, postVars, mixVars
<1>9. CASE RepeatContent(w)
  BY <1>9, <1>1, <1>5 DEF RepeatContent, TypeOK, timerVars, postVars, feishuVars
<1>10. CASE UpdateSettings(w)
  <2>1. /\ [card |-> work[w].card, sequence |-> work[w].sequence,
            shows |-> work[w].shows, timer |-> work[w].timer] \in Entry
        /\ [slot[k] EXCEPT !.sequence = work[w].sequence, !.shows = work[w].shows] \in Entry
    BY <1>1, <1>2 DEF Entry
  <2>2. \E entry \in Entry, named \in {{}, {work[w].timer}} : ReplaceAndArm(k, entry, named)
    BY <1>10, <2>1 DEF UpdateSettings
  <2>3. /\ slot' \in [Slot -> Entry]
        /\ pending' \in [Slot -> SUBSET (Nat \ {0})]
        /\ timers' \in [Slot -> Nat]
        /\ beats' = beats
    BY <1>1, <2>2, EntryType
  <2>4. card' \in [Slot -> [Version -> Card]] /\ mixed' \subseteq Slot
    <3> DEFINE new == [last |-> work[w].sequence + 1, shows |-> CardOf(w).shows]
    <3>1. new \in Card
      BY <1>1, <1>2, SlotType DEF Card, CardOf
    <3>2. /\ \/ UNCHANGED card
             \/ card' = [card EXCEPT ![k][work[w].card] = new]
          /\ UNCHANGED mixed \/ mixed' = mixed \cup {k}
      <4>1. TakeSettings(w)
        BY <1>10 DEF UpdateSettings
      <4>2. QED
        BY <4>1 DEF TakeSettings
    <3> HIDE DEF new
    <3>3. card' \in [Slot -> [Version -> Card]]
      BY <3>1, <3>2, <1>1, SlotType, CardType
    <3>4. mixed \subseteq Slot
      BY DEF TypeOK
    <3>5. QED
      BY <3>2, <3>3, <3>4, <1>1
  <2>5. answered' \in [Slot -> SUBSET Version]
    <3>1. \/ answered' = [answered EXCEPT ![k] = @ \cup {work[w].shows}]
          \/ UNCHANGED answered
      BY <1>10 DEF UpdateSettings
    <3>2. answered \in [Slot -> SUBSET Version]
      BY DEF TypeOK
    <3>3. QED
      BY <3>1, <3>2, <1>1
  <2>6. QED
    <3>1. UNCHANGED <<version, texts, fallback, seen, told, repeated>>
      BY <1>10 DEF UpdateSettings, postVars
    <3>2. QED
      BY <1>5, <2>3, <2>4, <2>5, <3>1 DEF TypeOK
<1>11. CASE Fail(w)
  <2>1. /\ slot' \in [Slot -> Entry]
        /\ pending' \in [Slot -> SUBSET (Nat \ {0})]
        /\ UNCHANGED <<timers, beats>>
    BY <1>11, <1>1, ClearType DEF Fail
  <2>2. QED
    BY <1>11, <1>1, <1>5, <2>1 DEF Fail, TypeOK, feishuVars, postVars, mixVars
<1>12. CASE SendBody(w)
  <2>1. NoEntry \in Entry
    BY ConstantsAssumption DEF NoEntry, Entry, Version
  <2>2. /\ slot' \in [Slot -> Entry]
        /\ pending' \in [Slot -> SUBSET (Nat \ {0})]
        /\ timers' \in [Slot -> Nat]
        /\ beats' = beats
    BY <1>12, <1>1, <2>1, EntryType DEF SendBody
  <2>3. QED
    BY <1>12, <1>1, <1>5, <2>2 DEF SendBody, TypeOK, postVars, mixVars
<1>13. CASE SendReason(w) \/ GiveUp(w)
  BY <1>13, <1>5 DEF SendReason, GiveUp, TypeOK, timerVars, feishuVars, postVars, mixVars
<1>14. QED
  BY <1>6, <1>7, <1>8, <1>9, <1>10, <1>11, <1>12, <1>13

\* The initial states have the types.
LEMMA InitType == Init => TypeOK
BY ConstantsAssumption DEF Init, TypeOK, NoEntry, Entry, Work, Card, Stage, Version, Worker

\* Every variable keeps its type: TypeOK is inductive by itself.
THEOREM TypeCorrect == Spec => []TypeOK
<1>1. TypeOK /\ [Next]_vars => TypeOK'
  <2> SUFFICES ASSUME TypeOK, [Next]_vars PROVE TypeOK'
    OBVIOUS
  <2>1. CASE UNCHANGED vars
    BY <2>1 DEF vars, TypeOK
  <2>2. QED
    BY <2>1, PostType, FireType, HandlerType DEF Next
<1>2. QED
  BY <1>1, InitType, PTL DEF Spec

-----------------------------------------------------------------------------
(* The inductive invariant                                                 *)

\* A card exists when it shows something.
Made(k, c) == card[k][c].shows # 0

\* An update whose first request Feishu would take.
Live(w) == At(w, "content") /\ Fits(w, work[w].sequence)

\* A handler waits for the second request of an update of k.
Updating(k) == \E w \in Worker : work[w].of = k /\ At(w, "settings")

\* A slot whose entry can be trusted.
InStep(k) == k \notin fallback \cup mixed /\ slot[k].card # 0

\* What the step of a handler says of its slot.
Stages ==
    \A w \in Worker :
       /\ work[w].stage \in {"content", "settings", "create"} => work[w].shows # 0
       /\ work[w].stage \in {"content", "settings"} => Made(work[w].of, work[w].card)
       /\ At(w, "create") => /\ slot[work[w].of].card = 0
                             /\ ~Made(work[w].of, work[w].shows)

\* The card that the handler of an event updates is the one of the entry.
Reading ==
    work[CoreEvent].stage \in {"content", "settings"}
       => work[CoreEvent].card = slot[work[CoreEvent].of].card /\ work[CoreEvent].card # 0

\* Nothing shows what the core has not posted.
Versions ==
    /\ \A k \in Slot : slot[k].shows <= version[k]
    /\ \A k \in Slot, c \in Version : card[k][c].shows <= version[k]
    /\ \A w \in Worker : work[w].shows <= version[work[w].of]

\* The card of an entry was made, of a posted version; a card not yet made has
\* taken no update.
Cards ==
    /\ \A k \in Slot : slot[k].card # 0 => slot[k].shows # 0 /\ Made(k, slot[k].card)
    /\ \A k \in Slot, c \in Version : IF Made(k, c) THEN c <= version[k]
                                                    ELSE card[k][c].last = 0

\* Where the entry can be trusted, all updates under way are of its card,
\* whoever can still get through has the next number, and no two are past
\* their first request.
Numbers ==
    /\ \A w \in Worker :
          InStep(work[w].of) =>
             /\ work[w].stage \in {"content", "settings"}
                   => work[w].card = slot[work[w].of].card
             /\ Live(w) => work[w].sequence = NextSequence(work[w].of)
             /\ At(w, "settings") => /\ work[w].sequence = NextSequence(work[w].of)
                                     /\ CardOf(w).last = work[w].sequence
                                     /\ CardOf(w).shows = work[w].shows
    /\ \A v, w \in Worker : /\ work[v].of = work[w].of /\ InStep(work[v].of)
                            /\ At(v, "settings") /\ At(w, "settings")
                            => v = w

\* Between updates such an entry repeats what its card shows.
Repeats ==
    \A k \in Slot :
       InStep(k) /\ ~Updating(k) => /\ card[k][slot[k].card].last < NextSequence(k)
                                    /\ slot[k].shows = card[k][slot[k].card].shows

\* Even in a slot that fell back: what can still get through is not older than
\* its card, and only one of several for a card can.
Order ==
    /\ \A w \in Worker : Live(w) /\ work[w].of \notin mixed
                             => CardOf(w).shows <= work[w].shows
    /\ \A v, w \in Worker : /\ work[v].of = work[w].of /\ work[v].of \notin mixed
                            /\ work[v].card = work[w].card /\ Live(v) /\ Live(w)
                            => work[v].sequence = work[w].sequence

\* A streaming card has a timer, or a handler that will set one.
Timers ==
    /\ OneTimer
    /\ \A k \in Streaming \ fallback :
          slot[k].card # 0 /\ version[k] \notin texts[k]
             => slot[k].timer \in pending[k] \/ UnderWay(k)

\* What is past its first request was seen, or passed for a repetition.
Answers ==
    /\ AnsweredIsSeen
    /\ \A w \in Worker : At(w, "settings")
                             => work[w].shows \in seen[work[w].of] \cup repeated[work[w].of]

CardInv == /\ TypeOK
           /\ Stages /\ Reading /\ Versions /\ Cards /\ Numbers /\ Repeats /\ Order
           /\ Timers /\ Answers

-----------------------------------------------------------------------------
(* What the actions do to the entry and to the handlers                    *)

\* The entry of k is replaced; of the timers only one that it names is left.
Entered(k, entry) ==
    /\ slot' = [slot EXCEPT ![k] = entry]
    /\ pending'[k] \subseteq {entry.timer}
    /\ \A j \in Slot \ {k} : pending'[j] = pending[j]

\* updateSlotState leaves no timer that the new entry does not name.
LEMMA ReplaceEnters ==
    ASSUME TypeOK, OneTimer, NEW k \in Slot, NEW entry \in Entry,
           NEW named \in {{}, {entry.timer}}, Replace(k, entry, named)
    PROVE  Entered(k, entry)
BY DEF Replace, Entered, OneTimer, TypeOK

\* scheduleCardHeartbeat leaves the timer it sets.
LEMMA ArmEnters ==
    ASSUME TypeOK, OneTimer, NEW k \in Slot, NEW entry \in Entry,
           NEW named \in {{}, {entry.timer}}, ReplaceAndArm(k, entry, named)
    PROVE  \E t \in Nat :
              /\ Entered(k, [entry EXCEPT !.timer = t])
              /\ k \in Streaming \ fallback /\ entry.card # 0 /\ entry.shows # 0 => t \in pending'[k]
<1>1. CASE Replace(k, entry, named) /\ (k \in fallback \/ entry.card = 0 \/ entry.shows = 0 \/ k \notin Streaming)
  <2>1. entry.timer \in Nat /\ [entry EXCEPT !.timer = entry.timer] = entry
    BY DEF Entry
  <2>2. Entered(k, [entry EXCEPT !.timer = entry.timer])
    BY <1>1, <2>1, ReplaceEnters
  <2>3. QED
    BY <1>1, <2>1, <2>2
<1>2. CASE ~(k \in fallback \/ entry.card = 0 \/ entry.shows = 0 \/ k \notin Streaming)
  <2> DEFINE t == timers[k] + 1
             new == [entry EXCEPT !.timer = t]
  <2>1. t \in Nat /\ new.timer = t
    BY DEF TypeOK, Entry
  <2>2. slot' = [slot EXCEPT ![k] = new]
    BY <1>2 DEF ReplaceAndArm
  <2>3. pending' = [pending EXCEPT ![k] = (@ \ {slot[k].timer, entry.timer}) \cup {t}]
    BY <1>2 DEF ReplaceAndArm
  <2>4. pending'[k] = {t} /\ \A j \in Slot \ {k} : pending'[j] = pending[j]
    BY <2>3 DEF OneTimer, TypeOK
  <2>5. QED
    BY <2>1, <2>2, <2>4 DEF Entered
<1>3. QED
  BY <1>1, <1>2 DEF ReplaceAndArm

\* clearHeartbeat leaves no timer.
LEMMA ClearEnters ==
    ASSUME TypeOK, OneTimer, NEW k \in Slot, ClearHeartbeat(k)
    PROVE  Entered(k, [slot[k] EXCEPT !.timer = 0])
<1>1. [slot[k] EXCEPT !.timer = 0].timer = 0
  BY DEF TypeOK, Entry
<1>2. QED
  BY <1>1 DEF ClearHeartbeat, Entered, OneTimer, TypeOK

\* A handler w that goes to another step is the only one that changes, and
\* nothing of it but its step.
Steps(w, stage) ==
    \A u \in Worker : /\ work'[u].of = work[u].of
                      /\ work'[u].card = work[u].card
                      /\ work'[u].shows = work[u].shows
                      /\ work'[u].sequence = work[u].sequence
                      /\ work'[u].stage = IF u = w THEN stage ELSE work[u].stage

LEMMA GotoSteps ==
    ASSUME TypeOK, NEW w \in Worker, NEW stage, Goto(w, stage)
    PROVE  Steps(w, stage)
BY DEF TypeOK, Work, Goto, Steps

\* The sequence numbers and versions are numbers.
LEMMA Numeric ==
    ASSUME TypeOK
    PROVE  /\ \A w \in Worker : /\ work[w].of \in Slot /\ work[w].card \in Version
                                /\ work[w].sequence \in Nat /\ work[w].shows \in Nat
                                /\ work[w].shows \in Version /\ CardOf(w) \in Card
                                /\ CardOf(w).last \in Nat /\ CardOf(w).shows \in Nat
           /\ \A k \in Slot : /\ slot[k].sequence \in Nat /\ slot[k].shows \in Nat
                              /\ slot[k].card \in Version /\ version[k] \in Nat
           /\ \A k \in Slot, c \in Version : /\ card[k][c].last \in Nat
                                             /\ card[k][c].shows \in Nat
           /\ \A c \in Version : c \in Nat
<1>1. \A c \in Version : c \in Nat
  BY ConstantsAssumption DEF Version
<1>2. \A k \in Slot, c \in Version : /\ card[k][c] \in Card /\ card[k][c].last \in Nat
                                     /\ card[k][c].shows \in Nat
  BY <1>1, SlotType DEF Card
<1>3. \A k \in Slot : /\ slot[k].sequence \in Nat /\ slot[k].shows \in Nat
                      /\ slot[k].card \in Version /\ version[k] \in Nat
  BY <1>1, SlotType DEF Entry, TypeOK
<1>4. \A w \in Worker : /\ work[w].of \in Slot /\ work[w].card \in Version
                        /\ work[w].sequence \in Nat /\ work[w].shows \in Nat
                        /\ work[w].shows \in Version
  BY <1>1, SlotType DEF Work
<1>5. QED
  BY <1>1, <1>2, <1>3, <1>4 DEF CardOf

\* The handlers of the other slots see no change in the cards.
LEMMA OtherCards ==
    ASSUME TypeOK, NEW w \in Worker, NEW new, NEW u \in Worker,
           card' = [card EXCEPT ![work[w].of][work[w].card] = new],
           work'[u].of = work[u].of, work'[u].card = work[u].card
    PROVE  /\ work[u].of = work[w].of /\ work[u].card = work[w].card => CardOf(u)' = new
           /\ work[u].of # work[w].of \/ work[u].card # work[w].card => CardOf(u)' = CardOf(u)
<1>1. \A j \in Slot, d \in Version :
         card'[j][d] = IF j = work[w].of /\ d = work[w].card THEN new ELSE card[j][d]
  <2>1. work[w].of \in Slot /\ work[w].card \in Version
    BY Numeric
  <2>2. QED
    BY <2>1, SlotType
<1>2. work[u].of \in Slot /\ work[u].card \in Version
  BY Numeric
<1>3. QED
  BY <1>1, <1>2 DEF CardOf

-----------------------------------------------------------------------------
(* Every step keeps the invariant                                          *)

\* The first request of an update is taken: nobody else can get through to the
\* card now.
LEMMA ContentKeeps ==
    ASSUME CardInv, TypeOK', NEW w \in Worker, UpdateContent(w)
    PROVE  CardInv'
<1> DEFINE k == work[w].of
           c == work[w].card
           new == [last |-> work[w].sequence, shows |-> work[w].shows]
<1> USE DEF CardInv
<1>1. Steps(w, "settings") /\ k \in Slot /\ c \in Version
  BY GotoSteps, WorkType DEF UpdateContent
<1>2. /\ card' = [card EXCEPT ![k][c] = new]
      /\ UNCHANGED <<version, texts, slot, fallback, pending, told, answered, repeated, mixed>>
  BY DEF UpdateContent, timerVars, postVars, mixVars
<1>3. /\ new.last = work[w].sequence /\ new.shows = work[w].shows
      /\ \A j \in Slot, d \in Version : card'[j][d] = IF j = k /\ d = c THEN new ELSE card[j][d]
  <2>1. new.last = work[w].sequence /\ new.shows = work[w].shows
    OBVIOUS
  <2> HIDE DEF new
  <2>2. QED
    BY <1>1, <1>2, <2>1, SlotType
<1> HIDE DEF new
<1>4. /\ Live(w) /\ At(w, "content") /\ CardOf(w).last < work[w].sequence
      /\ work[w].shows # 0 /\ Made(k, c) /\ CardOf(w) = card[k][c]
      /\ k \notin mixed => CardOf(w).shows <= work[w].shows
  BY Numeric DEF UpdateContent, Live, Fits, Order, Stages, At, CardOf
<1>5. \A u \in Worker : IF work[u].of = k /\ work[u].card = c
                           THEN CardOf(u)' = new /\ CardOf(u) = CardOf(w)
                           ELSE /\ CardOf(u)' = CardOf(u)
                                /\ Live(u)' <=> Live(u)
  <2> SUFFICES ASSUME NEW u \in Worker
               PROVE  IF work[u].of = k /\ work[u].card = c
                        THEN CardOf(u)' = new /\ CardOf(u) = CardOf(w)
                        ELSE /\ CardOf(u)' = CardOf(u)
                             /\ Live(u)' <=> Live(u)
    OBVIOUS
  <2>1. work'[u].of = work[u].of /\ work'[u].card = work[u].card
    BY <1>1 DEF Steps
  <2>2. CASE work[u].of = k /\ work[u].card = c
    BY <2>1, <2>2, <1>2, OtherCards DEF CardOf
  <2>3. CASE ~(work[u].of = k /\ work[u].card = c)
    <3>1. CardOf(u)' = CardOf(u)
      BY <2>1, <2>3, <1>2, OtherCards
    <3>2. u # w
      BY <2>3
    <3>3. QED
      BY <3>1, <3>2, <2>3, <1>1 DEF Live, Fits, At, Steps
  <2>4. QED
    BY <2>2, <2>3
<1>6. ASSUME NEW u \in Worker, work[u].of = k, work[u].card = c, k \notin mixed
      PROVE  ~Live(u)'
  <2>1. CASE Live(u)
    <3>1. work[u].sequence = work[w].sequence
      BY <2>1, <1>4, <1>6 DEF Order
    <3>2. QED
      BY <3>1, <1>1, <1>3, <1>5, <1>6, Numeric DEF Live, Fits, Steps
  <2>2. CASE ~Live(u)
    <3>1. At(u, "content")' => At(u, "content")
      BY <1>1 DEF At, Steps
    <3>2. At(u, "content") => work[u].sequence <= CardOf(u).last
      BY <2>2, Numeric DEF Live, Fits
    <3>3. QED
      BY <3>1, <3>2, <1>1, <1>3, <1>4, <1>5, <1>6, Numeric DEF Live, Fits, Steps
  <2>3. QED
    BY <2>1, <2>2
<1>7. ASSUME InStep(k)
      PROVE  /\ work[w].sequence = NextSequence(k) /\ slot[k].card = c
             /\ \A u \in Worker : work[u].of = k => ~At(u, "settings")
  <2>1. work[w].sequence = NextSequence(k) /\ slot[k].card = c
    BY <1>4, <1>7 DEF Numbers, At
  <2>2. ASSUME NEW u \in Worker, work[u].of = k, At(u, "settings") PROVE FALSE
    <3>1. /\ work[u].card = c /\ work[u].sequence = NextSequence(k)
          /\ CardOf(u).last = work[u].sequence
      BY <2>1, <2>2, <1>7 DEF Numbers, At
    <3>2. CardOf(u) = CardOf(w)
      BY <3>1, <2>2, <1>5
    <3>3. QED
      BY <3>1, <3>2, <2>1, <1>4, Numeric
  <2>3. QED
    BY <2>1, <2>2
<1>8. \A j \in Slot, d \in Version : Made(j, d)' <=> Made(j, d)
  BY <1>3, <1>4 DEF Made
<1>9. \A j : InStep(j)' <=> InStep(j)
  BY <1>2 DEF InStep
<1>10. Stages' /\ Reading'
  <2>1. Stages'
    BY <1>1, <1>2, <1>4, <1>8, Numeric DEF Stages, Steps, At
  <2>2. Reading'
    BY <1>1, <1>2, <1>4, ConstantsAssumption DEF Reading, Steps, At, Worker
  <2>3. QED
    BY <2>1, <2>2
<1>11. Versions' /\ Cards'
  <2>1. Versions'
    BY <1>1, <1>2, <1>3 DEF Versions, Steps
  <2>2. Cards'
    BY <1>2, <1>3, <1>4, <1>8, Numeric DEF Cards
  <2>3. QED
    BY <2>1, <2>2
<1>12. Numbers'
  <2>1. ASSUME NEW u \in Worker, InStep(work[u].of)
        PROVE  /\ work[u].stage \in {"content", "settings"} => work[u].card = slot[work[u].of].card
               /\ Live(u)' => work[u].sequence = NextSequence(work[u].of)
               /\ At(u, "settings")' => /\ work[u].sequence = NextSequence(work[u].of)
                                        /\ CardOf(u)'.last = work[u].sequence
                                        /\ CardOf(u)'.shows = work[u].shows
    <3>1. CASE work[u].of = k
      <4>1. u = w \/ ~At(u, "settings")'
        BY <3>1, <2>1, <1>1, <1>7 DEF Steps, At
      <4>2. ~Live(u)'
        <5>1. k \notin mixed
          BY <3>1, <2>1 DEF InStep
        <5>2. At(u, "content")' => At(u, "content")
          BY <1>1 DEF At, Steps
        <5>3. At(u, "content") => work[u].card = c
          BY <3>1, <2>1, <1>7 DEF Numbers, At
        <5>4. QED
          BY <5>1, <5>2, <5>3, <3>1, <1>6 DEF Live
      <4>3. QED
        BY <4>1, <4>2, <3>1, <2>1, <1>3, <1>5, <1>7 DEF Numbers
    <3>2. CASE work[u].of # k
      <4>1. At(u, "settings")' <=> At(u, "settings")
        BY <3>2, <1>1 DEF Steps, At
      <4>2. QED
        BY <4>1, <3>2, <2>1, <1>5 DEF Numbers
    <3>3. QED
      BY <3>1, <3>2
  <2>2. ASSUME NEW u \in Worker, NEW v \in Worker, work[v].of = work[u].of, InStep(work[v].of),
               At(v, "settings")', At(u, "settings")'
        PROVE  v = u
    <3>1. CASE work[v].of = k
      BY <3>1, <2>2, <1>1, <1>7 DEF Steps, At
    <3>2. CASE work[v].of # k
      BY <3>2, <2>2, <1>1 DEF Steps, At, Numbers
    <3>3. QED
      BY <3>1, <3>2
  <2>3. \A u \in Worker : /\ work'[u].of = work[u].of /\ work'[u].card = work[u].card
                          /\ work'[u].shows = work[u].shows
                          /\ work'[u].sequence = work[u].sequence
                          /\ work'[u].stage \in {"content", "settings"}
                                => work[u].stage \in {"content", "settings"}
    BY <1>1, <1>4 DEF Steps, At
  <2>4. slot' = slot /\ \A j : NextSequence(j)' = NextSequence(j)
    BY <1>2 DEF NextSequence
  <2>5. QED
    BY <2>1, <2>2, <2>3, <2>4, <1>9 DEF Numbers
<1>13. Repeats'
  <2> SUFFICES ASSUME NEW j \in Slot, InStep(j), ~Updating(j)'
               PROVE  /\ card'[j][slot[j].card].last < NextSequence(j)
                      /\ slot[j].shows = card'[j][slot[j].card].shows
    BY <1>2, <1>9 DEF Repeats, NextSequence
  <2>1. j # k
    BY <1>1 DEF Updating, Steps, At
  <2>2. ~Updating(j)
    BY <2>1, <1>1 DEF Updating, Steps, At
  <2>3. slot[j].card \in Version
    BY Numeric
  <2>4. QED
    BY <2>1, <2>2, <2>3, <1>3 DEF Repeats
<1>14. Order'
  <2>1. \A u \in Worker : /\ work'[u].of = work[u].of /\ work'[u].card = work[u].card
                          /\ work'[u].shows = work[u].shows
                          /\ work'[u].sequence = work[u].sequence
    BY <1>1 DEF Steps
  <2>2. \A u \in Worker : Live(u)' /\ work[u].of \notin mixed
                             => CardOf(u)' = CardOf(u) /\ Live(u)
    BY <1>5, <1>6
  <2>3. QED
    BY <2>1, <2>2, <1>2 DEF Order
<1>15. Timers'
  <2>1. \A j \in Slot : UnderWay(j) => UnderWay(j)'
    BY <1>1, <1>4 DEF UnderWay, Steps, At
  <2>2. QED
    BY <2>1, <1>2, ConstantsAssumption DEF Timers, OneTimer
<1>16. Answers'
  <2>1. /\ work[w].shows \in seen'[k]
        /\ \A j \in Slot : seen[j] \subseteq seen'[j]
    BY <1>1 DEF UpdateContent, TypeOK
  <2>2. QED
    BY <2>1, <1>1, <1>2, Numeric DEF Answers, AnsweredIsSeen, Steps, At
<1>17. QED
  BY <1>10, <1>11, <1>12, <1>13, <1>14, <1>15, <1>16

\* The number was used and passes for a repetition: nothing is promised of the
\* entry any more.
LEMMA RepeatKeeps ==
    ASSUME CardInv, TypeOK', NEW w \in Worker, RepeatContent(w)
    PROVE  CardInv'
<1> DEFINE k == work[w].of
<1> USE DEF CardInv
<1>1. Steps(w, "settings") /\ k \in Slot /\ At(w, "content")
  BY GotoSteps, WorkType DEF RepeatContent
<1>2. /\ mixed' = mixed \cup {k}
      /\ UNCHANGED <<version, texts, slot, fallback, pending, card, seen, told, answered>>
  BY DEF RepeatContent, timerVars, postVars, feishuVars
<1>3. \A u \in Worker : CardOf(u)' = CardOf(u) /\ (Live(u)' => Live(u))
  BY <1>1, <1>2 DEF CardOf, Live, Fits, At, Steps
<1>4. \A j : InStep(j)' => InStep(j) /\ j # k
  BY <1>2 DEF InStep
<1>5. Stages' /\ Reading'
  <2>1. Stages'
    BY <1>1, <1>2 DEF Stages, Steps, At, Made
  <2>2. Reading'
    BY <1>1, <1>2, ConstantsAssumption DEF Reading, Steps, At, Worker
  <2>3. QED
    BY <2>1, <2>2
<1>6. Versions' /\ Cards'
  BY <1>1, <1>2 DEF Versions, Cards, Made, Steps
<1>7. Numbers'
  <2>1. \A u \in Worker : /\ work'[u].of = work[u].of /\ work'[u].card = work[u].card
                          /\ work'[u].shows = work[u].shows
                          /\ work'[u].sequence = work[u].sequence
                          /\ work[u].of # k => work'[u].stage = work[u].stage
    BY <1>1 DEF Steps
  <2>2. QED
    BY <2>1, <1>2, <1>3, <1>4 DEF Numbers, NextSequence, At
<1>8. Repeats'
  <2>1. \A j \in Slot \ {k} : Updating(j)' <=> Updating(j)
    BY <1>1 DEF Updating, Steps, At
  <2>2. QED
    BY <2>1, <1>2, <1>4 DEF Repeats, NextSequence
<1>9. Order'
  BY <1>1, <1>2, <1>3 DEF Order, Steps
<1>10. Timers'
  <2>1. \A j \in Slot : UnderWay(j) => UnderWay(j)'
    BY <1>1 DEF UnderWay, Steps, At
  <2>2. QED
    BY <2>1, <1>2, ConstantsAssumption DEF Timers, OneTimer
<1>11. Answers'
  <2>1. /\ work[w].shows \in repeated'[k]
        /\ \A j \in Slot : repeated[j] \subseteq repeated'[j]
    BY <1>1 DEF RepeatContent, TypeOK
  <2>2. QED
    BY <2>1, <1>1, <1>2, Numeric DEF Answers, AnsweredIsSeen, Steps, At
<1>12. QED
  BY <1>5, <1>6, <1>7, <1>8, <1>9, <1>10, <1>11

\* The new entry of k and its timer, as the other steps see them.
LEMMA EnteredEntry ==
    ASSUME TypeOK, NEW k \in Slot, NEW entry \in Entry, NEW t \in Nat,
           Entered(k, [entry EXCEPT !.timer = t])
    PROVE  /\ slot'[k].card = entry.card /\ slot'[k].sequence = entry.sequence
           /\ slot'[k].shows = entry.shows /\ slot'[k].timer = t
           /\ pending'[k] \subseteq {t}
           /\ \A j \in Slot \ {k} : slot'[j] = slot[j] /\ pending'[j] = pending[j]
<1>1. [entry EXCEPT !.timer = t] \in Entry /\ [entry EXCEPT !.timer = t].timer = t
  BY DEF Entry
<1>2. slot'[k] = [entry EXCEPT !.timer = t] /\ \A j \in Slot \ {k} : slot'[j] = slot[j]
  BY <1>1 DEF Entered, TypeOK
<1>3. QED
  BY <1>1, <1>2 DEF Entered, Entry

\* The second request is taken, or passes for a repetition, and the entry
\* catches up with the card.
LEMMA SettingsKeeps ==
    ASSUME CardInv, TypeOK', NEW w \in Worker, UpdateSettings(w)
    PROVE  CardInv'
<1>0. PICK k \in Slot, c \in Version : k = work[w].of /\ c = work[w].card
  BY WorkType DEF CardInv
<1> USE <1>0
<1> DEFINE new == [last |-> work[w].sequence + 1, shows |-> CardOf(w).shows]
           read == [card |-> work[w].card, sequence |-> work[w].sequence,
                    shows |-> work[w].shows, timer |-> work[w].timer]
           changed == [slot[k] EXCEPT !.sequence = work[w].sequence, !.shows = work[w].shows]
<1> USE DEF CardInv
<1>1. /\ Steps(w, "idle") /\ k \in Slot /\ c \in Version
      /\ At(w, "settings") /\ work[w].shows # 0 /\ Made(k, c) /\ CardOf(w) = card[k][c]
  BY GotoSteps, WorkType DEF UpdateSettings, Done, Goto, Stages, At, CardOf
<1>2. /\ UNCHANGED <<version, texts, fallback, seen, told, repeated>>
      /\ mixed \subseteq mixed' /\ \A j : j # k => (j \in mixed' <=> j \in mixed)
  <2>1. TakeSettings(w) /\ UNCHANGED <<version, texts, fallback, seen, told, repeated>>
    BY DEF UpdateSettings, postVars
  <2>2. mixed' = mixed \/ mixed' = mixed \cup {k}
    BY <2>1 DEF TakeSettings
  <2>3. QED
    BY <2>1, <2>2
<1>3. /\ new.last = work[w].sequence + 1 /\ new.shows = card[k][c].shows
      /\ \A j \in Slot, d \in Version : card'[j][d].shows = card[j][d].shows
      /\ \A j \in Slot, d \in Version : card'[j][d] = card[j][d] \/ (j = k /\ d = c)
      /\ \A j \in Slot, d \in Version : card'[j][d].last >= card[j][d].last
      /\ k \notin mixed' => card'[k][c] = new
  <2>1. new.last = work[w].sequence + 1 /\ new.shows = card[k][c].shows
    BY <1>1
  <2>2. TakeSettings(w) /\ CardOf(w).last \in Nat /\ work[w].sequence \in Nat
    BY Numeric DEF UpdateSettings
  <2>3. \/ /\ card' = [card EXCEPT ![k][c] = new] /\ CardOf(w).last < work[w].sequence + 1
        \/ card' = card /\ k \in mixed'
    BY <2>2 DEF TakeSettings, Fits
  <2> HIDE DEF new
  <2>4. CASE card' = [card EXCEPT ![k][c] = new] /\ CardOf(w).last < work[w].sequence + 1
    <3>1. \A j \in Slot, d \in Version : card'[j][d] = IF j = k /\ d = c THEN new ELSE card[j][d]
      BY <2>4, <1>1, SlotType
    <3>2. QED
      BY <3>1, <2>1, <2>4, <1>1, Numeric
  <2>5. CASE card' = card /\ k \in mixed'
    BY <2>1, <2>5, Numeric
  <2>6. QED
    BY <2>3, <2>4, <2>5
<1> HIDE DEF new
<1>4. InStep(k) => /\ c = slot[k].card /\ work[w].sequence = NextSequence(k)
                   /\ card[k][c].last = work[w].sequence
                   /\ card[k][c].shows = work[w].shows
                   /\ \A u \in Worker : work[u].of = k /\ At(u, "settings") => u = w
  BY <1>1 DEF Numbers, At
<1>5. /\ read \in Entry /\ read.card = c /\ read.sequence = work[w].sequence
      /\ read.shows = work[w].shows /\ read.timer = work[w].timer
      /\ changed \in Entry /\ changed.card = slot[k].card
      /\ changed.sequence = work[w].sequence /\ changed.shows = work[w].shows
  BY <1>1, WorkType DEF Entry
<1>6. w = CoreEvent => c = slot[k].card
  BY <1>1 DEF Reading, At
<1>7. PICK entry \in Entry, named \in {{}, {work[w].timer}} :
         /\ ReplaceAndArm(k, entry, named) /\ named \in {{}, {entry.timer}}
         /\ entry.sequence = work[w].sequence /\ entry.shows = work[w].shows
         /\ entry.card = slot[k].card
  <2>1. CASE w = CoreEvent
    BY <2>1, <1>5, <1>6 DEF UpdateSettings
  <2>2. CASE w # CoreEvent
    BY <2>2, <1>5 DEF UpdateSettings
  <2>3. QED
    BY <2>1, <2>2
<1> HIDE DEF read, changed
<1>8. PICK t \in Nat : /\ Entered(k, [entry EXCEPT !.timer = t])
                       /\ k \in Streaming \ fallback /\ entry.card # 0 /\ entry.shows # 0
                             => t \in pending'[k]
  <2>1. TypeOK /\ OneTimer
    BY DEF Timers
  <2>2. QED
    BY <2>1, <1>1, <1>7, ArmEnters
<1>9. /\ slot'[k].sequence = work[w].sequence /\ slot'[k].shows = work[w].shows
      /\ slot'[k].card = slot[k].card
      /\ k \in Streaming \ fallback /\ slot'[k].card # 0 => slot'[k].timer \in pending'[k]
      /\ pending'[k] \subseteq {slot'[k].timer}
      /\ \A j \in Slot \ {k} : slot'[j] = slot[j] /\ pending'[j] = pending[j]
  <2>1. /\ slot'[k].card = entry.card /\ slot'[k].sequence = entry.sequence
        /\ slot'[k].shows = entry.shows /\ slot'[k].timer = t
        /\ pending'[k] \subseteq {t}
        /\ \A j \in Slot \ {k} : slot'[j] = slot[j] /\ pending'[j] = pending[j]
    BY <1>1, <1>8, EnteredEntry
  <2>2. QED
    BY <2>1, <1>1, <1>7, <1>8
<1>10. /\ \A j \in Slot : InStep(j)' => InStep(j) /\ (j = k => card'[k][c] = new)
       /\ \A j \in Slot, d \in Version : Made(j, d)' <=> Made(j, d)
       /\ \A j \in Slot : slot'[j].card = slot[j].card
  <2>1. \A j \in Slot : slot'[j].card = slot[j].card
    BY <1>9
  <2>2. \A j \in Slot : InStep(j)' => InStep(j) /\ (j = k => card'[k][c] = new)
    BY <2>1, <1>2, <1>3 DEF InStep
  <2>3. ASSUME NEW j \in Slot, NEW d \in Version PROVE Made(j, d)' <=> Made(j, d)
    <3>1. card'[j][d].shows = card[j][d].shows
      BY <1>3
    <3>2. QED
      BY <3>1 DEF Made
  <2>4. QED
    BY <2>1, <2>2, <2>3
<1>11. \A u \in Worker : /\ work'[u].of = work[u].of /\ work'[u].card = work[u].card
                         /\ work'[u].shows = work[u].shows
                         /\ work'[u].sequence = work[u].sequence
                         /\ work'[u].stage = IF u = w THEN "idle" ELSE work[u].stage
                         /\ work[u].of \in Slot /\ work[u].card \in Version
  BY <1>1, Numeric DEF Steps
<1>12. \A u \in Worker : /\ CardOf(u)'.shows = CardOf(u).shows
                         /\ work[u].of # k => CardOf(u)' = CardOf(u)
                         /\ Live(u)' => Live(u)
                         /\ InStep(k)' /\ work[u].of = k => ~Live(u)'
  <2> SUFFICES ASSUME NEW u \in Worker
               PROVE  /\ CardOf(u)'.shows = CardOf(u).shows
                      /\ work[u].of # k => CardOf(u)' = CardOf(u)
                      /\ Live(u)' => Live(u)
                      /\ InStep(k)' /\ work[u].of = k => ~Live(u)'
    OBVIOUS
  <2>1. CardOf(u)' = card'[work[u].of][work[u].card]
    BY <1>11 DEF CardOf
  <2>2. /\ CardOf(u)'.shows = CardOf(u).shows
        /\ work[u].of # k => CardOf(u)' = CardOf(u)
        /\ CardOf(u)'.last >= CardOf(u).last
    <3> DEFINE j == work[u].of
               d == work[u].card
    <3>1. j \in Slot /\ d \in Version /\ CardOf(u) = card[j][d] /\ CardOf(u)' = card'[j][d]
      BY <2>1, <1>11 DEF CardOf
    <3> HIDE DEF j, d
    <3>2. /\ card'[j][d].shows = card[j][d].shows
          /\ card'[j][d] = card[j][d] \/ (j = k /\ d = c)
          /\ card'[j][d].last >= card[j][d].last
      BY <3>1, <1>3
    <3>3. QED
      BY <3>1, <3>2 DEF j
  <2>3. CardOf(u)'.last \in Nat /\ CardOf(u).last \in Nat /\ work[u].sequence \in Nat
    BY <2>1, <1>11, Numeric, SlotType DEF Card, TypeOK
  <2>4. Live(u)' => Live(u)
    BY <2>2, <2>3, <1>11 DEF Live, Fits, At
  <2>5. InStep(k)' /\ work[u].of = k => ~Live(u)'
    <3> SUFFICES ASSUME InStep(k)', work[u].of = k, Live(u)' PROVE FALSE
      OBVIOUS
    <3>1. Live(u) /\ InStep(k) /\ card'[k][c] = new
      <4>1. Live(u)
        BY <2>4
      <4>2. InStep(k) /\ card'[k][c] = new
        BY <1>10, <1>1
      <4>3. QED
        BY <4>1, <4>2
    <3>2. work[u].card = c /\ work[u].sequence = work[w].sequence
      BY <3>1, <1>4 DEF Numbers, Live, At
    <3>3. CardOf(u)'.last = work[w].sequence + 1
      BY <3>1, <3>2, <2>1, <1>3
    <3>4. CardOf(u)'.last < work[u].sequence
      BY <2>3, <1>11 DEF Live, Fits
    <3>5. QED
      BY <3>2, <3>3, <3>4, <2>3
  <2>6. QED
    BY <2>2, <2>4, <2>5
<1>13. Stages' /\ Reading'
  <2>1. Stages'
    BY <1>10, <1>11, Numeric DEF Stages, At
  <2>2. Reading'
    BY <1>10, <1>11, ConstantsAssumption DEF Reading, Worker
  <2>3. QED
    BY <2>1, <2>2
<1>14. Versions' /\ Cards'
  <2>1. Versions'
    <3>1. work[w].shows <= version[k]
      BY DEF Versions
    <3>2. \A j \in Slot : slot'[j].shows <= version[j]
      BY <3>1, <1>9 DEF Versions
    <3>3. \A j \in Slot, d \in Version : card'[j][d].shows <= version[j]
      BY <1>3 DEF Versions
    <3>4. \A u \in Worker : work'[u].shows <= version[work'[u].of]
      BY <1>11 DEF Versions
    <3>5. QED
      BY <3>2, <3>3, <3>4, <1>2 DEF Versions
  <2>2. Cards'
    <3>1. ASSUME NEW j \in Slot, slot'[j].card # 0
          PROVE  slot'[j].shows # 0 /\ card'[j][slot'[j].card].shows # 0
      <4>1. slot'[j].card = slot[j].card /\ slot[j].card \in Version
        BY <1>10, Numeric
      <4>2. slot[j].shows # 0 /\ Made(j, slot[j].card)
        BY <3>1, <4>1 DEF Cards
      <4>3. slot'[j].shows # 0
        BY <4>2, <1>1, <1>9
      <4>4. \A d \in Version : card'[j][d].shows = card[j][d].shows
        BY <1>3
      <4>5. QED
        BY <4>1, <4>2, <4>3, <4>4 DEF Made
    <3>2. ASSUME NEW j \in Slot, NEW d \in Version
          PROVE  IF Made(j, d)' THEN d <= version[j] ELSE card'[j][d].last = 0
      <4>1. Made(j, d)' <=> Made(j, d)
        BY <1>10
      <4>2. IF Made(j, d) THEN d <= version[j] ELSE card[j][d].last = 0
        BY DEF Cards
      <4>3. card'[j][d] = card[j][d] \/ Made(j, d)
        BY <1>1, <1>3
      <4>4. QED
        BY <4>1, <4>2, <4>3
    <3>3. QED
      BY <3>1, <3>2, <1>2 DEF Cards, Made
  <2>3. QED
    BY <2>1, <2>2
<1>15. Numbers'
  <2>1. ASSUME NEW u \in Worker, NEW j \in Slot, work[u].of = j, InStep(j)'
        PROVE  /\ work'[u].stage \in {"content", "settings"} => work[u].card = slot'[j].card
               /\ Live(u)' => work[u].sequence = NextSequence(j)'
               /\ At(u, "settings")' => /\ work[u].sequence = NextSequence(j)'
                                        /\ CardOf(u)'.last = work[u].sequence
                                        /\ CardOf(u)'.shows = work[u].shows
    <3>1. InStep(j) /\ slot'[j].card = slot[j].card
      BY <2>1, <1>10, <1>11
    <3>2. work'[u].stage \in {"content", "settings"} => work[u].card = slot'[j].card
      BY <2>1, <3>1, <1>11 DEF Numbers
    <3>3. CASE j = k
      <4>1. ~Live(u)'
        BY <3>3, <2>1, <1>12
      <4>2. ~At(u, "settings")'
        BY <2>1, <3>1, <3>3, <1>4, <1>11 DEF At
      <4>3. QED
        BY <3>2, <4>1, <4>2
    <3>4. CASE j # k
      <4>1. /\ NextSequence(j)' = NextSequence(j)
            /\ At(u, "settings")' => At(u, "settings")
        BY <3>4, <1>9, <1>11 DEF NextSequence, At
      <4>2. CardOf(u)' = CardOf(u) /\ (Live(u)' => Live(u))
        BY <2>1, <3>4, <1>12
      <4>3. QED
        BY <2>1, <3>1, <3>2, <4>1, <4>2 DEF Numbers
    <3>5. QED
      BY <3>3, <3>4
  <2>2. ASSUME NEW u \in Worker, NEW v \in Worker, NEW j \in Slot, work[v].of = j,
               work[u].of = j, InStep(j)', At(v, "settings")', At(u, "settings")'
        PROVE  v = u
    <3>1. InStep(j) /\ At(v, "settings") /\ At(u, "settings")
      BY <2>2, <1>10, <1>11 DEF At
    <3>2. QED
      BY <3>1, <2>2 DEF Numbers
  <2>3. QED
    BY <2>1, <2>2, <1>11 DEF Numbers
<1>16. Repeats'
  <2> SUFFICES ASSUME NEW j \in Slot, InStep(j)', ~Updating(j)'
               PROVE  /\ card'[j][slot'[j].card].last < NextSequence(j)'
                      /\ slot'[j].shows = card'[j][slot'[j].card].shows
    BY DEF Repeats
  <2>1. InStep(j) /\ slot'[j].card = slot[j].card /\ slot[j].card \in Version
    BY <1>10, Numeric
  <2>2. CASE j = k
    BY <2>1, <2>2, <1>1, <1>3, <1>4, <1>9, <1>10, Numeric DEF NextSequence
  <2>3. CASE j # k
    <3>1. ~Updating(j)
      BY <2>3, <1>11 DEF Updating, At
    <3>2. QED
      BY <3>1, <2>1, <2>3, <1>3, <1>9 DEF Repeats, NextSequence
  <2>4. QED
    BY <2>2, <2>3
<1>17. Order'
  <2>1. mixed \subseteq mixed'
    BY <1>2
  <2>2. QED
    BY <2>1, <1>11, <1>12 DEF Order
<1>18. Timers'
  <2>1. OneTimer'
    BY <1>9 DEF Timers, OneTimer
  <2>2. \A j \in Slot \ {k} : UnderWay(j) => UnderWay(j)'
    BY <1>1, <1>11 DEF UnderWay, At
  <2>3. QED
    BY <2>1, <2>2, <1>2, <1>9, ConstantsAssumption DEF Timers
<1>19. Answers'
  <2>1. \A j \in Slot : answered'[j] \subseteq answered[j] \cup {work[w].shows}
                        /\ (j # k => answered'[j] = answered[j])
    BY <1>1 DEF UpdateSettings, TypeOK
  <2>2. work[w].shows \in seen[k] \cup repeated[k]
    BY <1>1 DEF Answers
  <2>3. QED
    BY <2>1, <2>2, <1>2, <1>11 DEF Answers, AnsweredIsSeen, At
<1>20. QED
  BY <1>13, <1>14, <1>15, <1>16, <1>17, <1>18, <1>19

\* A slot gets a card: its entry can be trusted if nothing else is under way.
LEMMA CreateKeeps ==
    ASSUME CardInv, TypeOK', NEW w \in Worker, CreateCard(w)
    PROVE  CardInv'
<1>0. PICK k \in Slot, c \in Version : k = work[w].of /\ c = work[w].shows
  BY WorkType DEF CardInv
<1> USE <1>0
<1> DEFINE new == [last |-> 0, shows |-> c]
           entry == [slot[k] EXCEPT !.card = c, !.sequence = 1, !.shows = c]
<1> USE DEF CardInv
<1>1. /\ Steps(w, "idle") /\ k \in Slot /\ c \in Version /\ c # 0 /\ At(w, "create")
      /\ slot[k].card = 0 /\ ~Made(k, c) /\ c <= version[k] /\ card[k][c].last = 0
  BY GotoSteps, WorkType DEF CreateCard, Done, Goto, Stages, At, Versions, Cards
<1>2. /\ card' = [card EXCEPT ![k][c] = new]
      /\ UNCHANGED <<version, texts, fallback, told, repeated>>
      /\ k \in mixed' \/ ~UnderWay(k)
      /\ \A j : j # k => (j \in mixed' <=> j \in mixed)
      /\ mixed \subseteq mixed'
  BY DEF CreateCard, postVars
<1>3. /\ new.last = 0 /\ new.shows = c
      /\ \A j \in Slot, d \in Version : card'[j][d] = IF j = k /\ d = c THEN new ELSE card[j][d]
  <2>1. new.last = 0 /\ new.shows = c
    OBVIOUS
  <2> HIDE DEF new
  <2>2. QED
    BY <1>1, <1>2, <2>1, SlotType
<1> HIDE DEF new
<1>4. entry \in Entry /\ entry.card = c /\ entry.sequence = 1 /\ entry.shows = c
  BY <1>1, WorkType DEF Entry
<1>5. ReplaceAndArm(k, entry, {})
  BY DEF CreateCard
<1> HIDE DEF entry
<1>6. PICK t \in Nat : /\ Entered(k, [entry EXCEPT !.timer = t])
                       /\ k \in Streaming \ fallback /\ entry.card # 0 /\ entry.shows # 0
                             => t \in pending'[k]
  <2>1. TypeOK /\ OneTimer
    BY DEF Timers
  <2>2. QED
    BY <2>1, <1>1, <1>4, <1>5, ArmEnters
<1>7. /\ slot'[k].sequence = 1 /\ slot'[k].shows = c /\ slot'[k].card = c
      /\ k \in Streaming \ fallback => slot'[k].timer \in pending'[k]
      /\ pending'[k] \subseteq {slot'[k].timer}
      /\ \A j \in Slot \ {k} : slot'[j] = slot[j] /\ pending'[j] = pending[j]
  <2>1. /\ slot'[k].card = entry.card /\ slot'[k].sequence = entry.sequence
        /\ slot'[k].shows = entry.shows /\ slot'[k].timer = t
        /\ pending'[k] \subseteq {t}
        /\ \A j \in Slot \ {k} : slot'[j] = slot[j] /\ pending'[j] = pending[j]
    BY <1>1, <1>4, <1>6, EnteredEntry
  <2>2. QED
    BY <2>1, <1>1, <1>4, <1>6
<1>8. \A u \in Worker : /\ work'[u].of = work[u].of /\ work'[u].card = work[u].card
                        /\ work'[u].shows = work[u].shows
                        /\ work'[u].sequence = work[u].sequence
                        /\ work'[u].stage = IF u = w THEN "idle" ELSE work[u].stage
                        /\ work[u].of \in Slot /\ work[u].card \in Version
  BY <1>1, Numeric DEF Steps
<1>9. \A u \in Worker : /\ work'[u].stage \in {"content", "settings"} => CardOf(u)' = CardOf(u)
                        /\ Live(u)' <=> Live(u)
  <2> SUFFICES ASSUME NEW u \in Worker
               PROVE  /\ work'[u].stage \in {"content", "settings"} => CardOf(u)' = CardOf(u)
                      /\ Live(u)' <=> Live(u)
    OBVIOUS
  <2>1. work[u].stage \in {"content", "settings"} => work[u].of # k \/ work[u].card # c
    BY <1>1 DEF Stages
  <2>2. work'[u].stage \in {"content", "settings"} => CardOf(u)' = CardOf(u)
    BY <2>1, <1>3, <1>8 DEF CardOf
  <2>3. QED
    BY <2>2, <1>1, <1>8 DEF Live, Fits, At
<1>10. \A j \in Slot, d \in Version : Made(j, d)' <=> Made(j, d) \/ (j = k /\ d = c)
  BY <1>1, <1>3 DEF Made
<1>11. \A u \in Worker : u # w => work[u].stage # "create"
  BY <1>1 DEF TypeOK, Worker, At
<1>12. Stages' /\ Reading'
  <2>1. Stages'
    BY <1>8, <1>10, <1>11, Numeric DEF Stages, At
  <2>2. w = CoreEvent
    BY <1>1 DEF TypeOK, Worker, At
  <2>3. Reading'
    BY <2>2, <1>8 DEF Reading
  <2>4. QED
    BY <2>1, <2>3
<1>13. Versions' /\ Cards'
  <2>1. Versions'
    BY <1>1, <1>2, <1>3, <1>7, <1>8 DEF Versions
  <2>2. Cards'
    BY <1>1, <1>2, <1>3, <1>7, <1>10, Numeric DEF Cards
  <2>3. QED
    BY <2>1, <2>2
<1>14. InStep(k)' => \A u \in Worker : work[u].of = k => work[u].stage \notin {"content", "settings"}
  BY <1>2 DEF InStep, UnderWay
<1>15. \A j \in Slot \ {k} : (InStep(j)' <=> InStep(j)) /\ NextSequence(j)' = NextSequence(j)
  BY <1>2, <1>7 DEF InStep, NextSequence
<1>16. Numbers'
  <2>1. \A u \in Worker : work[u].of = k /\ InStep(k)'
           => ~Live(u)' /\ work'[u].stage \notin {"content", "settings"}
    BY <1>8, <1>14 DEF Live, At
  <2>2. QED
    BY <2>1, <1>7, <1>8, <1>9, <1>15 DEF Numbers, At
<1>17. Repeats'
  <2> SUFFICES ASSUME NEW j \in Slot, InStep(j)', ~Updating(j)'
               PROVE  /\ card'[j][slot'[j].card].last < NextSequence(j)'
                      /\ slot'[j].shows = card'[j][slot'[j].card].shows
    BY DEF Repeats
  <2>1. CASE j = k
    BY <2>1, <1>1, <1>3, <1>7, Numeric DEF NextSequence
  <2>2. CASE j # k
    <3>1. ~Updating(j)
      BY <2>2, <1>8 DEF Updating, At
    <3>2. QED
      BY <3>1, <2>2, <1>3, <1>7, <1>15, Numeric DEF Repeats
  <2>3. QED
    BY <2>1, <2>2
<1>18. Order'
  <2>1. \A u \in Worker : Live(u)' => CardOf(u)' = CardOf(u)
    BY <1>9 DEF Live, At
  <2>2. QED
    BY <2>1, <1>2, <1>8, <1>9 DEF Order
<1>19. Timers'
  <2>1. OneTimer'
    BY <1>7 DEF Timers, OneTimer
  <2>2. \A j \in Slot \ {k} : UnderWay(j) => UnderWay(j)'
    BY <1>8 DEF UnderWay
  <2>3. QED
    BY <2>1, <2>2, <1>2, <1>7, ConstantsAssumption DEF Timers
<1>20. Answers'
  <2>1. /\ answered'[k] = answered[k] \cup {c}
        /\ seen'[k] = seen[k] \cup {c}
        /\ \A j \in Slot \ {k} : answered'[j] = answered[j] /\ seen'[j] = seen[j]
    BY <1>1 DEF CreateCard, TypeOK
  <2>2. \A u \in Worker : At(u, "settings")' => At(u, "settings")
    BY <1>8 DEF At
  <2>3. QED
    BY <2>1, <2>2, <1>1, <1>2, <1>8 DEF Answers, AnsweredIsSeen
<1>21. QED
  BY <1>12, <1>13, <1>16, <1>17, <1>18, <1>19, <1>20

\* A heartbeat starts: where the entry can be trusted it repeats the card itself.
LEMMA FireKeeps ==
    ASSUME CardInv, TypeOK', NEW k \in Slot, NEW t \in pending[k], Fire(k, t)
    PROVE  CardInv'
<1> DEFINE new == [stage |-> "content", of |-> k, card |-> slot[k].card, shows |-> slot[k].shows,
                   sequence |-> NextSequence(k), timer |-> slot[k].timer]
<1> USE DEF CardInv
<1>1. /\ UNCHANGED <<version, texts, slot, fallback, card, seen, told, answered, repeated, mixed>>
      /\ pending'[k] = pending[k] \ {t} /\ \A j \in Slot \ {k} : pending'[j] = pending[j]
  BY DEF Fire, feishuVars, postVars, mixVars, TypeOK
<1>2. OneTimer'
  BY <1>1 DEF Timers, OneTimer
<1>3. \/ work' = work /\ (k \in fallback \/ slot[k].card = 0 \/ slot[k].shows = 0)
      \/ /\ k \notin fallback /\ slot[k].card # 0 /\ slot[k].shows # 0
         /\ \E b \in Beat : At(b, "idle") /\ work' = [work EXCEPT ![b] = new]
  BY DEF Fire
<1>4. CASE work' = work /\ (k \in fallback \/ slot[k].card = 0 \/ slot[k].shows = 0)
  <2>1. k \in fallback \/ slot[k].card = 0
    BY <1>4 DEF Cards
  <2>2. Timers'
    BY <2>1, <1>1, <1>2, <1>4, ConstantsAssumption DEF Timers, UnderWay
  <2>3. QED
    BY <2>2, <1>1, <1>4 DEF Stages, Reading, Versions, Cards, Numbers, Repeats, Order, Answers,
       AnsweredIsSeen, Live, Fits, At, NextSequence, Updating, InStep, Made, CardOf
<1>5. ASSUME k \notin fallback, slot[k].card # 0, slot[k].shows # 0,
             NEW b \in Beat, At(b, "idle"), work' = [work EXCEPT ![b] = new]
      PROVE  CardInv'
  <2>1. /\ b \in Worker /\ work[b].stage = "idle" /\ b # CoreEvent
        /\ work'[b].stage = "content" /\ work'[b].of = k /\ work'[b].shows = slot[k].shows
        /\ work'[b].sequence = NextSequence(k) /\ work'[b].card = slot[k].card
        /\ \A u \in Worker \ {b} : work'[u] = work[u]
    BY <1>5, SlotType, ConstantsAssumption DEF Worker, At
  <2>2. Made(k, slot[k].card) /\ CardOf(b)' = card[k][slot[k].card]
    BY <1>5, <1>1, <2>1 DEF Cards, CardOf
  <2>3. k \notin mixed => InStep(k)
    BY <1>5 DEF InStep
  <2>4. ASSUME Live(b)', k \notin mixed PROVE slot[k].shows = CardOf(b)'.shows
    <3>1. CardOf(b)'.last < NextSequence(k)
      BY <2>1, <2>2, <2>4, <1>1, Numeric DEF Live, Fits, NextSequence
    <3>2. ~Updating(k)
      <4> SUFFICES ASSUME NEW u \in Worker, work[u].of = k, At(u, "settings") PROVE FALSE
        BY DEF Updating
      <4>1. /\ CardOf(u).last = NextSequence(k) /\ work[u].card = slot[k].card
        BY <2>3, <2>4 DEF Numbers, At
      <4>2. CardOf(u) = CardOf(b)'
        BY <4>1, <2>2 DEF CardOf
      <4>3. QED
        BY <3>1, <4>1, <4>2, Numeric
    <3>3. QED
      BY <3>2, <2>2, <2>3, <2>4 DEF Repeats
  <2>5. \A u \in Worker \ {b} : /\ Live(u)' <=> Live(u)
                                /\ CardOf(u)' = CardOf(u)
                                /\ \A stage : At(u, stage)' <=> At(u, stage)
    BY <2>1, <1>1 DEF Live, Fits, At, CardOf
  <2>6. Stages' /\ Reading'
    <3>1. Stages'
      BY <1>5, <2>1, <2>2, <1>1 DEF Stages, At, Made
    <3>2. Reading'
      BY <2>1, <1>1, ConstantsAssumption DEF Reading, Worker
    <3>3. QED
      BY <3>1, <3>2
  <2>7. Versions' /\ Cards'
    BY <2>1, <1>1 DEF Versions, Cards, Made
  <2>8. Numbers'
    <3>1. ~At(b, "settings")'
      BY <2>1 DEF At
    <3>2. \A j : (InStep(j)' <=> InStep(j)) /\ NextSequence(j)' = NextSequence(j)
      BY <1>1 DEF InStep, NextSequence
    <3>3. QED
      BY <2>1, <2>5, <3>1, <3>2, <1>1 DEF Numbers
  <2>9. Repeats'
    <3>1. \A j \in Slot : Updating(j)' <=> Updating(j)
      BY <2>1 DEF Updating, At
    <3>2. QED
      BY <3>1, <1>1 DEF Repeats, NextSequence, InStep
  <2>10. Order'
    <3>1. \A u \in Worker : Live(u)' /\ work'[u].of \notin mixed
                               => CardOf(u)'.shows <= work'[u].shows
      BY <2>1, <2>4, <2>5, Numeric DEF Order
    <3>2. k \notin mixed => \A u \in Worker \ {b} : Live(u) /\ work[u].of = k
                                                      => work[u].sequence = NextSequence(k)
      BY <2>3 DEF Numbers
    <3>3. QED
      BY <3>1, <3>2, <2>1, <2>5, <1>1 DEF Order
  <2>11. Timers'
    <3>1. UnderWay(k)'
      BY <2>1 DEF UnderWay
    <3>2. \A j \in Slot \ {k} : UnderWay(j) => UnderWay(j)'
      BY <2>1 DEF UnderWay
    <3>3. QED
      BY <3>1, <3>2, <1>1, <1>2, ConstantsAssumption DEF Timers
  <2>12. Answers'
    BY <2>1, <2>5, <1>1 DEF Answers, AnsweredIsSeen, At
  <2>13. QED
    BY <2>6, <2>7, <2>8, <2>9, <2>10, <2>11, <2>12
<1>6. QED
  BY <1>3, <1>4, <1>5

\* The entry of k loses its timer, and nothing else.
LEMMA ClearedEntry ==
    ASSUME TypeOK, OneTimer, NEW k \in Slot, ClearHeartbeat(k)
    PROVE  /\ \A j \in Slot : /\ slot'[j].card = slot[j].card
                              /\ slot'[j].sequence = slot[j].sequence
                              /\ slot'[j].shows = slot[j].shows
           /\ pending'[k] = {}
           /\ \A j \in Slot \ {k} : slot'[j] = slot[j] /\ pending'[j] = pending[j]
<1>1. slot' = [slot EXCEPT ![k] = [slot[k] EXCEPT !.timer = 0]]
  BY DEF ClearHeartbeat
<1>2. /\ slot'[k] = [slot[k] EXCEPT !.timer = 0] /\ slot[k] \in Entry
      /\ \A j \in Slot \ {k} : slot'[j] = slot[j]
  BY <1>1, SlotType
<1>3. pending'[k] = {} /\ \A j \in Slot \ {k} : pending'[j] = pending[j]
  BY SlotType DEF ClearHeartbeat, OneTimer
<1>4. /\ slot'[k].card = slot[k].card /\ slot'[k].sequence = slot[k].sequence
      /\ slot'[k].shows = slot[k].shows
  BY <1>2 DEF Entry
<1>5. QED
  BY <1>2, <1>3, <1>4

\* A card request fails: the slot falls back, and nothing is promised of it any
\* more but that it keeps no timer and that its cards do not go back.
LEMMA FailKeeps ==
    ASSUME CardInv, TypeOK', NEW w \in Worker, Fail(w)
    PROVE  CardInv'
<1>0. PICK k \in Slot : k = work[w].of
  BY WorkType DEF CardInv
<1> USE <1>0
<1> USE DEF CardInv
<1>1. \A u \in Worker : /\ work'[u].of = work[u].of /\ work'[u].card = work[u].card
                        /\ work'[u].shows = work[u].shows
                        /\ work'[u].sequence = work[u].sequence
                        /\ work'[u].stage = IF u = w THEN "reason" ELSE work[u].stage
                        /\ work[u].of \in Slot /\ work[u].card \in Version
  <2>1. Steps(w, "reason")
    BY GotoSteps DEF Fail, Stage
  <2>2. QED
    BY <2>1, Numeric DEF Steps
<1>2. /\ fallback' = fallback \cup {k}
      /\ UNCHANGED <<version, texts, card, seen, told, answered, repeated, mixed>>
  BY DEF Fail, feishuVars, postVars, mixVars
<1>3. /\ \A j \in Slot : /\ slot'[j].card = slot[j].card
                         /\ slot'[j].sequence = slot[j].sequence
                         /\ slot'[j].shows = slot[j].shows
      /\ pending'[k] = {}
      /\ \A j \in Slot \ {k} : slot'[j] = slot[j] /\ pending'[j] = pending[j]
  BY ClearedEntry DEF Fail, Timers
<1>4. \A u \in Worker : CardOf(u)' = CardOf(u) /\ (Live(u)' => Live(u))
  BY <1>1, <1>2 DEF CardOf, Live, Fits, At
<1>5. Stages' /\ Reading'
  <2>1. Stages'
    BY <1>1, <1>2, <1>3 DEF Stages, At, Made
  <2>2. Reading'
    BY <1>1, <1>3, ConstantsAssumption DEF Reading, Worker
  <2>3. QED
    BY <2>1, <2>2
<1>6. Versions' /\ Cards'
  <2>1. Versions'
    BY <1>1, <1>2, <1>3 DEF Versions
  <2>2. Cards'
    BY <1>2, <1>3 DEF Cards, Made
  <2>3. QED
    BY <2>1, <2>2
<1>7. \A j \in Slot : (InStep(j)' => InStep(j) /\ j # k) /\ NextSequence(j)' = NextSequence(j)
  BY <1>2, <1>3 DEF InStep, NextSequence
<1>8. Numbers'
  BY <1>1, <1>3, <1>4, <1>7 DEF Numbers, At
<1>9. Repeats'
  <2>1. \A j \in Slot \ {k} : Updating(j)' <=> Updating(j)
    BY <1>1 DEF Updating, At
  <2>2. QED
    BY <2>1, <1>2, <1>3, <1>7 DEF Repeats
<1>10. Order'
  BY <1>1, <1>2, <1>4 DEF Order
<1>11. Timers'
  <2>1. \A j \in Slot \ {k} : UnderWay(j) => UnderWay(j)'
    BY <1>1 DEF UnderWay
  <2>2. OneTimer'
    BY <1>3 DEF Timers, OneTimer
  <2>3. QED
    BY <2>1, <2>2, <1>2, <1>3, ConstantsAssumption DEF Timers
<1>12. Answers'
  BY <1>1, <1>2 DEF Answers, AnsweredIsSeen, At
<1>13. QED
  BY <1>5, <1>6, <1>8, <1>9, <1>10, <1>11, <1>12

\* A handler that sends messages takes a step: it leaves the cards alone, and
\* if it writes an entry, then one without a card.
LEMMA QuietKeeps ==
    ASSUME CardInv, TypeOK', NEW w \in Worker, NEW k \in Slot, k = work[w].of,
           work[w].stage \in {"reason", "body", "plain"},
           NEW stage \in {"idle", "body", "over"}, Steps(w, stage),
           UNCHANGED <<version, texts, fallback, card, seen, repeated, mixed>>,
           \/ UNCHANGED <<slot, pending>>
           \/ /\ w = CoreEvent /\ slot'[k].card = 0 /\ slot'[k].shows <= version[k]
              /\ \A j \in Slot \ {k} : slot'[j] = slot[j] /\ pending'[j] = pending[j],
           OneTimer', AnsweredIsSeen'
    PROVE  CardInv'
<1> USE DEF CardInv
<1>1. \A u \in Worker : /\ work'[u].of = work[u].of /\ work'[u].card = work[u].card
                        /\ work'[u].shows = work[u].shows
                        /\ work'[u].sequence = work[u].sequence
                        /\ work'[u].stage = IF u = w THEN stage ELSE work[u].stage
                        /\ work[u].of \in Slot /\ work[u].card \in Version
                        /\ work'[u].stage \in {"content", "settings", "create"}
                              => u # w /\ work[u].stage = work'[u].stage
  BY Numeric DEF Steps
<1>2. \A u \in Worker : /\ CardOf(u)' = CardOf(u) /\ (Live(u)' => Live(u))
                        /\ At(u, "settings")' <=> At(u, "settings")
  BY <1>1 DEF CardOf, Live, Fits, At
<1>3. \A j \in Slot : /\ slot'[j].shows <= version[j]
                      /\ slot'[j].card # 0 => slot'[j] = slot[j] /\ pending'[j] = pending[j]
                      /\ slot[j].card = 0 => slot'[j].card = 0
  BY DEF Versions
<1>4. Stages' /\ Reading'
  <2>1. Stages'
    BY <1>1, <1>3 DEF Stages, At, Made
  <2>2. Reading'
    BY <1>1, ConstantsAssumption DEF Reading, Worker
  <2>3. QED
    BY <2>1, <2>2
<1>5. Versions' /\ Cards'
  <2>1. Versions'
    BY <1>1, <1>3 DEF Versions
  <2>2. Cards'
    BY <1>3 DEF Cards, Made
  <2>3. QED
    BY <2>1, <2>2
<1>6. \A j \in Slot : InStep(j)' => InStep(j) /\ slot'[j] = slot[j]
                                    /\ NextSequence(j)' = NextSequence(j)
  BY <1>3 DEF InStep, NextSequence
<1>7. Numbers'
  BY <1>1, <1>2, <1>6 DEF Numbers
<1>8. Repeats'
  <2>1. \A j \in Slot : Updating(j)' <=> Updating(j)
    BY <1>1, <1>2 DEF Updating
  <2>2. QED
    BY <2>1, <1>6 DEF Repeats
<1>9. Order'
  BY <1>1, <1>2 DEF Order
<1>10. Timers'
  <2>1. \A j \in Slot : UnderWay(j) => UnderWay(j)'
    BY <1>1 DEF UnderWay
  <2>2. QED
    BY <2>1, <1>3, ConstantsAssumption DEF Timers
<1>11. Answers'
  BY <1>1, <1>2 DEF Answers
<1>12. QED
  BY <1>4, <1>5, <1>7, <1>8, <1>9, <1>10, <1>11

\* A plain message is sent, or fails.
LEMMA MessageKeeps ==
    ASSUME CardInv, TypeOK', NEW w \in Worker,
           SendPlain(w) \/ SendReason(w) \/ SendBody(w) \/ GiveUp(w)
    PROVE  CardInv'
<1>0. PICK k \in Slot : k = work[w].of
  BY WorkType DEF CardInv
<1> USE <1>0
<1> USE DEF CardInv
<1>1. TypeOK /\ OneTimer /\ AnsweredIsSeen /\ \A j \in Slot : slot[j].shows <= version[j]
  BY DEF Timers, Versions, Answers
<1>2. slot[k] \in Entry /\ version[k] \in Nat /\ work[w].stage \in {"reason", "body", "plain"}
  BY Numeric, SlotType DEF SendPlain, SendReason, SendBody, GiveUp, At
<1>3. CASE SendPlain(w) \/ SendBody(w)
  <2> DEFINE plain == [slot[k] EXCEPT !.card = 0, !.sequence = 0]
  <2>1. /\ plain \in Entry /\ plain.card = 0 /\ plain.shows = slot[k].shows
        /\ NoEntry \in Entry /\ NoEntry.card = 0 /\ NoEntry.shows = 0
    <3>1. 0 \in Version /\ 0 \in Nat
      BY ConstantsAssumption DEF Version
    <3>2. plain \in Entry /\ plain.card = 0 /\ plain.shows = slot[k].shows
      BY <3>1, <1>2 DEF Entry
    <3>3. NoEntry \in Entry /\ NoEntry.card = 0 /\ NoEntry.shows = 0
      BY <3>1 DEF Entry, NoEntry
    <3>4. QED
      BY <3>2, <3>3
  <2>2. UNCHANGED <<slot, pending>> \/ \E entry \in {plain, NoEntry} : Replace(k, entry, {})
    BY <1>3 DEF SendPlain, SendBody, timerVars
  <2> HIDE DEF plain
  <2>3. /\ \/ UNCHANGED <<slot, pending>>
           \/ /\ w = CoreEvent /\ slot'[k].card = 0 /\ slot'[k].shows <= version[k]
              /\ \A j \in Slot \ {k} : slot'[j] = slot[j] /\ pending'[j] = pending[j]
        /\ OneTimer'
    <3>1. CASE UNCHANGED <<slot, pending>>
      BY <3>1, <1>1 DEF OneTimer
    <3>2. ASSUME NEW entry \in {plain, NoEntry}, Replace(k, entry, {})
          PROVE  /\ slot'[k].card = 0 /\ slot'[k].shows <= version[k]
                 /\ \A j \in Slot \ {k} : slot'[j] = slot[j] /\ pending'[j] = pending[j]
                 /\ OneTimer'
      <4>1. entry \in Entry /\ entry.card = 0 /\ entry.shows <= version[k]
        BY <2>1, <1>1, <1>2
      <4>2. Entered(k, entry)
        BY <4>1, <3>2, <1>1, ReplaceEnters
      <4>3. /\ slot'[k] = entry /\ pending'[k] \subseteq {entry.timer}
            /\ \A j \in Slot \ {k} : slot'[j] = slot[j] /\ pending'[j] = pending[j]
        BY <4>2, SlotType DEF Entered
      <4>4. QED
        BY <4>1, <4>3, <1>1 DEF OneTimer
    <3>3. w = CoreEvent
      BY <1>3, SlotType DEF SendPlain, SendBody, At, Worker
    <3>4. QED
      BY <3>1, <3>2, <3>3, <2>2
  <2>4. Steps(w, "idle") /\ UNCHANGED <<version, texts, fallback, card, seen, repeated, mixed>>
    BY <1>3, GotoSteps DEF SendPlain, SendBody, Done, Goto, postVars, mixVars
  <2>5. AnsweredIsSeen'
    <3>1. /\ told' = [told EXCEPT ![k] = @ \cup {work[w].shows}]
          /\ answered' = [answered EXCEPT ![k] = @ \cup {work[w].shows}]
      BY <1>3 DEF SendPlain, SendBody
    <3>2. \A j \in Slot : /\ answered'[j] = IF j = k THEN answered[j] \cup {work[w].shows}
                                                     ELSE answered[j]
                          /\ told'[j] = IF j = k THEN told[j] \cup {work[w].shows} ELSE told[j]
      BY <3>1 DEF TypeOK
    <3>3. QED
      BY <3>2, <2>4, <1>1 DEF AnsweredIsSeen
  <2>6. QED
    BY <2>3, <2>4, <2>5, <1>2, QuietKeeps
<1>4. CASE SendReason(w) \/ GiveUp(w)
  <2>1. UNCHANGED <<version, texts, slot, pending, fallback, card, seen, told, answered,
                    repeated, mixed>>
    BY <1>4 DEF SendReason, GiveUp, timerVars, feishuVars, postVars, mixVars
  <2>2. PICK stage \in {"idle", "body", "over"} : Goto(w, stage)
    BY <1>4 DEF SendReason, GiveUp
  <2>3. Steps(w, stage)
    BY <2>2, GotoSteps
  <2>4. OneTimer' /\ AnsweredIsSeen'
    BY <2>1, <1>1 DEF OneTimer, AnsweredIsSeen
  <2>5. QED
    BY <2>1, <2>3, <2>4, <1>2, QuietKeeps
<1>5. QED
  BY <1>3, <1>4

\* The core posts an event: it shows more than anything before it, and it has
\* the next number of the entry.
LEMMA PostKeeps ==
    ASSUME CardInv, TypeOK', NEW k \in Slot, NEW isText \in BOOLEAN, Post(k, isText)
    PROVE  CardInv'
<1> USE DEF CardInv
<1>1. /\ UNCHANGED <<fallback, card, seen, told, answered, repeated, mixed>>
      /\ version'[k] = version[k] + 1 /\ \A j \in Slot \ {k} : version'[j] = version[j]
      /\ \A j \in Slot \ {k} : texts'[j] = texts[j]
      /\ isText => version'[k] \in texts'[k]
  BY DEF Post, feishuVars, mixVars, TypeOK
<1>2. /\ CoreEvent \in Worker /\ work[CoreEvent].stage = "idle"
      /\ work'[CoreEvent].stage = IF k \in fallback \/ isText THEN "plain"
                                    ELSE IF slot[k].card # 0 THEN "content" ELSE "create"
      /\ work'[CoreEvent].of = k /\ work'[CoreEvent].shows = version[k] + 1
      /\ work'[CoreEvent].sequence = NextSequence(k) /\ work'[CoreEvent].card = slot[k].card
      /\ \A u \in Worker \ {CoreEvent} : work'[u] = work[u]
  BY SlotType DEF Post, Worker, At
<1>3. /\ \A j \in Slot : /\ slot'[j].card = slot[j].card
                         /\ slot'[j].sequence = slot[j].sequence
                         /\ slot'[j].shows = slot[j].shows
      /\ \A j \in Slot \ {k} : slot'[j] = slot[j] /\ pending'[j] = pending[j]
      /\ OneTimer'
  <2>1. CASE k \in fallback \/ isText
    <3>1. ClearHeartbeat(k)
      BY <2>1 DEF Post
    <3>2. /\ \A j \in Slot : /\ slot'[j].card = slot[j].card
                             /\ slot'[j].sequence = slot[j].sequence
                             /\ slot'[j].shows = slot[j].shows
          /\ pending'[k] = {}
          /\ \A j \in Slot \ {k} : slot'[j] = slot[j] /\ pending'[j] = pending[j]
      BY <3>1, ClearedEntry DEF Timers
    <3>3. QED
      BY <3>2 DEF Timers, OneTimer
  <2>2. CASE ~(k \in fallback \/ isText)
    BY <2>2 DEF Post, timerVars, Timers, OneTimer
  <2>3. QED
    BY <2>1, <2>2
<1>4. \A u \in Worker \ {CoreEvent} : /\ Live(u)' <=> Live(u)
                                      /\ CardOf(u)' = CardOf(u)
                                      /\ \A stage : At(u, stage)' <=> At(u, stage)
  BY <1>1, <1>2 DEF Live, Fits, At, CardOf
<1>5. /\ At(CoreEvent, "content")' => /\ k \notin fallback /\ slot[k].card # 0
                                      /\ Made(k, slot[k].card)
                                      /\ CardOf(CoreEvent)' = card[k][slot[k].card]
      /\ At(CoreEvent, "create")' => slot[k].card = 0
      /\ ~At(CoreEvent, "settings")'
  BY <1>1, <1>2 DEF At, Cards, CardOf
<1>6. version[k] \in Nat /\ version'[k] \in Version /\ slot[k].card \in Version
  BY Numeric DEF TypeOK
<1>7. Stages' /\ Reading'
  <2>1. ~Made(k, version[k] + 1)
    BY <1>1, <1>6, Numeric DEF Cards
  <2>2. Stages'
    <3>1. ASSUME NEW u \in Worker \ {CoreEvent}
          PROVE  /\ work'[u].stage \in {"content", "settings", "create"} => work'[u].shows # 0
                 /\ work'[u].stage \in {"content", "settings"}
                       => card[work'[u].of][work'[u].card].shows # 0
                 /\ work'[u].stage = "create" => FALSE
      BY <1>2, SlotType DEF Stages, Worker, Made
    <3>2. /\ work'[CoreEvent].stage \in {"content", "settings", "create"}
                => work'[CoreEvent].shows # 0
          /\ work'[CoreEvent].stage \in {"content", "settings"}
                => card[k][slot[k].card].shows # 0
          /\ work'[CoreEvent].stage = "create"
                => slot'[k].card = 0 /\ card[k][work'[CoreEvent].shows].shows = 0
      BY <1>2, <1>3, <1>5, <1>6, <2>1 DEF Made, At
    <3>3. QED
      BY <3>1, <3>2, <1>1, <1>2 DEF Stages, Made, At
  <2>3. Reading'
    BY <1>2, <1>3, <1>5 DEF Reading, At
  <2>4. QED
    BY <2>2, <2>3
<1>8. Versions' /\ Cards'
  <2>1. Versions'
    <3>1. \A j \in Slot : version[j] <= version'[j] /\ version[j] \in Nat /\ version'[j] \in Nat
      BY <1>1, <1>6, Numeric
    <3>2. \A j \in Slot : slot'[j].shows <= version'[j]
      BY <3>1, <1>3, Numeric DEF Versions
    <3>3. \A j \in Slot, c \in Version : card[j][c].shows <= version'[j]
      BY <3>1, Numeric DEF Versions
    <3>4. \A u \in Worker : work'[u].shows <= version'[work'[u].of]
      BY <3>1, <1>1, <1>2, <1>6, Numeric DEF Versions
    <3>5. QED
      BY <3>2, <3>3, <3>4, <1>1 DEF Versions
  <2>2. Cards'
    <3>1. \A j \in Slot : slot'[j].card # 0
                             => slot'[j].shows # 0 /\ card[j][slot'[j].card].shows # 0
      BY <1>3 DEF Cards, Made
    <3>2. \A j \in Slot, c \in Version : IF card[j][c].shows # 0 THEN c <= version'[j]
                                                                 ELSE card[j][c].last = 0
      BY <1>1, <1>6, Numeric DEF Cards, Made
    <3>3. QED
      BY <3>1, <3>2, <1>1 DEF Cards, Made
  <2>3. QED
    BY <2>1, <2>2
<1>9. \A j \in Slot : (InStep(j)' <=> InStep(j)) /\ NextSequence(j)' = NextSequence(j)
  BY <1>1, <1>3 DEF InStep, NextSequence
<1>10. Numbers'
  <2>1. \A u \in Worker : work[u].of \in Slot
    BY Numeric
  <2>2. QED
    BY <2>1, <1>2, <1>3, <1>4, <1>5, <1>9 DEF Numbers
<1>11. Repeats'
  <2>1. \A j \in Slot : Updating(j)' <=> Updating(j)
    BY <1>2, <1>5 DEF Updating, At
  <2>2. QED
    BY <2>1, <1>1, <1>3, <1>9 DEF Repeats
<1>12. Order'
  <2>1. Live(CoreEvent)' => /\ CardOf(CoreEvent)'.shows <= version[k] + 1
                            /\ k \notin mixed => InStep(k)
    BY <1>5, <1>6, Numeric DEF Live, Versions, InStep
  <2>2. k \notin mixed /\ Live(CoreEvent)'
           => \A u \in Worker : Live(u) /\ work[u].of = k => work[u].sequence = NextSequence(k)
    BY <2>1 DEF Numbers
  <2>3. \A u \in Worker : Live(u)' /\ work'[u].of \notin mixed
                             => CardOf(u)'.shows <= work'[u].shows
    BY <2>1, <1>2, <1>4 DEF Order
  <2>4. QED
    BY <2>2, <2>3, <1>1, <1>2, <1>4 DEF Order
<1>13. Timers'
  <2>1. \A j \in Slot : UnderWay(j) => UnderWay(j)'
    BY <1>2 DEF UnderWay
  <2>2. k \in fallback \/ isText \/ slot[k].card = 0 \/ UnderWay(k)'
    BY <1>2 DEF UnderWay
  <2>3. QED
    BY <2>1, <2>2, <1>1, <1>3, ConstantsAssumption DEF Timers
<1>14. Answers'
  BY <1>1, <1>2, <1>4, <1>5 DEF Answers, AnsweredIsSeen
<1>15. QED
  BY <1>7, <1>8, <1>10, <1>11, <1>12, <1>13, <1>14

\* It holds at the start: nothing is under way.
LEMMA CardInit == Init => CardInv
<1> SUFFICES ASSUME Init PROVE CardInv
  OBVIOUS
<1>1. TypeOK
  BY InitType
<1>2. \A w \in Worker : work[w].stage = "idle" /\ work[w].shows = 0 /\ work[w].of \in Slot
  BY DEF Init
<1>3. \A k \in Slot : /\ slot[k].card = 0 /\ slot[k].shows = 0 /\ slot[k].timer = 0
                      /\ version[k] = 0 /\ pending[k] = {} /\ answered[k] = {}
                      /\ \A c \in Version : card[k][c].last = 0 /\ card[k][c].shows = 0
  BY DEF Init, NoEntry
<1>4. \A w \in Worker : ~Live(w) /\ ~At(w, "settings") /\ ~At(w, "create")
  BY <1>2 DEF Live, At
<1>5. Stages /\ Reading /\ Numbers /\ Order
  BY <1>2, <1>4, ConstantsAssumption DEF Stages, Reading, Numbers, Order, Worker
<1>6. Versions /\ Cards /\ Repeats
  BY <1>2, <1>3 DEF Versions, Cards, Repeats, Made, InStep
<1>7. Timers /\ Answers
  BY <1>3, <1>4, ConstantsAssumption DEF Timers, OneTimer, Answers, AnsweredIsSeen
<1>8. QED
  BY <1>1, <1>5, <1>6, <1>7 DEF CardInv

\* Nothing happens, and the invariant stays.
LEMMA CardStutters == CardInv /\ UNCHANGED vars => CardInv'
<1> SUFFICES ASSUME CardInv, UNCHANGED vars PROVE CardInv'
  OBVIOUS
<1>1. TypeOK' /\ Stages' /\ Reading' /\ Versions' /\ Cards'
  BY DEF CardInv, vars, TypeOK, Stages, Reading, Versions, Cards, At, Made
<1>2. Numbers' /\ Repeats' /\ Order'
  BY DEF CardInv, vars, Numbers, Repeats, Order, Live, Fits, CardOf, At, Updating, InStep,
     NextSequence
<1>3. Timers' /\ Answers'
  BY DEF CardInv, vars, Timers, OneTimer, Answers, AnsweredIsSeen, UnderWay, At
<1>4. QED
  BY <1>1, <1>2, <1>3 DEF CardInv

\* The invariant is kept by every step of every handler.
LEMMA CardSteps == CardInv /\ [Next]_vars => CardInv'
<1> SUFFICES ASSUME CardInv, [Next]_vars PROVE CardInv'
  OBVIOUS
<1>1. CASE UNCHANGED vars
  BY <1>1, CardStutters
<1>2. CASE Next
  <2>1. TypeOK'
    BY <1>2, PostType, FireType, HandlerType DEF Next, CardInv
  <2>2. CASE \E k \in Slot : \/ \E isText \in BOOLEAN : Post(k, isText)
                             \/ \E t \in pending[k] : Fire(k, t)
    BY <2>1, <2>2, PostKeeps, FireKeeps
  <2>3. CASE \E w \in Worker : \/ CreateCard(w) \/ SendPlain(w)
                               \/ UpdateContent(w) \/ RepeatContent(w) \/ UpdateSettings(w)
                               \/ Fail(w) \/ SendReason(w) \/ SendBody(w) \/ GiveUp(w)
    BY <2>1, <2>3, CreateKeeps, MessageKeeps, ContentKeeps, RepeatKeeps, SettingsKeeps, FailKeeps
  <2>4. QED
    BY <1>2, <2>2, <2>3 DEF Next
<1>3. QED
  BY <1>1, <1>2

\* The invariant holds in every reachable state.
THEOREM CardsCorrect == Spec => []CardInv
BY CardInit, CardSteps, PTL DEF Spec

-----------------------------------------------------------------------------
(* What the invariant gives                                                *)

\* A slot has one timer, the one of its entry, however the handlers interleave.
THEOREM HeartbeatsDoNotMultiply == Spec => []OneTimer
<1>1. CardInv => OneTimer
  BY DEF CardInv, Timers
<1>2. QED
  BY <1>1, CardsCorrect, PTL

\* A streaming card that no handler is at work on has its timer running, unless
\* the last event of its slot was no card.
THEOREM StreamingCardsStayArmed == Spec => []StreamingCardIsArmed
<1>1. CardInv => StreamingCardIsArmed
  BY DEF CardInv, Timers, StreamingCardIsArmed, AtRest, UnderWay, Worker
<1>2. QED
  BY <1>1, CardsCorrect, PTL

\* At rest, Feishu will take the sequence number of the next update, unless a
\* card was made or a number repeated in the middle of another update.
THEOREM UpdatesFit == Spec => []NextUpdateFits
<1>1. CardInv => NextUpdateFits
  <2> SUFFICES ASSUME CardInv, NEW k \in Slot \ (fallback \cup mixed), AtRest(k), slot[k].card # 0
               PROVE  NextSequence(k) > card[k][slot[k].card].last
    BY DEF NextUpdateFits
  <2>1. ~Updating(k)
    BY DEF Updating, AtRest, At
  <2>2. card[k][slot[k].card].last < NextSequence(k)
    BY <2>1 DEF CardInv, Repeats, InStep
  <2>3. slot[k].sequence \in Nat /\ card[k][slot[k].card].last \in Nat
    BY Numeric DEF CardInv
  <2>4. QED
    BY <2>2, <2>3 DEF NextSequence
<1>2. QED
  BY <1>1, CardsCorrect, PTL

\* What the core believes delivered was shown on a card or sent as a message, or
\* Feishu took its update for a repetition.
THEOREM AnswersAreTrue == Spec => []AnsweredIsSeen
<1>1. CardInv => AnsweredIsSeen
  BY DEF CardInv, Answers
<1>2. QED
  BY <1>1, CardsCorrect, PTL

\* A heartbeat never covers up a newer version of its card, and the sequence
\* numbers that Feishu takes only grow, for every card of every slot that got no
\* card in the middle of an update of an earlier one and no repetition.
THEOREM CardsNeverGoBack == Spec => CardNeverGoesBack
<1>1. CardInv /\ Next => \A k \in Slot \ mixed, c \in Version :
                            /\ card'[k][c].shows >= card[k][c].shows
                            /\ card'[k][c].last >= card[k][c].last
  <2> SUFFICES ASSUME CardInv, Next, NEW k \in Slot \ mixed, NEW c \in Version
               PROVE  card'[k][c].shows >= card[k][c].shows /\ card'[k][c].last >= card[k][c].last
    OBVIOUS
  <2> USE DEF CardInv
  <2>1. card[k][c].shows \in Nat /\ card[k][c].last \in Nat
    BY Numeric
  <2>2. CASE card'[k][c] = card[k][c]
    BY <2>1, <2>2
  <2>3. ASSUME NEW w \in Worker, CreateCard(w), card'[k][c] # card[k][c]
        PROVE  card'[k][c].shows >= card[k][c].shows /\ card'[k][c].last >= card[k][c].last
    <3>1. /\ work[w].of \in Slot /\ work[w].shows \in Version /\ work[w].shows \in Nat
          /\ ~Made(work[w].of, work[w].shows)
      BY <2>3, Numeric DEF Stages, CreateCard
    <3>2. card[work[w].of][work[w].shows].last = 0 /\ card[work[w].of][work[w].shows].shows = 0
      BY <3>1 DEF Cards, Made
    <3>3. /\ card'[k][c] = [last |-> 0, shows |-> work[w].shows]
          /\ work[w].of = k /\ work[w].shows = c
      BY <2>3, <3>1, SlotType DEF CreateCard
    <3>4. QED
      BY <3>1, <3>2, <3>3
  <2>4. ASSUME NEW w \in Worker, UpdateContent(w), card'[k][c] # card[k][c]
        PROVE  card'[k][c].shows >= card[k][c].shows /\ card'[k][c].last >= card[k][c].last
    <3>1. /\ work[w].of \in Slot /\ work[w].card \in Version /\ work[w].shows \in Nat
          /\ work[w].sequence \in Nat
      BY Numeric
    <3>2. /\ card'[k][c] = [last |-> work[w].sequence, shows |-> work[w].shows]
          /\ work[w].of = k /\ work[w].card = c
      BY <2>4, <3>1, SlotType DEF UpdateContent
    <3>3. CardOf(w) = card[k][c] /\ CardOf(w).last < work[w].sequence /\ Live(w)
      BY <2>1, <2>4, <3>1, <3>2 DEF CardOf, Live, Fits, UpdateContent
    <3>4. CardOf(w).shows <= work[w].shows
      BY <3>2, <3>3 DEF Order
    <3>5. QED
      BY <2>1, <3>1, <3>2, <3>3, <3>4
  <2>5. ASSUME NEW w \in Worker, UpdateSettings(w), card'[k][c] # card[k][c]
        PROVE  card'[k][c].shows >= card[k][c].shows /\ card'[k][c].last >= card[k][c].last
    <3>1. work[w].of \in Slot /\ work[w].card \in Version /\ work[w].sequence \in Nat
      BY Numeric
    <3>2. TakeSettings(w) /\ card' # card
      BY <2>5 DEF UpdateSettings
    <3>3. /\ card' = [card EXCEPT ![work[w].of][work[w].card] =
                         [last |-> work[w].sequence + 1, shows |-> CardOf(w).shows]]
          /\ Fits(w, work[w].sequence + 1)
      BY <3>2 DEF TakeSettings
    <3>4. /\ card'[k][c] = [last |-> work[w].sequence + 1, shows |-> CardOf(w).shows]
          /\ work[w].of = k /\ work[w].card = c
      BY <2>5, <3>1, <3>3, SlotType
    <3>5. CardOf(w) = card[k][c] /\ CardOf(w).last < work[w].sequence + 1
      BY <2>1, <3>1, <3>3, <3>4 DEF CardOf, Fits
    <3>6. QED
      BY <2>1, <3>1, <3>4, <3>5
  <2>6. UNCHANGED card \/ \E w \in Worker : CreateCard(w) \/ UpdateContent(w) \/ UpdateSettings(w)
    BY DEF Next, Post, Fire, SendPlain, RepeatContent, Fail, SendReason, SendBody, GiveUp,
       feishuVars
  <2>7. QED
    BY <2>2, <2>3, <2>4, <2>5, <2>6
<1>2. CardInv /\ [Next]_vars => [\A k \in Slot \ mixed, c \in Version :
                                    /\ card'[k][c].shows >= card[k][c].shows
                                    /\ card'[k][c].last >= card[k][c].last]_vars
  BY <1>1
<1>3. QED
  BY <1>2, CardsCorrect, PTL DEF Spec, CardNeverGoesBack

\* A slot that fell back gets no new card and no new update.
THEOREM FallbacksStay == Spec => FallbackIsForGood
<1> DEFINE Stays == \A k \in fallback, w \in Worker :
                       work'[w].of = k /\ work'[w].stage \in {"create", "content"}
                          => work'[w] = work[w]
<1>1. TypeOK /\ Next => Stays
  <2> SUFFICES ASSUME TypeOK, Next, NEW k \in fallback, NEW w \in Worker,
                      work'[w].of = k, work'[w].stage \in {"create", "content"}
               PROVE  work'[w] = work[w]
    OBVIOUS
  <2>1. ASSUME NEW j \in Slot, NEW isText \in BOOLEAN, Post(j, isText) PROVE work'[w] = work[w]
    <3>1. \A u \in Worker \ {CoreEvent} : work'[u] = work[u]
      BY <2>1 DEF Post, TypeOK
    <3>2. /\ work'[CoreEvent].of = j
          /\ j \in fallback => work'[CoreEvent].stage = "plain"
      BY <2>1, SlotType DEF Post, Worker
    <3>3. QED
      BY <3>1, <3>2
  <2>2. ASSUME NEW j \in Slot, NEW t \in pending[j], Fire(j, t) PROVE work'[w] = work[w]
    <3>1. CASE UNCHANGED work
      BY <3>1
    <3>2. CASE ~UNCHANGED work
      <4>1. j \notin fallback
        BY <3>2, <2>2 DEF Fire
      <4>2. PICK b \in Beat : work' = [work EXCEPT ![b] =
                       [stage |-> "content", of |-> j, card |-> slot[j].card,
                        shows |-> slot[j].shows,
                        sequence |-> NextSequence(j), timer |-> slot[j].timer]]
        BY <3>2, <2>2 DEF Fire
      <4>3. w = b => work'[w].of = j
        BY <4>2, SlotType
      <4>4. QED
        BY <4>1, <4>2, <4>3, SlotType
    <3>3. QED
      BY <3>1, <3>2
  <2>3. ASSUME NEW u \in Worker,
               NEW stage \in {"idle", "settings", "reason", "body", "over"}, Goto(u, stage)
        PROVE  work'[w] = work[w]
    <3>1. w = u => work'[w].stage = stage
      BY <2>3 DEF Goto, TypeOK, Work
    <3>2. w # u => work'[w] = work[w]
      BY <2>3 DEF Goto, TypeOK
    <3>3. QED
      BY <3>1, <3>2
  <2>4. ASSUME NEW u \in Worker,
               \/ CreateCard(u) \/ SendPlain(u)
               \/ UpdateContent(u) \/ RepeatContent(u) \/ UpdateSettings(u)
               \/ Fail(u) \/ SendReason(u) \/ SendBody(u) \/ GiveUp(u)
        PROVE  \E stage \in {"idle", "settings", "reason", "body", "over"} : Goto(u, stage)
    BY <2>4 DEF CreateCard, SendPlain, UpdateContent, RepeatContent, UpdateSettings, Fail,
       SendReason, SendBody, GiveUp, Done, Goto
  <2>5. QED
    BY <2>1, <2>2, <2>3, <2>4 DEF Next
<1>2. TypeOK /\ [Next]_vars => [Stays]_vars
  BY <1>1
<1>3. QED
  BY <1>2, TypeCorrect, PTL DEF Spec, FallbackIsForGood

=============================================================================
