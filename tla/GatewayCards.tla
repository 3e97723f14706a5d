----------------------------- MODULE GatewayCards -----------------------------
(***************************************************************************)
(* The card slots of one turn in the gateway (gateway/src/service.js): the *)
(* core posts the events of a turn one after the other (handleCoreEvent),  *)
(* each slot keeps one card up to date or falls back to plain messages,    *)
(* and a card in streaming mode gets heartbeats from a timer while nothing *)
(* else happens (sendCardHeartbeat).  Both read the entry of the slot,     *)
(* await Feishu, and write the entry again.                                *)
(*                                                                         *)
(* What an event shows is a version, counted up by the core; a heartbeat   *)
(* shows the version of the card it repeats.  A card is named by the       *)
(* version it was made for: a plan that is emptied becomes a text, and the *)
(* next plan a new card.  Feishu takes an update of a card only with a     *)
(* sequence number above the last one it took; a number that was used may  *)
(* also pass for a repetition, because the request is keyed by card and    *)
(* number (uuid).                                                          *)
(***************************************************************************)
EXTENDS Naturals

CONSTANTS Slot,         \* slots that carry cards
          Streaming,    \* slots whose cards have streaming_mode (update_multi)
          CoreEvent,    \* the handler of the event that the core waits for
          Beat,         \* handlers of heartbeats
          Faults,       \* which requests of Feishu may fail
          MaxVersion,   \* bound on the events of a slot
          MaxBeats      \* bound on the heartbeats of a slot

ASSUME ConstantsAssumption ==
    /\ Streaming \subseteq Slot
    /\ CoreEvent \notin Beat
    /\ Faults \subseteq {"cards", "messages"}
    /\ MaxVersion \in Nat
    /\ MaxBeats \in Nat

VARIABLES
    version,   \* version[k]: events that the core posted for slot k
    texts,     \* texts[k]: those that are no card
    work,      \* work[w]: what a handler has read, and the step it is at
    slot,      \* slot[k]: the entry of k in slotStates
    fallback,  \* cardFallbackSlots
    pending,   \* pending[k]: timers of k that will fire
    timers,    \* timers[k]: how many timers k ever had
    beats,     \* beats[k]: how many heartbeats k ever had
    card,      \* card[k][c]: Feishu's side of card c of k
    seen,      \* seen[k]: versions that a card of the slot showed
    told,      \* told[k]: versions that were sent as messages
    answered,  \* answered[k]: versions for which the core got a success
    repeated,  \* repeated[k]: versions whose update passed for a repetition
    mixed      \* slots with such an update, or with a card made while an update
               \* of an earlier one was under way

vars == <<version, texts, work, slot, fallback, pending, timers, beats, card, seen,
          told, answered, repeated, mixed>>

-----------------------------------------------------------------------------
(* Types                                                                   *)

Worker == {CoreEvent} \cup Beat
Version == 0 .. MaxVersion

\* Steps that await Feishu: the two requests of updateCard, a new card, the
\* two messages of a fallback, a plain message.  "over": the core got an error
\* and leaves the turn.
Stage == {"idle", "content", "settings", "create", "reason", "body", "plain", "over"}

\* The fields of an entry that matter: cardId, sequence, lastCard and
\* heartbeatTimer; 0 stands for no card, no card to repeat and no timer.
Entry == [card : Version, sequence : Nat, shows : Version, timer : Nat]
Work == [stage : Stage, of : Slot, card : Version, shows : Version, sequence : Nat,
         timer : Nat]
Card == [last : Nat, shows : Version]

TypeOK ==
    /\ version \in [Slot -> Version]
    /\ texts \in [Slot -> SUBSET Version]
    /\ work \in [Worker -> Work]
    /\ \A b \in Beat : work[b].stage \in {"idle", "content", "settings", "reason"}
    /\ slot \in [Slot -> Entry]
    /\ fallback \subseteq Slot
    /\ pending \in [Slot -> SUBSET (Nat \ {0})]
    /\ timers \in [Slot -> Nat]
    /\ beats \in [Slot -> 0 .. MaxBeats]
    /\ card \in [Slot -> [Version -> Card]]
    /\ seen \in [Slot -> SUBSET Version]
    /\ told \in [Slot -> SUBSET Version]
    /\ answered \in [Slot -> SUBSET Version]
    /\ repeated \in [Slot -> SUBSET Version]
    /\ mixed \subseteq Slot

NoEntry == [card |-> 0, sequence |-> 0, shows |-> 0, timer |-> 0]

Init ==
    /\ version = [k \in Slot |-> 0]
    /\ texts = [k \in Slot |-> {}]
    /\ \E k \in Slot : work = [w \in Worker |->
          [stage |-> "idle", of |-> k, card |-> 0, shows |-> 0, sequence |-> 0, timer |-> 0]]
    /\ slot = [k \in Slot |-> NoEntry]
    /\ fallback = {}
    /\ pending = [k \in Slot |-> {}]
    /\ timers = [k \in Slot |-> 0]
    /\ beats = [k \in Slot |-> 0]
    /\ card = [k \in Slot |-> [c \in Version |-> [last |-> 0, shows |-> 0]]]
    /\ seen = [k \in Slot |-> {}]
    /\ told = [k \in Slot |-> {}]
    /\ answered = [k \in Slot |-> {}]
    /\ repeated = [k \in Slot |-> {}]
    /\ mixed = {}

\* Groups of variables that actions leave alone together.
postVars == <<version, texts>>
feishuVars == <<card, seen, told>>
mixVars == <<repeated, mixed>>
timerVars == <<pending, timers, beats>>

At(w, stage) == work[w].stage = stage
Goto(w, stage) == work' = [work EXCEPT ![w].stage = stage]
Done(w) == work' = [work EXCEPT ![w].stage = "idle"]

-----------------------------------------------------------------------------
(* The entry of a slot and its timer                                       *)

\* clearHeartbeat
ClearHeartbeat(k) ==
    /\ pending' = [pending EXCEPT ![k] = @ \ {slot[k].timer}]
    /\ slot' = [slot EXCEPT ![k].timer = 0]
    /\ UNCHANGED <<timers, beats>>

\* updateSlotState: the timer of the old entry is cleared unless the new state
\* names the same one.
Replace(k, entry, named) ==
    /\ pending' = [pending EXCEPT ![k] = @ \ ({slot[k].timer} \ named)]
    /\ slot' = [slot EXCEPT ![k] = entry]
    /\ UNCHANGED <<timers, beats>>

\* Slip: the new timer is set beside the one there is.
ReplaceAndArmLeaking(k, entry, named) ==
    IF k \in fallback \/ entry.card = 0 \/ entry.shows = 0 \/ k \notin Streaming
      THEN Replace(k, entry, named)
      ELSE /\ timers' = [timers EXCEPT ![k] = @ + 1]
           /\ pending' = [pending EXCEPT ![k] = @ \cup {timers[k] + 1}]
           /\ slot' = [slot EXCEPT ![k] = [entry EXCEPT !.timer = timers[k] + 1]]
           /\ UNCHANGED beats

\* Slip: an entry that names a timer gets no new one.
ReplaceAndArmOnce(k, entry, named) ==
    IF k \in fallback \/ entry.card = 0 \/ entry.shows = 0 \/ k \notin Streaming \/ entry.timer # 0
      THEN Replace(k, entry, named)
      ELSE /\ timers' = [timers EXCEPT ![k] = @ + 1]
           /\ pending' = [pending EXCEPT ![k] = (@ \ {slot[k].timer}) \cup {timers[k] + 1}]
           /\ slot' = [slot EXCEPT ![k] = [entry EXCEPT !.timer = timers[k] + 1]]
           /\ UNCHANGED beats

\* updateSlotState, then scheduleCardHeartbeat: a streaming card that has not
\* fallen back gets a new timer in the place of the one in its entry.
ReplaceAndArm(k, entry, named) ==
    IF k \in fallback \/ entry.card = 0 \/ entry.shows = 0 \/ k \notin Streaming
      THEN Replace(k, entry, named)
      ELSE /\ timers' = [timers EXCEPT ![k] = @ + 1]
           /\ pending' = [pending EXCEPT ![k] =
                             (@ \ {slot[k].timer, entry.timer}) \cup {timers[k] + 1}]
           /\ slot' = [slot EXCEPT ![k] = [entry EXCEPT !.timer = timers[k] + 1]]
           /\ UNCHANGED beats

\* The sequence number of the next updateCard, which uses this one and the one
\* after it.
NextSequence(k) == slot[k].sequence + 2

-----------------------------------------------------------------------------
(* handleCoreEvent                                                         *)

\* The core posts the next event of a turn when it has the answer to the last:
\* plans as they change, which are no card when there is nothing left of them
\* (todo_message), and, at the end, one final card.
PlanIsEmptied(k) == k \in Streaming /\ version[k] \notin texts[k] \cup {0}

\* What an event becomes: a plain message (shouldUsePlainMessageTransport), an
\* update, or a new card.
Post(k, isText) ==
    LET plain == k \in fallback \/ isText
    IN  /\ At(CoreEvent, "idle")
        /\ version[k] < MaxVersion
        /\ \A final \in Slot \ Streaming : version[final] = 0
        /\ isText => PlanIsEmptied(k)
        /\ version' = [version EXCEPT ![k] = @ + 1]
        /\ texts' = IF isText THEN [texts EXCEPT ![k] = @ \cup {version[k] + 1}] ELSE texts
        /\ work' = [work EXCEPT ![CoreEvent] =
                      [stage |-> IF plain THEN "plain"
                                   ELSE IF slot[k].card # 0 THEN "content" ELSE "create",
                       of |-> k, card |-> slot[k].card, shows |-> version[k] + 1,
                       sequence |-> NextSequence(k), timer |-> slot[k].timer]]
        /\ IF plain THEN ClearHeartbeat(k) ELSE UNCHANGED <<slot, timerVars>>
        /\ UNCHANGED <<fallback, feishuVars, answered, mixVars>>

\* A request is on its way to a card of k.
UnderWay(k) == \E w \in Worker : work[w].of = k /\ work[w].stage \in {"content", "settings"}

\* replyCardKitToMessage.  A heartbeat of an earlier card of the slot may be
\* under way; it will write its number and its card into the entry of this one.
CreateCard(w) ==
    LET k == work[w].of
        made == work[w].shows
        entry == [slot[k] EXCEPT !.card = made, !.sequence = 1, !.shows = made]
    IN  /\ At(w, "create")
        /\ card' = [card EXCEPT ![k][made] = [last |-> 0, shows |-> made]]
        /\ seen' = [seen EXCEPT ![k] = @ \cup {made}]
        /\ ReplaceAndArm(k, entry, {})
        /\ answered' = [answered EXCEPT ![k] = @ \cup {made}]
        /\ mixed' = IF UnderWay(k) THEN mixed \cup {k} ELSE mixed
        /\ Done(w)
        /\ UNCHANGED <<postVars, fallback, told, repeated>>

\* replyToMessage of a message that is no card.  The entry is replaced if the
\* answer names the message, which not every answer need do.
SendPlain(w) ==
    LET k == work[w].of
    IN  /\ At(w, "plain")
        /\ told' = [told EXCEPT ![k] = @ \cup {work[w].shows}]
        /\ \/ Replace(k, [slot[k] EXCEPT !.card = 0, !.sequence = 0], {})
           \/ "messages" \in Faults /\ UNCHANGED <<slot, timerVars>>
        /\ answered' = [answered EXCEPT ![k] = @ \cup {work[w].shows}]
        /\ Done(w)
        /\ UNCHANGED <<postVars, fallback, card, seen, mixVars>>

-----------------------------------------------------------------------------
(* sendCardHeartbeat                                                       *)

\* The timer t fires: a slot that fell back or has no card gets no heartbeat.
Fire(k, t) ==
    /\ t \in pending[k]
    /\ beats[k] < MaxBeats
    /\ beats' = [beats EXCEPT ![k] = @ + 1]
    /\ pending' = [pending EXCEPT ![k] = @ \ {t}]
    /\ IF k \in fallback \/ slot[k].card = 0 \/ slot[k].shows = 0
         THEN UNCHANGED work
         ELSE \E b \in Beat :
                 /\ At(b, "idle")
                 /\ work' = [work EXCEPT ![b] =
                       [stage |-> "content", of |-> k, card |-> slot[k].card,
                        shows |-> slot[k].shows,
                        sequence |-> NextSequence(k), timer |-> slot[k].timer]]
    /\ UNCHANGED <<postVars, slot, fallback, timers, feishuVars, answered, mixVars>>

-----------------------------------------------------------------------------
(* updateCard, of an event or of a heartbeat                               *)

\* What Feishu has of the card that w updates.
CardOf(w) == card[work[w].of][work[w].card]
Fits(w, sequence) == sequence > CardOf(w).last

\* Slip: the sequence number is drawn when the request is sent.
UpdateContentNumbered(w) ==
    LET k == work[w].of
        next == CardOf(w).last + 1
    IN  /\ At(w, "content")
        /\ card' = [card EXCEPT ![k][work[w].card] = [last |-> next, shows |-> work[w].shows]]
        /\ seen' = [seen EXCEPT ![k] = @ \cup {work[w].shows}]
        /\ work' = [work EXCEPT ![w].stage = "settings", ![w].sequence = next]
        /\ UNCHANGED <<postVars, slot, fallback, timerVars, told, answered, mixVars>>

\* The first request, the content of the card.
UpdateContent(w) ==
    LET k == work[w].of
    IN  /\ At(w, "content")
        /\ Fits(w, work[w].sequence)
        /\ card' = [card EXCEPT ![k][work[w].card] =
                        [last |-> work[w].sequence, shows |-> work[w].shows]]
        /\ seen' = [seen EXCEPT ![k] = @ \cup {work[w].shows}]
        /\ Goto(w, "settings")
        /\ UNCHANGED <<postVars, slot, fallback, timerVars, told, answered, mixVars>>

\* The number was used: Feishu may take the request for the one that used it,
\* answer with success and change nothing.
RepeatContent(w) ==
    LET k == work[w].of
    IN  /\ At(w, "content")
        /\ ~Fits(w, work[w].sequence)
        /\ repeated' = [repeated EXCEPT ![k] = @ \cup {work[w].shows}]
        /\ mixed' = mixed \cup {k}
        /\ Goto(w, "settings")
        /\ UNCHANGED <<postVars, slot, fallback, timerVars, feishuVars, answered>>

\* What Feishu makes of the second request, the settings: it may pass for a
\* repetition as well.
TakeSettings(w) ==
    LET k == work[w].of
        number == work[w].sequence + 1
        taken == [last |-> number, shows |-> CardOf(w).shows]
    IN  \/ /\ Fits(w, number)
           /\ card' = [card EXCEPT ![k][work[w].card] = taken]
           /\ UNCHANGED mixed
        \/ /\ ~Fits(w, number)
           /\ mixed' = mixed \cup {k}
           /\ UNCHANGED card

\* The second request returns.  An event writes back the entry it read, a
\* heartbeat changes the entry there is.
UpdateSettings(w) ==
    LET k == work[w].of
        read == [card |-> work[w].card, sequence |-> work[w].sequence,
                 shows |-> work[w].shows, timer |-> work[w].timer]
        changed == [slot[k] EXCEPT !.sequence = work[w].sequence, !.shows = work[w].shows]
    IN  /\ At(w, "settings")
        /\ TakeSettings(w)
        /\ IF w = CoreEvent
             THEN /\ ReplaceAndArm(k, read, {work[w].timer})
                  /\ answered' = [answered EXCEPT ![k] = @ \cup {work[w].shows}]
             ELSE /\ ReplaceAndArm(k, changed, {})
                  /\ UNCHANGED answered
        /\ Done(w)
        /\ UNCHANGED <<postVars, fallback, seen, told, repeated>>

-----------------------------------------------------------------------------
(* fallbackSlotToMessages                                                  *)

\* Slip: the failure of a card goes to the core.
FailTheTurn(w) ==
    LET k == work[w].of
    IN  /\ \/ At(w, "content") /\ ~Fits(w, work[w].sequence)
           \/ At(w, "settings") /\ ~Fits(w, work[w].sequence + 1)
           \/ "cards" \in Faults /\ work[w].stage \in {"content", "settings", "create"}
        /\ Goto(w, "over")
        /\ UNCHANGED <<postVars, slot, fallback, timerVars, feishuVars, answered, mixVars>>

\* Feishu refuses the sequence number, or fails.
Fail(w) ==
    LET k == work[w].of
    IN  /\ \/ At(w, "content") /\ ~Fits(w, work[w].sequence)
           \/ At(w, "settings") /\ ~Fits(w, work[w].sequence + 1)
           \/ "cards" \in Faults /\ work[w].stage \in {"content", "settings", "create"}
        /\ fallback' = fallback \cup {k}
        /\ ClearHeartbeat(k)
        /\ Goto(w, "reason")
        /\ UNCHANGED <<postVars, feishuVars, answered, mixVars>>

\* The message that says why.  What comes next is the text of the card, which
\* renderFallbackMessage takes from its blocks.  The card of an event has them;
\* the one of a heartbeat is already rendered (lastCard) and has none, so
\* rendering throws and the heartbeat ends in the log.
SendReason(w) ==
    /\ At(w, "reason")
    /\ Goto(w, IF w = CoreEvent THEN "body" ELSE "idle")
    /\ UNCHANGED <<postVars, slot, fallback, timerVars, feishuVars, answered, mixVars>>

\* What the card would have shown, as text.
SendBody(w) ==
    LET k == work[w].of
    IN  /\ At(w, "body")
        /\ told' = [told EXCEPT ![k] = @ \cup {work[w].shows}]
        /\ Replace(k, NoEntry, {})
        /\ answered' = [answered EXCEPT ![k] = @ \cup {work[w].shows}]
        /\ Done(w)
        /\ UNCHANGED <<postVars, fallback, card, seen, mixVars>>

\* Slip: the failure of a plain message is logged and the event acknowledged.
GiveUpQuietly(w) ==
    /\ "messages" \in Faults
    /\ work[w].stage \in {"reason", "body", "plain"}
    /\ answered' = [answered EXCEPT ![work[w].of] = @ \cup {work[w].shows}]
    /\ Done(w)
    /\ UNCHANGED <<postVars, slot, fallback, timerVars, feishuVars, mixVars>>

\* A plain message fails: the error goes to the core, which leaves the turn, or
\* to the log.
GiveUp(w) ==
    /\ "messages" \in Faults
    /\ work[w].stage \in {"reason", "body", "plain"}
    /\ Goto(w, IF w = CoreEvent THEN "over" ELSE "idle")
    /\ UNCHANGED <<postVars, slot, fallback, timerVars, feishuVars, answered, mixVars>>

-----------------------------------------------------------------------------

Next ==
    \/ \E k \in Slot : \/ \E isText \in BOOLEAN : Post(k, isText)
                       \/ \E t \in pending[k] : Fire(k, t)
    \/ \E w \in Worker : \/ CreateCard(w) \/ SendPlain(w)
                         \/ UpdateContent(w) \/ RepeatContent(w) \/ UpdateSettings(w)
                         \/ Fail(w) \/ SendReason(w) \/ SendBody(w) \/ GiveUp(w)

Spec == Init /\ [][Next]_vars

\* Requests to Feishu return, with or without an error.
FairSpec ==
    /\ Spec
    /\ \A w \in Worker : WF_vars(\/ CreateCard(w) \/ SendPlain(w)
                                \/ UpdateContent(w) \/ RepeatContent(w) \/ UpdateSettings(w)
                                \/ Fail(w) \/ SendReason(w) \/ SendBody(w) \/ GiveUp(w))

-----------------------------------------------------------------------------
(* Safety                                                                  *)

\* Heartbeats do not multiply, whatever entry a handler writes back: a slot
\* never has two timers, and the one it has is the one its entry names.
OneTimer == \A k \in Slot : pending[k] \subseteq {slot[k].timer}

\* A card in streaming mode is kept alive: when no handler is at work on it its
\* timer is running (scheduleCardHeartbeat at the end of every handler), unless
\* the last event of the slot was no card.
AtRest(k) == \A w \in Worker : work[w].of = k => work[w].stage \in {"idle", "over"}
StreamingCardIsArmed ==
    \A k \in Streaming \ fallback :
       AtRest(k) /\ slot[k].card # 0 /\ version[k] \notin texts[k]
          => slot[k].timer \in pending[k]

\* At rest the entry is in step with Feishu: the next update will be taken
\* (nextSequence = sequence + 2, because updateCard uses two), unless a card was
\* made or a number repeated in the middle of another update of the slot.
NextUpdateFits ==
    \A k \in Slot \ (fallback \cup mixed) :
       AtRest(k) /\ slot[k].card # 0 => NextSequence(k) > card[k][slot[k].card].last

\* An event that the core believes delivered was shown, on a card or as text,
\* unless Feishu took its update for a repetition of a heartbeat's.
AnsweredIsSeen == \A k \in Slot : answered[k] \subseteq seen[k] \cup told[k] \cup repeated[k]

\* A heartbeat repeats the card it read before its request; an update of the
\* card that came meanwhile is never covered up by the older one, in whatever
\* order the requests arrive, fail or are refused.  Two cases are left out,
\* because the code does not hold there: the slot got a new card (after a plan
\* that was emptied) while a heartbeat of the old one was under way, which then
\* writes the old plan into the entry of the new card; or Feishu took a request
\* for a repetition.
CardNeverGoesBack ==
    [][\A k \in Slot \ mixed, c \in Version :
          /\ card'[k][c].shows >= card[k][c].shows
          /\ card'[k][c].last >= card[k][c].last]_vars

\* A slot that fell back gets no new card and no new update, although an update
\* that was in flight may write its card back into the entry.
FallbackIsForGood ==
    [][\A k \in fallback, w \in Worker :
          work'[w].of = k /\ work'[w].stage \in {"create", "content"}
             => work'[w] = work[w]]_vars

\* docs/design.md: when the card of a plan cannot be updated, the gateway falls
\* back to plain messages.  The code sends the reason; after a heartbeat that is
\* all there is.
FallbackTellsThePlan ==
    \A k \in fallback : AtRest(k) => told[k] # {}

-----------------------------------------------------------------------------
(* Liveness                                                                *)

\* An event whose card cannot be sent or updated is delivered as messages and
\* the turn goes on (fallbackSlotToMessages, docs/design.md): every event is
\* answered, unless a message failed: one of a slot that fell back as well, or the
\* text that an emptied plan becomes.
MessageFailed ==
    LET event == work[CoreEvent]
    IN  event.stage = "over" /\ (event.of \in fallback \/ event.shows \in texts[event.of])
EveryEventIsDelivered ==
    \A k \in Slot : \A v \in Version \ {0} :
       version[k] >= v ~> v \in answered[k] \/ MessageFailed

=============================================================================
