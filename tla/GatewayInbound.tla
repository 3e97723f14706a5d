---------------------------- MODULE GatewayInbound ----------------------------
(***************************************************************************)
(* How the gateway takes messages in (gateway/src/service.js,              *)
(* gateway/src/feishu/dedup.js): Feishu pushes a message, possibly more    *)
(* than once; the deduper forgets a message after its window; the handlers *)
(* of one session are chained promises, so that the core gets the messages *)
(* of a chat one after the other; the turn the core started is remembered  *)
(* in turnContexts, where the events of the turn look for it.              *)
(*                                                                         *)
(* JavaScript runs one callback at a time: every action is what happens    *)
(* from one await to the next.  A turn is named by the push that started   *)
(* it.  Pushes are of text messages with an identity, from authorized      *)
(* users.                                                                  *)
(***************************************************************************)
EXTENDS Naturals

CONSTANTS Push,        \* events pushed by Feishu
          Message,     \* message ids
          Session,     \* session keys
          MessageOf,   \* the message a push is about
          SessionOf,   \* the session key a message is routed to
          NoPush,
          Ttl,         \* window of the deduper (FEISHU_DEDUP_TTL_MS)
          Faults,      \* which environment failures are considered
          MaxTime,     \* bound on the clock
          MaxRestarts  \* bound on restarts of the gateway

ASSUME ConstantsAssumption ==
    /\ MessageOf \in [Push -> Message]
    /\ SessionOf \in [Message -> Session]
    /\ NoPush \notin Push
    /\ Ttl \in Nat
    /\ Faults \subseteq {"response", "feishu"}
    /\ MaxTime \in Nat
    /\ MaxRestarts \in Nat

VARIABLES
    phase,     \* phase[p]: what handleFeishuEvent does for p
    after,     \* after[p]: the push whose chained promise p waits for
    tail,      \* tail[s]: entry of s in sessionQueues
    seenAt,    \* seenAt[m]: time stamp of m in the deduper, or Never
    now,       \* the clock
    contexts,  \* turns known in turnContexts
    core,      \* core[p]: what the core made of the request for p
    final,     \* final[p]: what became of the final event of turn p
    told,      \* turns whose user was told that they could not be started
    ticket,    \* ticket[p]: rank of p among the pushes taken in, 0 if none
    taken,     \* how many pushes were taken in
    takenAt,   \* takenAt[p]: when this process took p in, or Never
    restarts

vars == <<phase, after, tail, seenAt, now, contexts, core, final, told,
          ticket, taken, takenAt, restarts>>

-----------------------------------------------------------------------------
(* Types                                                                   *)

Never == MaxTime + 1
Time == 0 .. MaxTime

\* The handler of p runs, between two awaits.
Handling == {"submitting", "reacting", "replying", "rejecting"}
\* The handler is over and its cleanup has not run.
Settled == {"fulfilled", "rejected"}
\* The promise stored for p is settled, or its process is gone.
Over == {"resolved", "broken", "gone"}
Phase == {"new", "ignored", "queued"} \cup Handling \cup Settled \cup Over

\* The core started a turn, replied at once (to a command, or to a message that
\* it passed on to the turn at work) or refused.
Answered == {"turn", "reply", "refused"}
Request == {"none", "sent"} \cup Answered

Key(p) == SessionOf[MessageOf[p]]

TypeOK ==
    /\ phase \in [Push -> Phase]
    /\ after \in [Push -> Push \cup {NoPush}]
    /\ tail \in [Session -> Push \cup {NoPush}]
    /\ seenAt \in [Message -> Time \cup {Never}]
    /\ now \in Time
    /\ contexts \subseteq Push
    /\ core \in [Push -> Request]
    /\ final \in [Push -> {"none", "shown", "dropped"}]
    /\ told \subseteq Push
    /\ ticket \in [Push -> Nat]
    /\ taken \in Nat
    /\ takenAt \in [Push -> Time \cup {Never}]
    /\ restarts \in 0 .. MaxRestarts

Init ==
    /\ phase = [p \in Push |-> "new"]
    /\ after = [p \in Push |-> NoPush]
    /\ tail = [s \in Session |-> NoPush]
    /\ seenAt = [m \in Message |-> Never]
    /\ now = 0
    /\ contexts = {}
    /\ core = [p \in Push |-> "none"]
    /\ final = [p \in Push |-> "none"]
    /\ told = {}
    /\ ticket = [p \in Push |-> 0]
    /\ taken = 0
    /\ takenAt = [p \in Push |-> Never]
    /\ restarts = 0

\* Groups of variables that actions leave alone together.
dedupVars == <<seenAt, now, takenAt>>
queueVars == <<after, tail, ticket, taken>>
turnVars == <<contexts, core, final, told>>

At(p, label) == phase[p] = label
Goto(p, label) == phase' = [phase EXCEPT ![p] = label]

-----------------------------------------------------------------------------
(* MessageDeduper                                                          *)

\* Slip: a message is forgotten at the end of its window, not after it.
PrunedEarly == [m \in Message |->
                   IF Ttl > 0 /\ seenAt[m] # Never /\ now - seenAt[m] >= Ttl
                     THEN Never ELSE seenAt[m]]

\* prune: a window of 0 prunes nothing.
Pruned == [m \in Message |->
              IF Ttl > 0 /\ seenAt[m] # Never /\ now - seenAt[m] > Ttl
                THEN Never ELSE seenAt[m]]

Tick == /\ now < MaxTime
        /\ now' = now + 1
        /\ UNCHANGED <<phase, queueVars, seenAt, takenAt, turnVars, restarts>>

\* handleFeishuEvent: the message was seen.
Ignore(p) ==
    /\ At(p, "new")
    /\ Pruned[MessageOf[p]] # Never
    /\ seenAt' = Pruned
    /\ Goto(p, "ignored")
    /\ UNCHANGED <<queueVars, now, takenAt, turnVars, restarts>>

-----------------------------------------------------------------------------
(* enqueueForSession                                                       *)

\* A message not seen before is marked, and its handler is chained behind the
\* one that sessionQueues holds for the session.
Take(p) ==
    /\ At(p, "new")
    /\ Pruned[MessageOf[p]] = Never
    /\ seenAt' = [Pruned EXCEPT ![MessageOf[p]] = now]
    /\ takenAt' = [takenAt EXCEPT ![p] = now]
    /\ taken' = taken + 1
    /\ ticket' = [ticket EXCEPT ![p] = taken + 1]
    /\ after' = [after EXCEPT ![p] = tail[Key(p)]]
    /\ tail' = [tail EXCEPT ![Key(p)] = p]
    /\ Goto(p, "queued")
    /\ UNCHANGED <<now, turnVars, restarts>>

\* Slip: previous is chained without catch, a rejected one skips the handler.
BeginUnlessRejected(p) ==
    /\ At(p, "queued")
    /\ after[p] # NoPush => At(after[p], "resolved")
    /\ core' = [core EXCEPT ![p] = "sent"]
    /\ Goto(p, "submitting")
    /\ UNCHANGED <<queueVars, dedupVars, contexts, final, told, restarts>>

\* The promise p waits for is settled, well or badly: submitInbound is called.
Begin(p) ==
    /\ At(p, "queued")
    /\ after[p] # NoPush => phase[after[p]] \in Over
    /\ core' = [core EXCEPT ![p] = "sent"]
    /\ Goto(p, "submitting")
    /\ UNCHANGED <<queueVars, dedupVars, contexts, final, told, restarts>>

\* The promise stored for p is settled as the handler was.  A rejected one must
\* have somebody chained behind it, whose catch takes the error.
Settles(p) ==
    /\ phase[p] \in Settled
    /\ At(p, "rejected") => \E q \in Push : after[q] = p
    /\ Goto(p, IF At(p, "fulfilled") THEN "resolved" ELSE "broken")
    /\ UNCHANGED <<after, ticket, taken, dedupVars, turnVars, restarts>>

\* Slip: the entry of the session is deleted whosever it is.
CleanupForeign(p) ==
    /\ Settles(p)
    /\ tail' = [tail EXCEPT ![Key(p)] = NoPush]

\* Slip: the identity test compares with the promise that was not stored.
CleanupNever(p) ==
    /\ Settles(p)
    /\ UNCHANGED tail

\* next.finally: the entry goes if it is still that of p.
Cleanup(p) ==
    /\ Settles(p)
    /\ tail' = IF tail[Key(p)] = p THEN [tail EXCEPT ![Key(p)] = NoPush] ELSE tail

-----------------------------------------------------------------------------
(* handleSessionEvent                                                      *)

\* The response is read: a turn is entered into turnContexts, unless there are
\* replies, as there are when the turn it names is one that was steered.
Respond(p) ==
    /\ At(p, "submitting")
    /\ core[p] \in Answered
    /\ contexts' = IF core[p] = "turn" THEN contexts \cup {p} ELSE contexts
    /\ Goto(p, CASE core[p] = "turn" -> "reacting"
                 [] core[p] = "reply" -> "replying"
                 [] core[p] = "refused" -> "rejecting")
    /\ UNCHANGED <<queueVars, dedupVars, core, final, told, restarts>>

\* fetch fails: the request did not reach the core, or the response is lost.
RespondFails(p) ==
    /\ "response" \in Faults
    /\ At(p, "submitting")
    /\ core' = IF core[p] = "sent" THEN [core EXCEPT ![p] = "refused"] ELSE core
    /\ Goto(p, "rejecting")
    /\ UNCHANGED <<queueVars, dedupVars, contexts, final, told, restarts>>

\* Slip: the error of the reaction is not caught on the spot.
ReactOrReject(p) ==
    /\ At(p, "reacting")
    /\ \/ Goto(p, "fulfilled")
       \/ "feishu" \in Faults /\ Goto(p, "rejecting")
    /\ UNCHANGED <<queueVars, dedupVars, turnVars, restarts>>

\* The reaction to the message, whose failure is logged.
React(p) ==
    /\ At(p, "reacting")
    /\ Goto(p, "fulfilled")
    /\ UNCHANGED <<queueVars, dedupVars, turnVars, restarts>>

\* The immediate replies; one that fails is answered like a refusal, although
\* the command was executed or the message passed on.
Reply(p) ==
    /\ At(p, "replying")
    /\ \/ Goto(p, "fulfilled")
       \/ "feishu" \in Faults /\ Goto(p, "rejecting")
    /\ UNCHANGED <<queueVars, dedupVars, turnVars, restarts>>

\* "The turn could not be started" is sent; when that fails the handler does.
Reject(p) ==
    /\ At(p, "rejecting")
    /\ \/ Goto(p, "fulfilled")
       \/ "feishu" \in Faults /\ Goto(p, "rejected")
    /\ told' = IF core[p] = "turn" THEN told \cup {p} ELSE told
    /\ UNCHANGED <<queueVars, dedupVars, contexts, core, final, restarts>>

-----------------------------------------------------------------------------
(* The core, seen from the gateway, and restarts.                          *)

\* handle_inbound: the turn is spawned before the response is written.
CoreTakes(p) ==
    /\ core[p] = "sent"
    /\ \E answer \in Answered : core' = [core EXCEPT ![p] = answer]
    /\ UNCHANGED <<phase, queueVars, dedupVars, contexts, final, told, restarts>>

\* handleCoreEvent of the final event: without context it is dropped, and
\* acknowledged all the same.
PublishFinal(p) ==
    /\ core[p] = "turn"
    /\ final[p] = "none"
    /\ final' = [final EXCEPT ![p] = IF p \in contexts THEN "shown" ELSE "dropped"]
    /\ UNCHANGED <<phase, queueVars, dedupVars, contexts, core, told, restarts>>

\* The process ends and another one starts: handlers, queues, contexts and the
\* deduper are gone; the core may still take a request that was sent.
StartAgain ==
    /\ phase' = [p \in Push |-> IF phase[p] \in {"queued"} \cup Handling \cup Settled
                                  THEN "gone" ELSE phase[p]]
    /\ tail' = [s \in Session |-> NoPush]
    /\ seenAt' = [m \in Message |-> Never]
    /\ takenAt' = [p \in Push |-> Never]
    /\ contexts' = {}
    /\ UNCHANGED <<after, ticket, taken, now, core, final, told>>

Restart ==
    /\ restarts < MaxRestarts
    /\ restarts' = restarts + 1
    /\ StartAgain

\* The stored promise of p is rejected and nobody is chained behind it: the
\* callers catch the error of next, nobody that of cleanup, and Node ends the
\* process over an unhandled rejection.
Dies(p) ==
    /\ At(p, "rejected")
    /\ ~\E q \in Push : after[q] = p
    /\ StartAgain
    /\ UNCHANGED restarts

-----------------------------------------------------------------------------

Handle(p) == \/ Begin(p) \/ Respond(p) \/ RespondFails(p) \/ React(p) \/ Reply(p)
             \/ Reject(p) \/ Cleanup(p)

Next == \/ \E p \in Push : \/ Ignore(p) \/ Take(p) \/ Handle(p)
                           \/ CoreTakes(p) \/ PublishFinal(p) \/ Dies(p)
        \/ Tick
        \/ Restart

Spec == Init /\ [][Next]_vars

\* The event loop runs every callback that is ready; the core and Feishu
\* answer, well or badly (neither fetch has a timeout of its own).
FairSpec == Spec /\ \A p \in Push : WF_vars(Handle(p) \/ Dies(p)) /\ WF_vars(CoreTakes(p))

-----------------------------------------------------------------------------
(* Safety                                                                  *)

\* The core gets the messages of a session one at a time and in the order in
\* which the gateway took them in: it has answered every earlier one, unless
\* the gateway that sent it is gone.
InOrder ==
    \A p, q \in Push : /\ Key(p) = Key(q)
                       /\ 0 < ticket[p] /\ ticket[p] < ticket[q]
                       /\ core[q] # "none"
                       => core[p] \in Answered \/ At(p, "gone")

\* A message pushed again is taken in again only after its window.
TakenOnce ==
    \A p, q \in Push : /\ p # q
                       /\ MessageOf[p] = MessageOf[q]
                       /\ takenAt[p] # Never /\ takenAt[q] # Never
                       => /\ Ttl > 0
                          /\ takenAt[p] - takenAt[q] > Ttl \/ takenAt[q] - takenAt[p] > Ttl

\* sessionQueues holds nothing for a session without work: it does not grow
\* with the sessions that ever wrote.
QueueIsFreed ==
    \A s \in Session :
        (\A p \in Push : Key(p) = s => phase[p] \in {"new", "ignored"} \cup Over)
            => tail[s] = NoPush

\* A turn that its user was told could not be started stays silent: also when
\* the core runs it because only the response was lost, and when Feishu refuses
\* the reaction.  (A command or a steered message whose reply fails is answered
\* in the same words, although it was carried out: this is about turns.)
RejectedTurnIsNotShown == \A p \in told : final[p] # "shown"

-----------------------------------------------------------------------------
(* Liveness                                                                *)

\* A message that was taken in is handled to the end, whatever becomes of the
\* messages before it.
NobodyIsStuck == \A p \in Push : At(p, "queued") ~> phase[p] \in Over

-----------------------------------------------------------------------------
(* What the documentation says and the code does not do.                   *)

\* docs/configuration.md: a window of 0 switches the deduper off.
ZeroWindowIgnoresNothing == Ttl = 0 => \A p \in Push : phase[p] # "ignored"

\* docs/architecture.md: the final message that the core generated is shown by
\* the gateway.
FinalIsShown == \A p \in Push : final[p] # "dropped"

\* gateway/src/index.js: an event that fails is caught and logged, so that the
\* handlers of the other sessions go on.
FailedEventIsLogged == restarts = 0 => \A p \in Push : ~At(p, "gone")

=============================================================================
