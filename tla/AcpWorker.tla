------------------------------ MODULE AcpWorker ------------------------------
(***************************************************************************)
(* The ACP worker (src/agent/runtime/acp.rs).  The key of a worker names   *)
(* an adapter, a workspace and a proxy and no session: one worker, with    *)
(* one child process, serves all the chats that have them in common.  It   *)
(* takes one command at a time (run_worker).  A turn first makes sure of   *)
(* its session (ensure_session), then prompts the agent and waits for what *)
(* comes first: an update, the fired cancel handle, the deadline after the *)
(* cancel, or the answer (handle_turn).                                    *)
(*                                                                         *)
(* The connection is a library: it is modelled by what acp.rs relies on,   *)
(* that the updates the agent wrote before an answer are in the channel    *)
(* when the answer is seen, and that calls fail once the process is gone.  *)
(* The client puts updates of all sessions into one channel and drops the  *)
(* session they carry (session_notification).                              *)
(***************************************************************************)
EXTENDS Naturals, Sequences, FiniteSets

CONSTANTS Turn,       \* requests of start_turn, numbered in the order they come
          Query,      \* calls of list_sessions and load_history
          Old,        \* sessions the agent has from before
          NoTurn,
          Capability, \* the sets of capabilities initialize may announce
          Faults,     \* which environment failures are considered
          MaxUpdates  \* bound on the updates of one turn, and of one replay

\* A session that a turn creates is named after the turn.
Session == Old \cup Turn

ASSUME ConstantsAssumption ==
    /\ Turn \subseteq Nat
    /\ Turn \cap Query = {}
    /\ Old \cap (Turn \cup Query) = {}
    /\ NoTurn \notin Turn \cup Query \cup Old
    /\ \A c \in Capability : c \subseteq {"load", "list", "mode"}
    /\ Faults \subseteq {"connect", "rpc", "die"}
    /\ MaxUpdates \in Nat

VARIABLES
    worker,       \* where run_worker is
    commands,     \* the command channel, oldest first
    current,      \* the command in hand
    capabilities, \* what initialize announced
    loaded,       \* loaded_sessions
    moded,        \* sessions whose mode is the adapter's
    history,      \* history_cache: origins of the updates an entry was built from
    updates,      \* the channel of updates: their origins, oldest first
    flag,         \* the AtomicBool the client looks at
    told,         \* turns for which session/cancel was sent
    reply,        \* the answer to the prompt in hand, not yet seen
    process,      \* the child process
    agentWork,    \* prompts the agent works on
    sent,         \* sent[o]: updates written for turn o, or in replay of session o
    permission,   \* permission[t]: what the prompt of t was answered, while it goes on
    session,      \* session[t]: runtime_session_ref of the request, then session_id
    completion,   \* completion[t]: what was sent through response_tx
    start,        \* start[t]: what the caller of start_turn knows
    cancelled,    \* turns whose cancel handle was fired
    heard,        \* heard[t]: origins of the updates passed on in the events of t
    query,        \* query[q]: what the caller knows
    target,       \* target[q]: session to load the history of; NoTurn to list
    astray        \* turns and sessions given up while updates of theirs are to come

callerVars == <<start, cancelled, query, target>>
sessionVars == <<loaded, moded, history>>
agentVars == <<process, agentWork, sent, permission>>
loopVars == <<worker, commands, current, capabilities, flag, told, reply>>
turnVars == <<session, completion, heard, astray>>
vars == <<callerVars, sessionVars, agentVars, loopVars, turnVars, updates>>

-----------------------------------------------------------------------------
(* Types *)

Origin == Turn \cup Old
Worker == {"absent", "connecting", "idle", "creating", "loading", "moding",
           "prompting", "listing", "reading", "exited"}
Asked == {"none", "asked", "ok", "failed"}

CallerTypes ==
    /\ start \in [Turn -> Asked]
    /\ cancelled \subseteq Turn
    /\ query \in [Query -> Asked]
    /\ target \in [Query -> Session \cup {NoTurn}]

SessionTypes ==
    /\ loaded \subseteq Session
    /\ moded \subseteq loaded
    /\ history \in [Session -> SUBSET Origin]

AgentTypes ==
    /\ process \in {"none", "up", "dead"}
    /\ agentWork \subseteq Turn
    /\ sent \in [Origin -> Nat]
    /\ permission \in [Turn -> {"none", "granted", "cancelled"}]

LoopTypes ==
    /\ worker \in Worker
    /\ commands \in Seq(Turn \cup Query)
    /\ current \in Turn \cup Query \cup {NoTurn}
    /\ current = NoTurn <=> worker \in {"absent", "connecting", "idle", "exited"}
    /\ capabilities \in Capability \cup {{}}
    /\ flag \in BOOLEAN
    /\ told \subseteq cancelled
    /\ reply \in {"none", "ok", "cancelled", "error"}
    /\ reply # "none" => worker = "prompting"

TurnTypes ==
    /\ session \in [Turn -> Session \cup {NoTurn}]
    /\ completion \in [Turn -> {"none", "ok", "interrupted", "failed"}]
    /\ heard \in [Turn -> Seq(Origin)]
    /\ astray \subseteq Origin
    /\ updates \in Seq(Origin)

TypeOK == CallerTypes /\ SessionTypes /\ AgentTypes /\ LoopTypes /\ TurnTypes

Init ==
    /\ worker = "absent"
    /\ commands = <<>>
    /\ current = NoTurn
    /\ capabilities = {}
    /\ loaded = {}
    /\ moded = {}
    /\ history = [s \in Session |-> {}]
    /\ updates = <<>>
    /\ flag = FALSE
    /\ told = {}
    /\ reply = "none"
    /\ process = "none"
    /\ agentWork = {}
    /\ sent = [o \in Origin |-> 0]
    /\ permission = [t \in Turn |-> "none"]
    /\ session = [t \in Turn |-> NoTurn]
    /\ completion = [t \in Turn |-> "none"]
    /\ start = [t \in Turn |-> "none"]
    /\ cancelled = {}
    /\ heard = [t \in Turn |-> <<>>]
    /\ query = [q \in Query |-> "none"]
    /\ target = [q \in Query |-> NoTurn]
    /\ astray = {}

-----------------------------------------------------------------------------
(* The callers                                                             *)

\* The sessions a chat may be bound to: those announced by RuntimeSessionReady
\* and those known from a listing.
Known == Old \cup (loaded \cap Turn)

\* worker_for_key and the send.  The entry of a worker that has exited stays
\* in the map: its channel is closed and every later command fails.
Enqueue(command) ==
    /\ worker # "exited"
    /\ commands' = Append(commands, command)
    /\ worker' = IF worker = "absent" THEN "connecting" ELSE worker

NoEntry == worker = "exited" /\ UNCHANGED <<commands, worker>>

\* start_turn returns its RuntimeTurn as soon as the command is in the channel.
AskStart(t, ref) ==
    /\ start[t] = "none"
    /\ \A u \in Turn : u < t => start[u] # "none"
    /\ session' = [session EXCEPT ![t] = ref]
    /\ \/ Enqueue(t) /\ start' = [start EXCEPT ![t] = "ok"]
       \/ NoEntry /\ start' = [start EXCEPT ![t] = "failed"]
    /\ UNCHANGED <<cancelled, query, target, sessionVars, agentVars, current,
                   capabilities, flag, told, reply, completion, heard, astray, updates>>

AskQuery(q, s) ==
    /\ query[q] = "none"
    /\ target' = [target EXCEPT ![q] = s]
    /\ \/ Enqueue(q) /\ query' = [query EXCEPT ![q] = "asked"]
       \/ NoEntry /\ query' = [query EXCEPT ![q] = "failed"]
    /\ UNCHANGED <<start, cancelled, sessionVars, agentVars, current,
                   capabilities, flag, told, reply, turnVars, updates>>

\* RuntimeCancelHandle.cancel, while run_turn has the turn.  A run_turn that
\* gives the turn up drops the handle: to the worker, a stop that never comes.
Cancel(t) ==
    /\ start[t] = "ok"
    /\ t \notin cancelled
    /\ cancelled' = cancelled \cup {t}
    /\ UNCHANGED <<start, query, target, sessionVars, agentVars,
                   loopVars, turnVars, updates>>

-----------------------------------------------------------------------------
(* The worker: start                                                       *)

Connect(announced) ==
    /\ worker = "connecting"
    /\ process' = "up"
    /\ capabilities' = announced
    /\ worker' = "idle"
    /\ UNCHANGED <<callerVars, sessionVars, agentWork, sent, permission, commands,
                   current, flag, told, reply, turnVars, updates>>

\* The process does not start or does not initialize: the thread ends and the
\* response channels of what was queued are dropped.
ConnectFails ==
    /\ "connect" \in Faults
    /\ worker = "connecting"
    /\ worker' = "exited"
    /\ commands' = <<>>
    /\ completion' = [t \in Turn |-> IF start[t] = "ok" THEN "failed" ELSE completion[t]]
    /\ query' = [q \in Query |-> IF query[q] = "asked" THEN "failed" ELSE query[q]]
    /\ UNCHANGED <<start, cancelled, target, sessionVars, agentVars, current,
                   capabilities, flag, told, reply, session, heard, astray, updates>>

-----------------------------------------------------------------------------
(* The worker: a turn and its session                                      *)

\* A call is answered with a result, or with an error: from the agent, or
\* because the process is gone.
Granted == process = "up"
Denied == process = "dead" \/ "rpc" \in Faults

Idle == /\ worker' = "idle"
        /\ current' = NoTurn
        /\ reply' = "none"

\* The result of the turn in hand goes to its caller.
End(result) ==
    /\ completion' = [completion EXCEPT ![current] = result]
    /\ Idle

\* Slips that the properties must notice stand before the definition they
\* distort and are no part of Next.  Here: a command is also taken while a
\* prompt is under way.
TakeAtOnce(command) ==
    /\ worker \in {"idle", "prompting"}
    /\ commands # <<>>
    /\ command = Head(commands)
    /\ commands' = Tail(commands)

\* The loop of run_worker has nothing in hand.
Take(command) ==
    /\ worker = "idle"
    /\ commands # <<>>
    /\ command = Head(commands)
    /\ commands' = Tail(commands)

\* handle_turn puts a new cancel flag in the place of the old one.
Begin(t) ==
    /\ Take(t)
    /\ current' = t
    /\ flag' = FALSE
    /\ UNCHANGED <<callerVars, agentVars, capabilities, told, reply,
                   completion, heard, astray, updates>>

TakeTurn(t) ==
    /\ Begin(t)
    /\ \/ session[t] = NoTurn /\ worker' = "creating"
       \/ session[t] \in Session \ loaded /\ "load" \in capabilities /\ worker' = "loading"
       \/ session[t] \in loaded /\ worker' = "moding"
    /\ UNCHANGED <<session, sessionVars>>

\* The agent cannot load: there is no falling back to a new session.
TakeHopelessTurn(t) ==
    /\ Take(t)
    /\ session[t] \in Session \ loaded
    /\ "load" \notin capabilities
    /\ flag' = FALSE
    /\ completion' = [completion EXCEPT ![t] = "failed"]
    /\ UNCHANGED <<callerVars, sessionVars, agentVars, worker, current, capabilities,
                   told, reply, session, heard, astray, updates>>

NewSession ==
    /\ worker = "creating"
    /\ Granted
    /\ session' = [session EXCEPT ![current] = current]
    /\ loaded' = loaded \cup {current}
    /\ worker' = "moding"
    /\ UNCHANGED <<callerVars, agentVars, moded, history, commands, current,
                   capabilities, flag, told, reply, completion, heard, astray, updates>>

\* Slip: what was replayed stays in the channel.
CaptureNothing(s) == UNCHANGED <<history, updates>>

\* capture_replayed_history: all there is in the channel is taken for the
\* history of the session.
Capture(s) ==
    /\ history' = IF updates = <<>> THEN history
                  ELSE [history EXCEPT ![s] = {updates[i] : i \in DOMAIN updates}]
    /\ updates' = <<>>

LoadSession ==
    /\ worker = "loading"
    /\ Granted
    /\ Capture(session[current])
    /\ loaded' = loaded \cup {session[current]}
    /\ worker' = "moding"
    /\ UNCHANGED <<callerVars, agentVars, moded, commands, current, capabilities,
                   flag, told, reply, turnVars>>

\* What a failed load has replayed so far stays in the channel.
SessionFails ==
    /\ worker \in {"creating", "loading"}
    /\ Denied
    /\ End("failed")
    /\ astray' = IF worker = "loading" THEN astray \cup {session[current]} ELSE astray
    /\ UNCHANGED <<callerVars, sessionVars, agentVars, commands, capabilities,
                   flag, told, session, heard, updates>>

\* ensure_session_mode, once for a session and whatever comes of it, then the
\* prompt is sent; a dead process does not get it.
Prompt ==
    /\ worker = "moding"
    /\ \/ "mode" \in capabilities /\ Granted /\ moded' = moded \cup {session[current]}
       \/ /\ "mode" \in capabilities => session[current] \in moded \/ Denied
          /\ UNCHANGED moded
    /\ worker' = "prompting"
    /\ \/ process = "up" /\ agentWork' = agentWork \cup {current} /\ UNCHANGED reply
       \/ process = "dead" /\ reply' = "error" /\ UNCHANGED agentWork
    /\ UNCHANGED <<callerVars, loaded, history, process, sent, permission, commands,
                   current, capabilities, flag, told, turnVars, updates>>

-----------------------------------------------------------------------------
(* The worker: the prompt, until one of these ends it                      *)

\* Slip: the client's flag is left alone.
SeeCancelKeepsFlag ==
    /\ worker = "prompting"
    /\ current \in cancelled \ told
    /\ told' = told \cup {current}
    /\ UNCHANGED <<callerVars, sessionVars, agentVars, worker, commands, current,
                   capabilities, flag, reply, turnVars, updates>>

\* The flag is raised and session/cancel sent, once; the deadline is set.
SeeCancel ==
    /\ worker = "prompting"
    /\ current \in cancelled \ told
    /\ flag' = TRUE
    /\ told' = told \cup {current}
    /\ UNCHANGED <<callerVars, sessionVars, agentVars, worker, commands, current,
                   capabilities, reply, turnVars, updates>>

\* Slip: only a turn that has an answer is ended.
DeadlineWaits ==
    /\ worker = "prompting"
    /\ current \in told
    /\ reply # "none"
    /\ End("interrupted")
    /\ astray' = astray \cup {current}
    /\ UNCHANGED <<callerVars, sessionVars, agentVars, commands, capabilities,
                   flag, told, session, heard, updates>>

\* Eight seconds after the cancel the turn is ended without an answer.  The
\* agent is not stopped.
Deadline ==
    /\ worker = "prompting"
    /\ current \in told
    /\ End("interrupted")
    /\ astray' = astray \cup {current}
    /\ UNCHANGED <<callerVars, sessionVars, agentVars, commands, capabilities,
                   flag, told, session, heard, updates>>

TakeUpdate ==
    /\ worker = "prompting"
    /\ updates # <<>>
    /\ heard' = [heard EXCEPT ![current] = Append(@, Head(updates))]
    /\ updates' = Tail(updates)
    /\ UNCHANGED <<callerVars, sessionVars, agentVars, loopVars, session, completion, astray>>

\* Slip: the channel is not emptied.
PromptAnsweredEarly ==
    /\ worker = "prompting"
    /\ reply \in {"ok", "cancelled"}
    /\ End(IF reply = "ok" THEN "ok" ELSE "interrupted")
    /\ UNCHANGED <<callerVars, sessionVars, agentVars, commands, capabilities,
                   flag, told, session, heard, astray, updates>>

\* The answer is seen: what is left in the channel belongs to the turn.
PromptAnswered ==
    /\ worker = "prompting"
    /\ reply \in {"ok", "cancelled"}
    /\ heard' = [heard EXCEPT ![current] = @ \o updates]
    /\ updates' = <<>>
    /\ End(IF reply = "ok" THEN "ok" ELSE "interrupted")
    /\ UNCHANGED <<callerVars, sessionVars, agentVars, commands, capabilities,
                   flag, told, session, astray>>

\* The answer is an error, which may say "Request cancelled": the channel is
\* left as it is.
PromptFails ==
    /\ worker = "prompting"
    /\ reply = "error"
    /\ \/ End("failed")
       \/ current \in told /\ End("interrupted")
    /\ astray' = astray \cup {current}
    /\ UNCHANGED <<callerVars, sessionVars, agentVars, commands, capabilities,
                   flag, told, session, heard, updates>>

-----------------------------------------------------------------------------
(* The worker: queries                                                     *)

Answer(q, result) == query' = [query EXCEPT ![q] = result]

\* What can be answered without the agent: a history that is loaded, and what
\* the agent has no capability for.
TakeQuery(q) ==
    /\ Take(q)
    /\ \/ target[q] \in loaded /\ Answer(q, "ok")
       \/ /\ target[q] \notin loaded
          /\ (IF target[q] = NoTurn THEN "list" ELSE "load") \notin capabilities
          /\ Answer(q, "failed")
    /\ UNCHANGED <<start, cancelled, target, sessionVars, agentVars, worker,
                   current, capabilities, flag, told, reply, turnVars, updates>>

AskAgent(q) ==
    /\ Take(q)
    /\ current' = q
    /\ \/ target[q] = NoTurn /\ "list" \in capabilities /\ worker' = "listing"
       \/ target[q] \in Session \ loaded /\ "load" \in capabilities /\ worker' = "reading"
    /\ UNCHANGED <<callerVars, sessionVars, agentVars, capabilities, flag, told, reply,
                   turnVars, updates>>

\* session/list, all its pages.
Listed ==
    /\ worker = "listing"
    /\ \/ Granted /\ Answer(current, "ok")
       \/ Denied /\ Answer(current, "failed")
    /\ Idle
    /\ UNCHANGED <<start, cancelled, target, sessionVars, agentVars, commands,
                   capabilities, flag, told, turnVars, updates>>

HistoryRead ==
    /\ worker = "reading"
    /\ \/ /\ Granted
          /\ loaded' = loaded \cup {target[current]}
          /\ Capture(target[current])
          /\ Answer(current, "ok")
          /\ UNCHANGED astray
       \/ /\ Denied
          /\ Answer(current, "failed")
          /\ astray' = astray \cup {target[current]}
          /\ UNCHANGED <<loaded, history, updates>>
    /\ Idle
    /\ UNCHANGED <<start, cancelled, target, moded, agentVars, commands,
                   capabilities, flag, told, session, completion, heard>>

-----------------------------------------------------------------------------
(* The agent                                                               *)

Tell(o) == /\ updates' = Append(updates, o)
           /\ sent' = [sent EXCEPT ![o] = @ + 1]

Update(t) ==
    /\ t \in agentWork
    /\ sent[t] < MaxUpdates
    /\ Tell(t)
    /\ UNCHANGED <<callerVars, sessionVars, process, agentWork, permission, loopVars, turnVars>>

\* While it loads a session the agent replays its history.
Replay ==
    /\ process = "up"
    /\ \E s \in Old :
          /\ s = IF worker = "loading" THEN session[current]
                 ELSE IF worker = "reading" THEN target[current] ELSE NoTurn
          /\ sent[s] < MaxUpdates
          /\ Tell(s)
    /\ UNCHANGED <<callerVars, sessionVars, process, agentWork, permission, loopVars, turnVars>>

\* The prompt of t is over.  Nobody waits any more for one that was given up.
AgentEnds(t) ==
    /\ t \in agentWork
    /\ agentWork' = agentWork \ {t}
    /\ permission' = [permission EXCEPT ![t] = "none"]
    /\ IF t = current
         THEN \/ reply' = "ok"
              \/ t \in told /\ reply' = "cancelled"
              \/ ("rpc" \in Faults \/ t \in told) /\ reply' = "error"
         ELSE UNCHANGED reply
    /\ UNCHANGED <<callerVars, sessionVars, process, sent, worker, commands,
                   current, capabilities, flag, told, turnVars, updates>>

\* request_permission goes by the flag that is in place, whosever turn it is.
\* Bound: a prompt asks once.
RequestPermission(t) ==
    /\ t \in agentWork
    /\ permission[t] = "none"
    /\ permission' = [permission EXCEPT ![t] = IF flag THEN "cancelled" ELSE "granted"]
    /\ UNCHANGED <<callerVars, sessionVars, process, agentWork, sent, loopVars, turnVars, updates>>

\* The process dies.  The worker stays, and fails every later call.
Die ==
    /\ "die" \in Faults
    /\ process = "up"
    /\ process' = "dead"
    /\ agentWork' = {}
    /\ permission' = [t \in Turn |-> "none"]
    /\ reply' = IF current \in agentWork THEN "error" ELSE reply
    /\ UNCHANGED <<callerVars, sessionVars, sent, worker, commands, current,
                   capabilities, flag, told, turnVars, updates>>

-----------------------------------------------------------------------------

Caller == \/ \E t \in Turn, ref \in Known \cup {NoTurn} : AskStart(t, ref)
          \/ \E q \in Query, s \in Known \cup {NoTurn} : AskQuery(q, s)
          \/ \E t \in Turn : Cancel(t)

\* What the worker does without waiting for the agent, and what it does when
\* it has an answer to anything but a prompt.
Work == \/ \E announced \in Capability : Connect(announced)
        \/ ConnectFails
        \/ \E t \in Turn : TakeTurn(t) \/ TakeHopelessTurn(t)
        \/ SeeCancel \/ Deadline \/ TakeUpdate \/ PromptAnswered \/ PromptFails
        \/ \E q \in Query : TakeQuery(q) \/ AskAgent(q)
Answered == NewSession \/ LoadSession \/ SessionFails \/ Prompt \/ Listed \/ HistoryRead

AgentStep == \/ \E t \in Turn : Update(t) \/ AgentEnds(t) \/ RequestPermission(t)
             \/ Replay
             \/ Die

Next == Caller \/ Work \/ Answered \/ AgentStep

Spec == Init /\ [][Next]_vars

\* The worker's thread runs, and the agent answers whatever is not a prompt.
\* It never has to end a prompt.
FairSpec == Spec /\ WF_vars(Work) /\ WF_vars(Answered)

-----------------------------------------------------------------------------
(* Safety                                                                  *)

\* As long as no turn and no load was given up, updates stay apart although they
\* share a channel: a turn hears the updates of its own prompt and nothing else,
\* neither a replay nor what the prompt of another chat has written, and the
\* cached history of a session was built from the replay of that session.
UpdatesStayApart ==
    astray = {} => /\ \A t \in Turn : \A i \in DOMAIN heard[t] : heard[t][i] = t
                   /\ \A s \in Session : history[s] \subseteq {s}

\* A turn that ended well was heard in full.
AnswerIsComplete ==
    \A t \in Turn : completion[t] = "ok"
        => Cardinality({i \in DOMAIN heard[t] : heard[t][i] = t}) = sent[t]

\* Permissions follow the stop of the user as far as the worker sees it: only a
\* turn that was stopped is refused one, although all turns of the worker share
\* the flag, and the turn in hand gets none any more from when its cancel was
\* seen.  A prompt that was given up may get one again (NoPermissionAfterCancel).
PermissionFollowsStop ==
    [][\A t \in Turn : permission[t] = "none" =>
          /\ permission'[t] = "cancelled" => t \in cancelled
          /\ permission'[t] = "granted" => ~(t = current /\ t \in told)]_vars

\* The worker keeps the contract of AgentRuntime, as far as its callers see it:
\* "working" is the prompt the worker has in hand, and an agent that goes on
\* with one that was given up is not seen here.
Contract == INSTANCE RuntimeContract WITH
    working <- IF current \in Turn THEN current ELSE NoTurn,
    start <- [t \in Turn |-> IF start[t] = "failed" THEN "refused" ELSE start[t]],
    completion <- [t \in Turn |-> IF completion[t] \in {"interrupted", "failed"}
                                  THEN "err" ELSE completion[t]]
KeepsContract == Contract!Spec

-----------------------------------------------------------------------------
(* Liveness                                                                *)

\* What was asked of the worker, by whichever chat, is answered, unless a prompt
\* is under way that nobody has stopped.  So a stop ends the prompt it is for,
\* whatever the agent does, and what waits behind it goes on.
UnstoppedPrompt == worker = "prompting" /\ current \notin cancelled
OnlyPromptsKeepWaiting ==
    /\ \A t \in Turn : start[t] = "ok" ~> completion[t] # "none" \/ UnstoppedPrompt
    /\ \A q \in Query : query[q] = "asked" ~> query[q] # "asked" \/ UnstoppedPrompt

-----------------------------------------------------------------------------
(* What the documentation says and the code does not do.                   *)

\* docs/design.md: a permission that is asked for after the cancel is refused.
NoPermissionAfterCancel ==
    [][\A t \in Turn : permission[t] = "none" /\ permission'[t] = "granted"
          => t \notin told]_vars

=============================================================================
