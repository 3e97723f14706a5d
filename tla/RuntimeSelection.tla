-------------------------- MODULE RuntimeSelection --------------------------
(***************************************************************************)
(* What a chat has selected (src/core/service.rs, handle_control and       *)
(* accept_turn; src/core/persistence.rs): agent, directory, proxy and one  *)
(* of the runtimes, which are rows that all chats share.  Each statement   *)
(* is a transaction of its own, on a connection of its own, so that a      *)
(* handler is a sequence of steps, between which handlers and turns of     *)
(* other chats run, a statement may fail and the process may die.  The     *)
(* gateway hands the messages of one chat over one after the other; turns  *)
(* go on in the background.                                                *)
(*                                                                         *)
(* What activate_runtime and run_turn put into the registry, and /ot stop, *)
(* are in TurnService.  Labels, tags and previews of runtimes are left     *)
(* out.                                                                    *)
(***************************************************************************)
EXTENDS Naturals, FiniteSets

CONSTANTS Chat, Agent, Cwd,
          Canonical,    \* the path a directory is known by, after canonicalize
          Runtime,      \* identifiers of rows of runtime_instances
          AgentSession, \* sessions that agents keep
          Native,       \* Native[s]: where a session from before belongs, or NoScope
          ListedAs,     \* ListedAs[s]: the directory a session from before is listed with
          NoRuntime, NoSession,
          DefaultScope, \* acp_adapter and codex_workdir of the configuration
          DefaultUrl,   \* whether the configuration has a proxy address
          MaxCommands,  \* bound on the commands of all chats
          MaxTurns,     \* bound on the turns of all chats
          MaxFaults     \* bound on failures and crashes

Scope == [agent : Agent, cwd : Cwd]  \* runtime_scope_key
NoScope == [agent |-> "none", cwd |-> "none"]

ASSUME ConstantsAssumption ==
    /\ Canonical \in [Cwd -> Cwd]
    /\ \A w \in Cwd : Canonical[Canonical[w]] = Canonical[w]
    /\ Native \in [AgentSession -> Scope \cup {NoScope}]
    /\ ListedAs \in [AgentSession -> Cwd]
    /\ NoScope \notin Scope
    /\ NoRuntime \notin Runtime
    /\ NoSession \notin AgentSession
    /\ DefaultScope \in Scope
    /\ Canonical[DefaultScope.cwd] = DefaultScope.cwd
    /\ DefaultUrl \in BOOLEAN
    /\ {MaxCommands, MaxTurns, MaxFaults} \subseteq Nat

VARIABLES
    selection, \* selection[c]: the row of runtime_selections
    binding,   \* binding[c]: active_runtime_id of conversation_bindings
    rows,      \* rows[r]: the row of runtime_instances
    home,      \* home[s]: agent and directory the session s belongs to
    pc,        \* pc[c]: the next step of the control handler of c
    hand,      \* hand[c]: what that handler carries
    turn,      \* turn[c]: what the turn of c at work has copied
    told,      \* told[c]: what the last answer said is selected
    commands,  \* commands so far
    turns,     \* turns so far
    faults     \* failures and crashes so far

vars == <<selection, binding, rows, home, pc, hand, turn, told, commands, turns, faults>>

-----------------------------------------------------------------------------
(* Types *)

Mode == {"default", "on", "off"}
Selection == [scope : Scope, chosen : Runtime \cup {NoRuntime}, mode : Mode, url : BOOLEAN]
NoSelection == [scope |-> NoScope, chosen |-> NoRuntime, mode |-> "default", url |-> FALSE]
Row == [scope : Scope, cwd : Cwd, ref : AgentSession \cup {NoSession}]
NoRow == [scope |-> NoScope, cwd |-> "none", ref |-> NoSession]
Label == {"idle", "creating", "saving", "binding", "listing",
          "finding", "storing", "activating", "answering"}
Hand == [next : Selection, import : BOOLEAN, todo : SUBSET AgentSession,
         session : AgentSession \cup {NoSession}, found : Runtime \cup {NoRuntime}]
NoHand == [next |-> NoSelection, import |-> FALSE, todo |-> {},
           session |-> NoSession, found |-> NoRuntime]
Turn == [runtime : Runtime, scope : Scope, ref : AgentSession \cup {NoSession}]
NoTurn == [runtime |-> NoRuntime, scope |-> NoScope, ref |-> NoSession]
Told == [scope : Scope, chosen : Runtime \cup {NoRuntime}]
Unsure == [scope |-> NoScope, chosen |-> NoRuntime]

DatabaseTypes ==
    /\ selection \in [Chat -> Selection \cup {NoSelection}]
    /\ binding \in [Chat -> Runtime \cup {NoRuntime}]
    /\ rows \in [Runtime -> Row \cup {NoRow}]

HandlerTypes ==
    /\ pc \in [Chat -> Label]
    /\ hand \in [Chat -> Hand \cup {NoHand}]
    /\ \A c \in Chat : pc[c] = "idle" <=> hand[c] = NoHand
    /\ told \in [Chat -> Told \cup {Unsure}]

TurnTypes ==
    /\ turn \in [Chat -> Turn \cup {NoTurn}]
    /\ home \in [AgentSession -> Scope \cup {NoScope}]

CounterTypes ==
    /\ commands \in 0 .. MaxCommands
    /\ turns \in 0 .. MaxTurns
    /\ faults \in 0 .. MaxFaults

TypeOK == DatabaseTypes /\ HandlerTypes /\ TurnTypes /\ CounterTypes

\* A database of an older version has bindings and no selections.
Init ==
    /\ selection = [c \in Chat |-> NoSelection]
    /\ rows \in {[r \in Runtime |-> NoRow]} \cup
                {[r \in Runtime |-> IF r = old THEN [scope |-> DefaultScope,
                     cwd |-> DefaultScope.cwd, ref |-> NoSession] ELSE NoRow] : old \in Runtime}
    /\ binding \in [Chat -> {r \in Runtime : rows[r] # NoRow} \cup {NoRuntime}]
    /\ home = Native
    /\ pc = [c \in Chat |-> "idle"]
    /\ hand = [c \in Chat |-> NoHand]
    /\ turn = [c \in Chat |-> NoTurn]
    /\ told = [c \in Chat |-> Unsure]
    /\ commands = 0
    /\ turns = 0
    /\ faults = 0

Stored == {r \in Runtime : rows[r] # NoRow}
Free == Runtime \ Stored

At(c, label) == pc[c] = label
Goto(c, label) == pc' = [pc EXCEPT ![c] = label]

Fault ==
    /\ faults < MaxFaults
    /\ faults' = faults + 1

\* The same directory, whatever path it is named by.
Place(scope) == [scope EXCEPT !.cwd = Canonical[@]]

turnVars == <<turn, turns>>

-----------------------------------------------------------------------------
(* Commands: what every handler does first, and what it sets out to do     *)

\* ensure_runtime_selection: the first message of a chat makes its selection,
\* from the binding an older version left or from the configuration.
Ensure(c) ==
    /\ At(c, "idle")
    /\ selection[c] = NoSelection
    /\ selection' = [selection EXCEPT ![c] =
          [scope |-> IF binding[c] = NoRuntime THEN DefaultScope
                     ELSE [agent |-> rows[binding[c]].scope.agent, cwd |-> rows[binding[c]].cwd],
           chosen |-> binding[c], mode |-> "default", url |-> DefaultUrl]]
    /\ UNCHANGED <<binding, rows, home, pc, hand, turnVars, told, commands, faults>>

Command(c) ==
    /\ At(c, "idle")
    /\ selection[c] # NoSelection
    /\ commands < MaxCommands
    /\ commands' = commands + 1

\* What is selected, as the answer of a command says it.
Summary(s) == [scope |-> s.scope, chosen |-> s.chosen]

\* /ot show and /ot list.
Show(c) ==
    /\ Command(c)
    /\ told' = [told EXCEPT ![c] = Summary(selection[c])]
    /\ UNCHANGED <<selection, binding, rows, home, pc, hand, turnVars, faults>>

\* A handler that is going to replace the selection by next.
Begin(c, label, next, import) ==
    /\ Goto(c, label)
    /\ hand' = [hand EXCEPT ![c] = [NoHand EXCEPT !.next = next, !.import = import]]
    /\ told' = [told EXCEPT ![c] = Unsure]
    /\ UNCHANGED <<selection, binding, rows, home, turnVars, faults>>

\* Slips that the properties must notice stand before the definition they
\* distort and are no part of Next.  Here: what was chosen stays chosen.
ReselectKeepsChosen(c, scope) ==
    /\ Command(c)
    /\ \/ scope.cwd = selection[c].scope.cwd
       \/ scope.agent = selection[c].scope.agent /\ scope.cwd = Canonical[scope.cwd]
    /\ Begin(c, "saving", [selection[c] EXCEPT !.scope = scope], TRUE)

\* /ot use names another agent; /ot cwd and /ot load go to a directory, which
\* resolve_workspace_path makes canonical.  Each of them gives up the choice and
\* loads the runtimes of its new place.
Reselect(c, scope) ==
    /\ Command(c)
    /\ \/ scope.cwd = selection[c].scope.cwd
       \/ scope.agent = selection[c].scope.agent /\ scope.cwd = Canonical[scope.cwd]
    /\ Begin(c, "saving", [selection[c] EXCEPT !.scope = scope, !.chosen = NoRuntime], TRUE)

\* Slip: the selection is saved before the row is there.
NewSavesFirst(c) ==
    /\ Command(c)
    /\ \E r \in Free :
          Begin(c, "saving", [selection[c] EXCEPT !.scope = Place(@), !.chosen = r], FALSE)

\* /ot new.
New(c) ==
    /\ Command(c)
    /\ Begin(c, "creating", [selection[c] EXCEPT !.scope = Place(@)], FALSE)

\* list_selector_runtimes: what /ot list shows.
Offered(s) == {r \in Stored : rows[r].scope = s.scope}

\* /ot pick, of what is offered (runtime_matches_selector).  The directory
\* becomes that of the runtime.
Pick(c, r) ==
    /\ Command(c)
    /\ r \in Offered(selection[c])
    /\ Begin(c, "saving", [selection[c] EXCEPT !.scope.cwd = rows[r].cwd, !.chosen = r], FALSE)

\* normalize_proxy_url: the address of the configuration if none is given, and
\* none when the proxy is off.
Address(mode, given) == mode # "off" /\ (given \/ DefaultUrl)

\* /ot proxy.  On is refused without an address; without one the old one stays
\* in place, also when the proxy is off.
SetProxy(c, mode, given) ==
    /\ Command(c)
    /\ mode = "on" => Address(mode, given)
    /\ Begin(c, "saving", [selection[c] EXCEPT
                              !.mode = mode,
                              !.url = @ \/ Address(mode, given) \/ DefaultUrl], FALSE)

-----------------------------------------------------------------------------
(* The statements of a handler                                             *)

\* create_runtime.
Create(c) ==
    /\ At(c, "creating")
    /\ \E r \in Free :
          /\ rows' = [rows EXCEPT ![r] = [scope |-> hand[c].next.scope,
                                          cwd |-> hand[c].next.scope.cwd, ref |-> NoSession]]
          /\ hand' = [hand EXCEPT ![c].next.chosen = r]
    /\ Goto(c, "saving")
    /\ UNCHANGED <<selection, binding, home, turnVars, told, commands, faults>>

\* replace_runtime_selection, its first statement.
Save(c) ==
    /\ At(c, "saving")
    /\ selection' = [selection EXCEPT ![c] = hand[c].next]
    /\ Goto(c, "binding")
    /\ UNCHANGED <<binding, rows, home, hand, turnVars, told, commands, faults>>

\* replace_runtime_selection, its second statement: set_active_runtime, which
\* activate_runtime repeats, or clear_active_runtime.
Bind(c) ==
    /\ At(c, "binding")
    /\ binding' = [binding EXCEPT ![c] = hand[c].next.chosen]
    /\ Goto(c, IF hand[c].import THEN "listing" ELSE "answering")
    /\ UNCHANGED <<selection, rows, home, hand, turnVars, told, commands, faults>>

\* The sessions an agent keeps of a directory.  The code imports whatever the
\* agent lists when it is asked for the directory, and does not look again: that
\* an agent lists no session of another place is assumed of the agents.
Discovered(scope) == {s \in AgentSession : home[s] = Place(scope)}

\* list_sessions of the runtime, or what is found on disk when the agent
\* cannot list.
List(c) ==
    /\ At(c, "listing")
    /\ hand' = [hand EXCEPT ![c].todo = Discovered(hand[c].next.scope)]
    /\ Goto(c, "finding")
    /\ UNCHANGED <<selection, binding, rows, home, turnVars, told, commands, faults>>

\* list_sessions fails otherwise: the handler does, and the choice stays given up.
ListFails(c) ==
    /\ Fault
    /\ At(c, "listing")
    /\ Goto(c, "idle")
    /\ hand' = [hand EXCEPT ![c] = NoHand]
    /\ UNCHANGED <<selection, binding, rows, home, turnVars, told, commands>>

\* import_runtime, its first statement: is there a row for the session?
Find(c) ==
    /\ At(c, "finding")
    /\ \E s \in hand[c].todo :
          LET known == {r \in Offered(hand[c].next) : rows[r].ref = s}
          IN  \E r \in IF known = {} THEN {NoRuntime} ELSE known :
                 hand' = [hand EXCEPT ![c].todo = @ \ {s}, ![c].session = s, ![c].found = r]
    /\ Goto(c, "storing")
    /\ UNCHANGED <<selection, binding, rows, home, turnVars, told, commands, faults>>

\* The directory a session is listed with; those made here are made in
\* canonical directories.
Listed(s) == IF Native[s] = NoScope THEN home[s].cwd ELSE ListedAs[s]

\* import_runtime, its second statement.
Store(c) ==
    /\ At(c, "storing")
    /\ LET s == hand[c].session
           row == [scope |-> hand[c].next.scope, cwd |-> Listed(s), ref |-> s]
       IN  \E r \in IF hand[c].found = NoRuntime THEN Free ELSE {hand[c].found} :
              rows' = [rows EXCEPT ![r] = row]
    /\ Goto(c, "finding")
    /\ hand' = [hand EXCEPT ![c].session = NoSession, ![c].found = NoRuntime]
    /\ UNCHANGED <<selection, binding, home, turnVars, told, commands, faults>>

\* The answer tells what is selected now.
Answer(c) ==
    /\ At(c, "answering") \/ (At(c, "finding") /\ hand[c].todo = {})
    /\ told' = [told EXCEPT ![c] = Summary(hand[c].next)]
    /\ Goto(c, "idle")
    /\ hand' = [hand EXCEPT ![c] = NoHand]
    /\ UNCHANGED <<selection, binding, rows, home, turnVars, commands, faults>>

\* A statement fails, and the handler with it.
StatementFails(c) ==
    /\ Fault
    /\ pc[c] \in {"creating", "saving", "binding", "finding", "storing", "answering"}
    /\ Goto(c, "idle")
    /\ hand' = [hand EXCEPT ![c] = NoHand]
    /\ UNCHANGED <<selection, binding, rows, home, turnVars, told, commands>>

-----------------------------------------------------------------------------
(* Turns                                                                   *)

\* accept_turn copies the selected row.  Without a choice the message is
\* refused.  Its two reads, of the selection and of the row, are one step, the
\* second: only the chat itself writes its selection, and its next command waits
\* until the message is handled.  Left out, and in TurnService: messages that are
\* steered, which read no selected row, and (a bound) turns of a chat that wait
\* for the one at work.
Accept(c) ==
    /\ At(c, "idle")
    /\ turn[c] = NoTurn
    /\ turns < MaxTurns
    /\ selection[c] # NoSelection
    /\ selection[c].chosen \in Stored
    /\ LET r == selection[c].chosen
       IN  turn' = [turn EXCEPT ![c] = [runtime |-> r, ref |-> rows[r].ref,
                       scope |-> [agent |-> rows[r].scope.agent, cwd |-> rows[r].cwd]]]
    /\ turns' = turns + 1
    /\ UNCHANGED <<selection, binding, rows, home, pc, hand, told, commands, faults>>

\* A turn without a session makes its agent create one.
CreateSession(c) ==
    /\ turn[c] # NoTurn
    /\ turn[c].ref = NoSession
    /\ \E s \in AgentSession :
          /\ home[s] = NoScope
          /\ home' = [home EXCEPT ![s] = Place(turn[c].scope)]
          /\ turn' = [turn EXCEPT ![c].ref = s]
    /\ UNCHANGED <<selection, binding, rows, pc, hand, turns, told, commands, faults>>

\* Slip: the row that is selected by now is taken.
RecordSelected(c) ==
    /\ turn[c] # NoTurn
    /\ turn[c].ref # NoSession
    /\ selection[c].chosen # NoRuntime
    /\ rows' = [rows EXCEPT ![selection[c].chosen].ref = turn[c].ref]
    /\ UNCHANGED <<selection, binding, home, pc, hand, turnVars, told, commands, faults>>

\* update_runtime_state, with the start of the turn when its session is known
\* by then, and with its end.
Record(c) ==
    /\ turn[c] # NoTurn
    /\ turn[c].ref # NoSession
    /\ rows' = [rows EXCEPT ![turn[c].runtime].ref = turn[c].ref]
    /\ UNCHANGED <<selection, binding, home, pc, hand, turnVars, told, commands, faults>>

\* The turn is over, recorded or not.
End(c) ==
    /\ turn[c] # NoTurn
    /\ turn' = [turn EXCEPT ![c] = NoTurn]
    /\ UNCHANGED <<selection, binding, rows, home, pc, hand, turns, told, commands, faults>>

\* The core dies and is started again: what is in the database remains.
Crash ==
    /\ Fault
    /\ pc' = [c \in Chat |-> "idle"]
    /\ hand' = [c \in Chat |-> NoHand]
    /\ turn' = [c \in Chat |-> NoTurn]
    /\ UNCHANGED <<selection, binding, rows, home, turns, told, commands>>

-----------------------------------------------------------------------------

ControlStep(c) ==
    \/ Ensure(c) \/ Show(c) \/ New(c)
    \/ \E scope \in Scope : Reselect(c, scope)
    \/ \E r \in Runtime : Pick(c, r)
    \/ \E mode \in Mode, given \in BOOLEAN : SetProxy(c, mode, given)
    \/ Create(c) \/ Save(c) \/ Bind(c) \/ List(c) \/ ListFails(c)
    \/ Find(c) \/ Store(c) \/ Answer(c) \/ StatementFails(c)

TurnStep(c) == Accept(c) \/ CreateSession(c) \/ Record(c) \/ End(c)

Next == (\E c \in Chat : ControlStep(c) \/ TurnStep(c)) \/ Crash

Spec == Init /\ [][Next]_vars

-----------------------------------------------------------------------------
(* Safety                                                                  *)

\* A turn starts with the runtime, agent and directory that the last answer of
\* the chat named, whatever other chats have imported or selected since.  (After
\* a command that failed the chat knows nothing.  A message that is steered
\* starts no turn: it goes to the one at work, whatever was selected since.)
TurnGoesWhereTold ==
    [][\A c \in Chat : turn[c] = NoTurn /\ turn'[c] # NoTurn /\ told[c] # Unsure
          => [scope |-> turn'[c].scope, chosen |-> turn'[c].runtime] = told[c]]_vars

\* The session a runtime names belongs to the agent and the directory of the
\* runtime: it can be resumed there.
SessionIsAtHome ==
    \A r \in Stored : rows[r].ref # NoSession
                          => home[rows[r].ref] = Place(rows[r].scope)

\* What is selected and bound is stored, also after a failed statement or a
\* crash in the middle of a command.
ChoiceIsStored ==
    \A c \in Chat : {selection[c].chosen, binding[c]} \subseteq Stored \cup {NoRuntime}

-----------------------------------------------------------------------------
(* What the documentation says and the code does not do.                   *)

\* docs/design.md: a runtime is one particular session of an agent.
RuntimeIsOneSession ==
    \A q, r \in Stored : rows[q].ref # NoSession /\ rows[q].ref = rows[r].ref
                              /\ rows[q].scope = rows[r].scope => q = r

=============================================================================
