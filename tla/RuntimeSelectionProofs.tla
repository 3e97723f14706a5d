----------------------- MODULE RuntimeSelectionProofs -----------------------
(***************************************************************************)
(* The safety of RuntimeSelection, proved for every number of chats,       *)
(* agents, directories, runtimes and sessions and every way of naming a    *)
(* directory: a message runs where the chat was told, a choice is stored,  *)
(* and the session of a runtime can be resumed where the runtime is.       *)
(***************************************************************************)
EXTENDS RuntimeSelection, TLAPS

-----------------------------------------------------------------------------
(* The invariant                                                           *)

\* A session from before stays where it was.
Homes == \A s \in AgentSession : Native[s] # NoScope => home[s] = Native[s]

\* The session s can be resumed by the runtime r, and an import of s would
\* leave the directory of r alone.
Fits(s, r) == home[s] = Place(rows[r].scope) /\ Listed(s) = rows[r].cwd

\* The runtime r was made in a directory named by its canonical path, not
\* imported.
Made(r) == rows[r].cwd = rows[r].scope.cwd /\ Canonical[rows[r].cwd] = rows[r].cwd

\* The session ref is the one of r, or r has none yet and was made here.
Serves(r, ref) == IF ref = NoSession THEN Made(r) ELSE Fits(ref, r)

RowsServe == \A r \in Stored : Serves(r, rows[r].ref)

\* Where a turn of the runtime r works.
Site(r) == [agent |-> rows[r].scope.agent, cwd |-> rows[r].cwd]

\* What a selection s has chosen is stored, and works where s says.
Sound(s) == s.chosen # NoRuntime => s.chosen \in Stored /\ Site(s.chosen) = s.scope

\* The selection of a chat, the one its handler is about to make, and the
\* answer it got.
ChoiceOf(c) ==
    /\ Sound(selection[c])
    /\ binding[c] \in Stored \cup {NoRuntime}
    /\ pc[c] = "creating" => hand[c].next.scope = Place(hand[c].next.scope)
    /\ pc[c] \notin {"idle", "creating"} => Sound(hand[c].next)
    /\ pc[c] \notin {"idle", "creating", "saving"} => selection[c] = hand[c].next
    /\ told[c] # Unsure => pc[c] = "idle" /\ told[c] = Summary(selection[c])

\* The sessions an import has still to store are of its place; the row it has
\* found for one of them still fits.
ImportOf(c) ==
    /\ pc[c] \in {"finding", "storing"} =>
          \A s \in hand[c].todo : home[s] = Place(hand[c].next.scope)
    /\ pc[c] = "storing" =>
          /\ hand[c].session \in AgentSession
          /\ home[hand[c].session] = Place(hand[c].next.scope)
          /\ hand[c].found # NoRuntime =>
                /\ hand[c].found \in Stored
                /\ rows[hand[c].found].scope = hand[c].next.scope
                /\ Fits(hand[c].session, hand[c].found)

\* What a turn copied is still true of its runtime, and so is the session it
\* made.
TurnOf(c) ==
    turn[c] # NoTurn => /\ turn[c].runtime \in Stored
                        /\ turn[c].scope = Site(turn[c].runtime)
                        /\ Serves(turn[c].runtime, turn[c].ref)

Chats == \A c \in Chat : ChoiceOf(c) /\ ImportOf(c) /\ TurnOf(c)

SelectionInv == TypeOK /\ Homes /\ RowsServe /\ Chats

\* What a step never takes back: a stored row keeps its place and its
\* directory, and a session its home.
Steady ==
    /\ \A r \in Stored : /\ r \in Stored'
                         /\ rows'[r].scope = rows[r].scope
                         /\ rows'[r].cwd = rows[r].cwd
    /\ \A s \in AgentSession : home[s] # NoScope => home'[s] = home[s]

-----------------------------------------------------------------------------
(* Places                                                                  *)

\* The canonical form of a place is a place.
LEMMA PlaceIsScope ==
    ASSUME NEW scope \in Scope
    PROVE  /\ Place(scope) \in Scope
           /\ Place(scope) # NoScope
           /\ Place(scope) = [agent |-> scope.agent, cwd |-> Canonical[scope.cwd]]
           /\ Place(Place(scope)) = Place(scope)
           /\ Canonical[Place(scope).cwd] = Place(scope).cwd
<1>1. /\ scope = [agent |-> scope.agent, cwd |-> scope.cwd]
      /\ scope.agent \in Agent /\ scope.cwd \in Cwd
  BY DEF Scope
<1>2. Place(scope) = [agent |-> scope.agent, cwd |-> Canonical[scope.cwd]]
  BY <1>1 DEF Place
<1>3. Canonical[scope.cwd] \in Cwd /\ Canonical[Canonical[scope.cwd]] = Canonical[scope.cwd]
  BY <1>1, ConstantsAssumption
<1>4. Place(scope) \in Scope
  BY <1>1, <1>2, <1>3 DEF Scope
<1>5. Place(Place(scope)) = Place(scope)
  BY <1>2, <1>3 DEF Place
<1>6. QED
  BY <1>2, <1>3, <1>4, <1>5, ConstantsAssumption

\* A stored row is a row.
LEMMA StoredIsRow ==
    ASSUME TypeOK, NEW r \in Stored
    PROVE  /\ r \in Runtime /\ r # NoRuntime
           /\ rows[r] \in Row
           /\ rows[r].scope \in Scope /\ rows[r].cwd \in Cwd
           /\ rows[r].ref \in AgentSession \cup {NoSession}
           /\ Site(r) \in Scope
<1>1. r \in Runtime /\ rows[r] \in Row
  BY DEF Stored, TypeOK, DatabaseTypes
<1>2. rows[r].scope \in Scope /\ rows[r].cwd \in Cwd /\ rows[r].ref \in AgentSession \cup {NoSession}
  BY <1>1 DEF Row
<1>3. QED
  BY <1>1, <1>2, ConstantsAssumption DEF Site, Scope

\* No row is the record of none.
LEMMA RowIsStored ==
    ASSUME NEW row \in Row
    PROVE  row # NoRow
BY ConstantsAssumption DEF Row, NoRow

\* A session that fits a runtime goes on fitting it.
LEMMA FitsStays ==
    ASSUME SelectionInv, Steady, NEW r \in Stored, NEW s \in AgentSession, Fits(s, r)
    PROVE  Fits(s, r)'
<1>1. home[s] = Place(rows[r].scope) /\ home[s] # NoScope
  BY StoredIsRow, PlaceIsScope DEF SelectionInv, Fits
<1>2. home'[s] = home[s] /\ rows'[r].scope = rows[r].scope /\ rows'[r].cwd = rows[r].cwd
  BY <1>1 DEF Steady
<1>3. QED
  BY <1>1, <1>2 DEF Fits, Listed

\* A runtime goes on serving the turns it serves.
LEMMA ServesStays ==
    ASSUME SelectionInv, Steady, NEW r \in Stored,
           NEW ref \in AgentSession \cup {NoSession}, Serves(r, ref)
    PROVE  Serves(r, ref)'
<1>1. CASE ref = NoSession
  BY <1>1 DEF Serves, Made, Steady
<1>2. CASE ref # NoSession
  BY <1>2, FitsStays DEF Serves
<1>3. QED
  BY <1>1, <1>2

-----------------------------------------------------------------------------
(* The parts of a chat that a step leaves alone                            *)

\* A chat whose handler does not move keeps its choice.
LEMMA ChoiceStays ==
    ASSUME SelectionInv, Steady, NEW c \in Chat,
           UNCHANGED <<selection[c], binding[c], pc[c], hand[c], told[c]>>
    PROVE  ChoiceOf(c)'
<1>1. ChoiceOf(c)
  BY DEF SelectionInv, Chats
<1>2. Sound(selection[c])'
  BY <1>1 DEF ChoiceOf, Sound, Site, Steady
<1>3. pc[c] \notin {"idle", "creating"} => Sound(hand[c].next)'
  BY <1>1 DEF ChoiceOf, Sound, Site, Steady
<1>4. binding'[c] \in Stored' \cup {NoRuntime}
  BY <1>1 DEF ChoiceOf, Steady
<1>5. QED
  BY <1>1, <1>2, <1>3, <1>4 DEF ChoiceOf

\* A handler that does not move keeps the sessions it has to store.
LEMMA ImportStays ==
    ASSUME SelectionInv, Steady, NEW c \in Chat, UNCHANGED <<pc[c], hand[c]>>
    PROVE  ImportOf(c)'
<1>1. ImportOf(c)
  BY DEF SelectionInv, Chats
<1>2. CASE pc[c] \in {"finding", "storing"}
  <2>1. hand[c] \in Hand
    BY <1>2 DEF SelectionInv, TypeOK, HandlerTypes
  <2>2. \A s \in hand[c].todo : s \in AgentSession
    BY <2>1 DEF Hand
  <2>3. hand[c].next.scope \in Scope /\ Place(hand[c].next.scope) # NoScope
    BY <2>1, PlaceIsScope DEF Hand, Selection
  <2>4. \A s \in AgentSession : home[s] = Place(hand[c].next.scope) => home'[s] = home[s]
    BY <2>3 DEF Steady
  <2>5. ASSUME pc[c] = "storing", hand[c].found # NoRuntime
        PROVE  /\ hand[c].found \in Stored'
               /\ rows'[hand[c].found].scope = hand[c].next.scope
               /\ Fits(hand[c].session, hand[c].found)'
    BY <1>1, <2>5, FitsStays DEF ImportOf, Steady
  <2>6. QED
    BY <1>1, <1>2, <2>2, <2>4, <2>5 DEF ImportOf
<1>3. CASE pc[c] \notin {"finding", "storing"}
  BY <1>3 DEF ImportOf
<1>4. QED
  BY <1>2, <1>3

\* A turn that does not move goes on being served.
LEMMA TurnStays ==
    ASSUME SelectionInv, Steady, NEW c \in Chat, UNCHANGED turn[c]
    PROVE  TurnOf(c)'
<1>1. CASE turn[c] # NoTurn
  <2>1. turn[c].runtime \in Stored /\ turn[c].scope = Site(turn[c].runtime)
        /\ Serves(turn[c].runtime, turn[c].ref)
    BY <1>1 DEF SelectionInv, Chats, TurnOf
  <2>2. turn[c].ref \in AgentSession \cup {NoSession}
    BY <1>1 DEF SelectionInv, TypeOK, TurnTypes, Turn
  <2>3. Serves(turn[c].runtime, turn[c].ref)'
    BY <2>1, <2>2, ServesStays DEF Serves, Made, Fits, Listed
  <2>4. turn[c].runtime \in Stored' /\ Site(turn[c].runtime)' = Site(turn[c].runtime)
    BY <2>1 DEF Steady, Site
  <2>5. QED
    BY <2>1, <2>3, <2>4 DEF TurnOf
<1>2. CASE turn[c] = NoTurn
  BY <1>2 DEF TurnOf
<1>3. QED
  BY <1>1, <1>2

-----------------------------------------------------------------------------
(* The types                                                               *)

\* The start is well typed.
LEMMA TypesAtStart == Init => TypeOK
<1> SUFFICES ASSUME Init PROVE TypeOK
  OBVIOUS
<1>1. DatabaseTypes
  <2>1. selection \in [Chat -> Selection \cup {NoSelection}]
    BY DEF Init
  <2>2. [scope |-> DefaultScope, cwd |-> DefaultScope.cwd, ref |-> NoSession] \in Row
    BY ConstantsAssumption DEF Row, Scope
  <2>3. rows \in [Runtime -> Row \cup {NoRow}]
    BY <2>2 DEF Init
  <2>4. binding \in [Chat -> Runtime \cup {NoRuntime}]
    BY DEF Init
  <2>5. QED
    BY <2>1, <2>3, <2>4 DEF DatabaseTypes
<1>2. HandlerTypes
  BY DEF Init, HandlerTypes, Label
<1>3. TurnTypes
  BY ConstantsAssumption DEF Init, TurnTypes
<1>4. CounterTypes
  BY ConstantsAssumption DEF Init, CounterTypes
<1>5. QED
  BY <1>1, <1>2, <1>3, <1>4 DEF TypeOK

\* The counters stay within their bounds.
LEMMA CountersStep ==
    ASSUME TypeOK, [Next]_vars
    PROVE  CounterTypes'
<1> USE ConstantsAssumption DEF TypeOK, CounterTypes, turnVars
<1>1. CASE \E c \in Chat : TurnStep(c)
  BY <1>1 DEF TurnStep, Accept, CreateSession, Record, End
<1>2. ASSUME NEW c \in Chat, ControlStep(c) PROVE CounterTypes'
  <2>1. turns' = turns /\ commands' \in {commands, commands + 1}
        /\ (commands' # commands => commands < MaxCommands)
        /\ (faults' = faults \/ (faults < MaxFaults /\ faults' = faults + 1))
    BY <1>2 DEF ControlStep, Ensure, Show, New, Reselect, Pick, SetProxy, Command, Begin,
                Create, Save, Bind, List, ListFails, Find, Store, Answer, StatementFails, Fault
  <2>2. QED
    BY <2>1
<1>3. CASE Crash
  BY <1>3 DEF Crash, Fault
<1>4. CASE UNCHANGED vars
  BY <1>4 DEF vars
<1>5. QED
  BY <1>1, <1>2, <1>3, <1>4 DEF Next

\* The first steps of a handler that is going to replace the selection by next.
Starts(c, label, next, import) ==
    /\ At(c, "idle")
    /\ selection[c] # NoSelection
    /\ Begin(c, label, next, import)
    /\ next \in Selection
    /\ import \in BOOLEAN
    /\ \/ label = "creating" /\ next.scope = Place(next.scope)
       \/ label = "saving" /\ Sound(next)

\* Every command that changes the selection begins so: what it is going to save
\* is sound already, or will be when its row is created.
LEMMA CommandStarts ==
    ASSUME SelectionInv, NEW c \in Chat,
           \/ New(c)
           \/ \E scope \in Scope : Reselect(c, scope)
           \/ \E r \in Runtime : Pick(c, r)
           \/ \E mode \in Mode, given \in BOOLEAN : SetProxy(c, mode, given)
    PROVE  \E label, next, import : Starts(c, label, next, import)
<1>1. At(c, "idle") /\ selection[c] # NoSelection
  BY DEF New, Reselect, Pick, SetProxy, Command
<1>2. selection[c] \in Selection
  BY <1>1 DEF SelectionInv, TypeOK, DatabaseTypes
<1>3. /\ selection[c].scope \in Scope
      /\ selection[c].chosen \in Runtime \cup {NoRuntime}
      /\ selection[c].mode \in Mode /\ selection[c].url \in BOOLEAN
  BY <1>2 DEF Selection
<1>4. Sound(selection[c])
  BY DEF SelectionInv, Chats, ChoiceOf
<1>5. CASE New(c)
  <2> DEFINE next == [selection[c] EXCEPT !.scope = Place(@)]
  <2>1. next \in Selection /\ next.scope = Place(selection[c].scope)
    BY <1>2, <1>3, PlaceIsScope DEF Selection
  <2>2. next.scope = Place(next.scope)
    BY <1>3, <2>1, PlaceIsScope
  <2>3. Begin(c, "creating", next, FALSE)
    BY <1>5 DEF New
  <2>4. QED
    BY <1>1, <2>1, <2>2, <2>3 DEF Starts
<1>6. ASSUME NEW scope \in Scope, Reselect(c, scope)
      PROVE  \E label, next, import : Starts(c, label, next, import)
  <2> DEFINE next == [selection[c] EXCEPT !.scope = scope, !.chosen = NoRuntime]
  <2>1. next \in Selection /\ next.chosen = NoRuntime
    BY <1>2, <1>3 DEF Selection
  <2>2. Begin(c, "saving", next, TRUE)
    BY <1>6 DEF Reselect
  <2>3. QED
    BY <1>1, <2>1, <2>2 DEF Starts, Sound
<1>7. ASSUME NEW r \in Runtime, Pick(c, r)
      PROVE  \E label, next, import : Starts(c, label, next, import)
  <2> DEFINE next == [selection[c] EXCEPT !.scope.cwd = rows[r].cwd, !.chosen = r]
  <2>1. r \in Stored /\ rows[r].scope = selection[c].scope /\ rows[r].cwd \in Cwd
    BY <1>7, StoredIsRow DEF Pick, Offered, SelectionInv
  <2>2. next.chosen = r /\ next.scope = [selection[c].scope EXCEPT !.cwd = rows[r].cwd]
    BY <1>2 DEF Selection
  <2>3. [selection[c].scope EXCEPT !.cwd = rows[r].cwd]
           = [agent |-> selection[c].scope.agent, cwd |-> rows[r].cwd]
    BY <1>3 DEF Scope
  <2>4. next.scope = Site(r) /\ next.scope \in Scope
    BY <1>3, <2>1, <2>2, <2>3 DEF Site, Scope
  <2>5. next \in Selection
    BY <1>2, <1>3, <2>2, <2>4 DEF Selection
  <2>6. Begin(c, "saving", next, FALSE)
    BY <1>7 DEF Pick
  <2>7. QED
    BY <1>1, <2>1, <2>2, <2>4, <2>5, <2>6 DEF Starts, Sound
<1>8. ASSUME NEW mode \in Mode, NEW given \in BOOLEAN, SetProxy(c, mode, given)
      PROVE  \E label, next, import : Starts(c, label, next, import)
  <2> DEFINE url == selection[c].url \/ Address(mode, given) \/ DefaultUrl
             next == [selection[c] EXCEPT !.mode = mode, !.url = url]
  <2>1. url \in BOOLEAN
    BY DEF Address
  <2>2. next \in Selection /\ next.scope = selection[c].scope
        /\ next.chosen = selection[c].chosen
    BY <1>2, <1>3, <2>1 DEF Selection
  <2>3. next = [selection[c] EXCEPT !.mode = mode,
                                    !.url = @ \/ Address(mode, given) \/ DefaultUrl]
    OBVIOUS
  <2>4. Begin(c, "saving", next, FALSE)
    BY <1>8, <2>3 DEF SetProxy
  <2>5. Sound(next)
    BY <1>4, <2>2 DEF Sound
  <2>6. QED
    BY <1>1, <2>2, <2>4, <2>5 DEF Starts
<1>9. QED
  BY <1>5, <1>6, <1>7, <1>8

\* The first message of a chat makes a sound selection.
LEMMA EnsuredIsSound ==
    ASSUME SelectionInv, NEW c \in Chat, Ensure(c)
    PROVE  \E s \in Selection : selection' = [selection EXCEPT ![c] = s] /\ Sound(s)
<1> DEFINE scope == IF binding[c] = NoRuntime THEN DefaultScope ELSE Site(binding[c])
           s == [scope |-> scope, chosen |-> binding[c], mode |-> "default", url |-> DefaultUrl]
<1>1. binding[c] \in Stored \cup {NoRuntime}
  BY DEF SelectionInv, Chats, ChoiceOf
<1>2. scope \in Scope /\ binding[c] \in Runtime \cup {NoRuntime}
  BY <1>1, StoredIsRow, ConstantsAssumption DEF SelectionInv, Stored
<1>3. s \in Selection
  BY <1>2, ConstantsAssumption DEF Selection, Mode
<1>4. selection' = [selection EXCEPT ![c] = s]
  BY DEF Ensure, Site
<1>5. Sound(s)
  BY <1>1 DEF Sound
<1>6. QED
  BY <1>3, <1>4, <1>5

\* What a handler carries while it is at work.
LEMMA HandIsFull ==
    ASSUME TypeOK, NEW c \in Chat, pc[c] # "idle"
    PROVE  /\ hand[c] \in Hand
           /\ hand[c].next \in Selection /\ hand[c].next.scope \in Scope
           /\ hand[c].next.chosen \in Runtime \cup {NoRuntime}
           /\ hand[c].todo \subseteq AgentSession
           /\ hand[c].session \in AgentSession \cup {NoSession}
           /\ hand[c].found \in Runtime \cup {NoRuntime}
           /\ hand[c].import \in BOOLEAN
<1>1. hand[c] \in Hand
  BY DEF TypeOK, HandlerTypes
<1>2. QED
  BY <1>1 DEF Hand, Selection

\* A full hand is not an empty one.
LEMMA FullIsNotEmpty == \A h \in Hand : h # NoHand
BY ConstantsAssumption DEF Hand, Selection, NoHand, NoSelection

\* The database stays well typed.
LEMMA DatabaseStep ==
    ASSUME SelectionInv, [Next]_vars
    PROVE  DatabaseTypes'
<1>1. TypeOK /\ DatabaseTypes
  BY DEF SelectionInv, TypeOK
<1>2. CASE UNCHANGED <<selection, binding, rows>>
  BY <1>1, <1>2 DEF DatabaseTypes
<1>3. ASSUME NEW c \in Chat, Ensure(c) PROVE DatabaseTypes'
  <2>1. UNCHANGED <<binding, rows>>
    BY <1>3 DEF Ensure
  <2>2. QED
    BY <1>1, <1>3, <2>1, EnsuredIsSound DEF DatabaseTypes
<1>4. ASSUME NEW c \in Chat, Create(c) PROVE DatabaseTypes'
  <2>1. hand[c].next.scope \in Scope /\ UNCHANGED <<selection, binding>>
    BY <1>1, <1>4, HandIsFull DEF Create, At
  <2>2. [scope |-> hand[c].next.scope, cwd |-> hand[c].next.scope.cwd, ref |-> NoSession] \in Row
    BY <2>1 DEF Row, Scope
  <2>3. rows' \in [Runtime -> Row \cup {NoRow}]
    BY <1>1, <1>4, <2>2 DEF Create, Free, DatabaseTypes
  <2>4. QED
    BY <1>1, <2>1, <2>3 DEF DatabaseTypes
<1>5. ASSUME NEW c \in Chat, Save(c) \/ Bind(c) PROVE DatabaseTypes'
  BY <1>1, <1>5, HandIsFull DEF Save, Bind, At, DatabaseTypes
<1>6. ASSUME NEW c \in Chat, Store(c) PROVE DatabaseTypes'
  <2>1. pc[c] = "storing" /\ hand[c].next.scope \in Scope /\ hand[c].session \in AgentSession
    BY <1>1, <1>6, HandIsFull DEF Store, At, SelectionInv, Chats, ImportOf
  <2>2. home[hand[c].session] = Place(hand[c].next.scope)
    BY <2>1 DEF SelectionInv, Chats, ImportOf
  <2>3. home[hand[c].session] \in Scope
    BY <2>1, <2>2, PlaceIsScope
  <2>4. Listed(hand[c].session) \in Cwd
    BY <2>1, <2>3, ConstantsAssumption DEF Listed, Scope
  <2>5. [scope |-> hand[c].next.scope, cwd |-> Listed(hand[c].session), ref |-> hand[c].session]
           \in Row
    BY <2>1, <2>4 DEF Row
  <2>6. rows' \in [Runtime -> Row \cup {NoRow}] /\ UNCHANGED <<selection, binding>>
    BY <1>1, <1>6, <2>5 DEF Store, DatabaseTypes
  <2>7. QED
    BY <1>1, <2>6 DEF DatabaseTypes
<1>7. ASSUME NEW c \in Chat, Record(c) PROVE DatabaseTypes'
  <2>1. turn[c] \in Turn /\ turn[c].runtime \in Stored
    BY <1>1, <1>7 DEF Record, TypeOK, TurnTypes, SelectionInv, Chats, TurnOf
  <2>2. turn[c].ref \in AgentSession \cup {NoSession} /\ rows[turn[c].runtime] \in Row
    BY <1>1, <2>1, StoredIsRow DEF Turn
  <2>3. [rows[turn[c].runtime] EXCEPT !.ref = turn[c].ref] \in Row
    BY <2>2 DEF Row
  <2>4. rows' \in [Runtime -> Row \cup {NoRow}] /\ UNCHANGED <<selection, binding>>
    BY <1>1, <1>7, <2>3 DEF Record, DatabaseTypes
  <2>5. QED
    BY <1>1, <2>4 DEF DatabaseTypes
<1>8. QED
  BY <1>2, <1>3, <1>4, <1>5, <1>6, <1>7
     DEF Next, ControlStep, TurnStep, Show, New, Reselect, Pick, SetProxy, Begin, List,
         ListFails, Find, Answer, StatementFails, Accept, CreateSession, End, Crash, vars

\* Turns and the homes of sessions stay well typed.
LEMMA TurnsStep ==
    ASSUME SelectionInv, [Next]_vars
    PROVE  TurnTypes'
<1>1. TypeOK /\ TurnTypes
  BY DEF SelectionInv, TypeOK
<1>2. CASE UNCHANGED <<turn, home>>
  BY <1>1, <1>2 DEF TurnTypes
<1>3. ASSUME NEW c \in Chat, Accept(c) PROVE TurnTypes'
  <2> DEFINE r == selection[c].chosen
             copy == [runtime |-> r, ref |-> rows[r].ref,
                      scope |-> [agent |-> rows[r].scope.agent, cwd |-> rows[r].cwd]]
  <2>1. r \in Stored /\ turn' = [turn EXCEPT ![c] = copy] /\ home' = home
    BY <1>3 DEF Accept
  <2>2. copy \in Turn
    BY <1>1, <2>1, StoredIsRow DEF Turn, Site
  <2>3. QED
    BY <1>1, <2>1, <2>2 DEF TurnTypes
<1>4. ASSUME NEW c \in Chat, CreateSession(c) PROVE TurnTypes'
  <2>1. PICK s \in AgentSession :
           /\ home' = [home EXCEPT ![s] = Place(turn[c].scope)]
           /\ turn' = [turn EXCEPT ![c].ref = s]
    BY <1>4 DEF CreateSession
  <2>2. turn[c] \in Turn
    BY <1>1, <1>4 DEF CreateSession, TurnTypes
  <2>3. Place(turn[c].scope) \in Scope /\ [turn[c] EXCEPT !.ref = s] \in Turn
    BY <2>2, PlaceIsScope DEF Turn
  <2>4. QED
    BY <1>1, <2>1, <2>3 DEF TurnTypes
<1>5. ASSUME NEW c \in Chat, End(c) PROVE TurnTypes'
  BY <1>1, <1>5 DEF End, TurnTypes
<1>6. CASE Crash
  BY <1>1, <1>6 DEF Crash, TurnTypes
<1>7. QED
  BY <1>2, <1>3, <1>4, <1>5, <1>6
     DEF Next, ControlStep, TurnStep, Ensure, Show, New, Reselect, Pick, SetProxy, Begin, Create,
         Save, Bind, List, ListFails, Find, Store, Answer, StatementFails, Record, vars, turnVars

\* The handlers stay well typed.
LEMMA HandlersStep ==
    ASSUME SelectionInv, [Next]_vars
    PROVE  HandlerTypes'
<1>1. TypeOK /\ HandlerTypes
  BY DEF SelectionInv, TypeOK
<1>2. CASE UNCHANGED <<pc, hand, told>>
  BY <1>1, <1>2 DEF HandlerTypes
<1>3. ASSUME NEW c \in Chat, NEW label \in Label \ {"idle"}, NEW h \in Hand,
             Goto(c, label), hand' = [hand EXCEPT ![c] = h],
             told' = told \/ told' = [told EXCEPT ![c] = Unsure]
      PROVE  HandlerTypes'
  <2>1. h # NoHand
    BY FullIsNotEmpty
  <2>2. QED
    BY <1>1, <1>3, <2>1 DEF HandlerTypes, Goto
<1>4. ASSUME NEW c \in Chat, Show(c) PROVE HandlerTypes'
  <2>1. Summary(selection[c]) \in Told
    BY <1>1, <1>4 DEF Show, Command, TypeOK, DatabaseTypes, Selection, Summary, Told
  <2>2. QED
    BY <1>1, <1>4, <2>1 DEF Show, HandlerTypes
<1>5. ASSUME NEW c \in Chat, NEW label, NEW next, NEW import, Starts(c, label, next, import)
      PROVE  HandlerTypes'
  <2>1. label \in Label \ {"idle"}
    BY <1>5 DEF Starts, Label
  <2>2. [NoHand EXCEPT !.next = next, !.import = import] \in Hand
    BY <1>5 DEF Starts, NoHand, Hand
  <2>3. QED
    BY <1>3, <1>5, <2>1, <2>2 DEF Starts, Begin
<1>6. ASSUME NEW c \in Chat, Create(c) PROVE HandlerTypes'
  <2>1. PICK r \in Runtime : hand' = [hand EXCEPT ![c].next.chosen = r]
    BY <1>6 DEF Create, Free
  <2>2. hand[c] \in Hand
    BY <1>1, <1>6, HandIsFull DEF Create, At
  <2>3. [hand[c] EXCEPT !.next.chosen = r] \in Hand
    BY <2>2 DEF Hand, Selection
  <2>4. hand' = [hand EXCEPT ![c] = [hand[c] EXCEPT !.next.chosen = r]]
    BY <2>1
  <2>5. QED
    BY <1>3, <1>6, <2>3, <2>4 DEF Create, Label
<1>7. ASSUME NEW c \in Chat, Save(c) \/ Bind(c) PROVE HandlerTypes'
  <2>1. hand[c] \in Hand /\ hand' = [hand EXCEPT ![c] = hand[c]] /\ told' = told
    BY <1>1, <1>7, HandIsFull DEF Save, Bind, At, HandlerTypes
  <2>2. \E label \in Label \ {"idle"} : Goto(c, label)
    BY <1>7 DEF Save, Bind, Label
  <2>3. QED
    BY <1>3, <2>1, <2>2
<1>8. ASSUME NEW c \in Chat, List(c) PROVE HandlerTypes'
  <2>1. hand[c] \in Hand
    BY <1>1, <1>8, HandIsFull DEF List, At
  <2>2. [hand[c] EXCEPT !.todo = Discovered(hand[c].next.scope)] \in Hand
    BY <2>1 DEF Hand, Discovered
  <2>3. hand' = [hand EXCEPT ![c] = [hand[c] EXCEPT !.todo = Discovered(hand[c].next.scope)]]
    BY <1>8 DEF List
  <2>4. QED
    BY <1>3, <1>8, <2>2, <2>3 DEF List, Label
<1>9. ASSUME NEW c \in Chat, Find(c) PROVE HandlerTypes'
  <2>1. hand[c] \in Hand /\ hand[c].todo \subseteq AgentSession
    BY <1>1, <1>9, HandIsFull DEF Find, At
  <2>2. PICK s \in hand[c].todo, r \in Runtime \cup {NoRuntime} :
           hand' = [hand EXCEPT ![c].todo = @ \ {s}, ![c].session = s, ![c].found = r]
    BY <1>9 DEF Find, Offered, Stored
  <2> DEFINE h == [hand[c] EXCEPT !.todo = hand[c].todo \ {s}, !.session = s, !.found = r]
  <2>3. h \in Hand
    BY <2>1 DEF Hand
  <2>4. hand' = [hand EXCEPT ![c] = h]
    BY <1>1, <2>2 DEF HandlerTypes
  <2> HIDE DEF h
  <2>5. QED
    BY <1>3, <1>9, <2>3, <2>4 DEF Find, Label
<1>10. ASSUME NEW c \in Chat, Store(c) PROVE HandlerTypes'
  <2> DEFINE h == [hand[c] EXCEPT !.session = NoSession, !.found = NoRuntime]
  <2>1. hand[c] \in Hand
    BY <1>1, <1>10, HandIsFull DEF Store, At
  <2>2. h \in Hand
    BY <2>1 DEF Hand
  <2>3. hand' = [hand EXCEPT ![c] = h]
    BY <1>1, <1>10 DEF Store, HandlerTypes
  <2> HIDE DEF h
  <2>4. QED
    BY <1>3, <1>10, <2>2, <2>3 DEF Store, Label
<1>11. ASSUME NEW c \in Chat, Answer(c) PROVE HandlerTypes'
  <2>1. Summary(hand[c].next) \in Told
    BY <1>1, <1>11, HandIsFull DEF Answer, At, Selection, Summary, Told
  <2>2. QED
    BY <1>1, <1>11, <2>1 DEF Answer, HandlerTypes, Goto, Label
<1>12. ASSUME NEW c \in Chat, ListFails(c) \/ StatementFails(c) PROVE HandlerTypes'
  BY <1>1, <1>12 DEF ListFails, StatementFails, HandlerTypes, Goto, Label
<1>13. CASE Crash
  BY <1>1, <1>13 DEF Crash, HandlerTypes, Label
<1>14. ASSUME NEW c \in Chat, ControlStep(c) PROVE HandlerTypes'
  <2>1. CASE \/ New(c)
             \/ \E scope \in Scope : Reselect(c, scope)
             \/ \E r \in Runtime : Pick(c, r)
             \/ \E mode \in Mode, given \in BOOLEAN : SetProxy(c, mode, given)
    BY <1>5, <2>1, CommandStarts
  <2>2. CASE Ensure(c)
    BY <1>2, <2>2 DEF Ensure
  <2>3. QED
    BY <1>4, <1>6, <1>7, <1>8, <1>9, <1>10, <1>11, <1>12, <1>14, <2>1, <2>2 DEF ControlStep
<1>15. QED
  BY <1>2, <1>13, <1>14 DEF Next, TurnStep, Accept, CreateSession, Record, End, vars

\* All variables stay well typed.
LEMMA TypesStep ==
    ASSUME SelectionInv, [Next]_vars
    PROVE  TypeOK'
<1>1. TypeOK
  BY DEF SelectionInv
<1>2. QED
  BY <1>1, DatabaseStep, HandlersStep, TurnsStep, CountersStep DEF TypeOK

-----------------------------------------------------------------------------
(* Rows and sessions                                                       *)

\* The row an import is about to write.
LEMMA StoredFits ==
    ASSUME SelectionInv, NEW c \in Chat, At(c, "storing")
    PROVE  /\ hand[c].session \in AgentSession
           /\ hand[c].next.scope \in Scope
           /\ home[hand[c].session] = Place(hand[c].next.scope)
           /\ hand[c].found # NoRuntime =>
                 /\ hand[c].found \in Stored
                 /\ rows[hand[c].found].scope = hand[c].next.scope
                 /\ rows[hand[c].found].cwd = Listed(hand[c].session)
           /\ \A s \in hand[c].todo : home[s] = Place(hand[c].next.scope)
BY HandIsFull DEF SelectionInv, Chats, ImportOf, At, Fits

\* No step takes a row, its place, its directory or the home of a session back.
LEMMA SteadyStep ==
    ASSUME SelectionInv, [Next]_vars
    PROVE  Steady
<1> USE DEF SelectionInv
<1>1. CASE UNCHANGED <<rows, home>>
  BY <1>1 DEF Steady, Stored
<1>2. ASSUME NEW r \in Runtime, NEW row \in Row, rows' = [rows EXCEPT ![r] = row],
             r \in Stored => row.scope = rows[r].scope /\ row.cwd = rows[r].cwd,
             home' = home
      PROVE  Steady
  <2>1. \A q \in Runtime : rows'[q] = IF q = r THEN row ELSE rows[q]
    BY <1>2 DEF TypeOK, DatabaseTypes
  <2>2. QED
    BY <1>2, <2>1, RowIsStored DEF Steady, Stored
<1>3. ASSUME NEW c \in Chat, Create(c) PROVE Steady
  <2>1. hand[c].next.scope \in Scope
    BY <1>3, HandIsFull DEF Create, At
  <2>2. [scope |-> hand[c].next.scope, cwd |-> hand[c].next.scope.cwd, ref |-> NoSession] \in Row
    BY <2>1 DEF Row, Scope
  <2>3. QED
    BY <1>2, <1>3, <2>2 DEF Create, Free
<1>4. ASSUME NEW c \in Chat, Store(c) PROVE Steady
  <2> DEFINE row == [scope |-> hand[c].next.scope, cwd |-> Listed(hand[c].session),
                     ref |-> hand[c].session]
  <2>1. PICK r \in IF hand[c].found = NoRuntime THEN Free ELSE {hand[c].found} :
           rows' = [rows EXCEPT ![r] = row]
    BY <1>4 DEF Store
  <2>2. /\ r \in Runtime
        /\ r \in Stored => row.scope = rows[r].scope /\ row.cwd = rows[r].cwd
    BY <1>4, <2>1, StoredFits DEF Store, Free, Stored
  <2>3. Listed(hand[c].session) \in Cwd
    BY <1>4, StoredFits, PlaceIsScope, ConstantsAssumption DEF Store, Listed, Scope
  <2>4. row \in Row
    BY <1>4, <2>3, StoredFits DEF Store, Row
  <2>5. home' = home
    BY <1>4 DEF Store
  <2> HIDE DEF row
  <2>6. QED
    BY <1>2, <2>1, <2>2, <2>4, <2>5
<1>5. ASSUME NEW c \in Chat, Record(c) PROVE Steady
  <2>1. turn[c] \in Turn /\ turn[c].runtime \in Stored
    BY <1>5 DEF Record, TypeOK, TurnTypes, Chats, TurnOf
  <2>2. turn[c].ref \in AgentSession \cup {NoSession} /\ rows[turn[c].runtime] \in Row
    BY <2>1, StoredIsRow DEF Turn
  <2> DEFINE row == [rows[turn[c].runtime] EXCEPT !.ref = turn[c].ref]
  <2>3. /\ row \in Row
        /\ row.scope = rows[turn[c].runtime].scope /\ row.cwd = rows[turn[c].runtime].cwd
    BY <2>2 DEF Row
  <2>4. rows' = [rows EXCEPT ![turn[c].runtime] = row] /\ home' = home
    BY <1>5 DEF Record
  <2> HIDE DEF row
  <2>5. QED
    BY <1>2, <2>1, <2>3, <2>4 DEF Stored
<1>6. ASSUME NEW c \in Chat, CreateSession(c) PROVE Steady
  <2>1. PICK s \in AgentSession : /\ home[s] = NoScope
                                  /\ home' = [home EXCEPT ![s] = Place(turn[c].scope)]
    BY <1>6 DEF CreateSession
  <2>2. \A q \in AgentSession : home[q] # NoScope => home'[q] = home[q]
    BY <2>1 DEF TypeOK, TurnTypes
  <2>3. QED
    BY <1>6, <2>2 DEF CreateSession, Steady, Stored
<1>7. QED
  BY <1>1, <1>3, <1>4, <1>5, <1>6
     DEF Next, ControlStep, TurnStep, Ensure, Show, New, Reselect, Pick, SetProxy, Begin, Save,
         Bind, List, ListFails, Find, Answer, StatementFails, Accept, End, Crash, vars

\* Every row goes on serving its session.
LEMMA RowsServeStep ==
    ASSUME SelectionInv, [Next]_vars
    PROVE  RowsServe'
<1> USE DEF SelectionInv
<1>1. Steady
  BY SteadyStep
<1>2. ASSUME NEW r \in Stored, rows'[r].ref = rows[r].ref PROVE Serves(r, rows[r].ref)'
  <2>1. rows[r].ref \in AgentSession \cup {NoSession} /\ Serves(r, rows[r].ref)
    BY StoredIsRow DEF RowsServe
  <2>2. CASE rows[r].ref = NoSession
    BY <1>1, <1>2, <2>1, <2>2 DEF Serves, Made, Steady
  <2>3. CASE rows[r].ref # NoSession
    BY <1>1, <1>2, <2>1, <2>3, FitsStays DEF Serves, Fits, Listed
  <2>4. QED
    BY <2>2, <2>3
<1>3. CASE UNCHANGED rows
  BY <1>2, <1>3 DEF RowsServe, Stored
<1>4. ASSUME NEW r \in Runtime, NEW row \in Row, rows' = [rows EXCEPT ![r] = row],
             Serves(r, rows[r].ref)'
      PROVE  RowsServe'
  <2>1. \A q \in Runtime : rows'[q] = IF q = r THEN row ELSE rows[q]
    BY <1>4 DEF TypeOK, DatabaseTypes
  <2>2. SUFFICES ASSUME NEW q \in Stored' PROVE Serves(q, rows[q].ref)'
    BY DEF RowsServe
  <2>3. CASE q = r
    BY <1>4, <2>3
  <2>4. CASE q # r
    <3>1. q \in Stored /\ rows'[q].ref = rows[q].ref
      BY <2>1, <2>4 DEF Stored
    <3>2. QED
      BY <1>2, <3>1
  <2>5. QED
    BY <2>3, <2>4
<1>5. ASSUME NEW c \in Chat, Create(c) PROVE RowsServe'
  <2> DEFINE scope == hand[c].next.scope
             row == [scope |-> scope, cwd |-> scope.cwd, ref |-> NoSession]
  <2>1. PICK r \in Free : rows' = [rows EXCEPT ![r] = row]
    BY <1>5 DEF Create
  <2>2. scope \in Scope /\ scope = Place(scope)
    BY <1>5, HandIsFull DEF Create, At, Chats, ChoiceOf
  <2>3. row \in Row
    BY <2>2 DEF Row, Scope
  <2>4. rows'[r] = row /\ Canonical[scope.cwd] = scope.cwd
    BY <2>1, <2>2, PlaceIsScope DEF Free, TypeOK, DatabaseTypes
  <2>5. Serves(r, rows[r].ref)'
    BY <2>4 DEF Serves, Made
  <2> HIDE DEF row
  <2>6. QED
    BY <1>4, <2>1, <2>3, <2>5 DEF Free
<1>6. ASSUME NEW c \in Chat, Store(c) PROVE RowsServe'
  <2> DEFINE s == hand[c].session
             row == [scope |-> hand[c].next.scope, cwd |-> Listed(s), ref |-> s]
  <2>1. PICK r \in Runtime : rows' = [rows EXCEPT ![r] = row]
    BY <1>6, StoredFits DEF Store, Free, Stored
  <2>2. s \in AgentSession /\ home[s] = Place(hand[c].next.scope)
        /\ hand[c].next.scope \in Scope
    BY <1>6, StoredFits DEF Store
  <2>3. Listed(s) \in Cwd
    BY <2>2, PlaceIsScope, ConstantsAssumption DEF Listed, Scope
  <2>4. row \in Row
    BY <2>2, <2>3 DEF Row
  <2>5. rows'[r] = row /\ home' = home /\ s # NoSession
    BY <1>6, <2>1, <2>2, ConstantsAssumption DEF Store, TypeOK, DatabaseTypes
  <2>6. Serves(r, rows[r].ref)'
    BY <2>2, <2>5 DEF Serves, Fits, Listed
  <2> HIDE DEF row
  <2>7. QED
    BY <1>4, <2>1, <2>4, <2>6
<1>7. ASSUME NEW c \in Chat, Record(c) PROVE RowsServe'
  <2>1. /\ turn[c] \in Turn /\ turn[c].runtime \in Stored
        /\ Serves(turn[c].runtime, turn[c].ref) /\ turn[c].ref # NoSession
    BY <1>7 DEF Record, TypeOK, TurnTypes, Chats, TurnOf
  <2>2. PICK r \in Stored, ref \in AgentSession : r = turn[c].runtime /\ ref = turn[c].ref
    BY <2>1 DEF Turn
  <2>3. Fits(ref, r) /\ ref # NoSession
    BY <2>1, <2>2 DEF Serves
  <2> DEFINE row == [rows[r] EXCEPT !.ref = ref]
  <2>4. rows[r] \in Row /\ r \in Runtime
    BY StoredIsRow
  <2>5. row \in Row /\ row.scope = rows[r].scope /\ row.cwd = rows[r].cwd /\ row.ref = ref
    BY <2>4 DEF Row
  <2>6. rows' = [rows EXCEPT ![r] = row] /\ home' = home
    BY <1>7, <2>2 DEF Record
  <2>7. rows'[r] = row
    BY <2>4, <2>6 DEF TypeOK, DatabaseTypes
  <2> HIDE DEF row
  <2>8. Serves(r, rows[r].ref)'
    BY <2>3, <2>5, <2>6, <2>7 DEF Serves, Fits, Listed
  <2>9. QED
    BY <1>4, <2>4, <2>5, <2>6, <2>8
<1>8. QED
  BY <1>3, <1>5, <1>6, <1>7
     DEF Next, ControlStep, TurnStep, Ensure, Show, New, Reselect, Pick, SetProxy, Begin, Save,
         Bind, List, ListFails, Find, Answer, StatementFails, Accept, CreateSession, End, Crash,
         vars

-----------------------------------------------------------------------------
(* Handlers and turns                                                      *)

\* The choice of a chat stays sound, and its answer true.
LEMMA ChoiceStep ==
    ASSUME SelectionInv, [Next]_vars, NEW c \in Chat
    PROVE  ChoiceOf(c)'
<1> USE DEF SelectionInv
<1>1. Steady /\ ChoiceOf(c)
  BY SteadyStep DEF Chats
<1>2. CASE UNCHANGED <<selection[c], binding[c], pc[c], hand[c], told[c]>>
  BY <1>1, <1>2, ChoiceStays
<1>3. /\ selection \in [Chat -> Selection \cup {NoSelection}]
      /\ binding \in [Chat -> Runtime \cup {NoRuntime}]
      /\ pc \in [Chat -> Label] /\ hand \in [Chat -> Hand \cup {NoHand}]
      /\ told \in [Chat -> Told \cup {Unsure}]
  BY DEF TypeOK, DatabaseTypes, HandlerTypes
<1>4. /\ pc[c] \notin {"idle", "creating"} /\ hand'[c].next = hand[c].next => Sound(hand[c].next)'
      /\ binding[c] \in Stored' \cup {NoRuntime}
  BY <1>1 DEF ChoiceOf, Sound, Site, Steady
<1>5. selection'[c] = selection[c] => Sound(selection[c])'
  BY <1>1 DEF ChoiceOf, Sound, Site, Steady
<1>6. CASE Ensure(c)
  <2>1. PICK s \in Selection : selection' = [selection EXCEPT ![c] = s] /\ Sound(s)
    BY <1>6, EnsuredIsSound
  <2>2. selection'[c] = s /\ pc[c] = "idle" /\ UNCHANGED <<rows, pc, hand, binding, told>>
    BY <1>3, <1>6, <2>1 DEF Ensure, At
  <2>3. told[c] = Unsure
    <3>1. Summary(NoSelection) = Unsure /\ selection[c] = NoSelection
      BY <1>6 DEF Ensure, Summary, NoSelection, Unsure
    <3>2. QED
      BY <1>1, <3>1 DEF ChoiceOf
  <2>4. Sound(selection[c])'
    BY <2>1, <2>2 DEF Sound, Site, Stored
  <2>5. QED
    BY <1>1, <2>2, <2>3, <2>4 DEF ChoiceOf, Stored
<1>7. CASE Show(c)
  BY <1>1, <1>3, <1>4, <1>5, <1>7 DEF Show, Command, At, ChoiceOf
<1>8. ASSUME NEW label, NEW next, NEW import, Starts(c, label, next, import) PROVE ChoiceOf(c)'
  <2>1. /\ pc'[c] = label /\ hand'[c].next = next /\ told'[c] = Unsure
        /\ UNCHANGED <<selection, binding, rows>>
    BY <1>3, <1>8 DEF Starts, Begin, Goto, NoHand
  <2>2. label = "saving" => Sound(hand[c].next)'
    BY <1>8, <2>1 DEF Starts, Sound, Site, Stored
  <2>3. label \in {"creating", "saving"} /\ (label = "creating" => next.scope = Place(next.scope))
    BY <1>8 DEF Starts
  <2>4. (Place(hand[c].next.scope))' = Place(next.scope)
    BY <2>1 DEF Place
  <2>5. QED
    BY <1>4, <1>5, <2>1, <2>2, <2>3, <2>4 DEF ChoiceOf
<1>9. CASE Create(c)
  <2> DEFINE scope == hand[c].next.scope
  <2>1. hand[c] \in Hand /\ pc[c] = "creating" /\ scope \in Scope
    BY <1>9, HandIsFull DEF Create, At
  <2>2. PICK r \in Free :
           /\ rows' = [rows EXCEPT ![r] = [scope |-> scope, cwd |-> scope.cwd, ref |-> NoSession]]
           /\ hand' = [hand EXCEPT ![c].next.chosen = r]
    BY <1>9 DEF Create
  <2>3. hand'[c].next.chosen = r /\ hand'[c].next.scope = scope
    BY <1>3, <2>1, <2>2 DEF Hand, Selection
  <2>4. /\ rows'[r] = [scope |-> scope, cwd |-> scope.cwd, ref |-> NoSession]
        /\ rows'[r] \in Row
    BY <2>1, <2>2 DEF Free, TypeOK, DatabaseTypes, Row, Scope
  <2>5. Sound(hand[c].next)'
    <3>1. r \in Stored' /\ [agent |-> scope.agent, cwd |-> scope.cwd] = scope
      BY <2>1, <2>2, <2>4, RowIsStored DEF Stored, Free, Scope
    <3>2. QED
      BY <2>3, <2>4, <3>1 DEF Sound, Site
  <2>6. pc'[c] = "saving" /\ UNCHANGED <<selection, binding, told>> /\ told[c] = Unsure
    BY <1>1, <1>3, <1>9, <2>1 DEF Create, Goto, ChoiceOf
  <2>7. QED
    BY <1>4, <1>5, <2>5, <2>6 DEF ChoiceOf
<1>10. CASE Save(c)
  <2>1. /\ selection'[c] = hand[c].next /\ pc[c] = "saving" /\ pc'[c] = "binding"
        /\ UNCHANGED <<binding, hand, told, rows>>
    BY <1>3, <1>10 DEF Save, At, Goto
  <2>2. Sound(selection[c])'
    BY <1>1, <2>1 DEF ChoiceOf, Sound, Site, Stored
  <2>3. QED
    BY <1>1, <1>4, <2>1, <2>2 DEF ChoiceOf
<1>11. CASE Bind(c)
  <2>1. /\ binding'[c] = hand[c].next.chosen /\ pc[c] = "binding"
        /\ pc'[c] \in {"listing", "answering"}
        /\ UNCHANGED <<selection, hand, told, rows>>
    BY <1>3, <1>11 DEF Bind, At, Goto
  <2>2. binding'[c] \in Stored' \cup {NoRuntime}
    BY <1>1, <2>1 DEF ChoiceOf, Sound, Stored
  <2>3. QED
    BY <1>1, <1>4, <1>5, <2>1, <2>2 DEF ChoiceOf
<1>12. CASE List(c) \/ Find(c) \/ Store(c)
  <2>1. /\ pc[c] \in {"listing", "finding", "storing"} /\ pc'[c] \in {"finding", "storing"}
        /\ UNCHANGED <<selection, binding, told>>
    BY <1>3, <1>12 DEF List, Find, Store, At, Goto
  <2>2. hand[c] \in Hand
    BY <2>1, HandIsFull
  <2>3. CASE List(c)
    <3>1. hand'[c].next = hand[c].next
      BY <1>3, <2>2, <2>3 DEF List, Hand
    <3>2. QED
      BY <1>1, <1>4, <1>5, <2>1, <3>1 DEF ChoiceOf
  <2>4. CASE Find(c)
    <3>1. PICK s \in hand[c].todo, r \in Runtime \cup {NoRuntime} :
             hand' = [hand EXCEPT ![c].todo = @ \ {s}, ![c].session = s, ![c].found = r]
      BY <2>4 DEF Find, Offered, Stored
    <3>2. hand'[c].next = hand[c].next
      BY <1>3, <2>2, <3>1 DEF Hand
    <3>3. QED
      BY <1>1, <1>4, <1>5, <2>1, <3>2 DEF ChoiceOf
  <2>5. CASE Store(c)
    <3>1. hand'[c].next = hand[c].next
      BY <1>3, <2>2, <2>5 DEF Store, Hand
    <3>2. QED
      BY <1>1, <1>4, <1>5, <2>1, <3>1 DEF ChoiceOf
  <2>6. QED
    BY <1>12, <2>3, <2>4, <2>5
<1>13. CASE Answer(c)
  <2>1. /\ pc[c] \in {"answering", "finding"} /\ pc'[c] = "idle"
        /\ told'[c] = Summary(hand[c].next) /\ UNCHANGED <<selection, binding>>
    BY <1>3, <1>13 DEF Answer, At, Goto
  <2>2. told'[c] = Summary(selection[c])
    BY <1>1, <2>1 DEF ChoiceOf
  <2>3. QED
    BY <1>4, <1>5, <2>1, <2>2 DEF ChoiceOf, Summary
<1>14. CASE ListFails(c) \/ StatementFails(c) \/ Crash
  <2>1. pc'[c] = "idle" /\ UNCHANGED <<selection, binding, told>>
    BY <1>3, <1>14 DEF ListFails, StatementFails, Crash, Goto
  <2>2. told[c] = Unsure \/ told[c] = Summary(selection[c])
    BY <1>1 DEF ChoiceOf
  <2>3. QED
    BY <1>4, <1>5, <2>1, <2>2 DEF ChoiceOf, Summary
<1>15. ASSUME NEW d \in Chat \ {c}, ControlStep(d) PROVE ChoiceOf(c)'
  <2>1. UNCHANGED <<selection[c], binding[c], pc[c], hand[c], told[c]>>
    BY <1>3, <1>15 DEF ControlStep, Ensure, Show, New, Reselect, Pick, SetProxy, Begin, Create,
           Save, Bind, List, ListFails, Find, Store, Answer, StatementFails, Goto
  <2>2. QED
    BY <1>2, <2>1
<1>16. CASE ControlStep(c)
  <2>1. CASE \/ New(c)
             \/ \E scope \in Scope : Reselect(c, scope)
             \/ \E r \in Runtime : Pick(c, r)
             \/ \E mode \in Mode, given \in BOOLEAN : SetProxy(c, mode, given)
    BY <1>8, <2>1, CommandStarts
  <2>2. QED
    BY <1>6, <1>7, <1>9, <1>10, <1>11, <1>12, <1>13, <1>14, <1>16, <2>1 DEF ControlStep
<1>17. QED
  BY <1>2, <1>14, <1>15, <1>16 DEF Next, TurnStep, Accept, CreateSession, Record, End, vars

\* What an import has still to store stays of its place.
LEMMA ImportStep ==
    ASSUME SelectionInv, [Next]_vars, NEW c \in Chat
    PROVE  ImportOf(c)'
<1> USE DEF SelectionInv
<1>1. Steady /\ ImportOf(c)
  BY SteadyStep DEF Chats
<1>2. /\ pc \in [Chat -> Label] /\ hand \in [Chat -> Hand \cup {NoHand}]
  BY DEF TypeOK, HandlerTypes
<1>3. CASE UNCHANGED <<pc[c], hand[c]>>
  BY <1>3, <1>1, ImportStays
<1>4. CASE pc'[c] \notin {"finding", "storing"}
  BY <1>4 DEF ImportOf
<1>5. CASE List(c)
  <2>1. hand[c] \in Hand
    BY <1>5, HandIsFull DEF List, At
  <2>2. /\ hand'[c].todo = Discovered(hand[c].next.scope) /\ hand'[c].next = hand[c].next
        /\ home' = home /\ pc'[c] = "finding"
    BY <1>2, <1>5, <2>1 DEF List, Goto, Hand
  <2>3. \A s \in hand'[c].todo : home'[s] = Place(hand'[c].next.scope)
    BY <2>2 DEF Discovered
  <2>4. QED
    BY <2>2, <2>3 DEF ImportOf, Place
<1>6. CASE Find(c)
  <2> DEFINE known(s) == {r \in Offered(hand[c].next) : rows[r].ref = s}
  <2>1. /\ hand[c] \in Hand /\ hand[c].todo \subseteq AgentSession
        /\ \A s \in hand[c].todo : home[s] = Place(hand[c].next.scope)
    BY <1>1, <1>6, HandIsFull DEF Find, At, ImportOf
  <2>2. PICK s \in hand[c].todo, r \in Runtime \cup {NoRuntime} :
           /\ r # NoRuntime => r \in Offered(hand[c].next) /\ rows[r].ref = s
           /\ hand' = [hand EXCEPT ![c].todo = @ \ {s}, ![c].session = s, ![c].found = r]
    BY <1>6 DEF Find, Offered, Stored
  <2>3. /\ hand'[c].todo = hand[c].todo \ {s} /\ hand'[c].session = s /\ hand'[c].found = r
        /\ hand'[c].next = hand[c].next
    BY <1>2, <2>1, <2>2 DEF Hand
  <2>4. UNCHANGED <<rows, home>> /\ pc'[c] = "storing" /\ s \in AgentSession
    BY <1>2, <1>6, <2>1 DEF Find, Goto
  <2>5. r # NoRuntime => r \in Stored /\ rows[r].scope = hand[c].next.scope /\ Fits(s, r)
    BY <2>2, <2>4, ConstantsAssumption DEF Offered, RowsServe, Serves
  <2>6. r # NoRuntime => r \in Stored' /\ rows'[r].scope = hand[c].next.scope /\ Fits(s, r)'
    BY <2>4, <2>5 DEF Stored, Fits, Listed
  <2>7. \A q \in hand'[c].todo : home'[q] = Place(hand[c].next.scope)
    BY <2>1, <2>3, <2>4
  <2>8. home'[s] = Place(hand[c].next.scope)
    BY <2>1, <2>4
  <2>9. Fits(hand[c].session, hand[c].found)' <=> Fits(s, r)'
    BY <2>3 DEF Fits, Listed
  <2>10. QED
    BY <2>3, <2>4, <2>6, <2>7, <2>8, <2>9 DEF ImportOf, Place
<1>7. CASE Store(c)
  <2>1. hand[c] \in Hand /\ At(c, "storing")
    BY <1>7, HandIsFull DEF Store, At
  <2>2. /\ hand'[c].todo = hand[c].todo /\ hand'[c].next = hand[c].next
        /\ home' = home /\ pc'[c] = "finding"
    BY <1>2, <1>7, <2>1 DEF Store, Goto, Hand
  <2>3. \A s \in hand'[c].todo : home'[s] = Place(hand'[c].next.scope)
    BY <2>1, <2>2, StoredFits
  <2>4. QED
    BY <2>2, <2>3 DEF ImportOf, Place
<1>8. ASSUME NEW label, NEW next, NEW import, Starts(c, label, next, import) PROVE ImportOf(c)'
  BY <1>2, <1>4, <1>8 DEF Starts, Begin, Goto
<1>9. CASE Ensure(c) \/ Show(c)
  BY <1>3, <1>9 DEF Ensure, Show
<1>10. CASE Create(c) \/ Save(c) \/ Bind(c) \/ Answer(c) \/ ListFails(c) \/ StatementFails(c) \/ Crash
  BY <1>2, <1>4, <1>10
     DEF Create, Save, Bind, Answer, ListFails, StatementFails, Crash, Goto
<1>11. ASSUME NEW d \in Chat \ {c}, ControlStep(d) PROVE ImportOf(c)'
  <2>1. UNCHANGED <<pc[c], hand[c]>>
    BY <1>2, <1>11 DEF ControlStep, Ensure, Show, New, Reselect, Pick, SetProxy, Begin, Create,
           Save, Bind, List, ListFails, Find, Store, Answer, StatementFails, Goto
  <2>2. QED
    BY <1>3, <2>1
<1>12. CASE ControlStep(c)
  <2>1. CASE \/ New(c)
             \/ \E scope \in Scope : Reselect(c, scope)
             \/ \E r \in Runtime : Pick(c, r)
             \/ \E mode \in Mode, given \in BOOLEAN : SetProxy(c, mode, given)
    BY <1>8, <2>1, CommandStarts
  <2>2. QED
    BY <1>5, <1>6, <1>7, <1>9, <1>10, <1>12, <2>1 DEF ControlStep
<1>13. QED
  BY <1>3, <1>10, <1>11, <1>12 DEF Next, TurnStep, Accept, CreateSession, Record, End, vars

\* A turn goes on being served by the runtime it has copied.
LEMMA TurnServedStep ==
    ASSUME SelectionInv, [Next]_vars, NEW c \in Chat
    PROVE  TurnOf(c)'
<1> USE DEF SelectionInv
<1>1. Steady /\ TurnOf(c)
  BY SteadyStep DEF Chats
<1>2. turn \in [Chat -> Turn \cup {NoTurn}] /\ home \in [AgentSession -> Scope \cup {NoScope}]
  BY DEF TypeOK, TurnTypes
<1>3. CASE UNCHANGED turn[c]
  BY <1>1, <1>3, TurnStays
<1>4. CASE turn'[c] = NoTurn
  BY <1>4 DEF TurnOf
<1>5. CASE Accept(c)
  <2>1. PICK r \in Stored : r = selection[c].chosen
    BY <1>5 DEF Accept
  <2>2. turn'[c] = [runtime |-> r, ref |-> rows[r].ref, scope |-> Site(r)]
    BY <1>2, <1>5, <2>1 DEF Accept, Site
  <2>3. Serves(r, rows[r].ref) /\ UNCHANGED <<rows, home>>
    BY <1>5 DEF RowsServe, Accept
  <2>4. turn'[c].runtime = r /\ turn'[c].ref = rows[r].ref /\ turn'[c].scope = Site(r)
    BY <2>2
  <2>5. Serves(turn[c].runtime, turn[c].ref)'
    BY <2>3, <2>4 DEF Serves, Made, Fits, Listed
  <2>6. r \in Stored' /\ Site(turn[c].runtime)' = Site(r)
    BY <2>3, <2>4 DEF Stored, Site
  <2>7. QED
    BY <2>4, <2>5, <2>6 DEF TurnOf
<1>6. CASE CreateSession(c)
  <2>1. /\ turn[c] \in Turn /\ turn[c].runtime \in Stored /\ turn[c].scope = Site(turn[c].runtime)
        /\ Made(turn[c].runtime) /\ rows' = rows
    BY <1>1, <1>2, <1>6 DEF CreateSession, TurnOf, Serves
  <2>2. PICK r \in Stored : r = turn[c].runtime
    BY <2>1
  <2>3. PICK s \in AgentSession :
           /\ home[s] = NoScope
           /\ home' = [home EXCEPT ![s] = Place(turn[c].scope)]
           /\ turn' = [turn EXCEPT ![c].ref = s]
    BY <1>6 DEF CreateSession
  <2>4. turn'[c] = [turn[c] EXCEPT !.ref = s]
    BY <1>2, <2>3
  <2>5. turn'[c].runtime = r /\ turn'[c].ref = s /\ turn'[c].scope = turn[c].scope
    BY <2>1, <2>2, <2>4 DEF Turn
  <2>6. /\ rows[r].scope \in Scope /\ Site(r) \in Scope
        /\ rows[r].cwd = rows[r].scope.cwd /\ Canonical[rows[r].cwd] = rows[r].cwd
    BY <2>1, <2>2, StoredIsRow DEF Made
  <2>7. /\ Site(r) = rows[r].scope
        /\ Place(rows[r].scope) = rows[r].scope
    BY <2>6, PlaceIsScope DEF Site, Scope
  <2>8. home'[s] = rows[r].scope
    BY <1>2, <2>1, <2>2, <2>3, <2>7
  <2>9. Native[s] = NoScope
    BY <2>3, ConstantsAssumption DEF Homes
  <2>10. Fits(s, r)'
    BY <2>1, <2>6, <2>7, <2>8, <2>9 DEF Fits, Listed, Place
  <2>11. Serves(turn[c].runtime, turn[c].ref)'
    BY <2>3, <2>5, <2>10, ConstantsAssumption DEF Serves, Fits, Listed
  <2>12. r \in Stored' /\ Site(turn[c].runtime)' = Site(r) /\ turn'[c].scope = Site(r)
    BY <2>1, <2>2, <2>5 DEF Stored, Site
  <2>13. QED
    BY <2>5, <2>11, <2>12 DEF TurnOf
<1>7. CASE End(c) \/ Crash
  BY <1>2, <1>4, <1>7 DEF End, Crash
<1>8. ASSUME NEW d \in Chat \ {c}, TurnStep(d) PROVE TurnOf(c)'
  BY <1>2, <1>3, <1>8 DEF TurnStep, Accept, CreateSession, Record, End, turnVars
<1>9. CASE Record(c)
  BY <1>3, <1>9 DEF Record, turnVars
<1>10. ASSUME NEW d \in Chat, ControlStep(d) PROVE TurnOf(c)'
  BY <1>3, <1>10 DEF ControlStep, Ensure, Show, New, Reselect, Pick, SetProxy, Begin, Create,
     Save, Bind, List, ListFails, Find, Store, Answer, StatementFails, turnVars
<1>11. QED
  BY <1>3, <1>5, <1>6, <1>7, <1>8, <1>9, <1>10 DEF Next, TurnStep, vars

-----------------------------------------------------------------------------
(* The invariant holds                                                     *)

\* The database an older version left is sound.
LEMMA SelectionStart == Init => SelectionInv
<1> SUFFICES ASSUME Init PROVE SelectionInv
  OBVIOUS
<1>1. TypeOK
  BY TypesAtStart
<1>2. Homes
  BY DEF Init, Homes
<1>3. \A r \in Stored : Made(r) /\ rows[r].ref = NoSession
  <2>1. CASE rows = [r \in Runtime |-> NoRow]
    BY <2>1 DEF Stored
  <2>2. ASSUME NEW old \in Runtime,
               rows = [r \in Runtime |-> IF r = old THEN [scope |-> DefaultScope,
                           cwd |-> DefaultScope.cwd, ref |-> NoSession] ELSE NoRow]
        PROVE  \A r \in Stored : Made(r) /\ rows[r].ref = NoSession
    BY <2>2, ConstantsAssumption DEF Stored, Made
  <2>3. QED
    BY <2>1, <2>2 DEF Init
<1>4. RowsServe
  BY <1>3 DEF RowsServe, Serves
<1>5. ASSUME NEW c \in Chat PROVE ChoiceOf(c) /\ ImportOf(c) /\ TurnOf(c)
  <2>1. /\ selection[c] = NoSelection /\ binding[c] \in Stored \cup {NoRuntime}
        /\ pc[c] = "idle" /\ told[c] = Unsure /\ turn[c] = NoTurn
    BY <1>5 DEF Init, Stored
  <2>2. Sound(selection[c])
    BY <2>1 DEF Sound, NoSelection
  <2>3. QED
    BY <2>1, <2>2 DEF ChoiceOf, ImportOf, TurnOf
<1>6. QED
  BY <1>1, <1>2, <1>4, <1>5 DEF SelectionInv, Chats

\* Every step keeps it.
LEMMA SelectionStep == SelectionInv /\ [Next]_vars => SelectionInv'
<1> SUFFICES ASSUME SelectionInv, [Next]_vars PROVE SelectionInv'
  OBVIOUS
<1>1. Homes'
  BY SteadyStep DEF SelectionInv, Homes, Steady
<1>2. Chats'
  BY ChoiceStep, ImportStep, TurnServedStep DEF Chats
<1>3. QED
  BY <1>1, <1>2, TypesStep, RowsServeStep DEF SelectionInv

\* So it always holds.
LEMMA SelectionAlways == Spec => []SelectionInv
<1> QED
  BY SelectionStart, SelectionStep, PTL DEF Spec

-----------------------------------------------------------------------------
(* The theorems                                                            *)

\* Every variable stays within its type: a handler is at work exactly when it
\* carries something.
THEOREM TypeCorrect == Spec => []TypeOK
<1>1. SelectionInv => TypeOK
  BY DEF SelectionInv
<1>2. QED
  BY <1>1, SelectionAlways, PTL

\* What replace_runtime_selection and set_active_runtime leave behind names a row
\* that create_runtime or import_runtime has made, whatever fails in between.
THEOREM ChoicesAreStored == Spec => []ChoiceIsStored
<1>1. SelectionInv => ChoiceIsStored
  <2> SUFFICES ASSUME SelectionInv, NEW c \in Chat
               PROVE  {selection[c].chosen, binding[c]} \subseteq Stored \cup {NoRuntime}
    BY DEF ChoiceIsStored
  <2>1. Sound(selection[c]) /\ binding[c] \in Stored \cup {NoRuntime}
    BY DEF SelectionInv, Chats, ChoiceOf
  <2>2. QED
    BY <2>1 DEF Sound
<1>2. QED
  BY <1>1, SelectionAlways, PTL

\* The session that update_runtime_state or import_runtime has given a runtime is
\* kept by its agent for its directory.
THEOREM SessionsAreAtHome == Spec => []SessionIsAtHome
<1>1. SelectionInv => SessionIsAtHome
  BY DEF SelectionInv, RowsServe, Serves, Fits, SessionIsAtHome
<1>2. QED
  BY <1>1, SelectionAlways, PTL

\* accept_turn starts a turn with what the last answer of the chat named.
THEOREM TurnsGoWhereTold == Spec => TurnGoesWhereTold
<1> DEFINE Step == \A c \in Chat : turn[c] = NoTurn /\ turn'[c] # NoTurn /\ told[c] # Unsure
                      => [scope |-> turn'[c].scope, chosen |-> turn'[c].runtime] = told[c]
<1>1. SelectionInv /\ [Next]_vars => [Step]_vars
  <2> SUFFICES ASSUME SelectionInv, [Next]_vars, NEW c \in Chat,
                      turn[c] = NoTurn, turn'[c] # NoTurn, told[c] # Unsure
               PROVE  [scope |-> turn'[c].scope, chosen |-> turn'[c].runtime] = told[c]
    OBVIOUS
  <2>1. turn \in [Chat -> Turn \cup {NoTurn}]
    BY DEF SelectionInv, TypeOK, TurnTypes
  <2>2. Accept(c)
    BY <2>1 DEF Next, ControlStep, TurnStep, Ensure, Show, New, Reselect, Pick, SetProxy, Begin,
       Create, Save, Bind, List, ListFails, Find, Store, Answer, StatementFails, Accept,
       CreateSession, Record, End, Crash, vars, turnVars
  <2> DEFINE r == selection[c].chosen
  <2>3. /\ turn'[c] = [runtime |-> r, ref |-> rows[r].ref, scope |-> Site(r)]
        /\ r \in Stored
    BY <2>1, <2>2 DEF Accept, Site
  <2>4. /\ Sound(selection[c])
        /\ told[c] = Summary(selection[c])
    BY DEF SelectionInv, Chats, ChoiceOf
  <2>5. r # NoRuntime
    BY <2>3, ConstantsAssumption DEF Stored
  <2>6. Site(r) = selection[c].scope
    BY <2>4, <2>5 DEF Sound
  <2>7. turn'[c].scope = Site(r) /\ turn'[c].runtime = r
    BY <2>3
  <2>8. QED
    BY <2>4, <2>6, <2>7 DEF Summary
<1>2. QED
  BY <1>1, SelectionAlways, PTL DEF Spec, TurnGoesWhereTold

\* No statement takes a row of runtime_instances back or moves it, whatever is
\* imported, recorded or selected at the same time: a runtime that was listed can
\* be picked later, and an identifier copied before a wait is still good after it.
RowsStay ==
    [][\A r \in Stored : /\ r \in Stored'
                         /\ rows'[r].scope = rows[r].scope
                         /\ rows'[r].cwd = rows[r].cwd]_vars

THEOREM RowsAreKept == Spec => RowsStay
<1> DEFINE Step == \A r \in Stored : /\ r \in Stored'
                                     /\ rows'[r].scope = rows[r].scope
                                     /\ rows'[r].cwd = rows[r].cwd
<1>1. SelectionInv /\ [Next]_vars => [Step]_vars
  BY SteadyStep DEF Steady
<1>2. QED
  BY <1>1, SelectionAlways, PTL DEF Spec, RowsStay

=============================================================================
