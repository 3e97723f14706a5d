---------------------------- MODULE MCTurnStream ----------------------------
(***************************************************************************)
(* Small instances of TurnStream.                                          *)
(***************************************************************************)
EXTENDS TurnStream

Entry(content, status) == [content |-> content, status |-> status]

\* No plan, a plan, and the same one step on, with an entry that says nothing.
SomePlans == {<<>>,
              <<Entry("look", "pending"), Entry("edit", "in_progress")>>,
              <<Entry("look", "completed"), Entry("none", "pending")>>}
=============================================================================
