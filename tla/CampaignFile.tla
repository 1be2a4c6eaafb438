---------------------------- MODULE CampaignFile ----------------------------
(***************************************************************************)
(* What a campaign file of kit/runner.py says: its rows in file order, the *)
(* edges between them, and the relations the runner derives from them.     *)
(* Row r is its position in the file, so "earlier row" is "smaller number".*)
(*                                                                         *)
(* This is the plain campaign.  The branches for a file with a `v4`        *)
(* section (its phases have retry and stop rules of their own) are not     *)
(* part of it.                                                             *)
(***************************************************************************)
EXTENDS Integers, FiniteSets

CONSTANTS
  NRows,        \* how many rows the file has
  Pilots,       \* the rows marked `pilot`
  StatedNeeds,  \* row -> the rows its `needs` field names
  Wants,        \* row -> the rows its `wants` field names
  Order,        \* row -> the wanted rows it only runs after and does not read
  Prepares,     \* the rows with `prepare` commands
  Paths,        \* the paths under {work} that some row requires or writes
  Requires,     \* row -> the paths that must exist before its command starts
  CmdWrites,    \* row -> the paths its command writes
  PrepWrites    \* row -> the paths its prepare commands write

Rows == 1 .. NRows

ASSUME CampaignFileAssumption ==
  /\ NRows \in Nat
  /\ Pilots \subseteq Rows /\ Prepares \subseteq Rows
  /\ StatedNeeds \in [Rows -> SUBSET Rows]
  /\ Wants \in [Rows -> SUBSET Rows]
  /\ Order \in [Rows -> SUBSET Rows]
  /\ Requires \in [Rows -> SUBSET Paths]
  /\ CmdWrites \in [Rows -> SUBSET Paths]
  /\ PrepWrites \in [Rows -> SUBSET Paths]

\* What load_campaign raises CampaignError for, as far as edges go: needs and
\* wants name earlier rows only, order is a subset of wants.
WellFormed ==
  \A r \in Rows : /\ StatedNeeds[r] \cup Wants[r] \subseteq 1 .. (r - 1)
                  /\ Order[r] \subseteq Wants[r]
                  /\ r \notin Prepares => PrepWrites[r] = {}

-----------------------------------------------------------------------------
\* Every earlier pilot is always needed; `needs` adds to that.
Needs(r) == {p \in Pilots : p < r} \cup StatedNeeds[r]

\* The rows whose outputs r reads.  A needed pilot is a gate and no input; a
\* wanted row listed under `order` is not read either.
Reads(r) == (Needs(r) \ Pilots) \cup (Wants[r] \ Order[r])

\* The required paths that the command of an earlier row writes.
Producible(r) == {p \in Requires[r] : \E o \in 1 .. (r - 1) : p \in CmdWrites[o]}

\* Row -> the rows it reaches along edges, which all point backwards.
Upstream(edges) ==
  LET up[r \in Rows] == edges[r] \cup UNION {up[o] : o \in edges[r]} IN up

\* The rows that need row f, directly or through the rows they need.
Reached == Upstream([r \in Rows |-> Needs(r)])

\* The orders the file relies on without stating them: a required path that
\* only rows outside r's stated upstream write, and an earlier pilot that r
\* does not reach through its stated needs.
ImplicitEdges ==
  LET stated == Upstream([r \in Rows |-> StatedNeeds[r] \cup Wants[r]])
      gated  == Upstream(StatedNeeds)
      writers(r, p) == {o \in Rows \ {r} : p \in CmdWrites[o] \cup PrepWrites[o]}
      unstated(r) == {p \in Requires[r] \ PrepWrites[r] :
                        writers(r, p) # {} /\ writers(r, p) \cap stated[r] = {}}
  IN UNION {{r} \X (unstated(r) \cup {p \in Pilots \ gated[r] : p < r}) : r \in Rows}
=============================================================================
