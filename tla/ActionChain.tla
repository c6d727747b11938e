---------------------------- MODULE ActionChain ----------------------------
(***************************************************************************)
(* The walk along one action chain of an LSDA (desenredo-lsda, table.rs:   *)
(* Lsda::chain and Chain::next).  Each record holds a discriminator and a  *)
(* displacement to the next record, counted from the displacement's own    *)
(* position; nothing in the format keeps records apart or chains acyclic,  *)
(* so the walk carries a budget of steps.                                  *)
(***************************************************************************)
EXTENDS Integers, FiniteSets

CONSTANTS
  Size,     \* bytes of the LSDA
  Floor,    \* position of the action table
  Parses    \* what the bytes can hold: a parse maps a position to its record

ASSUME SizeAssumption == Size \in Nat /\ Floor \in 0..Size

Table == Floor..(Size - 1)

\* What can be read at a position.  "bad": one of the two fields is malformed
\* or the discriminator denotes no kind; else the displacement "delta" was
\* read at "link".
Parse == [bad : BOOLEAN, link : Nat, delta : Int]

ASSUME ParsesAssumption == Parses \subseteq [Table -> Parse]

Nowhere == -1

VARIABLES
  parse,    \* the bytes, as records
  next,     \* position of the next record, or Nowhere
  fuel,     \* remaining budget
  outcome   \* "records" so far, or how the walk ended

\* History, read by no action: the positions of the records yielded, and
\* whether one of them was yielded twice.
VARIABLES seen, again

vars == <<parse, next, fuel, outcome, seen, again>>

\* Mutant: the budget assumes that records do not overlap.
BudgetPairs == (Size - Floor) \div 2

Budget == Size + 1

\* Lsda::chain for the one-based action offset "raw".
Start(raw) ==
  IF Floor + raw - 1 < Size
  THEN next = Floor + raw - 1 /\ outcome = "records"
  ELSE next = Nowhere /\ outcome = "Table"

\* A chain is taken up at any offset a call site can name.
Begin ==
  /\ \E raw \in 1..(Size - Floor + 1) : Start(raw)
  /\ fuel = Budget
  /\ seen = {} /\ again = FALSE

Init == parse \in Parses /\ Begin

-----------------------------------------------------------------------------
(* Chain::next.                                                            *)

\* Mutant: the walk ends without an error when the budget runs out.
ExhaustedQuietly ==
  /\ next # Nowhere /\ fuel = 0
  /\ next' = Nowhere /\ outcome' = "End"
  /\ UNCHANGED <<parse, fuel, seen, again>>

Exhausted ==
  /\ next # Nowhere /\ fuel = 0
  /\ next' = Nowhere /\ outcome' = "Loop"
  /\ UNCHANGED <<parse, fuel, seen, again>>

\* The record the displacement of record p leads to.
Target(p) == parse[p].link + parse[p].delta

\* Mutant: a chain may lead before the action table.
LeadsBackAnywhere(p) == Target(p) \in 0..(Size - 1)

\* The displacement stays in the table.
Leads(p) == Target(p) \in Floor..(Size - 1)

\* The chain ends after record p, or goes on at the record it leads to.
Advance(p) ==
  \/ /\ parse[p].delta = 0
     /\ next' = Nowhere /\ outcome' = "End"
  \/ /\ parse[p].delta # 0 /\ Leads(p)
     /\ next' = Target(p) /\ UNCHANGED outcome

Remember(p) == seen' = seen \cup {p} /\ again' = (again \/ p \in seen)

\* Mutant: a record that is yielded costs nothing.
YieldFree ==
  /\ next # Nowhere /\ fuel > 0
  /\ ~parse[next].bad
  /\ Advance(next) /\ Remember(next)
  /\ UNCHANGED <<parse, fuel>>

\* The record at "next" is yielded.
Yield ==
  /\ next # Nowhere /\ fuel > 0
  /\ ~parse[next].bad
  /\ Advance(next) /\ Remember(next)
  /\ fuel' = fuel - 1
  /\ UNCHANGED parse

Malformed ==
  /\ next # Nowhere /\ fuel > 0
  /\ parse[next].bad \/ (parse[next].delta # 0 /\ ~Leads(next))
  /\ fuel' = fuel - 1
  /\ next' = Nowhere /\ outcome' = "Table"
  /\ UNCHANGED <<parse, seen, again>>

\* The iterator answers None from now on.
Finished == next = Nowhere /\ UNCHANGED vars

Next == Exhausted \/ Yield \/ Malformed \/ Finished

\* A reader that does not stop at an earlier record takes them all.
Spec == Init /\ [][Next]_vars /\ WF_vars(Exhausted \/ Yield \/ Malformed)

-----------------------------------------------------------------------------
(* Properties.                                                             *)

\* The walk's state, and the invariant of the Chain type: "next" is absent or
\* begins inside the action table (table.rs:228-231).
TypeOK ==
  /\ parse \in [Table -> Parse]
  /\ next \in Table \cup {Nowhere}
  /\ fuel \in 0..Budget
  /\ outcome \in {"records", "End", "Table", "Loop"}
  /\ seen \subseteq Table
  /\ again \in BOOLEAN

(***************************************************************************)
(* The budget rejects cycles only: when it runs out, some record was       *)
(* yielded twice, so no finite chain is ever cut short, however its        *)
(* records overlap (table.rs:636-641, 836-840).                            *)
(***************************************************************************)
LoopIsACycle == outcome = "Loop" => again

(***************************************************************************)
(* A walk that ends without an error has yielded each record once: a chain *)
(* that returns to a record is always reported (table.rs:836-878).         *)
(***************************************************************************)
EndedIsFinite == outcome = "End" => ~again

\* Every walk ends, cyclic metadata included (table.rs:836-840).
WalkStops == <>(next = Nowhere)

=============================================================================
