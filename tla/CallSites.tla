----------------------------- MODULE CallSites -----------------------------
(***************************************************************************)
(* Finding the call site of a frame (desenredo-lsda, table.rs: Lsda::site  *)
(* over the Sites iterator; desenredo-personality, context.rs:             *)
(* InstructionPointer::site).  The table is scanned in order and the scan  *)
(* leaves it at the first entry that starts behind the counter.            *)
(***************************************************************************)
EXTENDS Integers, Sequences

CONSTANTS
  MaxAddress,   \* usize::MAX
  Base,         \* start of the function, the base of every range
  Tables,       \* call-site tables
  Stops         \* where a frame can stand

Address == 0..MaxAddress

ASSUME BaseAssumption == MaxAddress \in Nat /\ Base \in Address

\* A call-site record: malformed, or the range it covers.
Entry == [bad : BOOLEAN, start : Address, size : Address]

\* Nothing can be read behind a malformed record.
ASSUME TablesAssumption ==
  /\ Tables \subseteq Seq(Entry)
  /\ \A t \in Tables : \A i \in DOMAIN t : t[i].bad => i = Len(t)

\* A frame stands in the instruction that fills first..after - 1: it has been
\* called from there or, in a signal frame's caller, been interrupted there.
Stop == [first : Address, after : Address \ {0}, interrupted : BOOLEAN]

ASSUME StopsAssumption ==
  /\ Stops \subseteq Stop
  /\ \A s \in Stops : s.first < s.after

VARIABLES
  table,    \* the call-site table
  stop,     \* where the frame stands
  index,    \* the next entry of the scan
  answer    \* "scan", "site" (the entry at index), "none", or an error

scanVars == <<table, stop, index, answer>>

\* The unwinder reports the return address of a call.
Reported(s) == IF s.interrupted THEN s.first ELSE s.after

\* Mutant: return addresses are looked up as they are.
SiteAddressRaw(s) == Reported(s)

\* InstructionPointer::site.
SiteAddress(s) ==
  IF Reported(s) = 0 \/ s.interrupted THEN Reported(s) ELSE Reported(s) - 1

Pc == SiteAddress(stop) - Base

ScanInit ==
  /\ table \in Tables /\ stop \in Stops
  /\ index = 1
  /\ answer = IF SiteAddress(stop) < Base THEN "Table" ELSE "scan"

-----------------------------------------------------------------------------
(* One turn of the loop in Lsda::site.                                     *)

Finish(result) == answer' = result /\ UNCHANGED <<table, stop, index>>

End(e) == e.start + e.size

\* Mutant: ranges include their end.
ContainsEnd(e) == e.start <= Pc /\ Pc <= End(e)

Contains(e) == e.start <= Pc /\ Pc < End(e)

\* The record at index is read and its end can be represented.
Reads == /\ answer = "scan" /\ index <= Len(table)
         /\ ~table[index].bad /\ End(table[index]) <= MaxAddress

Found == Reads /\ Contains(table[index]) /\ Finish("site")

\* Mutant: the scan gives up at the first entry that does not contain Pc.
PassedSoon == Reads /\ ~Contains(table[index]) /\ Finish("none")

Passed == Reads /\ Pc < table[index].start /\ Finish("none")

Skip ==
  /\ Reads /\ ~Contains(table[index]) /\ Pc >= table[index].start
  /\ index' = index + 1
  /\ UNCHANGED <<table, stop, answer>>

Broken ==
  /\ answer = "scan" /\ index <= Len(table)
  /\ table[index].bad /\ Finish("Table")

Overflows ==
  /\ answer = "scan" /\ index <= Len(table)
  /\ ~table[index].bad /\ End(table[index]) > MaxAddress /\ Finish("Overflow")

RunsOut == answer = "scan" /\ index > Len(table) /\ Finish("none")

Returned == answer # "scan" /\ UNCHANGED scanVars

ScanNext == Found \/ Passed \/ Skip \/ Broken \/ Overflows \/ RunsOut \/ Returned

ScanSpec == ScanInit /\ [][ScanNext]_scanVars

-----------------------------------------------------------------------------
(* Properties.                                                             *)

\* The scan never stands more than one entry behind the table (the Sites
\* iterator's suffix, table.rs:214-226).
ScanTypeOK ==
  /\ table \in Tables /\ stop \in Stops
  /\ index \in 1..(Len(table) + 1)
  /\ answer \in {"scan", "site", "none", "Table", "Overflow"}

\* Ranges in ascending order, as the format asks of compilers.
Ascending(t) ==
  \A i, j \in DOMAIN t :
    i < j /\ ~t[i].bad /\ ~t[j].bad => t[i].start <= t[j].start

Disjoint(t) ==
  \A i, j \in DOMAIN t :
    i < j /\ ~t[i].bad /\ ~t[j].bad => End(t[i]) <= t[j].start

(***************************************************************************)
(* Leaving the table early hides nothing: a frame is told it has no call   *)
(* site, which terminates the program, only if no entry covers it, even if *)
(* ranges overlap (table.rs:683-697).                                      *)
(***************************************************************************)
NoneIsUncovered ==
  answer = "none" /\ Ascending(table) =>
    \A i \in DOMAIN table : ~table[i].bad => ~Contains(table[i])

\* The instruction of s lies in the range of e.
Holds(e, s) ==
  /\ ~e.bad /\ End(e) <= MaxAddress
  /\ Base + e.start <= s.first /\ s.after <= Base + End(e)

(***************************************************************************)
(* A frame finds the entry its instruction lies in: a call that ends its   *)
(* range is not taken for the entry that starts at its return address, an  *)
(* interrupted instruction that starts a range is not taken for the entry  *)
(* before, and no malformed record behind matters (context.rs:82-94,       *)
(* table.rs:683-697).                                                      *)
(***************************************************************************)
FindsTheCall ==
  answer # "scan" /\ Disjoint(table) =>
    \A i \in DOMAIN table :
      Holds(table[i], stop) => answer = "site" /\ index = i
=============================================================================
