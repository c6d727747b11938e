------------------------------- MODULE Leb128 -------------------------------
(***************************************************************************)
(* Variable-length integers of the LSDA (desenredo-lsda, table.rs: uleb    *)
(* and sleb), octet by octet.  The code has groups of seven bits and       *)
(* values of 64; both are parameters here, with the one relation the code  *)
(* rests on: a single bit of the last group fits.                          *)
(***************************************************************************)
EXTENDS Integers, Sequences

CONSTANTS
  Group,    \* payload bits of an octet
  Width     \* bits of a value

ASSUME WidthAssumption ==
  /\ Group \in Nat \ {0} /\ Width \in Nat
  /\ Width > Group /\ Width % Group = 1

Octet == 0..(2 ^ (Group + 1) - 1)

Payload(o) == o % (2 ^ Group)
Continues(o) == o >= 2 ^ Group
Negative(o) == Payload(o) >= 2 ^ (Group - 1)

AsSigned(v) == IF v >= 2 ^ (Width - 1) THEN v - 2 ^ Width ELSE v

-----------------------------------------------------------------------------
(* The loops.  Their state is the octets read, the value so far and the    *)
(* position of the next group; "end" is "reading", "done" or the error.    *)

Begun == [read |-> 0, value |-> 0, shift |-> 0, end |-> "reading"]

\* Mutant: the last group is not checked.
FitsAnyPayload(payload, shift) == shift < Width

\* uleb: the last group has room for one bit.
Fits(payload, shift) == IF shift = Width - 1 THEN payload <= 1 ELSE shift < Width

\* A group moved into place; bits shifted past the width are lost.
Shifted(payload, shift) == (payload % 2 ^ (Width - shift)) * 2 ^ shift

\* The group of the octet is added to the value.
Take(st, octet) ==
  [read  |-> st.read + 1,
   value |-> st.value + Shifted(Payload(octet), st.shift),
   shift |-> st.shift + Group,
   end   |-> IF Continues(octet) THEN "reading" ELSE "done"]

Unsigned(st, octet) ==
  IF Fits(Payload(octet), st.shift) THEN Take(st, octet) ELSE [st EXCEPT !.end = "Overflow"]

\* Mutant: a negative value is not extended.
ExtendNever(st, octet) == st.value

\* The terminal octet's sign, extended over the bits no group has set.
Extend(st, octet) ==
  IF st.shift < Width /\ Negative(octet) THEN st.value + 2 ^ Width - 2 ^ st.shift ELSE st.value

Signed(st, octet) ==
  IF st.shift >= Width THEN [st EXCEPT !.end = "Overflow"]
  ELSE LET taken == Take(st, octet)
       IN  IF taken.end = "done" THEN [taken EXCEPT !.value = AsSigned(Extend(taken, octet))]
           ELSE taken

\* The state after the loop of uleb, or of sleb, has seen the octets of s.
Loop(s, signed) ==
  LET after[n \in 0..Len(s)] ==
        IF n = 0 THEN Begun
        ELSE LET st == after[n - 1]
             IN  IF st.end # "reading" THEN st
                 ELSE IF signed THEN Signed(st, s[n]) ELSE Unsigned(st, s[n])
      last == after[Len(s)]
  IN  IF last.end = "reading" THEN [last EXCEPT !.end = "Eof"] ELSE last

Uleb(s) == Loop(s, FALSE)
Sleb(s) == Loop(s, TRUE)
=============================================================================
