------------------------------ MODULE LebValue ------------------------------
(***************************************************************************)
(* What LEB128 octets denote, independently of how they are decoded, and   *)
(* whether Leb128 decodes them so.                                         *)
(***************************************************************************)
EXTENDS Leb128

VARIABLE octets    \* what is decoded

\* What the octets of s up to the n-th denote.
Denotes(s, n) ==
  LET sum[i \in 0..n] ==
        IF i = 0 THEN 0 ELSE sum[i - 1] + Payload(s[i]) * 2 ^ (Group * (i - 1))
  IN  sum[n]

DenotesSigned(s, n) ==
  IF Negative(s[n]) THEN Denotes(s, n) - 2 ^ (Group * n) ELSE Denotes(s, n)

\* The octet that ends the first value of s, or 0.
Terminal(s) ==
  LET ends == {i \in 1..Len(s) : ~Continues(s[i])}
  IN  IF ends = {} THEN 0 ELSE CHOOSE i \in ends : \A j \in ends : i <= j

\* Octets a value may take.
MaxOctets == Width \div Group + 1

SignedRange == -(2 ^ (Width - 1))..(2 ^ (Width - 1) - 1)

-----------------------------------------------------------------------------
(* Properties.                                                             *)

\* uleb reads n octets of s, or refuses the value they denote.
ReadsUnsigned(s) ==
  LET n == Terminal(s)
      got == Uleb(s)
  IN  IF n \in 1..MaxOctets /\ Denotes(s, n) < 2 ^ Width
      THEN got.end = "done" /\ got.read = n /\ got.value = Denotes(s, n)
      ELSE got.end \in {"Eof", "Overflow"}

\* sleb reads the value in range that s denotes; what else it reads wraps.
ReadsSigned(s) ==
  LET n == Terminal(s)
      got == Sleb(s)
  IN  /\ n \in 1..MaxOctets /\ DenotesSigned(s, n) \in SignedRange
           => got.end = "done" /\ got.read = n /\ got.value = DenotesSigned(s, n)
      /\ got.end = "done" => /\ n = got.read /\ got.value \in SignedRange
                             /\ (got.value - DenotesSigned(s, n)) % (2 ^ Width) = 0

Suffixes == {SubSeq(octets, i, Len(octets)) : i \in 1..(Len(octets) + 1)}

(***************************************************************************)
(* An unsigned value is decoded exactly or refused, the last bit of the    *)
(* width included: never truncated (table.rs:344-371).                     *)
(***************************************************************************)
UnsignedExact == \A s \in Suffixes : ReadsUnsigned(s)

(***************************************************************************)
(* A signed value in range is decoded exactly, whatever number of octets   *)
(* encodes it, the full width included; one out of range is refused or     *)
(* wraps (table.rs:374-404).                                               *)
(***************************************************************************)
SignedExact == \A s \in Suffixes : ReadsSigned(s)
=============================================================================
