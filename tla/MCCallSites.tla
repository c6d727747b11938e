---------------------------- MODULE MCCallSites ----------------------------
(* Every table of up to three entries over a function of a few bytes, in   *)
(* any order, with overlaps, empty ranges and a malformed end; addresses   *)
(* end so early that ranges overflow.                                      *)
EXTENDS CallSites

Ranges == [bad : {FALSE}, start : 0..3, size : 0..3]
Malformed == [bad |-> TRUE, start |-> 0, size |-> 0]

Whole == UNION {[1..n -> Ranges] : n \in 0..3}
Short == UNION {[1..n -> Ranges] : n \in 0..2}
AllTables == Whole \cup {Append(t, Malformed) : t \in Short}

AllStops == {s \in [first : 0..4, after : 1..5, interrupted : BOOLEAN] :
               s.first < s.after /\ s.after - s.first <= 2}
=============================================================================
