----------------------------- MODULE MCTransfer -----------------------------
(* A stack of some sixty words: room for a trampoline, the Rust frames     *)
(* below it and the image; pads in the caller and in two frames above it.  *)
EXTENDS Transfer

SomeDepths == {1, 2, 3}
SomeTargets == {Caller, Caller + 2, Caller + 4}
EntryCode == Entries \cup {"entry", "save"}

ASSUME SignalsAssumption == JumpUndisturbed
=============================================================================
