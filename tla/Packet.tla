------------------------------- MODULE Packet -------------------------------
(***************************************************************************)
(* Who owns an exception object (desenredo-panic object.rs and runtime.rs, *)
(* desenredo-cxx runtime.rs).  A panic packet is a Box handed to the       *)
(* unwinder as a bare pointer; it comes back to the call that raised it,   *)
(* to a catch pad of the same or another copy of the panic runtime, or to  *)
(* its own cleanup callback.  Objects of C++ come from an allocation guard *)
(* and meet the same pads.  Storage is reused, nothing is reference        *)
(* counted, and no type says who owns a pointer.                           *)
(***************************************************************************)
CONSTANTS
  Copies,     \* copies of the panic runtime in the program, by canary
  Payloads,   \* bound: each is raised at most once
  Addresses,  \* bound: where objects can be
  Free,       \* an address without an object
  None        \* no payload; no hook has run

\* Producers besides: C++, and one without a cleanup callback.
Others == {"cxx", "bare"}

PacketOf(c, p) == [maker |-> c, payload |-> p]
Object == [maker : Copies, payload : Payloads] \cup [maker : Others, payload : {None}]

ASSUME NamesAssumption ==
  /\ Free \notin Object /\ None \notin Payloads
  /\ Copies \cap Others = {}

Calls == {"raise", "start", "throw"}

VARIABLES
  heap,    \* the object at each address, with its header
  holder,  \* "guard": a Raise or an Allocation; "unwinder"; "pad"; "nobody"
  call,    \* the call that raised an object, while its frame is there
  fate,    \* of payloads: "fresh", "packed", "given" or "dropped"
  hook,    \* the terminal hook that ended the program, if one did
  reads    \* history, read by no action: fields the last step looked at

vars == <<heap, holder, call, fate, hook, reads>>

Init ==
  /\ heap = [a \in Addresses |-> Free]
  /\ holder = [a \in Addresses |-> "nobody"]
  /\ call = [a \in Addresses |-> "none"]
  /\ fate = [p \in Payloads |-> "fresh"]
  /\ hook = None /\ reads = {}

Live == hook = None

\* The object at a is handed over.
Hand(a, to) == holder' = [holder EXCEPT ![a] = to]

\* Its storage is released, and its payload, if it is a packet, meets fate f.
Release(a, f) ==
  /\ heap' = [heap EXCEPT ![a] = Free]
  /\ Hand(a, "nobody")
  /\ fate' = [p \in Payloads |-> IF p = heap[a].payload THEN f ELSE fate[p]]

\* The program ends in a hook of copy c.
Run(name, c) == hook' = <<name, c>>

-----------------------------------------------------------------------------
(* Producers.                                                              *)

\* object::raise and object::start, up to the call of the unwinder.
Raise(c, p, a, how) ==
  /\ Live /\ heap[a] = Free /\ fate[p] = "fresh"
  /\ heap' = [heap EXCEPT ![a] = PacketOf(c, p)]
  /\ Hand(a, "unwinder")
  /\ call' = [call EXCEPT ![a] = how]
  /\ fate' = [fate EXCEPT ![p] = "packed"]
  /\ reads' = {} /\ UNCHANGED hook

\* Allocation::new.
Alloc(a) ==
  /\ Live /\ heap[a] = Free
  /\ heap' = [heap EXCEPT ![a] = PacketOf("cxx", None)]
  /\ Hand(a, "guard")
  /\ reads' = {} /\ UNCHANGED <<call, fate, hook>>

\* Allocation::throw.
Throw(a) ==
  /\ Live /\ holder[a] = "guard" /\ heap[a].maker = "cxx"
  /\ Hand(a, "unwinder")
  /\ call' = [call EXCEPT ![a] = "throw"]
  /\ reads' = {} /\ UNCHANGED <<heap, fate, hook>>

\* Another producer raises an object.
RaiseOther(a) ==
  /\ Live /\ heap[a] = Free
  /\ heap' = [heap EXCEPT ![a] = PacketOf("bare", None)]
  /\ Hand(a, "unwinder")
  /\ reads' = {} /\ UNCHANGED <<call, fate, hook>>

\* Mutant: raise forgets the packet the unwinder gives back.
RegainedNot(a) == "nobody"

Regained(a) == "guard"

\* _Unwind_RaiseException returns.  raise makes the packet a Raise again; start
\* keeps it in a ManuallyDrop and ends the program.
Returned(a) ==
  /\ Live /\ holder[a] = "unwinder" /\ call[a] \in {"raise", "start"}
  /\ call' = [call EXCEPT ![a] = "none"]
  /\ \/ call[a] = "raise" /\ Hand(a, Regained(a)) /\ UNCHANGED hook
     \/ call[a] = "start" /\ Hand(a, "guard") /\ Run("LOST", heap[a].maker)
  /\ reads' = {} /\ UNCHANGED <<heap, fate>>

\* A producer whose object has no cleanup callback takes its storage back.
Reclaim(a) ==
  /\ Live /\ holder[a] = "nobody" /\ heap[a] # Free /\ heap[a].maker = "bare"
  /\ heap' = [heap EXCEPT ![a] = Free]
  /\ reads' = {} /\ UNCHANGED <<holder, call, fate, hook>>

\* A guard goes out of scope: Drop of Raise and of Allocation.
Discard(a) ==
  /\ Live /\ holder[a] = "guard"
  /\ Release(a, "dropped")
  /\ reads' = {} /\ UNCHANGED <<call, hook>>

-----------------------------------------------------------------------------
(* The unwinder (external), and the frames it passes.                      *)

\* Mutant: throw forgets to forget the guard it consumed.
DropsGuarded(how) == how = "throw"

\* Phase two passes the frame of the call itself.  Does it drop the object?
\* raise and start have a bare pointer, throw a ManuallyDrop.
Drops(how) == FALSE

Passed(a) ==
  /\ Live /\ holder[a] = "unwinder" /\ call[a] \in Calls
  /\ call' = [call EXCEPT ![a] = "none"]
  /\ heap' = IF Drops(call[a]) THEN [heap EXCEPT ![a] = Free] ELSE heap
  /\ reads' = {} /\ UNCHANGED <<holder, fate, hook>>

\* A landing pad of an older frame is entered.
Land(a) ==
  /\ Live /\ holder[a] = "unwinder" /\ call[a] = "none"
  /\ Hand(a, "pad")
  /\ reads' = {} /\ UNCHANGED <<heap, call, fate, hook>>

\* The pad resumes the propagation.
Resume(a) ==
  /\ Live /\ holder[a] = "pad"
  /\ Hand(a, "unwinder")
  /\ reads' = {} /\ UNCHANGED <<heap, call, fate, hook>>

-----------------------------------------------------------------------------
(* Catching, in copy c.                                                    *)

IsRust(a) == heap[a].maker \in Copies

\* Mutant: the canary is compared whatever the class.
KindUnclassed(c, a) == IF heap[a].maker = c THEN "Local" ELSE "Rust"

\* object::take's classification.
Kind(c, a) ==
  IF ~IsRust(a) THEN "Foreign" ELSE IF heap[a].maker # c THEN "Rust" ELSE "Local"

\* The fields it looks at, and those take moves.
Fields(kind) ==
  CASE kind = "Foreign" -> {"class"}
    [] kind = "Rust" -> {"class", "canary"}
    [] kind = "Local" -> {"class", "canary", "payload"}

\* Mutant: the payload is read out of a box that stays.
UnboxRead(a) ==
  /\ Hand(a, "nobody")
  /\ fate' = [fate EXCEPT ![heap[a].payload] = "given"]
  /\ UNCHANGED heap

\* The box is opened: the payload moves out, the storage goes.
Unbox(a) == Release(a, "given")

Looked(c, a) == reads' = {<<c, f, a>> : f \in Fields(Kind(c, a))}

\* object::take: an error leaves the exception with the caller.
Take(c, a) ==
  /\ Live /\ holder[a] = "pad"
  /\ Looked(c, a)
  /\ IF Kind(c, a) = "Local" THEN Unbox(a) ELSE UNCHANGED <<heap, holder, fate>>
  /\ UNCHANGED <<call, hook>>

\* The producer's cleanup callback.  A packet's callback calls LOST, which does
\* not return: nothing of the packet is dropped.
Cleanup(a) ==
  \/ IsRust(a) /\ Run("LOST", heap[a].maker) /\ UNCHANGED <<heap, holder, fate>>
  \/ heap[a].maker = "cxx" /\ Release(a, "dropped") /\ UNCHANGED hook
  \/ heap[a].maker = "bare" /\ Hand(a, "nobody") /\ UNCHANGED <<heap, fate, hook>>

\* _Unwind_DeleteException, called by a handler of another language.
Delete(a) ==
  /\ Live /\ holder[a] = "pad"
  /\ Cleanup(a)
  /\ reads' = {} /\ UNCHANGED call

\* What object::catch does with an object that is not this copy's: a foreign
\* one is deleted, another copy's left alone; both end the program.
Refuse(c, a) ==
  /\ IF Kind(c, a) = "Foreign" /\ heap[a].maker = "cxx"
     THEN Release(a, "dropped") ELSE UNCHANGED <<heap, holder, fate>>
  /\ Run("FOREIGN", c)

\* object::catch.
Catch(c, a) ==
  /\ Live /\ holder[a] = "pad"
  /\ Looked(c, a)
  /\ IF Kind(c, a) = "Local" THEN Unbox(a) /\ UNCHANGED hook ELSE Refuse(c, a)
  /\ UNCHANGED call

\* A hook does not return.
Ended == ~Live /\ UNCHANGED vars

Next ==
  \/ \E a \in Addresses :
       \/ \E c \in Copies, p \in Payloads, how \in {"raise", "start"} : Raise(c, p, a, how)
       \/ Alloc(a) \/ Throw(a) \/ RaiseOther(a)
       \/ Returned(a) \/ Discard(a) \/ Reclaim(a)
       \/ Passed(a) \/ Land(a) \/ Resume(a)
       \/ \E c \in Copies : Take(c, a) \/ Catch(c, a)
       \/ Delete(a)
  \/ Ended

Spec == Init /\ [][Next]_vars

-----------------------------------------------------------------------------
(* Properties.                                                             *)

\* A packet in storage is complete: it has the payload it was made with.
TypeOK ==
  /\ heap \in [Addresses -> Object \cup {Free}]
  /\ holder \in [Addresses -> {"nobody", "guard", "unwinder", "pad"}]
  /\ call \in [Addresses -> Calls \cup {"none"}]
  /\ fate \in [Payloads -> {"fresh", "packed", "given", "dropped"}]
  /\ hook \in {None} \cup ({"LOST", "FOREIGN"} \X Copies)

(***************************************************************************)
(* Whoever holds a pointer holds a live object, though the frames that     *)
(* raised it were unwound and storage is reused; and while the program     *)
(* runs, what nobody holds has been released, but for objects whose        *)
(* producer gave no cleanup (object.rs:45-57, 119-125, runtime.rs:130-153).*)
(***************************************************************************)
HeldIsLive == \A a \in Addresses : holder[a] # "nobody" => heap[a] # Free

NothingLeaks ==
  \A a \in Addresses : heap[a] # Free /\ holder[a] = "nobody" => heap[a].maker = "bare"

\* The object at a is a packet with payload p.
Holds(a, p) == heap[a] # Free /\ heap[a].payload = p

(***************************************************************************)
(* A payload is in one packet, or was given to one pad or dropped, never   *)
(* two of these (object.rs:196-227).                                       *)
(***************************************************************************)
OneOwner ==
  \A p \in Payloads :
    /\ \A a, b \in Addresses : Holds(a, p) /\ Holds(b, p) => a = b
    /\ (\E a \in Addresses : Holds(a, p)) <=> fate[p] = "packed"

(***************************************************************************)
(* A copy looks behind the header only of a packet some copy made, and     *)
(* behind the canary only of its own (object.rs:196-227).                  *)
(***************************************************************************)
LayoutsRespected ==
  [][\A c \in Copies, a \in Addresses :
       /\ <<c, "canary", a>> \in reads' => heap[a].maker \in Copies
       /\ <<c, "payload", a>> \in reads' => heap[a].maker = c]_vars
=============================================================================
