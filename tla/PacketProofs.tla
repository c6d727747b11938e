---------------------------- MODULE PacketProofs ----------------------------
(***************************************************************************)
(* Exception objects have one owner, for any number of copies of the panic *)
(* runtime, objects and addresses.                                         *)
(***************************************************************************)
EXTENDS Packet, TLAPS

\* The unwinder has what a call raised until the call is over.
CallsAreOut ==
  \A a \in Addresses :
    /\ call[a] # "none" => holder[a] = "unwinder"
    /\ call[a] \in {"raise", "start"} => heap[a].maker \in Copies

Inv == TypeOK /\ HeldIsLive /\ NothingLeaks /\ OneOwner /\ CallsAreOut

\* What is in storage is an object; only a packet has a payload.
LEMMA Objects ==
  ASSUME TypeOK, NEW a \in Addresses, heap[a] # Free
  PROVE  /\ heap[a] \in Object
         /\ heap[a].maker \in Copies \cup Others
         /\ heap[a].maker \in Copies => heap[a].payload \in Payloads
         /\ heap[a].maker \in Others => heap[a].payload = None /\ heap[a].payload \notin Payloads
<1>1. heap[a] \in Object
  BY DEF TypeOK
<1>2. CASE heap[a] \in [maker : Copies, payload : Payloads]
  BY <1>1, <1>2, NamesAssumption
<1>3. CASE heap[a] \in [maker : Others, payload : {None}]
  BY <1>1, <1>3, NamesAssumption
<1> QED
  BY <1>1, <1>2, <1>3 DEF Object

\* Packets and other objects are objects.
LEMMA Made ==
  /\ \A c \in Copies, p \in Payloads : PacketOf(c, p) \in Object /\ PacketOf(c, p) # Free
  /\ \A m \in Others : PacketOf(m, None) \in Object /\ PacketOf(m, None) # Free
BY NamesAssumption DEF PacketOf, Object

LEMMA InvInit == Init => Inv
<1> SUFFICES ASSUME Init PROVE Inv
  OBVIOUS
<1>1. TypeOK
  BY DEF Init, TypeOK
<1>2. HeldIsLive /\ NothingLeaks /\ CallsAreOut
  BY DEF Init, HeldIsLive, NothingLeaks, CallsAreOut, Calls
<1>3. OneOwner
  BY DEF Init, OneOwner, Holds
<1> QED
  BY <1>1, <1>2, <1>3 DEF Inv

\* A released object leaves its address free; only its own payload is moved.
LEMMA Released ==
  ASSUME Inv, NEW a \in Addresses, NEW f \in {"given", "dropped"},
         heap[a] # Free, call[a] = "none", Release(a, f),
         UNCHANGED call, TypeOK'
  PROVE  (HeldIsLive /\ NothingLeaks /\ OneOwner /\ CallsAreOut)'
<1> USE DEF Inv, TypeOK
<1>1. /\ heap'[a] = Free /\ holder'[a] = "nobody"
      /\ \A b \in Addresses \ {a} : heap'[b] = heap[b] /\ holder'[b] = holder[b]
  BY DEF Release, Hand
<1>2. HeldIsLive' /\ NothingLeaks'
  BY <1>1 DEF HeldIsLive, NothingLeaks
<1>3. CallsAreOut'
  BY <1>1 DEF CallsAreOut
<1>4. ASSUME NEW p \in Payloads
      PROVE  /\ \A b, d \in Addresses : Holds(b, p)' /\ Holds(d, p)' => b = d
             /\ (\E b \in Addresses : Holds(b, p)') <=> fate'[p] = "packed"
  <2>1. \A b \in Addresses : Holds(b, p)' <=> b # a /\ Holds(b, p)
    BY <1>1 DEF Holds
  <2>2. fate'[p] = IF p = heap[a].payload THEN f ELSE fate[p]
    BY DEF Release
  <2>3. CASE p = heap[a].payload
    <3>1. Holds(a, p)
      BY <2>3 DEF Holds
    <3>2. \A b \in Addresses : Holds(b, p) => b = a
      BY <3>1 DEF OneOwner
    <3> QED
      BY <2>1, <2>2, <2>3, <3>2
  <2>4. CASE p # heap[a].payload
    <3>1. ~Holds(a, p)
      BY <2>4 DEF Holds
    <3> QED
      BY <2>1, <2>2, <2>4, <3>1 DEF OneOwner
  <2> QED
    BY <2>3, <2>4
<1>5. OneOwner'
  BY <1>4 DEF OneOwner
<1> QED
  BY <1>2, <1>3, <1>5

\* Nothing is stored or released: only the holders and calls of one object
\* change, and it stays held.
LEMMA Moved ==
  ASSUME Inv, NEW a \in Addresses, heap[a] # Free, UNCHANGED <<heap, fate>>,
         \A b \in Addresses \ {a} : holder'[b] = holder[b] /\ call'[b] = call[b],
         holder'[a] # "nobody" \/ heap[a].maker = "bare",
         call'[a] # "none" => holder'[a] = "unwinder",
         call'[a] \in {"raise", "start"} => call[a] \in {"raise", "start"}
  PROVE  (HeldIsLive /\ NothingLeaks /\ OneOwner /\ CallsAreOut)'
<1> USE DEF Inv
<1>1. HeldIsLive' /\ NothingLeaks'
  BY DEF HeldIsLive, NothingLeaks
<1>2. OneOwner'
  BY DEF OneOwner, Holds
<1>3. CallsAreOut'
  BY DEF CallsAreOut
<1> QED
  BY <1>1, <1>2, <1>3

\* An object comes to a free address, with a holder; if it is a packet its
\* payload was in none.
LEMMA Stored ==
  ASSUME Inv, NEW a \in Addresses, NEW o \in Object, heap[a] = Free,
         heap' = [heap EXCEPT ![a] = o],
         \A b \in Addresses \ {a} : holder'[b] = holder[b] /\ call'[b] = call[b],
         holder'[a] # "nobody", o # Free,
         call'[a] # "none" => holder'[a] = "unwinder",
         call'[a] \in {"raise", "start"} => o.maker \in Copies,
         \A p \in Payloads :
           IF o.payload = p THEN fate[p] = "fresh" /\ fate'[p] = "packed"
           ELSE fate'[p] = fate[p]
  PROVE  (HeldIsLive /\ NothingLeaks /\ OneOwner /\ CallsAreOut)'
<1> USE DEF Inv
<1>1. heap'[a] = o /\ \A b \in Addresses \ {a} : heap'[b] = heap[b]
  BY DEF TypeOK
<1>2. HeldIsLive' /\ NothingLeaks'
  BY <1>1 DEF HeldIsLive, NothingLeaks
<1>3. CallsAreOut'
  BY <1>1 DEF CallsAreOut
<1>4. ASSUME NEW p \in Payloads
      PROVE  /\ \A b, d \in Addresses : Holds(b, p)' /\ Holds(d, p)' => b = d
             /\ (\E b \in Addresses : Holds(b, p)') <=> fate'[p] = "packed"
  <2>1. \A b \in Addresses \ {a} : Holds(b, p)' <=> Holds(b, p)
    BY <1>1 DEF Holds
  <2>2. ~Holds(a, p) /\ (Holds(a, p)' <=> o.payload = p)
    BY <1>1 DEF Holds
  <2>3. (\E b \in Addresses : Holds(b, p)) <=> fate[p] = "packed"
    BY DEF OneOwner
  <2>4. CASE o.payload = p
    BY <2>1, <2>2, <2>3, <2>4
  <2>5. CASE o.payload # p
    BY <2>1, <2>2, <2>3, <2>5 DEF OneOwner
  <2> QED
    BY <2>4, <2>5
<1>5. OneOwner'
  BY <1>4 DEF OneOwner
<1> QED
  BY <1>2, <1>3, <1>5

-----------------------------------------------------------------------------
(* One lemma for each kind of step.                                        *)

\* Objects are made.
LEMMA MakingSteps ==
  ASSUME Inv, NEW a \in Addresses,
         \/ \E c \in Copies, p \in Payloads, how \in {"raise", "start"} : Raise(c, p, a, how)
         \/ Alloc(a)
         \/ RaiseOther(a)
  PROVE  Inv'
<1> USE DEF Inv
<1>1. ASSUME NEW c \in Copies, NEW p \in Payloads, NEW how \in {"raise", "start"},
             Raise(c, p, a, how)
      PROVE  Inv'
  <2>1. PacketOf(c, p) \in Object /\ PacketOf(c, p) # Free
    BY Made
  <2>2. PacketOf(c, p).maker = c /\ PacketOf(c, p).payload = p
    BY DEF PacketOf
  <2>3. TypeOK'
    BY <1>1, <2>1 DEF Raise, Hand, TypeOK, Calls
  <2>4. holder'[a] = "unwinder" /\ call'[a] = how
    BY <1>1 DEF Raise, Hand, TypeOK
  <2>5. \A b \in Addresses \ {a} : holder'[b] = holder[b] /\ call'[b] = call[b]
    BY <1>1 DEF Raise, Hand, TypeOK
  <2>6. \A q \in Payloads : IF p = q THEN fate[q] = "fresh" /\ fate'[q] = "packed"
                             ELSE fate'[q] = fate[q]
    BY <1>1 DEF Raise, TypeOK
  <2>7. heap[a] = Free /\ heap' = [heap EXCEPT ![a] = PacketOf(c, p)]
    BY <1>1 DEF Raise
  <2>8. (HeldIsLive /\ NothingLeaks /\ OneOwner /\ CallsAreOut)'
    BY <2>1, <2>2, <2>4, <2>5, <2>6, <2>7, Stored
  <2> QED
    BY <2>3, <2>8
<1>2. ASSUME NEW m \in Others, heap[a] = Free,
             heap' = [heap EXCEPT ![a] = PacketOf(m, None)],
             \E h \in {"guard", "unwinder"} : Hand(a, h), UNCHANGED <<call, fate, hook>>
      PROVE  Inv'
  <2>1. PacketOf(m, None) \in Object /\ PacketOf(m, None) # Free
    BY Made
  <2>2. PacketOf(m, None).payload = None
    BY DEF PacketOf
  <2>3. TypeOK'
    BY <1>2, <2>1 DEF Hand, TypeOK
  <2>4. holder'[a] # "nobody" /\ \A b \in Addresses \ {a} : holder'[b] = holder[b]
    BY <1>2 DEF Hand, TypeOK
  <2>5. call'[a] = "none"
    BY <1>2 DEF CallsAreOut, HeldIsLive
  <2>6. \A q \in Payloads : PacketOf(m, None).payload # q /\ fate'[q] = fate[q]
    BY <1>2, <2>2, NamesAssumption
  <2>7. \A q \in Payloads : IF PacketOf(m, None).payload = q
                             THEN fate[q] = "fresh" /\ fate'[q] = "packed"
                             ELSE fate'[q] = fate[q]
    BY <2>6
  <2>8. (HeldIsLive /\ NothingLeaks /\ OneOwner /\ CallsAreOut)'
    BY <1>2, <2>1, <2>4, <2>5, <2>7, Stored
  <2> QED
    BY <2>3, <2>8
<1>3. CASE Alloc(a)
  BY <1>2, <1>3 DEF Alloc, Others
<1>4. CASE RaiseOther(a)
  BY <1>2, <1>4 DEF RaiseOther, Others
<1> QED
  BY <1>1, <1>3, <1>4

\* Objects change hands.
LEMMA MovingSteps ==
  ASSUME Inv, NEW a \in Addresses,
         Throw(a) \/ Returned(a) \/ Passed(a) \/ Land(a) \/ Resume(a)
  PROVE  Inv'
<1> USE DEF Inv
<1>1. heap[a] # Free
  BY DEF Throw, Returned, Passed, Land, Resume, HeldIsLive
<1>2. UNCHANGED <<heap, fate>>
  BY DEF Throw, Returned, Passed, Land, Resume, Drops
<1>3. \A b \in Addresses \ {a} : holder'[b] = holder[b] /\ call'[b] = call[b]
  BY DEF Throw, Returned, Passed, Land, Resume, Hand, TypeOK
<1>4. /\ holder'[a] # "nobody"
      /\ call'[a] # "none" => holder'[a] = "unwinder"
      /\ call'[a] \in {"raise", "start"} => call[a] \in {"raise", "start"}
  <2>1. CASE Throw(a)
    BY <2>1 DEF Throw, Hand, TypeOK
  <2>2. CASE Returned(a)
    BY <2>2 DEF Returned, Regained, Hand, TypeOK
  <2>3. CASE Passed(a)
    BY <2>3 DEF Passed, TypeOK
  <2>4. CASE Land(a)
    BY <2>4 DEF Land, Hand, TypeOK
  <2>5. CASE Resume(a)
    BY <2>5 DEF Resume, Hand, TypeOK, CallsAreOut
  <2> QED
    BY <2>1, <2>2, <2>3, <2>4, <2>5
<1>5. TypeOK'
  <2>1. CASE Throw(a)
    BY <2>1 DEF Throw, Hand, TypeOK, Calls
  <2>2. CASE Returned(a)
    <3>1. heap[a].maker \in Copies
      BY <2>2 DEF Returned, CallsAreOut
    <3>2. hook' \in {None} \cup ({"LOST", "FOREIGN"} \X Copies)
      BY <2>2, <3>1 DEF Returned, Run, TypeOK
    <3>3. holder' \in [Addresses -> {"nobody", "guard", "unwinder", "pad"}]
      BY <2>2 DEF Returned, Regained, Hand, TypeOK
    <3> QED
      BY <2>2, <3>2, <3>3 DEF Returned, TypeOK
  <2>3. CASE Passed(a)
    BY <2>3 DEF Passed, Drops, TypeOK
  <2>4. CASE Land(a)
    BY <2>4 DEF Land, Hand, TypeOK
  <2>5. CASE Resume(a)
    BY <2>5 DEF Resume, Hand, TypeOK
  <2> QED
    BY <2>1, <2>2, <2>3, <2>4, <2>5
<1> QED
  BY <1>1, <1>2, <1>3, <1>4, <1>5, Moved

\* A release keeps types.
LEMMA ReleasedTypes ==
  ASSUME TypeOK, NEW a \in Addresses, NEW f \in {"given", "dropped"}, Release(a, f),
         UNCHANGED call, hook' \in {None} \cup ({"LOST", "FOREIGN"} \X Copies)
  PROVE  TypeOK'
BY DEF TypeOK, Release, Hand

\* Nothing moves, but a hook may run.
LEMMA OnlyHook ==
  ASSUME Inv, UNCHANGED <<heap, holder, call, fate>>,
         hook' \in {None} \cup ({"LOST", "FOREIGN"} \X Copies)
  PROVE  Inv'
<1> USE DEF Inv
<1>1. TypeOK'
  BY DEF TypeOK
<1>2. (HeldIsLive /\ NothingLeaks /\ CallsAreOut)'
  BY DEF HeldIsLive, NothingLeaks, CallsAreOut
<1>3. OneOwner'
  BY DEF OneOwner, Holds
<1> QED
  BY <1>1, <1>2, <1>3

\* A held object whose call is over is released.
LEMMA ReleasingSteps ==
  ASSUME Inv, NEW a \in Addresses, NEW f \in {"given", "dropped"}, Release(a, f),
         holder[a] \in {"guard", "pad"},
         UNCHANGED call, hook' \in {None} \cup ({"LOST", "FOREIGN"} \X Copies)
  PROVE  Inv'
<1> USE DEF Inv
<1>1. heap[a] # Free /\ call[a] = "none"
  BY DEF HeldIsLive, CallsAreOut
<1>2. TypeOK'
  BY ReleasedTypes
<1> QED
  BY <1>1, <1>2, Released

\* Objects come to their end, or are refused.
LEMMA EndingSteps ==
  ASSUME Inv, NEW a \in Addresses,
         \/ Discard(a) \/ Delete(a) \/ Reclaim(a)
         \/ \E c \in Copies : Take(c, a) \/ Catch(c, a)
  PROVE  Inv'
<1> USE DEF Inv
<1> DEFINE Hooks == {None} \cup ({"LOST", "FOREIGN"} \X Copies)
<1>0. hook \in Hooks
  BY DEF TypeOK
<1>1. CASE Discard(a)
  BY <1>0, <1>1, ReleasingSteps DEF Discard
<1>2. CASE Delete(a)
  <2>1. heap[a] # Free /\ call[a] = "none"
    BY <1>2 DEF Delete, HeldIsLive, CallsAreOut
  <2>2. heap[a].maker \in Copies \cup {"cxx", "bare"}
    BY <2>1, Objects DEF Others
  <2>3. CASE IsRust(a)
    <3>1. UNCHANGED <<heap, holder, call, fate>> /\ hook' = <<"LOST", heap[a].maker>>
      BY <1>2, <2>3, NamesAssumption DEF Delete, Cleanup, Run, IsRust, Others
    <3>2. hook' \in Hooks
      BY <2>3, <3>1 DEF IsRust
    <3> QED
      BY <3>1, <3>2, OnlyHook
  <2>4. CASE ~IsRust(a) /\ heap[a].maker = "cxx"
    <3>1. Release(a, "dropped") /\ UNCHANGED <<hook, call>> /\ holder[a] = "pad"
      BY <1>2, <2>4 DEF Delete, Cleanup
    <3> QED
      BY <1>0, <3>1, ReleasingSteps
  <2>5. CASE ~IsRust(a) /\ heap[a].maker = "bare"
    <3>1. Hand(a, "nobody") /\ UNCHANGED <<heap, fate, hook, call>>
      BY <1>2, <2>5 DEF Delete, Cleanup
    <3>2. \A b \in Addresses \ {a} : holder'[b] = holder[b] /\ call'[b] = call[b]
      BY <3>1 DEF Hand, TypeOK
    <3>3. TypeOK'
      BY <3>1 DEF Hand, TypeOK
    <3>4. call'[a] = "none"
      BY <2>1, <3>1
    <3>5. (HeldIsLive /\ NothingLeaks /\ OneOwner /\ CallsAreOut)'
      BY <2>1, <2>5, <3>1, <3>2, <3>4, Moved
    <3> QED
      BY <3>3, <3>5
  <2> QED
    BY <2>2, <2>3, <2>4, <2>5 DEF IsRust
<1>3. CASE Reclaim(a)
  <2>1. heap[a] # Free /\ heap[a].maker \in Others /\ heap[a].maker \notin Copies
    BY <1>3, NamesAssumption DEF Reclaim, Others
  <2>2. heap[a].payload \notin Payloads
    BY <2>1, Objects
  <2>3. TypeOK'
    BY <1>3 DEF Reclaim, TypeOK
  <2>4. heap'[a] = Free /\ \A b \in Addresses \ {a} : heap'[b] = heap[b]
    BY <1>3 DEF Reclaim, TypeOK
  <2>5. HeldIsLive' /\ NothingLeaks'
    BY <1>3, <2>4 DEF Reclaim, HeldIsLive, NothingLeaks
  <2>6. CallsAreOut'
    BY <1>3, <2>4 DEF Reclaim, CallsAreOut
  <2>7. \A p \in Payloads, b \in Addresses : Holds(b, p)' <=> Holds(b, p)
    BY <2>2, <2>4 DEF Holds
  <2>8. OneOwner'
    BY <1>3, <2>7 DEF Reclaim, OneOwner
  <2> QED
    BY <2>3, <2>5, <2>6, <2>8
<1>4. ASSUME NEW c \in Copies, Take(c, a) PROVE Inv'
  <2>1. CASE Kind(c, a) = "Local"
    BY <1>0, <1>4, <2>1, ReleasingSteps DEF Take, Unbox
  <2>2. CASE Kind(c, a) # "Local"
    BY <1>0, <1>4, <2>2, OnlyHook DEF Take
  <2> QED
    BY <2>1, <2>2
<1>5. ASSUME NEW c \in Copies, Catch(c, a) PROVE Inv'
  <2>1. CASE Kind(c, a) = "Local"
    BY <1>0, <1>5, <2>1, ReleasingSteps DEF Catch, Unbox
  <2>2. CASE Kind(c, a) # "Local"
    <3>1. Refuse(c, a) /\ UNCHANGED call /\ holder[a] = "pad"
      BY <1>5, <2>2 DEF Catch
    <3>2. hook' \in Hooks
      BY <3>1 DEF Refuse, Run
    <3>3. Release(a, "dropped") \/ UNCHANGED <<heap, holder, fate>>
      BY <3>1 DEF Refuse
    <3> QED
      BY <3>1, <3>2, <3>3, ReleasingSteps, OnlyHook
  <2> QED
    BY <2>1, <2>2
<1> QED
  BY <1>1, <1>2, <1>3, <1>4, <1>5

LEMMA InvNext == Inv /\ [Next]_vars => Inv'
<1> SUFFICES ASSUME Inv, [Next]_vars PROVE Inv'
  OBVIOUS
<1>1. CASE UNCHANGED vars
  <2>1. UNCHANGED <<heap, holder, call, fate, hook>>
    BY <1>1 DEF vars
  <2> QED
    BY <2>1, OnlyHook DEF Inv, TypeOK
<1>2. CASE \E a \in Addresses : \E c \in Copies, p \in Payloads, how \in {"raise", "start"} :
             Raise(c, p, a, how)
  BY <1>2, MakingSteps
<1>3. CASE \E a \in Addresses : Alloc(a) \/ RaiseOther(a)
  BY <1>3, MakingSteps
<1>4. CASE \E a \in Addresses :
             Throw(a) \/ Returned(a) \/ Passed(a) \/ Land(a) \/ Resume(a)
  BY <1>4, MovingSteps
<1>5. CASE \E a \in Addresses : Discard(a) \/ Delete(a) \/ Reclaim(a)
  BY <1>5, EndingSteps
<1>6. CASE \E a \in Addresses : \E c \in Copies : Take(c, a) \/ Catch(c, a)
  BY <1>6, EndingSteps
<1>7. CASE Ended
  BY <1>1, <1>7 DEF Ended
<1> QED
  BY <1>1, <1>2, <1>3, <1>4, <1>5, <1>6, <1>7 DEF Next

-----------------------------------------------------------------------------
(***************************************************************************)
(* Objects have their types, and a packet in storage is complete           *)
(* (object.rs:72-91).                                                      *)
(***************************************************************************)
THEOREM TypeCorrect == Spec => []TypeOK
<1>1. Inv => TypeOK
  BY DEF Inv
<1> QED
  BY <1>1, InvInit, InvNext, PTL DEF Spec

(***************************************************************************)
(* A pointer somebody holds names a live object, whatever the order of     *)
(* raises, returns, unwound frames, catches, deletions and reuse of        *)
(* storage (object.rs:45-57, 196-227, desenredo-cxx runtime.rs:130-153).   *)
(***************************************************************************)
THEOREM HeldPointersAreLive == Spec => []HeldIsLive
<1>1. Inv => HeldIsLive
  BY DEF Inv
<1> QED
  BY <1>1, InvInit, InvNext, PTL DEF Spec

(***************************************************************************)
(* An object without a holder is gone, or is one whose producer gave the   *)
(* runtime no way to release it: no order of calls forgets one             *)
(* (object.rs:113-126, 163-179).                                           *)
(***************************************************************************)
THEOREM NothingIsForgotten == Spec => []NothingLeaks
<1>1. Inv => NothingLeaks
  BY DEF Inv
<1> QED
  BY <1>1, InvInit, InvNext, PTL DEF Spec

(***************************************************************************)
(* A payload is in one packet or was given up by it, never in two and      *)
(* never given up twice (object.rs:113-126, 196-227).                      *)
(***************************************************************************)
THEOREM PayloadsHaveOneOwner == Spec => []OneOwner
<1>1. Inv => OneOwner
  BY DEF Inv
<1> QED
  BY <1>1, InvInit, InvNext, PTL DEF Spec

\* A step that looks at an object looks as far as its kind allows.
LEMMA Looks ==
  ASSUME NEW c \in Copies, NEW a \in Addresses, Inv, [Next]_vars, vars' # vars
  PROVE  /\ <<c, "canary", a>> \in reads' => heap[a].maker \in Copies
         /\ <<c, "payload", a>> \in reads' => heap[a].maker = c
<1>1. CASE reads' = {}
  BY <1>1
<1>2. ASSUME NEW d \in Copies, NEW b \in Addresses, Looked(d, b)
      PROVE  /\ <<c, "canary", a>> \in reads' => heap[a].maker \in Copies
             /\ <<c, "payload", a>> \in reads' => heap[a].maker = c
  <2>1. \A f : <<c, f, a>> \in reads' => c = d /\ a = b /\ f \in Fields(Kind(d, b))
    BY <1>2 DEF Looked
  <2>2. /\ "canary" \in Fields(Kind(d, b)) => heap[b].maker \in Copies
        /\ "payload" \in Fields(Kind(d, b)) => heap[b].maker = d
    BY DEF Fields, Kind, IsRust
  <2> QED
    BY <2>1, <2>2
<1>3. \/ reads' = {}
      \/ \E d \in Copies, b \in Addresses : Looked(d, b)
  BY DEF Next, vars, Raise, Alloc, Throw, RaiseOther, Returned, Reclaim, Discard,
         Passed, Land, Resume, Take, Catch, Delete, Ended
<1> QED
  BY <1>1, <1>2, <1>3

(***************************************************************************)
(* No copy reads a packet behind the prefix all copies share, and none     *)
(* reads that of an object without it (object.rs:196-227).                 *)
(***************************************************************************)
THEOREM LayoutsAreRespected == Spec => LayoutsRespected
<1>1. Inv /\ [Next]_vars =>
        [\A c \in Copies, a \in Addresses :
           /\ <<c, "canary", a>> \in reads' => heap[a].maker \in Copies
           /\ <<c, "payload", a>> \in reads' => heap[a].maker = c]_vars
  <2> SUFFICES ASSUME Inv, [Next]_vars, vars' # vars, NEW c \in Copies, NEW a \in Addresses
               PROVE  /\ <<c, "canary", a>> \in reads' => heap[a].maker \in Copies
                      /\ <<c, "payload", a>> \in reads' => heap[a].maker = c
    BY DEF vars
  <2> QED
    BY Looks
<1> QED
  BY <1>1, InvInit, InvNext, PTL DEF Spec, LayoutsRespected
=============================================================================
