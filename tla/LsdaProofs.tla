----------------------------- MODULE LsdaProofs -----------------------------
(* Proofs about LsdaTables: whatever the bytes hold, reading stays inside    *)
(* them and on its side of the end of the type table; and what a compiler    *)
(* wrote is read back, for every word size, encoding, alignment and length.  *)
EXTENDS LsdaTables, TLAPS

-----------------------------------------------------------------------------
(* Alignment.                                                              *)

\* What remains of a division, and the two ways to say that nothing does.
LEMMA Divides ==
  ASSUME NEW x \in Int, NEW y \in Nat \ {0}
  PROVE  x = y * (x \div y) + (x % y) /\ x \div y \in Int /\ x % y \in 0..(y - 1)
<1>1. x = y * (x \div y) + (x % y)
  BY Z3T(40)
<1>2. x \div y \in Int /\ x % y \in 0..(y - 1)
  OBVIOUS
<1> QED
  BY <1>1, <1>2

LEMMA MultipleRemains ==
  ASSUME NEW k \in Int, NEW y \in Nat \ {0}
  PROVE  (k * y) % y = 0
  BY Z3T(40)

\* Padding a position by what its remainder lacks aligns it.
LEMMA PaddedAligns ==
  ASSUME NEW x \in Int, NEW y \in Nat \ {0}
  PROVE  (x + (y - (x % y))) % y = 0
<1> DEFINE k == x \div y
<1>1. k \in Int /\ x % y \in Int /\ x = y * k + (x % y)
  BY Divides
<1>2. x + (y - (x % y)) = (k + 1) * y
  <2> HIDE DEF k
  <2>1. (k + 1) * y = k * y + y /\ k * y = y * k
    BY <1>1
  <2> DEFINE r == x % y
          m == y * k
  <2>2. r \in Int /\ m \in Int /\ x = m + r
    BY <1>1
  <2>3. x + (y - r) = m + y
    <3> HIDE DEF r, m
    <3> QED
      BY <2>2
  <2> QED
    BY <2>1, <2>3
<1>3. ((k + 1) * y) % y = 0
  BY <1>1, MultipleRemains
<1> QED
  BY <1>2, <1>3

\* Multiples of a word less than a word apart are the same.
LEMMA MultiplesAreApart ==
  ASSUME NEW a \in Int, NEW b \in Int, NEW y \in Nat \ {0},
         a % y = 0, b % y = 0, a <= b, b < a + y
  PROVE  a = b
<1> DEFINE i == a \div y
           j == b \div y
<1>1. i \in Int /\ j \in Int /\ a = y * i /\ b = y * j
  <2>1. i \in Int /\ a = y * i + (a % y)
    BY Divides
  <2>2. j \in Int /\ b = y * j + (b % y)
    BY Divides
  <2>3. y * i \in Int /\ y * j \in Int
    BY <2>1, <2>2
  <2> QED
    BY <2>1, <2>2, <2>3
<1> HIDE DEF i, j
<1>2. CASE i < j
  <2>1. i + 1 <= j /\ y * (i + 1) = y * i + y
    BY <1>1, <1>2
  <2>2. y * (i + 1) <= y * j
    BY <2>1, <1>1
  <2> QED
    BY <2>1, <2>2, <1>1
<1>3. CASE j < i
  <2>1. j + 1 <= i /\ y * (j + 1) = y * j + y
    BY <1>1, <1>3
  <2>2. y * (j + 1) <= y * i
    BY <2>1, <1>1
  <2> QED
    BY <2>1, <2>2, <1>1
<1> QED
  BY <1>1, <1>2, <1>3

\* So do multiples whole words away.
LEMMA WholeWordsAway ==
  ASSUME NEW x \in Int, NEW y \in Nat \ {0}, NEW n \in Int, x % y = 0
  PROVE  (x + n * y) % y = 0
<1> DEFINE k == x \div y
<1>1. k \in Int /\ x = y * k + (x % y)
  BY Divides
<1>2. x + n * y = (k + n) * y
  <2> HIDE DEF k
  <2>1. (k + n) * y = k * y + n * y /\ k * y = y * k /\ y * k \in Int
    BY <1>1
  <2> QED
    BY <2>1, <1>1
<1> HIDE DEF k
<1> QED
  BY <1>1, <1>2, MultipleRemains
-----------------------------------------------------------------------------
(* The invariant.                                                          *)

\* What the run was given, and what Init says of it.
Given ==
  /\ lsda \in Lsdas /\ image \in Images /\ damage \in Damages
  /\ TypeOffset >= 0 /\ CallLength >= 0
  /\ Length >= 0 /\ image.origin + Length <= MaxAddress

\* Questions are asked of an accepted header, about types it has; a walk that
\* goes on is behind the end of the type table.
Asked ==
  /\ query.kind # "none" => step = "ready"
  /\ query.kind = "entry" => types # None
  /\ types # None => lsda.typing # Absent
  /\ query.kind = "filter" /\ query.end = "open" => types # None /\ query.position >= types
  /\ query.kind = "filter" =>
       /\ query.index \in Indices
       /\ query = Walk(query.index, query.position, query.items, query.end)

\* How far the header of an undamaged LSDA is understood.
Landed ==
  landing = IF lsda.landing = Absent THEN image.function ELSE lsda.pads
Typed == types = IF lsda.typing = Absent THEN None ELSE EntriesEnd
Course ==
  WellFormed =>
    /\ step \in {"landing", "types", "calls", "ready"}
    /\ step \in {"landing", "types"} => types = None
    /\ step = "types" => at = TypesAt /\ Landed
    /\ step = "calls" => at = CallsAt /\ Landed /\ Typed
    /\ step = "ready" => actions = ActionsAt /\ Landed /\ Typed

\* What a walk has read is its list, which has not ended.
Listed ==
  query.kind = "filter" /\ WellFormed /\ query.index \in DOMAIN lsda.filters =>
    /\ query.end \in {"open", "complete"}
    /\ query.items \in Seq(Nat)
    /\ query.index + Len(query.items) <= Len(lsda.filters)
    /\ \A k \in 1..Len(query.items) : query.items[k] = lsda.filters[query.index + k - 1]
    /\ query.end = "open" => query.position = EntriesEnd + query.index - 1 + Len(query.items)
    /\ query.end = "complete" => lsda.filters[query.index + Len(query.items)] = 0

Inv == Given /\ TypeOK /\ Asked /\ Course /\ EntriesDecode /\ SidesKept /\ Listed

-----------------------------------------------------------------------------
(* The layout.                                                             *)

LEMMA GivenTypes ==
  ASSUME Given
  PROVE  /\ MaxAddress \in Nat /\ Word \in Nat \ {0}
         /\ lsda \in Lsda /\ image \in Bases
         /\ damage \in [types : Int, calls : Int, cut : Nat]
BY SizesAssumption, LsdasAssumption, ImagesAssumption, DamagesAssumption DEF Given

LEMMA Widths ==
  ASSUME NEW e \in Encoding
  PROVE  Width(e) \in Nat \ {0}
BY SizesAssumption DEF Width, Encoding, Formats

\* Encodings have an application; what is not absent has an encoding.
LEMMA Encoded ==
  ASSUME Given
  PROVE  /\ lsda.landing # Absent => lsda.landing \in Encoding
         /\ lsda.typing # Absent => lsda.typing \in Encoding
BY GivenTypes DEF Lsda

\* The reader finds the slot that was laid out.
LEMMA SlotIsRead ==
  ASSUME Given, NEW p \in Nat, NEW e \in Encoding
  PROVE  /\ Slot(p, e) = Field(p, e)
         /\ Field(p, e) \in Nat /\ Field(p, e) >= p
         /\ e.application = "ALIGN" => (image.origin + Slot(p, e)) % Word = 0
<1>1. CASE e.application # "ALIGN"
  BY <1>1 DEF Slot, Field
<1>2. CASE e.application = "ALIGN"
  <2> DEFINE r == (image.origin + p) % Word
             IsSlot(q) == (image.origin + q) % Word = 0
             Window == p..(p + Word - 1)
  <2>1. /\ image.origin \in Nat /\ Word \in Nat \ {0}
        /\ image.origin + p \in Nat
    BY GivenTypes DEF Bases
  <2>2. r \in 0..(Word - 1)
    <3> DEFINE x == image.origin + p
    <3>1. x \in Int
      BY <2>1
    <3> HIDE DEF x
    <3>2. x % Word \in 0..(Word - 1)
      BY <3>1, <2>1, Divides
    <3> QED
      BY <3>2 DEF x
  <2>3. Aligned(p) \in Window /\ IsSlot(Aligned(p))
    <3>1. CASE r = 0
      BY <3>1, <2>1 DEF Aligned
    <3>2. CASE r # 0
      <4>1. (image.origin + p + (Word - r)) % Word = 0
        BY <2>1, PaddedAligns
      <4>2. Aligned(p) = p + (Word - r)
        BY <3>2 DEF Aligned
      <4> HIDE DEF r
      <4>3. image.origin + Aligned(p) = image.origin + p + (Word - r)
        BY <4>2, <2>1, <2>2
      <4> QED
        BY <4>1, <4>2, <4>3, <3>2, <2>1, <2>2
    <3> QED
      BY <3>1, <3>2
  <2>4. ASSUME NEW q \in Window, IsSlot(q), NEW t \in Window, IsSlot(t)
        PROVE  q = t
    <3> DEFINE a == image.origin + q
               b == image.origin + t
    <3>1. /\ q \in Int /\ t \in Int /\ a \in Int /\ b \in Int
          /\ a < b + Word /\ b < a + Word
      BY <2>1
    <3>2. a % Word = 0 /\ b % Word = 0
      BY <2>4
    <3>3. a = b
      <4> HIDE DEF a, b
      <4>1. CASE a <= b
        BY <4>1, <3>1, <3>2, <2>1, MultiplesAreApart
      <4>2. CASE b <= a
        BY <4>2, <3>1, <3>2, <2>1, MultiplesAreApart
      <4> QED
        BY <4>1, <4>2, <3>1
    <3> QED
      BY <3>1, <3>3, <2>1
  <2>5. Slot(p, e) = CHOOSE q \in Window : IsSlot(q)
    BY <1>2 DEF Slot
  <2>6. Slot(p, e) \in Window /\ IsSlot(Slot(p, e))
    <3> HIDE DEF Window, IsSlot
    <3> QED
      BY <2>3, <2>5
  <2>7. Slot(p, e) = Aligned(p)
    <3> HIDE DEF Window, IsSlot
    <3> QED
      BY <2>3, <2>4, <2>6
  <2> QED
    BY <1>2, <2>1, <2>3, <2>6, <2>7 DEF Field
<1> QED
  BY <1>1, <1>2

\* Where the parts are, in their order.
LEMMA Layout ==
  ASSUME Given
  PROVE  /\ TypesAt \in Nat /\ TypesAt >= 1
         /\ lsda.landing = Absent => TypesAt = 1
         /\ lsda.landing # Absent =>
              TypesAt = Field(1, lsda.landing) + Width(lsda.landing)
         /\ CallsAt \in Nat
         /\ CallsAt = TypesAt + (IF lsda.typing = Absent THEN 1 ELSE 2)
         /\ ActionsAt \in Nat /\ ActionsAt = CallsAt + 2 + lsda.calls
         /\ EntriesAt \in Nat /\ EntriesAt >= ActionsAt
         /\ EntriesEnd \in Nat /\ EntriesEnd >= EntriesAt
         /\ Length \in Nat
<1>1. lsda.calls \in Nat /\ lsda.actions \in Nat /\ damage.cut \in Nat
      /\ Len(lsda.targets) \in Nat /\ Len(lsda.filters) \in Nat
  BY GivenTypes DEF Lsda
<1>2. /\ TypesAt \in Nat /\ TypesAt >= 1
      /\ lsda.landing = Absent => TypesAt = 1
      /\ lsda.landing # Absent => TypesAt = Field(1, lsda.landing) + Width(lsda.landing)
  <2>1. CASE lsda.landing = Absent
    BY <2>1 DEF TypesAt, Behind
  <2>2. CASE lsda.landing # Absent
    <3>1. lsda.landing \in Encoding
      BY <2>2, Encoded
    <3>2. /\ Slot(1, lsda.landing) = Field(1, lsda.landing)
          /\ Field(1, lsda.landing) \in Nat /\ Width(lsda.landing) \in Nat
      BY <3>1, SlotIsRead, Widths
    <3>3. Field(1, lsda.landing) >= 1
      BY <3>1, SlotIsRead
    <3> QED
      BY <2>2, <3>2, <3>3 DEF TypesAt, Behind
  <2> QED
    BY <2>1, <2>2
<1>3. CallsAt \in Nat /\ CallsAt = TypesAt + (IF lsda.typing = Absent THEN 1 ELSE 2)
  BY <1>2 DEF CallsAt
<1>4. ActionsAt \in Nat /\ ActionsAt = CallsAt + 2 + lsda.calls
  BY <1>1, <1>3 DEF ActionsAt
<1>5. /\ EntriesAt \in Nat /\ EntriesAt >= ActionsAt
      /\ EntriesEnd \in Nat /\ EntriesEnd >= EntriesAt
  <2> DEFINE start == ActionsAt + lsda.actions
             size == Len(lsda.targets) * Width(lsda.typing)
  <2>1. start \in Nat /\ start >= ActionsAt
    BY <1>1, <1>4
  <2>2. CASE lsda.typing = Absent
    BY <2>1, <2>2 DEF EntriesAt, EntriesEnd
  <2>3. CASE lsda.typing # Absent
    <3>1. lsda.typing \in Encoding
      BY <2>3, Encoded
    <3>2. Width(lsda.typing) \in Nat
      BY <3>1, Widths
    <3>3. size \in Nat
      BY <1>1, <3>2
    <3> HIDE DEF start, size
    <3>4. Slot(start, lsda.typing) \in Nat /\ Slot(start, lsda.typing) >= start
      BY <2>1, <3>1, SlotIsRead
    <3>5. EntriesAt = Slot(start, lsda.typing) /\ EntriesEnd = EntriesAt + size
      BY <2>3 DEF EntriesAt, EntriesEnd, start, size
    <3> QED
      BY <1>4, <2>1, <3>3, <3>4, <3>5
  <2> QED
    BY <2>2, <2>3
<1>6. Length \in Nat
  BY <1>1, <1>5 DEF Length, Given
<1> QED
  BY <1>2, <1>3, <1>4, <1>5, <1>6

\* Undamaged, all of it is there and the header's lengths are right.
LEMMA Undamaged ==
  ASSUME Given, WellFormed
  PROVE  /\ Len(lsda.filters) \in Nat /\ Length = EntriesEnd + Len(lsda.filters)
         /\ TypesAt + 2 + TypeOffset = EntriesEnd
         /\ CallLength = lsda.calls
         /\ TypesAt < CallsAt /\ CallsAt + 2 <= ActionsAt
         /\ ActionsAt <= EntriesEnd /\ EntriesEnd <= Length
<1>1. /\ lsda.calls \in Nat /\ Len(lsda.filters) \in Nat
      /\ EntriesEnd \in Nat /\ TypesAt \in Nat
  BY GivenTypes, Layout DEF Lsda
<1>2. /\ Length = EntriesEnd + Len(lsda.filters)
      /\ TypesAt + 2 + TypeOffset = EntriesEnd
      /\ CallLength = lsda.calls
  BY <1>1 DEF WellFormed, Length, TypeOffset, CallLength
<1>3. /\ TypesAt \in Nat /\ CallsAt \in Nat /\ ActionsAt \in Nat /\ EntriesAt \in Nat
      /\ CallsAt = TypesAt + (IF lsda.typing = Absent THEN 1 ELSE 2)
      /\ ActionsAt = CallsAt + 2 + lsda.calls
      /\ EntriesAt >= ActionsAt /\ EntriesEnd \in Nat /\ EntriesEnd >= EntriesAt
  BY Layout
<1>4. TypesAt < CallsAt
  BY <1>3
<1>5. CallsAt + 2 <= ActionsAt
  BY <1>1, <1>3
<1>6. ActionsAt <= EntriesEnd
  BY <1>3
<1>7. EntriesEnd <= Length
  BY <1>1, <1>2
<1> QED
  BY <1>1, <1>2, <1>4, <1>5, <1>6, <1>7

\* An encoding a compiler uses measures from where the ABI says, which is an
\* address if the field is in the bytes.
LEMMA BaseIsThere ==
  ASSUME Given, NEW e \in Encoding, Valid(e), Based(e), NEW f \in 0..Length
  PROVE  Base(f, e) = Relative(f, e) /\ Base(f, e) \in 0..MaxAddress
<1>1. /\ MaxAddress \in Nat /\ Length \in Nat /\ image.origin + Length <= MaxAddress
      /\ image.origin \in 0..MaxAddress /\ image.function \in 0..MaxAddress
      /\ image.text \in 0..MaxAddress \cup {None}
      /\ image.data \in 0..MaxAddress \cup {None}
  BY GivenTypes, Layout DEF Given, Bases
<1>2. image.origin + f \in 0..MaxAddress
  BY <1>1
<1>3. CASE e.application \in {"ABS", "ALIGN"}
  BY <1>1, <1>3 DEF Base, Relative
<1>4. CASE e.application = "PC"
  BY <1>2, <1>4 DEF Base, Relative
<1>5. CASE e.application = "TEXT"
  BY <1>1, <1>5 DEF Base, Relative, Based
<1>6. CASE e.application = "DATA"
  BY <1>1, <1>6 DEF Base, Relative, Based
<1>7. CASE e.application = "FUNC"
  BY <1>1, <1>7 DEF Base, Relative
<1>8. e.application \in {"ABS", "ALIGN", "PC", "TEXT", "DATA", "FUNC"}
  BY DEF Valid, Encoding, Applications
<1> QED
  BY <1>3, <1>4, <1>5, <1>6, <1>7, <1>8

\* What was written there is read back.
LEMMA ReadsBack ==
  ASSUME Given, NEW e \in Encoding, Valid(e), Based(e),
         NEW p, NEW address \in 0..MaxAddress,
         Field(p, e) \in Nat, Field(p, e) + Width(e) <= Length,
         Stored(Field(p, e), e) = {Value(Field(p, e), e, address)}
  PROVE  Pointer(p, e) =
           {[error |-> "",
             address |-> IF address # 0 THEN address ELSE Relative(Field(p, e), e),
             indirect |-> e.indirect, rest |-> Field(p, e) + Width(e)]}
<1> DEFINE f == Field(p, e)
<1>1. Width(e) \in Nat \ {0} /\ Length \in Nat /\ MaxAddress \in Nat
  BY Widths, Layout, GivenTypes
<1>2. f \in 0..Length
  <2> HIDE DEF f
  <2>1. f \in Nat /\ f + Width(e) <= Length
    BY DEF f
  <2> QED
    BY <1>1, <2>1
<1>3. Base(f, e) = Relative(f, e) /\ Base(f, e) \in 0..MaxAddress
  <2> HIDE DEF f
  <2> QED
    BY <1>2, BaseIsThere
<1>4. Base(f, e) # None
  BY <1>1, <1>3 DEF None
<1>5. /\ Base(f, e) + Value(f, e, address) \in 0..MaxAddress
      /\ Base(f, e) + Value(f, e, address) = IF address # 0 THEN address ELSE Relative(f, e)
  <2> HIDE DEF f
  <2> QED
    BY <1>1, <1>3 DEF Value
<1>6. Pointer(p, e) = {Decoded(f, e, value) : value \in Stored(f, e)}
  <2>1. f + Width(e) <= Length /\ ~(f + Width(e) > Length)
    <3> HIDE DEF f
    <3>1. f \in Nat /\ f + Width(e) <= Length
      BY DEF f
    <3> QED
      BY <1>1, <3>1
  <2> QED
    BY <1>4, <2>1 DEF Pointer
<1>7. Pointer(p, e) = {Decoded(f, e, Value(f, e, address))}
  BY <1>6
<1> QED
  BY <1>5, <1>7 DEF Decoded

\* What reading a pointer can give.
LEMMA PointerTyped ==
  ASSUME Given, NEW e \in Encoding, NEW p \in Nat, NEW target \in Pointer(p, e)
  PROVE  /\ target.error \in {"", "Encoding", "Eof", "Base", "Overflow"}
         /\ target.error = "" => /\ target \in Target
                                 /\ target.rest \in p..Length
<1> DEFINE f == Field(p, e)
<1>1. f \in Nat /\ f >= p /\ Width(e) \in Nat /\ Length \in Nat /\ e.indirect \in BOOLEAN
  BY SlotIsRead, Widths, Layout DEF Encoding
<1>2. \/ \E error \in {"Encoding", "Eof", "Base"} : target = Failed(error)
      \/ f + Width(e) <= Length /\ \E value \in Stored(f, e) : target = Decoded(f, e, value)
  <2> HIDE DEF f
  <2> QED
    BY <1>1 DEF Pointer, f
<1>3. CASE \E error \in {"Encoding", "Eof", "Base"} : target = Failed(error)
  <2>1. PICK error \in {"Encoding", "Eof", "Base"} : target = Failed(error)
    BY <1>3
  <2>2. target.error = error
    BY <2>1 DEF Failed
  <2>3. target.error # ""
    BY <2>2
  <2> QED
    BY <2>2, <2>3
<1>4. CASE f + Width(e) <= Length /\ \E value \in Stored(f, e) : target = Decoded(f, e, value)
  <2> HIDE DEF f
  <2>1. PICK value \in Stored(f, e) : target = Decoded(f, e, value)
    BY <1>4
  <2>2. CASE Base(f, e) + value \notin 0..MaxAddress
    BY <2>1, <2>2 DEF Decoded, Failed
  <2>3. CASE Base(f, e) + value \in 0..MaxAddress
    <3>1. target = [error |-> "", address |-> Base(f, e) + value,
                    indirect |-> e.indirect, rest |-> f + Width(e)]
      BY <2>1, <2>3 DEF Decoded
    <3>2. f + Width(e) \in p..Length /\ f + Width(e) \in Nat
      BY <1>1, <1>4
    <3> QED
      BY <1>1, <2>3, <3>1, <3>2 DEF Target
  <2> QED
    BY <2>2, <2>3
<1> QED
  BY <1>2, <1>3, <1>4

-----------------------------------------------------------------------------
(* The header.                                                             *)

\* Nothing in what was given moves.
LEMMA GivenStays ==
  ASSUME Given, given' = given
  PROVE  /\ Given' /\ WellFormed' = WellFormed
         /\ lsda' = lsda /\ image' = image /\ damage' = damage
         /\ TypesAt' = TypesAt /\ CallsAt' = CallsAt /\ ActionsAt' = ActionsAt
         /\ EntriesEnd' = EntriesEnd /\ Length' = Length
         /\ \A f, e : Relative(f, e)' = Relative(f, e)
         /\ \A i : EntryAt(i)' = EntryAt(i)
<1>1. lsda' = lsda /\ image' = image /\ damage' = damage
  BY DEF given
<1>2. \A p, e : Slot(p, e)' = Slot(p, e)
  BY <1>1 DEF Slot
<1>3. TypesAt' = TypesAt
  BY <1>1, <1>2 DEF TypesAt, Behind
<1>4. CallsAt' = CallsAt
  BY <1>1, <1>3 DEF CallsAt
<1>5. ActionsAt' = ActionsAt
  BY <1>1, <1>4 DEF ActionsAt
<1>6. EntriesAt' = EntriesAt
  BY <1>1, <1>2, <1>5 DEF EntriesAt
<1>7. EntriesEnd' = EntriesEnd
  BY <1>1, <1>6 DEF EntriesEnd
<1>8. Length' = Length
  BY <1>1, <1>7 DEF Length
<1>9. TypeOffset' = TypeOffset /\ CallLength' = CallLength
  BY <1>1, <1>3, <1>7 DEF TypeOffset, CallLength
<1>10. /\ \A f, e : Relative(f, e)' = Relative(f, e)
       /\ \A i : EntryAt(i)' = EntryAt(i)
  BY <1>1, <1>7 DEF Relative, EntryAt
<1>11. WellFormed' = WellFormed
  BY <1>1 DEF WellFormed, Based, Base
<1> QED
  BY <1>1, <1>3, <1>4, <1>5, <1>7, <1>8, <1>9, <1>10, <1>11 DEF Given

\* While the header is read there is no query to speak of.
LEMMA NoQueryYet ==
  ASSUME Inv, step # "ready", given' = given, query' = query,
         types' = types \/ lsda.typing # Absent
  PROVE  /\ Given' /\ Asked' /\ EntriesDecode' /\ SidesKept' /\ Listed'
         /\ query'.kind = "none"
<1>1. Given' /\ query'.kind = "none" /\ lsda' = lsda
  BY GivenStays DEF Inv, Asked, TypeOK
<1>2. Asked'
  BY <1>1 DEF Inv, Asked
<1> QED
  BY <1>1, <1>2 DEF EntriesDecode, SidesKept, Listed

\* Damage is reported, and only damage.
LEMMA RefuseKeeps ==
  ASSUME Inv, step # "ready", Refuse(step'), ~WellFormed,
         step' \in {"Eof", "Encoding", "Base", "Overflow", "Table"}
  PROVE  Inv'
<1>1. /\ given' = given /\ at' = at /\ landing' = landing /\ types' = types
      /\ actions' = actions /\ query' = query
  BY DEF Refuse
<1>2. /\ Given' /\ Asked' /\ EntriesDecode' /\ SidesKept' /\ Listed'
      /\ query'.kind = "none"
  BY <1>1, NoQueryYet
<1>3. Length' = Length /\ WellFormed' = WellFormed
  BY <1>1, GivenStays DEF Inv
<1>4. TypeOK'
  BY <1>1, <1>2, <1>3 DEF Inv, TypeOK, Given
<1> QED
  BY <1>2, <1>3, <1>4 DEF Inv, Course

LEMMA LandingKeeps ==
  ASSUME Inv, NoLanding \/ Landing
  PROVE  Inv'
<1> USE DEF Inv
<1>1. CASE NoLanding
  <2>1. /\ step = "landing" /\ Length >= 1 /\ lsda.landing = Absent
        /\ landing' = image.function /\ step' = "types" /\ at' = 1
        /\ given' = given /\ query' = query /\ types' = types /\ actions' = actions
    BY <1>1 DEF NoLanding, Proceed
  <2>2. /\ Given' /\ Asked' /\ EntriesDecode' /\ SidesKept' /\ Listed'
        /\ query'.kind = "none"
    BY <2>1, NoQueryYet
  <2>3. /\ Length' = Length /\ WellFormed' = WellFormed /\ TypesAt' = TypesAt
        /\ lsda' = lsda /\ image' = image /\ Length \in Nat
        /\ image.function \in 0..MaxAddress
    BY <2>1, GivenStays, Layout, GivenTypes DEF Bases
  <2>4. TypeOK'
    BY <2>1, <2>2, <2>3 DEF TypeOK, Given
  <2>5. Course'
    BY <2>1, <2>3, Layout DEF Course, Landed
  <2> QED
    BY <2>2, <2>4, <2>5
<1>2. CASE Landing
  <2> DEFINE e == lsda.landing
  <2>1. step = "landing" /\ Length >= 1 /\ e # Absent /\ e \in Encoding
    BY <1>2, Encoded DEF Landing
  <2>2. PICK target \in Pointer(1, e) :
          IF target.error # "" THEN Refuse(target.error)
          ELSE IF target.indirect THEN Refuse("Encoding")
          ELSE /\ landing' = target.address
               /\ Proceed("types", target.rest) /\ UNCHANGED <<types, actions>>
    BY <1>2 DEF Landing
  <2>3. /\ target.error \in {"", "Encoding", "Eof", "Base", "Overflow"}
        /\ target.error = "" => target \in Target /\ target.rest \in 1..Length
    <3> HIDE DEF e
    <3> QED
      BY <2>1, PointerTyped
  <2>4. WellFormed => /\ target.error = "" /\ ~target.indirect
                      /\ target.address = lsda.pads /\ target.rest = TypesAt
    <3> SUFFICES ASSUME WellFormed
                 PROVE  /\ target.error = "" /\ ~target.indirect
                        /\ target.address = lsda.pads /\ target.rest = TypesAt
      OBVIOUS
    <3>1. Valid(e) /\ Based(e) /\ ~e.indirect
      BY <2>1 DEF WellFormed
    <3>2. /\ lsda.pads \in 0..MaxAddress /\ lsda.pads # 0
      BY GivenTypes DEF Lsda
    <3>3. Field(1, e) \in Nat /\ Field(1, e) + Width(e) <= Length
      <4>1. TypesAt = Field(1, e) + Width(e)
        BY <2>1, Layout
      <4>2. Field(1, e) \in Nat
        BY <2>1, SlotIsRead
      <4>3. TypesAt <= Length
        BY Layout, Undamaged
      <4> QED
        BY <4>1, <4>2, <4>3
    <3>4. Stored(Field(1, e), e) = {Value(Field(1, e), e, lsda.pads)}
      BY <2>1 DEF Stored
    <3>5. Pointer(1, e) = {[error |-> "",
                            address |-> IF lsda.pads # 0 THEN lsda.pads
                                        ELSE Relative(Field(1, e), e),
                            indirect |-> e.indirect, rest |-> Field(1, e) + Width(e)]}
      <4>1. Given /\ lsda.pads \in 0..MaxAddress
        BY <3>2
      <4>2. e \in Encoding
        BY <2>1
      <4> HIDE DEF e, Inv
      <4> QED
        BY <3>1, <3>3, <3>4, <4>1, <4>2, ReadsBack
    <3>6. TypesAt = Field(1, e) + Width(e)
      BY <2>1, Layout
    <3>7. target = [error |-> "", address |-> lsda.pads,
                    indirect |-> FALSE, rest |-> TypesAt]
      <4>1. e.indirect = FALSE
        BY <2>1, <3>1 DEF Encoding
      <4> QED
        BY <3>2, <3>5, <3>6, <4>1
    <3> QED
      BY <3>7
  <2>5. CASE target.error # ""
    BY <2>1, <2>2, <2>3, <2>4, <2>5, RefuseKeeps DEF Refuse
  <2>6. CASE target.error = "" /\ target.indirect
    BY <2>1, <2>2, <2>4, <2>6, RefuseKeeps DEF Refuse
  <2>7. CASE target.error = "" /\ ~target.indirect
    <3>1. /\ landing' = target.address /\ step' = "types" /\ at' = target.rest
          /\ given' = given /\ query' = query /\ types' = types /\ actions' = actions
      BY <2>2, <2>7 DEF Proceed
    <3>2. /\ Given' /\ Asked' /\ EntriesDecode' /\ SidesKept' /\ Listed'
          /\ query'.kind = "none"
      BY <2>1, <3>1, NoQueryYet
    <3>3. /\ Length' = Length /\ WellFormed' = WellFormed /\ TypesAt' = TypesAt
          /\ lsda' = lsda /\ image' = image /\ Length \in Nat
      BY <3>1, GivenStays, Layout
    <3>4. target.address \in 0..MaxAddress /\ target.rest \in 0..Length
      <4>1. target \in Target /\ target.rest \in 1..Length
        BY <2>3, <2>7
      <4> HIDE DEF Inv
      <4>2. target.address \in 0..MaxAddress
        BY <4>1 DEF Target
      <4>3. target.rest \in 0..Length
        BY <4>1, <3>3
      <4> QED
        BY <4>2, <4>3
    <3>5. TypeOK'
      BY <3>1, <3>2, <3>3, <3>4 DEF TypeOK, Given
    <3>6. Course'
      BY <2>1, <2>4, <3>1, <3>3 DEF Course, Landed
    <3> QED
      BY <3>2, <3>5, <3>6
  <2> QED
    BY <2>5, <2>6, <2>7
<1> QED
  BY <1>1, <1>2

LEMMA TypesKeeps ==
  ASSUME Inv, NoTypes \/ Types
  PROVE  Inv'
<1>1. Given /\ TypeOK /\ Asked /\ Course
  BY DEF Inv
<1>2. /\ step = "types" /\ given' = given /\ query' = query /\ landing' = landing
      /\ actions' = actions
  BY DEF NoTypes, Types, Proceed, Refuse
<1>3. /\ Length' = Length /\ WellFormed' = WellFormed /\ CallsAt' = CallsAt
      /\ EntriesEnd' = EntriesEnd /\ lsda' = lsda /\ image' = image
      /\ Length \in Nat /\ at \in 0..Length
  BY <1>1, <1>2, GivenStays, Layout DEF TypeOK
<1>4. WellFormed => /\ at = TypesAt /\ Landed /\ types = None
                    /\ TypesAt + 2 + TypeOffset = EntriesEnd /\ TypesAt < CallsAt
                    /\ CallsAt = TypesAt + (IF lsda.typing = Absent THEN 1 ELSE 2)
                    /\ EntriesEnd <= Length
  BY <1>1, <1>2, Undamaged, Layout DEF Course
<1>5. CASE NoTypes
  <2>1. /\ lsda.typing = Absent /\ Length > at /\ step' = "calls" /\ at' = at + 1
        /\ types' = types
    BY <1>5 DEF NoTypes, Proceed
  <2>2. /\ Given' /\ Asked' /\ EntriesDecode' /\ SidesKept' /\ Listed'
        /\ query'.kind = "none"
    BY <1>2, <2>1, NoQueryYet
  <2>3. at + 1 \in 0..Length
    BY <1>3, <2>1
  <2>4. TypeOK'
    BY <1>1, <1>2, <1>3, <2>1, <2>2, <2>3 DEF TypeOK, Given
  <2>5. Course'
    BY <1>2, <1>3, <1>4, <2>1 DEF Course, Landed, Typed
  <2> QED
    BY <2>2, <2>4, <2>5 DEF Inv
<1>6. CASE Types
  <2> DEFINE end == at + 2 + TypeOffset
  <2>1. /\ lsda.typing # Absent /\ Length > at + 1
        /\ IF ~Valid(lsda.typing) THEN Refuse("Encoding")
           ELSE IF ~Within(end) THEN Refuse("Table")
           ELSE /\ types' = end
                /\ Proceed("calls", at + 2) /\ UNCHANGED <<landing, actions>>
    BY <1>6 DEF Types
  <2>2. TypeOffset \in Int /\ TypeOffset >= 0 /\ end \in Nat
    <3>1. EntriesEnd \in Int /\ TypesAt \in Int /\ damage.types \in Int
      BY <1>1, Layout, GivenTypes
    <3> QED
      BY <1>1, <1>3, <3>1 DEF TypeOffset, Given
  <2>3. WellFormed => Valid(lsda.typing) /\ end = EntriesEnd /\ Within(end)
    BY <1>4, <2>1 DEF WellFormed, Within
  <2>4. CASE ~Valid(lsda.typing)
    BY <1>2, <2>1, <2>3, <2>4, RefuseKeeps DEF Refuse
  <2>5. CASE Valid(lsda.typing) /\ ~Within(end)
    BY <1>2, <2>1, <2>3, <2>5, RefuseKeeps DEF Refuse
  <2>6. CASE Valid(lsda.typing) /\ Within(end)
    <3>1. types' = end /\ step' = "calls" /\ at' = at + 2
      BY <2>1, <2>6 DEF Proceed
    <3>2. /\ Given' /\ Asked' /\ EntriesDecode' /\ SidesKept' /\ Listed'
          /\ query'.kind = "none"
      BY <1>2, <2>1, NoQueryYet
    <3>3. at + 2 \in 0..Length
      BY <1>3, <2>1
    <3>4. end \in 0..Length
      <4> HIDE DEF end
      <4> QED
        BY <1>3, <2>2, <2>6 DEF Within
    <3> HIDE DEF end
    <3>5. TypeOK'
      BY <1>1, <1>2, <1>3, <3>1, <3>2, <3>3, <3>4 DEF TypeOK, Given
    <3>6. Course'
      BY <1>2, <1>3, <1>4, <2>1, <2>3, <3>1 DEF Course, Landed, Typed
    <3> QED
      BY <3>2, <3>5, <3>6 DEF Inv
  <2> QED
    BY <2>4, <2>5, <2>6
<1> QED
  BY <1>5, <1>6

LEMMA CallsKeeps ==
  ASSUME Inv, Calls
  PROVE  Inv'
<1> DEFINE end == at + 2 + CallLength
<1>1. Given /\ TypeOK /\ Asked /\ Course
  BY DEF Inv
<1>2. /\ step = "calls" /\ given' = given /\ query' = query /\ landing' = landing
      /\ types' = types /\ Length > at + 1
      /\ IF end > Length THEN Refuse("Eof")
         ELSE IF ~lsda.callable THEN Refuse("Encoding")
         ELSE /\ actions' = end
              /\ Proceed("ready", end) /\ UNCHANGED <<landing, types>>
  BY DEF Calls, Proceed, Refuse
<1>3. /\ Length' = Length /\ WellFormed' = WellFormed /\ ActionsAt' = ActionsAt
      /\ EntriesEnd' = EntriesEnd /\ lsda' = lsda /\ image' = image
      /\ Length \in Nat /\ at \in 0..Length
  BY <1>1, <1>2, GivenStays, Layout DEF TypeOK
<1>4. end \in Nat
  <2>1. lsda.calls \in Int /\ damage.calls \in Int
    BY <1>1, GivenTypes DEF Lsda
  <2>2. CallLength \in Int /\ CallLength >= 0
    BY <1>1, <2>1 DEF CallLength, Given
  <2> QED
    BY <1>3, <2>2
<1>5. WellFormed => /\ Landed /\ Typed /\ lsda.callable
                    /\ end = ActionsAt /\ ActionsAt <= Length
  <2> SUFFICES ASSUME WellFormed
               PROVE  /\ Landed /\ Typed /\ lsda.callable
                      /\ end = ActionsAt /\ ActionsAt <= Length
    OBVIOUS
  <2>1. Landed /\ Typed /\ at = CallsAt
    BY <1>1, <1>2 DEF Course
  <2>2. CallLength = lsda.calls /\ ActionsAt <= EntriesEnd /\ EntriesEnd <= Length
    BY <1>1, Undamaged
  <2>3. /\ ActionsAt = CallsAt + 2 + lsda.calls /\ ActionsAt \in Nat
        /\ EntriesEnd \in Nat /\ Length \in Nat
    BY <1>1, Layout
  <2> QED
    BY <2>1, <2>2, <2>3 DEF WellFormed
<1> HIDE DEF end
<1>6. CASE end > Length
  <2>1. ~WellFormed
    BY <1>3, <1>4, <1>5, <1>6
  <2> QED
    BY <1>2, <1>6, <2>1, RefuseKeeps DEF Refuse
<1>7. CASE end <= Length /\ ~lsda.callable
  BY <1>2, <1>3, <1>4, <1>5, <1>7, RefuseKeeps DEF Refuse
<1>8. CASE end <= Length /\ lsda.callable
  <2>1. actions' = end /\ step' = "ready" /\ at' = end
    BY <1>2, <1>3, <1>4, <1>8 DEF Proceed
  <2>2. /\ Given' /\ Asked' /\ EntriesDecode' /\ SidesKept' /\ Listed'
        /\ query'.kind = "none"
    BY <1>2, NoQueryYet
  <2>3. end \in 0..Length
    BY <1>3, <1>4, <1>8
  <2>4. TypeOK'
    BY <1>1, <1>2, <1>3, <2>1, <2>2, <2>3 DEF TypeOK, Given
  <2>5. Course'
    BY <1>2, <1>3, <1>5, <2>1 DEF Course, Landed, Typed
  <2> QED
    BY <2>2, <2>4, <2>5 DEF Inv
<1> QED
  BY <1>3, <1>4, <1>6, <1>7, <1>8

\* An undamaged header does not end early.
LEMMA TruncatedKeeps ==
  ASSUME Inv, Truncated
  PROVE  Inv'
<1>1. Given /\ TypeOK /\ Course
  BY DEF Inv
<1>2. /\ step \in {"landing", "types", "calls"} /\ Length < Needed /\ Refuse("Eof")
  BY DEF Truncated
<1>3. ~WellFormed
  <2> SUFFICES ASSUME WellFormed
               PROVE  FALSE
    OBVIOUS
  <2>1. /\ TypesAt \in Nat /\ TypesAt >= 1 /\ CallsAt \in Nat /\ ActionsAt \in Nat
        /\ EntriesEnd \in Nat /\ Length \in Nat
        /\ CallsAt = TypesAt + (IF lsda.typing = Absent THEN 1 ELSE 2)
    BY <1>1, Layout
  <2>2. CallsAt + 2 <= ActionsAt /\ ActionsAt <= EntriesEnd /\ EntriesEnd <= Length
    BY <1>1, Undamaged
  <2>3. CASE step = "landing"
    BY <1>2, <2>1, <2>2, <2>3 DEF Needed
  <2>4. CASE step = "types"
    <3>1. at = TypesAt
      BY <1>1, <2>4 DEF Course
    <3> QED
      BY <1>2, <2>1, <2>2, <2>4, <3>1 DEF Needed
  <2>5. CASE step = "calls"
    <3>1. at = CallsAt
      BY <1>1, <2>5 DEF Course
    <3> QED
      BY <1>2, <2>1, <2>2, <2>5, <3>1 DEF Needed
  <2> QED
    BY <1>2, <2>3, <2>4, <2>5
<1> QED
  BY <1>2, <1>3, RefuseKeeps DEF Refuse

-----------------------------------------------------------------------------
(* Type entries.                                                           *)

\* Entries in front of the end, counted from either side.
LEMMA Backwards ==
  ASSUME NEW n \in Nat, NEW i \in 1..n, NEW w \in Nat \ {0}
  PROVE  /\ i * w \in Nat /\ n * w \in Nat /\ (n - i) * w \in Nat
         /\ n * w = (n - i) * w + i * w
         /\ w <= i * w
         /\ \A j \in 1..n : j * w = i * w => j = i
<1>1. i \in Nat /\ n - i \in Nat /\ i - 1 \in Nat
  OBVIOUS
<1>2. i * w \in Nat /\ n * w \in Nat /\ (n - i) * w \in Nat /\ (i - 1) * w \in Nat
  BY <1>1
<1>3. n * w = (n - i) * w + i * w
  BY <1>1
<1>4. i * w = (i - 1) * w + w
  BY <1>1
<1>5. ASSUME NEW j \in 1..n, j * w = i * w
      PROVE  j = i
  <2>1. j \in Nat
    OBVIOUS
  <2>2. CASE j < i
    <3>1. i - j - 1 \in Nat /\ (i - j - 1) * w \in Nat
      BY <1>1, <2>1, <2>2
    <3>2. i * w = j * w + (i - j - 1) * w + w
      BY <1>1, <2>1
    <3>3. j * w \in Nat
      BY <2>1
    <3> QED
      BY <1>2, <1>5, <3>1, <3>2, <3>3
  <2>3. CASE i < j
    <3>1. j - i - 1 \in Nat /\ (j - i - 1) * w \in Nat
      BY <1>1, <2>1, <2>3
    <3>2. j * w = i * w + (j - i - 1) * w + w
      BY <1>1, <2>1
    <3> QED
      BY <1>2, <1>5, <3>1, <3>2
  <2> QED
    BY <1>1, <2>1, <2>2, <2>3
<1> QED
  BY <1>2, <1>3, <1>4, <1>5

\* Whatever the table's end, what an entry gives was read in front of it.
LEMMA EntryTyped ==
  ASSUME Given, types \in Nat, lsda.typing # Absent,
         NEW i \in Indices, NEW target \in Entry(i)
  PROVE  target.error = "" => target \in Target /\ target.rest <= types
<1> DEFINE e == lsda.typing
           s == Start(i)
           offset == i * Width(e)
<1>1. e \in Encoding /\ Length \in Nat /\ i \in Nat
  BY Encoded, Layout, IndicesAssumption
<1>2. offset \in Nat
  <2>1. Width(e) \in Nat
    BY <1>1, Widths
  <2> QED
    BY <1>1, <2>1
<1>3. s = types - offset
  BY DEF Start
<1>4. s \in Int
  <2> HIDE DEF s, offset
  <2> QED
    BY <1>1, <1>2, <1>3
<1>5. \A error : Failed(error).error = error
  BY DEF Failed
<1>6. \/ \E error \in {"Encoding", "Overflow", "Table"} : target = Failed(error)
      \/ ~(s < 0) /\ target \in {Bounded(x) : x \in Pointer(s, e)}
  BY DEF Entry
<1>7. CASE \E error \in {"Encoding", "Overflow", "Table"} : target = Failed(error)
  <2>1. PICK error \in {"Encoding", "Overflow", "Table"} : target = Failed(error)
    BY <1>7
  <2>2. target.error # ""
    BY <1>5, <2>1
  <2> QED
    BY <2>2
<1>8. CASE ~(s < 0) /\ target \in {Bounded(x) : x \in Pointer(s, e)}
  <2> HIDE DEF e, s
  <2>1. s \in Nat
    BY <1>4, <1>8
  <2>2. PICK x \in Pointer(s, e) : target = Bounded(x)
    BY <1>8
  <2>3. x.error = "" => x \in Target /\ x.rest \in s..Length
    BY <1>1, <2>1, PointerTyped
  <2>4. CASE x.error = "" /\ x.rest > types
    <3>1. target = Failed("Table")
      BY <2>2, <2>4 DEF Bounded
    <3>2. target.error = "Table"
      BY <1>5, <3>1
    <3> QED
      BY <3>2
  <2>5. CASE ~(x.error = "" /\ x.rest > types)
    <3>1. target = x
      BY <2>2, <2>5 DEF Bounded
    <3> DEFINE read == x.error = ""
               rest == x.rest
    <3>2. read => x \in Target /\ rest \in s..Length
      BY <2>3
    <3>3. ~(read /\ rest > types)
      BY <2>5
    <3> HIDE DEF read, rest
    <3>4. read => x \in Target /\ rest <= types
      BY <1>1, <2>1, <3>2, <3>3
    <3> QED
      BY <3>1, <3>4 DEF read, rest
  <2> QED
    BY <2>4, <2>5
<1> QED
  BY <1>6, <1>7, <1>8

\* The entries an undamaged table has are read from where they were written.
LEMMA EntryWhereWritten ==
  ASSUME Given, WellFormed, lsda.typing # Absent, types = EntriesEnd,
         NEW i \in DOMAIN lsda.targets
  PROVE  LET e == lsda.typing
         IN /\ i * Width(e) \in 0..MaxAddress
            /\ Start(i) \in Nat /\ Start(i) = EntryAt(i)
            /\ Field(Start(i), e) = Start(i)
            /\ Start(i) + Width(e) <= EntriesEnd
            /\ \A j \in DOMAIN lsda.targets : EntryAt(j) = EntryAt(i) => j = i
<1> DEFINE e == lsda.typing
           n == Len(lsda.targets)
           w == Width(e)
<1>1. /\ e \in Encoding /\ w \in Nat \ {0} /\ n \in Nat /\ DOMAIN lsda.targets = 1..n
  BY Encoded, Widths, GivenTypes DEF Lsda
<1>2. /\ EntriesAt \in Nat /\ EntriesEnd \in Nat /\ Length \in Nat /\ EntriesEnd <= Length
      /\ MaxAddress \in Nat /\ image.origin \in Nat /\ Word \in Nat \ {0}
      /\ image.origin + Length <= MaxAddress
  BY Layout, Undamaged, GivenTypes DEF Given, Bases
<1>3. EntriesEnd = EntriesAt + n * w
  BY DEF EntriesEnd
<1>4. ActionsAt + lsda.actions \in Nat /\ EntriesAt = Slot(ActionsAt + lsda.actions, e)
  <2>1. ActionsAt \in Nat /\ lsda.actions \in Nat
    BY Layout, GivenTypes DEF Lsda
  <2> QED
    BY <2>1 DEF EntriesAt
<1>5. Start(i) = EntriesEnd - i * w /\ \A j : EntryAt(j) = EntriesEnd - j * w
  BY DEF Start, EntryAt
<1>6. e.application = "ALIGN" => w = Word
  BY <1>1 DEF WellFormed, Width, Encoding, Formats
<1>7. e.application = "ALIGN" => (image.origin + EntriesAt) % Word = 0
  <2> DEFINE p == ActionsAt + lsda.actions
  <2>1. p \in Nat /\ EntriesAt = Slot(p, e)
    BY <1>4
  <2> HIDE DEF p, e
  <2> QED
    BY <1>1, <2>1, SlotIsRead
<1>8. i \in 1..n
  BY <1>1
<1> HIDE DEF e, n, w
<1>9. /\ i * w \in Nat /\ n * w \in Nat /\ (n - i) * w \in Nat
      /\ n * w = (n - i) * w + i * w /\ w <= i * w
      /\ \A j \in 1..n : j * w = i * w => j = i
  BY <1>1, <1>8, Backwards
<1>10. Start(i) = EntriesAt + (n - i) * w /\ Start(i) \in Nat
  BY <1>2, <1>3, <1>5, <1>9
<1>11. /\ i * w \in 0..MaxAddress
       /\ Start(i) + w <= EntriesEnd
  <2> DEFINE offset == i * w
             size == n * w
  <2>1. /\ offset \in Nat /\ size \in Nat /\ offset <= size /\ w <= offset
        /\ Start(i) = EntriesEnd - offset /\ EntriesEnd = EntriesAt + size
    BY <1>3, <1>5, <1>9
  <2> HIDE DEF offset, size
  <2>2. offset \in 0..MaxAddress /\ Start(i) + w <= EntriesEnd
    BY <1>1, <1>2, <2>1
  <2> QED
    BY <2>2 DEF offset
<1>12. Field(Start(i), e) = Start(i)
  <2>1. CASE e.application # "ALIGN"
    BY <2>1 DEF Field
  <2>2. CASE e.application = "ALIGN"
    <3> DEFINE x == image.origin + EntriesAt
               k == n - i
    <3>1. x \in Int /\ x % Word = 0 /\ k \in Int /\ w = Word
      BY <1>1, <1>2, <1>6, <1>7, <1>8, <2>2
    <3>2. image.origin + Start(i) = x + k * w
      BY <1>2, <1>9, <1>10
    <3> HIDE DEF x, k
    <3>3. (x + k * Word) % Word = 0
      BY <1>2, <3>1, WholeWordsAway
    <3> QED
      BY <2>2, <3>1, <3>2, <3>3 DEF Field, Aligned
  <2> QED
    BY <2>1, <2>2
<1>13. \A j \in 1..n : EntryAt(j) = EntryAt(i) => j = i
  <2> SUFFICES ASSUME NEW j \in 1..n, EntryAt(j) = EntryAt(i)
               PROVE  j = i
    OBVIOUS
  <2>1. j \in Nat /\ j * w \in Nat
    BY <1>1
  <2>2. EntriesEnd - j * w = EntriesEnd - i * w
    BY <1>5
  <2>3. j * w = i * w
    <3> DEFINE a == j * w
               b == i * w
    <3>1. a \in Nat /\ b \in Nat /\ EntriesEnd - a = EntriesEnd - b
      BY <2>1, <2>2, <1>9
    <3> HIDE DEF a, b
    <3>2. a = b
      BY <3>1, <1>2
    <3> QED
      BY <3>2 DEF a, b
  <2> QED
    BY <2>3, <1>9
<1> QED
  BY <1>1, <1>5, <1>10, <1>11, <1>12, <1>13 DEF e, w

LEMMA EntryDecodes ==
  ASSUME Given, WellFormed, lsda.typing # Absent, types = EntriesEnd, step # "landing",
         NEW i \in DOMAIN lsda.targets, NEW target \in Entry(i)
  PROVE  LET e == lsda.typing
         IN IF e.format = "LEB" THEN target = Failed("Encoding")
            ELSE /\ target.error = ""
                 /\ target.address = IF lsda.targets[i] # 0 THEN lsda.targets[i]
                                     ELSE Relative(EntryAt(i), e)
<1> DEFINE e == lsda.typing
           s == Start(i)
           w == Width(e)
           address == lsda.targets[i]
<1>1. CASE e.format = "LEB"
  BY <1>1 DEF Entry
<1>2. CASE e.format # "LEB"
  <2>1. /\ e \in Encoding /\ w \in Nat /\ Valid(e) /\ Based(e)
        /\ address \in 0..MaxAddress
    BY Encoded, Widths, GivenTypes DEF WellFormed, Lsda
  <2>2. /\ i * w \in 0..MaxAddress /\ s \in Nat /\ s = EntryAt(i) /\ Field(s, e) = s
        /\ s + w <= EntriesEnd
        /\ \A j \in DOMAIN lsda.targets : EntryAt(j) = EntryAt(i) => j = i
    BY EntryWhereWritten
  <2>3. EntriesEnd <= Length /\ EntriesEnd \in Nat /\ Length \in Nat /\ MaxAddress \in Nat
    BY Layout, Undamaged, GivenTypes
  <2>4. Stored(s, e) = {Value(s, e, address)}
    <3>1. {j \in DOMAIN lsda.targets : EntryAt(j) = s /\ e = lsda.typing} = {i}
      BY <2>2
    <3> QED
      BY <3>1 DEF Stored
  <2>5. target \in {Bounded(x) : x \in Pointer(s, e)}
    <3>1. ~(i * w > MaxAddress) /\ ~(s < 0)
      <4> HIDE DEF s, w
      <4>1. i * w \in 0..MaxAddress
        BY <2>2
      <4> DEFINE product == i * w
      <4> HIDE DEF product
      <4>2. ~(product > MaxAddress)
        BY <4>1, <2>3 DEF product
      <4> QED
        BY <4>2, <2>2 DEF product
    <3> QED
      BY <1>2, <3>1 DEF Entry
  <2> DEFINE read == [error |-> "",
                      address |-> IF address # 0 THEN address ELSE Relative(s, e),
                      indirect |-> e.indirect, rest |-> s + w]
  <2>6. Pointer(s, e) = {read}
    <3>1. Field(s, e) \in Nat /\ Field(s, e) + Width(e) <= Length
      BY <2>1, <2>2, <2>3
    <3>2. Stored(Field(s, e), e) = {Value(Field(s, e), e, address)}
      BY <2>2, <2>4
    <3>3. Pointer(s, e) =
            {[error |-> "",
              address |-> IF address # 0 THEN address ELSE Relative(Field(s, e), e),
              indirect |-> e.indirect, rest |-> Field(s, e) + Width(e)]}
      <4> HIDE DEF s, e, address
      <4> QED
        BY <2>1, <3>1, <3>2, ReadsBack
    <3> QED
      BY <2>2, <3>3
  <2>7. target = read
    <3>1. read.error = "" /\ read.rest = s + w
      OBVIOUS
    <3>2. ~(s + w > types)
      <4> HIDE DEF s, w
      <4> QED
        BY <2>1, <2>2, <2>3
    <3>3. Bounded(read) = read
      BY <3>1, <3>2 DEF Bounded
    <3> HIDE DEF read
    <3> QED
      BY <2>5, <2>6, <3>3
  <2>8. target.error = "" /\ target.address = IF address # 0 THEN address ELSE Relative(s, e)
    BY <2>7
  <2> QED
    BY <1>2, <2>2, <2>8
<1> QED
  BY <1>1, <1>2

-----------------------------------------------------------------------------
(* Queries.                                                                *)

\* A query moves nothing but itself.
LEMMA OnlyTheQuery ==
  ASSUME Inv, UNCHANGED <<given, step, at, landing, types, actions>>
  PROVE  /\ Given' /\ Course' /\ WellFormed' = WellFormed /\ lsda' = lsda
         /\ step' = step /\ types' = types /\ EntriesEnd' = EntriesEnd /\ Length' = Length
         /\ at' \in 0..Length' /\ landing' \in 0..MaxAddress \cup {None}
         /\ types' \in 0..Length' \cup {None} /\ actions' \in 0..Length' \cup {None}
         /\ step' \in {"landing", "types", "calls", "ready",
                       "Eof", "Encoding", "Base", "Overflow", "Table"}
<1>1. /\ given' = given /\ step' = step /\ at' = at /\ landing' = landing
      /\ types' = types /\ actions' = actions
  OBVIOUS
<1>2. Given /\ TypeOK /\ Course
  BY DEF Inv
<1>3. /\ Given' /\ WellFormed' = WellFormed /\ lsda' = lsda /\ image' = image
      /\ TypesAt' = TypesAt /\ CallsAt' = CallsAt /\ ActionsAt' = ActionsAt
      /\ EntriesEnd' = EntriesEnd /\ Length' = Length
  BY <1>1, <1>2, GivenStays
<1>4. Course'
  BY <1>1, <1>2, <1>3 DEF Course, Landed, Typed
<1> QED
  BY <1>1, <1>2, <1>3, <1>4 DEF TypeOK

LEMMA GetKeeps ==
  ASSUME Inv, Get
  PROVE  Inv'
<1>1. Given /\ TypeOK /\ Asked /\ Course
  BY DEF Inv
<1>2. /\ step = "ready" /\ types # None
      /\ UNCHANGED <<given, step, at, landing, types, actions>>
  BY DEF Get
<1>3. PICK i \in Indices : \E t \in Entry(i) :
        query' = [kind |-> "entry", index |-> i, target |-> t]
  BY DEF Get
<1>4. PICK target \in Entry(i) : query' = [kind |-> "entry", index |-> i, target |-> target]
  BY <1>3
<1>5. query'.kind = "entry" /\ query'.index = i /\ query'.target = target
  BY <1>4
<1>6. types \in Nat /\ lsda.typing # Absent
  <2>1. Length \in Nat /\ types \in 0..Length
    BY <1>1, <1>2, Layout DEF TypeOK
  <2> QED
    BY <2>1, <1>1, <1>2 DEF Asked
<1>7. target.error = "" => target \in Target /\ target.rest <= types
  BY <1>1, <1>6, EntryTyped
<1>8. Given' /\ Course' /\ types' = types /\ step' = step /\ lsda' = lsda
  BY <1>2, OnlyTheQuery
<1>9. TypeOK'
  <2>1. query'.kind = "entry" /\ query'.target.error = "" => query'.target \in Target
    BY <1>5, <1>7
  <2> QED
    BY <1>2, <1>5, <2>1, OnlyTheQuery DEF TypeOK, Given
<1>10. Asked'
  BY <1>1, <1>2, <1>5, <1>8 DEF Asked
<1>11. EntriesDecode'
  <2>1. /\ WellFormed' = WellFormed
        /\ \A f, e : Relative(f, e)' = Relative(f, e)
        /\ \A k : EntryAt(k)' = EntryAt(k)
    BY <1>1, <1>2, GivenStays
  <2>2. ASSUME WellFormed, i \in DOMAIN lsda.targets
        PROVE  LET e == lsda.typing
               IN IF e.format = "LEB" THEN target = Failed("Encoding")
                  ELSE /\ target.error = ""
                       /\ target.address = IF lsda.targets[i] # 0 THEN lsda.targets[i]
                                           ELSE Relative(EntryAt(i), e)
    <3>1. types = EntriesEnd
      BY <1>1, <1>2, <1>6, <2>2 DEF Course, Typed
    <3> QED
      BY <1>1, <1>2, <1>6, <2>2, <3>1, EntryDecodes
  <2> QED
    BY <1>5, <1>8, <2>1, <2>2 DEF EntriesDecode, Failed
<1>12. SidesKept' /\ Listed'
  BY <1>5, <1>7, <1>8 DEF SidesKept, Listed
<1> QED
  BY <1>8, <1>9, <1>10, <1>11, <1>12 DEF Inv

\* The fields of a walk.
LEMMA WalkFields ==
  ASSUME NEW i, NEW p, NEW items, NEW end
  PROVE  LET w == Walk(i, p, items, end)
         IN /\ w.kind = "filter" /\ w.index = i /\ w.position = p
            /\ w.items = items /\ w.end = end
            /\ w = Walk(w.index, w.position, w.items, w.end)
BY DEF Walk

\* What remains to be shown of a step that leaves a walk w.
LEMMA WalkKeeps ==
  ASSUME Inv, step = "ready", UNCHANGED <<given, step, at, landing, types, actions>>,
         NEW i \in Indices, NEW p \in 0..Length, NEW items, NEW end,
         query' = Walk(i, p, items, end),
         p # 0 => p >= types,
         end = "open" => types # None /\ p >= types,
         WellFormed /\ i \in DOMAIN lsda.filters =>
           /\ end \in {"open", "complete"}
           /\ items \in Seq(Nat)
           /\ i + Len(items) <= Len(lsda.filters)
           /\ \A k \in 1..Len(items) : items[k] = lsda.filters[i + k - 1]
           /\ end = "open" => p = EntriesEnd + i - 1 + Len(items)
           /\ end = "complete" => lsda.filters[i + Len(items)] = 0
  PROVE  Inv'
<1>1. /\ query'.kind = "filter" /\ query'.index = i /\ query'.position = p
      /\ query'.items = items /\ query'.end = end
      /\ query' = Walk(query'.index, query'.position, query'.items, query'.end)
  BY WalkFields
<1>2. /\ Given' /\ Course' /\ WellFormed' = WellFormed /\ lsda' = lsda
      /\ step' = step /\ types' = types /\ EntriesEnd' = EntriesEnd /\ Length' = Length
  BY OnlyTheQuery
<1>3. TypeOK'
  BY <1>1, <1>2, OnlyTheQuery DEF TypeOK, Given
<1>4. Asked'
  BY <1>1, <1>2 DEF Inv, Asked
<1>5. EntriesDecode' /\ SidesKept'
  BY <1>1, <1>2 DEF EntriesDecode, SidesKept
<1>6. Listed'
  BY <1>1, <1>2 DEF Listed
<1> QED
  BY <1>2, <1>3, <1>4, <1>5, <1>6 DEF Inv

LEMMA FilterKeeps ==
  ASSUME Inv, Filter
  PROVE  Inv'
<1>1. Given /\ TypeOK /\ Asked /\ Course
  BY DEF Inv
<1>2. step = "ready" /\ UNCHANGED <<given, step, at, landing, types, actions>>
  BY DEF Filter
<1>3. PICK i \in Indices : query' = Opened(i)
  BY DEF Filter
<1>4. /\ i \in Nat /\ i >= 1 /\ Length \in Nat /\ MaxAddress \in Nat /\ EntriesEnd \in Nat
      /\ types # None => types \in Nat
  <2>1. Length \in Nat /\ MaxAddress \in Nat /\ EntriesEnd \in Nat
    BY <1>1, Layout, GivenTypes
  <2>2. types # None => types \in 0..Length
    BY <1>1 DEF TypeOK
  <2>3. i \in Nat /\ i >= 1
    BY IndicesAssumption
  <2> QED
    BY <2>1, <2>2, <2>3
<1>5. Len(<<>>) = 0 /\ <<>> \in Seq(Nat) /\ \A k \in 1..0 : FALSE
  OBVIOUS
<1>6. WellFormed /\ i \in DOMAIN lsda.filters =>
        /\ types = EntriesEnd /\ i <= Len(lsda.filters) /\ Len(lsda.filters) \in Nat
        /\ EntriesEnd + i - 1 <= Length /\ Length <= MaxAddress
  <2> SUFFICES ASSUME WellFormed, i \in DOMAIN lsda.filters
               PROVE  /\ types = EntriesEnd
                      /\ i <= Len(lsda.filters) /\ Len(lsda.filters) \in Nat
                      /\ EntriesEnd + i - 1 <= Length /\ Length <= MaxAddress
    OBVIOUS
  <2>1. lsda.filters \in Seq(Nat \cup {Malformed}) /\ image.origin \in Nat
    BY <1>1, GivenTypes DEF Lsda, Bases
  <2>2. i \in 1..Len(lsda.filters) /\ Len(lsda.filters) \in Nat
    BY <2>1
  <2>3. lsda.typing # Absent
    <3>1. lsda.filters # <<>>
      BY <2>2
    <3> QED
      BY <3>1 DEF WellFormed
  <2>4. types = EntriesEnd
    BY <1>1, <1>2, <2>3 DEF Course, Typed
  <2>5. Length = EntriesEnd + Len(lsda.filters) /\ image.origin + Length <= MaxAddress
    BY <1>1, Undamaged DEF Given
  <2> QED
    BY <1>4, <2>1, <2>2, <2>4, <2>5
<1>7. CASE types = None
  <2>1. query' = Walk(i, 0, <<>>, "Table")
    BY <1>3, <1>7 DEF Opened
  <2>2. ~(WellFormed /\ i \in DOMAIN lsda.filters)
    BY <1>4, <1>6, <1>7 DEF None
  <2>3. 0 \in 0..Length
    BY <1>4
  <2> QED
    BY <1>2, <2>1, <2>2, <2>3, WalkKeeps
<1>8. CASE types # None /\ ~(First(i) <= MaxAddress /\ First(i) <= Length)
  <2>1. First(i) \in Nat /\ First(i) = types + i - 1
    BY <1>4, <1>8 DEF First
  <2>2. PICK end \in {"Overflow", "Table"} : query' = Walk(i, 0, <<>>, end)
    BY <1>3, <1>4, <1>8, <2>1 DEF Opened
  <2>3. ~(WellFormed /\ i \in DOMAIN lsda.filters)
    BY <1>4, <1>6, <1>8, <2>1
  <2>4. 0 \in 0..Length /\ end # "open"
    BY <1>4
  <2> QED
    BY <1>2, <2>2, <2>3, <2>4, WalkKeeps
<1>9. CASE types # None /\ First(i) <= MaxAddress /\ First(i) <= Length
  <2>1. First(i) \in 0..Length /\ First(i) = types + i - 1 /\ First(i) >= types
    BY <1>4, <1>9 DEF First
  <2>2. query' = Walk(i, First(i), <<>>, "open")
    BY <1>3, <1>4, <1>9, <2>1 DEF Opened
  <2>3. WellFormed /\ i \in DOMAIN lsda.filters =>
          /\ i + Len(<<>>) <= Len(lsda.filters)
          /\ First(i) = EntriesEnd + i - 1 + Len(<<>>)
    BY <1>4, <1>5, <1>6, <2>1
  <2>4. WellFormed /\ i \in DOMAIN lsda.filters =>
          /\ "open" \in {"open", "complete"}
          /\ <<>> \in Seq(Nat)
          /\ i + Len(<<>>) <= Len(lsda.filters)
          /\ \A k \in 1..Len(<<>>) : <<>>[k] = lsda.filters[i + k - 1]
          /\ "open" = "open" => First(i) = EntriesEnd + i - 1 + Len(<<>>)
          /\ "open" = "complete" => lsda.filters[i + Len(<<>>)] = 0
    BY <1>5, <2>3
  <2> DEFINE p == First(i)
             items == <<>>
             end == "open"
  <2>5. query' = Walk(i, p, items, end) /\ p \in 0..Length /\ p >= types
    BY <2>1, <2>2
  <2>6. WellFormed /\ i \in DOMAIN lsda.filters =>
          /\ end \in {"open", "complete"}
          /\ items \in Seq(Nat)
          /\ i + Len(items) <= Len(lsda.filters)
          /\ \A k \in 1..Len(items) : items[k] = lsda.filters[i + k - 1]
          /\ end = "open" => p = EntriesEnd + i - 1 + Len(items)
          /\ end = "complete" => lsda.filters[i + Len(items)] = 0
    BY <2>4
  <2> HIDE DEF p, items, end
  <2> QED
    BY <1>2, <1>9, <2>5, <2>6, WalkKeeps
<1> QED
  BY <1>7, <1>8, <1>9

\* The next octet of a list is the list's next type index.
LEMMA FilterNextKeeps ==
  ASSUME Inv, FilterNext
  PROVE  Inv'
<1> DEFINE i == query.index
           p == query.position
           items == query.items
           InList == WellFormed /\ i \in DOMAIN lsda.filters
<1>1. Given /\ TypeOK /\ Asked /\ Course /\ Listed
  BY DEF Inv
<1>2. /\ query.kind = "filter" /\ query.end = "open" /\ p < Length
      /\ UNCHANGED <<given, step, at, landing, types, actions>>
  BY DEF FilterNext, Open
<1>3. step = "ready" /\ i \in Indices /\ i \in Nat /\ i >= 1
      /\ types # None /\ p >= types
  <2>1. step = "ready" /\ i \in Indices /\ types # None /\ p >= types
    BY <1>1, <1>2 DEF Asked
  <2> HIDE DEF i
  <2>2. i \in Nat /\ i >= 1
    BY <2>1, IndicesAssumption
  <2> QED
    BY <2>1, <2>2
<1>4. PICK x \in Octets(p) : query' = Read(x)
  BY DEF FilterNext
<1>5. p \in Nat /\ Length \in Nat /\ types \in Int /\ EntriesEnd \in Nat
  BY <1>1, <1>2, <1>3, Layout DEF TypeOK
<1>6. p \in 0..Length /\ p + 1 \in 0..Length /\ p + 1 >= types
  BY <1>2, <1>3, <1>5
<1>7. InList => /\ items \in Seq(Nat) /\ Len(items) \in Nat
                /\ i + Len(items) <= Len(lsda.filters) /\ Len(lsda.filters) \in Nat
                /\ \A k \in 1..Len(items) : items[k] = lsda.filters[i + k - 1]
                /\ p = EntriesEnd + i - 1 + Len(items)
                /\ x = lsda.filters[i + Len(items)]
                /\ x \in Nat
                /\ lsda.filters[Len(lsda.filters)] = 0
  <2> SUFFICES ASSUME InList
               PROVE  /\ items \in Seq(Nat) /\ Len(items) \in Nat
                      /\ i + Len(items) <= Len(lsda.filters) /\ Len(lsda.filters) \in Nat
                      /\ \A k \in 1..Len(items) : items[k] = lsda.filters[i + k - 1]
                      /\ p = EntriesEnd + i - 1 + Len(items)
                      /\ x = lsda.filters[i + Len(items)]
                      /\ x \in Nat
                      /\ lsda.filters[Len(lsda.filters)] = 0
    OBVIOUS
  <2>1. /\ items \in Seq(Nat) /\ Len(items) \in Nat
        /\ i + Len(items) <= Len(lsda.filters)
        /\ \A k \in 1..Len(items) : items[k] = lsda.filters[i + k - 1]
        /\ p = EntriesEnd + i - 1 + Len(items)
    BY <1>1, <1>2 DEF Listed
  <2>2. lsda.filters \in Seq(Nat \cup {Malformed})
    BY <1>1, GivenTypes DEF Lsda
  <2>3. Len(lsda.filters) \in Nat /\ i + Len(items) \in DOMAIN lsda.filters
    BY <1>3, <2>1, <2>2
  <2>4. x = lsda.filters[i + Len(items)]
    <3>1. p >= EntriesEnd /\ p - EntriesEnd + 1 = i + Len(items)
      BY <1>3, <1>5, <2>1
    <3> QED
      BY <1>4, <3>1 DEF Octets
  <2>5. x \in Nat
    <3>1. x \in Nat \cup {Malformed}
      BY <2>2, <2>3, <2>4
    <3> QED
      BY <2>3, <2>4, <3>1 DEF WellFormed
  <2>6. lsda.filters[Len(lsda.filters)] = 0
    <3>1. lsda.filters # <<>>
      BY <2>2, <2>3
    <3> QED
      BY <3>1 DEF WellFormed
  <2> QED
    BY <2>1, <2>3, <2>4, <2>5, <2>6
<1> HIDE DEF i, p, items
<1>8. CASE x = 0
  <2> DEFINE end == "complete"
  <2>1. query' = Walk(i, p + 1, items, end)
    BY <1>4, <1>8 DEF Read, i, p, items, Malformed
  <2>2. InList =>
          /\ end \in {"open", "complete"}
          /\ items \in Seq(Nat)
          /\ i + Len(items) <= Len(lsda.filters)
          /\ \A k \in 1..Len(items) : items[k] = lsda.filters[i + k - 1]
          /\ end = "open" => p + 1 = EntriesEnd + i - 1 + Len(items)
          /\ end = "complete" => lsda.filters[i + Len(items)] = 0
    BY <1>7, <1>8
  <2>3. end # "open"
    OBVIOUS
  <2> DEFINE q == p + 1
  <2>4. q \in 0..Length /\ q >= types /\ query' = Walk(i, q, items, end)
    BY <1>6, <2>1
  <2> HIDE DEF end, q
  <2> QED
    BY <1>2, <1>3, <2>2, <2>3, <2>4, WalkKeeps
<1>9. CASE x = Malformed
  <2> DEFINE end == "Overflow"
  <2>1. query' = Walk(i, p, items, end) /\ end # "open"
    BY <1>4, <1>9 DEF Read, i, p, items, Malformed
  <2>2. ~InList
    BY <1>7, <1>9 DEF Malformed
  <2> HIDE DEF end
  <2> QED
    BY <1>2, <1>3, <1>6, <2>1, <2>2, WalkKeeps
<1>10. CASE x # 0 /\ x # Malformed
  <2> DEFINE end == "open"
             read == Append(items, x)
             q == p + 1
  <2>1. query' = Walk(i, q, read, end)
    BY <1>4, <1>10 DEF Read, i, p, items
  <2>2. ASSUME InList
        PROVE  /\ read \in Seq(Nat)
               /\ i + Len(read) <= Len(lsda.filters)
               /\ \A k \in 1..Len(read) : read[k] = lsda.filters[i + k - 1]
               /\ q = EntriesEnd + i - 1 + Len(read)
    <3>1. /\ read \in Seq(Nat) /\ Len(read) = Len(items) + 1
          /\ \A k \in 1..Len(items) : read[k] = items[k]
          /\ read[Len(items) + 1] = x
      BY <1>7, <2>2
    <3> HIDE DEF read
    <3>2. i + Len(items) # Len(lsda.filters)
      BY <1>7, <1>10, <2>2
    <3>3. i + Len(read) <= Len(lsda.filters)
      <4> DEFINE n == Len(items)
                 m == Len(read)
                 all == Len(lsda.filters)
      <4>1. n \in Nat /\ all \in Nat /\ i + n <= all /\ i + n # all /\ m = n + 1
        BY <1>7, <2>2, <3>1, <3>2
      <4> HIDE DEF n, m, all
      <4>2. i + m <= all
        BY <1>3, <4>1
      <4> QED
        BY <4>2 DEF m, all
    <3>4. q = EntriesEnd + i - 1 + Len(read)
      <4> DEFINE n == Len(items)
                 m == Len(read)
      <4>1. p = EntriesEnd + i - 1 + n /\ n \in Nat /\ m = n + 1
        BY <1>7, <2>2, <3>1
      <4> HIDE DEF n, m
      <4>2. p + 1 = EntriesEnd + i - 1 + m
        BY <1>3, <1>5, <4>1
      <4> QED
        BY <4>2 DEF m
    <3>5. ASSUME NEW k \in 1..Len(read)
          PROVE  read[k] = lsda.filters[i + k - 1]
      <4>1. CASE k \in 1..Len(items)
        BY <1>7, <2>2, <3>1, <4>1
      <4>2. CASE k = Len(items) + 1
        <5>1. i + k - 1 = i + Len(items)
          BY <1>3, <1>7, <2>2, <4>2
        <5>2. read[k] = x
          BY <3>1, <4>2
        <5>3. x = lsda.filters[i + Len(items)]
          BY <1>7, <2>2
        <5> QED
          BY <5>1, <5>2, <5>3
      <4> QED
        BY <1>7, <2>2, <3>1, <4>1, <4>2
    <3> QED
      BY <3>1, <3>3, <3>4, <3>5
  <2>3. InList =>
          /\ end \in {"open", "complete"}
          /\ read \in Seq(Nat)
          /\ i + Len(read) <= Len(lsda.filters)
          /\ \A k \in 1..Len(read) : read[k] = lsda.filters[i + k - 1]
          /\ end = "open" => q = EntriesEnd + i - 1 + Len(read)
          /\ end = "complete" => lsda.filters[i + Len(read)] = 0
    BY <2>2
  <2>4. q \in 0..Length /\ q >= types
    BY <1>6
  <2> HIDE DEF end, q, read
  <2> QED
    BY <1>2, <1>3, <2>1, <2>3, <2>4, WalkKeeps
<1> QED
  BY <1>8, <1>9, <1>10

\* A list ends before the bytes do.
LEMMA FilterEndsKeeps ==
  ASSUME Inv, FilterEnds
  PROVE  Inv'
<1> DEFINE i == query.index
           p == query.position
           items == query.items
           end == "Eof"
<1>1. Given /\ TypeOK /\ Asked /\ Listed
  BY DEF Inv
<1>2. /\ query.kind = "filter" /\ query.end = "open" /\ p >= Length
      /\ query' = [query EXCEPT !.end = "Eof"]
      /\ UNCHANGED <<given, step, at, landing, types, actions>>
  BY DEF FilterEnds, Open
<1>3. /\ step = "ready" /\ i \in Indices /\ i \in Nat /\ types # None /\ p >= types
      /\ query = Walk(i, p, items, query.end) /\ p \in 0..Length
  BY <1>1, <1>2, IndicesAssumption DEF Asked, TypeOK
<1>4. query' = Walk(i, p, items, end) /\ end # "open"
  <2>1. query = [kind |-> "filter", index |-> i, position |-> p,
                 items |-> items, end |-> query.end]
    BY <1>3 DEF Walk
  <2> HIDE DEF i, p, items
  <2> QED
    BY <1>2, <2>1 DEF Walk
<1>5. ~(WellFormed /\ i \in DOMAIN lsda.filters)
  <2> SUFFICES ASSUME WellFormed, i \in DOMAIN lsda.filters
               PROVE  FALSE
    OBVIOUS
  <2>1. /\ items \in Seq(Nat) /\ i + Len(items) <= Len(lsda.filters)
        /\ p = EntriesEnd + i - 1 + Len(items)
    BY <1>1, <1>2 DEF Listed
  <2>2. /\ Length = EntriesEnd + Len(lsda.filters) /\ Len(lsda.filters) \in Nat
        /\ EntriesEnd \in Nat
    BY <1>1, Undamaged, Layout
  <2>3. Len(items) \in Nat
    BY <2>1
  <2> QED
    BY <1>2, <1>3, <2>1, <2>2, <2>3
<1> HIDE DEF i, p, items, end
<1> QED
  BY <1>2, <1>3, <1>4, <1>5, WalkKeeps

-----------------------------------------------------------------------------
(* The theorems.                                                           *)

LEMMA InitInv == Init => Inv
<1> SUFFICES ASSUME Init
             PROVE  Inv
  OBVIOUS
<1>1. /\ lsda \in Lsdas /\ image \in Images /\ damage \in Damages
      /\ step = "landing" /\ at = 0 /\ landing = None /\ types = None
      /\ actions = None /\ query = [kind |-> "none"]
  BY DEF Init, Nothing
<1>2. Given
  BY DEF Init, Given
<1>3. Length \in Nat
  BY <1>2, Layout
<1>4. query.kind = "none" /\ 0 \in 0..Length
  BY <1>1, <1>3
<1> HIDE DEF Init
<1>5. TypeOK
  BY <1>1, <1>4 DEF TypeOK
<1>6. Asked /\ Course
  BY <1>1, <1>4 DEF Asked, Course
<1>7. EntriesDecode /\ SidesKept /\ Listed
  BY <1>4 DEF EntriesDecode, SidesKept, Listed
<1> QED
  BY <1>2, <1>5, <1>6, <1>7 DEF Inv

LEMMA StutterKeeps == Inv /\ UNCHANGED vars => Inv'
<1> SUFFICES ASSUME Inv, UNCHANGED vars
             PROVE  Inv'
  OBVIOUS
<1>1. /\ given' = given /\ step' = step /\ at' = at /\ landing' = landing
      /\ types' = types /\ actions' = actions /\ query' = query
  BY DEF vars
<1>2. UNCHANGED <<given, step, at, landing, types, actions>>
  BY <1>1
<1>3. Given /\ TypeOK /\ Asked /\ Course /\ EntriesDecode /\ SidesKept /\ Listed
  BY DEF Inv
<1>4. /\ Given' /\ Course' /\ WellFormed' = WellFormed /\ lsda' = lsda
      /\ EntriesEnd' = EntriesEnd /\ Length' = Length
  BY <1>2, OnlyTheQuery
<1>5. /\ \A f, e : Relative(f, e)' = Relative(f, e)
      /\ \A k : EntryAt(k)' = EntryAt(k)
  BY <1>1, <1>3, GivenStays
<1>6. TypeOK'
  BY <1>1, <1>2, <1>3, <1>4, OnlyTheQuery DEF TypeOK, Given
<1>7. Asked'
  BY <1>1, <1>3, <1>4 DEF Asked
<1>8. EntriesDecode'
  BY <1>1, <1>3, <1>4, <1>5 DEF EntriesDecode, Failed
<1>9. SidesKept' /\ Listed'
  BY <1>1, <1>3, <1>4 DEF SidesKept, Listed
<1> QED
  BY <1>4, <1>6, <1>7, <1>8, <1>9 DEF Inv

LEMMA InvHolds == Spec => []Inv
<1>1. Inv /\ [Next]_vars => Inv'
  BY LandingKeeps, TypesKeeps, CallsKeeps, TruncatedKeeps, GetKeeps, FilterKeeps,
     FilterNextKeeps, FilterEndsKeeps, StutterKeeps DEF Next, Refused
<1> QED
  BY InitInv, <1>1, PTL DEF Spec

(***************************************************************************)
(* Whatever an LSDA holds and however it is damaged, every position the    *)
(* reader keeps lies inside its bytes (Lsda::new, Types::get, Lsda::filter *)
(* and FilterTypes::next).                                                 *)
(***************************************************************************)
THEOREM TypeCorrect == Spec => []TypeOK
<1>1. Inv => TypeOK
  BY DEF Inv
<1> QED
  BY InvHolds, <1>1, PTL

(***************************************************************************)
(* Lsda::new accepts the header of every undamaged LSDA and divides it     *)
(* where its parts are, for every word size, encoding and alignment.       *)
(***************************************************************************)
THEOREM HeadersAreDivided == Spec => []HeaderAccepted
<1>1. Inv => HeaderAccepted
  BY DEF Inv, Course, Landed, Typed, HeaderAccepted
<1> QED
  BY InvHolds, <1>1, PTL

(***************************************************************************)
(* Types::get gives for each index the type that was written for it, in    *)
(* tables of any length.                                                   *)
(***************************************************************************)
THEOREM TypesAreReadBack == Spec => []EntriesDecode
<1>1. Inv => EntriesDecode
  BY DEF Inv
<1> QED
  BY InvHolds, <1>1, PTL

(***************************************************************************)
(* Types are read in front of the end of the type table and specifications *)
(* behind it, wherever the header says that end is.                        *)
(***************************************************************************)
THEOREM SidesStayApart == Spec => []SidesKept
<1>1. Inv => SidesKept
  BY DEF Inv
<1> QED
  BY InvHolds, <1>1, PTL

(***************************************************************************)
(* A walk of Lsda::filter yields exactly its list, however long and with   *)
(* whichever lists it shares a tail.                                       *)
(***************************************************************************)
THEOREM ListsAreReadBack == Spec => []SpecificationsDecode
<1>1. ASSUME Inv
      PROVE  SpecificationsDecode
  <2> DEFINE i == query.index
             items == query.items
             list == lsda.filters
  <2> SUFFICES ASSUME query.kind = "filter", WellFormed, i \in DOMAIN list
               PROVE  /\ query.end \in {"open", "complete"}
                      /\ query.end = "complete" =>
                           Append(items, 0) = SubSeq(list, i, i + Len(items))
    BY DEF SpecificationsDecode
  <2>1. /\ query.end \in {"open", "complete"}
        /\ items \in Seq(Nat) /\ i + Len(items) <= Len(list)
        /\ \A k \in 1..Len(items) : items[k] = list[i + k - 1]
        /\ query.end = "complete" => list[i + Len(items)] = 0
    BY <1>1 DEF Inv, Listed
  <2>2. list \in Seq(Nat \cup {Malformed}) /\ i \in 1..Len(list)
    <3>1. list \in Seq(Nat \cup {Malformed})
      BY <1>1, GivenTypes DEF Inv, Lsda
    <3> QED
      BY <3>1
  <2> HIDE DEF i, items, list
  <2>3. ASSUME query.end = "complete"
        PROVE  Append(items, 0) = SubSeq(list, i, i + Len(items))
    <3> DEFINE n == Len(items)
               a == Append(items, 0)
               b == SubSeq(list, i, i + n)
    <3>1. n \in Nat /\ i \in Nat /\ i >= 1 /\ Len(list) \in Nat /\ i + n <= Len(list)
      BY <2>1, <2>2
    <3>2. /\ a \in Seq(Nat) /\ Len(a) = n + 1
          /\ \A k \in 1..n : a[k] = items[k]
          /\ a[n + 1] = 0
      BY <2>1
    <3>3. /\ b \in Seq(Nat \cup {Malformed}) /\ Len(b) = n + 1
          /\ \A k \in 1..(n + 1) : b[k] = list[i + k - 1]
      BY <2>2, <3>1
    <3>4. ASSUME NEW k \in 1..(n + 1)
          PROVE  a[k] = b[k]
      <4>1. CASE k \in 1..n
        BY <2>1, <3>2, <3>3, <4>1
      <4>2. CASE k = n + 1
        <5>1. i + k - 1 = i + n
          BY <3>1, <4>2
        <5> HIDE DEF a, b
        <5>2. a[k] = 0
          BY <3>2, <4>2
        <5>3. b[k] = list[i + n]
          BY <3>3, <5>1
        <5>4. list[i + n] = 0
          BY <2>1, <2>3
        <5> QED
          BY <5>2, <5>3, <5>4
      <4> QED
        BY <3>1, <4>1, <4>2
    <3> HIDE DEF a, b, n
    <3>5. a = b
      BY <3>1, <3>2, <3>3, <3>4
    <3> QED
      BY <3>5 DEF a, b, n
  <2> QED
    BY <2>1, <2>3
<1> QED
  BY InvHolds, <1>1, PTL
=============================================================================
