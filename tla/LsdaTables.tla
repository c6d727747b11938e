----------------------------- MODULE LsdaTables -----------------------------
(***************************************************************************)
(* The frame of an LSDA (desenredo-lsda, table.rs: Lsda::new, Types::get,  *)
(* Lsda::filter and FilterTypes): the header, the type table read          *)
(* backwards from its end and the exception specifications read forwards   *)
(* from the same place.  Init lays the tables out as the Itanium ABI does, *)
(* then skews an offset or cuts the bytes; what the reader finds where no  *)
(* field was written is left open.                                         *)
(***************************************************************************)
EXTENDS Integers, Sequences

CONSTANTS
  MaxAddress,   \* usize::MAX
  Word,         \* size_of::<usize>()
  Lsdas,        \* what compilers write
  Images,       \* where it is loaded: bases of its pointers
  Damages,      \* what can happen to it: skewed lengths, missing bytes
  Indices,      \* indices a caller asks for
  Garbage       \* what a misplaced field can hold

None == -1
Malformed == -2

\* Pointer encodings; "BAD" stands for all that is_valid_encoding rejects.
Formats == {"ABS", "U2", "U4", "U8", "LEB"}
Applications == {"ABS", "ALIGN", "PC", "TEXT", "DATA", "FUNC", "BAD"}
Encoding == [format : Formats, application : Applications, indirect : BOOLEAN]
Absent == [format |-> "absent"]

\* encoding.rs: the bases of pointers, of which two may be missing, and what
\* a decoded pointer holds, with the position behind it.
Bases == [origin : 0..MaxAddress, function : 0..MaxAddress,
          text : 0..MaxAddress \cup {None}, data : 0..MaxAddress \cup {None}]
Target == [error : {""}, address : 0..MaxAddress, indirect : BOOLEAN, rest : Nat]

\* What a compiler can have written; an octet it got wrong is Malformed.
Lsda == [landing : Encoding \cup {Absent}, pads : 1..MaxAddress,
         typing : Encoding \cup {Absent}, targets : Seq(0..MaxAddress),
         calls : Nat, actions : Nat, callable : BOOLEAN,
         filters : Seq(Nat \cup {Malformed})]

ASSUME SizesAssumption == MaxAddress \in Nat /\ Word \in Nat \ {0}

ASSUME LsdasAssumption == Lsdas \subseteq Lsda

ASSUME ImagesAssumption == Images \subseteq Bases

ASSUME DamagesAssumption == Damages \subseteq [types : Int, calls : Int, cut : Nat]

\* TypeIndex and FilterIndex are not zero.
ASSUME IndicesAssumption == Indices \subseteq Nat \ {0}

VARIABLES
  lsda,      \* the LSDA, as it was written
  image,     \* the bases it is read with
  damage,    \* what happened to it
  step,      \* "landing", "types", "calls", "ready" or an error
  at,        \* position of the unread header
  landing,   \* base of landing pads
  types,     \* end of the type table, or None
  actions,   \* position of the action table
  query      \* the last lookup

given == <<lsda, image, damage>>

vars == <<given, step, at, landing, types, actions, query>>

-----------------------------------------------------------------------------
(* The layout, byte by byte.                                               *)

\* Octets of a field; a LEB128 field happens to have two.
Width(e) == [ABS |-> Word, U2 |-> 2, U4 |-> 4, U8 |-> 8, LEB |-> 2][e.format]

\* The first position from p on where a field of encoding e may start.
Slot(p, e) ==
  IF e.application # "ALIGN" THEN p
  ELSE CHOOSE q \in p..(p + Word - 1) : (image.origin + q) % Word = 0

Behind(p, e) == IF e = Absent THEN p ELSE Slot(p, e) + Width(e)

TypesAt == Behind(1, lsda.landing)
CallsAt == TypesAt + (IF lsda.typing = Absent THEN 1 ELSE 2)
ActionsAt == CallsAt + 2 + lsda.calls
EntriesAt == IF lsda.typing = Absent THEN ActionsAt + lsda.actions
             ELSE Slot(ActionsAt + lsda.actions, lsda.typing)
EntriesEnd == IF lsda.typing = Absent THEN EntriesAt
              ELSE EntriesAt + Len(lsda.targets) * Width(lsda.typing)

\* What is left of it to read.
Length == EntriesEnd + Len(lsda.filters) - damage.cut

\* The two lengths of the header.
TypeOffset == EntriesEnd - (TypesAt + 2) + damage.types
CallLength == lsda.calls + damage.calls

\* What the ABI measures an address from.
Relative(f, e) ==
  [ABS |-> 0, ALIGN |-> 0, PC |-> image.origin + f, TEXT |-> image.text,
   DATA |-> image.data, FUNC |-> image.function, BAD |-> 0][e.application]

\* The value written for an address; 0 stands for no type.
Value(f, e, address) == IF address = 0 THEN 0 ELSE address - Relative(f, e)

EntryAt(i) == EntriesEnd - i * Width(lsda.typing)

\* The values a field of encoding e can have where one is read.
Stored(f, e) ==
  LET written == {i \in DOMAIN lsda.targets : EntryAt(i) = f /\ e = lsda.typing}
  IN IF step = "landing" THEN {Value(f, e, lsda.pads)}
     ELSE IF written # {}
          THEN {Value(f, e, lsda.targets[i]) : i \in written}
          ELSE Garbage

\* The octets of the exception specifications, one to a type index.
Octets(p) == IF p >= EntriesEnd THEN {lsda.filters[p - EntriesEnd + 1]}
             ELSE {0, 1, Malformed}

-----------------------------------------------------------------------------
(* Encoded pointers.                                                       *)

Valid(e) == e # Absent /\ e.application # "BAD"

\* The padding that aligned() skips.
Aligned(p) == LET remainder == (image.origin + p) % Word
              IN IF remainder = 0 THEN p ELSE p + (Word - remainder)

Field(p, e) == IF e.application = "ALIGN" THEN Aligned(p) ELSE p

Base(f, e) ==
  CASE e.application \in {"ABS", "ALIGN"} -> 0
    [] e.application = "PC" -> image.origin + f
    [] e.application = "TEXT" -> image.text
    [] e.application = "DATA" -> image.data
    [] e.application = "FUNC" -> image.function

Failed(error) == [error |-> error]

\* Scalar::add.
Decoded(f, e, value) ==
  IF Base(f, e) + value \notin 0..MaxAddress THEN Failed("Overflow")
  ELSE [error |-> "", address |-> Base(f, e) + value,
        indirect |-> e.indirect, rest |-> f + Width(e)]

\* target(): what reading a pointer at p can give.
Pointer(p, e) ==
  LET f == Field(p, e)
  IN CASE ~Valid(e) -> {Failed("Encoding")}
       [] Valid(e) /\ f + Width(e) > Length -> {Failed("Eof")}
       [] Valid(e) /\ f + Width(e) <= Length /\ Base(f, e) = None ->
            {Failed("Base")}
       [] OTHER -> {Decoded(f, e, value) : value \in Stored(f, e)}

-----------------------------------------------------------------------------
(* Lsda::new.                                                              *)

Nothing == [kind |-> "none"]

Init ==
  /\ lsda \in Lsdas /\ image \in Images /\ damage \in Damages
  /\ TypeOffset >= 0 /\ CallLength >= 0
  /\ Length >= 0 /\ image.origin + Length <= MaxAddress  \* the bytes are in memory
  /\ step = "landing" /\ at = 0
  /\ landing = None /\ types = None /\ actions = None
  /\ query = Nothing

Refuse(error) ==
  /\ step' = error
  /\ UNCHANGED <<given, at, landing, types, actions, query>>

\* Reading goes on at p.
Proceed(to, p) == step' = to /\ at' = p /\ UNCHANGED <<given, query>>

NoLanding ==
  /\ step = "landing" /\ Length >= 1 /\ lsda.landing = Absent
  /\ landing' = image.function
  /\ Proceed("types", 1) /\ UNCHANGED <<types, actions>>

Landing ==
  /\ step = "landing" /\ Length >= 1 /\ lsda.landing # Absent
  /\ \E target \in Pointer(1, lsda.landing) :
       IF target.error # "" THEN Refuse(target.error)
       ELSE IF target.indirect THEN Refuse("Encoding")
       ELSE /\ landing' = target.address
            /\ Proceed("types", target.rest) /\ UNCHANGED <<types, actions>>

NoTypes ==
  /\ step = "types" /\ Length > at /\ lsda.typing = Absent
  /\ Proceed("calls", at + 1) /\ UNCHANGED <<landing, types, actions>>

\* Mutant: a table must not end where the LSDA does.
WithinBefore(end) == end < Length

\* Mutant: the end of the table is not compared with the LSDA.
WithinUnchecked(end) == TRUE

Within(end) == end <= Length

Types ==
  /\ step = "types" /\ Length > at + 1 /\ lsda.typing # Absent
  /\ LET end == at + 2 + TypeOffset
     IN IF ~Valid(lsda.typing) THEN Refuse("Encoding")
        ELSE IF ~Within(end) THEN Refuse("Table")
        ELSE /\ types' = end
             /\ Proceed("calls", at + 2) /\ UNCHANGED <<landing, actions>>

Calls ==
  /\ step = "calls" /\ Length > at + 1
  /\ LET end == at + 2 + CallLength
     IN IF end > Length THEN Refuse("Eof")
        ELSE IF ~lsda.callable THEN Refuse("Encoding")
        ELSE /\ actions' = end
             /\ Proceed("ready", end) /\ UNCHANGED <<landing, types>>

\* Octets a step of the header reads before anything else.
Needed == IF step = "landing" THEN 1
          ELSE IF step = "types" /\ lsda.typing = Absent THEN at + 1 ELSE at + 2

Truncated ==
  /\ step \in {"landing", "types", "calls"} /\ Length < Needed
  /\ Refuse("Eof")

-----------------------------------------------------------------------------
(* Types::get.                                                             *)

\* Mutant: indices count from zero.
StartFromZero(i) == types - (i - 1) * Width(lsda.typing)

Start(i) == types - i * Width(lsda.typing)

\* Mutant: what was read is not compared with the end of the table.
BoundedNever(target) == target

Bounded(target) == IF target.error = "" /\ target.rest > types
                   THEN Failed("Table") ELSE target

\* What looking up entry i can give.
Entry(i) ==
  IF lsda.typing.format = "LEB" THEN {Failed("Encoding")}
  ELSE IF i * Width(lsda.typing) > MaxAddress THEN {Failed("Overflow")}
  ELSE IF Start(i) < 0 THEN {Failed("Table")}
  ELSE {Bounded(target) : target \in Pointer(Start(i), lsda.typing)}

Get ==
  /\ step = "ready" /\ types # None
  /\ \E i \in Indices : \E target \in Entry(i) :
       query' = [kind |-> "entry", index |-> i, target |-> target]
  /\ UNCHANGED <<given, step, at, landing, types, actions>>

-----------------------------------------------------------------------------
(* Lsda::filter and FilterTypes::next.                                     *)

Walk(i, p, items, end) ==
  [kind |-> "filter", index |-> i, position |-> p, items |-> items, end |-> end]

\* Mutant: the index is added to the end of the type table as it is.
FirstZeroBased(i) == types + i

First(i) == types + i - 1

Opened(i) ==
  IF types = None THEN Walk(i, 0, <<>>, "Table")
  ELSE IF First(i) > MaxAddress THEN Walk(i, 0, <<>>, "Overflow")
  ELSE IF First(i) > Length THEN Walk(i, 0, <<>>, "Table")
  ELSE Walk(i, First(i), <<>>, "open")

Filter ==
  /\ step = "ready"
  /\ \E i \in Indices : query' = Opened(i)
  /\ UNCHANGED <<given, step, at, landing, types, actions>>

Open == query.kind = "filter" /\ query.end = "open"

\* The walk after it read type index x, or could not.
Read(x) ==
  CASE x = 0 -> Walk(query.index, query.position + 1, query.items, "complete")
    [] x = Malformed -> Walk(query.index, query.position, query.items, "Overflow")
    [] OTHER -> Walk(query.index, query.position + 1, Append(query.items, x), "open")

FilterNext ==
  /\ Open /\ query.position < Length
  /\ \E x \in Octets(query.position) : query' = Read(x)
  /\ UNCHANGED <<given, step, at, landing, types, actions>>

FilterEnds ==
  /\ Open /\ query.position >= Length
  /\ query' = [query EXCEPT !.end = "Eof"]
  /\ UNCHANGED <<given, step, at, landing, types, actions>>

Refused == step \in {"Eof", "Encoding", "Base", "Overflow", "Table"} /\ UNCHANGED vars

Next == \/ NoLanding \/ Landing \/ NoTypes \/ Types \/ Calls \/ Truncated
        \/ Get \/ Filter \/ FilterNext \/ FilterEnds \/ Refused

Spec == Init /\ [][Next]_vars

-----------------------------------------------------------------------------
(* Properties.                                                             *)

(***************************************************************************)
(* Every position kept from the header, and every position of a walk, lies *)
(* inside the bytes, whatever the header says (the invariants of Types and *)
(* Lsda, table.rs:174-212).                                                *)
(***************************************************************************)
TypeOK ==
  /\ lsda \in Lsdas /\ image \in Images /\ damage \in Damages
  /\ step \in {"landing", "types", "calls", "ready",
               "Eof", "Encoding", "Base", "Overflow", "Table"}
  /\ at \in 0..Length
  /\ landing \in 0..MaxAddress \cup {None}
  /\ types \in 0..Length \cup {None}
  /\ actions \in 0..Length \cup {None}
  /\ query.kind \in {"none", "entry", "filter"}
  /\ query.kind = "entry" /\ query.target.error = "" => query.target \in Target
  /\ query.kind = "filter" => query.position \in 0..Length

\* A base the encoding needs is there.
Based(e) == Base(0, e) # None

\* What a compiler writes, undamaged: entries that are aligned are words, and
\* specifications need types.
WellFormed ==
  /\ damage.types = 0 /\ damage.calls = 0 /\ damage.cut = 0 /\ lsda.callable
  /\ lsda.landing # Absent =>
       Valid(lsda.landing) /\ ~lsda.landing.indirect /\ Based(lsda.landing)
  /\ lsda.typing # Absent =>
       /\ Valid(lsda.typing) /\ Based(lsda.typing)
       /\ lsda.typing.application = "ALIGN" => lsda.typing.format = "ABS"
  /\ lsda.typing = Absent => lsda.filters = <<>>
  /\ \A k \in DOMAIN lsda.filters : lsda.filters[k] # Malformed
  /\ lsda.filters # <<>> => lsda.filters[Len(lsda.filters)] = 0

(***************************************************************************)
(* The header of an undamaged LSDA is accepted and divided where its parts *)
(* are: with a type table that ends the bytes, an aligned landing base or  *)
(* neither (Lsda::new, table.rs:519-593).                                  *)
(***************************************************************************)
HeaderAccepted ==
  WellFormed =>
    /\ step \in {"landing", "types", "calls", "ready"}
    /\ step = "ready" =>
         /\ actions = ActionsAt
         /\ types = IF lsda.typing = Absent THEN None ELSE EntriesEnd
         /\ landing = IF lsda.landing = Absent THEN image.function ELSE lsda.pads

(***************************************************************************)
(* An index gives the type it was written for, under every fixed-width     *)
(* encoding and wherever the bytes are loaded; an entry for no type gives  *)
(* the base of its encoding, as the test at table.rs:986-1011 has it       *)
(* (Types::get, table.rs:783-808).                                         *)
(***************************************************************************)
EntriesDecode ==
  query.kind = "entry" /\ WellFormed /\ query.index \in DOMAIN lsda.targets =>
    LET i == query.index  e == lsda.typing
    IN IF e.format = "LEB" THEN query.target = Failed("Encoding")
       ELSE /\ query.target.error = ""
            /\ query.target.address =
                 IF lsda.targets[i] # 0 THEN lsda.targets[i]
                 ELSE Relative(EntryAt(i), e)

(***************************************************************************)
(* Entries are read in front of the end of the type table and              *)
(* specifications behind it, even if that end is misplaced or misaligned   *)
(* (table.rs:801-807, 660-666).                                            *)
(***************************************************************************)
SidesKept ==
  /\ query.kind = "entry" /\ query.target.error = "" => query.target.rest <= types
  /\ query.kind = "filter" /\ query.position # 0 => query.position >= types

(***************************************************************************)
(* A specification gives the type indices of its list, in order and no     *)
(* more, also if lists share a tail (Lsda::filter and FilterTypes::next,   *)
(* table.rs:653-670, 882-915).                                             *)
(***************************************************************************)
SpecificationsDecode ==
  query.kind = "filter" /\ WellFormed /\ query.index \in DOMAIN lsda.filters =>
    /\ query.end \in {"open", "complete"}
    /\ query.end = "complete" =>
         Append(query.items, 0) =
           SubSeq(lsda.filters, query.index, query.index + Len(query.items))

(***************************************************************************)
(* The documentation of Types::get promises an error for out-of-range      *)
(* indices (table.rs:780-781).  The code refuses an index only if its      *)
(* entry would start in front of the LSDA: one behind the last entry is    *)
(* read from the action table, the call sites or the header.               *)
(***************************************************************************)
OutOfRangeRefused ==
  query.kind = "entry" /\ WellFormed /\ query.target.error = ""
    => query.index \in DOMAIN lsda.targets
=============================================================================
