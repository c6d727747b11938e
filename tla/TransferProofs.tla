--------------------------- MODULE TransferProofs ---------------------------
(***************************************************************************)
(* The machine code between the program and the unwinder does what its     *)
(* listings say, for every stack with room for it, every depth of the Rust *)
(* code, every frame with a landing pad and every choice of signals.       *)
(***************************************************************************)
EXTENDS Transfer, SequenceTheorems, TLAPS

-----------------------------------------------------------------------------
(* The list of fields.                                                     *)

\* The fields, spelled out for the provers.
FieldNames == {"rax", "rdx", "rcx", "rbx", "rsi", "rdi", "rbp", "rsp", "r8", "r9", "r10",
    "r11", "r12", "r13", "r14", "r15", "ra", "mxcsr", "fcw"}

\* There are nineteen fields, all different.
LEMMA FieldsAre ==
  /\ Size = 19 /\ ToSet(Fields) = FieldNames
  /\ \A i, j \in 1..19 : Fields[i] = Fields[j] => i = j
<1>1. Size = 19  BY DEF Size, Fields
<1>2. DOMAIN Fields = 1..19  BY DEF Fields
<1>3. ToSet(Fields) \subseteq FieldNames
  BY <1>2 DEF ToSet, Fields, FieldNames
<1>4. /\ Fields[1] = "rax" /\ Fields[2] = "rdx" /\ Fields[3] = "rcx" /\ Fields[4] = "rbx"
      /\ Fields[5] = "rsi" /\ Fields[6] = "rdi" /\ Fields[7] = "rbp" /\ Fields[8] = "rsp"
      /\ Fields[9] = "r8" /\ Fields[10] = "r9" /\ Fields[11] = "r10" /\ Fields[12] = "r11"
      /\ Fields[13] = "r12" /\ Fields[14] = "r13" /\ Fields[15] = "r14" /\ Fields[16] = "r15"
      /\ Fields[17] = "ra" /\ Fields[18] = "mxcsr" /\ Fields[19] = "fcw"
  BY DEF Fields
<1>5. \A i, j \in 1..19 : Fields[i] = Fields[j] => i = j
  BY <1>4
<1>6. FieldNames \subseteq ToSet(Fields)
  BY <1>2, <1>4 DEF ToSet, FieldNames
<1>q. QED  BY <1>1, <1>3, <1>5, <1>6

\* A field's offset is its place in the list.
LEMMA OffsetIs ==
  /\ Offset = [f \in FieldNames |-> Offset[f]]
  /\ \A f \in FieldNames : Offset[f] \in 0..18 /\ Fields[Offset[f] + 1] = f
  /\ \A f, g \in FieldNames : Offset[f] = Offset[g] => f = g
  /\ \A i \in 1..19 : Fields[i] \in FieldNames /\ Offset[Fields[i]] = i - 1
<1>1. Offset = [f \in FieldNames |-> Offset[f]]
  BY FieldsAre DEF Offset
<1>2. ASSUME NEW f \in FieldNames
      PROVE  Offset[f] \in 0..18 /\ Fields[Offset[f] + 1] = f
  <2> DEFINE I == {i \in 1..Len(Fields) : Fields[i] = f}
  <2>1. Offset[f] = (IF I # {} THEN Min(I) ELSE 0) - 1
    BY FieldsAre DEF Offset, SelectInSeq
  <2>2. PICK i \in 1..19 : Fields[i] = f
    BY FieldsAre DEF ToSet, Size
  <2>3. I = {i}
    BY <2>2, FieldsAre DEF Size
  <2>4. Min({i}) = i
    BY DEF Min
  <2> HIDE DEF I
  <2>5. Offset[f] = i - 1
    BY <2>1, <2>3, <2>4
  <2>q. QED  BY <2>2, <2>5
<1>3. \A i \in 1..19 : Fields[i] \in FieldNames
  BY DEF Fields, FieldNames
<1>q. QED  BY <1>1, <1>2, <1>3, FieldsAre

\* Concatenation under a name of its own: no backend unfolds it by itself.
Joint(s, t) == s \o t

\* A function over 1..n.
IsList(s, n) == s = [i \in 1..n |-> s[i]]

\* What the parts of a program say of the whole.
LEMMA Joined ==
  ASSUME NEW s, NEW t, NEW m \in Nat, NEW n \in Nat, IsList(s, m), IsList(t, n),
         NEW u, u = Joint(s, t)
  PROVE  /\ IsList(u, m + n)
         /\ \A i \in 1..m : u[i] = s[i]
         /\ \A i \in 1..n : u[m + i] = t[i]
<1> DEFINE S == {s[i] : i \in 1..m} \cup {t[i] : i \in 1..n}
<1>1. s \in Seq(S) /\ Len(s) = m
  <2>1. s \in [1..m -> S]  BY DEF IsList
  <2> HIDE DEF S
  <2>q. QED  BY <2>1, LenProperties, ElementOfSeq, SeqDef
<1>2. t \in Seq(S) /\ Len(t) = n
  <2>1. t \in [1..n -> S]  BY DEF IsList
  <2> HIDE DEF S
  <2>q. QED  BY <2>1, LenProperties, ElementOfSeq, SeqDef
<1>u. u = s \o t
  BY DEF Joint
<1> HIDE DEF S
<1>3. /\ s \o t \in Seq(S) /\ Len(s \o t) = m + n
      /\ \A i \in 1..(m + n) : (s \o t)[i] = IF i <= m THEN s[i] ELSE t[i - m]
  BY <1>1, <1>2, ConcatProperties
<1>v. /\ u \in Seq(S) /\ Len(u) = m + n
      /\ \A i \in 1..(m + n) : u[i] = IF i <= m THEN s[i] ELSE t[i - m]
  BY <1>u, <1>3
<1>4. IsList(u, m + n)
  BY <1>v, LenProperties DEF IsList
<1>5. ASSUME NEW i \in 1..m PROVE u[i] = s[i]
  BY <1>v
<1>6. ASSUME NEW i \in 1..n PROVE u[m + i] = t[i]
  <2>1. m + i \in 1..(m + n) /\ ~(m + i <= m) /\ (m + i) - m = i
    OBVIOUS
  <2>q. QED  BY <1>v, <2>1
<1>q. QED  BY <1>4, <1>5, <1>6

-----------------------------------------------------------------------------
(* The inductive invariant.                                                *)

\* The registers when the program calls.
InitialRegs == [r \in Names |-> IF r = "rsp" THEN Stack(Caller) ELSE Of(r)]

\* Where a trampoline's storage, and with it its image, begins.
Base == Caller - 1 - STACK

\* The stack from a upwards is as it was.
Kept(a) == \A b \in a..Top : mem[b] = <<"old", b>>

\* The caller's preserved registers are in place.
Callers == \A r \in Preserved : regs[r] = Of(r)

\* The image is the caller's state.
Described ==
  /\ \A r \in Preserved : Imaged(r) = Of(r)
  /\ \A r \in Volatile : Imaged(r) = Zero
  /\ Imaged("rsp") = Stack(Caller) /\ Imaged("ra") = InProgram

\* The entry f has been called and has not returned.
Behind(f) ==
  /\ asked = f /\ image = Base /\ chosen = InitialRegs
  /\ mem[Caller - 1] = InProgram /\ Callers

\* The slot a trampoline keeps its j-th argument in.
Argument(j) == mem[Base + FIRST + (j - 1)]

\* What the variables are.
Shape ==
  /\ regs = [r \in Names |-> regs[r]] /\ mem = [a \in 0..Top |-> mem[a]]
  /\ chosen = [r \in Names |-> chosen[r]]
  /\ pc = <<pc[1], pc[2]>>

\* What the program has called.
Asked == asked = "none" \/ asked = "capture" \/ asked \in Entries

\* From the jump on, the frames below the target are gone.
Unwound == pc[1] \in {"jump", "pad"}

\* Nothing above the live end of the stack has been written: the caller's
\* %rsp, or from the jump on that of the pad's frame.
Stacked ==
  /\ ~Unwound => chosen = InitialRegs /\ Kept(Caller)
  /\ Unwound => \E t \in Targets : chosen["rsp"] = Stack(t) /\ Kept(t)

\* The program, before it calls and when the entry has returned.
ProgramInv ==
  pc[1] = "program" =>
    /\ pc[2] = 1 /\ regs["rsp"] = Stack(Caller)
    /\ asked = "none" => regs = InitialRegs
    /\ asked \in Entries => regs["rax"] = <<"reason", asked>> /\ Callers

\* Before the i-th instruction of a trampoline: which arguments have been
\* saved, which have been restored one register further on, and what the
\* registers that pass them on hold.
EntryAt(f, i) ==
  LET n == Arity(f)
  IN  /\ Behind(f)
      /\ regs["rsp"] = IF i = 1 \/ i = 2 * n + 8 THEN Stack(Caller - 1) ELSE Stack(Base)
      /\ i <= n + 2 => \A j \in 1..n : regs[Arguments[j]] = Of(Arguments[j])
      /\ i <= 2 * n + 6 => \A j \in 1..n : j + 1 < i => Argument(j) = Of(Arguments[j])
      /\ i \in {n + 3, n + 4} => regs["rsi"] = Stack(Caller - 1)
      /\ i \in {n + 4, 2 * n + 6} => regs["rdi"] = Stack(Base)
      /\ i \in (n + 5)..(2 * n + 6) =>
           /\ Described
           /\ \A j \in 1..n : i + j > 2 * n + 5 => regs[Arguments[j + 1]] = Of(Arguments[j])
      /\ i > 2 * n + 6 => regs["rax"] = <<"reason", f>>

\* A trampoline has two instructions for each argument, six besides, and two
\* more if it returns.
EntryInv(f) ==
  pc[1] = f =>
    /\ pc[2] \in 1..(2 * Arity(f) + (IF f = "resume" THEN 6 ELSE 8))
    /\ EntryAt(f, pc[2])

\* The Rust code behind an entry, when it is called.
DispatchInv(f) ==
  pc[1] = Dispatch(f) =>
    /\ pc[2] = 1 /\ Behind(f) /\ Described
    /\ regs["rsp"] = Stack(Base - 1) /\ mem[Base - 1] = Code(f, 2 * Arity(f) + 7)
    /\ regs["rdi"] = Stack(Base)
    /\ \A j \in 1..Arity(f) : regs[Arguments[j + 1]] = Of(Arguments[j])

\* The order in which Registers::entry writes the general registers.
EntryOrder == <<"rax", "rdx", "rcx", "rsi", "rdi", "r8", "r9", "r10", "r11",
                "rbx", "rbp", "r12", "r13", "r14", "r15">>

\* What Registers::entry is called with and leaves alone.
CaptureFrame ==
  /\ asked \in Entries /\ Behind(asked)
  /\ regs["rsp"] = Stack(Base - 1) /\ mem[Base - 1] = Code(asked, Arity(asked) + 5)
  /\ regs["rdi"] = Stack(Base) /\ regs["rsi"] = Stack(Caller - 1)
  /\ \A j \in 1..Arity(asked) : Argument(j) = Of(Arguments[j])

\* What it has written before its i-th instruction.
CaptureDone(i) ==
  /\ \A k \in 1..9 : k < i => Imaged(EntryOrder[k]) = Zero
  /\ \A k \in 10..15 : k < i => Imaged(EntryOrder[k]) = Of(EntryOrder[k])
  /\ i = 17 => regs["rax"] = Stack(Caller)
  /\ i > 17 => Imaged("rsp") = Stack(Caller)
  /\ i = 19 => regs["rax"] = InProgram
  /\ i > 19 => Imaged("ra") = InProgram
  /\ i > 20 => Imaged("mxcsr") = IF i > 22 THEN Of("mxcsr") ELSE Zero
  /\ i > 21 => Imaged("fcw") = IF i > 23 THEN Of("fcw") ELSE Zero

\* Registers::entry.
CaptureInv == pc[1] = "entry" => pc[2] \in 1..24 /\ CaptureFrame /\ CaptureDone(pc[2])

\* The order in which Registers::save writes the preserved registers.
SaveOrder == <<"rbx", "rbp", "r12", "r13", "r14", "r15">>

\* What Registers::save is called with and leaves alone.
SaveFrame ==
  /\ asked = "capture" /\ image \in 1..(Caller - Size)
  /\ regs["rsp"] = Stack(image - 1) /\ mem[image - 1] = InCapture
  /\ regs["rdi"] = Stack(image)

\* What it has written before its i-th instruction; a control word is stored
\* over a zero.
SaveDone(i) ==
  /\ \A k \in 1..6 : k < i => Imaged(SaveOrder[k]) = regs[SaveOrder[k]]
  /\ i = 8 => regs["rax"] = Stack(image)
  /\ i > 8 => Imaged("rsp") = Stack(image)
  /\ i = 10 => regs["rax"] = InCapture
  /\ i > 10 => Imaged("ra") = InCapture
  /\ Imaged("mxcsr") = IF i > 11 THEN regs["mxcsr"] ELSE Zero
  /\ Imaged("fcw") = IF i > 12 THEN regs["fcw"] ELSE Zero

\* Registers::save.
SaveInv == pc[1] = "save" => pc[2] \in 1..13 /\ SaveFrame /\ SaveDone(pc[2])

\* Its caller, when it has returned.
CapturedInv ==
  pc[1] = "captured" =>
    /\ pc[2] = 1
    /\ asked = "capture" /\ image \in 1..(Caller - Size)
    /\ regs["rsp"] = Stack(image)
    /\ \A r \in Preserved \cup {"rsp"} : Imaged(r) = regs[r]
    /\ Imaged("ra") = InCapture

\* What each instruction of the jump writes; the fourth and fifth push the
\* address of the pad.
JumpOrder == <<"rsp", "mxcsr", "fcw", "rax", "rax", "rax", "rdx", "rcx", "rbx", "rsi", "rbp",
               "r8", "r9", "r10", "r11", "r12", "r13", "r14", "r15", "rdi">>

\* Before the i-th instruction of the jump: the image is whole and behind
\* %rdi until the last load, whatever has been loaded is what was selected,
\* and the pad's address, once pushed, lies below the target's %rsp.
JumpAt(i) ==
  LET t == chosen["rsp"][2]
  IN  /\ asked \in Entries /\ image \in 0..(Caller - Size - 2)
      /\ \E d \in Depths : image = Base - 1 - d - Size
      /\ regs["rsp"] = Stack(IF i = 1 THEN image - 2 ELSE IF i <= 5 THEN t ELSE t - 1)
      /\ i <= 20 => regs["rdi"] = Stack(image)
      /\ \A r \in Names : Imaged(r) = chosen[r]
      /\ Imaged("ra") = InPad
      /\ i = 5 => regs["rax"] = InPad
      /\ i > 5 => mem[t - 1] = InPad
      /\ \A k \in {2, 3} \cup 6..20 : k < i => regs[JumpOrder[k]] = chosen[JumpOrder[k]]

\* The jump.
JumpInv == pc[1] = "jump" => pc[2] \in 1..21 /\ JumpAt(pc[2])

\* A landing pad, on entry.
PadInv == pc[1] = "pad" => pc[2] = 1 /\ asked # "none" /\ regs = chosen

\* Where control can be.
Places == pc[1] \in DOMAIN Programs \cup {Dispatch(f) : f \in Entries}
             \cup {"program", "captured", "pad", "trap"}

\* After the trap nothing runs.
TrapInv == pc[1] = "trap" => pc[2] = 1 /\ asked # "none" /\ regs["rsp"] = Stack(Base - 1)

\* The inductive invariant: what holds everywhere, and what holds in each place.
IInv ==
  /\ Shape /\ Asked /\ Stacked /\ Places
  /\ ProgramInv /\ (\A f \in Entries : EntryInv(f) /\ DispatchInv(f))
  /\ CaptureInv /\ SaveInv /\ CapturedInv /\ JumpInv /\ PadInv /\ TrapInv

-----------------------------------------------------------------------------
(* The programs, instruction by instruction.                               *)

\* The instructions of Registers::save.
LEMMA SaveCode ==
  /\ \A k \in 1..6 : Save[k] = Store(SaveOrder[k], Offset[SaveOrder[k]], "rdi")
  /\ Save[7] = Lea(1, "rsp", "rax") /\ Save[8] = Store("rax", Offset["rsp"], "rdi")
  /\ Save[9] = Load(0, "rsp", "rax") /\ Save[10] = Store("rax", Offset["ra"], "rdi")
  /\ Save[11] = StoreLow("mxcsr", Offset["mxcsr"], "rdi")
  /\ Save[12] = StoreLow("fcw", Offset["fcw"], "rdi") /\ Save[13] = Ret
BY DEF Save, To, SaveLow, SaveOrder

\* The instructions of Registers::entry.
LEMMA EntryListing ==
  /\ \A k \in 1..9 : Entry[k] = StoreZero(Offset[EntryOrder[k]], "rdi")
  /\ \A k \in 10..15 : Entry[k] = Store(EntryOrder[k], Offset[EntryOrder[k]], "rdi")
  /\ Entry[16] = Lea(1, "rsi", "rax") /\ Entry[17] = Store("rax", Offset["rsp"], "rdi")
  /\ Entry[18] = Load(0, "rsi", "rax") /\ Entry[19] = Store("rax", Offset["ra"], "rdi")
  /\ Entry[20] = StoreZero(Offset["mxcsr"], "rdi") /\ Entry[21] = StoreZero(Offset["fcw"], "rdi")
  /\ Entry[22] = StoreLow("mxcsr", Offset["mxcsr"], "rdi")
  /\ Entry[23] = StoreLow("fcw", Offset["fcw"], "rdi") /\ Entry[24] = Ret
BY DEF Entry, To, Clear, SaveLow, EntryOrder

\* The instructions of Registers::jump.
LEMMA JumpCode ==
  /\ \A k \in {1, 2, 3} \cup 6..20 : Jump[k] = Load(Offset[JumpOrder[k]], "rdi", JumpOrder[k])
  /\ Jump[4] = Load(Offset["ra"], "rdi", "rax") /\ Jump[5] = Push("rax") /\ Jump[21] = Ret
BY DEF Jump, From, JumpOrder

\* The instructions of a trampoline with n arguments.
Listing(T, n, f) ==
  /\ IsList(T, 2 * n + 6)
  /\ T[1] = Lea(-STACK, "rsp", "rsp")
  /\ \A j \in 1..n : T[j + 1] = Store(Arguments[j], FIRST + (j - 1), "rsp")
  /\ T[n + 2] = Lea(STACK, "rsp", "rsi") /\ T[n + 3] = Lea(0, "rsp", "rdi")
  /\ T[n + 4] = Call("entry")
  /\ \A j \in 1..n : T[n + 4 + j] = Load(FIRST + (n - j), "rsp", Arguments[n - j + 2])
  /\ T[2 * n + 5] = Lea(0, "rsp", "rdi") /\ T[2 * n + 6] = Call(f)

\* Its parts, put together, are this listing.
LEMMA TrampolineCode ==
  ASSUME NEW n \in 1..3, NEW f
  PROVE  Listing(Trampoline(n, f), n, f)
<1> DEFINE a == <<Lea(-STACK, "rsp", "rsp")>>
           b == [i \in 1..n |-> Store(Arguments[i], FIRST + (i - 1), "rsp")]
           c == <<Lea(STACK, "rsp", "rsi"), Lea(0, "rsp", "rdi"), Call("entry")>>
           d == [i \in 1..n |-> Load(FIRST + (n - i), "rsp", Arguments[n - i + 2])]
           e == <<Lea(0, "rsp", "rdi"), Call(f)>>
           ab == a \o b
           abc == ab \o c
           abcd == abc \o d
           T == abcd \o e
<1>t. Trampoline(n, f) = T
  BY DEF Trampoline
<1>a. IsList(a, 1) /\ a[1] = Lea(-STACK, "rsp", "rsp")
  BY DEF IsList
<1>b. IsList(b, n) /\ \A i \in 1..n : b[i] = Store(Arguments[i], FIRST + (i - 1), "rsp")
  BY DEF IsList
<1>c. /\ IsList(c, 3) /\ c[1] = Lea(STACK, "rsp", "rsi")
      /\ c[2] = Lea(0, "rsp", "rdi") /\ c[3] = Call("entry")
  BY DEF IsList
<1>d. /\ IsList(d, n)
      /\ \A i \in 1..n : d[i] = Load(FIRST + (n - i), "rsp", Arguments[n - i + 2])
  BY DEF IsList
<1>e. IsList(e, 2) /\ e[1] = Lea(0, "rsp", "rdi") /\ e[2] = Call(f)
  BY DEF IsList
<1>u. ab = Joint(a, b) /\ abc = Joint(ab, c) /\ abcd = Joint(abc, d) /\ T = Joint(abcd, e)
  BY DEF Joint
<1> HIDE DEF a, b, c, d, e, ab, abc, abcd, T
<1>n. 1 + n \in Nat /\ (1 + n) + 3 \in Nat /\ ((1 + n) + 3) + n \in Nat
  OBVIOUS
<1>1. /\ IsList(ab, 1 + n) /\ \A i \in 1..1 : ab[i] = a[i]
      /\ \A i \in 1..n : ab[1 + i] = b[i]
  BY <1>u, <1>a, <1>b, Joined
<1>2. /\ IsList(abc, (1 + n) + 3) /\ \A i \in 1..(1 + n) : abc[i] = ab[i]
      /\ \A i \in 1..3 : abc[(1 + n) + i] = c[i]
  BY <1>u, <1>n, <1>1, <1>c, Joined
<1>3. /\ IsList(abcd, ((1 + n) + 3) + n) /\ \A i \in 1..((1 + n) + 3) : abcd[i] = abc[i]
      /\ \A i \in 1..n : abcd[((1 + n) + 3) + i] = d[i]
  BY <1>u, <1>n, <1>2, <1>d, Joined
<1>4. /\ IsList(T, (((1 + n) + 3) + n) + 2)
      /\ \A i \in 1..(((1 + n) + 3) + n) : T[i] = abcd[i]
      /\ \A i \in 1..2 : T[(((1 + n) + 3) + n) + i] = e[i]
  BY <1>u, <1>n, <1>3, <1>e, Joined
<1>5. IsList(T, 2 * n + 6) /\ T[2 * n + 5] = e[1] /\ T[2 * n + 6] = e[2]
  <2>1. /\ (((1 + n) + 3) + n) + 2 = 2 * n + 6
        /\ (((1 + n) + 3) + n) + 1 = 2 * n + 5
    OBVIOUS
  <2>q. QED  BY <1>4, <2>1
<1>6. T[1] = a[1]
  BY <1>1, <1>2, <1>3, <1>4
<1>7. T[n + 2] = c[1] /\ T[n + 3] = c[2] /\ T[n + 4] = c[3]
  <2>1. (1 + n) + 1 = n + 2 /\ (1 + n) + 2 = n + 3 /\ (1 + n) + 3 = n + 4
    OBVIOUS
  <2>q. QED  BY <1>2, <1>3, <1>4, <2>1
<1>8. ASSUME NEW j \in 1..n
      PROVE  T[j + 1] = b[j] /\ T[n + 4 + j] = d[j]
  <2>1. 1 + j = j + 1 /\ ((1 + n) + 3) + j = n + 4 + j
    OBVIOUS
  <2>q. QED  BY <1>1, <1>2, <1>3, <1>4, <2>1
<1>q. QED  BY <1>t, <1>a, <1>b, <1>c, <1>d, <1>e, <1>5, <1>6, <1>7, <1>8 DEF Listing

\* Every entry begins with a trampoline; all but resume end with the epilogue.
LEMMA EntryPrograms ==
  ASSUME NEW f \in Entries
  PROVE  LET n == Arity(f)
             P == Programs[f]
         IN  /\ n \in 1..3
             /\ \A i \in 1..(2 * n + 6) : P[i] = Trampoline(n, Dispatch(f))[i]
             /\ f # "resume" => P[2 * n + 7] = Lea(STACK, "rsp", "rsp") /\ P[2 * n + 8] = Ret
<1> DEFINE n == Arity(f)
           T == Trampoline(n, Dispatch(f))
           E == IF f = "resume" THEN <<Ud2>> ELSE Epilogue
           e == IF f = "resume" THEN 1 ELSE 2
           P == T \o E
<1>1. n \in 1..3 /\ e \in Nat
  BY DEF Arity
<1>2. Programs[f] = P
  <2>1. CASE f = "raise"  BY <2>1 DEF Programs, raise, Arity, Dispatch
  <2>2. CASE f = "force"  BY <2>2 DEF Programs, force, Arity, Dispatch
  <2>3. CASE f = "resume"  BY <2>3 DEF Programs, resume, Arity, Dispatch
  <2>4. CASE f = "rethrow"  BY <2>4 DEF Programs, rethrow, Arity, Dispatch
  <2>5. CASE f = "trace"  BY <2>5 DEF Programs, trace, Arity, Dispatch
  <2>q. QED  BY <2>1, <2>2, <2>3, <2>4, <2>5 DEF Entries
<1>3. IsList(T, 2 * n + 6)
  BY <1>1, TrampolineCode DEF Listing
<1>4. IsList(E, e)
  BY DEF Epilogue, IsList
<1>5. f # "resume" => E[1] = Lea(STACK, "rsp", "rsp") /\ E[2] = Ret /\ e = 2
  BY DEF Epilogue
<1>p. P = Joint(T, E)
  BY DEF Joint
<1> HIDE DEF T, E, n, e, P
<1>6. /\ \A i \in 1..(2 * n + 6) : P[i] = T[i]
      /\ \A i \in 1..e : P[(2 * n + 6) + i] = E[i]
  <2>1. 2 * n + 6 \in Nat  BY <1>1
  <2>q. QED  BY <1>p, <1>1, <1>3, <1>4, <2>1, Joined
<1>7. f # "resume" => P[2 * n + 7] = E[1] /\ P[2 * n + 8] = E[2]
  <2>1. (2 * n + 6) + 1 = 2 * n + 7 /\ (2 * n + 6) + 2 = 2 * n + 8  BY <1>1
  <2>q. QED  BY <1>5, <1>6, <2>1
<1>q. QED  BY <1>1, <1>2, <1>5, <1>6, <1>7 DEF T, n

-----------------------------------------------------------------------------
(* One step.                                                               *)

\* The pieces of machine code.
LEMMA ProgramsAre ==
  /\ DOMAIN Programs = Entries \cup {"entry", "save", "jump"}
  /\ Programs["entry"] = Entry /\ Programs["save"] = Save /\ Programs["jump"] = Jump
BY DEF Programs, Entries

\* The Rust functions behind the entries are none of them, and all different.
LEMMA DispatchIs ==
  ASSUME NEW f \in Entries
  PROVE  /\ Dispatch(f) \notin DOMAIN Programs
         /\ Dispatch(f) \notin {"program", "captured", "pad", "trap"}
         /\ \A g \in Entries : Dispatch(f) = Dispatch(g) => f = g
BY ProgramsAre DEF Dispatch, Entries

\* Inside machine code only an instruction or a signal happens.
LEMMA OnlyMachine ==
  ASSUME NEW p \in DOMAIN Programs, NEW i, pc = <<p, i>>, Next
  PROVE  Machine \/ Signal
<1>1. p \notin {"program", "captured", "pad", "trap"}
  BY ProgramsAre DEF Entries
<1>2. \A f \in Entries : p # Dispatch(f)
  BY DispatchIs
<1>3. "resume" \in Entries
  BY DEF Entries
<1>4. pc[1] = p
  OBVIOUS
<1>5. ~ At("program") /\ ~ At("captured") /\ \A f \in Entries : ~ At(Dispatch(f))
  BY <1>1, <1>2, <1>4 DEF At
<1>6. ~Rust
  BY <1>3, <1>5 DEF Rust, RustReturns, RustInstalls, RustTraps, CaptureReturns
<1>7. /\ \A f \in Entries : ~Enter(f)
      /\ \A d \in Depths : ~CaptureCalls(d)
  BY <1>5 DEF Enter, CaptureCalls
<1>8. ~Stopped
  BY <1>1, <1>4 DEF Stopped
<1>q. QED  BY <1>6, <1>7, <1>8 DEF Next

\* The instruction is the one at the counter.
LEMMA OneOperation ==
  ASSUME NEW p \in DOMAIN Programs, NEW i \in Nat, pc = <<p, i>>, Next
  PROVE  LET x == Programs[p][i]
         IN  \/ Signal
             \/ x.op = "store" /\ Stores
             \/ x.op = "zero" /\ StoresZero
             \/ x.op = "low" /\ StoresLow
             \/ x.op = "load" /\ Loads
             \/ x.op = "lea" /\ Computes
             \/ x.op = "push" /\ Pushes
             \/ x.op = "call" /\ Calls
             \/ x.op = "ret" /\ Returns
<1>1. Machine \/ Signal
  BY OnlyMachine
<1>2. Instruction = Programs[p][i]
  BY DEF Instruction
<1>q. QED
  BY <1>1, <1>2
     DEF Machine, Stores, StoresZero, StoresLow, Loads, Computes, Pushes, Calls, Returns, Is

\* Control falls through.
GoesOn(p, i) == pc' = <<p, i + 1>> /\ UNCHANGED <<asked, image, chosen>>

\* What each operation writes, unless a signal comes first: a store,
LEMMA StoreStep ==
  ASSUME NEW p \in DOMAIN Programs, NEW i \in Nat, pc = <<p, i>>, Next,
         NEW r, NEW off, NEW base, Programs[p][i] = Store(r, off, base)
  PROVE  \/ Signal
         \/ /\ GoesOn(p, i) /\ regs' = regs
            /\ mem' = [mem EXCEPT ![regs[base][2] + off] = regs[r]]
<1>1. Instruction = Store(r, off, base)
  BY DEF Instruction
<1>2. Signal \/ Stores
  BY OneOperation DEF Store
<1>3. Onward => GoesOn(p, i)
  BY DEF Onward, GoesOn
<1>q. QED  BY <1>1, <1>2, <1>3 DEF Stores, Address, Store

\* a store of zero,
LEMMA ZeroStep ==
  ASSUME NEW p \in DOMAIN Programs, NEW i \in Nat, pc = <<p, i>>, Next,
         NEW off, NEW base, Programs[p][i] = StoreZero(off, base)
  PROVE  \/ Signal
         \/ /\ GoesOn(p, i) /\ regs' = regs
            /\ mem' = [mem EXCEPT ![regs[base][2] + off] = Zero]
<1>1. Instruction = StoreZero(off, base)
  BY DEF Instruction
<1>2. Signal \/ StoresZero
  BY OneOperation DEF StoreZero
<1>3. Onward => GoesOn(p, i)
  BY DEF Onward, GoesOn
<1>q. QED  BY <1>1, <1>2, <1>3 DEF StoresZero, Address, StoreZero

\* a store of a control word over what is there,
LEMMA LowStep ==
  ASSUME NEW p \in DOMAIN Programs, NEW i \in Nat, pc = <<p, i>>, Next,
         NEW r, NEW off, NEW base, Programs[p][i] = StoreLow(r, off, base)
  PROVE  \/ Signal
         \/ /\ GoesOn(p, i) /\ regs' = regs
            /\ mem' = [mem EXCEPT ![regs[base][2] + off] = IF @ = Zero THEN regs[r] ELSE Junk]
<1>1. Instruction = StoreLow(r, off, base)
  BY DEF Instruction
<1>2. Signal \/ StoresLow
  BY OneOperation DEF StoreLow
<1>3. Onward => GoesOn(p, i)
  BY DEF Onward, GoesOn
<1>q. QED  BY <1>1, <1>2, <1>3 DEF StoresLow, Address, StoreLow

\* a load,
LEMMA LoadStep ==
  ASSUME NEW p \in DOMAIN Programs, NEW i \in Nat, pc = <<p, i>>, Next,
         NEW r, NEW off, NEW base, Programs[p][i] = Load(off, base, r)
  PROVE  \/ Signal
         \/ /\ GoesOn(p, i) /\ mem' = mem
            /\ regs' = [regs EXCEPT ![r] = mem[regs[base][2] + off]]
<1>1. Instruction = Load(off, base, r)
  BY DEF Instruction
<1>2. Signal \/ Loads
  BY OneOperation DEF Load
<1>3. Onward => GoesOn(p, i)
  BY DEF Onward, GoesOn
<1>q. QED  BY <1>1, <1>2, <1>3 DEF Loads, Address, Load

\* an address computation,
LEMMA LeaStep ==
  ASSUME NEW p \in DOMAIN Programs, NEW i \in Nat, pc = <<p, i>>, Next,
         NEW r, NEW off, NEW base, Programs[p][i] = Lea(off, base, r)
  PROVE  \/ Signal
         \/ /\ GoesOn(p, i) /\ mem' = mem
            /\ regs' = [regs EXCEPT ![r] = Stack(regs[base][2] + off)]
<1>1. Instruction = Lea(off, base, r)
  BY DEF Instruction
<1>2. Signal \/ Computes
  BY OneOperation DEF Lea
<1>3. Onward => GoesOn(p, i)
  BY DEF Onward, GoesOn
<1>q. QED  BY <1>1, <1>2, <1>3 DEF Computes, Address, Lea

\* a push,
LEMMA PushStep ==
  ASSUME NEW p \in DOMAIN Programs, NEW i \in Nat, pc = <<p, i>>, Next,
         NEW r, Programs[p][i] = Push(r)
  PROVE  \/ Signal
         \/ GoesOn(p, i) /\ Pushed(regs[r])
<1>1. Instruction = Push(r)
  BY DEF Instruction
<1>2. Signal \/ Pushes
  BY OneOperation DEF Push
<1>3. Onward => GoesOn(p, i)
  BY DEF Onward, GoesOn
<1>q. QED  BY <1>1, <1>2, <1>3 DEF Pushes, Push, Pushed

\* a call,
LEMMA CallStep ==
  ASSUME NEW p \in DOMAIN Programs, NEW i \in Nat, pc = <<p, i>>, Next,
         NEW f, Programs[p][i] = Call(f)
  PROVE  \/ Signal
         \/ /\ pc' = <<f, 1>> /\ UNCHANGED <<asked, image, chosen>>
            /\ Pushed(Code(p, i + 1))
<1>1. Instruction = Call(f)
  BY DEF Instruction
<1>2. Signal \/ Calls
  BY OneOperation DEF Call
<1>q. QED  BY <1>1, <1>2 DEF Calls, Call

\* a return.
LEMMA RetStep ==
  ASSUME NEW p \in DOMAIN Programs, NEW i \in Nat, pc = <<p, i>>, Next,
         Programs[p][i] = Ret
  PROVE  \/ Signal
         \/ /\ pc' = mem[Sp][2] /\ UNCHANGED <<asked, image, chosen, mem>>
            /\ regs' = [regs EXCEPT !["rsp"] = Stack(Sp + 1)]
<1>1. Signal \/ Returns
  BY OneOperation DEF Ret
<1>q. QED  BY <1>1 DEF Returns, Popped

\* The layout in numbers: nineteen fields, three arguments and one word of
\* padding, with room below.
LEMMA Numbers ==
  /\ Size = 19 /\ FIRST = 19 /\ STACK = 23 /\ Base = Caller - 24
  /\ Caller \in Nat /\ Top \in Nat /\ Caller <= Top /\ Caller >= 25 /\ Caller % 2 = 0
  /\ RedZone \in Nat
  /\ \A t \in Targets : t \in Caller..Top
  /\ \A d \in Depths : d \in Nat /\ Caller >= 44 + d
<1>1. Size = 19 /\ FIRST = 19
  BY FieldsAre DEF FIRST
<1>2. STACK = 23
  BY <1>1 DEF STACK, PAD
<1>3. Base = Caller - 24
  BY <1>2, StackAssumption DEF Base
<1>q. QED  BY <1>1, <1>2, <1>3, StackAssumption, RoomAssumption

\* The registers by class.
LEMMA Registers ==
  /\ Names = {"rax", "rdx", "rcx", "rbx", "rsi", "rdi", "rbp", "rsp", "r8", "r9", "r10",
              "r11", "r12", "r13", "r14", "r15", "mxcsr", "fcw"}
  /\ FieldNames = Names \cup {"ra"} /\ "ra" \notin Names
  /\ Preserved \subseteq Names /\ Volatile \subseteq Names /\ Volatile \cap Preserved = {}
  /\ Names = Preserved \cup Volatile \cup {"rsp"} /\ "rsp" \notin Preserved \cup Volatile
  /\ \A j \in 1..4 : Arguments[j] \in Volatile
  /\ \A j, k \in 1..4 : Arguments[j] = Arguments[k] => j = k
  /\ Arguments[1] = "rdi" /\ Arguments[2] = "rsi"
<1>1. Names = {"rax", "rdx", "rcx", "rbx", "rsi", "rdi", "rbp", "rsp", "r8", "r9", "r10",
              "r11", "r12", "r13", "r14", "r15", "mxcsr", "fcw"}
  BY FieldsAre DEF Names, FieldNames
<1>2. FieldNames = Names \cup {"ra"} /\ "ra" \notin Names
  BY <1>1 DEF FieldNames
<1>3. /\ Preserved \subseteq Names /\ Volatile \subseteq Names /\ Volatile \cap Preserved = {}
      /\ Names = Preserved \cup Volatile \cup {"rsp"} /\ "rsp" \notin Preserved \cup Volatile
  BY <1>1 DEF Preserved, Volatile, Control
<1>4. /\ \A j \in 1..4 : Arguments[j] \in Volatile
      /\ \A j, k \in 1..4 : Arguments[j] = Arguments[k] => j = k
      /\ Arguments[1] = "rdi" /\ Arguments[2] = "rsi"
  BY DEF Arguments, Volatile
<1>q. QED  BY <1>1, <1>2, <1>3, <1>4

\* A write to one register leaves the others.
LEMMA RegWritten ==
  ASSUME Shape, NEW r \in Names, NEW v, regs' = [regs EXCEPT ![r] = v]
  PROVE  /\ regs' = [q \in Names |-> regs'[q]]
         /\ regs'[r] = v /\ \A q \in Names : q # r => regs'[q] = regs[q]
BY DEF Shape

\* A write to one word leaves the others.
LEMMA MemWritten ==
  ASSUME Shape, NEW a \in 0..Top, NEW v, mem' = [mem EXCEPT ![a] = v]
  PROVE  /\ mem' = [b \in 0..Top |-> mem'[b]]
         /\ mem'[a] = v /\ \A b \in 0..Top : b # a => mem'[b] = mem[b]
BY DEF Shape

\* A signal writes below the red zone only.
LEMMA SignalStep ==
  ASSUME Signal, NEW s \in Int, regs["rsp"] = Stack(s)
  PROVE  /\ pc[1] \in Interrupted
         /\ UNCHANGED <<regs, pc, asked, image, chosen>>
         /\ mem' = [b \in 0..Top |-> mem'[b]]
         /\ \A b \in 0..Top : b >= s - RedZone => mem'[b] = mem[b]
<1>1. Sp = s
  BY DEF Sp, Stack
<1>2. mem' = [b \in 0..Top |-> IF b < s - RedZone THEN Junk ELSE mem[b]]
  BY <1>1 DEF Signal, Below
<1>3. \A b \in 0..Top : b >= s - RedZone => mem'[b] = mem[b]
  BY <1>2, Numbers
<1>q. QED  BY <1>2, <1>3 DEF Signal

\* A push writes the word below the stack pointer.
LEMMA PushedStep ==
  ASSUME Shape, NEW s \in 1..(Top + 1), regs["rsp"] = Stack(s), NEW v, Pushed(v)
  PROVE  /\ regs' = [q \in Names |-> regs'[q]] /\ mem' = [b \in 0..Top |-> mem'[b]]
         /\ regs'["rsp"] = Stack(s - 1) /\ \A q \in Names : q # "rsp" => regs'[q] = regs[q]
         /\ mem'[s - 1] = v /\ \A b \in 0..Top : b # s - 1 => mem'[b] = mem[b]
<1>1. Sp = s
  BY DEF Sp, Stack
<1>2. "rsp" \in Names /\ s - 1 \in 0..Top
  BY Registers, Numbers
<1>3. regs' = [regs EXCEPT !["rsp"] = Stack(s - 1)] /\ mem' = [mem EXCEPT ![s - 1] = v]
  BY <1>1 DEF Pushed
<1> HIDE DEF Shape
<1>q. QED  BY <1>2, <1>3, RegWritten, MemWritten

\* The words of an image at m.
LEMMA ImagedIs ==
  ASSUME NEW r \in FieldNames, NEW m \in Int
  PROVE  /\ m + Offset[r] \in m..(m + 18)
         /\ \A q \in FieldNames : m + Offset[q] = m + Offset[r] => q = r
BY OffsetIs

-----------------------------------------------------------------------------
(* A step that ends in one place has to keep the invariant of that place. *)

\* The part of the invariant that holds everywhere.
Common == Shape /\ Asked /\ Stacked

\* A step into a trampoline.
LEMMA AtEntry ==
  ASSUME Common', NEW f \in Entries, pc'[1] = f, EntryInv(f)'
  PROVE  IInv'
<1>1. f \notin {"program", "entry", "save", "captured", "jump", "pad", "trap"}
  BY DEF Entries
<1>2. \A g \in Entries : f # Dispatch(g)
  BY DispatchIs, ProgramsAre
<1>3. \A g \in Entries : DispatchInv(g)' /\ EntryInv(g)'
  BY <1>2 DEF DispatchInv, EntryInv
<1>4. Places'
  BY ProgramsAre DEF Places
<1>q. QED
  BY <1>1, <1>3, <1>4 DEF IInv, Common, ProgramInv, CaptureInv, SaveInv, CapturedInv, JumpInv,
                          PadInv, TrapInv

\* A step into the Rust code behind an entry.
LEMMA AtDispatch ==
  ASSUME Common', NEW f \in Entries, pc'[1] = Dispatch(f), DispatchInv(f)'
  PROVE  IInv'
<1>1. Dispatch(f) \notin {"program", "entry", "save", "captured", "jump", "pad", "trap"}
  BY DispatchIs, ProgramsAre
<1>2. \A g \in Entries : g # Dispatch(f)
  BY DispatchIs, ProgramsAre
<1>3. \A g \in Entries : DispatchInv(g)' /\ EntryInv(g)'
  BY <1>2, DispatchIs DEF DispatchInv, EntryInv
<1>4. Places'
  BY DEF Places
<1>q. QED
  BY <1>1, <1>3, <1>4 DEF IInv, Common, ProgramInv, CaptureInv, SaveInv, CapturedInv, JumpInv,
                          PadInv, TrapInv

\* The other places.
Elsewhere == {"program", "entry", "save", "captured", "jump", "pad", "trap"}

\* A step into one of them.
LEMMA AtElsewhere ==
  ASSUME Common', pc'[1] \in Elsewhere,
         pc'[1] = "program" => ProgramInv', pc'[1] = "entry" => CaptureInv',
         pc'[1] = "save" => SaveInv', pc'[1] = "captured" => CapturedInv',
         pc'[1] = "jump" => JumpInv', pc'[1] = "pad" => PadInv', pc'[1] = "trap" => TrapInv'
  PROVE  IInv'
<1>1. \A g \in Entries : pc'[1] # Dispatch(g) /\ pc'[1] # g
  BY DispatchIs, ProgramsAre DEF Elsewhere, Entries
<1>2. \A g \in Entries : DispatchInv(g)' /\ EntryInv(g)'
  BY <1>1 DEF DispatchInv, EntryInv
<1>3. Places'
  BY ProgramsAre DEF Places, Elsewhere
<1>4. /\ ProgramInv' /\ CaptureInv' /\ SaveInv' /\ CapturedInv'
      /\ JumpInv' /\ PadInv' /\ TrapInv'
  BY DEF ProgramInv, CaptureInv, SaveInv, CapturedInv, JumpInv, PadInv, TrapInv
<1>q. QED  BY <1>2, <1>3, <1>4 DEF IInv, Common

\* An image nobody writes is the same image.
LEMMA ImagedSame ==
  ASSUME NEW m \in 0..(Top - 18), image = m, image' = m,
         \A b \in m..(m + 18) : mem'[b] = mem[b],
         NEW r \in FieldNames
  PROVE  Imaged(r)' = Imaged(r)
<1>1. m + Offset[r] \in m..(m + 18)
  BY ImagedIs
<1>2. Imaged(r)' = mem'[m + Offset[r]]
  BY DEF Imaged
<1>3. Imaged(r) = mem[m + Offset[r]]
  BY DEF Imaged
<1>q. QED  BY <1>1, <1>2, <1>3

\* The same, of an image that describes the caller.
LEMMA DescribedSame ==
  ASSUME Described, image = Base, image' = Base,
         \A b \in Base..(Base + 18) : mem'[b] = mem[b]
  PROVE  Described'
<1>1. Base \in 0..(Top - 18)
  BY Numbers
<1>2. \A r \in FieldNames : Imaged(r)' = Imaged(r)
  BY <1>1, ImagedSame
<1>3. /\ Preserved \subseteq FieldNames /\ Volatile \subseteq FieldNames
      /\ {"rsp", "ra"} \subseteq FieldNames
  BY Registers
<1>q. QED  BY <1>2, <1>3 DEF Described

\* A step that writes nothing from t upwards.
LEMMA KeptSame ==
  ASSUME NEW t \in Nat, Kept(t), \A b \in 0..Top : b >= t => mem'[b] = mem[b]
  PROVE  Kept(t)'
<1>1. ASSUME NEW b \in t..Top PROVE mem'[b] = <<"old", b>>
  <2>1. b \in 0..Top /\ b >= t
    BY Numbers
  <2>q. QED  BY <2>1 DEF Kept
<1>q. QED  BY <1>1 DEF Kept

\* A write to one field of an image leaves the others, and the rest of the stack.
LEMMA ImageWritten ==
  ASSUME Shape, NEW m \in 0..(Top - 18), image = m, image' = m, NEW r \in FieldNames, NEW v,
         mem' = [mem EXCEPT ![m + Offset[r]] = v]
  PROVE  /\ mem' = [b \in 0..Top |-> mem'[b]]
         /\ Imaged(r)' = v /\ \A q \in FieldNames : q # r => Imaged(q)' = Imaged(q)
         /\ \A b \in 0..Top : b \notin m..(m + 18) => mem'[b] = mem[b]
<1> DEFINE a == m + Offset[r]
<1>1. a \in m..(m + 18) /\ a \in 0..Top
  BY ImagedIs, Numbers
<1>a. mem' = [mem EXCEPT ![a] = v]
  OBVIOUS
<1>i. Imaged(r)' = mem'[a]
  BY DEF Imaged
<1>j. \A q \in FieldNames : m + Offset[q] = a => q = r
  BY ImagedIs
<1> HIDE DEF a
<1>2. /\ mem' = [b \in 0..Top |-> mem'[b]]
      /\ mem'[a] = v /\ \A b \in 0..Top : b # a => mem'[b] = mem[b]
  BY <1>1, <1>a, MemWritten
<1>3. ASSUME NEW q \in FieldNames, q # r
      PROVE  Imaged(q)' = Imaged(q)
  <2>1. m + Offset[q] \in 0..Top
    BY ImagedIs, Numbers
  <2>2. m + Offset[q] # a
    BY <1>3, <1>j
  <2>3. Imaged(q)' = mem'[m + Offset[q]] /\ Imaged(q) = mem[m + Offset[q]]
    BY DEF Imaged
  <2>q. QED  BY <1>2, <2>1, <2>2, <2>3
<1>q. QED  BY <1>1, <1>2, <1>3, <1>i

-----------------------------------------------------------------------------
(* A trampoline. *)

\* What is known inside a trampoline.
LEMMA InEntry ==
  ASSUME IInv, NEW f \in Entries, pc[1] = f
  PROVE  LET n == Arity(f)
             i == pc[2]
             P == Programs[f]
         IN  /\ n \in 1..3 /\ i \in Nat /\ pc = <<f, i>> /\ f \in DOMAIN Programs
             /\ i \in 1..(2 * n + (IF f = "resume" THEN 6 ELSE 8))
             /\ Shape /\ Asked /\ chosen = InitialRegs /\ Kept(Caller) /\ Behind(f)
             /\ EntryAt(f, i)
             /\ \A k \in 1..(2 * n + 6) : P[k] = Trampoline(n, Dispatch(f))[k]
             /\ f # "resume" => P[2 * n + 7] = Lea(STACK, "rsp", "rsp") /\ P[2 * n + 8] = Ret
<1>1. ~Unwound
  BY DEF Unwound, Entries
<1>2. pc[2] \in 1..(2 * Arity(f) + (IF f = "resume" THEN 6 ELSE 8)) /\ Behind(f)
  BY DEF IInv, EntryInv, EntryAt
<1>3. pc = <<f, pc[2]>>
  BY DEF IInv, Shape
<1>q. QED  BY <1>1, <1>2, <1>3, EntryPrograms, ProgramsAre DEF IInv, Stacked, EntryInv

\* A step inside a trampoline has to establish what comes next.
LEMMA EntryOnward ==
  ASSUME IInv, NEW f \in Entries, NEW i \in Nat, pc = <<f, i>>, GoesOn(f, i),
         regs' = [q \in Names |-> regs'[q]], mem' = [b \in 0..Top |-> mem'[b]],
         \A b \in 0..Top : b >= Caller => mem'[b] = mem[b],
         i + 1 <= 2 * Arity(f) + (IF f = "resume" THEN 6 ELSE 8), EntryAt(f, i + 1)'
  PROVE  IInv'
<1>1. Kept(Caller)' /\ chosen' = InitialRegs /\ chosen' = chosen /\ asked' = asked
  BY InEntry, Numbers DEF Kept, GoesOn
<1>2. pc' = <<f, i + 1>> /\ pc'[1] = f
  BY DEF GoesOn
<1>3. ~Unwound'
  BY <1>2 DEF Unwound, Entries
<1>4. Stacked'
  BY <1>1, <1>3, Numbers DEF Stacked, InitialRegs
<1>5. Shape' /\ Asked'
  BY <1>1, <1>2 DEF Shape, IInv, Asked
<1>6. EntryInv(f)'
  BY <1>2, EntryPrograms DEF EntryInv
<1>q. QED  BY <1>2, <1>4, <1>5, <1>6, AtEntry DEF Common

\* A signal in a trampoline, whose storage lies above its stack pointer.
LEMMA EntrySignal ==
  ASSUME IInv, NEW f \in Entries, NEW i \in Nat, pc = <<f, i>>, Signal
  PROVE  IInv'
<1> DEFINE n == Arity(f)
<1>1. /\ n \in 1..3
      /\ i \in 1..(2 * n + (IF f = "resume" THEN 6 ELSE 8))
      /\ Shape /\ Asked /\ chosen = InitialRegs /\ Kept(Caller) /\ EntryAt(f, i) /\ Behind(f)
  BY InEntry
<1> HIDE DEF n
<1>2. PICK s \in {Caller - 1, Base} : regs["rsp"] = Stack(s) /\ (s # Base => i = 1 \/ i = 2 * n + 8)
  BY <1>1 DEF EntryAt, n
<1>3. /\ UNCHANGED <<regs, pc, asked, image, chosen>>
      /\ mem' = [b \in 0..Top |-> mem'[b]]
      /\ \A b \in 0..Top : b >= s => mem'[b] = mem[b]
  BY <1>2, SignalStep, Numbers
<1>4. EntryAt(f, i)'
  <2>1. Behind(f)'
    BY <1>1, <1>2, <1>3, Numbers DEF Behind, Callers
  <2>2. i # 1 /\ i # 2 * n + 8 => \A b \in 0..Top : b >= Base => mem'[b] = mem[b]
    BY <1>2, <1>3
  <2>3. i <= 2 * n + 6 => \A j \in 1..n : j + 1 < i => Argument(j)' = Of(Arguments[j])
    BY <1>1, <2>2, Numbers DEF EntryAt, Argument, n
  <2>4. i \in (n + 5)..(2 * n + 6) => Described'
    <3> SUFFICES ASSUME i \in (n + 5)..(2 * n + 6) PROVE Described'
      OBVIOUS
    <3>1. Described /\ image = Base /\ image' = Base
      BY <1>1, <1>3 DEF EntryAt, n, Behind
    <3>2. \A b \in Base..(Base + 18) : mem'[b] = mem[b]
      BY <1>1, <2>2, Numbers
    <3>q. QED  BY <3>1, <3>2, DescribedSame
  <2>5. /\ regs'["rsp"] = IF i = 1 \/ i = 2 * n + 8 THEN Stack(Caller - 1) ELSE Stack(Base)
        /\ i <= n + 2 => \A j \in 1..n : regs'[Arguments[j]] = Of(Arguments[j])
        /\ i \in {n + 3, n + 4} => regs'["rsi"] = Stack(Caller - 1)
        /\ i \in {n + 4, 2 * n + 6} => regs'["rdi"] = Stack(Base)
        /\ i \in (n + 5)..(2 * n + 6) =>
             \A j \in 1..n : i + j > 2 * n + 5 => regs'[Arguments[j + 1]] = Of(Arguments[j])
        /\ i > 2 * n + 6 => regs'["rax"] = <<"reason", f>>
    BY <1>1, <1>3 DEF EntryAt, n
  <2>q. QED  BY <2>1, <2>3, <2>4, <2>5 DEF EntryAt, n
<1>5. Common' /\ EntryInv(f)'
  <2>1. ~Unwound'
    BY <1>1, <1>3 DEF Unwound, Entries
  <2>2. Kept(Caller)'
    BY <1>1, <1>2, <1>3, Numbers DEF Kept
  <2>3. Shape' /\ Asked' /\ chosen' = InitialRegs
    BY <1>1, <1>3 DEF Shape, Asked
  <2>q. QED  BY <1>1, <1>3, <1>4, <2>1, <2>2, <2>3 DEF Common, Stacked, EntryInv, n, InitialRegs
<1>q. QED  BY <1>1, <1>3, <1>5, AtEntry

\* A step that keeps the return address and the preserved registers.
LEMMA BehindKept ==
  ASSUME NEW f \in Entries, Behind(f), UNCHANGED <<asked, image, chosen>>,
         mem'[Caller - 1] = mem[Caller - 1],
         \A r \in Preserved : regs'[r] = regs[r]
  PROVE  Behind(f)'
BY DEF Behind, Callers, InitialRegs

\* The address computations of a trampoline.
LEMMA EntryLea ==
  ASSUME IInv, NEW f \in Entries, NEW i \in Nat, pc = <<f, i>>, Next, ~Signal,
         i \in {1, Arity(f) + 2, Arity(f) + 3, 2 * Arity(f) + 5, 2 * Arity(f) + 7}
  PROVE  IInv'
<1> DEFINE n == Arity(f)
<1>1. /\ n \in 1..3 /\ f \in DOMAIN Programs
      /\ i \in 1..(2 * n + (IF f = "resume" THEN 6 ELSE 8))
      /\ Shape /\ EntryAt(f, i) /\ Behind(f)
      /\ \A k \in 1..(2 * n + 6) : Programs[f][k] = Trampoline(n, Dispatch(f))[k]
      /\ f # "resume" => Programs[f][2 * n + 7] = Lea(STACK, "rsp", "rsp")
  BY InEntry
<1>2. Listing(Trampoline(n, Dispatch(f)), n, Dispatch(f))
  BY <1>1, TrampolineCode
<1> HIDE DEF n
<1>3. PICK off \in {-STACK, STACK, 0}, r \in {"rsp", "rsi", "rdi"} :
        /\ Programs[f][i] = Lea(off, "rsp", r)
        /\ i = 1 => off = -STACK /\ r = "rsp"
        /\ i = n + 2 => off = STACK /\ r = "rsi"
        /\ i \in {n + 3, 2 * n + 5} => off = 0 /\ r = "rdi"
        /\ i = 2 * n + 7 => off = STACK /\ r = "rsp"
  BY <1>1, <1>2 DEF Listing, n
<1>4. /\ GoesOn(f, i) /\ mem' = mem
      /\ regs' = [regs EXCEPT ![r] = Stack(regs["rsp"][2] + off)]
  BY <1>1, <1>3, LeaStep
<1>5. regs["rsp"][2] = IF i = 1 THEN Caller - 1 ELSE Base
  BY <1>1, Numbers DEF EntryAt, n, Stack
<1>6. /\ regs' = [q \in Names |-> regs'[q]]
      /\ regs'[r] = Stack((IF i = 1 THEN Caller - 1 ELSE Base) + off)
      /\ \A q \in Names : q # r => regs'[q] = regs[q]
      /\ r \notin Preserved
  <2>1. r \in Names /\ r \notin Preserved
    BY Registers
  <2>2. regs' = [regs EXCEPT ![r] = Stack((IF i = 1 THEN Caller - 1 ELSE Base) + off)]
    BY <1>4, <1>5
  <2>q. QED  BY <1>1, <2>1, <2>2, RegWritten
<1>7. Behind(f)'
  <2>1. \A q \in Preserved : regs'[q] = regs[q]
    BY <1>6, Registers
  <2>2. UNCHANGED <<asked, image, chosen>>
    BY <1>4 DEF GoesOn
  <2>q. QED  BY <1>1, <1>4, <2>1, <2>2, BehindKept
<1>8. i \in (n + 4)..(2 * n + 5) => Described'
  BY <1>1, <1>4, <1>7, DescribedSame DEF EntryAt, n, Behind
<1>9. EntryAt(f, i + 1)'
  <2>1. CASE i = 1
    <3>1. r = "rsp" /\ regs'["rsp"] = Stack(Base)
      BY <2>1, <1>3, <1>6, Numbers
    <3>2. \A j \in 1..n : regs'[Arguments[j]] = Of(Arguments[j])
      BY <2>1, <3>1, <1>1, <1>6, Registers DEF EntryAt, n
    <3>q. QED  BY <2>1, <3>1, <3>2, <1>1, <1>7 DEF EntryAt, n
  <2>2. CASE i = n + 2
    BY <2>2, <1>1, <1>3, <1>4, <1>6, <1>7, Numbers, Registers DEF EntryAt, Argument, n
  <2>3. CASE i = n + 3
    BY <2>3, <1>1, <1>3, <1>4, <1>6, <1>7, Numbers, Registers DEF EntryAt, Argument, n
  <2>4. CASE i = 2 * n + 5
    BY <2>4, <1>1, <1>3, <1>4, <1>6, <1>7, <1>8, Numbers, Registers DEF EntryAt, Argument, n
  <2>5. CASE i = 2 * n + 7
    BY <2>5, <1>1, <1>3, <1>4, <1>6, <1>7, Numbers, Registers DEF EntryAt, n
  <2>q. QED  BY <2>1, <2>2, <2>3, <2>4, <2>5 DEF n
<1>10. i + 1 <= 2 * n + (IF f = "resume" THEN 6 ELSE 8)
  BY <1>1 DEF n
<1>q. QED  BY <1>1, <1>4, <1>6, <1>9, <1>10, EntryOnward DEF n, Shape

\* It saves an argument.
LEMMA EntryStore ==
  ASSUME IInv, NEW f \in Entries, NEW i \in Nat, pc = <<f, i>>, Next, ~Signal,
         i \in 2..(Arity(f) + 1)
  PROVE  IInv'
<1> DEFINE n == Arity(f)
           j == i - 1
           a == Base + FIRST + (j - 1)
<1>1. /\ n \in 1..3 /\ f \in DOMAIN Programs
      /\ Shape /\ EntryAt(f, i) /\ Behind(f)
      /\ \A k \in 1..(2 * n + 6) : Programs[f][k] = Trampoline(n, Dispatch(f))[k]
  BY InEntry
<1>2. Listing(Trampoline(n, Dispatch(f)), n, Dispatch(f))
  BY <1>1, TrampolineCode
<1> HIDE DEF n
<1>3. j \in 1..n /\ i = j + 1 /\ i \in 1..(2 * n + 6)
  BY <1>1 DEF n
<1>4. a \in Base..(Caller - 2) /\ a \in 0..Top /\ a = Base + 18 + j
  BY <1>1, <1>3, Numbers
<1> HIDE DEF j, a
<1>5. Programs[f][i] = Store(Arguments[j], FIRST + (j - 1), "rsp")
  BY <1>1, <1>2, <1>3 DEF Listing
<1>6. /\ regs["rsp"][2] + (FIRST + (j - 1)) = a
      /\ regs[Arguments[j]] = Of(Arguments[j])
  <2>1. regs["rsp"] = Stack(Base)
    BY <1>1, <1>3 DEF EntryAt, n
  <2>2. regs["rsp"][2] = Base
    BY <2>1 DEF Stack
  <2>3. i <= n + 2
    BY <1>1, <1>3
  <2>q. QED  BY <1>1, <1>3, <1>4, <2>2, <2>3, Numbers DEF EntryAt, n, a
<1>7. /\ GoesOn(f, i) /\ regs' = regs
      /\ mem' = [mem EXCEPT ![a] = Of(Arguments[j])]
  <2>1. /\ GoesOn(f, i) /\ regs' = regs
        /\ mem' = [mem EXCEPT ![regs["rsp"][2] + (FIRST + (j - 1))] = regs[Arguments[j]]]
    BY <1>1, <1>5, StoreStep
  <2>q. QED  BY <2>1, <1>6
<1>8. /\ mem' = [b \in 0..Top |-> mem'[b]] /\ mem'[a] = Of(Arguments[j])
      /\ \A b \in 0..Top : b # a => mem'[b] = mem[b]
  BY <1>1, <1>4, <1>7, MemWritten
<1>9. Behind(f)'
  <2>1. Caller - 1 \in 0..Top /\ Caller - 1 # a
    BY <1>4, Numbers
  <2>q. QED  BY <1>1, <1>7, <1>8, <2>1, BehindKept DEF GoesOn
<1>10. ASSUME NEW k \in 1..n, k + 1 < i + 1
       PROVE  Argument(k)' = Of(Arguments[k])
  <2>1. CASE k = j
    <3>1. Argument(k)' = mem'[Base + FIRST + (k - 1)]
      BY DEF Argument
    <3>q. QED  BY <2>1, <3>1, <1>8 DEF a
  <2>2. CASE k # j
    <3>1. k + 1 < i
      BY <1>3, <1>10, <2>2, <1>1
    <3>2. Argument(k) = Of(Arguments[k])
      BY <1>1, <1>3, <3>1 DEF EntryAt, n
    <3>3. Base + FIRST + (k - 1) \in 0..Top /\ Base + FIRST + (k - 1) # a
      BY <1>1, <1>3, <1>4, <2>2, Numbers
    <3>4. mem'[Base + FIRST + (k - 1)] = mem[Base + FIRST + (k - 1)]
      BY <3>3, <1>8
    <3>q. QED  BY <3>2, <3>4 DEF Argument
  <2>q. QED  BY <2>1, <2>2
<1>11. EntryAt(f, i + 1)'
  <2>1. i + 1 <= n + 2 /\ i + 1 # 1
    BY <1>1, <1>3
  <2>2. /\ regs'["rsp"] = Stack(Base)
        /\ \A k \in 1..n : regs'[Arguments[k]] = Of(Arguments[k])
    BY <1>1, <1>3, <1>7, <2>1 DEF EntryAt, n
  <2>q. QED  BY <1>1, <1>3, <1>9, <1>10, <2>1, <2>2 DEF EntryAt, n
<1>12. \A b \in 0..Top : b >= Caller => mem'[b] = mem[b]
  BY <1>4, <1>8, Numbers
<1>13. i + 1 <= 2 * Arity(f) + (IF f = "resume" THEN 6 ELSE 8) /\ regs' = [q \in Names |-> regs'[q]]
  BY <1>1, <1>3, <1>7 DEF n, Shape
<1>q. QED  BY <1>1, <1>7, <1>8, <1>11, <1>12, <1>13, EntryOnward

\* It restores an argument, one register further on.
LEMMA EntryLoad ==
  ASSUME IInv, NEW f \in Entries, NEW i \in Nat, pc = <<f, i>>, Next, ~Signal,
         i \in (Arity(f) + 5)..(2 * Arity(f) + 4)
  PROVE  IInv'
<1> DEFINE n == Arity(f)
           j == (2 * n + 5) - i
           a == Base + FIRST + (j - 1)
<1>1. /\ n \in 1..3 /\ f \in DOMAIN Programs
      /\ Shape /\ EntryAt(f, i) /\ Behind(f)
      /\ \A k \in 1..(2 * n + 6) : Programs[f][k] = Trampoline(n, Dispatch(f))[k]
  BY InEntry
<1>2. Listing(Trampoline(n, Dispatch(f)), n, Dispatch(f))
  BY <1>1, TrampolineCode
<1> HIDE DEF n
<1>n. n \in 1..3
  BY <1>1
<1>3. /\ j \in 1..n /\ i = (2 * n + 5) - j /\ i \in (n + 5)..(2 * n + 4) /\ i \in 1..(2 * n + 6)
      /\ i - (n + 4) \in 1..n /\ n + 4 + (i - (n + 4)) = i
      /\ n - (i - (n + 4)) = j - 1 /\ (n - (i - (n + 4))) + 2 = j + 1
  BY <1>1 DEF n
<1> HIDE DEF j, a
<1>4. Programs[f][i] = Load(FIRST + (j - 1), "rsp", Arguments[j + 1])
  <2>1. \A k \in 1..n : Trampoline(n, Dispatch(f))[n + 4 + k]
                           = Load(FIRST + (n - k), "rsp", Arguments[n - k + 2])
    BY <1>2 DEF Listing
  <2>q. QED  BY <1>1, <1>3, <2>1
<1>5. /\ regs["rsp"][2] + (FIRST + (j - 1)) = a
      /\ mem[a] = Of(Arguments[j])
  <2>1. regs["rsp"] = Stack(Base)
    <3>1. ~(i = 1 \/ i = 2 * n + 8)
      BY <1>n, <1>3
    <3>q. QED  BY <1>1, <3>1 DEF EntryAt, n
  <2>2. regs["rsp"][2] = Base
    BY <2>1 DEF Stack
  <2>3. Argument(j) = Of(Arguments[j])
    <3>1. j + 1 < i /\ i <= 2 * n + 6
      BY <1>1, <1>3
    <3>q. QED  BY <1>1, <1>3, <3>1 DEF EntryAt, n
  <2>q. QED  BY <1>1, <1>3, <2>2, <2>3, Numbers DEF Argument, a
<1>6. /\ GoesOn(f, i) /\ mem' = mem
      /\ regs' = [regs EXCEPT ![Arguments[j + 1]] = Of(Arguments[j])]
  <2>1. /\ GoesOn(f, i) /\ mem' = mem
        /\ regs' = [regs EXCEPT ![Arguments[j + 1]] = mem[regs["rsp"][2] + (FIRST + (j - 1))]]
    BY <1>1, <1>4, LoadStep
  <2>q. QED  BY <2>1, <1>5
<1>7. Arguments[j + 1] \in Volatile /\ Arguments[j + 1] \in Names
  BY <1>1, <1>3, Registers
<1>8. /\ regs' = [q \in Names |-> regs'[q]] /\ regs'[Arguments[j + 1]] = Of(Arguments[j])
      /\ \A q \in Names : q # Arguments[j + 1] => regs'[q] = regs[q]
  BY <1>1, <1>6, <1>7, RegWritten
<1>9. Behind(f)'
  <2>1. \A r \in Preserved : regs'[r] = regs[r]
    BY <1>7, <1>8, Registers
  <2>q. QED  BY <1>1, <1>6, <2>1, BehindKept DEF GoesOn
<1>10. Described'
  BY <1>1, <1>3, <1>6, <1>9, DescribedSame DEF EntryAt, n, Behind
<1>11. ASSUME NEW k \in 1..n, (i + 1) + k > 2 * n + 5
       PROVE  regs'[Arguments[k + 1]] = Of(Arguments[k])
  <2>1. CASE k = j
    BY <2>1, <1>8
  <2>2. CASE k # j
    <3>1. i + k > 2 * n + 5 /\ i \in (n + 5)..(2 * n + 6)
      BY <1>1, <1>3, <1>11, <2>2
    <3>2. regs[Arguments[k + 1]] = Of(Arguments[k])
      BY <1>1, <3>1 DEF EntryAt, n
    <3>3. k + 1 \in 1..4 /\ j + 1 \in 1..4 /\ k + 1 # j + 1
      BY <1>n, <1>3, <2>2
    <3>4. Arguments[k + 1] # Arguments[j + 1] /\ Arguments[k + 1] \in Names
      BY <3>3, Registers
    <3>q. QED  BY <3>2, <3>4, <1>8
  <2>q. QED  BY <2>1, <2>2
<1>12. EntryAt(f, i + 1)'
  <2>1. i + 1 \in (n + 5)..(2 * n + 5) /\ i \in (n + 5)..(2 * n + 6)
    BY <1>1, <1>3
  <2>2. regs'["rsp"] = Stack(Base)
    BY <1>1, <1>3, <1>7, <1>8, <2>1, Registers DEF EntryAt, n
  <2>3. \A k \in 1..n : Argument(k)' = Of(Arguments[k])
    <3>1. \A k \in 1..n : Argument(k) = Of(Arguments[k])
      BY <1>1, <2>1 DEF EntryAt, n
    <3>q. QED  BY <3>1, <1>6 DEF Argument
  <2>q. QED  BY <1>1, <1>9, <1>10, <1>11, <2>1, <2>2, <2>3 DEF EntryAt, n
<1>13. i + 1 <= 2 * Arity(f) + (IF f = "resume" THEN 6 ELSE 8)
  <2>1. i + 1 <= 2 * n + 5 /\ 2 * n \in Nat
    BY <1>n, <1>3
  <2>q. QED  BY <2>1 DEF n
<1>q. QED  BY <1>1, <1>6, <1>8, <1>12, <1>13, EntryOnward DEF Shape

\* It calls Registers::entry.
LEMMA EntryCalls ==
  ASSUME IInv, NEW f \in Entries, NEW i \in Nat, pc = <<f, i>>, Next, ~Signal,
         i = Arity(f) + 4
  PROVE  IInv'
<1> DEFINE n == Arity(f)
<1>1. /\ n \in 1..3 /\ f \in DOMAIN Programs /\ Kept(Caller) /\ chosen = InitialRegs
      /\ Shape /\ EntryAt(f, i) /\ Behind(f)
      /\ \A k \in 1..(2 * n + 6) : Programs[f][k] = Trampoline(n, Dispatch(f))[k]
  BY InEntry
<1>2. Listing(Trampoline(n, Dispatch(f)), n, Dispatch(f))
  BY <1>1, TrampolineCode
<1> HIDE DEF n
<1>3. i = n + 4 /\ i + 1 = n + 5 /\ i \in 1..(2 * n + 6)
  BY <1>1 DEF n
<1>4. Programs[f][i] = Call("entry")
  BY <1>1, <1>2, <1>3 DEF Listing
<1>5. /\ pc' = <<"entry", 1>> /\ UNCHANGED <<asked, image, chosen>>
      /\ Pushed(Code(f, n + 5))
  BY <1>1, <1>3, <1>4, CallStep
<1>6. /\ regs["rsp"] = Stack(Base) /\ regs["rdi"] = Stack(Base) /\ regs["rsi"] = Stack(Caller - 1)
      /\ \A j \in 1..n : Argument(j) = Of(Arguments[j])
  <2>1. ~(i = 1 \/ i = 2 * n + 8) /\ i \in {n + 3, n + 4} /\ i \in {n + 4, 2 * n + 6} /\ i <= 2 * n + 6
    BY <1>1, <1>3
  <2>2. \A j \in 1..n : j + 1 < i
    BY <1>1, <1>3
  <2>q. QED  BY <1>1, <2>1, <2>2 DEF EntryAt, n
<1>7. Base \in 1..(Top + 1) /\ Base <= Caller - 2
  BY Numbers
<1>8. /\ regs' = [q \in Names |-> regs'[q]] /\ mem' = [b \in 0..Top |-> mem'[b]]
      /\ regs'["rsp"] = Stack(Base - 1) /\ \A q \in Names : q # "rsp" => regs'[q] = regs[q]
      /\ mem'[Base - 1] = Code(f, n + 5) /\ \A b \in 0..Top : b # Base - 1 => mem'[b] = mem[b]
  BY <1>1, <1>5, <1>6, <1>7, PushedStep
<1>9. Behind(f)'
  <2>1. Caller - 1 \in 0..Top /\ Caller - 1 # Base - 1
    BY <1>7, Numbers
  <2>2. \A q \in Preserved : regs'[q] = regs[q]
    BY <1>8, Registers
  <2>q. QED  BY <1>1, <1>5, <1>8, <2>1, <2>2, BehindKept
<1>10. ASSUME NEW j \in 1..n
       PROVE  Argument(j)' = Of(Arguments[j])
  <2>1. Base + FIRST + (j - 1) \in 0..Top /\ Base + FIRST + (j - 1) # Base - 1
    BY <1>1, Numbers
  <2>q. QED  BY <1>6, <1>8, <2>1 DEF Argument
<1>11. asked' = f
  BY <1>9 DEF Behind
<1>12. CaptureInv'
  <2>1. regs'["rdi"] = Stack(Base) /\ regs'["rsi"] = Stack(Caller - 1)
    BY <1>6, <1>8, Registers
  <2>q. QED  BY <1>5, <1>8, <1>9, <1>10, <1>11, <2>1
                DEF CaptureInv, CaptureFrame, CaptureDone, n
<1>13. Common'
  <2>1. Kept(Caller)'
    <3>1. \A b \in 0..Top : b >= Caller => b # Base - 1
      BY <1>7, Numbers
    <3>q. QED  BY <1>1, <1>8, <3>1, Numbers, KeptSame
  <2>2. chosen' = InitialRegs
    BY <1>1, <1>5
  <2>q. QED
    BY <1>1, <1>5, <1>8, <1>11, <2>1, <2>2
       DEF Common, Shape, Asked, Stacked, Unwound, InitialRegs
<1>q. QED  BY <1>5, <1>12, <1>13, AtElsewhere DEF Elsewhere

\* It calls the Rust code.
LEMMA EntryContinues ==
  ASSUME IInv, NEW f \in Entries, NEW i \in Nat, pc = <<f, i>>, Next, ~Signal,
         i = 2 * Arity(f) + 6
  PROVE  IInv'
<1> DEFINE n == Arity(f)
<1>1. /\ n \in 1..3 /\ f \in DOMAIN Programs /\ Kept(Caller) /\ chosen = InitialRegs
      /\ Shape /\ EntryAt(f, i) /\ Behind(f)
      /\ \A k \in 1..(2 * n + 6) : Programs[f][k] = Trampoline(n, Dispatch(f))[k]
  BY InEntry
<1>2. Listing(Trampoline(n, Dispatch(f)), n, Dispatch(f))
  BY <1>1, TrampolineCode
<1> HIDE DEF n
<1>3. i = 2 * n + 6 /\ i + 1 = 2 * n + 7 /\ i \in 1..(2 * n + 6)
  BY <1>1 DEF n
<1>4. Programs[f][i] = Call(Dispatch(f))
  BY <1>1, <1>2, <1>3 DEF Listing
<1>5. /\ pc' = <<Dispatch(f), 1>> /\ UNCHANGED <<asked, image, chosen>>
      /\ Pushed(Code(f, 2 * n + 7))
  BY <1>1, <1>3, <1>4, CallStep
<1>6. /\ regs["rsp"] = Stack(Base) /\ regs["rdi"] = Stack(Base) /\ Described
      /\ \A j \in 1..n : regs[Arguments[j + 1]] = Of(Arguments[j])
  <2>1. ~(i = 1 \/ i = 2 * n + 8) /\ i \in (n + 5)..(2 * n + 6) /\ i \in {n + 4, 2 * n + 6}
    BY <1>1, <1>3
  <2>2. \A j \in 1..n : i + j > 2 * n + 5
    BY <1>1, <1>3
  <2>q. QED  BY <1>1, <2>1, <2>2 DEF EntryAt, n
<1>7. Base \in 1..(Top + 1) /\ Base <= Caller - 2
  BY Numbers
<1>8. /\ regs' = [q \in Names |-> regs'[q]] /\ mem' = [b \in 0..Top |-> mem'[b]]
      /\ regs'["rsp"] = Stack(Base - 1) /\ \A q \in Names : q # "rsp" => regs'[q] = regs[q]
      /\ mem'[Base - 1] = Code(f, 2 * n + 7) /\ \A b \in 0..Top : b # Base - 1 => mem'[b] = mem[b]
  BY <1>1, <1>5, <1>6, <1>7, PushedStep
<1>9. Behind(f)'
  <2>1. Caller - 1 \in 0..Top /\ Caller - 1 # Base - 1
    BY <1>7, Numbers
  <2>2. \A q \in Preserved : regs'[q] = regs[q]
    BY <1>8, Registers
  <2>q. QED  BY <1>1, <1>5, <1>8, <2>1, <2>2, BehindKept
<1>10. Described'
  <2>1. \A b \in Base..(Base + 18) : mem'[b] = mem[b]
    BY <1>8, Numbers
  <2>q. QED  BY <1>1, <1>6, <1>9, <2>1, DescribedSame DEF Behind
<1>11. asked' = f
  BY <1>9 DEF Behind
<1>12. DispatchInv(f)'
  <2>1. /\ regs'["rdi"] = Stack(Base)
        /\ \A j \in 1..n : regs'[Arguments[j + 1]] = Of(Arguments[j])
    BY <1>1, <1>6, <1>8, Registers
  <2>q. QED  BY <1>5, <1>8, <1>9, <1>10, <2>1 DEF DispatchInv, n
<1>13. Common'
  <2>1. Kept(Caller)'
    <3>1. \A b \in 0..Top : b >= Caller => b # Base - 1
      BY <1>7, Numbers
    <3>q. QED  BY <1>1, <1>8, <3>1, Numbers, KeptSame
  <2>2. chosen' = InitialRegs
    BY <1>1, <1>5
  <2>3. pc'[1] \notin {"jump", "pad"}
    BY <1>5, DispatchIs, ProgramsAre
  <2>q. QED
    BY <1>1, <1>5, <1>8, <1>11, <2>1, <2>2, <2>3
       DEF Common, Shape, Asked, Stacked, Unwound, InitialRegs
<1>q. QED  BY <1>5, <1>12, <1>13, AtDispatch

\* It returns to the program.
LEMMA EntryReturns ==
  ASSUME IInv, NEW f \in Entries, NEW i \in Nat, pc = <<f, i>>, Next, ~Signal,
         i = 2 * Arity(f) + 8
  PROVE  IInv'
<1> DEFINE n == Arity(f)
<1>1. /\ n \in 1..3 /\ f \in DOMAIN Programs /\ Kept(Caller) /\ chosen = InitialRegs
      /\ i \in 1..(2 * n + (IF f = "resume" THEN 6 ELSE 8))
      /\ Shape /\ EntryAt(f, i) /\ Behind(f)
      /\ f # "resume" => Programs[f][2 * n + 8] = Ret
  BY InEntry
<1> HIDE DEF n
<1>2. i = 2 * n + 8 /\ f # "resume"
  BY <1>1 DEF n
<1>3. Programs[f][i] = Ret
  BY <1>1, <1>2
<1>4. /\ pc' = mem[Sp][2] /\ UNCHANGED <<asked, image, chosen, mem>>
      /\ regs' = [regs EXCEPT !["rsp"] = Stack(Sp + 1)]
  BY <1>1, <1>3, RetStep
<1>5. regs["rsp"] = Stack(Caller - 1) /\ regs["rax"] = <<"reason", f>>
  BY <1>1, <1>2 DEF EntryAt, n
<1>6. Sp = Caller - 1 /\ Sp + 1 = Caller
  BY <1>5, Numbers DEF Sp, Stack
<1>7. pc' = <<"program", 1>>
  BY <1>1, <1>4, <1>6 DEF Behind, InProgram, Code
<1>8. /\ regs' = [q \in Names |-> regs'[q]] /\ regs'["rsp"] = Stack(Caller)
      /\ \A q \in Names : q # "rsp" => regs'[q] = regs[q]
  BY <1>1, <1>4, <1>6, Registers, RegWritten
<1>9. asked' = f /\ f # "none"
  BY <1>1, <1>4 DEF Behind, Entries
<1>10. ProgramInv'
  <2>1. Callers'
    BY <1>1, <1>8, Registers DEF Behind, Callers
  <2>q. QED  BY <1>5, <1>7, <1>8, <1>9, <2>1, Registers DEF ProgramInv
<1>11. Common'
  <2>1. Kept(Caller)'
    BY <1>1, <1>4 DEF Kept
  <2>2. chosen' = InitialRegs
    BY <1>1, <1>4
  <2>3. pc' = <<pc'[1], pc'[2]>> /\ pc'[1] = "program"
    BY <1>7
  <2>4. mem' = [b \in 0..Top |-> mem'[b]] /\ chosen' = [r \in Names |-> chosen'[r]]
    BY <1>1, <1>4 DEF Shape
  <2>5. Stacked'
    BY <2>1, <2>2, <2>3 DEF Stacked, Unwound, InitialRegs
  <2>q. QED  BY <1>8, <1>9, <2>3, <2>4, <2>5 DEF Common, Shape, Asked
<1>q. QED  BY <1>7, <1>10, <1>11, AtElsewhere DEF Elsewhere

\* Every step of a trampoline.
LEMMA EntrySteps ==
  ASSUME IInv, NEW f \in Entries, pc[1] = f, Next
  PROVE  IInv'
<1>1. PICK i \in Nat : i = pc[2] /\ pc = <<f, i>> /\ Arity(f) \in 1..3
                       /\ i \in 1..(2 * Arity(f) + (IF f = "resume" THEN 6 ELSE 8))
  BY InEntry
<1>2. CASE Signal
  BY <1>1, <1>2, EntrySignal
<1>3. CASE ~Signal
  <2>1. CASE i \in {1, Arity(f) + 2, Arity(f) + 3, 2 * Arity(f) + 5, 2 * Arity(f) + 7}
    BY <1>1, <1>3, <2>1, EntryLea
  <2>2. CASE i \in 2..(Arity(f) + 1)
    BY <1>1, <1>3, <2>2, EntryStore
  <2>3. CASE i = Arity(f) + 4
    BY <1>1, <1>3, <2>3, EntryCalls
  <2>4. CASE i \in (Arity(f) + 5)..(2 * Arity(f) + 4)
    BY <1>1, <1>3, <2>4, EntryLoad
  <2>5. CASE i = 2 * Arity(f) + 6
    BY <1>1, <1>3, <2>5, EntryContinues
  <2>6. CASE i = 2 * Arity(f) + 8
    BY <1>1, <1>3, <2>6, EntryReturns
  <2>q. QED
    <3>1. i \in 1..(2 * Arity(f) + 8)
      BY <1>1
    <3>q. QED  BY <3>1, <1>1, <2>1, <2>2, <2>3, <2>4, <2>5, <2>6
<1>q. QED  BY <1>2, <1>3

-----------------------------------------------------------------------------
(* Registers::entry. *)

\* What is known inside Registers::entry.
LEMMA InCapturing ==
  ASSUME IInv, NEW i \in Nat, pc = <<"entry", i>>
  PROVE  /\ "entry" \in DOMAIN Programs /\ Programs["entry"] = Entry /\ i \in 1..24
         /\ Shape /\ chosen = InitialRegs /\ Kept(Caller)
         /\ CaptureFrame /\ CaptureDone(i) /\ asked \in Entries /\ image = Base
BY ProgramsAre DEF IInv, Stacked, Unwound, CaptureInv, CaptureFrame, Behind

\* A step inside Registers::entry has to establish what comes next.
LEMMA CaptureOnward ==
  ASSUME IInv, NEW i \in 1..23, pc = <<"entry", i>>, GoesOn("entry", i),
         regs' = [q \in Names |-> regs'[q]], mem' = [b \in 0..Top |-> mem'[b]],
         \A b \in 0..Top : b >= Caller => mem'[b] = mem[b],
         CaptureFrame', CaptureDone(i + 1)'
  PROVE  IInv'
<1>a. Kept(Caller) /\ chosen = InitialRegs /\ asked \in Entries
  BY InCapturing
<1>1. Kept(Caller)' /\ chosen' = InitialRegs /\ asked' \in Entries
  BY <1>a, Numbers, KeptSame DEF GoesOn
<1>2. pc' = <<"entry", i + 1>>
  BY DEF GoesOn
<1>3. Stacked'
  BY <1>1, <1>2 DEF Stacked, Unwound, InitialRegs
<1>4. Shape' /\ Asked'
  BY <1>1, <1>2, InCapturing DEF Shape, Asked, GoesOn
<1>5. CaptureInv'
  <2>1. i + 1 \in 1..24
    OBVIOUS
  <2>q. QED  BY <1>2, <2>1 DEF CaptureInv
<1>q. QED  BY <1>2, <1>3, <1>4, <1>5, AtElsewhere DEF Common, Elsewhere

\* A step that leaves the stack above the image and the other registers alone.
LEMMA CaptureFrameKept ==
  ASSUME CaptureFrame, UNCHANGED <<asked, image, chosen>>,
         \A q \in Names : q # "rax" => regs'[q] = regs[q],
         \A b \in 0..Top : b \notin Base..(Base + 18) /\ b >= Base - 1 => mem'[b] = mem[b]
  PROVE  CaptureFrame'
<1>1. PICK f \in Entries : f = asked
  BY DEF CaptureFrame
<1>2. Arity(f) \in 1..3
  BY EntryPrograms
<1>3. "rax" \in Names /\ "rax" \notin Preserved /\ Preserved \subseteq Names
  BY Registers DEF Preserved, Control
<1>4. Behind(f)'
  <2>1. mem'[Caller - 1] = mem[Caller - 1]
    BY Numbers
  <2>q. QED  BY <1>1, <1>3, <2>1, BehindKept DEF CaptureFrame
<1>5. mem'[Base - 1] = mem[Base - 1]
  BY Numbers
<1>6. ASSUME NEW j \in 1..Arity(f)
      PROVE  Argument(j)' = Argument(j)
  <2>1. Base + FIRST + (j - 1) \in 0..Top /\ Base + FIRST + (j - 1) \notin Base..(Base + 18)
        /\ Base + FIRST + (j - 1) >= Base - 1
    BY <1>2, Numbers
  <2>q. QED  BY <2>1 DEF Argument
<1>7. /\ regs'["rsp"] = regs["rsp"] /\ regs'["rdi"] = regs["rdi"] /\ regs'["rsi"] = regs["rsi"]
  BY Registers
<1>q. QED  BY <1>1, <1>4, <1>5, <1>6, <1>7 DEF CaptureFrame

\* A signal in Registers::entry.
LEMMA CaptureSignal ==
  ASSUME IInv, NEW i \in Nat, pc = <<"entry", i>>, Signal
  PROVE  IInv'
<1>1. /\ Shape /\ chosen = InitialRegs /\ Kept(Caller) /\ asked \in Entries /\ i \in 1..24
      /\ CaptureFrame /\ CaptureDone(i) /\ image = Base
  BY InCapturing
<1>2. regs["rsp"] = Stack(Base - 1) /\ Base - 1 \in Int
  BY <1>1, Numbers DEF CaptureFrame
<1>3. /\ UNCHANGED <<regs, pc, asked, image, chosen>>
      /\ mem' = [b \in 0..Top |-> mem'[b]]
      /\ \A b \in 0..Top : b >= (Base - 1) - RedZone => mem'[b] = mem[b]
  BY <1>2, SignalStep
<1>4. \A b \in 0..Top : b >= Base - 1 => mem'[b] = mem[b]
  BY <1>3, Numbers
<1>5. CaptureFrame'
  BY <1>1, <1>3, <1>4, CaptureFrameKept
<1>6. CaptureDone(i)'
  <2>1. \A r \in FieldNames : Imaged(r)' = Imaged(r)
    BY <1>1, <1>3, <1>4, Numbers, ImagedSame
  <2>2. /\ \A k \in 1..15 : EntryOrder[k] \in FieldNames
        /\ {"rsp", "ra", "mxcsr", "fcw"} \subseteq FieldNames
    BY DEF EntryOrder, FieldNames
  <2>3. /\ \A k \in 1..15 : Imaged(EntryOrder[k])' = Imaged(EntryOrder[k])
        /\ \A r \in {"rsp", "ra", "mxcsr", "fcw"} : Imaged(r)' = Imaged(r)
    BY <2>1, <2>2
  <2>4. regs'["rax"] = regs["rax"]
    BY <1>3
  <2>5. /\ \A k \in 1..9 : k < i => Imaged(EntryOrder[k])' = Zero
        /\ \A k \in 10..15 : k < i => Imaged(EntryOrder[k])' = Of(EntryOrder[k])
    BY <1>1, <2>3 DEF CaptureDone
  <2>6. /\ i > 17 => Imaged("rsp")' = Stack(Caller)
        /\ i > 19 => Imaged("ra")' = InProgram
        /\ i > 20 => Imaged("mxcsr")' = IF i > 22 THEN Of("mxcsr") ELSE Zero
        /\ i > 21 => Imaged("fcw")' = IF i > 23 THEN Of("fcw") ELSE Zero
    BY <1>1, <2>3 DEF CaptureDone
  <2>q. QED  BY <1>1, <2>4, <2>5, <2>6 DEF CaptureDone
<1>7. Kept(Caller)'
  BY <1>1, <1>4, Numbers, KeptSame
<1>8. Common' /\ CaptureInv'
  BY <1>1, <1>3, <1>5, <1>6, <1>7
     DEF Common, Shape, Asked, Stacked, Unwound, CaptureInv, InitialRegs
<1>q. QED  BY <1>3, <1>8, AtElsewhere DEF Elsewhere

\* The general registers are fields, written once each.
LEMMA EntryOrderIs ==
  /\ \A k \in 1..9 : EntryOrder[k] \in Volatile
  /\ \A k \in 10..15 : EntryOrder[k] \in Preserved \ {"mxcsr", "fcw"}
  /\ \A r \in Volatile : \E k \in 1..9 : r = EntryOrder[k]
  /\ \A r \in Preserved \ {"mxcsr", "fcw"} : \E k \in 10..15 : r = EntryOrder[k]
  /\ {"mxcsr", "fcw"} \subseteq Preserved
  /\ Volatile \subseteq FieldNames /\ Preserved \subseteq FieldNames /\ {"rsp", "ra"} \subseteq FieldNames
  /\ Volatile \cap Preserved = {} /\ {"rsp", "ra"} \cap (Volatile \cup Preserved) = {}
<1>1. /\ \A k \in 1..9 : EntryOrder[k] \in Volatile
      /\ \A k \in 10..15 : EntryOrder[k] \in Preserved \ {"mxcsr", "fcw"}
  BY DEF EntryOrder, Volatile, Preserved, Control
<1>2. ASSUME NEW r \in Volatile PROVE \E k \in 1..9 : r = EntryOrder[k]
  BY DEF EntryOrder, Volatile
<1>3. ASSUME NEW r \in Preserved \ {"mxcsr", "fcw"} PROVE \E k \in 10..15 : r = EntryOrder[k]
  BY DEF EntryOrder, Preserved, Control
<1>4. /\ {"mxcsr", "fcw"} \subseteq Preserved
      /\ Volatile \subseteq FieldNames /\ Preserved \subseteq FieldNames /\ {"rsp", "ra"} \subseteq FieldNames
      /\ Volatile \cap Preserved = {} /\ {"rsp", "ra"} \cap (Volatile \cup Preserved) = {}
  BY DEF Volatile, Preserved, Control, FieldNames
<1>q. QED  BY <1>1, <1>2, <1>3, <1>4

\* A store into the image keeps the frame.
LEMMA CaptureStored ==
  ASSUME IInv, NEW i \in 1..23, pc = <<"entry", i>>, GoesOn("entry", i), regs' = regs,
         NEW r \in FieldNames, NEW v, mem' = [mem EXCEPT ![Base + Offset[r]] = v]
  PROVE  /\ CaptureDone(i) /\ (CaptureDone(i + 1)' => IInv')
         /\ Imaged(r)' = v /\ \A q \in FieldNames : q # r => Imaged(q)' = Imaged(q)
<1>1. /\ Shape /\ CaptureFrame /\ CaptureDone(i) /\ image = Base
  BY InCapturing
<1>2. Base \in 0..(Top - 18) /\ image' = Base
  BY <1>1, Numbers DEF GoesOn
<1>3. /\ mem' = [b \in 0..Top |-> mem'[b]]
      /\ Imaged(r)' = v /\ \A q \in FieldNames : q # r => Imaged(q)' = Imaged(q)
      /\ \A b \in 0..Top : b \notin Base..(Base + 18) => mem'[b] = mem[b]
  BY <1>1, <1>2, ImageWritten
<1>4. CaptureFrame'
  BY <1>1, <1>3, CaptureFrameKept DEF GoesOn
<1>5. \A b \in 0..Top : b >= Caller => mem'[b] = mem[b]
  BY <1>3, Numbers
<1>6. regs' = [q \in Names |-> regs'[q]]
  BY <1>1 DEF Shape
<1>q. QED  BY <1>1, <1>3, <1>4, <1>5, <1>6, CaptureOnward

\* A write to the scratch register keeps the frame and the image.
LEMMA CaptureRax ==
  ASSUME IInv, NEW i \in 1..23, pc = <<"entry", i>>, GoesOn("entry", i), mem' = mem,
         NEW v, regs' = [regs EXCEPT !["rax"] = v]
  PROVE  /\ CaptureDone(i) /\ (CaptureDone(i + 1)' => IInv')
         /\ regs'["rax"] = v /\ \A q \in FieldNames : Imaged(q)' = Imaged(q)
<1>1. /\ Shape /\ CaptureFrame /\ CaptureDone(i) /\ image = Base
  BY InCapturing
<1>2. /\ regs' = [q \in Names |-> regs'[q]]
      /\ regs'["rax"] = v /\ \A q \in Names : q # "rax" => regs'[q] = regs[q]
  BY <1>1, Registers, RegWritten
<1>3. CaptureFrame'
  BY <1>1, <1>2, CaptureFrameKept DEF GoesOn
<1>4. \A q \in FieldNames : Imaged(q)' = Imaged(q)
  BY DEF Imaged, GoesOn
<1>5. mem' = [b \in 0..Top |-> mem'[b]]
  BY <1>1 DEF Shape
<1>q. QED  BY <1>1, <1>2, <1>3, <1>4, <1>5, CaptureOnward

\* The volatile registers are cleared.
LEMMA CaptureZeroes ==
  ASSUME IInv, NEW i \in 1..9, pc = <<"entry", i>>, Next, ~Signal
  PROVE  IInv'
<1>1. /\ "entry" \in DOMAIN Programs /\ i \in 1..23
      /\ Programs["entry"][i] = StoreZero(Offset[EntryOrder[i]], "rdi")
      /\ regs["rdi"] = Stack(Base) /\ EntryOrder[i] \in FieldNames
  BY InCapturing, EntryListing, EntryOrderIs DEF CaptureFrame
<1>2. regs["rdi"][2] = Base
  BY <1>1 DEF Stack
<1>3. /\ GoesOn("entry", i) /\ regs' = regs
      /\ mem' = [mem EXCEPT ![Base + Offset[EntryOrder[i]]] = Zero]
  BY <1>1, <1>2, ZeroStep
<1>4. /\ CaptureDone(i) /\ (CaptureDone(i + 1)' => IInv')
      /\ Imaged(EntryOrder[i])' = Zero
      /\ \A q \in FieldNames : q # EntryOrder[i] => Imaged(q)' = Imaged(q)
  BY <1>1, <1>3, CaptureStored
<1>5. ASSUME NEW k \in 1..9, k < i + 1
      PROVE  Imaged(EntryOrder[k])' = Zero
  <2>1. CASE EntryOrder[k] = EntryOrder[i]
    BY <1>4, <2>1
  <2>2. CASE EntryOrder[k] # EntryOrder[i]
    <3>1. k < i
      BY <1>5, <2>2
    <3>2. EntryOrder[k] \in FieldNames
      BY EntryOrderIs
    <3>q. QED  BY <1>4, <2>2, <3>1, <3>2 DEF CaptureDone
  <2>q. QED  BY <2>1, <2>2
<1>6. CaptureDone(i + 1)'
  BY <1>5 DEF CaptureDone
<1>q. QED  BY <1>4, <1>6

\* The preserved registers are stored.
LEMMA CaptureSaves ==
  ASSUME IInv, NEW i \in 10..15, pc = <<"entry", i>>, Next, ~Signal
  PROVE  IInv'
<1>1. /\ "entry" \in DOMAIN Programs /\ i \in 1..23
      /\ Programs["entry"][i] = Store(EntryOrder[i], Offset[EntryOrder[i]], "rdi")
      /\ regs["rdi"] = Stack(Base) /\ EntryOrder[i] \in FieldNames
      /\ EntryOrder[i] \in Preserved
      /\ Behind(asked)
  BY InCapturing, EntryListing, EntryOrderIs DEF CaptureFrame
<1>2. regs["rdi"][2] = Base /\ regs[EntryOrder[i]] = Of(EntryOrder[i])
  BY <1>1 DEF Stack, Behind, Callers
<1>3. /\ GoesOn("entry", i) /\ regs' = regs
      /\ mem' = [mem EXCEPT ![Base + Offset[EntryOrder[i]]] = Of(EntryOrder[i])]
  BY <1>1, <1>2, StoreStep
<1>4. /\ CaptureDone(i) /\ (CaptureDone(i + 1)' => IInv')
      /\ Imaged(EntryOrder[i])' = Of(EntryOrder[i])
      /\ \A q \in FieldNames : q # EntryOrder[i] => Imaged(q)' = Imaged(q)
  BY <1>1, <1>3, CaptureStored
<1>5. ASSUME NEW k \in 10..15, k < i + 1
      PROVE  Imaged(EntryOrder[k])' = Of(EntryOrder[k])
  <2>1. CASE EntryOrder[k] = EntryOrder[i]
    BY <1>4, <2>1
  <2>2. CASE EntryOrder[k] # EntryOrder[i]
    <3>1. k < i
      BY <1>5, <2>2
    <3>2. EntryOrder[k] \in FieldNames
      BY EntryOrderIs
    <3>q. QED  BY <1>4, <2>2, <3>1, <3>2 DEF CaptureDone
  <2>q. QED  BY <2>1, <2>2
<1>6. ASSUME NEW k \in 1..9
      PROVE  Imaged(EntryOrder[k])' = Zero
  <2>1. EntryOrder[k] # EntryOrder[i] /\ EntryOrder[k] \in FieldNames
    BY <1>1, EntryOrderIs
  <2>2. Imaged(EntryOrder[k]) = Zero
    BY <1>4 DEF CaptureDone
  <2>q. QED  BY <1>4, <2>1, <2>2
<1>7. CaptureDone(i + 1)'
  BY <1>5, <1>6 DEF CaptureDone
<1>q. QED  BY <1>4, <1>7

\* The general registers, once they are stored.
LEMMA CaptureTail ==
  ASSUME NEW i \in 16..23, CaptureDone(i), NEW r, r \notin Volatile, r \notin Preserved \ {"mxcsr", "fcw"},
         \A q \in FieldNames : q # r => Imaged(q)' = Imaged(q)
  PROVE  /\ \A k \in 1..9 : Imaged(EntryOrder[k])' = Zero
         /\ \A k \in 10..15 : Imaged(EntryOrder[k])' = Of(EntryOrder[k])
<1>1. ASSUME NEW k \in 1..9 PROVE Imaged(EntryOrder[k])' = Zero
  <2>1. EntryOrder[k] # r /\ EntryOrder[k] \in FieldNames /\ k < i
    BY EntryOrderIs
  <2>q. QED  BY <2>1 DEF CaptureDone
<1>2. ASSUME NEW k \in 10..15 PROVE Imaged(EntryOrder[k])' = Of(EntryOrder[k])
  <2>1. EntryOrder[k] # r /\ EntryOrder[k] \in FieldNames /\ k < i
    BY EntryOrderIs
  <2>q. QED  BY <2>1 DEF CaptureDone
<1>q. QED  BY <1>1, <1>2

\* The caller's stack pointer and its return address.
LEMMA CaptureComputes ==
  ASSUME IInv, NEW i \in {16, 18}, pc = <<"entry", i>>, Next, ~Signal
  PROVE  IInv'
<1> DEFINE v == IF i = 16 THEN Stack(Caller) ELSE InProgram
<1>1. /\ "entry" \in DOMAIN Programs /\ i \in 16..23 /\ i \in 1..23
      /\ i = 16 => Programs["entry"][i] = Lea(1, "rsi", "rax")
      /\ i = 18 => Programs["entry"][i] = Load(0, "rsi", "rax")
      /\ regs["rsi"] = Stack(Caller - 1) /\ Behind(asked)
  BY InCapturing, EntryListing DEF CaptureFrame
<1>2. regs["rsi"][2] = Caller - 1 /\ (Caller - 1) + 1 = Caller /\ (Caller - 1) + 0 = Caller - 1
  BY <1>1, Numbers DEF Stack
<1>3. /\ GoesOn("entry", i) /\ mem' = mem
      /\ regs' = [regs EXCEPT !["rax"] = v]
  <2>1. CASE i = 16
    <3>1. /\ GoesOn("entry", i) /\ mem' = mem
          /\ regs' = [regs EXCEPT !["rax"] = Stack(regs["rsi"][2] + 1)]
      BY <1>1, <2>1, LeaStep
    <3>q. QED  BY <2>1, <1>2, <3>1
  <2>2. CASE i = 18
    <3>1. /\ GoesOn("entry", i) /\ mem' = mem
          /\ regs' = [regs EXCEPT !["rax"] = mem[regs["rsi"][2] + 0]]
      BY <1>1, <2>2, LoadStep
    <3>2. mem[Caller - 1] = InProgram
      BY <1>1 DEF Behind
    <3>3. regs["rsi"][2] + 0 = Caller - 1
      BY <1>2
    <3>4. v = InProgram
      BY <2>2
    <3> HIDE DEF v
    <3>q. QED  BY <3>1, <3>2, <3>3, <3>4
  <2>q. QED  BY <2>1, <2>2
<1> HIDE DEF v
<1>4. /\ CaptureDone(i) /\ (CaptureDone(i + 1)' => IInv')
      /\ regs'["rax"] = v /\ \A q \in FieldNames : Imaged(q)' = Imaged(q)
  BY <1>1, <1>3, CaptureRax
<1>5. /\ \A k \in 1..9 : Imaged(EntryOrder[k])' = Zero
      /\ \A k \in 10..15 : Imaged(EntryOrder[k])' = Of(EntryOrder[k])
  <2>1. "rsp" \notin Volatile /\ "rsp" \notin Preserved
    BY EntryOrderIs
  <2>q. QED  BY <1>1, <1>4, <2>1, CaptureTail
<1>6. i = 18 => Imaged("rsp")' = Stack(Caller)
  BY <1>4, EntryOrderIs DEF CaptureDone
<1>7. CaptureDone(i + 1)'
  <2>1. CASE i = 16
    BY <2>1, <1>4, <1>5 DEF CaptureDone, v
  <2>2. CASE i = 18
    BY <2>2, <1>4, <1>5, <1>6 DEF CaptureDone, v
  <2>q. QED  BY <2>1, <2>2
<1>q. QED  BY <1>4, <1>7

\* The control words.
LEMMA CaptureFinishes ==
  ASSUME IInv, NEW i \in {17, 19, 20, 21, 22, 23}, pc = <<"entry", i>>, Next, ~Signal
  PROVE  IInv'
<1> DEFINE r == CASE i = 17 -> "rsp" [] i = 19 -> "ra" [] i = 20 -> "mxcsr" [] i = 22 -> "mxcsr"
                  [] i = 21 -> "fcw" [] i = 23 -> "fcw"
           v == CASE i = 17 -> Stack(Caller) [] i = 19 -> InProgram [] i = 20 -> Zero
                  [] i = 21 -> Zero [] i = 22 -> Of("mxcsr") [] i = 23 -> Of("fcw")
<1>1. /\ "entry" \in DOMAIN Programs /\ i \in 16..23 /\ i \in 1..23 /\ CaptureDone(i)
      /\ regs["rdi"] = Stack(Base) /\ Behind(asked) /\ image = Base
  BY InCapturing DEF CaptureFrame
<1>2. regs["rdi"][2] = Base
  BY <1>1 DEF Stack
<1>3. GoesOn("entry", i) /\ regs' = regs /\ mem' = [mem EXCEPT ![Base + Offset[r]] = v]
  <2>1. CASE i = 17
    <3>1. regs["rax"] = v
      BY <2>1, <1>1 DEF CaptureDone
    <3>2. Programs["entry"][i] = Store("rax", Offset[r], "rdi")
      BY <2>1, InCapturing, EntryListing
    <3> HIDE DEF r, v
    <3>q. QED  BY <3>1, <3>2, <1>1, <1>2, StoreStep
  <2>2. CASE i = 19
    <3>1. regs["rax"] = v
      BY <2>2, <1>1 DEF CaptureDone
    <3>2. Programs["entry"][i] = Store("rax", Offset[r], "rdi")
      BY <2>2, InCapturing, EntryListing
    <3> HIDE DEF r, v
    <3>q. QED  BY <3>1, <3>2, <1>1, <1>2, StoreStep
  <2>3. CASE i \in {20, 21}
    <3>1. v = Zero /\ Programs["entry"][i] = StoreZero(Offset[r], "rdi")
      BY <2>3, InCapturing, EntryListing
    <3> HIDE DEF r, v
    <3>q. QED  BY <3>1, <1>1, <1>2, ZeroStep
  <2>4. CASE i \in {22, 23}
    <3>1. /\ Programs["entry"][i] = StoreLow(r, Offset[r], "rdi")
          /\ Imaged(r) = Zero /\ regs[r] = v
      <4>1. CASE i = 22
        BY <4>1, <1>1, InCapturing, EntryListing
           DEF CaptureDone, Behind, Callers, Preserved, Control
      <4>2. CASE i = 23
        BY <4>2, <1>1, InCapturing, EntryListing
           DEF CaptureDone, Behind, Callers, Preserved, Control
      <4>q. QED  BY <2>4, <4>1, <4>2
    <3> HIDE DEF r, v
    <3>2. mem[Base + Offset[r]] = Zero
      BY <3>1, <1>1 DEF Imaged
    <3>3. /\ GoesOn("entry", i) /\ regs' = regs
          /\ mem' = [mem EXCEPT ![regs["rdi"][2] + Offset[r]] = IF @ = Zero THEN regs[r] ELSE Junk]
      BY <3>1, <1>1, LowStep
    <3>q. QED  BY <3>1, <3>2, <3>3, <1>2
  <2>q. QED  BY <2>1, <2>2, <2>3, <2>4
<1>4. r \in {"rsp", "ra", "mxcsr", "fcw"} /\ r \notin Volatile /\ r \notin Preserved \ {"mxcsr", "fcw"}
      /\ r \in FieldNames
  BY EntryOrderIs
<1>5. /\ CaptureDone(i + 1)' => IInv'
      /\ Imaged(r)' = v /\ \A q \in FieldNames : q # r => Imaged(q)' = Imaged(q)
  <2> HIDE DEF r, v
  <2>q. QED  BY <1>1, <1>3, <1>4, CaptureStored
<1>6. /\ \A k \in 1..9 : Imaged(EntryOrder[k])' = Zero
      /\ \A k \in 10..15 : Imaged(EntryOrder[k])' = Of(EntryOrder[k])
  <2> HIDE DEF r, v
  <2>q. QED  BY <1>1, <1>4, <1>5, CaptureTail
<1>7. {"rsp", "ra", "mxcsr", "fcw"} \subseteq FieldNames
  BY EntryOrderIs
<1>8. CaptureDone(i + 1)'
  <2>1. CASE i = 17
    <3>1. Imaged("rsp")' = Stack(Caller)
      BY <2>1, <1>5
    <3>q. QED  BY <2>1, <3>1, <1>6 DEF CaptureDone
  <2>2. CASE i = 19
    <3>1. Imaged("ra")' = InProgram /\ Imaged("rsp")' = Stack(Caller)
      BY <2>2, <1>1, <1>5, <1>7 DEF CaptureDone
    <3>q. QED  BY <2>2, <3>1, <1>6 DEF CaptureDone
  <2>3. CASE i = 20
    <3>1. Imaged("ra")' = InProgram /\ Imaged("rsp")' = Stack(Caller) /\ Imaged("mxcsr")' = Zero
      BY <2>3, <1>1, <1>5, <1>7 DEF CaptureDone
    <3>q. QED  BY <2>3, <3>1, <1>6 DEF CaptureDone
  <2>4. CASE i = 21
    <3>1. /\ Imaged("ra")' = InProgram /\ Imaged("rsp")' = Stack(Caller) /\ Imaged("mxcsr")' = Zero
          /\ Imaged("fcw")' = Zero
      BY <2>4, <1>1, <1>5, <1>7 DEF CaptureDone
    <3>q. QED  BY <2>4, <3>1, <1>6 DEF CaptureDone
  <2>5. CASE i = 22
    <3>1. /\ Imaged("ra")' = InProgram /\ Imaged("rsp")' = Stack(Caller)
          /\ Imaged("mxcsr")' = Of("mxcsr") /\ Imaged("fcw")' = Zero
      BY <2>5, <1>1, <1>5, <1>7 DEF CaptureDone
    <3>q. QED  BY <2>5, <3>1, <1>6 DEF CaptureDone
  <2>6. CASE i = 23
    <3>1. /\ Imaged("ra")' = InProgram /\ Imaged("rsp")' = Stack(Caller)
          /\ Imaged("mxcsr")' = Of("mxcsr") /\ Imaged("fcw")' = Of("fcw")
      BY <2>6, <1>1, <1>5, <1>7 DEF CaptureDone
    <3>q. QED  BY <2>6, <3>1, <1>6 DEF CaptureDone
  <2>q. QED  BY <2>1, <2>2, <2>3, <2>4, <2>5, <2>6
<1>q. QED  BY <1>5, <1>8

\* Registers::entry returns to its trampoline.
LEMMA CaptureReturnsToEntry ==
  ASSUME IInv, pc = <<"entry", 24>>, Next, ~Signal
  PROVE  IInv'
<1>1. /\ "entry" \in DOMAIN Programs /\ Programs["entry"][24] = Ret /\ Shape
      /\ CaptureFrame /\ CaptureDone(24) /\ image = Base /\ Kept(Caller) /\ chosen = InitialRegs
  BY InCapturing, EntryListing
<1>2. PICK f \in Entries : f = asked
  BY <1>1 DEF CaptureFrame
<1> DEFINE n == Arity(f)
<1>3. n \in 1..3
  BY EntryPrograms
<1>4. /\ Behind(f) /\ regs["rsp"] = Stack(Base - 1) /\ mem[Base - 1] = Code(f, n + 5)
      /\ \A j \in 1..n : Argument(j) = Of(Arguments[j])
  BY <1>1, <1>2 DEF CaptureFrame
<1> HIDE DEF n
<1>5. Sp = Base - 1 /\ Sp + 1 = Base
  BY <1>4, Numbers DEF Sp, Stack
<1>6. /\ pc' = mem[Sp][2] /\ UNCHANGED <<asked, image, chosen, mem>>
      /\ regs' = [regs EXCEPT !["rsp"] = Stack(Sp + 1)]
  BY <1>1, RetStep
<1>7. pc' = <<f, n + 5>>
  BY <1>4, <1>5, <1>6 DEF Code
<1>8. /\ regs' = [q \in Names |-> regs'[q]] /\ regs'["rsp"] = Stack(Base)
      /\ \A q \in Names : q # "rsp" => regs'[q] = regs[q]
  BY <1>1, <1>5, <1>6, Registers, RegWritten
<1>9. Behind(f)'
  <2>1. \A q \in Preserved : regs'[q] = regs[q]
    BY <1>8, Registers
  <2>q. QED  BY <1>4, <1>6, <2>1, BehindKept
<1>10. Described
  <2>1. \A k \in 1..9 : Imaged(EntryOrder[k]) = Zero
    BY <1>1 DEF CaptureDone
  <2>2. \A k \in 10..15 : Imaged(EntryOrder[k]) = Of(EntryOrder[k])
    BY <1>1 DEF CaptureDone
  <2>3. /\ Imaged("rsp") = Stack(Caller) /\ Imaged("ra") = InProgram
        /\ Imaged("mxcsr") = Of("mxcsr") /\ Imaged("fcw") = Of("fcw")
    BY <1>1 DEF CaptureDone
  <2>4. ASSUME NEW r \in Volatile PROVE Imaged(r) = Zero
    BY <2>1, EntryOrderIs
  <2>5. ASSUME NEW r \in Preserved PROVE Imaged(r) = Of(r)
    BY <2>2, <2>3, EntryOrderIs
  <2>q. QED  BY <2>3, <2>4, <2>5 DEF Described
<1>11. Described'
  BY <1>1, <1>6, <1>10, DescribedSame
<1>12. EntryAt(f, n + 5)'
  <2>1. \A j \in 1..n : Argument(j)' = Of(Arguments[j])
    BY <1>4, <1>6 DEF Argument
  <2>2. ~(n + 5 = 1 \/ n + 5 = 2 * n + 8) /\ ~(n + 5 <= n + 2) /\ n + 5 \notin {n + 3, n + 4}
        /\ n + 5 \notin {n + 4, 2 * n + 6} /\ ~(n + 5 > 2 * n + 6)
        /\ \A j \in 1..n : ~((n + 5) + j > 2 * n + 5)
    BY <1>3
  <2>q. QED  BY <1>8, <1>9, <1>11, <2>1, <2>2 DEF EntryAt, n
<1>13. EntryInv(f)'
  <2>1. n + 5 \in 1..(2 * n + (IF f = "resume" THEN 6 ELSE 8))
    BY <1>3
  <2>q. QED  BY <1>7, <1>12, <2>1 DEF EntryInv, n
<1>14. Common'
  <2>1. Kept(Caller)'
    BY <1>1, <1>6 DEF Kept
  <2>2. asked' = f /\ chosen' = InitialRegs
    BY <1>1, <1>2, <1>6
  <2>3. pc' = <<pc'[1], pc'[2]>> /\ pc'[1] = f /\ pc'[1] \notin {"jump", "pad"}
    BY <1>7 DEF Entries
  <2>4. mem' = [b \in 0..Top |-> mem'[b]] /\ chosen' = [r \in Names |-> chosen'[r]]
    BY <1>1, <1>6 DEF Shape
  <2>5. Stacked'
    BY <2>1, <2>2, <2>3 DEF Stacked, Unwound, InitialRegs
  <2>q. QED  BY <1>8, <2>2, <2>3, <2>4, <2>5 DEF Common, Shape, Asked
<1>q. QED  BY <1>7, <1>13, <1>14, AtEntry

\* Every step of Registers::entry.
LEMMA CaptureSteps ==
  ASSUME IInv, pc[1] = "entry", Next
  PROVE  IInv'
<1>1. PICK i \in 1..24 : pc = <<"entry", i>>
  BY DEF IInv, CaptureInv, Shape
<1>2. CASE Signal
  BY <1>1, <1>2, CaptureSignal
<1>3. CASE ~Signal
  <2>1. CASE i \in 1..9
    BY <1>1, <1>3, <2>1, CaptureZeroes
  <2>2. CASE i \in 10..15
    BY <1>1, <1>3, <2>2, CaptureSaves
  <2>3. CASE i \in {16, 18}
    BY <1>1, <1>3, <2>3, CaptureComputes
  <2>4. CASE i \in {17, 19, 20, 21, 22, 23}
    BY <1>1, <1>3, <2>4, CaptureFinishes
  <2>5. CASE i = 24
    BY <1>1, <1>3, <2>5, CaptureReturnsToEntry
  <2>q. QED  BY <1>1, <2>1, <2>2, <2>3, <2>4, <2>5
<1>q. QED  BY <1>2, <1>3

-----------------------------------------------------------------------------
(* Registers::save. *)

\* The registers it stores are fields, stored once each.
LEMMA SaveOrderIs ==
  /\ \A k \in 1..6 : SaveOrder[k] \in Preserved \ {"mxcsr", "fcw"}
  /\ \A r \in Preserved \ {"mxcsr", "fcw"} : \E k \in 1..6 : r = SaveOrder[k]
<1>1. \A k \in 1..6 : SaveOrder[k] \in Preserved \ {"mxcsr", "fcw"}
  BY DEF SaveOrder, Preserved, Control
<1>2. ASSUME NEW r \in Preserved \ {"mxcsr", "fcw"} PROVE \E k \in 1..6 : r = SaveOrder[k]
  BY DEF SaveOrder, Preserved, Control
<1>q. QED  BY <1>1, <1>2

\* What is known inside Registers::save.
LEMMA InSaving ==
  ASSUME IInv, NEW i, pc = <<"save", i>>
  PROVE  /\ "save" \in DOMAIN Programs /\ Programs["save"] = Save /\ i \in 1..13 /\ i \in Nat
         /\ Shape /\ chosen = InitialRegs /\ Kept(Caller) /\ SaveFrame /\ SaveDone(i)
         /\ image \in 1..(Top - 18) /\ image + 18 < Caller
<1>1. pc[1] = "save" /\ pc[2] = i
  OBVIOUS
<1>2. i \in 1..13 /\ SaveFrame /\ SaveDone(i)
  BY <1>1 DEF IInv, SaveInv
<1>3. image \in 1..(Top - 18) /\ image + 18 < Caller
  BY <1>2, Numbers DEF SaveFrame
<1>q. QED  BY <1>1, <1>2, <1>3, ProgramsAre DEF IInv, Stacked, Unwound

\* A step inside Registers::save has to establish what comes next.
LEMMA SaveOnward ==
  ASSUME IInv, NEW i \in 1..12, pc = <<"save", i>>, GoesOn("save", i),
         regs' = [q \in Names |-> regs'[q]], mem' = [b \in 0..Top |-> mem'[b]],
         \A b \in 0..Top : b >= Caller => mem'[b] = mem[b],
         regs'["rsp"] = regs["rsp"], regs'["rdi"] = regs["rdi"],
         mem'[image - 1] = mem[image - 1], SaveDone(i + 1)'
  PROVE  IInv'
<1>a. Kept(Caller) /\ chosen = InitialRegs /\ SaveFrame
  BY InSaving
<1>1. Kept(Caller)' /\ chosen' = InitialRegs /\ asked' = "capture"
  BY <1>a, Numbers, KeptSame DEF GoesOn, SaveFrame
<1>2. pc' = <<"save", i + 1>>
  BY DEF GoesOn
<1>3. Stacked'
  BY <1>1, <1>2 DEF Stacked, Unwound, InitialRegs
<1>4. Shape' /\ Asked'
  BY <1>1, <1>2, InSaving DEF Shape, Asked, GoesOn
<1>5. SaveInv'
  <2>1. i + 1 \in 1..13
    OBVIOUS
  <2>2. SaveFrame'
    BY <1>a DEF SaveFrame, GoesOn
  <2>q. QED  BY <1>2, <2>1, <2>2 DEF SaveInv
<1>q. QED  BY <1>2, <1>3, <1>4, <1>5, AtElsewhere DEF Common, Elsewhere

\* A signal in Registers::save.
LEMMA SaveSignal ==
  ASSUME IInv, NEW i, pc = <<"save", i>>, Signal
  PROVE  IInv'
<1>1. /\ Shape /\ chosen = InitialRegs /\ Kept(Caller) /\ SaveFrame /\ SaveDone(i) /\ i \in 1..13
      /\ image \in 1..(Top - 18) /\ image + 18 < Caller
  BY InSaving
<1>m. PICK m \in 1..(Top - 18) : m = image
  BY <1>1
<1>2. regs["rsp"] = Stack(m - 1) /\ m - 1 \in Int
  BY <1>1, <1>m, Numbers DEF SaveFrame
<1>3. /\ UNCHANGED <<regs, pc, asked, image, chosen>>
      /\ mem' = [b \in 0..Top |-> mem'[b]]
      /\ \A b \in 0..Top : b >= (m - 1) - RedZone => mem'[b] = mem[b]
  BY <1>2, SignalStep
<1>4. \A b \in 0..Top : b >= m - 1 => mem'[b] = mem[b]
  BY <1>3, Numbers
<1>5. SaveFrame'
  <2>1. mem'[m - 1] = mem[m - 1]
    BY <1>4, Numbers
  <2>q. QED  BY <1>1, <1>m, <1>3, <2>1 DEF SaveFrame
<1>6. SaveDone(i)'
  <2>1. \A r \in FieldNames : Imaged(r)' = Imaged(r)
    <3>1. m \in 0..(Top - 18) /\ image' = m /\ \A b \in m..(m + 18) : mem'[b] = mem[b]
      BY <1>m, <1>3, <1>4, Numbers
    <3>q. QED  BY <1>m, <3>1, ImagedSame
  <2>2. /\ \A k \in 1..6 : Imaged(SaveOrder[k])' = Imaged(SaveOrder[k])
        /\ \A r \in {"rsp", "ra", "mxcsr", "fcw"} : Imaged(r)' = Imaged(r)
    BY <2>1, SaveOrderIs, EntryOrderIs
  <2>3. \A k \in 1..6 : k < i => Imaged(SaveOrder[k])' = regs'[SaveOrder[k]]
    BY <1>1, <1>3, <2>2 DEF SaveDone
  <2>4. /\ i > 8 => Imaged("rsp")' = Stack(image')
        /\ i > 10 => Imaged("ra")' = InCapture
        /\ Imaged("mxcsr")' = IF i > 11 THEN regs'["mxcsr"] ELSE Zero
        /\ Imaged("fcw")' = IF i > 12 THEN regs'["fcw"] ELSE Zero
    BY <1>1, <1>3, <2>2 DEF SaveDone
  <2>5. /\ i = 8 => regs'["rax"] = Stack(image')
        /\ i = 10 => regs'["rax"] = InCapture
    BY <1>1, <1>3 DEF SaveDone
  <2>q. QED  BY <2>3, <2>4, <2>5 DEF SaveDone
<1>7. Kept(Caller)'
  <2>1. \A b \in 0..Top : b >= Caller => mem'[b] = mem[b]
    BY <1>1, <1>m, <1>4, Numbers
  <2>q. QED  BY <1>1, <2>1, Numbers, KeptSame
<1>8. Common' /\ SaveInv'
  <2>1. pc' = <<"save", i>> /\ asked' = "capture"
    BY <1>1, <1>3 DEF SaveFrame
  <2>2. chosen' = InitialRegs /\ regs' = [q \in Names |-> regs'[q]]
    BY <1>1, <1>3 DEF Shape
  <2>3. SaveInv'
    BY <2>1, <1>1, <1>5, <1>6 DEF SaveInv
  <2>q. QED  BY <1>1, <1>3, <1>7, <2>1, <2>2, <2>3
                DEF Common, Shape, Asked, Stacked, Unwound, InitialRegs
<1>q. QED  BY <1>3, <1>8, AtElsewhere DEF Elsewhere

\* A store into the image keeps the frame.
LEMMA SaveStored ==
  ASSUME IInv, NEW i \in 1..12, pc = <<"save", i>>, GoesOn("save", i), regs' = regs,
         NEW r \in FieldNames, NEW v, mem' = [mem EXCEPT ![image + Offset[r]] = v]
  PROVE  /\ SaveDone(i) /\ (SaveDone(i + 1)' => IInv')
         /\ Imaged(r)' = v /\ \A q \in FieldNames : q # r => Imaged(q)' = Imaged(q)
<1>1. Shape /\ SaveFrame /\ SaveDone(i) /\ image \in 1..(Top - 18) /\ image + 18 < Caller
  BY InSaving
<1>m. PICK m \in 1..(Top - 18) : m = image /\ m + 18 < Caller
  BY <1>1
<1>2. m \in 0..(Top - 18) /\ image = m /\ image' = m /\ mem' = [mem EXCEPT ![m + Offset[r]] = v]
  BY <1>m, Numbers DEF GoesOn
<1>3. /\ mem' = [b \in 0..Top |-> mem'[b]]
      /\ Imaged(r)' = v /\ \A q \in FieldNames : q # r => Imaged(q)' = Imaged(q)
      /\ \A b \in 0..Top : b \notin m..(m + 18) => mem'[b] = mem[b]
  BY <1>1, <1>2, ImageWritten
<1>4. mem'[image - 1] = mem[image - 1]
  <2>1. m - 1 \in 0..Top /\ m - 1 \notin m..(m + 18)
    BY Numbers
  <2>q. QED  BY <1>m, <1>3, <2>1
<1>5. \A b \in 0..Top : b >= Caller => mem'[b] = mem[b]
  <2>1. \A b \in 0..Top : b >= Caller => b \notin m..(m + 18)
    BY <1>m, Numbers
  <2>q. QED  BY <1>3, <2>1
<1>6. regs' = [q \in Names |-> regs'[q]]
  BY <1>1 DEF Shape
<1>q. QED  BY <1>1, <1>3, <1>4, <1>5, <1>6, SaveOnward

\* A write to the scratch register keeps the frame and the image.
LEMMA SaveRax ==
  ASSUME IInv, NEW i \in 1..12, pc = <<"save", i>>, GoesOn("save", i), mem' = mem,
         NEW v, regs' = [regs EXCEPT !["rax"] = v]
  PROVE  /\ SaveDone(i) /\ (SaveDone(i + 1)' => IInv')
         /\ regs'["rax"] = v /\ \A q \in Preserved : regs'[q] = regs[q]
         /\ \A q \in FieldNames : Imaged(q)' = Imaged(q)
<1>1. Shape /\ SaveFrame /\ SaveDone(i)
  BY InSaving
<1>2. /\ regs' = [q \in Names |-> regs'[q]]
      /\ regs'["rax"] = v /\ \A q \in Names : q # "rax" => regs'[q] = regs[q]
  BY <1>1, Registers, RegWritten
<1>3. \A q \in Preserved : regs'[q] = regs[q]
  <2>1. "rax" \notin Preserved /\ Preserved \subseteq Names
    BY Registers DEF Preserved, Control
  <2>q. QED  BY <1>2, <2>1
<1>4. \A q \in FieldNames : Imaged(q)' = Imaged(q)
  BY DEF Imaged, GoesOn
<1>5. mem' = [b \in 0..Top |-> mem'[b]]
  BY <1>1 DEF Shape
<1>6. regs'["rsp"] = regs["rsp"] /\ regs'["rdi"] = regs["rdi"]
  BY <1>2, Registers
<1>q. QED  BY <1>1, <1>2, <1>3, <1>4, <1>5, <1>6, SaveOnward

\* The six general registers, once they are stored.
LEMMA SaveTail ==
  ASSUME NEW i \in 7..12, SaveDone(i), NEW r, r \notin Preserved \ {"mxcsr", "fcw"},
         \A q \in FieldNames : q # r => Imaged(q)' = Imaged(q),
         \A q \in Preserved : regs'[q] = regs[q]
  PROVE  \A k \in 1..6 : Imaged(SaveOrder[k])' = regs'[SaveOrder[k]]
<1>1. ASSUME NEW k \in 1..6 PROVE Imaged(SaveOrder[k])' = regs'[SaveOrder[k]]
  <2>1. SaveOrder[k] # r /\ SaveOrder[k] \in FieldNames /\ SaveOrder[k] \in Preserved /\ k < i
    BY SaveOrderIs, EntryOrderIs
  <2>2. Imaged(SaveOrder[k]) = regs[SaveOrder[k]]
    BY <2>1 DEF SaveDone
  <2>q. QED  BY <2>1, <2>2
<1>q. QED  BY <1>1

\* The preserved registers are stored.
LEMMA SaveStores ==
  ASSUME IInv, NEW i \in 1..6, pc = <<"save", i>>, Next, ~Signal
  PROVE  IInv'
<1>1. /\ "save" \in DOMAIN Programs /\ i \in 1..12 /\ i \in Nat /\ image \in Nat
      /\ Programs["save"][i] = Store(SaveOrder[i], Offset[SaveOrder[i]], "rdi")
      /\ regs["rdi"] = Stack(image) /\ SaveOrder[i] \in FieldNames
      /\ SaveOrder[i] \in Preserved \ {"mxcsr", "fcw"}
  BY InSaving, SaveCode, SaveOrderIs, EntryOrderIs DEF SaveFrame
<1>2. regs["rdi"][2] = image
  BY <1>1 DEF Stack
<1>3. /\ GoesOn("save", i) /\ regs' = regs
      /\ mem' = [mem EXCEPT ![image + Offset[SaveOrder[i]]] = regs[SaveOrder[i]]]
  BY <1>1, <1>2, StoreStep
<1>4. /\ SaveDone(i) /\ (SaveDone(i + 1)' => IInv')
      /\ Imaged(SaveOrder[i])' = regs[SaveOrder[i]]
      /\ \A q \in FieldNames : q # SaveOrder[i] => Imaged(q)' = Imaged(q)
  BY <1>1, <1>3, SaveStored
<1>5. ASSUME NEW k \in 1..6, k < i + 1
      PROVE  Imaged(SaveOrder[k])' = regs'[SaveOrder[k]]
  <2>1. CASE SaveOrder[k] = SaveOrder[i]
    BY <1>3, <1>4, <2>1
  <2>2. CASE SaveOrder[k] # SaveOrder[i]
    <3>1. k < i
      BY <1>5, <2>2
    <3>2. SaveOrder[k] \in FieldNames
      BY SaveOrderIs, EntryOrderIs
    <3>q. QED  BY <1>3, <1>4, <2>2, <3>1, <3>2 DEF SaveDone
  <2>q. QED  BY <2>1, <2>2
<1>6. Imaged("mxcsr")' = Zero /\ Imaged("fcw")' = Zero
  <2>1. /\ "mxcsr" # SaveOrder[i] /\ "fcw" # SaveOrder[i]
        /\ "mxcsr" \in FieldNames /\ "fcw" \in FieldNames
    BY <1>1, EntryOrderIs
  <2>q. QED  BY <1>4, <2>1 DEF SaveDone
<1>7. SaveDone(i + 1)'
  BY <1>5, <1>6 DEF SaveDone
<1>q. QED  BY <1>4, <1>7

\* The stack pointer and the return address.
LEMMA SaveComputes ==
  ASSUME IInv, NEW i \in {7, 9}, pc = <<"save", i>>, Next, ~Signal
  PROVE  IInv'
<1> DEFINE v == IF i = 7 THEN Stack(image) ELSE InCapture
<1>1. /\ "save" \in DOMAIN Programs /\ i \in 7..12 /\ i \in 1..12 /\ image \in Nat
      /\ i = 7 => Programs["save"][i] = Lea(1, "rsp", "rax")
      /\ i = 9 => Programs["save"][i] = Load(0, "rsp", "rax")
      /\ regs["rsp"] = Stack(image - 1) /\ mem[image - 1] = InCapture
  BY InSaving, SaveCode, Numbers DEF SaveFrame
<1>2. regs["rsp"][2] + 1 = image /\ regs["rsp"][2] + 0 = image - 1
  BY <1>1 DEF Stack
<1>3. /\ GoesOn("save", i) /\ mem' = mem
      /\ regs' = [regs EXCEPT !["rax"] = v]
  <2>1. CASE i = 7
    <3>1. /\ GoesOn("save", i) /\ mem' = mem
          /\ regs' = [regs EXCEPT !["rax"] = Stack(regs["rsp"][2] + 1)]
      BY <1>1, <2>1, LeaStep
    <3>q. QED  BY <2>1, <1>2, <3>1
  <2>2. CASE i = 9
    <3>1. /\ GoesOn("save", i) /\ mem' = mem
          /\ regs' = [regs EXCEPT !["rax"] = mem[regs["rsp"][2] + 0]]
      BY <1>1, <2>2, LoadStep
    <3>2. v = InCapture
      BY <2>2
    <3> HIDE DEF v
    <3>q. QED  BY <1>1, <1>2, <3>1, <3>2
  <2>q. QED  BY <2>1, <2>2
<1>v. PICK u : u = v
  OBVIOUS
<1>4. /\ SaveDone(i) /\ (SaveDone(i + 1)' => IInv')
      /\ regs'["rax"] = u /\ \A q \in Preserved : regs'[q] = regs[q]
      /\ \A q \in FieldNames : Imaged(q)' = Imaged(q)
  <2>1. regs' = [regs EXCEPT !["rax"] = u]
    BY <1>3, <1>v
  <2>q. QED  BY <1>1, <1>3, <2>1, SaveRax
<1>5. \A k \in 1..6 : Imaged(SaveOrder[k])' = regs'[SaveOrder[k]]
  <2>1. "rsp" \notin Preserved
    BY EntryOrderIs
  <2>q. QED  BY <1>1, <1>4, <2>1, SaveTail
<1>6. /\ Imaged("mxcsr")' = Zero /\ Imaged("fcw")' = Zero
      /\ i = 9 => Imaged("rsp")' = Stack(image')
  <2>1. {"mxcsr", "fcw", "rsp"} \subseteq FieldNames
    BY EntryOrderIs
  <2>2. image' = image
    BY <1>3 DEF GoesOn
  <2>q. QED  BY <1>1, <1>4, <2>1, <2>2 DEF SaveDone
<1>7. SaveDone(i + 1)'
  <2>1. image' = image
    BY <1>3 DEF GoesOn
  <2>2. CASE i = 7
    BY <2>2, <2>1, <1>v, <1>4, <1>5, <1>6 DEF SaveDone
  <2>3. CASE i = 9
    BY <2>3, <2>1, <1>v, <1>4, <1>5, <1>6 DEF SaveDone
  <2>q. QED  BY <2>2, <2>3
<1>q. QED  BY <1>4, <1>7

\* The control words, into zeroed storage.
LEMMA SaveFinishes ==
  ASSUME IInv, NEW i \in {8, 10, 11, 12}, pc = <<"save", i>>, Next, ~Signal
  PROVE  IInv'
<1> DEFINE r == CASE i = 8 -> "rsp" [] i = 10 -> "ra" [] i = 11 -> "mxcsr" [] i = 12 -> "fcw"
<1>1. /\ "save" \in DOMAIN Programs /\ i \in 7..12 /\ i \in 1..12 /\ i \in Nat /\ SaveDone(i)
      /\ regs["rdi"] = Stack(image)
  BY InSaving DEF SaveFrame
<1>2. regs["rdi"][2] = image
  BY <1>1 DEF Stack
<1>v. PICK v : v = CASE i = 8 -> Stack(image) [] i = 10 -> InCapture
                     [] i = 11 -> regs["mxcsr"] [] i = 12 -> regs["fcw"]
  OBVIOUS
<1>3. GoesOn("save", i) /\ regs' = regs /\ mem' = [mem EXCEPT ![image + Offset[r]] = v]
  <2>1. CASE i \in {8, 10}
    <3>1. regs["rax"] = v
      BY <2>1, <1>1, <1>v DEF SaveDone
    <3>2. Programs["save"][i] = Store("rax", Offset[r], "rdi")
      BY <2>1, InSaving, SaveCode
    <3> HIDE DEF r
    <3>q. QED  BY <3>1, <3>2, <1>1, <1>2, StoreStep
  <2>2. CASE i \in {11, 12}
    <3>1. /\ Programs["save"][i] = StoreLow(r, Offset[r], "rdi")
          /\ Imaged(r) = Zero /\ regs[r] = v
      <4>1. CASE i = 11
        BY <4>1, <1>1, <1>v, InSaving, SaveCode DEF SaveDone
      <4>2. CASE i = 12
        BY <4>2, <1>1, <1>v, InSaving, SaveCode DEF SaveDone
      <4>q. QED  BY <2>2, <4>1, <4>2
    <3> HIDE DEF r
    <3>2. mem[image + Offset[r]] = Zero
      BY <3>1 DEF Imaged
    <3>3. /\ GoesOn("save", i) /\ regs' = regs
          /\ mem' = [mem EXCEPT ![regs["rdi"][2] + Offset[r]] = IF @ = Zero THEN regs[r] ELSE Junk]
      BY <3>1, <1>1, LowStep
    <3>q. QED  BY <3>1, <3>2, <3>3, <1>2
  <2>q. QED  BY <2>1, <2>2
<1>4. /\ r \in {"rsp", "ra", "mxcsr", "fcw"} /\ r \notin Preserved \ {"mxcsr", "fcw"}
      /\ r \in FieldNames
  BY EntryOrderIs
<1>5. /\ SaveDone(i + 1)' => IInv'
      /\ Imaged(r)' = v /\ \A q \in FieldNames : q # r => Imaged(q)' = Imaged(q)
  <2> HIDE DEF r
  <2>q. QED  BY <1>1, <1>3, <1>4, SaveStored
<1>6. \A k \in 1..6 : Imaged(SaveOrder[k])' = regs'[SaveOrder[k]]
  <2> HIDE DEF r
  <2>q. QED  BY <1>1, <1>3, <1>4, <1>5, SaveTail
<1>7. {"rsp", "ra", "mxcsr", "fcw"} \subseteq FieldNames
  BY EntryOrderIs
<1>8. image' = image /\ regs' = regs
  BY <1>3 DEF GoesOn
<1>9. SaveDone(i + 1)'
  <2>1. CASE i = 8
    <3>1. Imaged("rsp")' = Stack(image') /\ Imaged("mxcsr")' = Zero /\ Imaged("fcw")' = Zero
      BY <2>1, <1>1, <1>v, <1>5, <1>7, <1>8 DEF SaveDone
    <3>q. QED  BY <2>1, <3>1, <1>6 DEF SaveDone
  <2>2. CASE i = 10
    <3>1. /\ Imaged("rsp")' = Stack(image') /\ Imaged("mxcsr")' = Zero /\ Imaged("fcw")' = Zero
          /\ Imaged("ra")' = InCapture
      BY <2>2, <1>1, <1>v, <1>5, <1>7, <1>8 DEF SaveDone
    <3>q. QED  BY <2>2, <3>1, <1>6 DEF SaveDone
  <2>3. CASE i = 11
    <3>1. /\ Imaged("rsp")' = Stack(image') /\ Imaged("mxcsr")' = regs'["mxcsr"] /\ Imaged("fcw")' = Zero
          /\ Imaged("ra")' = InCapture
      BY <2>3, <1>1, <1>v, <1>5, <1>7, <1>8 DEF SaveDone
    <3>q. QED  BY <2>3, <3>1, <1>6 DEF SaveDone
  <2>4. CASE i = 12
    <3>1. /\ Imaged("rsp")' = Stack(image') /\ Imaged("mxcsr")' = regs'["mxcsr"]
          /\ Imaged("fcw")' = regs'["fcw"] /\ Imaged("ra")' = InCapture
      BY <2>4, <1>1, <1>v, <1>5, <1>7, <1>8 DEF SaveDone
    <3>q. QED  BY <2>4, <3>1, <1>6 DEF SaveDone
  <2>q. QED  BY <2>1, <2>2, <2>3, <2>4
<1>q. QED  BY <1>5, <1>9

\* Registers::save returns.
LEMMA SaveReturns ==
  ASSUME IInv, pc = <<"save", 13>>, Next, ~Signal
  PROVE  IInv'
<1>1. /\ "save" \in DOMAIN Programs /\ Programs["save"][13] = Ret /\ Shape
      /\ SaveFrame /\ SaveDone(13) /\ Kept(Caller) /\ chosen = InitialRegs
      /\ image \in 1..(Top - 18)
  BY InSaving, SaveCode
<1>2. regs["rsp"] = Stack(image - 1) /\ mem[image - 1] = InCapture /\ asked = "capture"
      /\ image \in 1..(Caller - Size)
  BY <1>1 DEF SaveFrame
<1>3. Sp = image - 1 /\ Sp + 1 = image
  BY <1>1, <1>2, Numbers DEF Sp, Stack
<1>4. /\ pc' = mem[Sp][2] /\ UNCHANGED <<asked, image, chosen, mem>>
      /\ regs' = [regs EXCEPT !["rsp"] = Stack(Sp + 1)]
  BY <1>1, RetStep
<1>5. pc' = <<"captured", 1>>
  BY <1>2, <1>3, <1>4 DEF Code, InCapture
<1>m. PICK m : m = image
  OBVIOUS
<1>6. /\ regs' = [q \in Names |-> regs'[q]] /\ regs'["rsp"] = Stack(m)
      /\ \A q \in Names : q # "rsp" => regs'[q] = regs[q]
  <2>1. regs' = [regs EXCEPT !["rsp"] = Stack(m)]
    BY <1>3, <1>4, <1>m
  <2>q. QED  BY <1>1, <2>1, Registers, RegWritten
<1>7. \A r \in FieldNames : Imaged(r)' = Imaged(r)
  BY <1>4 DEF Imaged
<1>8. CapturedInv'
  <2>1. \A k \in 1..6 : Imaged(SaveOrder[k]) = regs[SaveOrder[k]]
    BY <1>1 DEF SaveDone
  <2>2. /\ Imaged("rsp") = Stack(m) /\ Imaged("ra") = InCapture
        /\ Imaged("mxcsr") = regs["mxcsr"] /\ Imaged("fcw") = regs["fcw"]
    BY <1>1, <1>m DEF SaveDone
  <2>3. ASSUME NEW r \in Preserved PROVE Imaged(r)' = regs'[r]
    <3>1. Imaged(r) = regs[r]
      BY <2>1, <2>2, SaveOrderIs
    <3>2. r \in FieldNames /\ r \in Names /\ r # "rsp"
      BY Registers, EntryOrderIs
    <3>q. QED  BY <3>1, <3>2, <1>6, <1>7
  <2>4. Imaged("rsp")' = regs'["rsp"] /\ Imaged("ra")' = InCapture
    BY <2>2, <1>6, <1>7, EntryOrderIs
  <2>5. image' = m /\ m \in 1..(Caller - Size) /\ asked' = "capture"
    BY <1>2, <1>4, <1>m
  <2>q. QED  BY <2>3, <2>4, <2>5, <1>5, <1>6 DEF CapturedInv
<1>9. Common'
  <2>1. Kept(Caller)'
    BY <1>1, <1>4 DEF Kept
  <2>2. asked' = "capture" /\ chosen' = InitialRegs
    BY <1>1, <1>2, <1>4
  <2>3. pc' = <<pc'[1], pc'[2]>> /\ pc'[1] = "captured"
    BY <1>5
  <2>4. mem' = [b \in 0..Top |-> mem'[b]] /\ chosen' = [r \in Names |-> chosen'[r]]
    BY <1>1, <1>4 DEF Shape
  <2>5. Stacked'
    BY <2>1, <2>2, <2>3 DEF Stacked, Unwound, InitialRegs
  <2>q. QED  BY <1>6, <2>2, <2>3, <2>4, <2>5 DEF Common, Shape, Asked
<1>q. QED  BY <1>5, <1>8, <1>9, AtElsewhere DEF Elsewhere

\* Every step of Registers::save.
LEMMA SaveSteps ==
  ASSUME IInv, pc[1] = "save", Next
  PROVE  IInv'
<1>1. PICK i \in 1..13 : pc = <<"save", i>>
  BY DEF IInv, SaveInv, Shape
<1>2. CASE Signal
  BY <1>1, <1>2, SaveSignal
<1>3. CASE ~Signal
  <2>1. CASE i \in 1..6
    BY <1>1, <1>3, <2>1, SaveStores
  <2>2. CASE i \in {7, 9}
    BY <1>1, <1>3, <2>2, SaveComputes
  <2>3. CASE i \in {8, 10, 11, 12}
    BY <1>1, <1>3, <2>3, SaveFinishes
  <2>4. CASE i = 13
    BY <1>1, <1>3, <2>4, SaveReturns
  <2>q. QED  BY <1>1, <2>1, <2>2, <2>3, <2>4
<1>q. QED  BY <1>2, <1>3

-----------------------------------------------------------------------------
(* Registers::jump. *)

\* The jump loads every register, %rdi after all the others.
LEMMA JumpOrderIs ==
  /\ \A k \in {2, 3} \cup 6..20 : JumpOrder[k] \in Names \ {"rsp"} /\ (JumpOrder[k] = "rdi" => k = 20)
  /\ \A r \in Names \ {"rsp"} : \E k \in {2, 3} \cup 6..20 : r = JumpOrder[k]
  /\ JumpOrder[1] = "rsp"
<1>1. \A k \in {2, 3} \cup 6..20 :
        JumpOrder[k] \in Names \ {"rsp"} /\ (JumpOrder[k] = "rdi" => k = 20)
  BY Registers DEF JumpOrder
<1>2. ASSUME NEW r \in Names \ {"rsp"} PROVE \E k \in {2, 3} \cup 6..20 : r = JumpOrder[k]
  BY Registers DEF JumpOrder
<1>q. QED  BY <1>1, <1>2 DEF JumpOrder

\* What is known inside the jump.
LEMMA InJump ==
  ASSUME IInv, NEW i, pc = <<"jump", i>>
  PROVE  \E t \in Targets, m \in 0..(Top - 18) :
           /\ "jump" \in DOMAIN Programs /\ Programs["jump"] = Jump /\ i \in 1..21 /\ i \in Nat
           /\ Shape /\ asked \in Entries /\ JumpAt(i)
           /\ chosen["rsp"] = Stack(t) /\ chosen["rsp"][2] = t /\ Kept(t)
           /\ t \in Caller..Top /\ image = m /\ m + 18 < Caller - 2
<1>1. pc[1] = "jump" /\ pc[2] = i
  OBVIOUS
<1>2. i \in 1..21 /\ JumpAt(i)
  BY <1>1 DEF IInv, JumpInv
<1>3. asked \in Entries /\ image \in 0..(Top - 18) /\ image + 18 < Caller - 2
  BY <1>2, Numbers DEF JumpAt
<1>4. PICK t \in Targets : chosen["rsp"] = Stack(t) /\ Kept(t)
  BY <1>1 DEF IInv, Stacked, Unwound
<1>5. t \in Caller..Top /\ chosen["rsp"][2] = t
  BY <1>4, Numbers DEF Stack
<1>q. QED  BY <1>1, <1>2, <1>3, <1>4, <1>5, ProgramsAre DEF IInv

\* A step inside the jump has to establish what comes next.
LEMMA JumpOnward ==
  ASSUME IInv, NEW i \in 1..20, pc = <<"jump", i>>, GoesOn("jump", i),
         regs' = [q \in Names |-> regs'[q]], mem' = [b \in 0..Top |-> mem'[b]],
         \A b \in 0..Top : b >= chosen["rsp"][2] => mem'[b] = mem[b], JumpAt(i + 1)'
  PROVE  IInv'
<1>1. PICK t \in Targets :
        /\ Shape /\ asked \in Entries /\ chosen["rsp"] = Stack(t) /\ chosen["rsp"][2] = t /\ Kept(t)
        /\ t \in Caller..Top
  BY InJump
<1>2. Kept(t)'
  BY <1>1, Numbers, KeptSame
<1>3. pc' = <<"jump", i + 1>> /\ UNCHANGED <<asked, image, chosen>>
  BY DEF GoesOn
<1>4. Stacked'
  BY <1>1, <1>2, <1>3 DEF Stacked, Unwound
<1>5. Shape' /\ Asked'
  BY <1>1, <1>3 DEF Shape, Asked
<1>6. JumpInv'
  <2>1. i + 1 \in 1..21
    OBVIOUS
  <2>q. QED  BY <1>3, <2>1 DEF JumpInv
<1>q. QED  BY <1>3, <1>4, <1>5, <1>6, AtElsewhere DEF Common, Elsewhere

\* A signal in the jump: the one place where the red zone has to be large
\* enough, for the image lies below the stack pointer.
LEMMA JumpSignal ==
  ASSUME JumpUndisturbed, IInv, NEW i, pc = <<"jump", i>>, Signal
  PROVE  IInv'
<1>1. PICK t \in Targets, m \in 0..(Top - 18) :
        /\ Shape /\ asked \in Entries /\ chosen["rsp"] = Stack(t) /\ chosen["rsp"][2] = t /\ Kept(t)
        /\ t \in Caller..Top /\ image = m /\ m + 18 < Caller - 2 /\ i \in 1..21 /\ JumpAt(i)
  BY InJump
<1>2. PICK s \in {m - 2, t, t - 1} : regs["rsp"] = Stack(s)
  BY <1>1 DEF JumpAt
<1>3. s \in Int /\ s <= t /\ (s # m - 2 => s \in {t, t - 1})
  BY <1>1, <1>2, Numbers
<1>4. /\ "jump" \in Interrupted
      /\ UNCHANGED <<regs, pc, asked, image, chosen>>
      /\ mem' = [b \in 0..Top |-> mem'[b]]
      /\ \A b \in 0..Top : b >= s - RedZone => mem'[b] = mem[b]
  BY <1>2, <1>3, SignalStep
<1>5. s - RedZone <= m
  <2>1. PICK d \in Depths : m = Base - 1 - d - Size
    BY <1>1 DEF JumpAt
  <2>2. t - RedZone <= Caller - (STACK + Size + d + 2)
    BY <1>1, <1>4 DEF JumpUndisturbed
  <2>3. Caller \in Nat /\ d \in Nat /\ STACK = 23 /\ Size = 19 /\ Base = Caller - 24
    BY Numbers
  <2>4. Caller - (STACK + Size + d + 2) = m
    BY <2>1, <2>3
  <2>5. t - RedZone <= m
    BY <2>2, <2>4
  <2>q. QED  BY <1>1, <1>3, <2>5, Numbers
<1>6. \A b \in 0..Top : b >= m => mem'[b] = mem[b]
  BY <1>1, <1>3, <1>4, <1>5, Numbers
<1>7. \A r \in FieldNames : Imaged(r)' = Imaged(r)
  <2>1. image' = m /\ \A b \in m..(m + 18) : mem'[b] = mem[b]
    BY <1>1, <1>4, <1>6, Numbers
  <2>q. QED  BY <1>1, <2>1, ImagedSame
<1>8. mem'[t - 1] = mem[t - 1]
  BY <1>1, <1>6, Numbers
<1>9. JumpAt(i)'
  <2>1. \A r \in Names : Imaged(r)' = chosen'[r]
    BY <1>1, <1>4, <1>7, Registers DEF JumpAt
  <2>2. Imaged("ra")' = InPad
    BY <1>1, <1>7, Registers DEF JumpAt
  <2>3. i > 5 => mem'[chosen'["rsp"][2] - 1] = InPad
    BY <1>1, <1>4, <1>8 DEF JumpAt
  <2>4. /\ asked' \in Entries /\ image' \in 0..(Caller - Size - 2)
        /\ \E d \in Depths : image' = Base - 1 - d - Size
        /\ regs'["rsp"] = Stack(IF i = 1 THEN image' - 2 ELSE IF i <= 5 THEN chosen'["rsp"][2]
                                                           ELSE chosen'["rsp"][2] - 1)
        /\ i <= 20 => regs'["rdi"] = Stack(image')
        /\ i = 5 => regs'["rax"] = InPad
        /\ \A k \in {2, 3} \cup 6..20 : k < i => regs'[JumpOrder[k]] = chosen'[JumpOrder[k]]
    BY <1>1, <1>4 DEF JumpAt
  <2>q. QED  BY <2>1, <2>2, <2>3, <2>4 DEF JumpAt
<1>10. Kept(t)'
  <2>1. \A b \in 0..Top : b >= t => mem'[b] = mem[b]
    BY <1>1, <1>6, Numbers
  <2>q. QED  BY <1>1, <2>1, Numbers, KeptSame
<1>11. Stacked' /\ Shape' /\ Asked'
  <2>1. pc' = <<"jump", i>>
    BY <1>4
  <2>q. QED  BY <1>1, <1>4, <1>10, <2>1 DEF Stacked, Unwound, Shape, Asked
<1>12. JumpInv'
  BY <1>1, <1>4, <1>9 DEF JumpInv
<1>q. QED  BY <1>4, <1>11, <1>12, AtElsewhere DEF Common, Elsewhere

\* It loads a register.
LEMMA JumpLoads ==
  ASSUME IInv, NEW i \in 1..20, i # 5, pc = <<"jump", i>>, Next, ~Signal
  PROVE  IInv'
<1>1. PICK t \in Targets, m \in 0..(Top - 18) :
        /\ Shape /\ asked \in Entries /\ chosen["rsp"] = Stack(t) /\ chosen["rsp"][2] = t /\ Kept(t)
        /\ t \in Caller..Top /\ image = m /\ m + 18 < Caller - 2 /\ JumpAt(i)
        /\ "jump" \in DOMAIN Programs /\ Programs["jump"] = Jump /\ i \in Nat
  BY InJump
<1> DEFINE w == IF i = 4 THEN "ra" ELSE JumpOrder[i]
           r == JumpOrder[i]
<1>2. Programs["jump"][i] = Load(Offset[w], "rdi", r)
  <2>1. CASE i = 4
    BY <2>1, <1>1, JumpCode DEF JumpOrder
  <2>2. CASE i # 4
    BY <2>2, <1>1, JumpCode
  <2>q. QED  BY <2>1, <2>2
<1>3. w \in FieldNames /\ r \in Names
      /\ (i # 1 => r # "rsp") /\ (r = "rdi" => i = 20) /\ (i # 4 => w = r)
      /\ (i = 4 => w = "ra" /\ r = "rax") /\ (i = 1 => r = "rsp")
  <2>1. CASE i = 4
    BY <2>1, Registers DEF JumpOrder
  <2>2. CASE i # 4
    BY <2>2, Registers, JumpOrderIs
  <2>q. QED  BY <2>1, <2>2
<1> HIDE DEF r, w
<1>4. regs["rdi"][2] = m
  BY <1>1 DEF JumpAt, Stack
<1>v. PICK v : v = mem[m + Offset[w]]
  OBVIOUS
<1>5. GoesOn("jump", i) /\ mem' = mem /\ regs' = [regs EXCEPT ![r] = v]
  BY <1>1, <1>2, <1>4, <1>v, LoadStep
<1>6. /\ UNCHANGED <<asked, image, chosen>> /\ \A q \in FieldNames : Imaged(q)' = Imaged(q)
  BY <1>5 DEF GoesOn, Imaged
<1>7. v = Imaged(w)
  BY <1>1, <1>v DEF Imaged
<1>8. v = IF i = 4 THEN InPad ELSE chosen[r]
  BY <1>1, <1>3, <1>7 DEF JumpAt
<1>9. /\ regs' = [q \in Names |-> regs'[q]]
      /\ regs'[r] = v /\ \A q \in Names : q # r => regs'[q] = regs[q]
  BY <1>1, <1>3, <1>5, RegWritten
<1>10. ASSUME NEW k \in {2, 3} \cup 6..20, k < i + 1
       PROVE  regs'[JumpOrder[k]] = chosen'[JumpOrder[k]]
  <2>0. JumpOrder[k] \in Names /\ JumpOrder[k] # "rsp"
    BY JumpOrderIs
  <2>1. CASE JumpOrder[k] = r /\ i # 4
    BY <2>1, <1>6, <1>8, <1>9
  <2>2. CASE JumpOrder[k] # r
    <3>1. k < i
      BY <1>10, <2>2 DEF r
    <3>q. QED  BY <2>0, <2>2, <3>1, <1>1, <1>6, <1>9 DEF JumpAt
  <2>3. CASE i = 4
    <3>1. JumpOrder[k] # "rax"
      BY <2>3, <1>10 DEF JumpOrder
    <3>q. QED  BY <2>2, <2>3, <3>1, <1>3
  <2>q. QED  BY <2>1, <2>2, <2>3
<1>11. regs'["rsp"] = Stack(IF i + 1 <= 5 THEN t ELSE t - 1)
  <2>1. CASE i = 1
    BY <2>1, <1>1, <1>3, <1>8, <1>9
  <2>2. CASE i # 1
    <3>1. regs["rsp"] = Stack(IF i <= 5 THEN t ELSE t - 1)
      BY <2>2, <1>1 DEF JumpAt
    <3>2. (i <= 5) <=> (i + 1 <= 5)
      OBVIOUS
    <3>q. QED  BY <2>2, <3>1, <3>2, <1>3, <1>9, Registers
  <2>q. QED  BY <2>1, <2>2
<1>12. i + 1 <= 20 => regs'["rdi"] = Stack(m)
  BY <1>1, <1>3, <1>9, Registers DEF JumpAt
<1>13. JumpAt(i + 1)'
  <2>1. \A q \in Names : Imaged(q)' = chosen'[q]
    BY <1>1, <1>6, Registers DEF JumpAt
  <2>2. Imaged("ra")' = InPad
    BY <1>1, <1>6, Registers DEF JumpAt
  <2>3. i + 1 > 5 => mem'[t - 1] = InPad
    BY <1>1, <1>5 DEF JumpAt
  <2>4. i + 1 = 5 => regs'["rax"] = InPad
    <3>1. i + 1 = 5 => i = 4
      OBVIOUS
    <3>q. QED  BY <3>1, <1>3, <1>8, <1>9
  <2>5. /\ asked' \in Entries /\ image' \in 0..(Caller - Size - 2)
        /\ \E d \in Depths : image' = Base - 1 - d - Size
        /\ chosen'["rsp"][2] = t /\ image' = m
    BY <1>1, <1>6 DEF JumpAt
  <2>6. i + 1 # 1
    OBVIOUS
  <2>q. QED  BY <1>10, <1>11, <1>12, <2>1, <2>2, <2>3, <2>4, <2>5, <2>6 DEF JumpAt
<1>14. mem' = [b \in 0..Top |-> mem'[b]]
  BY <1>1, <1>5 DEF Shape
<1>q. QED  BY <1>5, <1>9, <1>13, <1>14, JumpOnward

\* It pushes the address of the pad, below the frames that go on.
LEMMA JumpPushes ==
  ASSUME IInv, pc = <<"jump", 5>>, Next, ~Signal
  PROVE  IInv'
<1>1. PICK t \in Targets, m \in 0..(Top - 18) :
        /\ Shape /\ asked \in Entries /\ chosen["rsp"] = Stack(t) /\ chosen["rsp"][2] = t /\ Kept(t)
        /\ t \in Caller..Top /\ image = m /\ m + 18 < Caller - 2 /\ JumpAt(5)
        /\ "jump" \in DOMAIN Programs /\ Programs["jump"] = Jump
  BY InJump
<1>2. regs["rsp"] = Stack(t) /\ regs["rax"] = InPad /\ regs["rdi"] = Stack(m)
  BY <1>1 DEF JumpAt
<1>3. GoesOn("jump", 5) /\ Pushed(InPad)
  <2>1. Programs["jump"][5] = Push("rax")
    BY <1>1, JumpCode
  <2>q. QED  BY <2>1, <1>1, <1>2, PushStep
<1>4. t \in 1..(Top + 1)
  BY <1>1, Numbers
<1>5. /\ regs' = [q \in Names |-> regs'[q]] /\ mem' = [b \in 0..Top |-> mem'[b]]
      /\ regs'["rsp"] = Stack(t - 1) /\ \A q \in Names : q # "rsp" => regs'[q] = regs[q]
      /\ mem'[t - 1] = InPad /\ \A b \in 0..Top : b # t - 1 => mem'[b] = mem[b]
  BY <1>1, <1>2, <1>3, <1>4, PushedStep
<1>6. UNCHANGED <<asked, image, chosen>>
  BY <1>3 DEF GoesOn
<1>7. \A r \in FieldNames : Imaged(r)' = Imaged(r)
  <2>1. \A b \in m..(m + 18) : mem'[b] = mem[b]
    BY <1>1, <1>5, Numbers
  <2>q. QED  BY <1>1, <1>6, <2>1, ImagedSame
<1>8. JumpAt(6)'
  <2>1. \A q \in Names : Imaged(q)' = chosen'[q]
    BY <1>1, <1>6, <1>7, Registers DEF JumpAt
  <2>2. Imaged("ra")' = InPad
    BY <1>1, <1>7, Registers DEF JumpAt
  <2>3. /\ asked' \in Entries /\ image' \in 0..(Caller - Size - 2)
        /\ \E d \in Depths : image' = Base - 1 - d - Size
        /\ chosen'["rsp"][2] = t /\ image' = m
    BY <1>1, <1>6 DEF JumpAt
  <2>4. regs'["rdi"] = Stack(m)
    BY <1>2, <1>5, Registers
  <2>5. ASSUME NEW k \in {2, 3} \cup 6..20, k < 6
        PROVE  regs'[JumpOrder[k]] = chosen'[JumpOrder[k]]
    <3>1. k < 5
      BY <2>5
    <3>2. JumpOrder[k] \in Names \ {"rsp"}
      BY JumpOrderIs
    <3>q. QED  BY <3>1, <3>2, <1>1, <1>5, <1>6 DEF JumpAt
  <2>q. QED  BY <1>5, <2>1, <2>2, <2>3, <2>4, <2>5 DEF JumpAt
<1>9. \A b \in 0..Top : b >= chosen["rsp"][2] => mem'[b] = mem[b]
  BY <1>1, <1>5, Numbers
<1>q. QED  BY <1>3, <1>5, <1>8, <1>9, JumpOnward

\* It enters the pad.
LEMMA JumpReturns ==
  ASSUME IInv, pc = <<"jump", 21>>, Next, ~Signal
  PROVE  IInv'
<1>1. PICK t \in Targets, m \in 0..(Top - 18) :
        /\ Shape /\ asked \in Entries /\ chosen["rsp"] = Stack(t) /\ chosen["rsp"][2] = t /\ Kept(t)
        /\ t \in Caller..Top /\ JumpAt(21)
        /\ "jump" \in DOMAIN Programs /\ Programs["jump"] = Jump
  BY InJump
<1>2. regs["rsp"] = Stack(t - 1) /\ mem[t - 1] = InPad
  BY <1>1 DEF JumpAt
<1>3. Sp = t - 1 /\ Sp + 1 = t
  BY <1>1, <1>2, Numbers DEF Sp, Stack
<1>4. /\ pc' = mem[Sp][2] /\ UNCHANGED <<asked, image, chosen, mem>>
      /\ regs' = [regs EXCEPT !["rsp"] = Stack(Sp + 1)]
  BY <1>1, JumpCode, RetStep
<1>5. pc' = <<"pad", 1>>
  BY <1>2, <1>3, <1>4 DEF Code, InPad
<1>6. /\ regs' = [q \in Names |-> regs'[q]] /\ regs'["rsp"] = Stack(t)
      /\ \A q \in Names : q # "rsp" => regs'[q] = regs[q]
  BY <1>1, <1>3, <1>4, Registers, RegWritten
<1>7. regs' = chosen'
  <2>1. ASSUME NEW r \in Names PROVE regs'[r] = chosen[r]
    <3>1. CASE r = "rsp"
      BY <3>1, <1>1, <1>6
    <3>2. CASE r # "rsp"
      <4>1. PICK k \in {2, 3} \cup 6..20 : r = JumpOrder[k]
        BY <3>2, JumpOrderIs
      <4>2. k < 21
        OBVIOUS
      <4>3. regs[r] = chosen[r]
        BY <4>1, <4>2, <1>1 DEF JumpAt
      <4>q. QED  BY <4>3, <3>2, <1>6
    <3>q. QED  BY <3>1, <3>2
  <2>2. chosen = [r \in Names |-> chosen[r]]
    BY <1>1 DEF Shape
  <2>q. QED  BY <2>1, <2>2, <1>4, <1>6
<1>8. Kept(t)'
  BY <1>1, <1>4 DEF Kept
<1>9. Common'
  <2>1. Shape'
    <3>1. pc' = <<pc'[1], pc'[2]>>
      BY <1>5
    <3>2. mem' = [b \in 0..Top |-> mem'[b]] /\ chosen' = [r \in Names |-> chosen'[r]]
      BY <1>1, <1>4 DEF Shape
    <3>q. QED  BY <1>6, <3>1, <3>2 DEF Shape
  <2>q. QED  BY <1>1, <1>4, <1>5, <1>8, <2>1 DEF Common, Asked, Stacked, Unwound
<1>10. PadInv'
  <2>1. asked' # "none"
    BY <1>1, <1>4 DEF Entries
  <2>q. QED  BY <2>1, <1>5, <1>7 DEF PadInv
<1>q. QED  BY <1>5, <1>9, <1>10, AtElsewhere DEF Elsewhere

\* Every step of the jump.
LEMMA JumpSteps ==
  ASSUME JumpUndisturbed, IInv, pc[1] = "jump", Next
  PROVE  IInv'
<1>1. PICK i \in 1..21 : pc = <<"jump", i>>
  BY DEF IInv, JumpInv, Shape
<1>2. CASE Signal
  BY <1>1, <1>2, JumpSignal
<1>3. CASE ~Signal
  <2>1. CASE i \in 1..20 /\ i # 5
    BY <1>1, <1>3, <2>1, JumpLoads
  <2>2. CASE i = 5
    BY <1>1, <1>3, <2>2, JumpPushes
  <2>3. CASE i = 21
    BY <1>1, <1>3, <2>3, JumpReturns
  <2>q. QED  BY <1>1, <2>1, <2>2, <2>3
<1>q. QED  BY <1>2, <1>3

-----------------------------------------------------------------------------
(* The program and the Rust code. *)

\* Where no instruction of this code is next, only a signal or the named
\* actions of the program and the Rust code can happen.
LEMMA NotMachine ==
  ASSUME pc[1] \notin DOMAIN Programs
  PROVE  ~Machine
BY DEF Machine, Stores, StoresZero, StoresLow, Loads, Computes, Pushes, Calls, Returns, Is, Running

\* The program calls an entry.
LEMMA ProgramEnters ==
  ASSUME IInv, NEW f \in Entries, Enter(f)
  PROVE  IInv'
<1>1. /\ pc = <<"program", 1>> /\ asked = "none" /\ Shape /\ regs = InitialRegs
      /\ chosen = InitialRegs /\ Kept(Caller)
  BY DEF IInv, Enter, At, ProgramInv, Stacked, Unwound
<1>2. regs["rsp"] = Stack(Caller) /\ \A r \in Names : r # "rsp" => regs[r] = Of(r)
  BY <1>1, Registers DEF InitialRegs
<1>3. Caller \in 1..(Top + 1) /\ Sp - 1 - STACK = Base
  BY <1>2, Numbers DEF Sp, Stack
<1>4. /\ Pushed(InProgram) /\ asked' = f /\ pc' = <<f, 1>> /\ image' = Base /\ chosen' = chosen
  BY <1>3 DEF Enter
<1>5. /\ regs' = [q \in Names |-> regs'[q]] /\ mem' = [b \in 0..Top |-> mem'[b]]
      /\ regs'["rsp"] = Stack(Caller - 1) /\ \A q \in Names : q # "rsp" => regs'[q] = regs[q]
      /\ mem'[Caller - 1] = InProgram /\ \A b \in 0..Top : b # Caller - 1 => mem'[b] = mem[b]
  BY <1>1, <1>2, <1>3, <1>4, PushedStep
<1>6. Arity(f) \in 1..3
  BY EntryPrograms
<1>7. Behind(f)'
  <2>1. \A r \in Preserved : regs'[r] = Of(r)
    BY <1>2, <1>5, Registers
  <2>q. QED  BY <1>1, <1>4, <1>5, <2>1 DEF Behind, Callers
<1>8. EntryInv(f)'
  <2>1. \A j \in 1..Arity(f) : regs'[Arguments[j]] = Of(Arguments[j])
    BY <1>2, <1>5, <1>6, Registers
  <2>2. EntryAt(f, 1)'
    BY <1>5, <1>6, <1>7, <2>1 DEF EntryAt
  <2>3. 1 \in 1..(2 * Arity(f) + (IF f = "resume" THEN 6 ELSE 8))
    BY <1>6
  <2>q. QED  BY <1>4, <2>2, <2>3 DEF EntryInv
<1>9. Common'
  <2>1. Kept(Caller)'
    BY <1>1, <1>5, Numbers, KeptSame
  <2>2. pc' = <<pc'[1], pc'[2]>> /\ pc'[1] \notin {"jump", "pad"}
    BY <1>4 DEF Entries
  <2>3. chosen' = InitialRegs /\ chosen' = [r \in Names |-> chosen'[r]]
    BY <1>1, <1>4 DEF Shape
  <2>4. Stacked'
    BY <2>1, <2>2, <2>3 DEF Stacked, Unwound, InitialRegs
  <2>q. QED  BY <1>4, <1>5, <2>2, <2>3, <2>4 DEF Common, Shape, Asked
<1>q. QED  BY <1>4, <1>8, <1>9, AtEntry

\* The program captures a cursor.
LEMMA ProgramCaptures ==
  ASSUME IInv, NEW d \in Depths, CaptureCalls(d)
  PROVE  IInv'
<1> DEFINE at == Caller - d - Size
<1>1. /\ pc = <<"program", 1>> /\ asked = "none" /\ Shape /\ regs = InitialRegs
      /\ chosen = InitialRegs /\ Kept(Caller)
  BY DEF IInv, CaptureCalls, At, ProgramInv, Stacked, Unwound
<1>2. regs["rsp"] = Stack(Caller)
  BY <1>1, Registers DEF InitialRegs
<1>3. Sp = Caller
  BY <1>2 DEF Sp, Stack
<1>4. at \in 1..(Caller - Size) /\ at \in 0..(Top - 18) /\ at - 1 \in 0..Top /\ at + 18 < Caller
      /\ at + Size - 1 = at + 18
  BY Numbers
<1>5. /\ image' = at /\ asked' = "capture" /\ pc' = <<"save", 1>> /\ chosen' = chosen
      /\ mem' = [a \in 0..Top |-> CASE a \in at..(at + Size - 1) -> Zero
                                    [] a = at - 1 -> InCapture
                                    [] OTHER -> Below(Caller, mem)[a]]
      /\ regs' = [r \in Names |-> CASE r = "rsp" -> Stack(at - 1)
                                    [] r = "rdi" -> Stack(at)
                                    [] r \in Control -> regs[r]
                                    [] OTHER -> <<"rust", r>>]
  BY <1>3 DEF CaptureCalls
<1> HIDE DEF at
<1>6. /\ mem' = [a \in 0..Top |-> mem'[a]] /\ regs' = [r \in Names |-> regs'[r]]
      /\ regs'["rsp"] = Stack(at - 1) /\ regs'["rdi"] = Stack(at)
      /\ mem'[at - 1] = InCapture
      /\ \A a \in at..(at + 18) : mem'[a] = Zero
  <2>1. regs' = [r \in Names |-> regs'[r]] /\ regs'["rsp"] = Stack(at - 1) /\ regs'["rdi"] = Stack(at)
    <3>1. "rsp" \in Names /\ "rdi" \in Names
      BY Registers
    <3>q. QED  BY <1>5, <3>1 DEF Control
  <2>2. mem' = [a \in 0..Top |-> mem'[a]]
    BY <1>5
  <2>3. mem'[at - 1] = InCapture
    <3>1. at - 1 \notin at..(at + Size - 1)
      BY <1>4
    <3>q. QED  BY <1>4, <1>5, <3>1
  <2>4. ASSUME NEW a \in at..(at + 18) PROVE mem'[a] = Zero
    <3>1. a \in 0..Top /\ a \in at..(at + Size - 1) /\ a # at - 1
      BY <1>4, Numbers
    <3>q. QED  BY <1>5, <3>1
  <2>q. QED  BY <2>1, <2>2, <2>3, <2>4
<1>7. \A a \in 0..Top : a >= Caller => mem'[a] = mem[a]
  <2>1. ASSUME NEW a \in 0..Top, a >= Caller
        PROVE  mem'[a] = mem[a]
    <3>1. a \notin at..(at + Size - 1) /\ a # at - 1
      BY <1>4, <2>1, Numbers
    <3>2. mem'[a] = Below(Caller, mem)[a]
      BY <1>5, <3>1
    <3>q. QED  BY <2>1, <3>2, Numbers DEF Below
  <2>q. QED  BY <2>1
<1>8. \A r \in FieldNames : Imaged(r)' = Zero
  <2>1. ASSUME NEW r \in FieldNames PROVE Imaged(r)' = Zero
    <3>1. at + Offset[r] \in at..(at + 18)
      BY <1>4, ImagedIs
    <3>2. Imaged(r)' = mem'[at + Offset[r]]
      BY <1>5 DEF Imaged
    <3>q. QED  BY <1>6, <3>1, <3>2
  <2>q. QED  BY <2>1
<1>9. SaveInv'
  <2>1. Imaged("mxcsr")' = Zero /\ Imaged("fcw")' = Zero
    BY <1>8, EntryOrderIs
  <2>2. SaveFrame'
    BY <1>4, <1>5, <1>6 DEF SaveFrame
  <2>3. SaveDone(1)'
    BY <2>1 DEF SaveDone
  <2>q. QED  BY <1>5, <2>2, <2>3 DEF SaveInv
<1>10. Common'
  <2>1. Kept(Caller)'
    BY <1>1, <1>7, Numbers, KeptSame
  <2>2. pc' = <<pc'[1], pc'[2]>> /\ pc'[1] \notin {"jump", "pad"}
    BY <1>5
  <2>3. chosen' = InitialRegs /\ chosen' = [r \in Names |-> chosen'[r]]
    BY <1>1, <1>5 DEF Shape
  <2>4. Stacked'
    BY <2>1, <2>2, <2>3 DEF Stacked, Unwound, InitialRegs
  <2>q. QED  BY <1>5, <1>6, <2>2, <2>3, <2>4 DEF Common, Shape, Asked
<1>q. QED  BY <1>5, <1>9, <1>10, AtElsewhere DEF Elsewhere

\* The cursor is returned.
LEMMA CaptureEnds ==
  ASSUME IInv, CaptureReturns
  PROVE  IInv'
<1>1. /\ pc = <<"captured", 1>> /\ asked = "capture" /\ Shape /\ chosen = InitialRegs /\ Kept(Caller)
  BY DEF IInv, CaptureReturns, At, CapturedInv, Stacked, Unwound
<1>2. /\ pc' = <<"program", 1>> /\ UNCHANGED <<mem, asked, image, chosen>>
      /\ regs' = [r \in Names |-> regs'[r]] /\ regs'["rsp"] = Stack(Caller)
  BY Registers DEF CaptureReturns
<1>3. ProgramInv'
  BY <1>1, <1>2 DEF ProgramInv, Entries
<1>4. Common'
  <2>1. Kept(Caller)'
    BY <1>1, <1>2 DEF Kept
  <2>2. pc' = <<pc'[1], pc'[2]>> /\ pc'[1] \notin {"jump", "pad"}
    BY <1>2
  <2>3. /\ chosen' = InitialRegs /\ chosen' = [r \in Names |-> chosen'[r]]
        /\ mem' = [b \in 0..Top |-> mem'[b]]
    BY <1>1, <1>2 DEF Shape
  <2>4. Stacked'
    BY <2>1, <2>2, <2>3 DEF Stacked, Unwound, InitialRegs
  <2>q. QED  BY <1>1, <1>2, <2>2, <2>3, <2>4 DEF Common, Shape, Asked
<1>q. QED  BY <1>2, <1>3, <1>4, AtElsewhere DEF Elsewhere

\* What is known in the Rust code behind an entry.
LEMMA InDispatch ==
  ASSUME IInv, NEW f \in Entries, At(Dispatch(f))
  PROVE  /\ pc[1] = Dispatch(f) /\ Shape /\ chosen = InitialRegs /\ Kept(Caller)
         /\ Behind(f) /\ Described /\ asked = f /\ image = Base
         /\ regs["rsp"] = Stack(Base - 1) /\ Sp = Base - 1
         /\ mem[Base - 1] = Code(f, 2 * Arity(f) + 7)
<1>1. pc[1] = Dispatch(f)
  BY DEF At
<1>2. Dispatch(f) \notin {"jump", "pad"}
  BY DispatchIs, ProgramsAre
<1>3. DispatchInv(f)
  BY DEF IInv
<1>4. chosen = InitialRegs /\ Kept(Caller) /\ Shape
  BY <1>1, <1>2 DEF IInv, Stacked, Unwound
<1>5. regs["rsp"] = Stack(Base - 1)
  BY <1>1, <1>3 DEF DispatchInv
<1>6. Sp = Base - 1
  BY <1>5 DEF Sp, Stack
<1>q. QED  BY <1>1, <1>3, <1>4, <1>5, <1>6 DEF DispatchInv, Behind

\* It returns a reason code.
LEMMA RustGoesOn ==
  ASSUME IInv, NEW f \in Entries, RustReturns(f)
  PROVE  IInv'
<1> DEFINE n == Arity(f)
<1>1. /\ Shape /\ chosen = InitialRegs /\ Kept(Caller) /\ Behind(f) /\ asked = f
      /\ Sp = Base - 1 /\ mem[Base - 1] = Code(f, 2 * n + 7)
  BY InDispatch DEF RustReturns
<1>2. n \in 1..3 /\ f # "resume"
  BY EntryPrograms DEF RustReturns
<1> HIDE DEF n
<1>3. pc' = <<f, 2 * n + 7>> /\ UNCHANGED <<asked, image, chosen>>
  BY <1>1 DEF RustReturns, Code
<1>4. (Base - 1) + 1 = Base
  BY Numbers
<1>5. /\ regs' = [r \in Names |-> regs'[r]] /\ regs'["rsp"] = Stack(Base)
      /\ regs'["rax"] = <<"reason", f>> /\ \A r \in Preserved : regs'[r] = regs[r]
  <2> DEFINE g == [r \in Names |-> CASE r = "rax" -> <<"reason", f>>
                                     [] r \in Preserved \cup {"rsp"} -> regs[r]
                                     [] OTHER -> Junk]
  <2>1. regs' = [g EXCEPT !["rsp"] = Stack(Base)]
    BY <1>1, <1>4 DEF RustReturns, Popped
  <2>2. g = [r \in Names |-> g[r]] /\ g["rax"] = <<"reason", f>>
        /\ \A r \in Preserved : g[r] = regs[r]
    <3>1. "rax" \in Names /\ "rax" \notin Preserved /\ Preserved \subseteq Names
      BY Registers DEF Preserved, Control
    <3>q. QED  BY <3>1
  <2> HIDE DEF g
  <2>3. "rax" # "rsp" /\ "rsp" \in Names /\ "rax" \in Names
    BY Registers
  <2>q. QED  BY <2>1, <2>2, <2>3, Registers
<1>6. /\ mem' = [b \in 0..Top |-> mem'[b]]
      /\ \A b \in 0..Top : b >= Base - 1 => mem'[b] = mem[b]
  BY <1>1, Numbers DEF RustReturns, Below
<1>7. Behind(f)'
  <2>1. mem'[Caller - 1] = mem[Caller - 1]
    BY <1>6, Numbers
  <2>q. QED  BY <1>1, <1>3, <1>5, <2>1, BehindKept
<1>8. EntryAt(f, 2 * n + 7)'
  <2>1. ~(2 * n + 7 = 1 \/ 2 * n + 7 = 2 * n + 8) /\ ~(2 * n + 7 <= n + 2) /\ ~(2 * n + 7 <= 2 * n + 6)
        /\ 2 * n + 7 \notin {n + 3, n + 4} /\ 2 * n + 7 \notin {n + 4, 2 * n + 6}
        /\ 2 * n + 7 \notin (n + 5)..(2 * n + 6)
    BY <1>2
  <2>q. QED  BY <1>5, <1>7, <2>1 DEF EntryAt, n
<1>9. EntryInv(f)'
  <2>1. 2 * n + 7 \in 1..(2 * n + (IF f = "resume" THEN 6 ELSE 8))
    BY <1>2
  <2>q. QED  BY <1>3, <1>8, <2>1 DEF EntryInv, n
<1>10. Common'
  <2>1. Kept(Caller)'
    BY <1>1, <1>6, Numbers, KeptSame
  <2>2. pc' = <<pc'[1], pc'[2]>> /\ pc'[1] = f /\ pc'[1] \notin {"jump", "pad"}
    BY <1>3 DEF Entries
  <2>3. chosen' = InitialRegs /\ chosen' = [r \in Names |-> chosen'[r]]
    BY <1>1, <1>3 DEF Shape
  <2>4. Stacked'
    BY <2>1, <2>2, <2>3 DEF Stacked, Unwound, InitialRegs
  <2>q. QED  BY <1>1, <1>3, <1>5, <1>6, <2>2, <2>3, <2>4 DEF Common, Shape, Asked
<1>q. QED  BY <1>3, <1>9, <1>10, AtEntry

\* It traps behind resume.
LEMMA RustStops ==
  ASSUME IInv, RustTraps
  PROVE  IInv'
<1>0. "resume" \in Entries
  BY DEF Entries
<1>1. Shape /\ chosen = InitialRegs /\ Kept(Caller) /\ asked = "resume" /\ regs["rsp"] = Stack(Base - 1)
  BY <1>0, InDispatch DEF RustTraps
<1>2. pc' = <<"trap", 1>> /\ UNCHANGED <<regs, mem, asked, image, chosen>>
  BY DEF RustTraps
<1>3. TrapInv'
  BY <1>1, <1>2 DEF TrapInv
<1>4. Common'
  <2>1. Kept(Caller)'
    BY <1>1, <1>2 DEF Kept
  <2>2. pc' = <<pc'[1], pc'[2]>> /\ pc'[1] \notin {"jump", "pad"}
    BY <1>2
  <2>3. chosen' = InitialRegs
    BY <1>1, <1>2
  <2>4. Stacked'
    BY <2>1, <2>2, <2>3 DEF Stacked, Unwound, InitialRegs
  <2>q. QED  BY <1>0, <1>1, <1>2, <2>2, <2>4 DEF Common, Shape, Asked
<1>q. QED  BY <1>2, <1>3, <1>4, AtElsewhere DEF Elsewhere

\* It lays out an image in its own frame and jumps.
LEMMA RustLands ==
  ASSUME IInv, NEW f \in Entries, NEW d \in Depths, NEW t \in Targets, RustInstalls(f, d, t)
  PROVE  IInv'
<1> DEFINE at == Base - 1 - d - Size
<1>1. /\ Shape /\ chosen = InitialRegs /\ Kept(Caller) /\ asked = f /\ Sp = Base - 1
  BY InDispatch DEF RustInstalls
<1>2. /\ at \in 0..(Caller - Size - 2) /\ at \in 0..(Top - 18) /\ at + 18 < Base - 1
      /\ at + Size - 1 = at + 18 /\ t \in Caller..Top
  BY Numbers
<1>p. PICK known \in {Required, Names \ {"rsp"}} :
        LET at_ == Sp - d - Size
            value == [r \in ToSet(Fields) |->
                        CASE r = "rsp" -> Stack(t) [] r = "ra" -> InPad
                          [] OTHER -> InstallValue(known, r)]
        IN  /\ image' = at_
            /\ chosen' = [r \in Names |-> value[r]]
            /\ mem' = [a \in 0..Top |->
                         IF a \in at_..(at_ + Size - 1) THEN value[Fields[a - at_ + 1]]
                         ELSE Below(Sp, mem)[a]]
            /\ regs' = [r \in Names |-> CASE r = "rsp" -> Stack(at_ - 2)
                                          [] r = "rdi" -> Stack(at_)
                                          [] OTHER -> Junk]
  BY DEF RustInstalls
<1>3. LET value == [r \in ToSet(Fields) |->
                        CASE r = "rsp" -> Stack(t) [] r = "ra" -> InPad
                          [] OTHER -> InstallValue(known, r)]
        IN  /\ image' = at
            /\ chosen' = [r \in Names |-> value[r]]
            /\ mem' = [a \in 0..Top |->
                         IF a \in at..(at + Size - 1) THEN value[Fields[a - at + 1]]
                         ELSE Below(Base - 1, mem)[a]]
            /\ regs' = [r \in Names |-> CASE r = "rsp" -> Stack(at - 2)
                                          [] r = "rdi" -> Stack(at)
                                          [] OTHER -> Junk]
  BY <1>1, <1>p
<1>4. pc' = <<"jump", 1>> /\ asked' = f
  BY <1>1 DEF RustInstalls
<1>d. \E e \in Depths : at = Base - 1 - e - Size
  OBVIOUS
<1> DEFINE value == [r \in FieldNames |->
                       CASE r = "rsp" -> Stack(t) [] r = "ra" -> InPad
                         [] OTHER -> InstallValue(known, r)]
<1>5. ToSet(Fields) = FieldNames
  BY FieldsAre
<1> HIDE DEF at
<1>6. /\ image' = at
      /\ chosen' = [r \in Names |-> value[r]]
      /\ mem' = [a \in 0..Top |->
                   IF a \in at..(at + 18) THEN value[Fields[(a - at) + 1]]
                   ELSE Below(Base - 1, mem)[a]]
  BY <1>2, <1>3, <1>5
<1>7. value["rsp"] = Stack(t) /\ value["ra"] = InPad
  BY Registers
<1> HIDE DEF value
<1>8. regs' = [r \in Names |-> regs'[r]] /\ regs'["rsp"] = Stack(at - 2) /\ regs'["rdi"] = Stack(at)
  <2>1. "rsp" \in Names /\ "rdi" \in Names
    BY Registers
  <2>q. QED  BY <1>3, <2>1
<1>9. ASSUME NEW r \in FieldNames
      PROVE  Imaged(r)' = value[r]
  <2>1. at + Offset[r] \in at..(at + 18) /\ at + Offset[r] \in 0..Top
    BY <1>2, ImagedIs, Numbers
  <2>2. ((at + Offset[r]) - at) + 1 = Offset[r] + 1
    BY <1>2, OffsetIs
  <2>3. Fields[Offset[r] + 1] = r
    BY OffsetIs
  <2>4. mem'[at + Offset[r]] = value[r]
    BY <1>6, <2>1, <2>2, <2>3
  <2>5. Imaged(r)' = mem'[at + Offset[r]]
    BY <1>6 DEF Imaged
  <2>q. QED  BY <2>4, <2>5
<1>10. \A a \in 0..Top : a >= t => mem'[a] = mem[a]
  <2>1. ASSUME NEW a \in 0..Top, a >= t
        PROVE  mem'[a] = mem[a]
    <3>1. a \notin at..(at + 18) /\ ~(a < Base - 1)
      BY <1>2, <2>1, Numbers
    <3>q. QED  BY <1>6, <3>1 DEF Below
  <2>q. QED  BY <2>1
<1>11. chosen'["rsp"] = Stack(t) /\ "rsp" \in Names
  BY <1>6, <1>7, Registers
<1>12. JumpInv'
  <2>1. \A r \in Names : Imaged(r)' = chosen'[r]
    BY <1>6, <1>9, Registers
  <2>2. Imaged("ra")' = InPad
    BY <1>7, <1>9, Registers
  <2>3. JumpAt(1)'
    BY <1>2, <1>4, <1>6, <1>8, <1>d, <2>1, <2>2 DEF JumpAt
  <2>q. QED  BY <1>4, <2>3 DEF JumpInv
<1>13. Common'
  <2>1. Kept(t)'
    <3>1. Kept(t) /\ t \in Nat
      BY <1>1, <1>2, Numbers DEF Kept
    <3>q. QED  BY <3>1, <1>10, KeptSame
  <2>2. pc' = <<pc'[1], pc'[2]>> /\ pc'[1] = "jump"
    BY <1>4
  <2>3. mem' = [b \in 0..Top |-> mem'[b]] /\ chosen' = [r \in Names |-> chosen'[r]]
    BY <1>6
  <2>4. Stacked'
    BY <1>11, <2>1, <2>2 DEF Stacked, Unwound
  <2>q. QED  BY <1>4, <1>8, <2>2, <2>3, <2>4 DEF Common, Shape, Asked
<1>q. QED  BY <1>4, <1>12, <1>13, AtElsewhere DEF Elsewhere

\* A signal where the program or the Rust code runs.
LEMMA RustSignal ==
  ASSUME IInv, pc[1] \notin DOMAIN Programs, Signal
  PROVE  IInv'
<1>1. pc[1] \in {Dispatch(f) : f \in Entries} \cup {"program", "captured", "pad", "trap"}
  BY DEF IInv, Places
<1>0. UNCHANGED <<regs, pc, asked, image, chosen>> /\ mem' = [b \in 0..Top |-> mem'[b]]
  BY DEF Signal, Below
<1>c. ASSUME pc[1] \in {"program", "captured", "trap"} \cup {Dispatch(f) : f \in Entries},
             \A b \in 0..Top : b >= Caller => mem'[b] = mem[b]
      PROVE  Common'
  <2>1. chosen = InitialRegs /\ Kept(Caller) /\ Shape /\ Asked /\ ~Unwound
    BY <1>c, DispatchIs, ProgramsAre DEF IInv, Stacked, Unwound
  <2>2. Kept(Caller)'
    BY <1>c, <2>1, Numbers, KeptSame
  <2>3. Stacked'
    BY <1>0, <2>1, <2>2 DEF Stacked, Unwound, InitialRegs
  <2>q. QED  BY <1>0, <2>1, <2>3 DEF Common, Shape, Asked
<1>2. ASSUME NEW f \in Entries, pc[1] = Dispatch(f)
      PROVE  IInv'
  <2>1. DispatchInv(f) /\ pc[2] = 1
    BY <1>2 DEF IInv, DispatchInv
  <2>2. At(Dispatch(f))
    BY <1>2, <2>1 DEF At, IInv, Shape
  <2>3. /\ Behind(f) /\ Described /\ image = Base /\ regs["rsp"] = Stack(Base - 1)
        /\ mem[Base - 1] = Code(f, 2 * Arity(f) + 7)
    BY <2>2, InDispatch
  <2>4. \A b \in 0..Top : b >= (Base - 1) - RedZone => mem'[b] = mem[b]
    BY <2>3, SignalStep, Numbers
  <2>5. \A b \in 0..Top : b >= Base - 1 => mem'[b] = mem[b]
    BY <2>4, Numbers
  <2>6. /\ mem'[Caller - 1] = mem[Caller - 1] /\ mem'[Base - 1] = mem[Base - 1]
        /\ \A b \in 0..Top : b >= Caller => mem'[b] = mem[b]
        /\ \A b \in Base..(Base + 18) : mem'[b] = mem[b]
    BY <2>5, Numbers
  <2>7. Behind(f)'
    BY <2>3, <2>6, <1>0, BehindKept
  <2>8. Described'
    BY <2>3, <2>6, <1>0, DescribedSame
  <2>9. DispatchInv(f)'
    BY <1>0, <1>2, <2>1, <2>3, <2>6, <2>7, <2>8 DEF DispatchInv
  <2>10. Common'
    BY <1>2, <1>c, <2>6
  <2>q. QED  BY <1>0, <1>2, <2>9, <2>10, AtDispatch
<1>3. CASE pc[1] = "program"
  <2>1. ProgramInv /\ regs["rsp"] = Stack(Caller)
    BY <1>3 DEF IInv, ProgramInv
  <2>2. ProgramInv'
    BY <1>0, <2>1 DEF ProgramInv, Callers, InitialRegs
  <2>3. \A b \in 0..Top : b >= Caller - RedZone => mem'[b] = mem[b]
    BY <2>1, SignalStep, Numbers
  <2>4. \A b \in 0..Top : b >= Caller => mem'[b] = mem[b]
    BY <2>3, Numbers
  <2>5. Common'
    BY <1>3, <1>c, <2>4
  <2>q. QED  BY <1>0, <1>3, <2>2, <2>5, AtElsewhere DEF Elsewhere
<1>4. CASE pc[1] = "captured"
  <2>1. CapturedInv /\ image \in 1..(Caller - Size) /\ regs["rsp"] = Stack(image)
    BY <1>4 DEF IInv, CapturedInv
  <2>2. PICK m \in 1..(Caller - Size) : m = image
    BY <2>1
  <2>3. m \in 0..(Top - 18) /\ m < Caller /\ m \in Int
    BY Numbers
  <2>4. \A b \in 0..Top : b >= m - RedZone => mem'[b] = mem[b]
    BY <2>1, <2>2, <2>3, SignalStep
  <2>5. \A b \in 0..Top : b >= m => mem'[b] = mem[b]
    BY <2>3, <2>4, Numbers
  <2>6. \A r \in FieldNames : Imaged(r)' = Imaged(r)
    <3>1. image' = m /\ \A b \in m..(m + 18) : mem'[b] = mem[b]
      BY <1>0, <2>2, <2>3, <2>5, Numbers
    <3>q. QED  BY <2>2, <2>3, <3>1, ImagedSame
  <2>7. CapturedInv'
    <3>1. \A r \in Preserved \cup {"rsp", "ra"} : Imaged(r)' = Imaged(r)
      BY <2>6, EntryOrderIs
    <3>q. QED  BY <1>0, <2>1, <3>1 DEF CapturedInv
  <2>8. \A b \in 0..Top : b >= Caller => mem'[b] = mem[b]
    BY <2>3, <2>5, Numbers
  <2>9. Common'
    BY <1>4, <1>c, <2>8
  <2>q. QED  BY <1>0, <1>4, <2>7, <2>9, AtElsewhere DEF Elsewhere
<1>5. CASE pc[1] = "trap"
  <2>1. TrapInv /\ regs["rsp"] = Stack(Base - 1)
    BY <1>5 DEF IInv, TrapInv
  <2>2. TrapInv'
    BY <1>0, <2>1 DEF TrapInv
  <2>3. \A b \in 0..Top : b >= (Base - 1) - RedZone => mem'[b] = mem[b]
    BY <2>1, SignalStep, Numbers
  <2>4. \A b \in 0..Top : b >= Caller => mem'[b] = mem[b]
    BY <2>3, Numbers
  <2>5. Common'
    BY <1>5, <1>c, <2>4
  <2>q. QED  BY <1>0, <1>5, <2>2, <2>5, AtElsewhere DEF Elsewhere
<1>6. CASE pc[1] = "pad"
  <2>1. PadInv /\ regs = chosen /\ Shape /\ Asked
    BY <1>6 DEF IInv, PadInv
  <2>2. PICK t \in Targets : chosen["rsp"] = Stack(t) /\ Kept(t)
    BY <1>6 DEF IInv, Stacked, Unwound
  <2>3. t \in Nat /\ t \in Int
    BY Numbers
  <2>4. \A b \in 0..Top : b >= t - RedZone => mem'[b] = mem[b]
    BY <2>1, <2>2, <2>3, SignalStep
  <2>5. \A b \in 0..Top : b >= t => mem'[b] = mem[b]
    BY <2>3, <2>4, Numbers
  <2>6. Kept(t)'
    BY <2>2, <2>3, <2>5, KeptSame
  <2>7. Stacked'
    BY <1>0, <1>6, <2>2, <2>6 DEF Stacked, Unwound
  <2>8. Common'
    BY <1>0, <2>1, <2>7 DEF Common, Shape, Asked
  <2>9. PadInv'
    BY <1>0, <2>1 DEF PadInv
  <2>q. QED  BY <1>0, <1>6, <2>8, <2>9, AtElsewhere DEF Elsewhere
<1>q. QED  BY <1>1, <1>2, <1>3, <1>4, <1>5, <1>6

-----------------------------------------------------------------------------
(* The theorems.                                                           *)

\* A step that changes nothing.
LEMMA Unmoved ==
  ASSUME IInv, UNCHANGED vars
  PROVE  IInv'
<1>1. /\ regs' = regs /\ mem' = mem /\ pc' = pc /\ asked' = asked /\ image' = image
      /\ chosen' = chosen
  BY DEF vars
<1>2. \A a : Kept(a)' <=> Kept(a)
  BY <1>1 DEF Kept
<1>3. Shape' /\ Asked' /\ Stacked' /\ Places'
  BY <1>1, <1>2 DEF IInv, Shape, Asked, Stacked, Unwound, Places
<1>4. (\A r : Imaged(r)' = Imaged(r)) /\ (\A j : Argument(j)' = Argument(j)) /\ (Callers' <=> Callers)
  BY <1>1 DEF Imaged, Argument, Callers
<1>5. (Described' <=> Described) /\ \A f : Behind(f)' <=> Behind(f)
  BY <1>1, <1>4 DEF Described, Behind
<1>6. ProgramInv' /\ \A f \in Entries : DispatchInv(f)'
  BY <1>1, <1>4, <1>5 DEF IInv, ProgramInv, DispatchInv
<1>7. ASSUME NEW f \in Entries PROVE EntryInv(f)'
  <2>1. EntryAt(f, pc[2]) => EntryAt(f, pc[2])'
    BY <1>1, <1>4, <1>5 DEF EntryAt
  <2>q. QED  BY <1>1, <2>1 DEF IInv, EntryInv
<1>8. CaptureInv' /\ SaveInv' /\ CapturedInv'
  <2>1. CaptureFrame /\ CaptureDone(pc[2]) => CaptureFrame' /\ CaptureDone(pc[2])'
    BY <1>1, <1>4, <1>5 DEF CaptureFrame, CaptureDone
  <2>2. SaveFrame /\ SaveDone(pc[2]) => SaveFrame' /\ SaveDone(pc[2])'
    BY <1>1, <1>4 DEF SaveFrame, SaveDone
  <2>q. QED  BY <1>1, <1>4, <2>1, <2>2 DEF IInv, CaptureInv, SaveInv, CapturedInv
<1>9. JumpInv' /\ PadInv' /\ TrapInv'
  <2>1. JumpAt(pc[2]) => JumpAt(pc[2])'
    BY <1>1, <1>4 DEF JumpAt
  <2>q. QED  BY <1>1, <2>1 DEF IInv, JumpInv, PadInv, TrapInv
<1>q. QED  BY <1>3, <1>6, <1>7, <1>8, <1>9 DEF IInv

\* The invariant holds when the program starts.
LEMMA InvInit ==
  ASSUME Init
  PROVE  IInv
<1>1. /\ regs = InitialRegs /\ chosen = InitialRegs /\ pc = <<"program", 1>> /\ asked = "none"
      /\ mem = [a \in 0..Top |-> <<"old", a>>]
  BY DEF Init, InitialRegs
<1>2. Kept(Caller)
  BY <1>1, Numbers DEF Kept
<1>3. Shape
  BY <1>1 DEF Shape, InitialRegs
<1>4. Stacked
  BY <1>1, <1>2 DEF Stacked, Unwound
<1>5. ProgramInv
  BY <1>1, Registers DEF ProgramInv, InitialRegs, Entries
<1>6. "program" \notin DOMAIN Programs /\ \A f \in Entries : "program" # f /\ "program" # Dispatch(f)
  BY ProgramsAre, DispatchIs DEF Entries
<1>7. Places
  BY <1>1 DEF Places
<1>8. \A f \in Entries : EntryInv(f) /\ DispatchInv(f)
  BY <1>1, <1>6 DEF EntryInv, DispatchInv
<1>9. CaptureInv /\ SaveInv /\ CapturedInv /\ JumpInv /\ PadInv /\ TrapInv
  BY <1>1 DEF CaptureInv, SaveInv, CapturedInv, JumpInv, PadInv, TrapInv
<1>q. QED  BY <1>1, <1>3, <1>4, <1>5, <1>7, <1>8, <1>9 DEF IInv, Asked

\* Every step outside of the machine code.
LEMMA RustSteps ==
  ASSUME IInv, pc[1] \notin DOMAIN Programs, Next
  PROVE  IInv'
<1>1. CASE \E f \in Entries : Enter(f)
  BY <1>1, ProgramEnters
<1>2. CASE \E d \in Depths : CaptureCalls(d)
  BY <1>2, ProgramCaptures
<1>3. CASE Signal
  BY <1>3, RustSignal
<1>4. CASE \E f \in Entries : RustReturns(f)
  BY <1>4, RustGoesOn
<1>5. CASE \E f \in Entries, d \in Depths, t \in Targets : RustInstalls(f, d, t)
  BY <1>5, RustLands
<1>6. CASE RustTraps
  BY <1>6, RustStops
<1>7. CASE CaptureReturns
  BY <1>7, CaptureEnds
<1>8. ASSUME UNCHANGED vars PROVE IInv'
  BY <1>8, Unmoved
<1>q. QED
  BY <1>1, <1>2, <1>3, <1>4, <1>5, <1>6, <1>7, <1>8, NotMachine DEF Next, Rust, Stopped

\* Every step keeps the invariant.
LEMMA InvNext ==
  ASSUME JumpUndisturbed, IInv, [Next]_vars
  PROVE  IInv'
<1>1. CASE UNCHANGED vars
  BY <1>1, Unmoved
<1>2. ASSUME Next, pc[1] \in DOMAIN Programs PROVE IInv'
  BY <1>2, ProgramsAre, EntrySteps, CaptureSteps, SaveSteps, JumpSteps
<1>3. ASSUME Next, pc[1] \notin DOMAIN Programs PROVE IInv'
  BY <1>3, RustSteps
<1>q. QED  BY <1>1, <1>2, <1>3

(***************************************************************************)
(* The invariant holds throughout: between any two instructions of the     *)
(* entries, the captures and the jump, whatever signals come in between    *)
(* (entry.rs:139-295, registers.rs:141-281).                               *)
(***************************************************************************)
THEOREM InvHolds ==
  ASSUME JumpUndisturbed
  PROVE  Spec => []IInv
BY InvInit, InvNext, PTL DEF Spec

(***************************************************************************)
(* The Rust code behind each of the five entries gets the caller's state,  *)
(* its arguments in order and an aligned stack, for every stack, depth and *)
(* placement of signals; a capture describes the function that asked for   *)
(* it (entry.rs:139-295, registers.rs:141-226).                            *)
(***************************************************************************)
THEOREM CapturedCorrect ==
  ASSUME JumpUndisturbed
  PROVE  Spec => []CapturedIsCaller
<1>1. IInv => CapturedIsCaller
  <2> SUFFICES ASSUME IInv PROVE CapturedIsCaller
    OBVIOUS
  <2>1. ASSUME NEW f \in Entries, At(Dispatch(f))
        PROVE  /\ regs["rdi"] = Stack(image) /\ (Sp + 1) % 2 = 0
               /\ \A r \in Preserved : Imaged(r) = Of(r)
               /\ \A r \in Volatile : Imaged(r) = Zero
               /\ Imaged("rsp") = Stack(Caller) /\ Imaged("ra") = InProgram
               /\ \A i \in 1..Arity(f) : regs[Arguments[i + 1]] = Of(Arguments[i])
    <3>1. Described /\ image = Base /\ Sp = Base - 1 /\ pc[1] = Dispatch(f)
      BY <2>1, InDispatch
    <3>2. /\ regs["rdi"] = Stack(Base)
          /\ \A i \in 1..Arity(f) : regs[Arguments[i + 1]] = Of(Arguments[i])
      BY <3>1 DEF IInv, DispatchInv
    <3>3. PICK c \in Nat : c = Caller /\ c % 2 = 0
      BY Numbers
    <3>4. Sp + 1 = c - 24
      BY <3>1, <3>3, Numbers
    <3>5. (c - 24) % 2 = 0
      BY <3>3
    <3>6. (Sp + 1) % 2 = 0
      BY <3>4, <3>5
    <3>q. QED  BY <3>1, <3>2, <3>6 DEF Described
  <2>2. ASSUME At("captured")
        PROVE  /\ \A r \in Preserved \cup {"rsp"} : Imaged(r) = regs[r]
               /\ Imaged("ra") = InCapture
    BY <2>2 DEF At, IInv, CapturedInv
  <2>q. QED  BY <2>1, <2>2 DEF CapturedIsCaller
<1>q. QED  BY <1>1, InvHolds, PTL

(***************************************************************************)
(* An entry that returns has left the program its stack pointer and its    *)
(* preserved registers, and returns the reason code (entry.rs:150-154).    *)
(***************************************************************************)
THEOREM ResumesCorrect ==
  ASSUME JumpUndisturbed
  PROVE  Spec => []CallerResumes
<1>1. IInv => CallerResumes
  BY DEF IInv, ProgramInv, CallerResumes, At, Callers
<1>q. QED  BY <1>1, InvHolds, PTL

(***************************************************************************)
(* No word of a frame that goes on is ever written, neither by a           *)
(* trampoline or a capture nor by the jump that pushes the pad's address   *)
(* over the frames it removes (entry.rs:21-37, registers.rs:238-242).      *)
(***************************************************************************)
THEOREM StackCorrect ==
  ASSUME JumpUndisturbed
  PROVE  Spec => []StackKept
<1>1. IInv => StackKept
  <2> SUFFICES ASSUME IInv PROVE StackKept
    OBVIOUS
  <2>1. PICK a \in Nat : chosen["rsp"] = Stack(a) /\ Kept(a)
    <3>1. InitialRegs["rsp"] = Stack(Caller)
      BY Registers DEF InitialRegs
    <3>q. QED  BY <3>1, Numbers DEF IInv, Stacked
  <2>2. chosen["rsp"][2] = a
    BY <2>1 DEF Stack
  <2>q. QED  BY <2>1, <2>2 DEF StackKept, Kept
<1>q. QED  BY <1>1, InvHolds, PTL

(***************************************************************************)
(* A landing pad starts with exactly the registers selected for it: the    *)
(* jump reads the image through a register it loads last, after it has     *)
(* moved the stack pointer out of the image's frame (registers.rs:235-281). *)
(***************************************************************************)
THEOREM InstallCorrect ==
  ASSUME JumpUndisturbed
  PROVE  Spec => []InstalledIsSelected
<1>1. IInv => InstalledIsSelected
  BY DEF IInv, PadInv, InstalledIsSelected, At
<1>q. QED  BY <1>1, InvHolds, PTL
=============================================================================
