------------------------------ MODULE Transfer ------------------------------
(***************************************************************************)
(* The machine code between the program and the unwinder, instruction by   *)
(* instruction (desenredo-unwind, arch/x86_64: entry.rs, registers.rs,     *)
(* state.rs): the entry trampolines, the two captures and the jump into a  *)
(* landing pad.  Memory is the stack, in words of eight bytes; flags, the  *)
(* direction flag among them, are left out.                                *)
(***************************************************************************)
EXTENDS Integers, Sequences, SequencesExt

CONSTANTS
  Top,          \* the highest word of the stack
  Caller,       \* %rsp of the program, before it calls an entry
  Depths,       \* words a chain of Rust calls may take
  Targets,      \* %rsp of the frames a landing pad may belong to
  RedZone,      \* words below %rsp that a signal leaves alone
  Interrupted   \* functions a signal may be delivered in

\* Calls are made with a stack aligned to sixteen bytes.
ASSUME StackAssumption ==
  /\ Top \in Nat /\ Caller \in 0..Top /\ Caller % 2 = 0
  /\ Targets \subseteq Caller..Top
  /\ Depths \subseteq Nat /\ RedZone \in Nat

\* The fields of Registers, one word each.
Fields ==
  <<"rax", "rdx", "rcx", "rbx", "rsi", "rdi", "rbp", "rsp", "r8", "r9", "r10",
    "r11", "r12", "r13", "r14", "r15", "ra", "mxcsr", "fcw">>

Size == Len(Fields)
Offset == [f \in ToSet(Fields) |-> SelectInSeq(Fields, LAMBDA g : g = f) - 1]

Names == ToSet(Fields) \ {"ra"}
Volatile == {"rax", "rdx", "rcx", "rsi", "rdi", "r8", "r9", "r10", "r11"}
Control == {"mxcsr", "fcw"}
Preserved == {"rbx", "rbp", "r12", "r13", "r14", "r15"} \cup Control
Arguments == <<"rdi", "rsi", "rdx", "rcx">>

\* Values: a place in the stack or in the code, what a register held when the
\* program called, what the unwinder selected for it, or something else.
Stack(a) == <<"stack", a>>
Code(f, i) == <<"code", <<f, i>>>>
Of(r) == <<"caller", r>>
Selected(r) == <<"selected", r>>
Zero == <<"word", "zero">>
Junk == <<"word", "junk">>

-----------------------------------------------------------------------------
(* Instructions, with operands in the order of the source.                 *)

Store(r, off, base) == [op |-> "store", reg |-> r, off |-> off, base |-> base]
StoreZero(off, base) == [op |-> "zero", off |-> off, base |-> base]
StoreLow(r, off, base) == [op |-> "low", reg |-> r, off |-> off, base |-> base]
Load(off, base, r) == [op |-> "load", off |-> off, base |-> base, reg |-> r]
Lea(off, base, r) == [op |-> "lea", off |-> off, base |-> base, reg |-> r]
Push(r) == [op |-> "push", reg |-> r]
Call(f) == [op |-> "call", to |-> f]
Ret == [op |-> "ret"]
Ud2 == [op |-> "ud2"]

\* The layout of a trampoline's stack: the image, three arguments, padding.
FIRST == Size
PAD == FIRST + 3

\* Mutant: no padding word.
StackUnpadded == PAD

\* Mutant: room for one argument only.
StackOneArgument == FIRST + 1

STACK == PAD + 1

\* The stack has room for a trampoline, the Rust code below it and an image.
ASSUME RoomAssumption ==
  Caller >= STACK + 2 /\ \A d \in Depths : Caller >= STACK + Size + d + 2

\* A signal during the jump leaves the image alone: the red zone of every
\* target reaches down to it, or none is delivered there.
JumpUndisturbed ==
  "jump" \in Interrupted =>
    \A t \in Targets, d \in Depths : t - RedZone <= Caller - (STACK + Size + d + 2)

\* An entry with n arguments, up to its call of the Rust function f.
Trampoline(n, f) ==
  <<Lea(-STACK, "rsp", "rsp")>>
  \o [i \in 1..n |-> Store(Arguments[i], FIRST + i - 1, "rsp")]
  \o <<Lea(STACK, "rsp", "rsi"), Lea(0, "rsp", "rdi"), Call("entry")>>
  \o [i \in 1..n |-> Load(FIRST + n - i, "rsp", Arguments[n - i + 2])]
  \o <<Lea(0, "rsp", "rdi"), Call(f)>>

Epilogue == <<Lea(STACK, "rsp", "rsp"), Ret>>

To(fields, base) == [i \in DOMAIN fields |-> Store(fields[i], Offset[fields[i]], base)]
From(fields, base) == [i \in DOMAIN fields |-> Load(Offset[fields[i]], base, fields[i])]
Clear(fields, base) == [i \in DOMAIN fields |-> StoreZero(Offset[fields[i]], base)]
SaveLow == <<StoreLow("mxcsr", Offset["mxcsr"], "rdi"), StoreLow("fcw", Offset["fcw"], "rdi")>>

\* Mutant: a register of the caller is used as scratch.
EntryScratch ==
  Clear(<<"rax", "rdx", "rcx", "rsi", "rdi", "r8", "r9", "r10", "r11">>, "rdi")
  \o To(<<"rbx", "rbp", "r12", "r13", "r14", "r15">>, "rdi")
  \o <<Lea(1, "rsi", "rbx"), Store("rbx", Offset["rsp"], "rdi"),
       Load(0, "rsi", "rbx"), Store("rbx", Offset["ra"], "rdi")>>
  \o Clear(<<"mxcsr", "fcw">>, "rdi") \o SaveLow \o <<Ret>>

\* Registers::entry: the caller of a Level I function whose entry %rsp is %rsi.
Entry ==
  Clear(<<"rax", "rdx", "rcx", "rsi", "rdi", "r8", "r9", "r10", "r11">>, "rdi")
  \o To(<<"rbx", "rbp", "r12", "r13", "r14", "r15">>, "rdi")
  \o <<Lea(1, "rsi", "rax"), Store("rax", Offset["rsp"], "rdi"),
       Load(0, "rsi", "rax"), Store("rax", Offset["ra"], "rdi")>>
  \o Clear(<<"mxcsr", "fcw">>, "rdi") \o SaveLow \o <<Ret>>

\* Registers::save, into zeroed storage.
Save ==
  To(<<"rbx", "rbp", "r12", "r13", "r14", "r15">>, "rdi")
  \o <<Lea(1, "rsp", "rax"), Store("rax", Offset["rsp"], "rdi"),
       Load(0, "rsp", "rax"), Store("rax", Offset["ra"], "rdi")>>
  \o SaveLow \o <<Ret>>

\* Mutant: the address to return to is pushed when %rax is installed.
JumpLatePush ==
  From(<<"rsp", "mxcsr", "fcw">>, "rdi")
  \o From(<<"rax", "rdx", "rcx", "rbx", "rsi", "rbp">>, "rdi")
  \o <<Load(Offset["ra"], "rdi", "rax"), Push("rax")>>
  \o From(<<"r8", "r9", "r10", "r11", "r12", "r13", "r14", "r15", "rdi">>, "rdi")
  \o <<Ret>>

\* Registers::jump: %rdi, the image's address, comes last.
Jump ==
  From(<<"rsp", "mxcsr", "fcw">>, "rdi")
  \o <<Load(Offset["ra"], "rdi", "rax"), Push("rax")>>
  \o From(<<"rax", "rdx", "rcx", "rbx", "rsi", "rbp", "r8", "r9", "r10", "r11",
            "r12", "r13", "r14", "r15", "rdi">>, "rdi")
  \o <<Ret>>

raise == Trampoline(1, "dispatch_raise") \o Epilogue
force == Trampoline(3, "dispatch_force") \o Epilogue
resume == Trampoline(1, "dispatch_resume") \o <<Ud2>>
rethrow == Trampoline(1, "dispatch_rethrow") \o Epilogue
trace == Trampoline(2, "dispatch_trace") \o Epilogue

Programs == [raise |-> raise, force |-> force, resume |-> resume, rethrow |-> rethrow,
             trace |-> trace, entry |-> Entry, save |-> Save, jump |-> Jump]

Entries == {"raise", "force", "resume", "rethrow", "trace"}
Dispatch(f) ==
  [raise |-> "dispatch_raise", force |-> "dispatch_force", resume |-> "dispatch_resume",
   rethrow |-> "dispatch_rethrow", trace |-> "dispatch_trace"][f]
Arity(f) == CASE f = "force" -> 3 [] f = "trace" -> 2 [] OTHER -> 1

-----------------------------------------------------------------------------
VARIABLES
  regs,     \* the registers
  mem,      \* the stack
  pc,       \* the function and the instruction that is next
  asked     \* the function the program called

\* History, read by no action: where the image lies that is captured or
\* installed, and the registers the unwinder selected.
VARIABLES image, chosen

vars == <<regs, mem, pc, asked, image, chosen>>

Sp == regs["rsp"][2]
At(f) == pc = <<f, 1>>

\* Return addresses outside of the code above.
InProgram == Code("program", 1)
InPad == Code("pad", 1)
InCapture == Code("captured", 1)

Init ==
  /\ regs = [r \in Names |-> IF r = "rsp" THEN Stack(Caller) ELSE Of(r)]
  /\ mem = [a \in 0..Top |-> <<"old", a>>]
  /\ pc = <<"program", 1>> /\ asked = "none" /\ image = 0 /\ chosen = regs

-----------------------------------------------------------------------------
(* The machine.                                                            *)

Running == pc[1] \in DOMAIN Programs
Instruction == Programs[pc[1]][pc[2]]
Is(op) == Running /\ Instruction.op = op
Address == regs[Instruction.base][2] + Instruction.off
Onward == pc' = [pc EXCEPT ![2] = @ + 1] /\ UNCHANGED <<asked, image, chosen>>

Stores ==
  /\ Is("store") /\ Onward
  /\ mem' = [mem EXCEPT ![Address] = regs[Instruction.reg]]
  /\ UNCHANGED regs

StoresZero ==
  /\ Is("zero") /\ Onward
  /\ mem' = [mem EXCEPT ![Address] = Zero]
  /\ UNCHANGED regs

\* stmxcsr and fnstcw write the low end of a word.
StoresLow ==
  /\ Is("low") /\ Onward
  /\ mem' = [mem EXCEPT ![Address] = IF @ = Zero THEN regs[Instruction.reg] ELSE Junk]
  /\ UNCHANGED regs

Loads ==
  /\ Is("load") /\ Onward
  /\ regs' = [regs EXCEPT ![Instruction.reg] = mem[Address]]
  /\ UNCHANGED mem

Computes ==
  /\ Is("lea") /\ Onward
  /\ regs' = [regs EXCEPT ![Instruction.reg] = Stack(Address)]
  /\ UNCHANGED mem

Pushed(v) ==
  /\ regs' = [regs EXCEPT !["rsp"] = Stack(Sp - 1)]
  /\ mem' = [mem EXCEPT ![Sp - 1] = v]

Pushes == Is("push") /\ Onward /\ Pushed(regs[Instruction.reg])

Calls ==
  /\ Is("call")
  /\ Pushed(Code(pc[1], pc[2] + 1))
  /\ pc' = <<Instruction.to, 1>>
  /\ UNCHANGED <<asked, image, chosen>>

Popped(others) == [others EXCEPT !["rsp"] = Stack(Sp + 1)]

Returns ==
  /\ Is("ret")
  /\ pc' = mem[Sp][2]
  /\ regs' = Popped(regs)
  /\ UNCHANGED <<mem, asked, image, chosen>>

Below(a, m) == [b \in 0..Top |-> IF b < a THEN Junk ELSE m[b]]

\* A signal: its frame may take everything below the red zone.
Signal ==
  /\ pc[1] \in Interrupted
  /\ mem' = Below(Sp - RedZone, mem)
  /\ UNCHANGED <<regs, pc, asked, image, chosen>>

Machine == Stores \/ StoresZero \/ StoresLow \/ Loads \/ Computes \/ Pushes \/ Calls \/ Returns

-----------------------------------------------------------------------------
(* The program and the Rust code.                                          *)

\* The program calls an entry.
Enter(f) ==
  /\ At("program") /\ asked = "none"
  /\ Pushed(InProgram)
  /\ asked' = f /\ pc' = <<f, 1>>
  /\ image' = Sp - 1 - STACK /\ UNCHANGED chosen

\* The Rust function an entry continues in returns a reason code.
RustReturns(f) ==
  /\ At(Dispatch(f)) /\ f # "resume"
  /\ regs' = Popped([r \in Names |-> CASE r = "rax" -> <<"reason", f>>
                                       [] r \in Preserved \cup {"rsp"} -> regs[r]
                                       [] OTHER -> Junk])
  /\ mem' = Below(Sp, mem)
  /\ pc' = mem[Sp][2]
  /\ UNCHANGED <<asked, image, chosen>>

\* State::install: volatile registers nobody set are zero.
InstallValue(known, r) == IF r \in known THEN Selected(r) ELSE Zero

\* The registers State::install asks for.
Required == {"rax", "rdx"} \cup Preserved

\* Install::restore, from its own frame.
RustInstalls(f, depth, target) ==
  /\ At(Dispatch(f)) /\ f # "trace"
  /\ \E known \in {Required, Names \ {"rsp"}} :
     LET at == Sp - depth - Size
         value == [r \in ToSet(Fields) |->
                     CASE r = "rsp" -> Stack(target) [] r = "ra" -> InPad
                       [] OTHER -> InstallValue(known, r)]
     IN  /\ image' = at
         /\ chosen' = [r \in Names |-> value[r]]
         /\ mem' = [a \in 0..Top |->
                      IF a \in at..(at + Size - 1) THEN value[Fields[a - at + 1]]
                      ELSE Below(Sp, mem)[a]]
         /\ regs' = [r \in Names |-> CASE r = "rsp" -> Stack(at - 2)
                                       [] r = "rdi" -> Stack(at)
                                       [] OTHER -> Junk]
  /\ pc' = <<"jump", 1>> /\ UNCHANGED asked

\* The resume entry has nobody to return to: runtime::resume traps.
RustTraps == At(Dispatch("resume")) /\ pc' = <<"trap", 1>> /\ UNCHANGED <<regs, mem, asked, image, chosen>>

\* Cursor::capture, State::capture and Registers::capture, down to the call of
\* save: the last of them has zeroed storage in its frame.
CaptureCalls(depth) ==
  /\ At("program") /\ asked = "none"
  /\ LET at == Sp - depth - Size
     IN  /\ image' = at
         /\ mem' = [a \in 0..Top |-> CASE a \in at..(at + Size - 1) -> Zero
                                       [] a = at - 1 -> InCapture
                                       [] OTHER -> Below(Sp, mem)[a]]
         /\ regs' = [r \in Names |-> CASE r = "rsp" -> Stack(at - 1)
                                       [] r = "rdi" -> Stack(at)
                                       [] r \in Control -> regs[r]
                                       [] OTHER -> <<"rust", r>>]
  /\ asked' = "capture" /\ pc' = <<"save", 1>> /\ UNCHANGED chosen

\* They return the cursor.
CaptureReturns ==
  /\ At("captured")
  /\ regs' = [r \in Names |-> CASE r = "rsp" -> Stack(Caller)
                                [] r \in Preserved -> Of(r)
                                [] OTHER -> Junk]
  /\ pc' = <<"program", 1>>
  /\ UNCHANGED <<mem, asked, image, chosen>>

Rust ==
  \/ \E f \in Entries : RustReturns(f) \/ \E d \in Depths, t \in Targets : RustInstalls(f, d, t)
  \/ RustTraps \/ CaptureReturns

Stopped == asked # "none" /\ pc[1] \in {"program", "pad", "trap"} /\ UNCHANGED vars

Next ==
  \/ \E f \in Entries : Enter(f)
  \/ \E d \in Depths : CaptureCalls(d)
  \/ Machine \/ Signal \/ Rust \/ Stopped

Spec == Init /\ [][Next]_vars

-----------------------------------------------------------------------------
(* Properties.                                                             *)

\* The word of the image that stands for a register.
Imaged(r) == mem[image + Offset[r]]

(***************************************************************************)
(* The Rust code behind an entry gets, through three calls and with every  *)
(* register in use, the state the program called from: preserved and       *)
(* control registers, the stack pointer and the counter behind the call,   *)
(* nothing of the volatile registers; the arguments in order; and a stack  *)
(* aligned as for any call, even with signals in between.  A capture       *)
(* describes the function that asked for it (entry.rs:143-160,             *)
(* registers.rs:142-168, 198-213).                                         *)
(***************************************************************************)
CapturedIsCaller ==
  /\ \A f \in Entries : At(Dispatch(f)) =>
       /\ regs["rdi"] = Stack(image) /\ (Sp + 1) % 2 = 0
       /\ \A r \in Preserved : Imaged(r) = Of(r)
       /\ \A r \in Volatile : Imaged(r) = Zero
       /\ Imaged("rsp") = Stack(Caller) /\ Imaged("ra") = InProgram
       /\ \A i \in 1..Arity(f) : regs[Arguments[i + 1]] = Of(Arguments[i])
  /\ At("captured") =>
       /\ \A r \in Preserved \cup {"rsp"} : Imaged(r) = regs[r]
       /\ Imaged("ra") = InCapture

(***************************************************************************)
(* An entry that returns is a function like any other: the program goes on *)
(* behind its call with its stack pointer and preserved registers, and     *)
(* with the reason code (entry.rs:150-154).                                *)
(***************************************************************************)
CallerResumes ==
  At("program") /\ asked \in Entries =>
    /\ regs["rsp"] = Stack(Caller) /\ regs["rax"] = <<"reason", asked>>
    /\ \A r \in Preserved : regs[r] = Of(r)

(***************************************************************************)
(* No word of a frame that will go on is written, neither by saving        *)
(* arguments and registers nor by pushing the landing pad's address        *)
(* (entry.rs:21-37, registers.rs:238-242).                                 *)
(***************************************************************************)
StackKept == \A a \in chosen["rsp"][2]..Top : mem[a] = <<"old", a>>

(***************************************************************************)
(* A landing pad starts with exactly the registers the unwinder selected,  *)
(* the stack pointer of its frame and the two the jump itself works with   *)
(* included (registers.rs:236-259; state.rs:379-386).                      *)
(***************************************************************************)
InstalledIsSelected == At("pad") => regs = chosen

(***************************************************************************)
(* A captured cursor is rooted in the live stack: the activation it        *)
(* describes has not returned (cursor.rs:87-93, registers.rs:92-105).      *)
(***************************************************************************)
CursorIsLive ==
  At("program") /\ asked = "capture" => Imaged("rsp")[2] >= Sp
=============================================================================
