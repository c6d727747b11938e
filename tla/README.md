# desenredo: TLA+ models and proofs

desenredo is an Itanium-ABI unwinder and its language personalities in `no_std`
Rust for x86-64. It is single-threaded and synchronous: nothing here is about
threads. What is hard is a protocol spread over many calls that share no stack
variables (search, cleanup, resume), callbacks into foreign personalities and
stop functions, exceptions raised inside the cleanups of other exceptions,
objects whose owner changes without a type saying so, and metadata that may hold
anything.

## 1. The system

| Component | State | Operations | Interacts with |
|---|---|---|---|
| Propagation engine (`desenredo-unwind/src/runtime.rs`, `cursor.rs`, `relation.rs`) | the cursor of one walk; between walks only two private words in the exception header | raise, forced unwind, resume, resume-or-rethrow, backtrace, delete; the context queries a personality may make | is called by running code; calls personalities and stop functions; reads frames through the cursor; installs a register state and does not return |
| Personality protocol (`desenredo-personality`) | none; a capability per callback | decode raw arguments to a phase, dispatch, install | is called by any unwinder; calls the language policy |
| Rust personality (`desenredo-rust`) | none | search, cleanup, handler over the first action record | LSDA reader |
| C++ personality (`desenredo-cxx/src/personality.rs`) | none | search, cleanup, handler over the whole chain, with a type matcher supplied by the embedder | LSDA reader, matcher |
| LSDA reader (`desenredo-lsda`) | iterators over bounded bytes | header, call-site lookup, action chain, type table, filter lists | both personalities |
| Frame source and CFI (`desenredo-unwind/src/source.rs`, `desenredo-dwarf`) | the row of the current frame | find the FDE, evaluate register rules, make the caller's state | the cursor; DWARF data |
| Register state and context switch (`desenredo-unwind/src/arch/x86_64`) | known and unknown registers of a frame; the save area of an entry | read, write, clear, adjust, install; the entry trampolines, capture, jump | the program, which calls the entries; engine and frame source |
| Panic objects (`desenredo-panic`) | a boxed packet with a canary | raise, start, take, catch, cleanup, `Raise` | engine's raise and delete |
| C++ allocation (`desenredo-cxx/src/runtime.rs`) | an allocation guard | new, throw, drop | the C++ runtime |
| Request worker (`examples/no-std-linux`) | the active request, its page, a count of pages, a trace buffer | a loop of requests behind a catch boundary; recording and printing a trace | panic objects, backtrace |
| ABI types, macro, facade, program support | none | | |

What makes each correct:

- *engine*: phase two ends where phase one said it would, after the pad of every
  frame in between has run once, newest first; a resumed propagation is the one
  that was suspended, however much happened in the cleanup; every call returns,
  lands or traps;
- *personalities*: the phases do not contradict each other; a pad is entered only
  with a selector it has a branch for; whatever the arguments, the answer is one
  of the phase asked;
- *LSDA reader*: metadata is read exactly or refused; every walk ends; cutting
  off cyclic chains costs no legal chain; a frame finds its own call site; a type
  index gives the type it was written for;
- *frames and registers*: rules of one row read the state they are stated over;
  a register not known is never read as a value;
- *context switch*: what the Rust code is given is the state of the program's
  call; what a pad is given is the state the engine selected; no live word of the
  stack is written on the way;
- *objects*: one owner at a time, freed once;
- *worker*: a request leaves nothing behind, however it ends, and a trace says
  when it is not whole.

## 2. Modules

    Policy <-- Personality <-- MCPersonality    ChainProofs --> LebValue --> Leb128
      ^            ^                              |     |          ^
      |            +--- PersonalityProofs         |     v          |
      |                                           |  ActionChain <-- MCActionChain
      |                                           +->CallSites <-- MCCallSites
      +-- MCUnwind --> Unwind <-- UnwindProofs  MCLsdaTables --> LsdaTables <-- LsdaProofs
                         |                      MCFrame --> Rows --> Frame
             (implements)|                                    ^--- FrameProofs
                         v                      MCTransfer --> Transfer <-- TransferProofs
                     Propagation
                                                MCWorker --> Worker <-- WorkerProofs
                                                                |
                                                                v
                                                MCPacket --> Packet <-- PacketProofs

**Unwind** is the engine and the program around it. The stack is a sequence of
frames, each suspended at a call site, and a call site is a record of what its
personality answers in each phase there. One action is one turn of a loop of
`Walk::search`, `normal`, `force` or `trace`, so that what a walk reads in one
turn and uses in another is visible; the running program calls, returns, takes
signals, raises, catches, rethrows and resumes between walks. A landing pad is
installed by `Install`: newer frames vanish, and an exception one of them was
holding is lost. The resume words are the two machine words of the header, with
nothing else remembered, as in `Resume::load`/`store`. The key of a frame is its
stack pointer, less one for an interrupted frame, as in `Cursor::key`. History
variables (`chosen`, `due`, `forced`) are read by no action.

| action | code |
|---|---|
| `Raise`, `ForcedUnwind`, `Resume`, `Rethrow`, `Trace`, `NullException` | the entry points of `runtime.rs` |
| `SearchAdvance`, `SearchFound`, `SearchFail`, `SearchEnd` | `Walk::search`, `Walk::begin` |
| `NormalAdvance`, `NormalInstall`, `NormalFail` | `Walk::normal` |
| `ForceStopped`, `ForceAdvance`, `ForceInstall`, `ForceFail`, `ForceEnd` | `Walk::force` |
| `TraceAdvance`, `TraceFail`, `TraceEnd` | `Walk::trace` |
| `Call`, `Signal`, `Return`, `EndCatch` | the running program (external) |

**Propagation** is what the engine promises, without cursors, keys and header
words: a propagation settles, when it starts, which frames it will enter (the pads
above the handler and the handler, or every pad there is), enters the newest of
them each time, and ends in its target or by giving up; an exception in a pad
whose frame goes away is lost, and with it its promise. `Unwind!Promise` maps the
engine to it (`status` and `at` are the engine's; `forced`, `target` and `todo` its
history) and `KeepsPromise` is the refinement. Everything in between, the turns of
the loops, the calls and signals of the program, is a stutter there, so that the
promise is seen to survive any nesting.

**Policy** is pure: from the table of one frame (which call-site case applies,
the kinds the chain yields, how it ends, which types can be decoded) it computes
what the Rust and the C++ scan return, and what each phase answers. `SiteOf`
turns a table into the engine's record. **Personality** puts the protocol around
it: raw arguments are decoded to one of three phases or refused, the policy is
asked, and an install writes the frame's context. The C++ type matcher is the
constant `Match`: it is a trait of the embedder, whose only obligation used here
is that it answers the same question alike.

**Leb128** is how LEB128 octets are decoded, one by one; **LebValue** says what they
denote. **ActionChain** is the walk of one action chain over anything the bytes can
parse to; `MCActionChain` puts the two together, so that the records a chain is
made of are those the decoder finds at every position of a table. Its `MCSpec` is
`ActionChain!Spec` with the octets beside it. **CallSites** is the call-site scan
together with the adjustment of return addresses. **LsdaTables** is what holds these together: the
header, the type table and the exception specifications. `Init` lays an LSDA out
as the Itanium ABI does, position by position (`TypesAt`, `EntriesEnd`, `Stored`),
and damages it; the actions read it as `Lsda::new`, `Types::get` and
`FilterTypes::next` do, and the properties compare the two. A field's value is a
number, its digits and byte order are left out, and a field read where none was
written can hold anything. `WellFormed` is what a compiler writes: one condition in
it was found by the proof, that aligned entries are whole words, since behind a
narrower entry the padding of a scan from the other end differs; a LEB128 field has two octets in the header and one in
a specification.

**Frame** is what the engine's `frames` abstract from: registers. A program builds
a stack; a layout says what a function does with its caller's registers (saves,
moves, keeps, gives up; aligns its stack; points `rbp` into its frame) and, apart
from that, what the row of its unwind table says (the rule of the CFA and of each
register). That the row describes the function is the assembler's business.
**Rows** says what it means, without any values: each register of the function and
of its caller is a place in the frame, a register of the caller, or unknown
(`Own`, `Says`), and `Describes` compares the two. `RowsAssumption` asks it of every
layout; TLC evaluates it on those of `MCFrame`. `Raise` is `State::captured`,
`Advance` is `Cursor::advance` with `Info::caller` (`Restored`, `Default`,
`Yields`), `Install` is `Cursor::adjust` and `State::install`. Each frame of the
model keeps the registers it really had (`frames[i].regs`), which the unwinder
does not see; the properties compare. Addresses are words; a CFI expression is a
sequence of operations on a stack that starts empty, as in `Info::expr`
(source.rs:387), of which only the top is kept; a return address is the number of the frame it leads to: which
metadata an address finds is the subject of `CallSites`.

**Transfer** is the code below `Frame`'s first and behind its last step: the
entry trampolines of `entry.rs`, `Registers::entry`, `save` and `jump`, one action
per instruction, over a stack of words. `Enter` is a call of the program,
`RustReturns`, `RustInstalls` and `RustTraps` what the Rust function behind a
trampoline does, `CaptureCalls` and `CaptureReturns` the two ends of
`Cursor::capture`, and `Signal` a handler that takes everything below the red zone
between any two instructions. A value is a name for what a register held
(`Of("rbx")`), a place in the stack or the code, or junk, so that what reaches the
Rust code or a landing pad can be traced to where it came from.
`RoomAssumption` says that the stack does not overflow: below the caller there is
room for a trampoline, the Rust code and an image.

**Packet** is ownership: where the storage of each exception object is, who holds
the pointer (a guard with a destructor, the unwinder, a landing pad), which call
raised it and is still on the stack, and what became of each panic payload.
`Raise`, `Returned`, `Take`, `Catch`, `Cleanup` and `Delete` are the functions of
`object.rs` and the engine's `delete`; `Alloc`, `Throw` and `Discard` those of the
C++ allocation guard; `Passed`, `Land` and `Resume` stand for the unwinder. Two
copies of the panic runtime (two canaries), C++ and a producer without cleanup
callback share the heap.

**Worker** composes the example's request loop with `Packet` (`INSTANCE Packet WITH
Copies <- {"worker"}, Payloads <- Ids`): a request's identity is the payload of
its panic. Every action of a panic is one of `Packet`'s together with what the
worker does at that moment: the frames above the panic unmap the executable, drop
the page and the scope one by one, each in a pad that resumes. A trace is `Visit`
for each frame the walk reports (`Trace::push`), `Capture` at its end, `Open` and
`Symbols` for the executable, `Show` for each frame printed and `ShowEnds`; each
may fail, and library code in the middle of it may panic. `walked` keeps the
counters the walk reported, without null ones, for the properties only.

`MCUnwind` composes the engine with the personalities: its call sites are not
written down but computed by `Policy!SiteOf` from small tables. That this loses
nothing is the theorem `SitesFit`: the sites of any table satisfy the assumption
the engine's theorems make.

## 3. Runs

| run | bounds | asks |
|---|---|---|
| `unwind_nested` | 4 frames, 2 exceptions, 3 kinds of site | what one exception's words are worth after another was raised, caught, forced or interrupted inside its cleanup; the engine implements `Propagation` |
| `unwind_faults` | 3 frames, 1 exception, 11 kinds of site | phase two against frames phase one could not test, with both languages on one stack; every call of the unwinder ends |
| `personality` | all table shapes, chains of up to two records, two exceptions, all action masks | the phases agree; answers fit the phase |
| `action_chain` | every table of 4 octets, from every start; octets of 2-bit groups, values of 5 bits | integers are decoded exactly or refused; cycles are cut off, legal chains are not |
| `call_sites` | up to 3 entries, starts and sizes 0..3, addresses 0..5 | the lookup finds the entry of the frame's instruction |
| `lsda_tables` | 6 landing and 7 type encodings, up to 3 types and 5 specification octets, 3 alignments, 9 kinds of damage | what a compiler wrote is read back; damage never leads out of the bytes |
| `lsda_range` | the same | *violated*: an index behind the last type is an error |
| `frame` | 4 functions of 8 layouts, 4 registers, 18 words of stack | the reconstructed registers are those the frames had |
| `transfer` | 61 words of stack, 3 depths of Rust frames, pads in the caller and in 2 older frames | the unwinder gets the program's state, a pad the selected one, no live word is written |
| `transfer_capture` | the same | *violated*: a captured cursor is rooted in a live activation |
| `packet` | 2 copies, 3 payloads, 3 addresses | one owner, no use after release, no leak, no read behind a foreign layout |
| `worker` | up to 4 arguments, identities and counts up to 3, traces of up to 3 frames with room for 2 | requests leave nothing behind, the boundary never contradicts itself, a trace is honest, every command line ends |

*Why these bounds.* A propagation needs a raising frame, a cleanup above the
handler and the handler; a second exception raised from the cleanup and a signal
(two frames) fit into four, in `unwind_nested`; defects of one propagation need
three, and the safety asked of them is proved for every stack. Sites differ only in
their answers, and every combination two phases can tell apart is in one of the
site sets. In
`action_chain` a value has, as in the code, room for one bit of its last group, so
that fields of one, two, three and too many octets all occur; four octets hold two records
apart or several that overlap, cycles of every length that fits, truncated fields,
and displacements out of the table on both sides. `call_sites` reaches the end of the address
space, empty and overlapping ranges, a malformed tail, and instructions at both
ends of a range and before the function. In
`lsda_tables` there is one encoding for each way to find a base and each width, and
damage moves the end of the type table before, into and behind the entries, or
cuts the bytes in the header, the entries and the specifications. In `frame` four functions are enough for a
register to be moved by one, saved by the next, and read two steps later, with a
signal in between; there is a layout for each kind of rule, one that aligns its
stack and stores its CFA, and two for the trampoline (its CFA stored, or counted
with a rule of its own for the stack pointer). In `transfer` the stack has room for the
program's frames, a trampoline, Rust frames of even and odd size and the image
of the state; pads in the caller itself, where the image lies nearest to the pushed
address, and two and four words above. In `packet` three objects suffice for one in a guard, one in flight
and one in a pad, with addresses reused; in `worker` a command line is longer than
the identities, so that they run out, and a walk longer than a trace's buffer.

*What `lsda_range` shows.* The documentation of `Types::get` (table.rs:780) promises
an error for out-of-range indices. The format does not count its types, and the
code refuses an index only if its entry would begin before the LSDA: the index
behind the last one is decoded from the action table, the call sites or the
header. Compilers write no such index. Another reading the model makes visible is
no disagreement: an entry for no type (`catch (...)`) under a relative encoding
decodes as its base, not as null, which the test `gcc_catch_all_shape_decodes`
expects; `EntriesDecode` says the same, and the matcher has to know.

*What `transfer_capture` shows.* The documentation of `Cursor::capture` (cursor.rs:87)
says that the cursor is rooted at the current execution stack. `Registers::capture` (registers.rs:102)
saves the state of its own activation, behind its call of `save`; when the
program receives the cursor, that activation is gone, and the words it used lie below
the stack pointer. The engine itself starts from `Registers::entry`, which
describes the caller of the entry (`CapturedIsCaller`).

*Signals during the jump.* `Registers::jump` moves `%rsp` to the pad's frame first
and loads the other registers afterwards, from an image that then lies far below
the stack pointer, beyond the red zone. A handler that runs on this stack between
those instructions may overwrite it. `Interrupted` of `transfer` names the entries
and captures only; the window is listed among the hazards. What would close it
is `JumpUndisturbed`: no signal is delivered there, or the red zone of every target
reaches down to the image. `MCTransfer` asserts it of its constants, and the
theorems about `Transfer` have it as their hypothesis.

*Fairness.* `Unwind!FairSpec` has weak fairness of the unwinder's own steps: it is
code that runs when called and waits for nobody; the program owes nothing, it
may never call. `Worker!Spec` has weak
fairness of its steps, for the same reason: one thread, no waiting. `ActionChain!Spec` (and with it
`MCActionChain!MCSpec`) has weak fairness of taking the next record, for a reader
that wants the whole chain.

*Deadlock* is checked in every run; a program stopped by a trap (`ud2`) and a
finished decoder or reader stutter explicitly.

*The program is assumed* (all in `Unwind`) to follow the ABI: an object is raised
only while nobody propagates it, a landing pad ends in `_Unwind_Resume` or keeps
the exception, and the resume call of a landing pad has no pad of its own
(`SiteAssumption`).

## 4. Proofs

All theorems hold for every value of the constants that satisfies the named
assumptions of the modules. TLC evaluates those assumptions in the runs.

**UnwindProofs.** The central fact is `KeyInjective`: stack pointers of frames lie
at least two apart, so the key with its one-unit adjustment names one frame *and*
one relation. The inductive invariant (`Inductive`, proved by
`InductiveHolds`) says what one call of the unwinder leaves for the
next: for an exception in a cleanup pad of a normal propagation, the words are
the key of a live, older frame whose site catches it, no frame in between can
catch on CLEANUP alone, and the frames whose pads are still due are exactly those
with a pad; for a forced one, the words are the stop pair. None of the safety
properties is inductive alone: they say nothing of exceptions at rest in a
landing pad, while everything else the program does (nested propagation
included) must be shown to leave those alone. The proof therefore has lemmas of
two kinds: what a walk establishes (`SearchSteps`, `FoundCourse`, `AdvanceCourse`)
and what stays true of *other* exceptions when frames are pushed, popped or
destroyed (`HandlerStays`, `CourseStays`, `InstallWords`). From it follow
`HandlerStaysAhead`, `PhaseTwoStaysOnCourse`, `KindIsKept`, `ForcedRunsEveryPad`,
and the action properties `CaughtOnlyWhereChosen`, `PadsRunNewestFirst` and
`PhaseTwoFailsOnDefectOnly`.

Its second half is the refinement, `PromiseKept`: `Unwind` implements `Propagation` for every
depth, program and nesting. `Inductive` says where a propagation goes; what it
leaves open is how much a *forced* one has still to do, which no safety property
asks about before its end. The strengthening (`Complete`) says that the pads due
to a forced propagation at rest are all the pads below it, that the same holds of
the walk in progress, and that no lost exception propagates. It is preserved
because frames only go away from the top (`SitesBelow`, `InstallMoves`) and because
a walk takes up the pads the header's words left due (`AgainDue`). The step
simulation (`StepKeepsPromise`) has one lemma for each action that is visible in
the abstract specification: `SearchFoundChooses`, `ForcedUnwindForces`,
`NormalEnters`, `ForceEnters`, `EndCatchFinishes`, `AnswerGivesUp`.

**PersonalityProofs.** `PromisesAreKept`, `PadsHaveBranches` and `AnswersFitPhase`
for every selector width, matcher and chain. The argument is that the handler's
scan is the search's, and that the cleanup scan differs from it only on tables
where the search found something or failed; `FirstStop` (a chain in which some
record stops the scan has a first such record) is proved from the well-founded
order on finite sets.

**ChainProofs.** `BudgetRejectsCyclesOnly`: until a record is yielded twice each
unit of the budget paid for a new position, and there are fewer positions than
units. `CyclesAreReported`: once the path closes it stays among its records, none
of which ends the chain. `UnsignedIsExact` and `SignedIsExact` are about the octets,
for every group, every width and every sequence: after k octets the loop holds
the sum of the groups so far, which lies below the next group's weight
(`TakeWhole`, `Joined`); of the group behind the last whole one a single bit fits
(`UnsignedBit`), and what `sleb` loses of it is a multiple of the modulus
(`SignedBit`), so that a value in range is not changed (`SignedApart`). The prover
knows no powers of a variable: that 2^(n+1) is twice 2^n is shown by counting
subsets (`Doubles`). The sum and the loop are recursive functions; what holds at
every step is shown for the least step at which it would not (`Least`,
`Stepwise`), as an induction over data cannot be cited.

The second part of the module is about `CallSites`: `EarlyExitHidesNothing` and
`CallsAreFound` follow from the invariant that the scan has refuted every entry
behind it.

**PacketProofs.** `HeldPointersAreLive`, `NothingIsForgotten`, `PayloadsHaveOneOwner`
and `LayoutsAreRespected` from one more conjunct: what a call has raised is with the
unwinder until that call is over, so the destructor of a guard and the unwinder
never hold the same object.

**WorkerProofs.** `BoundaryNeverContradicts`, `RequestsLeaveNothing` and
`TracesAreHonest` for every word size, command line, buffer and stack. The
invariant says for each place of the program what the request holds there
(`Course`), above all that the pads still to run own exactly what the frames hold
(`PadsOwn`), and that the page count stays behind the identities (`Counts`): that is
why the comparison of the two at the boundary cannot wrap, which the properties do
not say. `TraceInv` adds that the slots hold the newest of the frames and what is
printed is what the slots hold.

**LsdaProofs.** `HeadersAreDivided`, `TypesAreReadBack`, `ListsAreReadBack` and
`SidesStayApart` for every word size, encoding, alignment and length, over bytes
that lie in the address space (`Init`). Three of them ask about undamaged LSDAs, the fourth about
all. The invariant says how far the header is understood at each step (`Course`),
what a walk of a specification has read (`Listed`) and that questions are asked of
an accepted header only (`Asked`); the work is in the lemmas about positions
(`SlotIsRead`, `Layout`, `EntryWhereWritten`): where a writer pads and where a reader
skips are the same place, forwards for the landing base, backwards for the types.

**FrameProofs.** `CursorKnowsTruth`, `CursorForgetsNothing` and
`PadsAreEnteredAtHome` for every set of layouts that satisfies `RowsAssumption`, every
stack and every set of registers. The invariant says that each frame is linked to
its caller: it ends where the caller's stack pointer was, the words it saved are
still there, and its registers hold what its layout says. It is needed because
the unwinder reads words that older frames wrote long ago: every action has to
leave the words alone that lie above the stack pointer (`AmendedStack`,
`GrownStack`, `PrologueLinks`). `RestoredIsCallers` is the heart: a row that means
the right thing, evaluated over a frame so linked, gives the caller's registers.
An expression may have any length; that each of its operations does what it
means is shown as for the octets, by a least counterexample.

**TransferProofs.** `CapturedCorrect`, `ResumesCorrect`, `StackCorrect` and
`InstallCorrect` for every stack with room, every caller, depth of the Rust code and
set of targets, and signals in any of the functions; under `JumpUndisturbed`, for
the reason given in section 3. The properties speak of five points of control only
(the program, the Rust code, the end of a capture, the pad); the invariant `IInv`
says what holds before each of the instructions in between. `EntryAt` is about a
trampoline with n arguments, whatever n is: which arguments are in their slots,
which are back in a register one further on, and that the image, once
`Registers::entry` has returned, describes the caller. `CaptureDone`, `SaveDone` and
`JumpAt` say which fields have been written or loaded so far, and that the register
the image is addressed through is still intact. `Stacked` is the part that holds
everywhere: nothing above the live end of the stack has changed, where that end
moves to the target's stack pointer with the jump. The proof reads
the programs once (`TrampolineCode`, `EntryListing`, `SaveCode`, `JumpCode`: the
instruction at each counter), has one lemma for what each operation writes
(`StoreStep` to `RetStep`) and one for each group of instructions that must
establish the next part of the invariant. Addresses of fields differ because the
offsets do (`OffsetIs`), which is what keeps a store into one field from another.
That a signal is harmless needs the stack pointer to lie at or below everything in
use, which is so everywhere but in the jump (`JumpSignal`).

`TypeCorrect`, in most of these modules, is the type invariant of its component.

*Only model-checked*: liveness (`WalkEnds`, `WalkStops`, `WorkerEnds`), which needs
fairness; every safety invariant and action property of a passing run is a theorem. `LebValue` is
proved for octets alone; that a record's fields are what they decode to is the
composition of `MCActionChain`, which the run checks.

## 5. Not modelled, and the plan

Done: `Unwind` with the abstract `Propagation`, `Policy`/`Personality`, `LebValue`,
`ActionChain`, `CallSites`, `Packet`, `LsdaTables`, `Frame` with CFI expressions and
`Worker` with its trace, `Transfer`; all with proofs.

Next:

1. The header composed with the chain and call-site readers.
2. `Packet` composed with `Unwind` through its `status`: an object in a pad whose
   frame another propagation destroys.

Not modelled in the components that are: the operations inside a CFI expression
(gimli evaluates them; `Frame` has those the code serves with registers, the CFA
and memory), the initial stack of a register rule's expression (the code starts
it empty where DWARF pushes the CFA, source.rs:387: no layout here depends on it,
and a hazard names it), flags and the direction flag, whether an address resolves to
a symbol (addr2line).

Left out for good: the export macro (runs in the compiler), the facade (re-exports),
system calls, linker symbols and start routine of the example (input and output
without state), gimli (external; its rows are inputs), the layout of headers in
memory (`desenredo-abi`; their meaning is in `Unwind` and `Personality`).
