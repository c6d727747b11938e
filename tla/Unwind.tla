------------------------------- MODULE Unwind -------------------------------
(***************************************************************************)
(* The propagation engine of desenredo-unwind (runtime.rs, cursor.rs):     *)
(* one thread, one physical stack, several exception objects.  Running     *)
(* code calls into the unwinder synchronously; the unwinder walks frames   *)
(* with a cursor, calls back into personalities and stop functions, and    *)
(* either returns a reason code to its caller or destroys frames and jumps *)
(* to a landing pad.  What survives between two calls of the unwinder is   *)
(* only the pair of private words in the exception header.                 *)
(*                                                                         *)
(* Frame 1 is the oldest frame, frame "depth" the running one.  What a     *)
(* personality answers for a frame is data of the model: the call site a   *)
(* frame is suspended at is a record of the answers its personality gives  *)
(* there in each phase (the language personalities that produce these      *)
(* records are modules of their own).                                      *)
(***************************************************************************)
EXTENDS Naturals

CONSTANTS
  MaxDepth,      \* bound: frames the stack can hold
  Exceptions,    \* exception objects the program can raise
  NoException,   \* "no propagation is walking"
  Sites,         \* call sites the program's functions contain
  PadSites,      \* call sites landing pads resume from
  StopFns,       \* addresses of stop functions, never zero
  Params         \* parameters forwarded to stop functions

Frames == 1..MaxDepth
Words == Nat \X Nat

(***************************************************************************)
(* A call site.  A personality routine that is absent, or returns          *)
(* CONTINUE, is "CONTINUE"; INSTALL is split by what the installed pad     *)
(* does ("CLEAN" ends in _Unwind_Resume, "CATCH" keeps the exception); any *)
(* other code, and a personality pointer that cannot be read, is "FATAL".  *)
(* In the search phase HANDLER is answered for the exceptions in "catches" *)
(* and a fatal code for those in "fails".  "fault" names the first unwind  *)
(* operation the frame's metadata or registers cannot support: resolving   *)
(* the frame, naming its stack pointer, reconstructing its caller, or      *)
(* installing a pad in it.                                                 *)
(***************************************************************************)
Site == [catches : SUBSET Exceptions,
         fails   : SUBSET Exceptions,
         clean   : {"CONTINUE", "CLEAN", "CATCH", "FATAL"},
         handle  : {"CONTINUE", "CLEAN", "CATCH", "FATAL"},
         force   : {"CONTINUE", "CLEAN", "CATCH", "FATAL"},
         fault   : {"none", "info", "stack", "caller", "install"},
         signal  : BOOLEAN]

\* A function without a personality, and a signal trampoline (also without).
Plain == [catches |-> {}, fails |-> {}, clean |-> "CONTINUE",
          handle |-> "CONTINUE", force |-> "CONTINUE", fault |-> "none",
          signal |-> FALSE]
Trampoline == [Plain EXCEPT !.signal = TRUE]

ASSUME DepthAssumption == MaxDepth \in Nat \ {0}

ASSUME ExceptionAssumption == NoException \notin Exceptions

(***************************************************************************)
(* Both language personalities compute their phase-two answers from the    *)
(* same table entry as their search answer: a handler frame installs a     *)
(* catching pad or fails, and a pad that catches when only CLEANUP is      *)
(* asked (desenredo-rust) belongs to a site that catches everything.       *)
(* Compilers give the _Unwind_Resume call of a landing pad no landing pad. *)
(***************************************************************************)
ASSUME SiteAssumption ==
  /\ Sites \subseteq Site
  /\ Plain \in Sites
  /\ PadSites \subseteq Sites
  /\ \A s \in Sites : /\ ~s.signal
                      /\ s.handle # "CLEAN"
                      /\ s.clean = "CATCH" => s.catches = Exceptions
  /\ \A s \in PadSites : /\ s.clean \notin {"CLEAN", "CATCH"}
                         /\ s.force \notin {"CLEAN", "CATCH"}

ASSUME StopAssumption == StopFns \subseteq Nat \ {0} /\ Params \subseteq Nat

VARIABLES
  depth,    \* the running frame
  site,     \* site[i]: the call site frame i < depth is suspended at; while
            \* the unwinder runs, site[depth] is its caller's call site
  status,   \* what the program is doing with each exception object
  at,       \* the frame whose landing pad holds the exception, or 0
  words,    \* the two private words of each exception header
  mode,     \* running program, one walk of the unwinder, or trapped
  entry,    \* the entry point the walk must return through
  exc,      \* the exception the walk propagates
  pos,      \* cursor: the frame it names, 0 past the oldest one
  before,   \* cursor: relation is Instruction (interrupted frame)
  goal,     \* handler key of a normal phase-two pass
  stop,     \* stop function and parameter of a forced pass
  result    \* reason code the last returning entry gave its caller

\* History, read by no action: the frame the last successful search chose,
\* the frames whose pads are still to run, and the stop pair of the forced
\* unwind under way (<<0, 0>> for a normal propagation).
VARIABLES chosen, due, forced

program == <<depth, site, status, at>>
walk    == <<mode, entry, exc, pos, before, goal, stop, result>>
history == <<chosen, due, forced>>
vars    == <<program, words, walk, history>>

Walking == {"search", "normal", "force", "trace"}
Entries == {"none", "raise", "force", "resume", "rethrow", "trace"}
Reasons == {"NONE", "END", "FATAL1", "FATAL2"}

-----------------------------------------------------------------------------
(* Frame identity.                                                         *)

\* Stack pointers decrease toward newer frames and are at least two apart.
Sp(i) == 2 * (MaxDepth + 1 - i)

\* Cursor::key: the stack pointer, less one for an interrupted frame.
Key(i, b) == Sp(i) - (IF b THEN 1 ELSE 0)

\* The relation the cursor has when it reaches frame i from newer frames.
Interrupted(i) == i < MaxDepth /\ site[i + 1].signal

SearchAnswer(s, e) ==
  IF e \in s.catches THEN "HANDLER" ELSE IF e \in s.fails THEN "FATAL" ELSE "CONTINUE"

\* The sites that survive when frame i becomes the running frame.
Truncate(i) == [j \in Frames |-> IF j < i THEN site[j] ELSE Plain]

-----------------------------------------------------------------------------
(* Resume words.                                                           *)

NormalWords(key) == <<0, key>>
ForcedWords(f, p) == <<f, p>>
IsNormal(w) == w[1] = 0

\* The history of the objects in S no longer matters.
Forget(S) ==
  /\ chosen' = [e \in Exceptions |-> IF e \in S THEN 0 ELSE chosen[e]]
  /\ due' = [e \in Exceptions |-> IF e \in S THEN {} ELSE due[e]]
  /\ forced' = [e \in Exceptions |-> IF e \in S THEN <<0, 0>> ELSE forced[e]]

-----------------------------------------------------------------------------
Init ==
  /\ depth = 1
  /\ site = [i \in Frames |-> Plain]
  /\ status = [e \in Exceptions |-> "idle"]
  /\ at = [e \in Exceptions |-> 0]
  /\ words = [e \in Exceptions |-> <<0, 0>>]
  /\ mode = "run" /\ entry = "none" /\ exc = NoException
  /\ pos = 0 /\ before = FALSE /\ goal = 0 /\ stop = <<0, 0>>
  /\ result = "NONE"
  /\ chosen = [e \in Exceptions |-> 0]
  /\ due = [e \in Exceptions |-> {}]
  /\ forced = [e \in Exceptions |-> <<0, 0>>]

-----------------------------------------------------------------------------
(* The running program.                                                    *)

\* The running frame calls a function from call site s.
Call(s) ==
  /\ mode = "run" /\ depth < MaxDepth
  /\ depth' = depth + 1
  /\ site' = [site EXCEPT ![depth] = s]
  /\ result' = "NONE"
  /\ UNCHANGED <<status, at, words, mode, entry, exc, pos, before, goal, stop,
                 history>>

\* A signal interrupts the running frame inside region s: the kernel pushes
\* a trampoline frame and the signal handler starts above it.
Signal(s) ==
  /\ mode = "run" /\ depth + 1 < MaxDepth
  /\ depth' = depth + 2
  /\ site' = [site EXCEPT ![depth] = s, ![depth + 1] = Trampoline]
  /\ result' = "NONE"
  /\ UNCHANGED <<status, at, words, mode, entry, exc, pos, before, goal, stop,
                 history>>

\* The running frame returns (through a trampoline if it handled a signal).
\* A landing pad does not return while it holds an exception.
Return ==
  /\ mode = "run" /\ depth > 1
  /\ \A e \in Exceptions : at[e] # depth
  /\ depth' = IF site[depth - 1].signal THEN depth - 2 ELSE depth - 1
  /\ site' = Truncate(depth')
  /\ result' = "NONE"
  /\ UNCHANGED <<status, at, words, mode, entry, exc, pos, before, goal, stop,
                 history>>

\* A handler is done with its exception.  The producer takes the object
\* back, stale words included, or it is deleted and a new one is built.
EndCatch(e) ==
  /\ mode = "run" /\ status[e] = "handler" /\ at[e] = depth
  /\ status' = [status EXCEPT ![e] = "idle"]
  /\ at' = [at EXCEPT ![e] = 0]
  /\ \E w \in {words[e], <<0, 0>>} : words' = [words EXCEPT ![e] = w]
  /\ Forget({e})
  /\ result' = "NONE"
  /\ UNCHANGED <<depth, site, mode, entry, exc, pos, before, goal, stop>>

-----------------------------------------------------------------------------
(* Entry points.  Walk::new puts the cursor on the entry's caller with a   *)
(* return-address relation.                                                *)

Begin(kind, m, e, s) ==
  /\ mode' = m
  /\ entry' = kind
  /\ exc' = e
  /\ pos' = depth
  /\ before' = FALSE
  /\ result' = "NONE"
  /\ site' = [site EXCEPT ![depth] = s]
  /\ UNCHANGED <<depth, status, at>>

\* _Unwind_RaiseException.
Raise(e, s) ==
  /\ mode = "run" /\ status[e] = "idle"
  /\ Begin("raise", "search", e, s)
  /\ UNCHANGED <<words, goal, stop, history>>

\* _Unwind_ForcedUnwind: the words are written before the walk.
ForcedUnwind(e, s, f, p) ==
  /\ mode = "run" /\ status[e] = "idle"
  /\ Begin("force", "force", e, s)
  /\ words' = [words EXCEPT ![e] = ForcedWords(f, p)]
  /\ stop' = <<f, p>>
  /\ forced' = [forced EXCEPT ![e] = <<f, p>>]
  /\ due' = [due EXCEPT ![e] = {i \in 1..depth : site'[i].force \in {"CLEAN", "CATCH"}}]
  /\ UNCHANGED <<goal, chosen>>

\* _Unwind_Resume, the last call of a cleanup landing pad: only the words
\* say which propagation goes on.
Resume(e, s) ==
  /\ mode = "run" /\ status[e] = "cleanup" /\ at[e] = depth
  /\ \/ /\ IsNormal(words[e])
        /\ Begin("resume", "normal", e, s)
        /\ goal' = words[e][2] /\ stop' = <<0, 0>>
     \/ /\ ~IsNormal(words[e])
        /\ Begin("resume", "force", e, s)
        /\ stop' = words[e] /\ goal' = 0
  /\ UNCHANGED <<words, history>>

\* _Unwind_Resume_or_Rethrow, from a handler or a forced cleanup.
Rethrow(e, s) ==
  /\ mode = "run" /\ at[e] = depth
  /\ status[e] = "handler" \/ (status[e] = "cleanup" /\ ~IsNormal(words[e]))
  /\ \/ /\ IsNormal(words[e])
        /\ Begin("rethrow", "search", e, s)
        /\ stop' = <<0, 0>>
     \/ /\ ~IsNormal(words[e])
        /\ Begin("rethrow", "force", e, s)
        /\ stop' = words[e]
  /\ UNCHANGED <<words, goal, history>>

\* _Unwind_Backtrace.
Trace(s) ==
  /\ mode = "run"
  /\ Begin("trace", "trace", NoException, s)
  /\ UNCHANGED <<words, goal, stop, history>>

\* A null exception: every entry answers before it reads anything, and
\* _Unwind_Resume, which cannot answer, traps.
NullException(kind) ==
  /\ mode = "run"
  /\ \/ /\ kind = "raise" /\ result' = "FATAL1" /\ UNCHANGED mode
     \/ /\ kind \in {"force", "rethrow"} /\ result' = "FATAL2" /\ UNCHANGED mode
     \/ /\ kind = "resume" /\ mode' = "trap" /\ UNCHANGED result
  /\ UNCHANGED <<program, words, entry, exc, pos, before, goal, stop, history>>

-----------------------------------------------------------------------------
(* Leaving the unwinder.                                                   *)

Leave ==
  /\ exc' = NoException /\ entry' = "none"
  /\ pos' = 0 /\ before' = FALSE /\ goal' = 0 /\ stop' = <<0, 0>>

\* The entry returns reason r to the running frame; _Unwind_Resume traps.
Answer(r) ==
  /\ Leave
  /\ \/ /\ entry = "resume"
        /\ mode' = "trap" /\ result' = "NONE"
        /\ UNCHANGED history
     \/ /\ entry # "resume"
        /\ mode' = "run" /\ result' = r
        /\ IF entry = "rethrow" THEN UNCHANGED history ELSE Forget({exc})
  /\ UNCHANGED <<program, words>>

\* Install::restore: newer frames are gone and frame pos runs its pad.  An
\* exception another destroyed frame was holding is never seen again.
Install(pad) ==
  /\ Leave
  /\ mode' = "run" /\ result' = "NONE"
  /\ depth' = pos
  /\ site' = Truncate(pos)
  /\ status' = [e \in Exceptions |->
       IF e = exc THEN IF pad = "CATCH" THEN "handler" ELSE "cleanup"
       ELSE IF at[e] > pos THEN "lost" ELSE status[e]]
  /\ at' = [e \in Exceptions |->
       IF e = exc THEN pos ELSE IF at[e] > pos THEN 0 ELSE at[e]]
  /\ chosen' = [e \in Exceptions |->
       IF e # exc /\ at[e] > pos THEN 0 ELSE chosen[e]]
  /\ due' = [e \in Exceptions |->
       IF e = exc THEN due[e] \ {pos} ELSE IF at[e] > pos THEN {} ELSE due[e]]
  /\ forced' = [e \in Exceptions |->
       IF e # exc /\ at[e] > pos THEN <<0, 0>> ELSE forced[e]]
  /\ UNCHANGED words

\* Mutant: the caller of a trampoline is looked up again as the trampoline.
AdvanceStuck ==
  /\ pos' = IF site[pos].signal THEN pos ELSE pos - 1
  /\ before' = site[pos].signal
  /\ UNCHANGED <<program, words, mode, entry, exc, goal, stop, result, history>>

\* Cursor::advance: to the caller, noting whether this was a trampoline.
Advance ==
  /\ pos' = pos - 1
  /\ before' = site[pos].signal
  /\ UNCHANGED <<program, words, mode, entry, exc, goal, stop, result, history>>

Resolved  == pos > 0 /\ site[pos].fault # "info"
Named     == Resolved /\ site[pos].fault # "stack"
Walkable  == site[pos].fault # "caller"
\* Cursor::adjust and State::install both succeed.
Landable  == site[pos].fault \notin {"stack", "install"}

-----------------------------------------------------------------------------
(* Walk::search and Walk::begin.                                           *)

SearchEnd ==
  /\ mode = "search" /\ pos = 0
  /\ Answer("END")

SearchAdvance ==
  /\ mode = "search" /\ Resolved
  /\ SearchAnswer(site[pos], exc) = "CONTINUE" /\ Walkable
  /\ Advance

\* Mutants: only the second word is written; phase two starts where phase
\* one ended; the words are not written at all.
SearchFoundWith(w, start) ==
  /\ mode = "search" /\ Named
  /\ SearchAnswer(site[pos], exc) = "HANDLER"
  /\ words' = [words EXCEPT ![exc] = w]
  /\ mode' = "normal"
  /\ goal' = Key(pos, before)
  /\ pos' = start
  /\ before' = IF start = depth THEN FALSE ELSE before
  /\ chosen' = [chosen EXCEPT ![exc] = pos]
  /\ due' = [due EXCEPT ![exc] = {i \in pos..depth : site[i].clean = "CLEAN" \/ i = pos}]
  /\ forced' = [forced EXCEPT ![exc] = <<0, 0>>]
  /\ UNCHANGED <<program, entry, exc, stop, result>>
SearchFoundHalfWritten == SearchFoundWith(<<words[exc][1], Key(pos, before)>>, depth)
SearchFoundNoRestart   == SearchFoundWith(NormalWords(Key(pos, before)), pos)
SearchFoundUnwritten   == SearchFoundWith(words[exc], depth)

\* The handler's key is stored in the words and phase two starts from the
\* same root.
SearchFound ==
  /\ mode = "search" /\ Named
  /\ SearchAnswer(site[pos], exc) = "HANDLER"
  /\ words' = [words EXCEPT ![exc] = NormalWords(Key(pos, before))]
  /\ mode' = "normal"
  /\ goal' = Key(pos, before)
  /\ pos' = depth
  /\ before' = FALSE
  /\ chosen' = [chosen EXCEPT ![exc] = pos]
  /\ due' = [due EXCEPT ![exc] = {i \in pos..depth : site[i].clean = "CLEAN" \/ i = pos}]
  /\ forced' = [forced EXCEPT ![exc] = <<0, 0>>]
  /\ UNCHANGED <<program, entry, exc, stop, result>>

SearchFail ==
  /\ mode = "search" /\ pos > 0
  /\ \/ ~Resolved
     \/ SearchAnswer(site[pos], exc) = "FATAL"
     \/ SearchAnswer(site[pos], exc) = "CONTINUE" /\ ~Walkable
     \/ SearchAnswer(site[pos], exc) = "HANDLER" /\ ~Named
  /\ Answer("FATAL1")

-----------------------------------------------------------------------------
(* Walk::normal.                                                           *)

\* Mutant: phase two compares the bare stack pointer.
SelectedBySp == pos > 0 /\ Sp(pos) = goal

\* This frame's key is the handler's.
Selected == Key(pos, before) = goal

\* CLEANUP | HANDLER is asked in the selected frame, CLEANUP elsewhere.
CleanupAnswer == IF Selected THEN site[pos].handle ELSE site[pos].clean

NormalAdvance ==
  /\ mode = "normal" /\ Named
  /\ ~Selected /\ CleanupAnswer = "CONTINUE" /\ Walkable
  /\ Advance

NormalInstall ==
  /\ mode = "normal" /\ Named
  /\ CleanupAnswer \in {"CLEAN", "CATCH"} /\ Landable
  /\ Install(CleanupAnswer)

NormalFail ==
  /\ mode = "normal"
  /\ \/ pos = 0
     \/ pos > 0 /\ \/ ~Named
                   \/ CleanupAnswer = "FATAL"
                   \/ CleanupAnswer = "CONTINUE" /\ (Selected \/ ~Walkable)
                   \/ CleanupAnswer \in {"CLEAN", "CATCH"} /\ ~Landable
  /\ Answer("FATAL2")

-----------------------------------------------------------------------------
(* Walk::force.  The stop function is asked before each personality, and   *)
(* once more with END_OF_STACK; what it answers is up to it.               *)

ForceStopped ==
  /\ mode = "force" /\ (pos = 0 \/ Resolved)
  /\ Answer("FATAL2")

ForceEnd ==
  /\ mode = "force" /\ pos = 0
  /\ Answer("END")

\* Mutant: a forced walk passes frames whose pad it should install.
ForceAdvanceAnyway ==
  /\ mode = "force" /\ Resolved
  /\ site[pos].force # "FATAL" /\ Walkable
  /\ Advance

ForceAdvance ==
  /\ mode = "force" /\ Resolved
  /\ site[pos].force = "CONTINUE" /\ Walkable
  /\ Advance

ForceInstall ==
  /\ mode = "force" /\ Resolved
  /\ site[pos].force \in {"CLEAN", "CATCH"} /\ Landable
  /\ Install(site[pos].force)

ForceFail ==
  /\ mode = "force" /\ pos > 0
  /\ \/ ~Resolved
     \/ site[pos].force = "FATAL"
     \/ site[pos].force = "CONTINUE" /\ ~Walkable
     \/ site[pos].force \in {"CLEAN", "CATCH"} /\ ~Landable
  /\ Answer("FATAL2")

-----------------------------------------------------------------------------
(* Walk::trace.                                                            *)

TraceEnd ==
  /\ mode = "trace" /\ pos = 0
  /\ Answer("END")

TraceAdvance ==
  /\ mode = "trace" /\ Resolved /\ Walkable
  /\ Advance

\* The frame cannot be resolved or left, or the visitor asks to stop.
TraceFail ==
  /\ mode = "trace" /\ pos > 0
  /\ Answer("FATAL1")

-----------------------------------------------------------------------------
\* ud2: the program is over.
Trapped ==
  /\ mode = "trap"
  /\ UNCHANGED vars

SearchWalk == SearchEnd \/ SearchAdvance \/ SearchFound \/ SearchFail
NormalWalk == NormalAdvance \/ NormalInstall \/ NormalFail
ForceWalk == ForceStopped \/ ForceEnd \/ ForceAdvance \/ ForceInstall \/ ForceFail
TraceWalk == TraceEnd \/ TraceAdvance \/ TraceFail
Unwinder == SearchWalk \/ NormalWalk \/ ForceWalk \/ TraceWalk

Program ==
  \/ Return
  \/ \E s \in Sites : Call(s) \/ Signal(s) \/ Trace(s)
  \/ \E e \in Exceptions :
       \/ EndCatch(e)
       \/ \E s \in PadSites : Resume(e, s)
       \/ \E s \in Sites : \/ Raise(e, s)
                           \/ Rethrow(e, s)
                           \/ \E f \in StopFns, p \in Params : ForcedUnwind(e, s, f, p)
  \/ \E kind \in {"raise", "force", "rethrow", "resume"} : NullException(kind)

Next == Program \/ Unwinder \/ Trapped

\* The unwinder is code that runs when called: its own steps are taken.
Spec == Init /\ [][Next]_vars
FairSpec == Spec /\ WF_vars(Unwinder)

-----------------------------------------------------------------------------
(* Properties.                                                             *)

TypeOK ==
  /\ depth \in Frames
  /\ site \in [Frames -> Sites \cup {Trampoline}]
  /\ status \in [Exceptions -> {"idle", "cleanup", "handler", "lost"}]
  /\ at \in [Exceptions -> 0..MaxDepth]
  /\ words \in [Exceptions -> Words]
  /\ mode \in Walking \cup {"run", "trap"}
  /\ entry \in Entries
  /\ exc \in Exceptions \cup {NoException}
  /\ pos \in 0..MaxDepth
  /\ before \in BOOLEAN
  /\ goal \in Nat
  /\ stop \in Words
  /\ result \in Reasons
  /\ chosen \in [Exceptions -> 0..MaxDepth]
  /\ due \in [Exceptions -> SUBSET Frames]
  /\ forced \in [Exceptions -> Words]

\* Some propagation of e goes on below the frame holding it.
Propagating(e) == status[e] = "cleanup" /\ forced[e] = <<0, 0>>

\* The frame phase one chose for e is alive, is the one the words of e name,
\* and still stands at the site that promised to catch e.
HandlerAlive(e) ==
  /\ chosen[e] \in 1..depth
  /\ words[e] = NormalWords(Key(chosen[e], Interrupted(chosen[e])))
  /\ e \in site[chosen[e]].catches

(***************************************************************************)
(* While a cleanup pad runs on behalf of a normal propagation, whatever it *)
(* does (calls, signals, nested raises, catches, forced unwinds of other   *)
(* objects), the words of the outer exception name a live older frame that *)
(* will catch it (runtime.rs:554-594, 640-644, 701-711).                   *)
(***************************************************************************)
HandlerAhead ==
  \A e \in Exceptions : Propagating(e) => HandlerAlive(e) /\ chosen[e] < at[e]

(***************************************************************************)
(* Phase two, started afresh or resumed from any landing pad, stays above  *)
(* the frame phase one chose: the key comparison selects exactly that      *)
(* frame, whichever relation the cursor reached it with (runtime.rs:       *)
(* 848-861, cursor.rs:219-230).                                            *)
(***************************************************************************)
PhaseTwoOnCourse ==
  mode = "normal" => /\ HandlerAlive(exc)
                     /\ chosen[exc] <= pos
                     /\ goal = words[exc][2]
                     /\ Selected <=> pos = chosen[exc]

(***************************************************************************)
(* A walk resumes as the kind of propagation that was started, with the    *)
(* stop function it was started with, even when the object was propagated  *)
(* another way before (runtime.rs:554-594).                                *)
(***************************************************************************)
ResumeKeepsKind ==
  mode \in {"normal", "force"} =>
    IF mode = "force" THEN stop = forced[exc] /\ stop[1] # 0
                      ELSE forced[exc] = <<0, 0>>

(***************************************************************************)
(* A forced unwind that reaches the end of the stack has run the pad of    *)
(* every frame that had one when it started (runtime.rs:898-964).          *)
(***************************************************************************)
ForcedCleansAll ==
  mode = "force" /\ pos = 0 => due[exc] = {}

\* This step leaves the unwinder by installing a landing pad.
Installs == mode \in Walking /\ mode' = "run" /\ result' = "NONE"

(***************************************************************************)
(* A normal propagation is caught in the frame phase one chose, after the  *)
(* pad of each frame that had one at the raise, and no other, has run.     *)
(***************************************************************************)
CaughtWhereChosen ==
  [][mode = "normal" /\ Installs /\ status'[exc] = "handler"
       => pos = chosen[exc] /\ due'[exc] = {}]_vars

(***************************************************************************)
(* Landing pads run newest frame first: the pad phase two installs is that *)
(* of the newest frame whose pad is still to run, so none is skipped, run  *)
(* twice, or run though the raise did not pass it.                         *)
(***************************************************************************)
NewestFirst ==
  [][mode = "normal" /\ Installs
       => pos \in due[exc] /\ \A i \in due[exc] : i <= pos]_vars

\* Phase two may fail in a frame phase one could not test.
Defective(s, selected) ==
  \/ s.fault # "none"
  \/ IF selected THEN s.handle \in {"CONTINUE", "FATAL"} ELSE s.clean = "FATAL"

(***************************************************************************)
(* Phase two reports FATAL2, or traps under _Unwind_Resume, only in a      *)
(* frame whose own metadata, registers or personality fail it: it never    *)
(* runs off the stack or misses the handler (runtime.rs:848-893).          *)
(***************************************************************************)
PhaseTwoFailsOnlyOnDefect ==
  [][mode = "normal" /\ (mode' = "trap" \/ (mode' = "run" /\ result' = "FATAL2"))
       => pos > 0 /\ Defective(site[pos], pos = chosen[exc])]_vars

(***************************************************************************)
(* Every entry of the unwinder gives control back: it returns, jumps to a  *)
(* landing pad or traps.                                                   *)
(***************************************************************************)
WalkEnds == (mode \in Walking) ~> (mode \in {"run", "trap"})

Promise == INSTANCE Propagation WITH
  forced <- [e \in Exceptions |-> forced[e] # <<0, 0>>], target <- chosen, todo <- due

(***************************************************************************)
(* The engine does what it promises: whatever frames, keys, words and      *)
(* cursors do, and whatever propagations the pads start themselves, each   *)
(* exception enters exactly the pads settled when its propagation began,   *)
(* newest first, and only its own entries and its handler's end change     *)
(* what becomes of it (runtime.rs:601-964).                                *)
(***************************************************************************)
KeepsPromise == Promise!Spec

-----------------------------------------------------------------------------
(* The inductive invariant behind these properties.                        *)

\* Trampolines stand alone, below the running frame.
StackOK ==
  /\ \A i \in Frames : i > depth => site[i] = Plain
  /\ \A i \in Frames : site[i].signal => i < depth
  /\ \A i \in Frames : site[i].signal => i > 1 /\ ~site[i - 1].signal

\* Held exceptions sit in live frames that are no trampolines.
HeldOK ==
  \A e \in Exceptions :
    /\ at[e] <= depth
    /\ at[e] = 0 <=> status[e] \in {"idle", "lost"}
    /\ at[e] # 0 => ~site[at[e]].signal

\* The frames from "low" to "high" whose pads a normal propagation runs,
\* given that it is caught in "low".
Pads(low, high) == {i \in low..high : site[i].clean = "CLEAN" \/ i = low}

\* No frame above the chosen one, up to "high", can catch without HANDLER.
Course(e, high) ==
  /\ HandlerAlive(e)
  /\ chosen[e] <= high
  /\ \A i \in (chosen[e] + 1)..high : site[i].clean # "CATCH"
  /\ due[e] = Pads(chosen[e], high)

\* Only frames up to "high" are left for a forced unwind to clean.
ForcedCourse(e, high) ==
  \A i \in due[e] : i <= high /\ site[i].force \in {"CLEAN", "CATCH"}

\* What the words and the history say of an exception held by a frame.
Kept(e) ==
  IF forced[e] = <<0, 0>>
  THEN IsNormal(words[e]) /\ (status[e] = "cleanup" => Course(e, at[e] - 1))
  ELSE words[e] = forced[e] /\ ~IsNormal(words[e]) /\ ForcedCourse(e, at[e] - 1)

WordsOK == \A e \in Exceptions : at[e] # 0 => Kept(e)

\* What a walk has established so far: of its cursor, of the exception it
\* propagates, and of the rest of each kind of phase two.
CursorOK ==
  mode \in Walking => pos <= depth /\ (pos # 0 => before = Interrupted(pos))

PropagatedOK ==
  /\ mode \in {"search", "normal", "force"} <=> exc # NoException
  /\ mode = "search" => status[exc] \in {"idle", "handler"}
  /\ exc # NoException => entry \in {"resume", "rethrow"} \/ at[exc] = 0

NormalOK ==
  mode = "normal" => /\ Course(exc, pos)
                     /\ goal = words[exc][2]
                     /\ forced[exc] = <<0, 0>>

ForceOK ==
  mode = "force" => /\ stop = forced[exc] /\ words[exc] = stop
                    /\ ~IsNormal(stop)
                    /\ ForcedCourse(exc, pos)

WalkOK == CursorOK /\ PropagatedOK /\ NormalOK /\ ForceOK

\* Each search passes only frames that cannot catch without HANDLER.
SearchOK ==
  mode = "search" => \A i \in (pos + 1)..depth : site[i].clean # "CATCH"

(***************************************************************************)
(* All of it together: what one call of the unwinder leaves behind is      *)
(* enough for the next one (runtime.rs:601-610 and 528-546, the invariants *)
(* noted on Walk, Forced and Resume).                                      *)
(***************************************************************************)
Inductive ==
  TypeOK /\ StackOK /\ HeldOK /\ WordsOK /\ WalkOK /\ SearchOK
=============================================================================
