------------------------------- MODULE Worker -------------------------------
(***************************************************************************)
(* The request worker of examples/no-std-linux (main.rs, boundary.rs,      *)
(* service.rs, runtime.rs): a loop of requests, each behind a catch        *)
(* boundary.  A request owns the global panic scope and a page; a panic    *)
(* becomes a packet (Packet), which passes the pads of the frames that own *)
(* these and is caught at the boundary.  The worker judges a request by a  *)
(* count of released pages and by the identity in the packet.  A trace     *)
(* (backtrace.rs) records the walk's frames in a fixed buffer, then maps   *)
(* the executable and prints them.                                         *)
(***************************************************************************)
EXTENDS Naturals, Sequences, SequencesExt

CONSTANTS
  MaxWord,    \* the largest machine word
  MaxArgs,    \* bound: arguments on the command line
  FrameLimit, \* frames a trace has room for
  MaxFrames,  \* bound: frames of the stack a trace walks
  Addresses,  \* of packets
  Free,       \* no packet
  None        \* no hook has run

ASSUME WordAssumption == MaxWord \in Nat \ {0} /\ MaxArgs \in Nat
ASSUME TraceAssumption == FrameLimit \in Nat /\ MaxFrames \in Nat

Commands == {"work", "panic", "trace"}
Ids == 1..MaxWord
NoFault == 0

VARIABLES
  args,      \* the arguments left, "bad" for one that is no command
  id,        \* of the current or next request
  handled,   \* one was handled
  active,    \* ACTIVE, 0 if no request may panic
  mapped,    \* the request's page is mapped
  cleanups,  \* CLEANUPS
  req,       \* the request: its command, the count before it, the slots
  trace,     \* the frames a trace recorded, and whether there were more
  shown,     \* the frames printed, whether cut off, whether a caller resolved
  image,     \* the executable is mapped
  pads,      \* frames above the panic with something to drop, newest first
  place,     \* where the program is
  exit       \* how it ended

\* History, read by no action: the counters a trace's walk reported, without
\* those that are null.
VARIABLE walked

VARIABLES heap, holder, call, fate, hook, reads

packets == <<heap, holder, call, fate, hook, reads>>
tracing == <<trace, shown, image, walked>>
local == <<args, id, handled, active, mapped, cleanups, req, pads, place, exit>>
vars == <<local, tracing, packets>>

Packets == INSTANCE Packet WITH Copies <- {"worker"}, Payloads <- Ids

Idle == [cmd |-> "none", before |-> 0, result |-> "none", fault |-> NoFault]

\* What a frame's counter is: behind a call, at an instruction, or null.
Counters == {"return", "instruction", "null"}

NoTrace == [slots |-> <<>>, truncated |-> FALSE]
Blank == [frames |-> <<>>, cut |-> FALSE, interior |-> FALSE]

Init ==
  /\ args \in UNION {[1..n -> Commands \cup {"bad"}] : n \in 0..MaxArgs}
  /\ id = 1 /\ handled = FALSE /\ active = 0 /\ mapped = FALSE /\ cleanups = 0
  /\ req = Idle /\ pads = <<>>
  /\ trace = NoTrace /\ shown = Blank /\ image = FALSE /\ walked = <<>>
  /\ place = "ready" /\ exit = "running"
  /\ Packets!Init

Go(to) == place' = to /\ UNCHANGED exit
Stop(why) == place' = "exit" /\ exit' = why

\* The storage of a trace is gone with its frame, the executable unmapped.
Forgotten == trace' = NoTrace /\ shown' = Blank /\ image' = FALSE /\ walked' = <<>>

-----------------------------------------------------------------------------
(* The loop.                                                               *)

\* The next argument is a command.
Wanted == args # <<>> /\ Head(args) \in Commands

\* No argument is left, or one is no command.
Quit ==
  /\ place = "ready" /\ ~Wanted
  /\ Stop(IF args = <<>> /\ handled THEN "success" ELSE "usage")
  /\ UNCHANGED <<args, id, handled, active, mapped, cleanups, req, pads, tracing, packets>>

\* boundary::run, up to the intrinsic: the count must not overflow.
Begin ==
  /\ place = "ready" /\ Wanted
  /\ args' = Tail(args)
  /\ req' = [Idle EXCEPT !.cmd = Head(args), !.before = cleanups]
  /\ IF cleanups = MaxWord THEN Stop("cleanup") ELSE Go("enter")
  /\ UNCHANGED <<id, handled, active, mapped, cleanups, pads, tracing, packets>>

\* invoke: RequestScope::enter takes the panic scope if it is free.
Enter ==
  /\ place = "enter"
  /\ IF active = 0
     THEN active' = id /\ Go("acquire") /\ UNCHANGED req
     ELSE req' = [req EXCEPT !.result = "busy"] /\ Go("judge") /\ UNCHANGED active
  /\ UNCHANGED <<args, id, handled, mapped, cleanups, pads, tracing, packets>>

\* Mutant: the scope's identity stays.
LeaveActive(to) == UNCHANGED active /\ Go(to)

\* Drop of RequestScope: it must be this request's.
Leave(to) ==
  IF active = id THEN active' = 0 /\ Go(to) ELSE UNCHANGED active /\ Stop("scope")

\* The request's page, if the system has one.
Acquire ==
  /\ place = "acquire"
  /\ \/ mapped' = TRUE /\ Go("work") /\ UNCHANGED <<active, req>>
     \/ /\ req' = [req EXCEPT !.result = "resource"]
        /\ Leave("judge") /\ UNCHANGED mapped
  /\ UNCHANGED <<args, id, handled, cleanups, pads, tracing, packets>>

\* The page is unmapped and counted, with the wrap of an atomic add.
Unmapped == mapped' = FALSE /\ cleanups' = (cleanups + 1) % (MaxWord + 1)

Works == place = "work" /\ req.cmd = "work"

\* The command returns.  The page goes, then the scope.
Finish ==
  /\ Works \/ place = "traced"
  /\ req' = IF Works THEN [req EXCEPT !.result = "ok"] ELSE req
  /\ Unmapped /\ Leave("judge")
  /\ Forgotten
  /\ UNCHANGED <<args, id, handled, pads, packets>>

\* munmap fails, for the page or the executable.
ReleaseFails ==
  /\ \/ mapped /\ (Works \/ place \in {"traced", "pad"})
     \/ image /\ place \in {"symbols", "print"}
  /\ Stop("munmap")
  /\ UNCHANGED <<args, id, handled, active, mapped, cleanups, req, pads, tracing, packets>>

-----------------------------------------------------------------------------
(* A trace.                                                                *)

Keep == UNCHANGED <<args, id, handled, active, mapped, cleanups, pads, packets>>

\* print returns: the executable is unmapped.
Traced(result) ==
  /\ req' = [req EXCEPT !.result = result]
  /\ image' = FALSE /\ Go("traced") /\ Keep

\* Mutant: frames that do not fit are forgotten.
RecordedQuietly(counter) ==
  IF counter = "null" \/ Len(trace.slots) = FrameLimit THEN trace
  ELSE [trace EXCEPT !.slots = Append(@, counter)]

\* Trace::push, for a counter that is one.
Recorded(counter) ==
  IF counter = "null" THEN trace
  ELSE IF Len(trace.slots) = FrameLimit THEN [trace EXCEPT !.truncated = TRUE]
  ELSE [trace EXCEPT !.slots = Append(@, counter)]

\* The walk reports a frame.
Visit ==
  /\ place = "work" /\ req.cmd = "trace" /\ Len(walked) < MaxFrames
  /\ \E counter \in Counters :
       /\ trace' = Recorded(counter)
       /\ walked' = IF counter = "null" THEN walked ELSE Append(walked, counter)
  /\ UNCHANGED <<req, place, exit, shown, image>> /\ Keep

\* The walk is over, at the end of the stack or before.
Capture ==
  /\ place = "work" /\ req.cmd = "trace"
  /\ \/ Go("open") /\ UNCHANGED <<req, image>> /\ Keep
     \/ Traced("backtrace")
  /\ UNCHANGED <<trace, shown, walked>>

\* The executable is opened and mapped, or cannot be.
Open ==
  /\ place = "open"
  /\ \/ image' = TRUE /\ Go("symbols") /\ UNCHANGED req /\ Keep
     \/ Traced("backtrace")
  /\ UNCHANGED <<trace, shown, walked>>

\* Its debugging information is read.
Symbols ==
  /\ place = "symbols"
  /\ \/ Go("print") /\ UNCHANGED <<req, image>> /\ Keep
     \/ Traced("backtrace")
  /\ UNCHANGED <<trace, shown, walked>>

Printed == Len(shown.frames)

\* The next frame is printed and looked up.
Show ==
  /\ place = "print" /\ Printed < Len(trace.slots)
  /\ LET counter == trace.slots[Printed + 1]
     IN  \/ /\ \E resolved \in BOOLEAN :
                 shown' = [shown EXCEPT !.frames = Append(@, counter),
                                        !.interior = @ \/ (resolved /\ counter = "return")]
            /\ UNCHANGED <<req, place, exit, image>> /\ Keep
         \/ Traced("backtrace") /\ UNCHANGED shown
  /\ UNCHANGED <<trace, walked>>

\* All are: a trace without a caller that resolved is a failure.
ShowEnds ==
  /\ place = "print" /\ Printed = Len(trace.slots)
  /\ shown' = [shown EXCEPT !.cut = trace.truncated]
  /\ Traced(IF shown.interior THEN "ok" ELSE "backtrace")
  /\ UNCHANGED <<trace, walked>>

-----------------------------------------------------------------------------
(* A panic.                                                                *)

\* The panic handler: inside a request a packet with its identity is raised,
\* outside the process ends.  Library code of a trace may panic too.
Panic(a) ==
  /\ (place = "work" /\ req.cmd = "panic") \/ place \in {"symbols", "print"}
  /\ IF active = 0
     THEN Stop("panic") /\ UNCHANGED packets
     ELSE Packets!Raise("worker", active, a, "start") /\ Go("unwind")
  /\ pads' = (IF image THEN <<"image">> ELSE <<>>)
             \o (IF mapped THEN <<"page">> ELSE <<>>) \o <<"scope", "catch">>
  /\ UNCHANGED <<args, id, handled, active, mapped, cleanups, req, tracing>>

\* No handler is found, or phase two fails before its first pad: the hook.
Lost(a) ==
  /\ place = "unwind" /\ Packets!Returned(a)
  /\ Stop("lost")
  /\ UNCHANGED <<args, id, handled, active, mapped, cleanups, req, pads, tracing>>

\* The frames of the panic are gone.
Raised(a) ==
  /\ place = "unwind" /\ Packets!Passed(a)
  /\ UNCHANGED <<local, tracing>>

\* The next pad is entered.
Land(a) ==
  /\ place \in {"unwind", "resume"} /\ Packets!Land(a)
  /\ Go("pad")
  /\ UNCHANGED <<args, id, handled, active, mapped, cleanups, req, pads, tracing>>

\* _Unwind_Resume cannot go on: it traps.
Trap(a) ==
  /\ place = "resume" /\ holder[a] = "unwinder"
  /\ Stop("trap")
  /\ UNCHANGED <<args, id, handled, active, mapped, cleanups, req, pads, tracing, packets>>

\* Mutant: a resumed propagation enters the same pad again.
PadsKept == pads

\* Resuming goes on with the next frame.
PadsLeft == Tail(pads)

\* The pad drops what its frame owns and resumes.
Drop(a) ==
  /\ place = "pad" /\ pads # <<>>
  /\ \/ Head(pads) = "image" /\ Forgotten /\ Go("resume") /\ UNCHANGED <<active, mapped, cleanups>>
     \/ Head(pads) = "page" /\ Unmapped /\ Go("resume") /\ UNCHANGED <<active, tracing>>
     \/ Head(pads) = "scope" /\ Leave("resume") /\ UNCHANGED <<mapped, cleanups, tracing>>
  /\ pads' = PadsLeft
  /\ Packets!Resume(a)
  /\ UNCHANGED <<args, id, handled, req>>

\* The intrinsic's catch callback: object::catch, the payload into its slot.
Caught(a) ==
  /\ place = "pad" /\ pads = <<"catch">>
  /\ Packets!Catch("worker", a)
  /\ req' = [req EXCEPT !.fault = heap[a].payload]
  /\ pads' = <<>> /\ Go("judge")
  /\ UNCHANGED <<args, id, handled, active, mapped, cleanups, tracing>>

-----------------------------------------------------------------------------
(* The verdict.                                                            *)

Expected == req.before + 1

\* What boundary::run makes of the slots and the count.
Verdict ==
  IF req.fault # NoFault
  THEN CASE cleanups # Expected -> "cleanup"
         [] req.fault = id -> "recovered"
         [] OTHER -> "payload"
  ELSE CASE req.result = "ok" /\ cleanups = Expected -> "complete"
         [] req.result = "resource" /\ cleanups = req.before -> "resource"
         [] req.result = "backtrace" /\ cleanups = Expected -> "backtrace"
         [] req.result = "busy" -> "busy"
         [] OTHER -> "cleanup"

Failures == {"cleanup", "payload", "busy", "scope"}

\* Mutant: identities wrap, past zero.
NextIdReused == id' = (id % MaxWord) + 1 /\ Go("ready")

\* The next identity, if there is one.
NextId ==
  IF id = MaxWord THEN Stop("exhausted") /\ UNCHANGED id ELSE id' = id + 1 /\ Go("ready")

Judge ==
  /\ place = "judge"
  /\ req' = Idle
  /\ IF Verdict \in Failures
     THEN Stop(Verdict) /\ UNCHANGED <<id, handled>>
     ELSE handled' = TRUE /\ NextId
  /\ UNCHANGED <<args, active, mapped, cleanups, pads, tracing, packets>>

Ended == place = "exit" /\ UNCHANGED vars

Step ==
  \/ Quit \/ Begin \/ Enter \/ Acquire \/ Finish \/ ReleaseFails \/ Judge
  \/ Visit \/ Capture \/ Open \/ Symbols \/ Show \/ ShowEnds
  \/ \E a \in Addresses :
       Panic(a) \/ Lost(a) \/ Raised(a) \/ Land(a) \/ Trap(a) \/ Drop(a) \/ Caught(a)

Next == Step \/ Ended

\* The process is one thread, and nothing it calls waits.
Spec == Init /\ [][Next]_vars /\ WF_vars(Step)

-----------------------------------------------------------------------------
(* Properties.                                                             *)

(***************************************************************************)
(* The boundary never contradicts itself: whichever way requests ended so  *)
(* far, by returning, failing or panicking, the next finds the scope free, *)
(* its own identity in the packet and its page released once; and          *)
(* identities run out before the count of pages does (boundary.rs:126-164, *)
(* main.rs:125-130).                                                       *)
(***************************************************************************)
BoundaryHolds == exit \notin Failures

(***************************************************************************)
(* A request leaves nothing to the next one or to a regular exit: no       *)
(* scope, no page, no mapped executable, no packet; and what it raised was *)
(* given to its boundary (runtime.rs:73-84, service.rs:129-146,            *)
(* backtrace.rs:243-258).                                                  *)
(***************************************************************************)
NothingOutlives ==
  place = "ready" \/ exit \in {"success", "usage"} =>
    /\ active = 0 /\ ~mapped /\ ~image
    /\ \A a \in Addresses : heap[a] = Free
    /\ \A i \in Ids : fate[i] \in {"fresh", "given"}

(***************************************************************************)
(* A trace that succeeds shows the frames of the walk in their order, from *)
(* the newest, and says so if it left some out; and a caller among them    *)
(* was resolved (backtrace.rs:124-157, 300-345, 401-410).                  *)
(***************************************************************************)
TraceIsHonest ==
  place = "traced" /\ req.result = "ok" =>
    /\ IsPrefix(shown.frames, walked)
    /\ shown.cut <=> shown.frames # walked
    /\ "return" \in ToSet(shown.frames)

(***************************************************************************)
(* Every command line comes to an end: no request waits, and no panic goes *)
(* from pad to pad for ever (main.rs:149-175).                             *)
(***************************************************************************)
WorkerEnds == <>(place = "exit")
=============================================================================
