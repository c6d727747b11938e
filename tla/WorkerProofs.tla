---------------------------- MODULE WorkerProofs ----------------------------
(***************************************************************************)
(* The request worker's boundary never contradicts itself, a request       *)
(* leaves nothing behind and a trace is honest: for every word size,       *)
(* command line, buffer and stack.                                         *)
(***************************************************************************)
EXTENDS Worker, TLAPS

\* Nothing is stored at an address and nobody works with it.
Vacant(a) == heap[a] = Free /\ holder[a] = "nobody" /\ call[a] = "none"

NoPacket == \A a \in Addresses : Vacant(a)

\* There is one packet, that of the current request, and where it is.
Carried(who, calls) ==
  \E a \in Addresses :
    /\ heap[a] = Packets!PacketOf("worker", id) /\ holder[a] = who /\ call[a] \in calls
    /\ \A b \in Addresses \ {a} : Vacant(b)

\* The request holds nothing.
Bare == active = 0 /\ ~mapped /\ ~image

\* What the frames hold is what their pads will release.
PadsOwn ==
  \/ /\ pads = <<"image", "page", "scope", "catch">>
     /\ image /\ mapped /\ active = id /\ cleanups = req.before
  \/ /\ pads = <<"page", "scope", "catch">>
     /\ ~image /\ mapped /\ active = id /\ cleanups = req.before
  \/ /\ pads = <<"scope", "catch">>
     /\ ~image /\ ~mapped /\ active = id /\ cleanups = req.before + 1
  \/ pads = <<"catch">> /\ Bare /\ cleanups = req.before + 1

\* How a request may have ended.
Ending ==
  \/ /\ req.fault = id /\ cleanups = req.before + 1 /\ fate[id] = "given"
  \/ /\ req.fault = NoFault /\ fate[id] = "fresh"
     /\ \/ req.result \in {"ok", "backtrace"} /\ cleanups = req.before + 1
        \/ req.result = "resource" /\ cleanups = req.before

Unused == req.fault = NoFault /\ fate[id] = "fresh"

Places == {"ready", "enter", "acquire", "work", "open", "symbols", "print", "traced",
           "unwind", "pad", "resume", "judge", "exit"}

\* Where the program is, and what the request has at that place.
Course ==
  /\ place = "ready" => Bare /\ NoPacket /\ Unused /\ cleanups < id
  /\ place = "enter" =>
       Bare /\ NoPacket /\ Unused /\ req.result = "none" /\ cleanups = req.before
  /\ place = "acquire" =>
       /\ active = id /\ ~mapped /\ ~image /\ NoPacket /\ Unused
       /\ cleanups = req.before
  /\ place \in {"work", "open", "symbols", "print", "traced"} =>
       /\ active = id /\ mapped /\ (image <=> place \in {"symbols", "print"})
       /\ NoPacket /\ Unused /\ cleanups = req.before
  /\ place = "traced" => req.result \in {"ok", "backtrace"}
  /\ place = "unwind" => Carried("unwinder", {"start", "none"})
  /\ place = "pad" => Carried("pad", {"none"})
  /\ place = "resume" => Carried("unwinder", {"none"})
  /\ place \in {"unwind", "pad", "resume"} =>
       PadsOwn /\ fate[id] = "packed" /\ req.fault = NoFault
  /\ place = "judge" => Bare /\ NoPacket /\ Ending
  /\ place # "exit" => exit = "running"

\* The heap of the one program, as Packet has it.
Storage ==
  /\ heap \in [Addresses -> Packets!Object \cup {Free}]
  /\ holder \in [Addresses -> {"nobody", "guard", "unwinder", "pad"}]
  /\ call \in [Addresses -> {"raise", "start", "throw", "none"}]
  /\ fate \in [Ids -> {"fresh", "packed", "given", "dropped"}]

\* Pages are counted once for a request, so the count stays behind identities.
Counts ==
  /\ id \in Ids /\ cleanups \in Nat /\ req.before \in Nat
  /\ req = [cmd |-> req.cmd, before |-> req.before, result |-> req.result, fault |-> req.fault]
  /\ place \in Places
  /\ req.before < id
  /\ place # "exit" => \A i \in Ids : /\ i < id => fate[i] \in {"fresh", "given"}
                                      /\ i > id => fate[i] = "fresh"

Inv == Storage /\ Counts /\ Course /\ BoundaryHolds /\ NothingOutlives

\* The storage of a trace is as a request finds it.
Fresh == trace = NoTrace /\ shown = Blank /\ walked = <<>>

\* The slots hold the newest of the frames, and all of them unless truncated.
Kept ==
  /\ trace.slots \in Seq({"return", "instruction"})
  /\ walked \in Seq({"return", "instruction"})
  /\ Len(trace.slots) <= Len(walked)
  /\ \A k \in 1..Len(trace.slots) : trace.slots[k] = walked[k]
  /\ trace.truncated <=> Len(trace.slots) < Len(walked)
  /\ trace.truncated => Len(trace.slots) = FrameLimit

\* What is printed is what the slots hold.
Shows ==
  /\ shown.frames \in Seq({"return", "instruction"})
  /\ Len(shown.frames) <= Len(trace.slots)
  /\ \A k \in 1..Len(shown.frames) : shown.frames[k] = trace.slots[k]
  /\ shown.interior => \E k \in 1..Len(shown.frames) : shown.frames[k] = "return"

TraceInv ==
  /\ Kept /\ Shows
  /\ place \in {"ready", "enter", "acquire", "judge"} => Fresh
  /\ place = "work" /\ req.cmd # "trace" => Fresh
  /\ place \in {"unwind", "pad", "resume"} /\ ~image => Fresh
  /\ place \in {"work", "open", "symbols"} => shown = Blank
  /\ place = "traced" /\ req.result = "ok" =>
       /\ shown.cut = trace.truncated /\ shown.interior
       /\ Len(shown.frames) = Len(trace.slots)
  /\ trace = [slots |-> trace.slots, truncated |-> trace.truncated]
  /\ shown = [frames |-> shown.frames, cut |-> shown.cut, interior |-> shown.interior]

-----------------------------------------------------------------------------
(* The request.                                                            *)

\* A page more does not wrap the count.
LEMMA CountFits ==
  ASSUME NEW n \in Nat, n < MaxWord
  PROVE  (n + 1) % (MaxWord + 1) = n + 1
<1>1. \A x \in Nat, y \in Nat : x < y => x % y = x
  OBVIOUS
<1> QED
  BY <1>1, WordAssumption

LEMMA InvInit == Init => Inv
<1> SUFFICES ASSUME Init PROVE Inv
  OBVIOUS
<1>1. id \in Ids /\ 0 \in Nat
  BY WordAssumption DEF Init, Ids
<1>2. Storage
  BY DEF Init, Storage, Packets!Init
<1>3. Counts
  BY <1>1 DEF Init, Counts, Idle, Places, Packets!Init, Ids
<1>4. Course
  BY <1>1 DEF Init, Course, Bare, NoPacket, Vacant, Unused, Idle, Packets!Init, Ids
<1>5. BoundaryHolds /\ NothingOutlives
  BY DEF Init, BoundaryHolds, NothingOutlives, Failures, Packets!Init
<1> QED
  BY <1>2, <1>3, <1>4, <1>5 DEF Inv


\* A step that leaves the packets alone.
LEMMA StorageKept ==
  ASSUME UNCHANGED packets
  PROVE  /\ Storage => Storage'
         /\ NoPacket => NoPacket'
         /\ UNCHANGED <<heap, fate>>
BY DEF packets, Storage, NoPacket, Vacant

\* A request that goes on has no regular end yet.
LEMMA Goes ==
  ASSUME Storage', Counts', Course', place' \notin {"ready", "exit"}
  PROVE  Inv'
BY DEF Inv, Course, BoundaryHolds, NothingOutlives, Failures

\* The program ends, but for a reason outside of the worker.
LEMMA Stops ==
  ASSUME Storage', Inv, Stop(exit'), exit' \notin Failures \cup {"success", "usage"},
         UNCHANGED <<id, req>>, cleanups' \in Nat
  PROVE  Inv'
<1> USE DEF Inv, Stop
<1>1. Counts'
  BY DEF Counts, Places
<1>2. Course'
  BY DEF Course
<1>3. BoundaryHolds' /\ NothingOutlives'
  BY DEF BoundaryHolds, NothingOutlives
<1> QED
  BY <1>1, <1>2, <1>3

LEMMA QuitInv == ASSUME Inv, Quit PROVE Inv'
<1> USE DEF Inv
<1>1. Storage' /\ Bare /\ NoPacket /\ Unused /\ UNCHANGED <<heap, fate>>
  BY StorageKept DEF Quit, Course
<1>2. Counts'
  BY DEF Quit, Counts, Stop, Places, packets
<1>3. Course'
  BY DEF Quit, Course, Stop
<1>4. BoundaryHolds'
  BY DEF Quit, BoundaryHolds, Failures, Stop
<1>5. NothingOutlives'
  <2>1. \A i \in Ids : fate[i] \in {"fresh", "given"}
    BY <1>1, WordAssumption DEF Counts, Unused, Quit, Ids
  <2> QED
    BY <1>1, <2>1 DEF Quit, NothingOutlives, Bare, NoPacket, Vacant, Stop, tracing
<1> QED
  BY <1>1, <1>2, <1>3, <1>4, <1>5

LEMMA BeginInv == ASSUME Inv, Begin PROVE Inv'
<1> USE DEF Inv
<1>1. /\ Storage' /\ NoPacket' /\ UNCHANGED <<heap, fate>>
      /\ Bare /\ Unused /\ cleanups < id /\ cleanups # MaxWord
  BY StorageKept, WordAssumption DEF Begin, Course, Counts, Ids
<1>2. /\ place' = "enter" /\ UNCHANGED <<id, active, mapped, cleanups, image, exit>>
      /\ req' = [cmd |-> Head(args), before |-> cleanups, result |-> "none", fault |-> NoFault]
  BY <1>1 DEF Begin, Go, Idle, tracing
<1>3. Counts'
  BY <1>1, <1>2 DEF Counts, Places, Begin
<1>4. req'.result = "none" /\ req'.before = cleanups /\ req'.fault = NoFault
  BY <1>2
<1>5. Bare' /\ Unused' /\ exit' = "running" /\ cleanups' = req'.before
  <2>1. exit' = "running"
    BY <1>2 DEF Course, Begin
  <2> QED
    BY <1>1, <1>2, <1>4, <2>1 DEF Bare, Unused
<1>6. Course'
  BY <1>1, <1>2, <1>4, <1>5 DEF Course
<1> QED
  BY <1>1, <1>2, <1>3, <1>6, Goes

LEMMA EnterInv == ASSUME Inv, Enter PROVE Inv'
<1> USE DEF Inv
<1>1. /\ Storage' /\ NoPacket' /\ UNCHANGED <<heap, fate>>
      /\ Bare /\ Unused /\ req.result = "none" /\ cleanups = req.before
  BY StorageKept DEF Enter, Course
<1>2. /\ place' = "acquire" /\ active' = id
      /\ UNCHANGED <<id, mapped, cleanups, image, exit, req>>
  BY <1>1 DEF Enter, Go, tracing, Bare
<1>3. Counts'
  BY <1>1, <1>2 DEF Counts, Places, Enter
<1>4. Course'
  BY <1>1, <1>2 DEF Course, Bare, Unused, Enter
<1> QED
  BY <1>1, <1>2, <1>3, <1>4, Goes

LEMMA AcquireInv == ASSUME Inv, Acquire PROVE Inv'
<1> USE DEF Inv
<1>1. /\ Storage' /\ NoPacket' /\ UNCHANGED <<heap, fate>>
      /\ active = id /\ ~mapped /\ ~image /\ Unused /\ cleanups = req.before
  BY StorageKept DEF Acquire, Course
<1>2. UNCHANGED <<id, cleanups, image, exit>>
  BY <1>1 DEF Acquire, Go, Leave, tracing
<1>3. \/ place' = "work" /\ mapped' = TRUE /\ UNCHANGED <<active, req>>
      \/ /\ place' = "judge" /\ active' = 0 /\ UNCHANGED mapped
         /\ req' = [req EXCEPT !.result = "resource"]
  BY <1>1 DEF Acquire, Go, Leave
<1>4. Counts'
  BY <1>1, <1>2, <1>3 DEF Counts, Places, Acquire
<1>5. Course'
  BY <1>1, <1>2, <1>3 DEF Course, Counts, Bare, Unused, Ending, Acquire
<1> QED
  BY <1>1, <1>3, <1>4, <1>5, Goes

\* The page of the request is released, and the count does not wrap.
LEMMA PageReleased ==
  ASSUME Inv, cleanups = req.before, Unmapped
  PROVE  ~mapped' /\ cleanups' = req.before + 1 /\ cleanups' \in Nat
BY CountFits, WordAssumption DEF Inv, Counts, Unmapped, Ids

LEMMA FinishInv == ASSUME Inv, Finish PROVE Inv'
<1> USE DEF Inv
<1>1. /\ Storage' /\ NoPacket' /\ UNCHANGED <<heap, fate>>
      /\ active = id /\ Unused /\ cleanups = req.before
      /\ place = "traced" => req.result \in {"ok", "backtrace"}
  BY StorageKept DEF Finish, Course, Works
<1>2. /\ place' = "judge" /\ active' = 0 /\ UNCHANGED <<id, exit>>
      /\ ~image' /\ ~mapped' /\ cleanups' = req.before + 1 /\ cleanups' \in Nat
      /\ req' = [req EXCEPT !.result = "ok"] \/ (place = "traced" /\ UNCHANGED req)
  BY <1>1, PageReleased DEF Finish, Go, Leave, Forgotten
<1>3. Counts'
  BY <1>1, <1>2 DEF Counts, Places, Finish, Works
<1>4. Bare' /\ Ending' /\ exit' = "running"
  BY <1>1, <1>2 DEF Course, Counts, Bare, Unused, Ending, Finish, Works
<1>5. Course'
  BY <1>1, <1>2, <1>4 DEF Course
<1> QED
  BY <1>1, <1>2, <1>3, <1>5, Goes

LEMMA ReleaseFailsInv == ASSUME Inv, ReleaseFails PROVE Inv'
<1>1. Storage' /\ exit' = "munmap" /\ Stop(exit') /\ UNCHANGED <<id, req, cleanups>>
  BY StorageKept DEF ReleaseFails, Stop, Inv
<1>2. cleanups' \in Nat
  BY <1>1 DEF Inv, Counts
<1> QED
  BY <1>1, <1>2, Stops DEF Failures

LEMMA JudgeInv == ASSUME Inv, Judge PROVE Inv'
<1> USE DEF Inv
<1>1. /\ Storage' /\ NoPacket' /\ UNCHANGED <<heap, fate>>
      /\ Bare /\ NoPacket /\ Ending /\ id \in Ids /\ id # 0
  BY StorageKept, WordAssumption DEF Judge, Course, Counts, Ids
<1>2. Verdict \notin Failures
  BY <1>1 DEF Verdict, Expected, Ending, Failures, Counts, NoFault
<1>3. /\ req' = [cmd |-> "none", before |-> 0, result |-> "none", fault |-> NoFault]
      /\ NextId /\ UNCHANGED <<active, mapped, image, cleanups>>
  BY <1>2 DEF Judge, Idle, tracing
<1>4. cleanups <= id /\ fate[id] \in {"fresh", "given"}
  BY <1>1, WordAssumption DEF Ending, Counts, Ids
<1>5. CASE id = MaxWord
  <2>1. place' = "exit" /\ exit' = "exhausted" /\ UNCHANGED id
    BY <1>3, <1>5 DEF NextId, Stop
  <2>2. Counts'
    BY <1>1, <1>3, <2>1, WordAssumption DEF Counts, Places, Ids
  <2>3. Course' /\ BoundaryHolds' /\ NothingOutlives'
    BY <2>1 DEF Course, BoundaryHolds, NothingOutlives, Failures
  <2> QED
    BY <1>1, <2>2, <2>3
<1>6. CASE id # MaxWord
  <2>1. place' = "ready" /\ id' = id + 1 /\ id' \in Ids /\ exit' = "running"
    BY <1>1, <1>3, <1>6, WordAssumption DEF NextId, Go, Ids, Course, Judge
  <2>2. /\ \A i \in Ids : i < id' => fate[i] \in {"fresh", "given"}
        /\ \A i \in Ids : i >= id' => fate[i] = "fresh"
    BY <1>1, <1>4, <2>1, WordAssumption DEF Counts, Judge, Ids
  <2>3. Counts'
    BY <1>1, <1>3, <2>1, <2>2, WordAssumption DEF Counts, Places, Ids
  <2>4. Bare' /\ Unused' /\ cleanups' < id'
    BY <1>1, <1>3, <1>4, <2>1, <2>2 DEF Bare, Unused, Counts, Ids
  <2>5. Course'
    BY <1>1, <2>1, <2>4 DEF Course
  <2>6. BoundaryHolds'
    BY <2>1 DEF BoundaryHolds, Failures
  <2>7. \A i \in Ids : fate'[i] \in {"fresh", "given"}
    BY <1>1, <2>1, <2>2, WordAssumption DEF Ids
  <2>8. NothingOutlives'
    BY <1>1, <2>4, <2>7 DEF NothingOutlives, Bare, NoPacket, Vacant
  <2> QED
    BY <1>1, <2>3, <2>5, <2>6, <2>8
<1> QED
  BY <1>5, <1>6

-----------------------------------------------------------------------------
(* A trace, seen from its request.                                         *)

\* A trace goes from place to place with the page and the scope, and has the
\* executable while it reads it.
LEMMA TraceGoesOn ==
  ASSUME Inv, place \in {"work", "open", "symbols", "print"},
         UNCHANGED <<id, active, mapped, cleanups, packets, exit>>,
         place' \in {"work", "open", "symbols", "print", "traced"},
         image' <=> place' \in {"symbols", "print"},
         \/ UNCHANGED req /\ place' # "traced"
         \/ \E result \in {"ok", "backtrace"} : req' = [req EXCEPT !.result = result]
  PROVE  Inv'
<1> USE DEF Inv
<1>1. /\ Storage' /\ NoPacket' /\ UNCHANGED <<heap, fate>>
      /\ active = id /\ mapped /\ Unused /\ cleanups = req.before
  BY StorageKept DEF Course
<1>2. /\ Counts' /\ req'.before = req.before /\ req'.fault = req.fault
      /\ place' = "traced" => req'.result \in {"ok", "backtrace"}
  BY <1>1 DEF Counts, Places
<1>3. Unused' /\ exit' = "running"
  BY <1>1, <1>2 DEF Unused, Course
<1>4. Course'
  BY <1>1, <1>2, <1>3 DEF Course
<1> QED
  BY <1>1, <1>2, <1>4, Goes

LEMMA TraceSteps ==
  ASSUME Inv, Visit \/ Capture \/ Open \/ Symbols \/ Show \/ ShowEnds
  PROVE  Inv'
<1> USE DEF Keep, Traced, Go
<1>0. place \in {"work", "open"} => ~image
  BY DEF Inv, Course
<1>1. CASE Visit
  <2>1. image' <=> place' \in {"symbols", "print"}
    BY <1>0, <1>1 DEF Visit
  <2> QED
    BY <1>1, <2>1, TraceGoesOn DEF Visit
<1>2. CASE Capture
  <2>1. image' <=> place' \in {"symbols", "print"}
    BY <1>0, <1>2 DEF Capture
  <2> QED
    BY <1>2, <2>1, TraceGoesOn DEF Capture
<1>3. CASE Open
  BY <1>3, TraceGoesOn DEF Open
<1>4. CASE Symbols
  BY <1>4, TraceGoesOn DEF Symbols, Inv, Course
<1>5. CASE Show
  <2>1. image
    BY <1>5 DEF Show, Inv, Course
  <2> QED
    BY <1>5, <2>1, TraceGoesOn DEF Show
<1>6. CASE ShowEnds
  BY <1>6, TraceGoesOn DEF ShowEnds
<1> QED
  BY <1>1, <1>2, <1>3, <1>4, <1>5, <1>6

-----------------------------------------------------------------------------
(* A panic.                                                                *)

\* The only packet is the one the step is about.
LEMMA TheOne ==
  ASSUME NEW who, NEW calls, Carried(who, calls), NEW a \in Addresses, holder[a] # "nobody"
  PROVE  /\ heap[a] = Packets!PacketOf("worker", id) /\ holder[a] = who /\ call[a] \in calls
         /\ \A b \in Addresses \ {a} : Vacant(b)
BY DEF Carried, Vacant

\* Only what the packet at a is, and who has it, changes.
LEMMA Carries ==
  ASSUME NEW who \in {"unwinder", "pad"}, NEW calls, NEW a \in Addresses, Storage,
         \A b \in Addresses \ {a} : Vacant(b),
         heap' = [heap EXCEPT ![a] = Packets!PacketOf("worker", id')],
         holder' = [holder EXCEPT ![a] = who],
         \E c \in calls : call' = [call EXCEPT ![a] = c],
         calls \subseteq {"start", "none"}, id' \in Ids,
         fate' \in [Ids -> {"fresh", "packed", "given", "dropped"}]
  PROVE  Storage' /\ Carried(who, calls)'
<1>1. Packets!PacketOf("worker", id') \in Packets!Object
  BY DEF Packets!PacketOf, Packets!Object
<1>2. Storage'
  BY <1>1 DEF Storage
<1>3. \A b \in Addresses \ {a} : Vacant(b)'
  BY DEF Vacant, Storage
<1>4. /\ heap'[a] = Packets!PacketOf("worker", id') /\ holder'[a] = who /\ call'[a] \in calls
  BY DEF Storage
<1> QED
  BY <1>2, <1>3, <1>4 DEF Carried

\* A panic goes on: what the frames hold is still what their pads release.
LEMMA PanicGoesOn ==
  ASSUME Inv, Storage', UNCHANGED <<id, req, exit>>, cleanups' \in Nat,
         place \notin {"ready", "exit"}, place' \in {"unwind", "pad", "resume"},
         place' = "unwind" => Carried("unwinder", {"start", "none"})',
         place' = "pad" => Carried("pad", {"none"})',
         place' = "resume" => Carried("unwinder", {"none"})',
         PadsOwn', fate'[id] = "packed", req.fault = NoFault,
         \A i \in Ids \ {id} : fate'[i] = fate[i]
  PROVE  Inv'
<1> USE DEF Inv
<1>1. Counts'
  BY WordAssumption DEF Counts, Places, Ids
<1>2. Course'
  BY DEF Course
<1> QED
  BY <1>1, <1>2, Goes

\* The pads of a panic, with and without the executable.
LEMMA PadsAre ==
  /\ (<<"image">> \o <<"page">>) \o <<"scope", "catch">> = <<"image", "page", "scope", "catch">>
  /\ (<<>> \o <<"page">>) \o <<"scope", "catch">> = <<"page", "scope", "catch">>
<1> DEFINE P == {"image", "page", "scope", "catch"}
<1>1. <<"image">> \o <<"page">> = <<"image", "page">>
  <2>1. ASSUME NEW t \in Seq(P), Len(t) = 2, t[1] = "image" /\ t[2] = "page"
        PROVE  t = <<"image", "page">>
    BY <2>1
  <2> DEFINE s == <<"image">> \o <<"page">>
  <2>2. s \in Seq(P) /\ Len(s) = 2 /\ s[1] = "image" /\ s[2] = "page"
    OBVIOUS
  <2> HIDE DEF s
  <2>3. s = <<"image", "page">>
    BY <2>1, <2>2
  <2> QED
    BY <2>3 DEF s
<1>2. <<"image", "page">> \o <<"scope", "catch">> = <<"image", "page", "scope", "catch">>
  <2>1. ASSUME NEW t \in Seq(P), Len(t) = 4, t[1] = "image" /\ t[2] = "page" /\ t[3] = "scope" /\ t[4] = "catch"
        PROVE  t = <<"image", "page", "scope", "catch">>
    BY <2>1
  <2> DEFINE s == <<"image", "page">> \o <<"scope", "catch">>
  <2>2. s \in Seq(P) /\ Len(s) = 4 /\ s[1] = "image" /\ s[2] = "page" /\ s[3] = "scope" /\ s[4] = "catch"
    OBVIOUS
  <2> HIDE DEF s
  <2>3. s = <<"image", "page", "scope", "catch">>
    BY <2>1, <2>2
  <2> QED
    BY <2>3 DEF s
<1>3. <<"page">> \o <<"scope", "catch">> = <<"page", "scope", "catch">>
  <2>1. ASSUME NEW t \in Seq(P), Len(t) = 3, t[1] = "page" /\ t[2] = "scope" /\ t[3] = "catch"
        PROVE  t = <<"page", "scope", "catch">>
    BY <2>1
  <2> DEFINE s == <<"page">> \o <<"scope", "catch">>
  <2>2. s \in Seq(P) /\ Len(s) = 3 /\ s[1] = "page" /\ s[2] = "scope" /\ s[3] = "catch"
    OBVIOUS
  <2> HIDE DEF s
  <2>3. s = <<"page", "scope", "catch">>
    BY <2>1, <2>2
  <2> QED
    BY <2>3 DEF s
<1>4. <<>> \o <<"page">> = <<"page">>
  OBVIOUS
<1> QED
  BY <1>1, <1>2, <1>3, <1>4

LEMMA PanicInv == ASSUME Inv, NEW a \in Addresses, Panic(a) PROVE Inv'
<1> USE DEF Inv
<1>1. /\ active = id /\ mapped /\ NoPacket /\ Unused /\ cleanups = req.before
      /\ id \in Ids /\ active # 0 /\ (image <=> place \in {"symbols", "print"})
  BY WordAssumption DEF Panic, Course, Counts, Ids
<1>2. /\ Packets!Raise("worker", id, a, "start") /\ place' = "unwind" /\ exit' = exit
      /\ UNCHANGED <<id, active, mapped, cleanups, req, image>>
  BY <1>1 DEF Panic, Go, tracing
<1>3. /\ heap' = [heap EXCEPT ![a] = Packets!PacketOf("worker", id)]
      /\ holder' = [holder EXCEPT ![a] = "unwinder"]
      /\ call' = [call EXCEPT ![a] = "start"]
      /\ fate' = [fate EXCEPT ![id] = "packed"]
  BY <1>2 DEF Packets!Raise, Packets!Hand
<1>4. fate' \in [Ids -> {"fresh", "packed", "given", "dropped"}] /\ fate'[id] = "packed"
  BY <1>1, <1>3 DEF Storage
<1>5. Storage' /\ Carried("unwinder", {"start", "none"})'
  BY <1>1, <1>2, <1>3, <1>4, Carries DEF NoPacket
<1>6. PadsOwn'
  <2>1. CASE image
    <3>1. pads' = (<<"image">> \o <<"page">>) \o <<"scope", "catch">>
      BY <1>1, <2>1 DEF Panic
    <3>2. pads' = <<"image", "page", "scope", "catch">>
      BY <3>1, PadsAre
    <3> QED
      BY <1>1, <1>2, <2>1, <3>2 DEF PadsOwn
  <2>2. CASE ~image
    <3>1. pads' = (<<>> \o <<"page">>) \o <<"scope", "catch">>
      BY <1>1, <2>2 DEF Panic
    <3>2. pads' = <<"page", "scope", "catch">>
      BY <3>1, PadsAre
    <3> QED
      BY <1>1, <1>2, <2>2, <3>2 DEF PadsOwn
  <2> QED
    BY <2>1, <2>2
<1>7. \A i \in Ids \ {id} : fate'[i] = fate[i]
  BY <1>3 DEF Storage
<1> QED
  BY <1>1, <1>2, <1>4, <1>5, <1>6, <1>7, PanicGoesOn DEF Panic, Counts, Unused

LEMMA LostInv == ASSUME Inv, NEW a \in Addresses, Lost(a) PROVE Inv'
<1>1. exit' = "lost" /\ Stop(exit') /\ UNCHANGED <<id, req, cleanups>>
  BY DEF Lost, Stop
<1>2. UNCHANGED <<heap, fate>> /\ call' = [call EXCEPT ![a] = "none"]
      /\ holder' = [holder EXCEPT ![a] = "guard"]
  BY DEF Lost, Packets!Returned, Packets!Hand, Packets!Regained
<1>3. Storage' /\ cleanups' \in Nat
  BY <1>1, <1>2 DEF Storage, Inv, Counts
<1> QED
  BY <1>1, <1>3, Stops DEF Failures

LEMMA TrapInv == ASSUME Inv, NEW a \in Addresses, Trap(a) PROVE Inv'
<1>1. Storage' /\ exit' = "trap" /\ Stop(exit') /\ UNCHANGED <<id, req, cleanups>>
  BY StorageKept DEF Trap, Stop, Inv
<1>2. cleanups' \in Nat
  BY <1>1 DEF Inv, Counts
<1> QED
  BY <1>1, <1>2, Stops DEF Failures

\* The packet of the request changes hands, and nothing else does.
LEMMA PacketMoves ==
  ASSUME Inv, NEW a \in Addresses, place \in {"unwind", "pad", "resume"},
         UNCHANGED <<heap, fate, id>>, NEW who \in {"unwinder", "pad"},
         holder[a] # "nobody", holder' = [holder EXCEPT ![a] = who],
         call' = [call EXCEPT ![a] = "none"] \/ (UNCHANGED call /\ call[a] = "none")
  PROVE  Storage' /\ Carried(who, {"none"})'
<1> USE DEF Inv
<1>1. /\ heap[a] = Packets!PacketOf("worker", id)
      /\ \A b \in Addresses \ {a} : Vacant(b)
  BY TheOne DEF Course
<1>2. heap' = [heap EXCEPT ![a] = Packets!PacketOf("worker", id')]
  BY <1>1 DEF Storage
<1>3. call' = [call EXCEPT ![a] = "none"]
  BY DEF Storage
<1>4. id' \in Ids /\ fate' \in [Ids -> {"fresh", "packed", "given", "dropped"}]
  BY DEF Storage, Counts
<1> QED
  BY <1>1, <1>2, <1>3, <1>4, Carries

LEMMA RaisedInv == ASSUME Inv, NEW a \in Addresses, Raised(a) PROVE Inv'
<1> USE DEF Inv
<1>1. /\ place = "unwind" /\ UNCHANGED <<heap, fate, holder, local, tracing>>
      /\ holder[a] = "unwinder" /\ call' = [call EXCEPT ![a] = "none"]
  BY DEF Raised, Packets!Passed, Packets!Drops
<1>2. holder' = [holder EXCEPT ![a] = "unwinder"]
  BY <1>1 DEF Storage
<1>3. Storage' /\ Carried("unwinder", {"none"})'
  BY <1>1, <1>2, PacketMoves DEF local
<1>4. Carried("unwinder", {"start", "none"})'
  BY <1>3 DEF Carried
<1>5. PadsOwn' /\ fate[id] = "packed" /\ req.fault = NoFault
  BY <1>1 DEF Course, PadsOwn, Bare, local, tracing
<1> QED
  BY <1>1, <1>3, <1>4, <1>5, PanicGoesOn DEF local, Counts

LEMMA LandInv == ASSUME Inv, NEW a \in Addresses, Land(a) PROVE Inv'
<1> USE DEF Inv
<1>1. /\ place \in {"unwind", "resume"} /\ place' = "pad"
      /\ UNCHANGED <<heap, fate, call, id, req, exit, cleanups, active, mapped, image, pads>>
      /\ holder[a] = "unwinder" /\ call[a] = "none" /\ holder' = [holder EXCEPT ![a] = "pad"]
  BY DEF Land, Packets!Land, Packets!Hand, Go, tracing
<1>2. Storage' /\ Carried("pad", {"none"})'
  BY <1>1, PacketMoves
<1>3. PadsOwn' /\ fate[id] = "packed" /\ req.fault = NoFault
  BY <1>1 DEF Course, PadsOwn, Bare
<1> QED
  BY <1>1, <1>2, <1>3, PanicGoesOn DEF Counts

LEMMA DropInv == ASSUME Inv, NEW a \in Addresses, Drop(a) PROVE Inv'
<1> USE DEF Inv
<1>1. /\ place = "pad" /\ UNCHANGED <<heap, fate, call, id, req>>
      /\ holder[a] = "pad" /\ holder' = [holder EXCEPT ![a] = "unwinder"]
  BY DEF Drop, Packets!Resume, Packets!Hand
<1>2. /\ PadsOwn /\ fate[id] = "packed" /\ req.fault = NoFault
      /\ Carried("pad", {"none"}) /\ cleanups \in Nat /\ exit = "running"
  BY <1>1 DEF Course, Counts
<1>3. call[a] = "none"
  BY <1>1, <1>2, TheOne
<1>4. Storage' /\ Carried("unwinder", {"none"})'
  BY <1>1, <1>3, PacketMoves
<1>5. PadsOwn' /\ place' = "resume" /\ cleanups' \in Nat /\ UNCHANGED exit
  <2>1. CASE pads = <<"image", "page", "scope", "catch">>
    <3>1. Head(pads) = "image" /\ Tail(pads) = <<"page", "scope", "catch">>
      BY <2>1
    <3>2. /\ pads' = <<"page", "scope", "catch">> /\ ~image' /\ Go("resume")
          /\ UNCHANGED <<active, mapped, cleanups>>
      BY <3>1 DEF Drop, PadsLeft, Forgotten
    <3> QED
      BY <1>1, <1>2, <2>1, <3>2 DEF PadsOwn, Go
  <2>2. CASE pads = <<"page", "scope", "catch">>
    <3>1. Head(pads) = "page" /\ Tail(pads) = <<"scope", "catch">>
      BY <2>2
    <3>2. /\ pads' = <<"scope", "catch">> /\ Unmapped /\ Go("resume")
          /\ UNCHANGED <<active, image>>
      BY <3>1 DEF Drop, PadsLeft, tracing
    <3>3. ~image /\ mapped /\ active = id /\ cleanups = req.before
      BY <1>2, <2>2 DEF PadsOwn
    <3>4. ~mapped' /\ cleanups' = req.before + 1 /\ cleanups' \in Nat
      BY <3>2, <3>3, PageReleased
    <3> QED
      BY <1>1, <3>2, <3>3, <3>4 DEF PadsOwn, Go
  <2>3. CASE pads = <<"scope", "catch">>
    <3>1. Head(pads) = "scope" /\ Tail(pads) = <<"catch">>
      BY <2>3
    <3>2. /\ pads' = <<"catch">> /\ Leave("resume")
          /\ UNCHANGED <<mapped, cleanups, image>>
      BY <3>1 DEF Drop, PadsLeft, tracing
    <3>3. ~image /\ ~mapped /\ active = id /\ cleanups = req.before + 1
      BY <1>2, <2>3 DEF PadsOwn
    <3> QED
      BY <1>1, <1>2, <3>2, <3>3 DEF PadsOwn, Go, Leave, Bare
  <2>4. pads # <<"catch">>
    BY DEF Drop
  <2> QED
    BY <1>2, <2>1, <2>2, <2>3, <2>4 DEF PadsOwn
<1> QED
  BY <1>1, <1>2, <1>4, <1>5, PanicGoesOn

LEMMA CaughtInv == ASSUME Inv, NEW a \in Addresses, Caught(a) PROVE Inv'
<1> USE DEF Inv
<1>1. /\ place = "pad" /\ pads = <<"catch">> /\ holder[a] = "pad"
      /\ UNCHANGED <<call, id, active, mapped, image, cleanups>>
      /\ place' = "judge" /\ exit' = "running"
  BY DEF Caught, Packets!Catch, Go, tracing, Course
<1>2. PadsOwn /\ Carried("pad", {"none"})
  BY <1>1 DEF Course
<1>3. /\ heap[a] = Packets!PacketOf("worker", id) /\ call[a] = "none"
      /\ \A b \in Addresses \ {a} : Vacant(b)
  BY <1>1, <1>2, TheOne
<1>4. heap[a].maker = "worker" /\ heap[a].payload = id
  BY <1>3 DEF Packets!PacketOf
<1>5. Packets!Kind("worker", a) = "Local"
  BY <1>4 DEF Packets!Kind, Packets!IsRust
<1>6. /\ heap' = [heap EXCEPT ![a] = Free] /\ holder' = [holder EXCEPT ![a] = "nobody"]
      /\ fate' = [p \in Ids |-> IF p = id THEN "given" ELSE fate[p]]
  BY <1>4, <1>5 DEF Caught, Packets!Catch, Packets!Unbox, Packets!Release, Packets!Hand
<1>7. req' = [req EXCEPT !.fault = id]
  BY <1>4 DEF Caught
<1>8. Bare' /\ cleanups = req.before + 1
  BY <1>1, <1>2 DEF PadsOwn, Bare
<1>9. Storage' /\ NoPacket'
  BY <1>1, <1>3, <1>6 DEF Storage, NoPacket, Vacant
<1>10. Counts'
  BY <1>1, <1>6, <1>7, WordAssumption DEF Counts, Places, Ids, Storage
<1>11. Ending'
  BY <1>1, <1>6, <1>7, <1>8 DEF Ending, Counts
<1>12. Course'
  BY <1>1, <1>8, <1>9, <1>11 DEF Course
<1> QED
  BY <1>1, <1>9, <1>10, <1>12, Goes

LEMMA InvNext == Inv /\ [Next]_vars => Inv'
<1> SUFFICES ASSUME Inv, [Next]_vars PROVE Inv'
  OBVIOUS
<1>1. CASE UNCHANGED vars
  BY <1>1 DEF vars, local, tracing, packets, Inv, Storage, Counts, Course, BoundaryHolds,
              NothingOutlives, Bare, NoPacket, Vacant, Unused, Carried, PadsOwn, Ending
<1>2. CASE Step
  BY <1>2, QuitInv, BeginInv, EnterInv, AcquireInv, FinishInv, ReleaseFailsInv, JudgeInv,
     TraceSteps, PanicInv, LostInv, RaisedInv, LandInv, TrapInv, DropInv, CaughtInv
     DEF Step
<1> QED
  BY <1>1, <1>2 DEF Next, Ended

(***************************************************************************)
(* The boundary never contradicts itself: for every word size and every    *)
(* command line the identities run out before the count of pages wraps or  *)
(* overflows, and each request finds its own identity in its packet        *)
(* (boundary.rs:126-164, main.rs:125-130).                                 *)
(***************************************************************************)
THEOREM BoundaryNeverContradicts == Spec => []BoundaryHolds
<1>1. Inv => BoundaryHolds
  BY DEF Inv
<1> QED
  BY <1>1, InvInit, InvNext, PTL DEF Spec

(***************************************************************************)
(* However a request ended, by returning, failing or panicking at any      *)
(* moment of its trace, nothing of it is left when the next one starts     *)
(* (runtime.rs:73-84, service.rs:129-146, backtrace.rs:243-258).           *)
(***************************************************************************)
THEOREM RequestsLeaveNothing == Spec => []NothingOutlives
<1>1. Inv => NothingOutlives
  BY DEF Inv
<1> QED
  BY <1>1, InvInit, InvNext, PTL DEF Spec

-----------------------------------------------------------------------------
(* A trace, seen from its reader.                                          *)

\* What a frame that is recorded can be.
Recordable == {"return", "instruction"}

LEMMA TraceInit == Init => TraceInv
<1> SUFFICES ASSUME Init PROVE TraceInv
  OBVIOUS
<1>1. /\ trace.slots = <<>> /\ trace.truncated = FALSE /\ walked = <<>>
      /\ shown.frames = <<>> /\ shown.interior = FALSE /\ place = "ready"
  BY DEF Init, NoTrace, Blank
<1>2. Kept /\ Shows
  BY <1>1 DEF Kept, Shows
<1> QED
  BY <1>1, <1>2 DEF TraceInv, Init, Fresh, NoTrace, Blank

\* Nothing is recorded or shown.
LEMMA TraceRests ==
  ASSUME TraceInv, UNCHANGED <<trace, shown, walked>>,
         place' \in {"ready", "enter", "acquire", "judge"} => Fresh,
         place' = "work" => Fresh,
         place' \in {"unwind", "pad", "resume"} /\ ~image' => Fresh,
         place' \in {"open", "symbols"} => shown = Blank,
         place' = "traced" => req'.result # "ok"
  PROVE  TraceInv'
BY DEF TraceInv, Kept, Shows, Fresh

\* Everything of a trace is gone.
LEMMA TraceGone == Forgotten /\ place' # "traced" => TraceInv'
<1> SUFFICES ASSUME Forgotten, place' # "traced" PROVE TraceInv'
  OBVIOUS
<1>1. Fresh'
  BY DEF Forgotten, Fresh
<1>2. Kept' /\ Shows' /\ shown' = Blank
  BY <1>1 DEF Fresh, Kept, Shows, NoTrace, Blank
<1> QED
  BY <1>1, <1>2 DEF TraceInv, Fresh, NoTrace, Blank

LEMMA VisitTrace == ASSUME TraceInv, Visit PROVE TraceInv'
<1> PICK counter \in Counters : trace' = Recorded(counter)
                             /\ walked' = IF counter = "null" THEN walked ELSE Append(walked, counter)
  BY DEF Visit
<1>1. place = "work" /\ UNCHANGED <<place, req, shown, image>> /\ req.cmd = "trace"
  BY DEF Visit
<1>2. trace = [slots |-> trace.slots, truncated |-> trace.truncated]
  BY DEF TraceInv
<1>3. Kept' /\ trace' = [slots |-> trace'.slots, truncated |-> trace'.truncated]
  <2>1. CASE counter = "null"
    BY <1>2, <2>1 DEF Recorded, TraceInv, Kept
  <2>2. CASE counter # "null" /\ Len(trace.slots) = FrameLimit
    <3>1. /\ trace'.slots = trace.slots /\ trace'.truncated = TRUE
          /\ trace' = [slots |-> trace.slots, truncated |-> TRUE]
          /\ walked' = Append(walked, counter) /\ counter \in Recordable
      BY <1>2, <2>2 DEF Recorded, Counters, Recordable
    <3> QED
      BY <2>2, <3>1 DEF TraceInv, Kept, Recordable
  <2>3. CASE counter # "null" /\ Len(trace.slots) # FrameLimit
    <3>1. /\ trace'.slots = Append(trace.slots, counter) /\ trace'.truncated = trace.truncated
          /\ trace' = [slots |-> Append(trace.slots, counter), truncated |-> trace.truncated]
          /\ walked' = Append(walked, counter) /\ counter \in Recordable
      BY <1>2, <2>3 DEF Recorded, Counters, Recordable
    <3>2. ~trace.truncated /\ Len(trace.slots) = Len(walked)
      BY <2>3 DEF TraceInv, Kept
    <3> QED
      BY <3>1, <3>2 DEF TraceInv, Kept, Recordable
  <2> QED
    BY <2>1, <2>2, <2>3
<1>4. shown = Blank
  BY <1>1 DEF TraceInv
<1>5. Shows' /\ shown' = [frames |-> shown'.frames, cut |-> shown'.cut, interior |-> shown'.interior]
  BY <1>1, <1>3, <1>4 DEF Shows, Blank, Kept
<1> QED
  BY <1>1, <1>3, <1>4, <1>5 DEF TraceInv

LEMMA ShowTrace == ASSUME TraceInv, Inv, Show PROVE TraceInv'
<1>1. /\ place = "print" /\ UNCHANGED <<trace, walked>> /\ place' \in {"print", "traced"}
      /\ place' = "traced" => req'.result # "ok" /\ UNCHANGED shown
  BY DEF Show, Traced, Go, Inv, Counts
<1>2. CASE UNCHANGED shown
  BY <1>1, <1>2, TraceRests
<1>3. CASE shown' # shown
  <2> DEFINE counter == trace.slots[Len(shown.frames) + 1]
  <2>1. PICK resolved \in BOOLEAN :
          shown' = [shown EXCEPT !.frames = Append(@, counter),
                                 !.interior = @ \/ (resolved /\ counter = "return")]
    BY <1>3 DEF Show, Printed
  <2>2. shown = [frames |-> shown.frames, cut |-> shown.cut, interior |-> shown.interior]
    BY DEF TraceInv
  <2>3. /\ shown'.frames = Append(shown.frames, counter)
        /\ shown'.interior = (shown.interior \/ (resolved /\ counter = "return"))
        /\ shown' = [frames |-> shown'.frames, cut |-> shown'.cut, interior |-> shown'.interior]
    BY <2>1, <2>2
  <2>4. Len(shown.frames) < Len(trace.slots) /\ place' = "print"
    BY <1>1, <1>3 DEF Show, Printed
  <2>5. Shows'
    <3>1. counter \in Recordable
      BY <2>4 DEF TraceInv, Kept, Shows, Recordable
    <3>2. shown'.frames \in Seq(Recordable) /\ Len(shown'.frames) = Len(shown.frames) + 1
      BY <2>3, <3>1 DEF TraceInv, Shows, Recordable
    <3>3. \A k \in 1..Len(shown'.frames) : shown'.frames[k] = trace.slots[k]
      BY <2>3, <3>1, <3>2 DEF TraceInv, Shows, Recordable
    <3>4. shown'.interior => \E k \in 1..Len(shown'.frames) : shown'.frames[k] = "return"
      <4>1. CASE shown.interior
        <5>1. PICK k \in 1..Len(shown.frames) : shown.frames[k] = "return"
          BY <4>1 DEF TraceInv, Shows
        <5> QED
          BY <2>3, <3>1, <3>2, <5>1 DEF TraceInv, Shows, Recordable
      <4>2. CASE ~shown.interior
        <5>1. shown'.interior => counter = "return"
          BY <2>3, <4>2
        <5>2. shown'.frames[Len(shown.frames) + 1] = counter
          BY <2>3, <3>1 DEF TraceInv, Shows, Recordable
        <5> QED
          BY <3>2, <5>1, <5>2 DEF TraceInv, Shows, Recordable
      <4> QED
        BY <4>1, <4>2
    <3> QED
      BY <1>1, <2>4, <3>2, <3>3, <3>4 DEF Shows, Recordable, TraceInv
  <2> QED
    BY <1>1, <2>3, <2>4, <2>5 DEF TraceInv, Kept
<1> QED
  BY <1>2, <1>3

LEMMA ShowEndsTrace == ASSUME TraceInv, Inv, ShowEnds PROVE TraceInv'
<1>1. /\ place' = "traced" /\ UNCHANGED <<trace, walked>>
      /\ shown' = [shown EXCEPT !.cut = trace.truncated]
      /\ req'.result = IF shown.interior THEN "ok" ELSE "backtrace"
      /\ Len(shown.frames) = Len(trace.slots)
  BY DEF ShowEnds, Traced, Go, Printed, Inv, Counts
<1>2. shown' = [frames |-> shown.frames, cut |-> trace.truncated, interior |-> shown.interior]
  BY <1>1 DEF TraceInv
<1>3. Shows' /\ Kept'
  BY <1>1, <1>2 DEF TraceInv, Shows, Kept
<1> QED
  BY <1>1, <1>2, <1>3 DEF TraceInv

LEMMA TraceNext == TraceInv /\ Inv /\ [Next]_vars => TraceInv'
<1> SUFFICES ASSUME TraceInv, Inv, [Next]_vars PROVE TraceInv'
  OBVIOUS
<1>1. CASE UNCHANGED vars
  BY <1>1 DEF vars, local, tracing, TraceInv, Kept, Shows, Fresh
<1>2. CASE Quit \/ Begin \/ Enter \/ Acquire \/ Judge \/ ReleaseFails
  <2>1. UNCHANGED <<trace, shown, walked>>
    BY <1>2 DEF Quit, Begin, Enter, Acquire, Judge, ReleaseFails, tracing
  <2>2. /\ place \in {"ready", "enter", "acquire", "judge"} \/ place' = "exit"
        /\ place' \in {"ready", "enter", "acquire", "work", "judge", "exit"}
    BY <1>2 DEF Quit, Begin, Enter, Acquire, Judge, ReleaseFails, Stop, Go, Leave, NextId
  <2> QED
    BY <2>1, <2>2, TraceRests DEF TraceInv
<1>3. CASE Finish
  BY <1>3, TraceGone DEF Finish, Leave, Go, Stop
<1>4. CASE Visit
  BY <1>4, VisitTrace
<1>5. CASE Capture \/ Open \/ Symbols
  <2>1. /\ UNCHANGED <<trace, shown, walked>> /\ place' \in {"open", "symbols", "print", "traced"}
        /\ place' = "traced" => req'.result # "ok"
        /\ place \in {"work", "open", "symbols"}
    BY <1>5 DEF Capture, Open, Symbols, Traced, Go, Inv, Counts
  <2> QED
    BY <2>1, TraceRests DEF TraceInv
<1>6. CASE Show \/ ShowEnds
  BY <1>6, ShowTrace, ShowEndsTrace
<1>7. ASSUME NEW a \in Addresses, Panic(a) PROVE TraceInv'
  <2>1. UNCHANGED <<trace, shown, walked, image>> /\ place' \in {"unwind", "exit"}
    BY <1>7 DEF Panic, tracing, Go, Stop
  <2>2. ~image => Fresh
    BY <1>7 DEF Panic, TraceInv, Inv, Course
  <2> QED
    BY <2>1, <2>2, TraceRests
<1>8. ASSUME NEW a \in Addresses, Lost(a) \/ Raised(a) \/ Land(a) \/ Trap(a) PROVE TraceInv'
  <2>1. /\ UNCHANGED <<trace, shown, walked, image>> /\ place' \in {"unwind", "pad", "exit"}
        /\ place \in {"unwind", "pad", "resume"}
    BY <1>8 DEF Lost, Raised, Land, Trap, local, tracing, Go, Stop
  <2> QED
    BY <2>1, TraceRests DEF TraceInv
<1>9. ASSUME NEW a \in Addresses, Drop(a) PROVE TraceInv'
  <2>1. place = "pad" /\ place' \in {"resume", "exit"}
    BY <1>9 DEF Drop, Go, Leave, Stop
  <2>2. Forgotten \/ UNCHANGED <<trace, shown, walked, image>>
    BY <1>9 DEF Drop, tracing
  <2> QED
    BY <2>1, <2>2, TraceGone, TraceRests DEF TraceInv
<1>10. ASSUME NEW a \in Addresses, Caught(a) PROVE TraceInv'
  <2>1. /\ place = "pad" /\ place' = "judge" /\ UNCHANGED <<trace, shown, walked, image>>
        /\ pads = <<"catch">>
    BY <1>10 DEF Caught, Go, tracing
  <2>2. ~image
    BY <2>1 DEF Inv, Course, PadsOwn, Bare
  <2> QED
    BY <2>1, <2>2, TraceRests DEF TraceInv
<1> QED
  BY <1>1, <1>2, <1>3, <1>4, <1>5, <1>6, <1>7, <1>8, <1>9, <1>10 DEF Next, Step, Ended

\* A sequence that agrees with another as far as it goes is a prefix of it.
LEMMA PrefixIs ==
  ASSUME NEW C, NEW s \in Seq(C), NEW t \in Seq(C), Len(s) <= Len(t),
         \A k \in 1..Len(s) : s[k] = t[k]
  PROVE  IsPrefix(s, t)
BY DEF IsPrefix

(***************************************************************************)
(* A trace that succeeds shows what the walk reported, in order, says      *)
(* whether frames were left out and has a caller that resolved: for every  *)
(* buffer and stack (backtrace.rs:124-157, 300-345, 401-410).              *)
(***************************************************************************)
THEOREM TracesAreHonest == Spec => []TraceIsHonest
<1>1. TraceInv => TraceIsHonest
  <2> SUFFICES ASSUME TraceInv, place = "traced", req.result = "ok"
               PROVE  /\ IsPrefix(shown.frames, walked)
                      /\ shown.cut <=> shown.frames # walked
                      /\ "return" \in ToSet(shown.frames)
    BY DEF TraceIsHonest
  <2>1. /\ shown.frames \in Seq(Recordable) /\ walked \in Seq(Recordable)
        /\ Len(shown.frames) = Len(trace.slots) /\ Len(shown.frames) <= Len(walked)
        /\ \A k \in 1..Len(shown.frames) : shown.frames[k] = walked[k]
        /\ shown.cut <=> Len(shown.frames) < Len(walked)
        /\ \E k \in 1..Len(shown.frames) : shown.frames[k] = "return"
    BY DEF TraceInv, Kept, Shows, Recordable
  <2>2. IsPrefix(shown.frames, walked)
    BY <2>1, PrefixIs
  <2>3. shown.cut <=> shown.frames # walked
    BY <2>1
  <2>4. "return" \in ToSet(shown.frames)
    BY <2>1 DEF ToSet
  <2> QED
    BY <2>2, <2>3, <2>4
<1> QED
  BY <1>1, TraceInit, TraceNext, InvInit, InvNext, PTL DEF Spec
=============================================================================
