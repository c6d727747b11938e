----------------------------- MODULE Propagation -----------------------------
(***************************************************************************)
(* What the propagation engine of desenredo-unwind promises, without       *)
(* cursors, keys and header words: each propagation settles, when it       *)
(* starts, which frames it will enter, and enters them newest first until  *)
(* it is caught or given up.  Unwind is shown to implement this.           *)
(***************************************************************************)
EXTENDS Naturals

CONSTANTS
  MaxDepth,     \* bound: frames the stack can hold
  Exceptions    \* exception objects the program can raise

VARIABLES
  status,   \* what the program is doing with each exception object
  at,       \* the frame whose landing pad holds the exception, or 0
  forced,   \* it is propagated by a forced unwind
  target,   \* the frame that will catch it
  todo      \* the frames whose pads it has still to enter

promised == <<status, at, forced, target, todo>>

Init ==
  /\ status = [e \in Exceptions |-> "idle"]
  /\ at = [e \in Exceptions |-> 0]
  /\ forced = [e \in Exceptions |-> FALSE]
  /\ target = [e \in Exceptions |-> 0]
  /\ todo = [e \in Exceptions |-> {}]

\* A search finds a handler: the pads above it will run, then the handler.
Choose(e) ==
  /\ status[e] \in {"idle", "handler"}
  /\ UNCHANGED <<status, at>>
  /\ \E h \in 1..MaxDepth :
       /\ target' = [target EXCEPT ![e] = h]
       /\ \E above \in SUBSET ((h + 1)..MaxDepth) : todo' = [todo EXCEPT ![e] = above \cup {h}]
  /\ forced' = [forced EXCEPT ![e] = FALSE]

\* A forced unwind will run every pad there is.
Force(e) ==
  /\ status[e] = "idle"
  /\ UNCHANGED <<status, at, target>>
  /\ forced' = [forced EXCEPT ![e] = TRUE]
  /\ \E pads \in SUBSET (1..MaxDepth) : todo' = [todo EXCEPT ![e] = pads]

\* The pad of frame i, the newest of those to run, gets control.  A normal
\* propagation is caught in its target only; a forced one that is rethrown may
\* also enter a pad of the frame that rethrows it.
Enters(e, i, outcome) ==
  /\ \A j \in todo[e] : j <= i
  /\ IF forced[e] THEN i \in todo[e] \cup {at[e]}
     ELSE i \in todo[e] /\ (outcome = "handler" <=> i = target[e])

\* The frames above are gone, with the exceptions their pads were holding.
Land(e, i, outcome) ==
  LET gone == {x \in Exceptions \ {e} : at[x] > i}
  IN  /\ status[e] # "lost" /\ Enters(e, i, outcome)
      /\ status' = [x \in Exceptions |-> IF x = e THEN outcome
                                         ELSE IF x \in gone THEN "lost" ELSE status[x]]
      /\ at' = [x \in Exceptions |-> IF x = e THEN i ELSE IF x \in gone THEN 0 ELSE at[x]]
      /\ todo' = [x \in Exceptions |-> IF x = e THEN todo[e] \ {i}
                                       ELSE IF x \in gone THEN {} ELSE todo[x]]
      /\ target' = [x \in Exceptions |-> IF x \in gone THEN 0 ELSE target[x]]
      /\ forced' = [x \in Exceptions |-> IF x \in gone THEN FALSE ELSE forced[x]]

\* Nothing is promised any more.
Release(e) ==
  /\ forced' = [forced EXCEPT ![e] = FALSE]
  /\ target' = [target EXCEPT ![e] = 0]
  /\ todo' = [todo EXCEPT ![e] = {}]

\* The call that started the propagation returns an error.
GiveUp(e) == at[e] = 0 /\ UNCHANGED <<status, at>> /\ Release(e)

\* The handler is done with the exception.
Finish(e) ==
  /\ status[e] = "handler"
  /\ status' = [status EXCEPT ![e] = "idle"]
  /\ at' = [at EXCEPT ![e] = 0]
  /\ Release(e)

Step(e) ==
  \/ Choose(e) \/ Force(e)
  \/ \E i \in 1..MaxDepth, outcome \in {"cleanup", "handler"} : Land(e, i, outcome)
  \/ GiveUp(e) \/ Finish(e)

Next == promised' # promised /\ \E e \in Exceptions : Step(e)

Spec == Init /\ [][Next]_promised
=============================================================================
