------------------------------- MODULE Policy -------------------------------
(***************************************************************************)
(* What the two language personalities (desenredo-rust, desenredo-cxx)     *)
(* make of one frame's table, and what they answer in each phase.  Pure:   *)
(* neither crate keeps state between two callbacks.                        *)
(***************************************************************************)
EXTENDS Integers, Sequences

CONSTANTS
  Exceptions,   \* exception objects
  MaxSelector,  \* isize::MAX
  Match         \* Match[e, k]: the runtime matcher's verdict on clause k

\* Action discriminators are signed: 0 is a cleanup record, k > 0 the catch of
\* type k, k < 0 the filter list -k.
Index == -(MaxSelector + 1)..MaxSelector

(***************************************************************************)
(* What the personality finds for the frame's program counter:             *)
(*   absent      the frame has no LSDA                                     *)
(*   broken      no usable LSDA, or its call-site table is malformed       *)
(*   uncovered   no call site contains the counter                         *)
(*   padless     a call site without a landing pad                         *)
(*   actionless  a landing pad and no action chain                         *)
(*   chained     a landing pad and an action chain                         *)
(* "kinds" is what the chain yields; it ends or meets an unreadable record *)
(* ("bad").  "types" holds the type indices the RTTI table can decode.     *)
(***************************************************************************)
Shapes == {"absent", "broken", "uncovered", "padless", "actionless", "chained"}

Table == [lang : {"rust", "cxx"}, shape : Shapes, kinds : Seq(Index),
          end : {"end", "bad"}, types : SUBSET Nat]

ASSUME SelectorAssumption == MaxSelector \in Nat \ {0}

\* A chain that ends has yielded a record.
Readable(t) ==
  /\ t \in Table
  /\ t.shape = "chained" /\ t.end = "end" => t.kinds # <<>>

ASSUME MatchAssumption ==
  Match \in [Exceptions \X (Index \ {0}) -> {"yes", "no", "fail"}]

Does(a) == [act |-> a, sel |-> 0]

\* Both crates treat a frame without a chain alike.
Unchained == [absent |-> "None", broken |-> "Err", uncovered |-> "Terminate",
              padless |-> "None", actionless |-> "Cleanup"]

-----------------------------------------------------------------------------
(* desenredo-rust: only the first record of the chain counts.              *)

RustKind(k) == IF k = 0 THEN "Cleanup" ELSE IF k > 0 THEN "Catch" ELSE "Filter"

RustScan(t) ==
  IF t.shape # "chained" THEN Does(Unchained[t.shape])
  ELSE IF t.kinds = <<>> THEN Does("Err")
  ELSE Does(RustKind(t.kinds[1]))

-----------------------------------------------------------------------------
(* desenredo-cxx: clauses are tested in chain order.                       *)

Raw(k) == IF k < 0 THEN -k ELSE k

\* The landing-pad selector of a clause: filters are negative.
Selector(k) == IF k < 0 THEN -Raw(k) ELSE Raw(k)

\* A clause whose type cannot be decoded or whose selector does not fit is
\* never shown to the matcher; a cleanup record tests nothing.
Verdict(t, e, k) ==
  IF k = 0 THEN "no"
  ELSE IF (k > 0 /\ k \notin t.types) \/ Raw(k) > MaxSelector THEN "fail"
  ELSE Match[e, k]

HasCleanup(t) == \E i \in DOMAIN t.kinds : t.kinds[i] = 0

\* Mutant: any chain has a pad to run.
CleanAnyPad(t) ==
  IF t.shape # "chained" THEN Does(Unchained[t.shape])
  ELSE IF t.end = "bad" THEN Does("Err") ELSE Does("Cleanup")

\* Cleanup work of a call site, without matching: the whole chain is read.
Clean(t) ==
  IF t.shape # "chained" THEN Does(Unchained[t.shape])
  ELSE IF t.end = "bad" THEN Does("Err")
  ELSE IF HasCleanup(t) THEN Does("Cleanup") ELSE Does("None")

\* The records at which the scan for e stops, and the first of them.
Stops(t, e) == {i \in DOMAIN t.kinds : Verdict(t, e, t.kinds[i]) # "no"}
First(S) == CHOOSE i \in S : \A j \in S : i <= j

\* A scan that does not stop has read the whole chain, as "clean" does.
CxxScan(t, e) ==
  IF t.shape # "chained" \/ Stops(t, e) = {} THEN Clean(t)
  ELSE LET k == t.kinds[First(Stops(t, e))]
       IN  IF Verdict(t, e, k) = "yes"
           THEN [act |-> "Handler", sel |-> Selector(k)] ELSE Does("Err")

-----------------------------------------------------------------------------
(* What is answered, and the selector of the pad if it is INSTALL.         *)

Says(c) == [code |-> c, sel |-> 0]
Installs(a) == [code |-> "INSTALL", sel |-> a.sel]

Scan(t, e) == IF t.lang = "rust" THEN RustScan(t) ELSE CxxScan(t, e)
Work(t) == IF t.lang = "rust" THEN RustScan(t) ELSE Clean(t)

\* Every action a scan returns, by what each phase makes of it.
Handling == {"Catch", "Filter", "Handler"}
Stuck == {"Terminate", "Err"}

SearchSays(t, e) ==
  LET a == Scan(t, e)
  IN  IF a.act \in Handling THEN [code |-> "HANDLER", sel |-> a.sel]
      ELSE IF a.act \in Stuck THEN Says("FATAL1") ELSE Says("CONTINUE")

\* A filter pad is not run on behalf of a forced unwind (Rust only: Clean
\* never returns a filter); C++ does not look at "forced".
CleanupSays(t, forced) ==
  LET a == Work(t)
  IN  IF a.act \in Stuck THEN Says("FATAL2")
      ELSE IF a.act = "None" \/ (a.act = "Filter" /\ forced) THEN Says("CONTINUE")
      ELSE Installs(a)

\* Mutant: a filter site is not installed as the handler.
HandlerSaysNoFilter(t, e) ==
  LET a == Scan(t, e)
  IN  IF a.act \in {"Catch", "Handler"} THEN Installs(a) ELSE Says("FATAL2")

HandlerSays(t, e) ==
  LET a == Scan(t, e)
  IN  IF a.act \in Handling THEN Installs(a) ELSE Says("FATAL2")

-----------------------------------------------------------------------------
(* The same answers as the propagation engine sees them (Unwind!Site).     *)

\* What the installed pad does with the exception.
Pad(answer, act) ==
  IF answer.code # "INSTALL"
  THEN IF answer.code = "CONTINUE" THEN "CONTINUE" ELSE "FATAL"
  ELSE IF act = "Cleanup" THEN "CLEAN" ELSE "CATCH"

\* The engine asks a frame as handler only for an exception its search
\* accepted, so one answer stands for all of them.
SiteOf(t) ==
  LET caught == {e \in Exceptions : SearchSays(t, e).code = "HANDLER"}
  IN  [catches |-> caught,
       fails   |-> {e \in Exceptions : SearchSays(t, e).code = "FATAL1"},
       clean   |-> Pad(CleanupSays(t, FALSE), Work(t).act),
       handle  |-> IF \E e \in caught : HandlerSays(t, e).code = "INSTALL"
                   THEN "CATCH" ELSE "FATAL",
       force   |-> Pad(CleanupSays(t, TRUE), Work(t).act),
       fault   |-> "none",
       signal  |-> FALSE]
=============================================================================
