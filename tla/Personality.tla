---------------------------- MODULE Personality ----------------------------
(***************************************************************************)
(* A frame's personality under the requests of an unwinder                 *)
(* (desenredo-personality, protocol.rs and context.rs): raw arguments are  *)
(* decoded into one phase, the language policy answers it, and an install  *)
(* is prepared in the frame's context.  The unwinder may ask about several *)
(* exceptions and in any order; a frame is asked no more once a landing    *)
(* pad is installed in it, until it stands at another call site.           *)
(***************************************************************************)
EXTENDS Policy

CONSTANTS
  NoException,   \* a null exception pointer
  Tables,        \* the tables frames can have
  Requests       \* the raw callbacks they receive

ASSUME TablesAssumption ==
  /\ NoException \notin Exceptions
  /\ \A t \in Tables : Readable(t)

VARIABLES
  table,    \* what the frame's metadata says of its call site
  ctx,      \* its context: is the pad the instruction pointer, and the two
            \* data registers the pad reads
  reply     \* reason code of the last callback

\* History, read by no action: the last request, and what the last search
\* for each exception answered.
VARIABLES asked, promise

vars == <<table, ctx, reply, asked, promise>>

Bits == {"SEARCH", "CLEANUP", "HANDLER", "FORCE", "END", "UNKNOWN"}
Phases == {"SEARCH", "CLEANUP", "HANDLER", "FORCE"}

Request == [supported : BOOLEAN,   \* protocol version 1
            actions   : SUBSET Bits,
            exc       : Exceptions \cup {NoException},
            context   : BOOLEAN,   \* nonnull context
            same      : BOOLEAN]   \* class argument equals the header's

ASSUME RequestsAssumption == Requests \subseteq Request

\* Nothing has been asked yet.
Nothing == [supported |-> TRUE, actions |-> {}, exc |-> NoException,
            context |-> TRUE, same |-> TRUE]

Untouched == [pad |-> FALSE, exc |-> NoException, sel |-> 0]

-----------------------------------------------------------------------------
(* decode: only four combinations of phase bits name a phase; END is       *)
(* ignored.                                                                *)

Coherent(r) ==
  /\ r.supported /\ r.exc # NoException /\ r.context /\ r.same
  /\ "UNKNOWN" \notin r.actions

Asks(r, phase) == Coherent(r) /\ r.actions \cap Phases = phase

IsSearch(r)  == Asks(r, {"SEARCH"})
IsHandler(r) == Asks(r, {"CLEANUP", "HANDLER"})
IsForced(r)  == Asks(r, {"CLEANUP", "FORCE"})
IsCleanup(r) == Asks(r, {"CLEANUP"}) \/ IsForced(r)

\* Mutant: a malformed request is always answered in terms of phase one.
RefusalPhaseOne(r) == Says("FATAL1")

\* dispatch's answer to a request that names no phase.
Refusal(r) == IF "CLEANUP" \in r.actions THEN Says("FATAL2") ELSE Says("FATAL1")

Answer(t, r) ==
  IF IsSearch(r) THEN SearchSays(t, r.exc)
  ELSE IF IsHandler(r) THEN HandlerSays(t, r.exc)
  ELSE IF IsCleanup(r) THEN CleanupSays(t, IsForced(r))
  ELSE Refusal(r)

-----------------------------------------------------------------------------
Init ==
  /\ table \in Tables
  /\ ctx = Untouched
  /\ reply = "NONE"
  /\ asked = Nothing
  /\ promise = [e \in Exceptions |-> Says("NONE")]

\* CleanupFrame::install.
Install(e, sel) == [pad |-> TRUE, exc |-> e, sel |-> sel]

\* One callback.
Ask(r) ==
  /\ ~ctx.pad
  /\ LET a == Answer(table, r)
     IN  /\ reply' = a.code
         /\ ctx' = IF a.code = "INSTALL" THEN Install(r.exc, a.sel) ELSE ctx
         /\ asked' = r
         /\ promise' = IF IsSearch(r) THEN [promise EXCEPT ![r.exc] = a] ELSE promise
  /\ UNCHANGED table

\* The frame runs on and stands at another call site.
Move(t) ==
  /\ table' = t
  /\ ctx' = Untouched
  /\ reply' = "NONE"
  /\ asked' = Nothing
  /\ promise' = [e \in Exceptions |-> Says("NONE")]

Next ==
  \/ \E r \in Requests : Ask(r)
  \/ \E t \in Tables : Move(t)

Spec == Init /\ [][Next]_vars

-----------------------------------------------------------------------------
(* Properties.                                                             *)

Codes == {"NONE", "CONTINUE", "HANDLER", "INSTALL", "FATAL1", "FATAL2"}

TypeOK ==
  /\ table \in Tables
  /\ ctx \in [pad : BOOLEAN, exc : Exceptions \cup {NoException}, sel : Index]
  /\ reply \in Codes
  /\ asked \in Request
  /\ promise \in [Exceptions -> [code : Codes, sel : Index]]

(***************************************************************************)
(* Phase two keeps what phase one said.  The frame that was promised as    *)
(* handler installs its pad, with the selector of the clause the search    *)
(* matched, though the table is scanned again; a frame the search passed   *)
(* never stops an unforced cleanup, though C++ then reads the chain past   *)
(* the point where a search may stop (desenredo-rust personality.rs:       *)
(* 86-134, desenredo-cxx personality.rs:233-339, 444-517).                 *)
(***************************************************************************)
PromisesKept ==
  reply # "NONE" =>
    /\ IsHandler(asked) /\ promise[asked.exc].code = "HANDLER"
         => ctx = [pad |-> TRUE, exc |-> asked.exc, sel |-> promise[asked.exc].sel]
    /\ IsCleanup(asked) /\ ~IsForced(asked) /\ promise[asked.exc].code = "CONTINUE"
         => reply \in {"CONTINUE", "INSTALL"}

\* The clause that catches e: it accepts e and no clause before it stops.
Catches(t, e, i) ==
  /\ Verdict(t, e, t.kinds[i]) = "yes"
  /\ \A j \in 1..(i - 1) : Verdict(t, e, t.kinds[j]) = "no"

(***************************************************************************)
(* A landing pad is entered only with a selector its code has a branch     *)
(* for: the number of the clause that accepts the exception, or zero where *)
(* the compiler emitted cleanup code.  A catch-only pad never runs as a    *)
(* cleanup, and a filter is never taken for the catch of the same number   *)
(* (desenredo-cxx personality.rs:196-207, 246-260, 479-484).               *)
(***************************************************************************)
PadHasABranch ==
  ctx.pad =>
    /\ table.shape \in {"actionless", "chained"}
    /\ table.lang = "rust" => ctx.sel = 0
    /\ table.lang = "cxx" =>
         IF ctx.sel = 0 THEN table.shape = "actionless" \/ HasCleanup(table)
         ELSE \E i \in DOMAIN table.kinds :
                table.kinds[i] = ctx.sel /\ Catches(table, ctx.exc, i)

(***************************************************************************)
(* Whatever a request holds, the code that answers it belongs to the phase *)
(* it names: nothing is installed or fatal in phase two's terms unless     *)
(* cleanup was asked, and no handler is announced when it was              *)
(* (protocol.rs:247-307, 335-357).                                         *)
(***************************************************************************)
AnswerFitsPhase ==
  reply # "NONE" =>
    reply \in IF "CLEANUP" \in asked.actions THEN {"CONTINUE", "INSTALL", "FATAL2"}
              ELSE {"CONTINUE", "HANDLER", "FATAL1"}
=============================================================================
