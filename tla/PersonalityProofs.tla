------------------------- MODULE PersonalityProofs -------------------------
(* Theorems about the language policies and the personality protocol, for  *)
(* every table, matcher and selector width.                                *)
EXTENDS Personality, FiniteSetTheorems, TLAPS

(***************************************************************************)
(* A nonempty set of naturals has a least element.  (An initial segment    *)
(* that is minimal for inclusion ends in it.)                              *)
(***************************************************************************)
LEMMA Least ==
  ASSUME NEW S, S \subseteq Nat, S # {}
  PROVE  \E i \in S : \A j \in S : i <= j
  <1> DEFINE T == {0..i : i \in S}
             R == StrictSubsetOrdering(Nat)
  <1>1. IsWellFoundedOn(R, FiniteSubsetsOf(Nat))
    BY FS_StrictSubsetOrderingWellFounded, Zenon
  <1>2. T \subseteq FiniteSubsetsOf(Nat) /\ T # {}
    <2>1. \A i \in S : IsFiniteSet(0..i)
      BY FS_Interval
    <2>2. \A i \in S : 0..i \in FiniteSubsetsOf(Nat)
      BY <2>1 DEF FiniteSubsetsOf
    <2>3. QED
      BY <2>2
  <1>3. \E x \in T : \A y \in T : ~(<<y, x>> \in R)
    <2> HIDE DEF R, T
    <2>1. QED
      BY <1>1, <1>2, WFMin, Zenon
  <1>4. PICK i \in S : \A j \in S : <<0..j, 0..i>> \notin R
    BY <1>3
  <1>5. ASSUME NEW j \in S, j < i
        PROVE  FALSE
    <2>1. /\ 0..j \subseteq Nat /\ 0..i \subseteq Nat /\ 0..j \subseteq 0..i
          /\ i \in 0..i /\ i \notin 0..j
      BY <1>5
    <2>2. QED
      BY <1>4, <2>1 DEF StrictSubsetOrdering
  <1>6. QED
    BY <1>5

-----------------------------------------------------------------------------
(* Facts about the policies.                                               *)

LEMMA TableFacts ==
  ASSUME NEW t \in Tables
  PROVE  /\ t.lang \in {"rust", "cxx"} /\ t.shape \in Shapes
         /\ t.kinds \in Seq(Index) /\ t.end \in {"end", "bad"}
         /\ \A i \in DOMAIN t.kinds : t.kinds[i] \in Index
  <1>1. t \in Table
    BY TablesAssumption DEF Readable
  <1>2. QED
    BY <1>1 DEF Table

\* A clause's selector is its discriminator, so no two clauses share one.
LEMMA SelectorNames ==
  ASSUME NEW k \in Index
  PROVE  Selector(k) = k
  BY SelectorAssumption DEF Selector, Raw, Index

\* The scan ends at the first record that does not say "no".
LEMMA FirstStop ==
  ASSUME NEW t \in Tables, NEW e, Stops(t, e) # {}
  PROVE  /\ First(Stops(t, e)) \in DOMAIN t.kinds
         /\ \A j \in 1..(First(Stops(t, e)) - 1) : Verdict(t, e, t.kinds[j]) = "no"
  <1> DEFINE S == Stops(t, e)
  <1>1. DOMAIN t.kinds = 1..Len(t.kinds) /\ Len(t.kinds) \in Nat
    BY TableFacts
  <1>2. S \subseteq Nat /\ S \subseteq DOMAIN t.kinds /\ S # {}
    BY <1>1 DEF Stops
  <1>3. \E i \in S : \A j \in S : i <= j
    <2> HIDE DEF S
    <2>1. QED
      BY <1>2, Least
  <1>4. First(S) \in S /\ \A j \in S : First(S) <= j
    <2> HIDE DEF S
    <2>1. QED
      BY <1>3, Zenon DEF First
  <1>5. ASSUME NEW j \in 1..(First(S) - 1)
        PROVE  Verdict(t, e, t.kinds[j]) = "no"
    <2>1. j \in DOMAIN t.kinds /\ ~(First(S) <= j)
      <3> HIDE DEF S
      <3>1. First(S) \in 1..Len(t.kinds)
        BY <1>1, <1>2, <1>4
      <3>2. QED
        BY <1>1, <3>1
    <2>2. j \notin S
      BY <1>4, <2>1
    <2>3. QED
      BY <2>1, <2>2 DEF Stops
  <1>6. QED
    BY <1>2, <1>4, <1>5

Acts == {"None", "Cleanup", "Catch", "Filter", "Handler", "Terminate", "Err"}

\* What reading the chain for cleanups returns.
LEMMA CleanFacts ==
  ASSUME NEW t \in Tables
  PROVE  /\ Clean(t).act \in {"None", "Cleanup", "Terminate", "Err"}
         /\ Clean(t).sel = 0
         /\ Clean(t).act = "Cleanup" =>
              t.shape = "actionless" \/ (t.shape = "chained" /\ HasCleanup(t))
  BY TableFacts DEF Clean, Does, Unchained, Shapes

LEMMA RustFacts ==
  ASSUME NEW t \in Tables
  PROVE  /\ RustScan(t).act \in Acts \ {"Handler"}
         /\ RustScan(t).sel = 0
         /\ RustScan(t).act \in {"Cleanup", "Catch", "Filter"} =>
              t.shape \in {"actionless", "chained"}
  BY TableFacts DEF RustScan, RustKind, Does, Unchained, Shapes, Acts

\* What the scan for a handler returns.
LEMMA CxxFacts ==
  ASSUME NEW t \in Tables, NEW e
  PROVE  \/ CxxScan(t, e) = Clean(t)
         \/ CxxScan(t, e) = Does("Err")
         \/ /\ CxxScan(t, e).act = "Handler" /\ t.shape = "chained"
            /\ \E i \in DOMAIN t.kinds : /\ CxxScan(t, e).sel = t.kinds[i]
                                         /\ Catches(t, e, i)
  <1>1. CASE t.shape # "chained" \/ Stops(t, e) = {}
    BY <1>1 DEF CxxScan
  <1>2. CASE t.shape = "chained" /\ Stops(t, e) # {}
    <2> DEFINE i == First(Stops(t, e))
    <2>1. /\ i \in DOMAIN t.kinds
          /\ \A j \in 1..(i - 1) : Verdict(t, e, t.kinds[j]) = "no"
      BY <1>2, FirstStop
    <2>2. Selector(t.kinds[i]) = t.kinds[i]
      BY <2>1, TableFacts, SelectorNames
    <2>3. CASE Verdict(t, e, t.kinds[i]) = "yes"
      <3>1. CxxScan(t, e) = [act |-> "Handler", sel |-> t.kinds[i]]
        BY <1>2, <2>2, <2>3 DEF CxxScan
      <3>2. Catches(t, e, i)
        BY <2>1, <2>3 DEF Catches
      <3>3. QED
        BY <1>2, <2>1, <3>1, <3>2
    <2>4. CASE Verdict(t, e, t.kinds[i]) # "yes"
      BY <1>2, <2>4 DEF CxxScan
    <2>5. QED
      BY <2>3, <2>4
  <1>3. QED
    BY <1>1, <1>2

-----------------------------------------------------------------------------
(* What the two phases say of one table.                                   *)

LEMMA SearchCodes ==
  ASSUME NEW t \in Tables, NEW e
  PROVE  /\ SearchSays(t, e).code \in {"CONTINUE", "HANDLER", "FATAL1"}
         /\ SearchSays(t, e).sel \in Index
  <1>1. Scan(t, e).sel \in Index
    BY CleanFacts, RustFacts, CxxFacts, TableFacts, SelectorAssumption
    DEF Scan, Does, Index
  <1>2. QED
    BY <1>1, SelectorAssumption DEF SearchSays, Says, Index

LEMMA PhaseTwoCodes ==
  ASSUME NEW t \in Tables, NEW e, NEW forced \in BOOLEAN
  PROVE  /\ HandlerSays(t, e).code \in {"INSTALL", "FATAL2"}
         /\ CleanupSays(t, forced).code \in {"CONTINUE", "INSTALL", "FATAL2"}
         /\ HandlerSays(t, e).sel \in Index /\ CleanupSays(t, forced).sel \in Index
  <1>1. Scan(t, e).sel \in Index /\ Work(t).sel \in Index
    BY CleanFacts, RustFacts, CxxFacts, TableFacts, SelectorAssumption
    DEF Scan, Work, Does, Index
  <1>2. QED
    BY <1>1, SelectorAssumption DEF HandlerSays, CleanupSays, Installs, Says, Index

\* A frame the search chose installs, with the selector the search matched.
LEMMA HandlerAgrees ==
  ASSUME NEW t, NEW e, SearchSays(t, e).code = "HANDLER"
  PROVE  HandlerSays(t, e) = [code |-> "INSTALL", sel |-> SearchSays(t, e).sel]
  BY DEF SearchSays, HandlerSays, Installs, Says

\* A frame the search passed can be cleaned.
LEMMA CleanupAgrees ==
  ASSUME NEW t \in Tables, NEW e, SearchSays(t, e).code = "CONTINUE"
  PROVE  CleanupSays(t, FALSE).code \in {"CONTINUE", "INSTALL"}
  <1>1. Scan(t, e).act \notin Handling \cup Stuck
    BY DEF SearchSays, Says
  <1>2. Scan(t, e) = Work(t)
    <2>1. CASE t.lang = "rust"
      BY <2>1 DEF Scan, Work
    <2>2. CASE t.lang = "cxx"
      <3>1. CxxScan(t, e).act \notin {"Err", "Handler"}
        BY <1>1, <2>2 DEF Scan, Handling, Stuck
      <3>2. CxxScan(t, e) = Clean(t)
        BY <3>1, CxxFacts DEF Does
      <3>3. QED
        BY <2>2, <3>2 DEF Scan, Work
    <2>3. QED
      BY <2>1, <2>2, TableFacts
  <1>3. QED
    BY <1>1, <1>2 DEF CleanupSays, Installs, Says

\* What an installed pad finds in its selector register.
Branch(t, e, sel) ==
  /\ t.shape \in {"actionless", "chained"}
  /\ t.lang = "rust" => sel = 0
  /\ t.lang = "cxx" =>
       IF sel = 0 THEN t.shape = "actionless" \/ HasCleanup(t)
       ELSE \E i \in DOMAIN t.kinds : t.kinds[i] = sel /\ Catches(t, e, i)

LEMMA HandlerBranch ==
  ASSUME NEW t \in Tables, NEW e, HandlerSays(t, e).code = "INSTALL"
  PROVE  Branch(t, e, HandlerSays(t, e).sel)
  <1>1. Scan(t, e).act \in Handling /\ HandlerSays(t, e).sel = Scan(t, e).sel
    BY DEF HandlerSays, Installs, Says
  <1>2. CASE t.lang = "rust"
    BY <1>1, <1>2, RustFacts DEF Scan, Handling, Branch, Acts
  <1>3. CASE t.lang = "cxx"
    <2>1. /\ t.shape = "chained"
          /\ \E i \in DOMAIN t.kinds : /\ CxxScan(t, e).sel = t.kinds[i]
                                       /\ Catches(t, e, i)
      BY <1>1, <1>3, CxxFacts, CleanFacts DEF Scan, Handling, Does
    <2>2. PICK i \in DOMAIN t.kinds : CxxScan(t, e).sel = t.kinds[i] /\ Catches(t, e, i)
      BY <2>1
    <2>3. t.kinds[i] # 0
      BY <2>2 DEF Catches, Verdict
    <2>4. QED
      BY <1>1, <1>3, <2>1, <2>2, <2>3 DEF Branch, Scan
  <1>4. QED
    BY <1>2, <1>3, TableFacts

LEMMA CleanupBranch ==
  ASSUME NEW t \in Tables, NEW e, NEW forced \in BOOLEAN,
         CleanupSays(t, forced).code = "INSTALL"
  PROVE  Branch(t, e, CleanupSays(t, forced).sel)
  <1>1. /\ Work(t).act \notin Stuck \cup {"None"}
        /\ CleanupSays(t, forced).sel = Work(t).sel
    BY DEF CleanupSays, Installs, Says
  <1>2. CASE t.lang = "rust"
    BY <1>1, <1>2, RustFacts DEF Work, Stuck, Branch, Acts
  <1>3. CASE t.lang = "cxx"
    <2>1. Clean(t).act = "Cleanup" /\ Clean(t).sel = 0
      BY <1>1, <1>3, CleanFacts DEF Work, Stuck
    <2>2. QED
      BY <1>1, <1>3, <2>1, CleanFacts DEF Work, Branch
  <1>4. QED
    BY <1>2, <1>3, TableFacts

-----------------------------------------------------------------------------
(* The answer to a request, whatever it holds.                             *)

LEMMA AnswerCodes ==
  ASSUME NEW t \in Tables, NEW r \in Request
  PROVE  /\ Answer(t, r).code \in
              IF "CLEANUP" \in r.actions THEN {"CONTINUE", "INSTALL", "FATAL2"}
              ELSE {"CONTINUE", "HANDLER", "FATAL1"}
         /\ Answer(t, r).sel \in Index
         /\ Answer(t, r).code = "INSTALL" =>
              r.exc \in Exceptions /\ Branch(t, r.exc, Answer(t, r).sel)
  <1>1. CASE IsSearch(r)
    <2>1. "CLEANUP" \notin r.actions /\ Answer(t, r) = SearchSays(t, r.exc)
      BY <1>1 DEF IsSearch, Asks, Phases, Answer
    <2>2. QED
      BY <2>1, SearchCodes
  <1>2. CASE IsHandler(r)
    <2>1. /\ "CLEANUP" \in r.actions /\ Answer(t, r) = HandlerSays(t, r.exc)
          /\ r.exc \in Exceptions
      BY <1>2 DEF IsHandler, IsSearch, Asks, Phases, Answer, Coherent, Request
    <2>2. /\ HandlerSays(t, r.exc).code \in {"INSTALL", "FATAL2"}
          /\ HandlerSays(t, r.exc).sel \in Index
      BY PhaseTwoCodes
    <2>3. QED
      BY <2>1, <2>2, HandlerBranch
  <1>3. CASE IsCleanup(r) /\ ~IsSearch(r) /\ ~IsHandler(r)
    <2>1. PICK forced \in BOOLEAN : forced = IsForced(r)
      BY DEF IsForced, Asks, Coherent, Request
    <2>2. /\ "CLEANUP" \in r.actions /\ Answer(t, r) = CleanupSays(t, forced)
          /\ r.exc \in Exceptions
      BY <1>3, <2>1 DEF IsCleanup, IsForced, Asks, Phases, Answer, Coherent, Request
    <2>3. /\ CleanupSays(t, forced).code \in {"CONTINUE", "INSTALL", "FATAL2"}
          /\ CleanupSays(t, forced).sel \in Index
      BY PhaseTwoCodes
    <2>4. QED
      BY <2>2, <2>3, CleanupBranch
  <1>4. CASE ~IsSearch(r) /\ ~IsHandler(r) /\ ~IsCleanup(r)
    BY <1>4, SelectorAssumption DEF Answer, Refusal, Says, Index
  <1>5. QED
    BY <1>1, <1>2, <1>3, <1>4

-----------------------------------------------------------------------------
(* The invariant: the promises are what the searches of this table say,    *)
(* and the context and the reply are those of the last request.            *)

Remembers ==
  \A e \in Exceptions : promise[e] \in {Says("NONE"), SearchSays(table, e)}

Replied ==
  IF reply = "NONE" THEN ctx = Untouched
  ELSE /\ reply = Answer(table, asked).code
       /\ ctx = IF reply = "INSTALL" THEN Install(asked.exc, Answer(table, asked).sel)
                ELSE Untouched

Inv ==
  /\ table \in Tables
  /\ asked \in Request
  /\ promise \in [Exceptions -> [code : Codes, sel : Index]]
  /\ Remembers
  /\ Replied

LEMMA NothingAsked ==
  /\ Nothing \in Request
  /\ Says("NONE") \in [code : Codes, sel : Index]
  /\ [e \in Exceptions |-> Says("NONE")] \in [Exceptions -> [code : Codes, sel : Index]]
  BY SelectorAssumption DEF Nothing, Request, Says, Codes, Index

LEMMA InitInv == Init => Inv
  BY NothingAsked DEF Init, Inv, Remembers, Replied

LEMMA AskInv ==
  ASSUME Inv, NEW r \in Requests, Ask(r)
  PROVE  Inv'
  <1>1. r \in Request /\ table \in Tables /\ UNCHANGED table /\ asked' = r
    BY RequestsAssumption DEF Inv, Ask
  <1>2. /\ Answer(table, r).code \in Codes \ {"NONE"}
        /\ reply' = Answer(table, r).code
    BY <1>1, AnswerCodes DEF Ask, Codes
  <1>3. ctx = Untouched
    BY DEF Inv, Replied, Ask, Install
  <1>4. Replied'
    <2>1. Answer(table, asked)' = Answer(table, r)
      BY <1>1
    <2>2. ctx' = IF reply' = "INSTALL" THEN Install(r.exc, Answer(table, r).sel) ELSE Untouched
      BY <1>2, <1>3 DEF Ask
    <2>3. QED
      BY <1>1, <1>2, <2>1, <2>2 DEF Replied
  <1>5. CASE IsSearch(r)
    <2>1. /\ Answer(table, r) = SearchSays(table, r.exc) /\ r.exc \in Exceptions
          /\ promise' = [promise EXCEPT ![r.exc] = SearchSays(table, r.exc)]
      BY <1>1, <1>5 DEF Ask, Answer, IsSearch, Asks, Coherent, Request
    <2>2. SearchSays(table, r.exc) \in [code : Codes, sel : Index]
      <3>1. SearchSays(table, r.exc) = [code |-> SearchSays(table, r.exc).code,
                                        sel |-> SearchSays(table, r.exc).sel]
        BY DEF SearchSays, Says
      <3>2. QED
        BY <1>1, <3>1, SearchCodes DEF Codes
    <2>3. promise' \in [Exceptions -> [code : Codes, sel : Index]]
      BY <2>1, <2>2 DEF Inv
    <2>4. Remembers'
      BY <1>1, <2>1 DEF Inv, Remembers
    <2>5. QED
      BY <1>1, <1>4, <2>3, <2>4 DEF Inv
  <1>6. CASE ~IsSearch(r)
    <2>1. promise' = promise
      BY <1>6 DEF Ask
    <2>2. Remembers'
      BY <1>1, <2>1 DEF Inv, Remembers
    <2>3. QED
      BY <1>1, <1>4, <2>1, <2>2 DEF Inv
  <1>7. QED
    BY <1>5, <1>6

LEMMA NextInv == Inv /\ [Next]_vars => Inv'
  <1> SUFFICES ASSUME Inv, [Next]_vars
               PROVE  Inv'
    OBVIOUS
  <1>1. ASSUME NEW r \in Requests, Ask(r)
        PROVE  Inv'
    BY <1>1, AskInv
  <1>2. ASSUME NEW t \in Tables, Move(t)
        PROVE  Inv'
    BY <1>2, NothingAsked DEF Move, Inv, Remembers, Replied
  <1>3. CASE UNCHANGED vars
    BY <1>3 DEF vars, Inv, Remembers, Replied
  <1>4. QED
    BY <1>1, <1>2, <1>3 DEF Next

\* The invariant holds in every state (protocol.rs:318-358).
THEOREM InvHolds == Spec => []Inv
  <1>1. QED
    BY InitInv, NextInv, PTL DEF Spec

-----------------------------------------------------------------------------
(* The properties.                                                         *)

\* Type correctness: every callback answers a code of its protocol, and a
\* selector register holds a value isize can represent (protocol.rs:318-358).
THEOREM TypeCorrect == Spec => []TypeOK
  <1>1. Inv => TypeOK
    <2> SUFFICES ASSUME Inv PROVE TypeOK
      OBVIOUS
    <2>1. /\ table \in Tables /\ asked \in Request
          /\ promise \in [Exceptions -> [code : Codes, sel : Index]]
          /\ Answer(table, asked).code \in Codes
          /\ Answer(table, asked).sel \in Index
          /\ Answer(table, asked).code = "INSTALL" => asked.exc \in Exceptions
      BY AnswerCodes DEF Inv, Codes
    <2>2. reply \in Codes
      BY <2>1 DEF Inv, Replied, Codes
    <2>3. ctx \in [pad : BOOLEAN, exc : Exceptions \cup {NoException}, sel : Index]
      <3>1. Untouched \in [pad : BOOLEAN, exc : Exceptions \cup {NoException}, sel : Index]
        BY SelectorAssumption DEF Untouched, Index
      <3>2. CASE reply = "INSTALL"
        <4>1. asked.exc \in Exceptions
          BY <2>1, <3>2 DEF Inv, Replied
        <4>2. ctx = [pad |-> TRUE, exc |-> asked.exc, sel |-> Answer(table, asked).sel]
          BY <3>2 DEF Inv, Replied, Install
        <4>3. QED
          BY <2>1, <4>1, <4>2
      <3>3. QED
        BY <3>1, <3>2 DEF Inv, Replied
    <2>4. QED
      BY <2>1, <2>2, <2>3 DEF TypeOK
  <1>2. QED
    BY <1>1, InvHolds, PTL

\* Phase two keeps phase one's promises, whatever the matcher and the table
\* (rust personality.rs:86-134, cxx personality.rs:444-517).
THEOREM PromisesAreKept == Spec => []PromisesKept
  <1>1. Inv => PromisesKept
    <2> SUFFICES ASSUME Inv, reply # "NONE"
                 PROVE  /\ IsHandler(asked) /\ promise[asked.exc].code = "HANDLER"
                             => ctx = [pad |-> TRUE, exc |-> asked.exc,
                                       sel |-> promise[asked.exc].sel]
                        /\ IsCleanup(asked) /\ ~IsForced(asked)
                           /\ promise[asked.exc].code = "CONTINUE"
                             => reply \in {"CONTINUE", "INSTALL"}
      BY DEF PromisesKept
    <2>1. ASSUME IsHandler(asked), promise[asked.exc].code = "HANDLER"
          PROVE  ctx = [pad |-> TRUE, exc |-> asked.exc, sel |-> promise[asked.exc].sel]
      <3>1. asked.exc \in Exceptions /\ Answer(table, asked) = HandlerSays(table, asked.exc)
        BY <2>1 DEF Inv, IsHandler, IsSearch, Asks, Phases, Answer, Coherent, Request
      <3>2. promise[asked.exc] = SearchSays(table, asked.exc)
        BY <2>1, <3>1 DEF Inv, Remembers, Says
      <3>3. Answer(table, asked) = [code |-> "INSTALL", sel |-> promise[asked.exc].sel]
        BY <2>1, <3>1, <3>2, HandlerAgrees
      <3>4. QED
        BY <3>3 DEF Inv, Replied, Install
    <2>2. ASSUME IsCleanup(asked), ~IsForced(asked), promise[asked.exc].code = "CONTINUE"
          PROVE  reply \in {"CONTINUE", "INSTALL"}
      <3>1. /\ asked.exc \in Exceptions
            /\ Answer(table, asked) = CleanupSays(table, FALSE)
        <4>1. asked.exc \in Exceptions /\ ~IsSearch(asked) /\ ~IsHandler(asked)
          BY <2>2 DEF Inv, IsCleanup, IsHandler, IsForced, IsSearch, Asks, Phases,
                      Coherent, Request
        <4>2. Answer(table, asked) = CleanupSays(table, IsForced(asked))
          BY <2>2, <4>1 DEF Answer
        <4>3. CleanupSays(table, IsForced(asked)) = CleanupSays(table, FALSE)
          BY <2>2 DEF CleanupSays
        <4>4. QED
          BY <4>1, <4>2, <4>3
      <3>2. promise[asked.exc] = SearchSays(table, asked.exc)
        BY <2>2, <3>1 DEF Inv, Remembers, Says
      <3>3. QED
        BY <2>2, <3>1, <3>2, CleanupAgrees DEF Inv, Replied
    <2>3. QED
      BY <2>1, <2>2
  <1>2. QED
    BY <1>1, InvHolds, PTL

\* A landing pad is entered only with a selector it has a branch for (cxx
\* personality.rs:196-207, 246-260, 424-441).
THEOREM PadsHaveBranches == Spec => []PadHasABranch
  <1>1. Inv => PadHasABranch
    <2> SUFFICES ASSUME Inv, ctx.pad
                 PROVE  Branch(table, ctx.exc, ctx.sel)
      BY DEF PadHasABranch, Branch
    <2>1. reply = "INSTALL" /\ ctx = Install(asked.exc, Answer(table, asked).sel)
      BY DEF Inv, Replied, Untouched
    <2>2. ctx.exc = asked.exc /\ ctx.sel = Answer(table, asked).sel
      BY <2>1 DEF Install
    <2>3. QED
      BY <2>1, <2>2, AnswerCodes DEF Inv, Replied
  <1>2. QED
    BY <1>1, InvHolds, PTL

\* Malformed or not, a request is answered in terms of its own phase
\* (protocol.rs:247-307, 335-357).
THEOREM AnswersFitPhase == Spec => []AnswerFitsPhase
  <1>1. Inv => AnswerFitsPhase
    BY AnswerCodes DEF Inv, Replied, AnswerFitsPhase
  <1>2. QED
    BY <1>1, InvHolds, PTL

(***************************************************************************)
(* The engine's assumption on call sites is met by both languages: what    *)
(* SiteOf makes of any table installs a catching pad or fails as handler,  *)
(* and catches in a cleanup only where it catches everything (runtime.rs:  *)
(* 853-862; rust personality.rs:98-117, cxx personality.rs:465-490).       *)
(***************************************************************************)
THEOREM SitesFit ==
  ASSUME NEW t \in Tables
  PROVE  /\ SiteOf(t).handle # "CLEAN"
         /\ SiteOf(t).clean = "CATCH" => SiteOf(t).catches = Exceptions
         /\ \A e \in SiteOf(t).catches : e \notin SiteOf(t).fails
  <1> DEFINE caught == {e \in Exceptions : SearchSays(t, e).code = "HANDLER"}
  <1>1. /\ SiteOf(t).handle \in {"CATCH", "FATAL"}
        /\ SiteOf(t).clean = Pad(CleanupSays(t, FALSE), Work(t).act)
        /\ SiteOf(t).catches = caught
        /\ SiteOf(t).fails = {e \in Exceptions : SearchSays(t, e).code = "FATAL1"}
    BY DEF SiteOf
  <1>2. ASSUME SiteOf(t).clean = "CATCH"
        PROVE  caught = Exceptions
    <2>1. Work(t).act \notin Stuck \cup {"None", "Cleanup"}
      BY <1>1, <1>2 DEF Pad, CleanupSays, Installs, Says
    <2>2. t.lang = "rust" /\ RustScan(t).act \in Handling
      BY <2>1, TableFacts, CleanFacts, RustFacts DEF Work, Stuck, Acts, Handling
    <2>3. \A e \in Exceptions : SearchSays(t, e).code = "HANDLER"
      BY <2>2 DEF SearchSays, Scan
    <2>4. QED
      BY <2>3
  <1>3. QED
    BY <1>1, <1>2
=============================================================================
