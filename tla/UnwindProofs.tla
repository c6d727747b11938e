---------------------------- MODULE UnwindProofs ----------------------------
(* Theorems about Unwind, for every stack depth, set of exceptions, set of *)
(* call sites and set of stop functions that satisfy its assumptions; and  *)
(* that it implements Propagation.                                         *)
EXTENDS Unwind, TLAPS

USE DepthAssumption, ExceptionAssumption, StopAssumption

-----------------------------------------------------------------------------
(* Facts about the operators.                                              *)

\* A key is a machine word, and names one frame reached with one relation:
\* this is what lets phase two recognise the frame of phase one.
LEMMA KeyIsWord == \A i \in Frames, b \in BOOLEAN : Key(i, b) \in Nat
  BY DEF Key, Sp, Frames

LEMMA KeyInjective ==
  ASSUME NEW i \in Frames, NEW j \in Frames, NEW b \in BOOLEAN, NEW c \in BOOLEAN,
         Key(i, b) = Key(j, c)
  PROVE  i = j /\ b = c
  <1>1. CASE b /\ c
    BY <1>1 DEF Key, Sp, Frames
  <1>2. CASE ~b /\ ~c
    BY <1>2 DEF Key, Sp, Frames
  <1>3. CASE b # c
    BY <1>3 DEF Key, Sp, Frames
  <1>4. QED
    BY <1>1, <1>2, <1>3

\* The sites the program uses are records of answers without trampolines.
LEMMA SiteFacts ==
  /\ \A s \in Sites : s \in Site /\ ~s.signal /\ s.handle # "CLEAN"
                      /\ (s.clean = "CATCH" => s.catches = Exceptions)
  /\ \A s \in PadSites : s \in Sites /\ s.clean \notin {"CLEAN", "CATCH"}
                         /\ s.force \notin {"CLEAN", "CATCH"}
  /\ Plain \in Sites /\ Plain \in Site /\ Trampoline \in Site
  /\ Trampoline.signal /\ Trampoline.clean = "CONTINUE"
  /\ Trampoline.force = "CONTINUE" /\ Trampoline.handle = "CONTINUE"
  /\ Trampoline.catches = {}
  /\ Plain.clean = "CONTINUE" /\ ~Plain.signal
  BY SiteAssumption DEF Site, Plain, Trampoline

\* What any site on the stack is known to be.
LEMMA OnStack ==
  ASSUME TypeOK, NEW i \in Frames
  PROVE  /\ site[i] \in Sites \cup {Trampoline}
         /\ site[i].signal \in BOOLEAN
         /\ site[i].signal <=> site[i] = Trampoline
         /\ site[i].handle # "CLEAN"
         /\ site[i].clean = "CATCH" => site[i].catches = Exceptions
         /\ site[i].clean \in {"CLEAN", "CATCH"} => ~site[i].signal
         /\ site[i].handle \in {"CLEAN", "CATCH"} => ~site[i].signal
         /\ site[i].force \in {"CLEAN", "CATCH"} => ~site[i].signal
  <1>1. site[i] \in Sites \cup {Trampoline}
    BY DEF TypeOK
  <1>2. CASE site[i] \in Sites
    <2>1. site[i] \in Site /\ ~site[i].signal /\ site[i].handle # "CLEAN"
          /\ (site[i].clean = "CATCH" => site[i].catches = Exceptions)
      BY <1>2, SiteFacts
    <2>2. site[i].signal \in BOOLEAN
      BY <2>1 DEF Site
    <2>3. site[i] # Trampoline
      BY <2>1, SiteFacts
    <2>4. QED
      BY <1>1, <2>1, <2>2, <2>3
  <1>3. CASE site[i] = Trampoline
    BY <1>1, <1>3, SiteFacts
  <1>4. QED
    BY <1>1, <1>2, <1>3

-----------------------------------------------------------------------------
(* Type correctness.                                                       *)

LEMMA InitType == Init => TypeOK
  <1> SUFFICES ASSUME Init PROVE TypeOK
    OBVIOUS
  <1>1. depth \in Frames /\ site \in [Frames -> Sites \cup {Trampoline}]
    BY SiteFacts DEF Init, Frames
  <1>2. <<0, 0>> \in Words
    BY DEF Words
  <1>3. /\ words \in [Exceptions -> Words] /\ forced \in [Exceptions -> Words]
        /\ stop \in Words
    BY <1>2 DEF Init
  <1>4. /\ mode \in Walking \cup {"run", "trap"} /\ entry \in Entries
        /\ exc \in Exceptions \cup {NoException} /\ pos \in 0..MaxDepth
        /\ goal \in Nat /\ result \in Reasons
    BY DEF Init, Entries, Reasons
  <1>5. /\ status \in [Exceptions -> {"idle", "cleanup", "handler", "lost"}]
        /\ at \in [Exceptions -> 0..MaxDepth]
        /\ chosen \in [Exceptions -> 0..MaxDepth]
        /\ due \in [Exceptions -> SUBSET Frames]
    BY DEF Init
  <1>6. before \in BOOLEAN
    BY Zenon DEF Init
  <1>7. QED
    BY <1>1, <1>3, <1>4, <1>5, <1>6 DEF TypeOK

\* The entries of the unwinder put the walk on the caller's frame.
LEMMA BeginType ==
  ASSUME TypeOK, NEW kind \in Entries, NEW m \in Walking,
         NEW e \in Exceptions \cup {NoException}, NEW s \in Sites, Begin(kind, m, e, s)
  PROVE  /\ depth' \in Frames
         /\ site' \in [Frames -> Sites \cup {Trampoline}]
         /\ status' \in [Exceptions -> {"idle", "cleanup", "handler", "lost"}]
         /\ at' \in [Exceptions -> 0..MaxDepth]
         /\ mode' \in Walking \cup {"run", "trap"}
         /\ entry' \in Entries
         /\ exc' \in Exceptions \cup {NoException}
         /\ pos' \in 0..MaxDepth
         /\ before' \in BOOLEAN
         /\ result' \in Reasons
  <1>1. depth \in Frames /\ pos' \in 0..MaxDepth
    BY DEF TypeOK, Begin, Frames
  <1>0. before' \in BOOLEAN
    BY Zenon DEF Begin
  <1>2. site' \in [Frames -> Sites \cup {Trampoline}]
    BY <1>1 DEF TypeOK, Begin
  <1>3. QED
    BY <1>0, <1>1, <1>2 DEF TypeOK, Begin, Reasons

LEMMA ForgetType ==
  ASSUME TypeOK, NEW S, Forget(S)
  PROVE  /\ chosen' \in [Exceptions -> 0..MaxDepth]
         /\ due' \in [Exceptions -> SUBSET Frames]
         /\ forced' \in [Exceptions -> Words]
  BY DEF TypeOK, Forget, Words, Frames

LEMMA AnswerType ==
  ASSUME TypeOK, NEW r \in Reasons, Answer(r)
  PROVE  TypeOK'
  <1>1. /\ chosen' \in [Exceptions -> 0..MaxDepth]
        /\ due' \in [Exceptions -> SUBSET Frames]
        /\ forced' \in [Exceptions -> Words]
    <2>1. CASE UNCHANGED history
      BY <2>1 DEF TypeOK, history
    <2>2. CASE Forget({exc})
      BY <2>2, ForgetType
    <2>3. QED
      BY <2>1, <2>2 DEF Answer
  <1>2. stop' \in Words /\ entry' \in Entries /\ mode' \in Walking \cup {"run", "trap"}
        /\ result' \in Reasons
    BY DEF Answer, Leave, Words, Entries, Reasons
  <1>3. UNCHANGED <<depth, site, status, at, words>>
    BY DEF Answer, program
  <1>4. exc' \in Exceptions \cup {NoException} /\ pos' \in 0..MaxDepth /\ goal' \in Nat
    BY DEF Answer, Leave
  <1>5. before' \in BOOLEAN
    BY Zenon DEF Answer, Leave
  <1>6. QED
    BY <1>1, <1>2, <1>3, <1>4, <1>5 DEF TypeOK

LEMMA InstallType ==
  ASSUME TypeOK, exc \in Exceptions, pos > 0, NEW pad, Install(pad)
  PROVE  TypeOK'
  <1>1. depth' \in Frames /\ site' \in [Frames -> Sites \cup {Trampoline}]
    BY SiteFacts DEF TypeOK, Install, Truncate, Frames
  <1>2. /\ status' \in [Exceptions -> {"idle", "cleanup", "handler", "lost"}]
        /\ at' \in [Exceptions -> 0..MaxDepth]
    BY DEF TypeOK, Install
  <1>3. /\ chosen' \in [Exceptions -> 0..MaxDepth]
        /\ due' \in [Exceptions -> SUBSET Frames]
        /\ forced' \in [Exceptions -> Words]
    BY DEF TypeOK, Install, Words
  <1>4. stop' \in Words /\ entry' \in Entries /\ mode' \in Walking \cup {"run", "trap"}
        /\ result' \in Reasons /\ words' = words
    BY DEF Install, Leave, Words, Entries, Reasons
  <1>5. exc' \in Exceptions \cup {NoException} /\ pos' \in 0..MaxDepth /\ goal' \in Nat
    BY DEF Install, Leave
  <1>6. before' \in BOOLEAN
    BY Zenon DEF Install, Leave
  <1>7. QED
    BY <1>1, <1>2, <1>3, <1>4, <1>5, <1>6 DEF TypeOK

LEMMA AdvanceType ==
  ASSUME TypeOK, pos > 0, Advance
  PROVE  TypeOK'
  <1>1. pos \in Frames
    BY DEF TypeOK, Frames
  <1>2. pos' \in 0..MaxDepth /\ before' \in BOOLEAN
    BY <1>1, OnStack DEF Advance, TypeOK
  <1>3. QED
    BY <1>2 DEF TypeOK, Advance, program, history

\* A truncated stack is still a stack of sites.
LEMMA TruncateType ==
  ASSUME TypeOK, NEW i
  PROVE  Truncate(i) \in [Frames -> Sites \cup {Trampoline}]
  BY SiteFacts DEF TypeOK, Truncate

LEMMA WordPairs ==
  /\ \A f \in StopFns, p \in Params : ForcedWords(f, p) \in Words /\ ~IsNormal(ForcedWords(f, p))
  /\ \A k \in Nat : NormalWords(k) \in Words /\ IsNormal(NormalWords(k))
                    /\ NormalWords(k)[2] = k
  /\ <<0, 0>> \in Words
  /\ \A w \in Words : w[1] \in Nat /\ w[2] \in Nat /\ (~IsNormal(w) => w # <<0, 0>>)
  BY DEF ForcedWords, NormalWords, Words, IsNormal

LEMMA ProgramType ==
  ASSUME TypeOK, StackOK, Program
  PROVE  TypeOK'
  <1>1. CASE Return
    <2>1. depth' \in Frames
      <3>1. depth - 1 \in Frames
        BY <1>1 DEF Return, TypeOK, Frames
      <3>2. site[depth - 1].signal => depth - 1 > 1
        BY <3>1 DEF StackOK
      <3>3. QED
        BY <1>1, <3>1, <3>2 DEF Return, TypeOK, Frames
    <2>2. site' \in [Frames -> Sites \cup {Trampoline}]
      BY <1>1, TruncateType DEF Return
    <2>3. QED
      BY <1>1, <2>1, <2>2 DEF Return, TypeOK, history, Reasons
  <1>2. ASSUME NEW s \in Sites, Call(s)
        PROVE  TypeOK'
    <2>1. depth' \in Frames /\ site' \in [Frames -> Sites \cup {Trampoline}]
      BY <1>2 DEF Call, TypeOK, Frames
    <2>2. QED
      BY <1>2, <2>1 DEF Call, TypeOK, history, Reasons
  <1>3. ASSUME NEW s \in Sites, Signal(s)
        PROVE  TypeOK'
    <2>1. depth' \in Frames /\ site' \in [Frames -> Sites \cup {Trampoline}]
      BY <1>3 DEF Signal, TypeOK, Frames
    <2>2. QED
      BY <1>3, <2>1 DEF Signal, TypeOK, history, Reasons
  <1>4. ASSUME NEW s \in Sites, Trace(s)
        PROVE  TypeOK'
    <2>1. Begin("trace", "trace", NoException, s)
      BY <1>4 DEF Trace
    <2>2. "trace" \in Entries /\ "trace" \in Walking
      BY DEF Entries, Walking
    <2>3. QED
      BY <1>4, <2>1, <2>2, BeginType DEF Trace, TypeOK, history
  <1>5. ASSUME NEW e \in Exceptions, EndCatch(e)
        PROVE  TypeOK'
    <2>1. /\ chosen' \in [Exceptions -> 0..MaxDepth]
          /\ due' \in [Exceptions -> SUBSET Frames]
          /\ forced' \in [Exceptions -> Words]
      BY <1>5, ForgetType DEF EndCatch
    <2>2. /\ status' \in [Exceptions -> {"idle", "cleanup", "handler", "lost"}]
          /\ at' \in [Exceptions -> 0..MaxDepth]
      BY <1>5 DEF EndCatch, TypeOK
    <2>0. <<0, 0>> \in Words /\ words[e] \in Words
      BY WordPairs DEF TypeOK
    <2>3. words' \in [Exceptions -> Words]
      BY <1>5, <2>0 DEF EndCatch, TypeOK
    <2>4. QED
      BY <1>5, <2>1, <2>2, <2>3 DEF EndCatch, TypeOK, Reasons
  <1>6. ASSUME NEW e \in Exceptions, NEW s \in PadSites, Resume(e, s)
        PROVE  TypeOK'
    <2>1. s \in Sites /\ "resume" \in Entries /\ "normal" \in Walking /\ "force" \in Walking
      BY SiteFacts DEF Entries, Walking
    <2>2. words[e] \in Words /\ words[e][2] \in Nat /\ <<0, 0>> \in Words
      BY WordPairs DEF TypeOK
    <2>3. CASE Begin("resume", "normal", e, s)
      <3>1. goal' \in Nat /\ stop' \in Words
        BY <1>6, <2>2 DEF Resume
      <3>2. QED
        BY <1>6, <2>1, <2>3, <3>1, BeginType DEF Resume, TypeOK, history
    <2>4. CASE Begin("resume", "force", e, s)
      <3>1. goal' \in Nat /\ stop' \in Words
        BY <1>6, <2>2 DEF Resume
      <3>2. QED
        BY <1>6, <2>1, <2>4, <3>1, BeginType DEF Resume, TypeOK, history
    <2>5. QED
      BY <1>6, <2>3, <2>4 DEF Resume
  <1>7. ASSUME NEW e \in Exceptions, NEW s \in Sites, Raise(e, s)
        PROVE  TypeOK'
    <2>1. "raise" \in Entries /\ "search" \in Walking
      BY DEF Entries, Walking
    <2>2. QED
      BY <1>7, <2>1, BeginType DEF Raise, TypeOK, history
  <1>8. ASSUME NEW e \in Exceptions, NEW s \in Sites, Rethrow(e, s)
        PROVE  TypeOK'
    <2>1. "rethrow" \in Entries /\ "search" \in Walking /\ "force" \in Walking
      BY DEF Entries, Walking
    <2>0. <<0, 0>> \in Words /\ words[e] \in Words
      BY WordPairs DEF TypeOK
    <2>2. stop' \in Words
      BY <1>8, <2>0 DEF Rethrow
    <2>3. CASE Begin("rethrow", "search", e, s)
      BY <1>8, <2>1, <2>2, <2>3, BeginType DEF Rethrow, TypeOK, history
    <2>4. CASE Begin("rethrow", "force", e, s)
      BY <1>8, <2>1, <2>2, <2>4, BeginType DEF Rethrow, TypeOK, history
    <2>5. QED
      BY <1>8, <2>3, <2>4 DEF Rethrow
  <1>9. ASSUME NEW e \in Exceptions, NEW s \in Sites, NEW f \in StopFns, NEW p \in Params,
               ForcedUnwind(e, s, f, p)
        PROVE  TypeOK'
    <2>1. "force" \in Entries /\ "force" \in Walking
      BY DEF Entries, Walking
    <2>2. ForcedWords(f, p) \in Words /\ <<f, p>> \in Words
      BY WordPairs DEF ForcedWords
    <2>3. words' \in [Exceptions -> Words] /\ stop' \in Words /\ forced' \in [Exceptions -> Words]
      BY <1>9, <2>2 DEF ForcedUnwind, TypeOK
    <2>4. due' \in [Exceptions -> SUBSET Frames]
      BY <1>9 DEF ForcedUnwind, TypeOK, Frames
    <2>5. QED
      BY <1>9, <2>1, <2>3, <2>4, BeginType DEF ForcedUnwind, TypeOK
  <1>10. ASSUME NEW kind \in {"raise", "force", "rethrow", "resume"}, NullException(kind)
         PROVE  TypeOK'
    BY <1>10 DEF NullException, TypeOK, program, history, Reasons
  <1>11. QED
    BY <1>1, <1>2, <1>3, <1>4, <1>5, <1>6, <1>7, <1>8, <1>9, <1>10 DEF Program

LEMMA UnwinderType ==
  ASSUME TypeOK, WalkOK, Unwinder
  PROVE  TypeOK'
  <1>0. /\ "END" \in Reasons /\ "FATAL1" \in Reasons /\ "FATAL2" \in Reasons
        /\ mode \in {"search", "normal", "force"} => exc \in Exceptions
    BY DEF Reasons, WalkOK, PropagatedOK, TypeOK
  <1>1. CASE SearchEnd
    BY <1>0, <1>1, AnswerType DEF SearchEnd
  <1>2. CASE SearchAdvance
    BY <1>2, AdvanceType DEF SearchAdvance, Resolved
  <1>3. CASE SearchFound
    <2>1. pos \in Frames /\ before \in BOOLEAN /\ depth \in Frames /\ exc \in Exceptions
      BY <1>0, <1>3 DEF SearchFound, Named, Resolved, TypeOK, Frames
    <2>2. goal' \in Nat /\ Key(pos, before) \in Nat
      BY <1>3, <2>1, KeyIsWord DEF SearchFound
    <2>3. words' \in [Exceptions -> Words]
      <3>1. NormalWords(Key(pos, before)) \in Words
        BY <2>2, WordPairs
      <3>2. QED
        BY <1>3, <3>1 DEF SearchFound, TypeOK
    <2>4. /\ chosen' \in [Exceptions -> 0..MaxDepth]
          /\ due' \in [Exceptions -> SUBSET Frames]
      BY <1>3, <2>1 DEF SearchFound, TypeOK, Frames
    <2>5. forced' \in [Exceptions -> Words]
      <3>1. <<0, 0>> \in Words
        BY WordPairs
      <3>2. QED
        BY <1>3, <3>1 DEF SearchFound, TypeOK
    <2>6. before' \in BOOLEAN
      BY <1>3, Zenon DEF SearchFound
    <2>7. mode' \in Walking \cup {"run", "trap"} /\ pos' \in 0..MaxDepth
      BY <1>3, <2>1 DEF SearchFound, Walking, Frames
    <2>8. QED
      BY <1>3, <2>2, <2>3, <2>4, <2>5, <2>6, <2>7 DEF SearchFound, TypeOK, program
  <1>4. CASE SearchFail
    BY <1>0, <1>4, AnswerType DEF SearchFail
  <1>5. CASE NormalAdvance
    BY <1>5, AdvanceType DEF NormalAdvance, Named, Resolved
  <1>6. CASE NormalInstall
    BY <1>0, <1>6, InstallType DEF NormalInstall, Named, Resolved
  <1>7. CASE NormalFail
    BY <1>0, <1>7, AnswerType DEF NormalFail
  <1>8. CASE ForceStopped
    BY <1>0, <1>8, AnswerType DEF ForceStopped
  <1>9. CASE ForceEnd
    BY <1>0, <1>9, AnswerType DEF ForceEnd
  <1>10. CASE ForceAdvance
    BY <1>10, AdvanceType DEF ForceAdvance, Resolved
  <1>11. CASE ForceInstall
    BY <1>0, <1>11, InstallType DEF ForceInstall, Resolved
  <1>12. CASE ForceFail
    BY <1>0, <1>12, AnswerType DEF ForceFail
  <1>13. CASE TraceEnd
    BY <1>0, <1>13, AnswerType DEF TraceEnd
  <1>14. CASE TraceAdvance
    BY <1>14, AdvanceType DEF TraceAdvance, Resolved
  <1>15. CASE TraceFail
    BY <1>0, <1>15, AnswerType DEF TraceFail
  <1>16. QED
    BY <1>1, <1>2, <1>3, <1>4, <1>5, <1>6, <1>7, <1>8, <1>9, <1>10, <1>11, <1>12,
       <1>13, <1>14, <1>15 DEF Unwinder, SearchWalk, NormalWalk, ForceWalk, TraceWalk

LEMMA NextType ==
  ASSUME TypeOK, StackOK, WalkOK, [Next]_vars
  PROVE  TypeOK'
  <1>1. CASE Program
    BY <1>1, ProgramType
  <1>2. CASE Unwinder
    BY <1>2, UnwinderType
  <1>3. CASE Trapped \/ UNCHANGED vars
    BY <1>3 DEF Trapped, TypeOK, vars, program, walk, history
  <1>4. QED
    BY <1>1, <1>2, <1>3 DEF Next

-----------------------------------------------------------------------------
(* The stack.                                                              *)

LEMMA BeginStack ==
  ASSUME TypeOK, StackOK, NEW kind, NEW m, NEW e, NEW s \in Sites, Begin(kind, m, e, s)
  PROVE  StackOK'
  <1>1. depth \in Frames /\ site \in [Frames -> Sites \cup {Trampoline}] /\ ~s.signal
    BY SiteFacts DEF TypeOK
  <1>2. depth' = depth /\ site' = [site EXCEPT ![depth] = s]
    BY DEF Begin
  <1>3. ASSUME NEW i \in Frames PROVE i # depth => site'[i] = site[i]
    BY <1>1, <1>2
  <1>4. ASSUME NEW i \in Frames, site'[i].signal PROVE i # depth
    BY <1>1, <1>2, <1>4
  <1>5. ASSUME NEW i \in Frames, i > depth' PROVE site'[i] = Plain
    BY <1>1, <1>2, <1>3, <1>5 DEF StackOK, Frames
  <1>6. ASSUME NEW i \in Frames, site'[i].signal PROVE i < depth'
    BY <1>2, <1>3, <1>4, <1>6 DEF StackOK
  <1>7. ASSUME NEW i \in Frames, site'[i].signal PROVE i > 1 /\ ~site'[i - 1].signal
    <2>1. site[i].signal /\ i > 1 /\ ~site[i - 1].signal
      BY <1>3, <1>4, <1>7 DEF StackOK
    <2>2. i - 1 \in Frames
      BY <2>1 DEF Frames
    <2>3. QED
      BY <1>1, <1>2, <2>1, <2>2
  <1>8. QED
    BY <1>5, <1>6, <1>7 DEF StackOK

\* Dropping the frames from i on keeps a stack a stack.
LEMMA TruncateStack ==
  ASSUME TypeOK, StackOK, NEW i \in Frames, depth' = i, site' = Truncate(i)
  PROVE  StackOK'
  <1>1. ASSUME NEW j \in Frames
        PROVE  site'[j] = IF j < i THEN site[j] ELSE Plain
    BY DEF Truncate
  <1>2. ~Plain.signal
    BY SiteFacts
  <1>3. ASSUME NEW j \in Frames, j > i PROVE site'[j] = Plain
    BY <1>1, <1>3 DEF Frames
  <1>4. ASSUME NEW j \in Frames, site'[j].signal
        PROVE  j < i /\ j > 1 /\ ~site'[j - 1].signal
    <2>1. j < i /\ site[j].signal
      BY <1>1, <1>2, <1>4
    <2>2. j > 1 /\ ~site[j - 1].signal /\ j - 1 \in Frames
      BY <2>1 DEF StackOK, Frames
    <2>3. QED
      BY <1>1, <2>1, <2>2 DEF Frames
  <1>5. QED
    BY <1>3, <1>4 DEF StackOK

LEMMA NextStack ==
  ASSUME TypeOK, StackOK, [Next]_vars
  PROVE  StackOK'
  <1>1. CASE Return
    <2>1. depth' \in Frames
      <3>1. depth - 1 \in Frames
        BY <1>1 DEF Return, TypeOK, Frames
      <3>2. site[depth - 1].signal => depth - 1 > 1
        BY <3>1 DEF StackOK
      <3>3. QED
        BY <1>1, <3>1, <3>2 DEF Return, TypeOK, Frames
    <2>2. QED
      BY <1>1, <2>1, TruncateStack DEF Return
  <1>2. ASSUME NEW s \in Sites, Call(s)
        PROVE  StackOK'
    <2>1. depth \in Frames /\ site \in [Frames -> Sites \cup {Trampoline}] /\ ~s.signal
      BY SiteFacts DEF TypeOK
    <2>2. depth' = depth + 1 /\ site' = [site EXCEPT ![depth] = s]
      BY <1>2 DEF Call
    <2>3. ASSUME NEW i \in Frames, i > depth' PROVE site'[i] = Plain
      BY <2>1, <2>2, <2>3 DEF StackOK, Frames
    <2>4. ASSUME NEW i \in Frames, site'[i].signal
          PROVE  i < depth' /\ i > 1 /\ ~site'[i - 1].signal
      <3>1. site[i].signal /\ i # depth
        BY <2>1, <2>2, <2>4
      <3>2. i < depth /\ i > 1 /\ ~site[i - 1].signal /\ i - 1 \in Frames
        BY <3>1 DEF StackOK, Frames
      <3>3. QED
        BY <2>1, <2>2, <3>2 DEF Frames
    <2>5. QED
      BY <2>3, <2>4 DEF StackOK
  <1>3. ASSUME NEW s \in Sites, Signal(s)
        PROVE  StackOK'
    <2>1. depth \in Frames /\ depth + 1 \in Frames /\ ~s.signal
          /\ site \in [Frames -> Sites \cup {Trampoline}]
      BY <1>3, SiteFacts DEF TypeOK, Signal, Frames
    <2>2. depth' = depth + 2
          /\ site' = [site EXCEPT ![depth] = s, ![depth + 1] = Trampoline]
      BY <1>3 DEF Signal
    <2>3. ASSUME NEW i \in Frames, i > depth' PROVE site'[i] = Plain
      BY <2>1, <2>2, <2>3 DEF StackOK, Frames
    <2>4. ASSUME NEW i \in Frames, site'[i].signal
          PROVE  i < depth' /\ i > 1 /\ ~site'[i - 1].signal
      <3>1. CASE i = depth + 1
        <4>1. i - 1 = depth
          BY <2>1, <3>1 DEF Frames
        <4>2. site'[depth] = s
          BY <2>1, <2>2 DEF Frames
        <4>3. QED
          BY <2>1, <2>2, <3>1, <4>1, <4>2 DEF Frames
      <3>2. CASE i # depth + 1
        <4>1. site[i].signal /\ i # depth
          BY <2>1, <2>2, <2>4, <3>2
        <4>2. i < depth /\ i > 1 /\ ~site[i - 1].signal /\ i - 1 \in Frames
          BY <4>1 DEF StackOK, Frames
        <4>3. QED
          BY <2>1, <2>2, <4>2 DEF Frames
      <3>3. QED
        BY <3>1, <3>2
    <2>5. QED
      BY <2>3, <2>4 DEF StackOK
  <1>4. ASSUME NEW s \in Sites,
               Trace(s) \/ \E e \in Exceptions :
                  \/ Raise(e, s) \/ Rethrow(e, s)
                  \/ \E f \in StopFns, p \in Params : ForcedUnwind(e, s, f, p)
        PROVE  StackOK'
    <2>1. CASE Trace(s)
      BY <2>1, BeginStack DEF Trace
    <2>2. ASSUME NEW e \in Exceptions, Raise(e, s) PROVE StackOK'
      BY <2>2, BeginStack DEF Raise
    <2>3. ASSUME NEW e \in Exceptions, Rethrow(e, s) PROVE StackOK'
      BY <2>3, BeginStack DEF Rethrow
    <2>4. ASSUME NEW e \in Exceptions, NEW f \in StopFns, NEW p \in Params,
                 ForcedUnwind(e, s, f, p)
          PROVE  StackOK'
      BY <2>4, BeginStack DEF ForcedUnwind
    <2>5. QED
      BY <1>4, <2>1, <2>2, <2>3, <2>4
  <1>5. ASSUME NEW e \in Exceptions, NEW s \in PadSites, Resume(e, s)
        PROVE  StackOK'
    <2>1. s \in Sites
      BY SiteFacts
    <2>2. QED
      BY <1>5, <2>1, BeginStack DEF Resume
  <1>6. ASSUME NEW pad, Install(pad), pos > 0
        PROVE  StackOK'
    <2>1. pos \in Frames
      BY <1>6 DEF TypeOK, Frames
    <2>2. QED
      BY <1>6, <2>1, TruncateStack DEF Install
  <1>7. CASE UNCHANGED <<depth, site>>
    BY <1>7 DEF StackOK
  <1>8. CASE Program
    <2>1. ASSUME NEW e \in Exceptions, EndCatch(e) PROVE StackOK'
      BY <1>7, <2>1 DEF EndCatch
    <2>2. ASSUME NEW kind, NullException(kind) PROVE StackOK'
      BY <1>7, <2>2 DEF NullException, program
    <2>3. QED
      BY <1>1, <1>2, <1>3, <1>4, <1>5, <1>8, <2>1, <2>2 DEF Program
  <1>9. CASE Unwinder
    <2>1. ASSUME NEW r, Answer(r) PROVE StackOK'
      BY <1>7, <2>1 DEF Answer, program
    <2>2. ASSUME Advance PROVE StackOK'
      BY <1>7, <2>2 DEF Advance, program
    <2>3. CASE SearchFound
      BY <1>7, <2>3 DEF SearchFound, program
    <2>4. CASE NormalInstall \/ ForceInstall
      BY <1>6, <2>4 DEF NormalInstall, ForceInstall, Named, Resolved
    <2>5. CASE SearchAdvance \/ NormalAdvance \/ ForceAdvance \/ TraceAdvance
      BY <2>2, <2>5 DEF SearchAdvance, NormalAdvance, ForceAdvance, TraceAdvance
    <2>6. CASE SearchEnd \/ SearchFail \/ NormalFail \/ ForceStopped \/ ForceEnd
               \/ ForceFail \/ TraceEnd \/ TraceFail
      BY <2>1, <2>6 DEF SearchEnd, SearchFail, NormalFail, ForceStopped, ForceEnd,
         ForceFail, TraceEnd, TraceFail
    <2>7. QED
      BY <1>9, <2>3, <2>4, <2>5, <2>6
      DEF Unwinder, SearchWalk, NormalWalk, ForceWalk, TraceWalk
  <1>10. CASE Trapped \/ UNCHANGED vars
    BY <1>7, <1>10 DEF Trapped, vars, program
  <1>11. QED
    BY <1>8, <1>9, <1>10 DEF Next

-----------------------------------------------------------------------------
(* The holders of exceptions.                                              *)

\* The stack may grow, and the running frame move to another call site.
LEMMA HeldGrows ==
  ASSUME TypeOK, StackOK, HeldOK, UNCHANGED <<status, at>>,
         depth' \in Frames, depth' >= depth,
         \A i \in Frames : i <= depth => (site'[i].signal => site[i].signal)
  PROVE  HeldOK'
  <1>1. ASSUME NEW e \in Exceptions
        PROVE  at[e] <= depth' /\ (at[e] # 0 => ~site'[at[e]].signal)
    <2>1. at[e] \in 0..MaxDepth /\ at[e] <= depth /\ depth \in Frames
      BY DEF HeldOK, TypeOK
    <2>2. at[e] <= depth'
      BY <2>1 DEF Frames
    <2>3. ASSUME at[e] # 0 PROVE ~site'[at[e]].signal
      <3>1. at[e] \in Frames /\ ~site[at[e]].signal
        BY <2>1, <2>3 DEF HeldOK, Frames
      <3>2. QED
        BY <2>1, <3>1
    <2>4. QED
      BY <2>2, <2>3
  <1>2. QED
    BY <1>1 DEF HeldOK

LEMMA BeginHeld ==
  ASSUME TypeOK, StackOK, HeldOK, NEW kind, NEW m, NEW e, NEW s \in Sites,
         Begin(kind, m, e, s)
  PROVE  HeldOK'
  <1>1. depth \in Frames /\ site \in [Frames -> Sites \cup {Trampoline}] /\ ~s.signal
    BY SiteFacts DEF TypeOK
  <1>2. \A i \in Frames : site'[i].signal => site[i].signal
    BY <1>1 DEF Begin
  <1>3. depth' >= depth
    BY <1>1 DEF Begin, Frames
  <1>4. QED
    BY <1>1, <1>2, <1>3, HeldGrows DEF Begin

\* A pad may only be installed in a frame that has one.
LEMMA InstallHeld ==
  ASSUME TypeOK, HeldOK, exc \in Exceptions, pos > 0, NEW pad, Install(pad)
  PROVE  HeldOK'
  <1>1. pos \in Frames
    BY DEF TypeOK, Frames
  <1>2. depth' = pos /\ ~site'[pos].signal
    BY <1>1, SiteFacts DEF Install, Truncate, Frames
  <1>3. /\ status'[exc] \in {"cleanup", "handler"}
        /\ at'[exc] = pos
    BY DEF Install, TypeOK
  <1>4. ASSUME NEW e \in Exceptions, e # exc, at[e] > pos
        PROVE  status'[e] = "lost" /\ at'[e] = 0
    BY <1>4 DEF Install, TypeOK
  <1>5. ASSUME NEW e \in Exceptions, e # exc, ~(at[e] > pos)
        PROVE  /\ status'[e] = status[e] /\ at'[e] = at[e] /\ at[e] <= pos
               /\ at[e] # 0 => ~site'[at[e]].signal
    <2>1. status'[e] = status[e] /\ at'[e] = at[e] /\ at[e] <= pos
      BY <1>1, <1>5 DEF Install, TypeOK, Frames
    <2>2. CASE at[e] # 0 /\ at[e] < pos
      <3>1. at[e] \in Frames
        BY <1>1, <2>2 DEF TypeOK, Frames
      <3>2. site'[at[e]] = site[at[e]]
        BY <2>2, <3>1 DEF Install, Truncate
      <3>3. QED
        BY <2>1, <2>2, <3>2 DEF HeldOK
    <2>3. CASE at[e] = pos
      BY <1>2, <2>1, <2>3
    <2>4. QED
      BY <1>1, <2>1, <2>2, <2>3 DEF TypeOK, Frames
  <1>6. QED
    BY <1>1, <1>2, <1>3, <1>4, <1>5 DEF HeldOK, Frames

LEMMA NextHeld ==
  ASSUME TypeOK, StackOK, HeldOK, WalkOK, [Next]_vars
  PROVE  HeldOK'
  <1>1. CASE Return
    <2>1. depth - 1 \in Frames /\ depth \in Frames
      BY <1>1 DEF Return, TypeOK, Frames
    <2>2. ASSUME NEW e \in Exceptions
          PROVE  at[e] <= depth' /\ (at[e] # 0 => ~site'[at[e]].signal)
      <3>1. at[e] \in 0..MaxDepth /\ at[e] <= depth /\ at[e] # depth
        BY <1>1 DEF Return, TypeOK, HeldOK
      <3>2. site[depth - 1].signal => at[e] # depth - 1
        BY <2>1 DEF HeldOK, Frames
      <3>3. at[e] <= depth'
        BY <1>1, <2>1, <3>1, <3>2 DEF Return, Frames
      <3>4. ASSUME at[e] # 0 PROVE ~site'[at[e]].signal
        <4>1. at[e] \in Frames /\ ~site[at[e]].signal
          BY <3>1, <3>4 DEF HeldOK, Frames
        <4>2. QED
          BY <1>1, <4>1, SiteFacts DEF Return, Truncate
      <3>5. QED
        BY <3>3, <3>4
    <2>3. QED
      BY <1>1, <2>2 DEF Return, HeldOK
  <1>2. ASSUME NEW s \in Sites, Call(s) \/ Signal(s)
        PROVE  HeldOK'
    <2>1. depth \in Frames /\ site \in [Frames -> Sites \cup {Trampoline}] /\ ~s.signal
      BY SiteFacts DEF TypeOK
    <2>2. \A i \in Frames : i <= depth => (site'[i].signal => site[i].signal)
      BY <1>2, <2>1 DEF Call, Signal, Frames
    <2>3. depth' \in Frames /\ depth' >= depth
      BY <1>2, <2>1 DEF Call, Signal, Frames
    <2>4. QED
      BY <1>2, <2>2, <2>3, HeldGrows DEF Call, Signal
  <1>3. ASSUME NEW kind, NEW m, NEW e, NEW s \in Sites, Begin(kind, m, e, s)
        PROVE  HeldOK'
    BY <1>3, BeginHeld
  <1>4. CASE UNCHANGED program
    BY <1>4 DEF HeldOK, program
  <1>5. CASE Program
    <2>1. ASSUME NEW e \in Exceptions, EndCatch(e) PROVE HeldOK'
      BY <2>1 DEF EndCatch, HeldOK, TypeOK
    <2>2. ASSUME NEW s \in Sites, Trace(s) PROVE HeldOK'
      BY <1>3, <2>2 DEF Trace
    <2>3. ASSUME NEW e \in Exceptions, NEW s \in Sites,
                 Raise(e, s) \/ Rethrow(e, s)
                   \/ \E f \in StopFns, p \in Params : ForcedUnwind(e, s, f, p)
          PROVE  HeldOK'
      BY <1>3, <2>3 DEF Raise, Rethrow, ForcedUnwind
    <2>4. ASSUME NEW e \in Exceptions, NEW s \in PadSites, Resume(e, s) PROVE HeldOK'
      BY <1>3, <2>4, SiteFacts DEF Resume
    <2>5. ASSUME NEW kind, NullException(kind) PROVE HeldOK'
      BY <1>4, <2>5 DEF NullException
    <2>6. QED
      BY <1>1, <1>2, <1>5, <2>1, <2>2, <2>3, <2>4, <2>5 DEF Program
  <1>6. CASE Unwinder
    <2>1. ASSUME NEW r, Answer(r) PROVE HeldOK'
      BY <1>4, <2>1 DEF Answer
    <2>2. CASE Advance
      BY <1>4, <2>2 DEF Advance
    <2>3. CASE SearchFound
      BY <1>4, <2>3 DEF SearchFound
    <2>4. CASE NormalInstall \/ ForceInstall
      <3>1. exc \in Exceptions /\ pos > 0
        BY <2>4 DEF NormalInstall, ForceInstall, Named, Resolved, WalkOK, PropagatedOK, TypeOK
      <3>2. QED
        BY <2>4, <3>1, InstallHeld DEF NormalInstall, ForceInstall
    <2>5. CASE SearchAdvance \/ NormalAdvance \/ ForceAdvance \/ TraceAdvance
      BY <2>2, <2>5 DEF SearchAdvance, NormalAdvance, ForceAdvance, TraceAdvance
    <2>6. CASE SearchEnd \/ SearchFail \/ NormalFail \/ ForceStopped \/ ForceEnd
               \/ ForceFail \/ TraceEnd \/ TraceFail
      BY <2>1, <2>6 DEF SearchEnd, SearchFail, NormalFail, ForceStopped, ForceEnd,
         ForceFail, TraceEnd, TraceFail
    <2>7. QED
      BY <1>6, <2>3, <2>4, <2>5, <2>6
      DEF Unwinder, SearchWalk, NormalWalk, ForceWalk, TraceWalk
  <1>7. CASE Trapped \/ UNCHANGED vars
    BY <1>4, <1>7 DEF Trapped, vars, program
  <1>8. QED
    BY <1>5, <1>6, <1>7 DEF Next

-----------------------------------------------------------------------------
(* What one call of the unwinder leaves behind for the next one.           *)

\* Whatever happens above the frame that holds e leaves the handler of e
\* where it is, and recognisable by the same key.
LEMMA HandlerStays ==
  ASSUME TypeOK, NEW e \in Exceptions, NEW low \in Frames, NEW high \in Frames,
         low < high, low <= depth', depth' \in Nat, HandlerAlive(e), chosen[e] = low,
         words'[e] = words[e], chosen'[e] = chosen[e],
         \A i \in Frames : i < high => site'[i] = site[i],
         ~site[high].signal, ~site'[high].signal
  PROVE  HandlerAlive(e)'
  <1>1. site'[low] = site[low]
    OBVIOUS
  <1>2. Interrupted(low)' <=> Interrupted(low)
    <2>1. CASE low + 1 = high
      BY <2>1 DEF Interrupted, Frames
    <2>2. CASE low + 1 # high
      <3>1. low + 1 \in Frames /\ low + 1 < high
        BY <2>2 DEF Frames
      <3>2. site'[low + 1] = site[low + 1]
        BY <3>1
      <3>3. QED
        BY <3>2 DEF Interrupted
    <2>3. QED
      BY <2>1, <2>2
  <1>3. Key(low, Interrupted(low))' = Key(low, Interrupted(low))
    BY <1>2 DEF Key, Sp
  <1>4. QED
    BY <1>1, <1>3 DEF HandlerAlive, Frames, NormalWords

\* The frames below "high" are as they were, so is the course of e.
LEMMA CourseStays ==
  ASSUME TypeOK, NEW e \in Exceptions, NEW high \in Frames, high <= depth',
         Course(e, high - 1),
         depth' \in Nat,
         words'[e] = words[e], chosen'[e] = chosen[e], due'[e] = due[e],
         \A i \in Frames : i < high => site'[i] = site[i],
         ~site[high].signal, ~site'[high].signal
  PROVE  Course(e, high - 1)'
  <1> DEFINE low == chosen[e]
  <1>0. depth \in Frames /\ depth' \in Nat
    BY DEF TypeOK, Frames
  <1>1. low \in Frames /\ low < high /\ low <= depth'
    <2>1. low \in 1..depth /\ low <= high - 1
      BY DEF Course, HandlerAlive
    <2>2. QED
      BY <1>0, <2>1 DEF Frames
  <1>2. HandlerAlive(e)'
    BY <1>1, HandlerStays DEF Course
  <1>3. \A i \in low..(high - 1) : i \in Frames /\ site'[i] = site[i]
    BY <1>1 DEF Frames
  <1>4. Pads(low, high - 1)' = Pads(low, high - 1)
    BY <1>3 DEF Pads
  <1>5. \A i \in (low + 1)..(high - 1) : site'[i].clean # "CATCH"
    BY <1>1, <1>3 DEF Course, Frames
  <1>6. QED
    BY <1>1, <1>2, <1>4, <1>5 DEF Course, Frames

LEMMA ForcedCourseStays ==
  ASSUME TypeOK, NEW e \in Exceptions, NEW high \in Frames, ForcedCourse(e, high - 1),
         due'[e] = due[e], \A i \in Frames : i < high => site'[i] = site[i]
  PROVE  ForcedCourse(e, high - 1)'
  BY DEF ForcedCourse, TypeOK, Frames

LEMMA KeptStays ==
  ASSUME TypeOK, depth' \in Nat, HeldOK, HeldOK', NEW e \in Exceptions, at[e] # 0, Kept(e),
         at'[e] = at[e], status'[e] = status[e], words'[e] = words[e],
         chosen'[e] = chosen[e], due'[e] = due[e], forced'[e] = forced[e],
         \A i \in Frames : i < at[e] => site'[i] = site[i]
  PROVE  Kept(e)'
  <1>1. at[e] \in Frames /\ at[e] <= depth' /\ ~site[at[e]].signal /\ ~site'[at[e]].signal
    BY DEF TypeOK, HeldOK, Frames
  <1>2. PICK high \in Frames : high = at[e]
    BY <1>1
  <1>3. high = at'[e] /\ high <= depth' /\ ~site[high].signal /\ ~site'[high].signal
        /\ \A i \in Frames : i < high => site'[i] = site[i]
    BY <1>1, <1>2
  <1>4. Course(e, high - 1) => Course(e, high - 1)'
    BY <1>3, CourseStays
  <1>5. ForcedCourse(e, high - 1) => ForcedCourse(e, high - 1)'
    BY <1>3, ForcedCourseStays
  <1>6. CASE forced[e] = <<0, 0>>
    BY <1>2, <1>3, <1>4, <1>6 DEF Kept, IsNormal
  <1>7. CASE forced[e] # <<0, 0>>
    BY <1>2, <1>3, <1>5, <1>7 DEF Kept, IsNormal
  <1>8. QED
    BY <1>6, <1>7

\* Steps that leave the frames below the running one alone, and change only
\* objects (those in S) held by no frame afterwards, or kept for another reason.
LEMMA WordsStayBut ==
  ASSUME TypeOK, TypeOK', HeldOK, HeldOK', WordsOK, NEW S,
         \A e \in Exceptions \ S :
           /\ at'[e] = at[e] /\ status'[e] = status[e] /\ words'[e] = words[e]
           /\ chosen'[e] = chosen[e] /\ due'[e] = due[e] /\ forced'[e] = forced[e],
         \A e \in S \cap Exceptions : at'[e] # 0 => Kept(e)',
         \A i \in Frames : i < depth /\ i < depth' => site'[i] = site[i]
  PROVE  WordsOK'
  <1>1. depth \in Frames /\ depth' \in Frames /\ depth' \in Nat
    BY DEF TypeOK, Frames
  <1>2. ASSUME NEW e \in Exceptions \ S, at'[e] # 0 PROVE Kept(e)'
    <2>1. /\ at'[e] = at[e] /\ status'[e] = status[e] /\ words'[e] = words[e]
          /\ chosen'[e] = chosen[e] /\ due'[e] = due[e] /\ forced'[e] = forced[e]
      OBVIOUS
    <2>2. at[e] \in 0..MaxDepth /\ at[e] <= depth /\ at[e] <= depth' /\ at[e] # 0
      BY <1>2, <2>1 DEF HeldOK, TypeOK
    <2>3. \A i \in Frames : i < at[e] => site'[i] = site[i]
      BY <1>1, <2>2 DEF Frames
    <2>4. Kept(e)
      BY <2>2 DEF WordsOK
    <2>5. QED
      BY <1>1, <2>1, <2>2, <2>3, <2>4, KeptStays
  <1>3. QED
    BY <1>2 DEF WordsOK

LEMMA WordsStay ==
  ASSUME TypeOK, TypeOK', HeldOK, HeldOK', WordsOK,
         UNCHANGED <<status, at, words, history>>,
         \A i \in Frames : i < depth /\ i < depth' => site'[i] = site[i]
  PROVE  WordsOK'
  <1>1. depth \in Frames /\ depth' \in Frames /\ depth' \in Nat
    BY DEF TypeOK, Frames
  <1>2. ASSUME NEW e \in Exceptions, at[e] # 0 PROVE Kept(e)'
    <2>1. at[e] \in 0..MaxDepth /\ at[e] <= depth /\ at[e] <= depth'
      BY DEF HeldOK, TypeOK
    <2>2. \A i \in Frames : i < at[e] => site'[i] = site[i]
      BY <1>1, <2>1 DEF Frames
    <2>3. QED
      BY <1>1, <1>2, <2>2, KeptStays DEF WordsOK, history
  <1>3. QED
    BY <1>2 DEF WordsOK

\* Starting a walk moves the running frame to another call site only.
LEMMA BeginSite ==
  ASSUME TypeOK, NEW kind, NEW m, NEW e, NEW s, Begin(kind, m, e, s)
  PROVE  /\ \A i \in Frames : i # depth => site'[i] = site[i]
         /\ site'[depth] = s
         /\ depth' = depth /\ depth \in Frames /\ at' = at /\ status' = status
  BY DEF Begin, TypeOK

\* Phase two has not passed the handler: it is selected in the chosen frame
\* and nowhere else.
LEMMA SelectedIsChosen ==
  ASSUME TypeOK, CursorOK, PropagatedOK, NormalOK, mode = "normal"
  PROVE  /\ exc \in Exceptions
         /\ pos \in Frames /\ chosen[exc] \in Frames /\ chosen[exc] <= pos
         /\ pos <= depth
         /\ Selected <=> pos = chosen[exc]
  <1>1. exc \in Exceptions /\ HandlerAlive(exc) /\ chosen[exc] <= pos /\ goal = words[exc][2]
        /\ pos <= depth /\ (pos # 0 => before = Interrupted(pos))
    BY DEF TypeOK, PropagatedOK, NormalOK, Course, CursorOK, Walking
  <1>2. pos \in 0..MaxDepth /\ depth \in Frames
    BY DEF TypeOK
  <1>3. chosen[exc] \in 1..depth
    BY <1>1 DEF HandlerAlive
  <1>4. pos \in Frames /\ chosen[exc] \in Frames
    BY <1>1, <1>2, <1>3 DEF Frames
  <1>5. Interrupted(pos) \in BOOLEAN /\ Interrupted(chosen[exc]) \in BOOLEAN
    BY DEF Interrupted
  <1>6. goal = Key(chosen[exc], Interrupted(chosen[exc])) /\ before = Interrupted(pos)
    <2>1. words[exc] = NormalWords(Key(chosen[exc], Interrupted(chosen[exc])))
      BY <1>1 DEF HandlerAlive
    <2>2. words[exc][2] = Key(chosen[exc], Interrupted(chosen[exc]))
      BY <2>1 DEF NormalWords
    <2>3. pos # 0
      BY <1>4 DEF Frames
    <2>4. goal = Key(chosen[exc], Interrupted(chosen[exc]))
      BY <1>1, <2>2
    <2>5. before = Interrupted(pos)
      BY <1>1, <2>3, Zenon
    <2>6. QED
      BY <2>4, <2>5, Zenon
  <1>7. Selected => pos = chosen[exc]
    <2>1. Selected => Key(pos, Interrupted(pos)) = Key(chosen[exc], Interrupted(chosen[exc]))
      BY <1>6, Zenon DEF Selected
    <2>2. QED
      BY <1>4, <1>5, <2>1, KeyInjective
  <1>8. pos = chosen[exc] => Selected
    BY <1>6, Zenon DEF Selected
  <1>9. QED
    BY <1>1, <1>4, <1>7, <1>8

\* Installing the pad of a frame that phase two does not select leaves the
\* rest of the course to the exception, now held by that frame.
LEMMA InstallCourse ==
  ASSUME TypeOK, TypeOK', HeldOK, HeldOK', WalkOK, mode = "normal", Install("CLEAN"),
         ~Selected, site[pos].clean = "CLEAN",
         NEW e \in Exceptions, e = exc, NEW high \in Frames, high = pos
  PROVE  Course(e, high - 1)'
  <1>1. chosen[e] \in Frames /\ chosen[e] < high /\ high <= depth
    BY SelectedIsChosen DEF WalkOK, Frames
  <1>2. PICK low \in Frames : low = chosen[e]
    BY <1>1
  <1>3. /\ depth' = high /\ words' = words /\ depth' \in Nat
        /\ \A i \in Frames : i < high => site'[i] = site[i]
        /\ ~site'[high].signal
    BY SiteFacts DEF Install, Truncate, Frames
  <1>4. chosen'[e] = chosen[e] /\ due'[e] = due[e] \ {high}
    BY DEF Install, TypeOK
  <1>5. ~site[high].signal
    BY OnStack
  <1>6. Course(e, high)
    BY DEF WalkOK, NormalOK
  <1>7. HandlerAlive(e)'
    <2>1. low < high /\ low <= depth' /\ words'[e] = words[e]
      BY <1>1, <1>2, <1>3 DEF Frames
    <2>2. HandlerAlive(e)
      BY <1>6 DEF Course
    <2>3. QED
      BY <1>2, <1>3, <1>4, <1>5, <2>1, <2>2, HandlerStays
  <1>8. \A i \in low..(high - 1) : i \in Frames /\ i < high
    BY DEF Frames
  <1>9. \A i \in low..(high - 1) : site'[i] = site[i]
    BY <1>3, <1>8
  <1>10. Pads(low, high - 1)' = Pads(low, high) \ {high}
    BY <1>1, <1>2, <1>9 DEF Pads, Frames
  <1>11. \A i \in (low + 1)..(high - 1) : site'[i].clean # "CATCH"
    BY <1>2, <1>6, <1>9 DEF Course, Frames
  <1>12. due'[e] = Pads(low, high - 1)'
    BY <1>2, <1>4, <1>6, <1>10 DEF Course
  <1>13. low = chosen'[e] /\ low <= high - 1
    BY <1>1, <1>2, <1>4 DEF Frames
  <1>14. QED
    BY <1>7, <1>11, <1>12, <1>13 DEF Course

LEMMA InstallWords ==
  ASSUME TypeOK, TypeOK', HeldOK, HeldOK', WordsOK, WalkOK,
         NormalInstall \/ ForceInstall
  PROVE  WordsOK'
  <1>1. exc \in Exceptions /\ pos \in Frames
    BY DEF NormalInstall, ForceInstall, Named, Resolved, WalkOK, PropagatedOK, TypeOK, Frames
  <1>2. PICK pad : Install(pad)
    BY DEF NormalInstall, ForceInstall
  <1> DEFINE S == {e \in Exceptions : e = exc \/ at[e] > pos}
  <1>3. ASSUME NEW e \in Exceptions \ S
        PROVE  /\ at'[e] = at[e] /\ status'[e] = status[e] /\ words'[e] = words[e]
               /\ chosen'[e] = chosen[e] /\ due'[e] = due[e] /\ forced'[e] = forced[e]
    BY <1>2 DEF Install
  <1>4. \A i \in Frames : i < depth /\ i < depth' => site'[i] = site[i]
    BY <1>2 DEF Install, Truncate
  <1>5. ASSUME NEW e \in Exceptions, e # exc, at[e] > pos
        PROVE  at'[e] = 0
    BY <1>2, <1>5 DEF Install
  <1>6. PICK x \in Exceptions : x = exc
    BY <1>1
  <1>7. PICK high \in Frames : high = pos
    BY <1>1
  <1>8. /\ at'[x] = high /\ words' = words /\ forced'[x] = forced[x]
        /\ due'[x] = due[x] \ {high}
        /\ \A i \in Frames : i < high => site'[i] = site[i]
    BY <1>2, <1>6, <1>7 DEF Install, Truncate, TypeOK
  <1>9. ASSUME NormalInstall PROVE Kept(x)'
    <2>1. mode = "normal"
      BY <1>9 DEF NormalInstall
    <2>2. forced[x] = <<0, 0>> /\ HandlerAlive(x)
      BY <1>6, <2>1 DEF WalkOK, NormalOK, Course
    <2>3. IsNormal(words[x])
      BY <2>2 DEF HandlerAlive, IsNormal, NormalWords
    <2>4. ASSUME status'[x] = "cleanup" PROVE Course(x, high - 1)'
      <3>1. Install(CleanupAnswer) /\ CleanupAnswer \in {"CLEAN", "CATCH"}
        BY <1>9 DEF NormalInstall
      <3>2. CleanupAnswer = "CLEAN"
        BY <1>6, <2>4, <3>1 DEF Install, TypeOK
      <3>3. site[high].handle # "CLEAN"
        BY OnStack
      <3>4. ~Selected /\ site[pos].clean = "CLEAN"
        BY <1>7, <3>2, <3>3 DEF CleanupAnswer
      <3>5. QED
        BY <1>6, <1>7, <2>1, <3>1, <3>2, <3>4, InstallCourse
    <2>5. QED
      BY <1>8, <2>2, <2>3, <2>4 DEF Kept, IsNormal
  <1>10. ASSUME ForceInstall PROVE Kept(x)'
    <2>1. mode = "force"
      BY <1>10 DEF ForceInstall
    <2>2. /\ words[x] = forced[x] /\ ~IsNormal(words[x])
          /\ ForcedCourse(x, high)
      BY <1>6, <1>7, <2>1 DEF WalkOK, ForceOK
    <2>3. forced[x] # <<0, 0>>
      BY <2>2 DEF IsNormal
    <2>4. ForcedCourse(x, high - 1)'
      <3>1. due[x] \subseteq Frames
        BY DEF TypeOK
      <3>2. ASSUME NEW i \in due'[x]
            PROVE  i <= high - 1 /\ site'[i].force \in {"CLEAN", "CATCH"}
        <4>1. i \in Frames /\ i # high /\ i <= high /\ site[i].force \in {"CLEAN", "CATCH"}
          BY <1>8, <2>2, <3>1 DEF ForcedCourse
        <4>2. i < high
          BY <4>1 DEF Frames
        <4>3. QED
          BY <1>8, <4>1, <4>2 DEF Frames
      <3>3. QED
        BY <3>2 DEF ForcedCourse
    <2>5. QED
      BY <1>8, <2>2, <2>3, <2>4 DEF Kept, IsNormal
  <1>11. Kept(x)'
    BY <1>9, <1>10
  <1>12. \A e \in S \cap Exceptions : at'[e] # 0 => Kept(e)'
    BY <1>5, <1>6, <1>11
  <1>13. \A e \in Exceptions \ S :
           /\ at'[e] = at[e] /\ status'[e] = status[e] /\ words'[e] = words[e]
           /\ chosen'[e] = chosen[e] /\ due'[e] = due[e] /\ forced'[e] = forced[e]
    BY <1>3
  <1> HIDE DEF S
  <1>14. QED
    BY <1>4, <1>12, <1>13, WordsStayBut

LEMMA NextWords ==
  ASSUME TypeOK, TypeOK', StackOK, HeldOK, HeldOK', WordsOK, WalkOK, [Next]_vars
  PROVE  WordsOK'
  <1>1. CASE Return
    BY <1>1, WordsStay DEF Return, Truncate
  <1>2. ASSUME NEW s \in Sites, Call(s) \/ Signal(s)
        PROVE  WordsOK'
    <2>1. \A i \in Frames : i < depth => site'[i] = site[i]
      BY <1>2 DEF Call, Signal, TypeOK, Frames
    <2>2. QED
      BY <1>2, <2>1, WordsStay DEF Call, Signal
  <1>3. ASSUME NEW kind, NEW m, NEW e, NEW s, Begin(kind, m, e, s),
               UNCHANGED <<words, history>>
        PROVE  WordsOK'
    <2>1. \A i \in Frames : i < depth => site'[i] = site[i]
      BY <1>3, BeginSite DEF Frames
    <2>2. QED
      BY <1>3, <2>1, WordsStay DEF Begin
  <1>4. ASSUME NEW e \in Exceptions, NEW s, NEW f, NEW p, ForcedUnwind(e, s, f, p)
        PROVE  WordsOK'
    <2>1. at'[e] = 0
      BY <1>4 DEF ForcedUnwind, Begin, HeldOK
    <2>2. \A i \in Frames : i < depth => site'[i] = site[i]
      BY <1>4, BeginSite DEF ForcedUnwind, Frames
    <2>3. \A x \in Exceptions \ {e} :
            /\ at'[x] = at[x] /\ status'[x] = status[x] /\ words'[x] = words[x]
            /\ chosen'[x] = chosen[x] /\ due'[x] = due[x] /\ forced'[x] = forced[x]
      BY <1>4 DEF ForcedUnwind, Begin, TypeOK
    <2>4. \A x \in {e} \cap Exceptions : at'[x] # 0 => Kept(x)'
      BY <2>1
    <2>5. QED
      BY <2>2, <2>3, <2>4, WordsStayBut
  <1>5. ASSUME NEW e \in Exceptions, EndCatch(e)
        PROVE  WordsOK'
    <2>1. at'[e] = 0 /\ site' = site
      BY <1>5 DEF EndCatch, TypeOK
    <2>2. \A x \in Exceptions \ {e} :
            /\ at'[x] = at[x] /\ status'[x] = status[x] /\ words'[x] = words[x]
            /\ chosen'[x] = chosen[x] /\ due'[x] = due[x] /\ forced'[x] = forced[x]
      BY <1>5 DEF EndCatch, Forget, TypeOK
    <2>3. \A x \in {e} \cap Exceptions : at'[x] # 0 => Kept(x)'
      BY <2>1
    <2>4. QED
      BY <2>1, <2>2, <2>3, WordsStayBut
  <1>6. CASE UNCHANGED <<program, words, history>>
    BY <1>6, WordsStay DEF program
  <1>7. ASSUME NEW r, Answer(r)
        PROVE  WordsOK'
    <2>1. CASE UNCHANGED history
      BY <1>6, <1>7, <2>1 DEF Answer
    <2>2. CASE ~UNCHANGED history
      <3>1. Forget({exc}) /\ entry \notin {"resume", "rethrow"} /\ UNCHANGED <<program, words>>
        BY <1>7, <2>2 DEF Answer
      <3>2. \A x \in {exc} \cap Exceptions : at'[x] = 0
        BY <3>1 DEF WalkOK, PropagatedOK, program
      <3>3. \A x \in Exceptions \ {exc} :
              /\ at'[x] = at[x] /\ status'[x] = status[x] /\ words'[x] = words[x]
              /\ chosen'[x] = chosen[x] /\ due'[x] = due[x] /\ forced'[x] = forced[x]
        BY <3>1 DEF Forget, program
      <3>4. QED
        BY <3>1, <3>2, <3>3, WordsStayBut DEF program
    <2>3. QED
      BY <2>1, <2>2
  <1>8. CASE SearchFound
    <2>1. exc \in Exceptions /\ status[exc] \in {"idle", "handler"}
      BY <1>8 DEF SearchFound, WalkOK, PropagatedOK, TypeOK
    <2>2. PICK e \in Exceptions : e = exc
      BY <2>1
    <2>3. /\ UNCHANGED program /\ forced'[e] = <<0, 0>>
          /\ words'[e] = NormalWords(Key(pos, before))
      BY <1>8, <2>2 DEF SearchFound, TypeOK
    <2>4. IsNormal(words'[e]) /\ status'[e] # "cleanup"
      BY <2>1, <2>2, <2>3 DEF IsNormal, NormalWords, program
    <2>5. Kept(e)'
      BY <2>3, <2>4 DEF Kept, IsNormal
    <2>6. \A x \in Exceptions \ {e} :
            /\ at'[x] = at[x] /\ status'[x] = status[x] /\ words'[x] = words[x]
            /\ chosen'[x] = chosen[x] /\ due'[x] = due[x] /\ forced'[x] = forced[x]
      BY <1>8, <2>2 DEF SearchFound, program, TypeOK
    <2>7. \A x \in {e} \cap Exceptions : at'[x] # 0 => Kept(x)'
      BY <2>5
    <2>8. QED
      BY <2>3, <2>6, <2>7, WordsStayBut DEF program
  <1>9. CASE Program
    <2>1. ASSUME NEW s \in Sites, Trace(s) PROVE WordsOK'
      BY <1>3, <2>1 DEF Trace
    <2>2. ASSUME NEW e \in Exceptions, NEW s \in Sites, Raise(e, s) \/ Rethrow(e, s)
          PROVE  WordsOK'
      BY <1>3, <2>2 DEF Raise, Rethrow
    <2>3. ASSUME NEW e \in Exceptions, NEW s \in PadSites, Resume(e, s) PROVE WordsOK'
      BY <1>3, <2>3 DEF Resume
    <2>4. ASSUME NEW kind, NullException(kind) PROVE WordsOK'
      BY <1>6, <2>4 DEF NullException
    <2>5. QED
      BY <1>1, <1>2, <1>4, <1>5, <1>9, <2>1, <2>2, <2>3, <2>4 DEF Program
  <1>10. CASE Unwinder
    <2>1. CASE SearchAdvance \/ NormalAdvance \/ ForceAdvance \/ TraceAdvance
      BY <1>6, <2>1
      DEF SearchAdvance, NormalAdvance, ForceAdvance, TraceAdvance, Advance
    <2>2. CASE SearchEnd \/ SearchFail \/ NormalFail \/ ForceStopped \/ ForceEnd
               \/ ForceFail \/ TraceEnd \/ TraceFail
      BY <1>7, <2>2 DEF SearchEnd, SearchFail, NormalFail, ForceStopped, ForceEnd,
         ForceFail, TraceEnd, TraceFail
    <2>3. QED
      BY <1>8, <1>10, <2>1, <2>2, InstallWords
      DEF Unwinder, SearchWalk, NormalWalk, ForceWalk, TraceWalk
  <1>11. CASE Trapped \/ UNCHANGED vars
    BY <1>6, <1>11 DEF Trapped, vars
  <1>12. QED
    BY <1>9, <1>10, <1>11 DEF Next

-----------------------------------------------------------------------------
(* The walk.                                                               *)

\* A walk starts in the running frame, which nothing has interrupted.
LEMMA BeginCursor ==
  ASSUME TypeOK', StackOK', pos' = depth', before' = FALSE
  PROVE  CursorOK'
  <1>1. depth' \in Frames /\ pos' <= depth'
    BY DEF TypeOK, Frames
  <1>2. ~Interrupted(depth)'
    <2>1. PICK d \in Frames : d = depth'
      BY <1>1
    <2>2. ASSUME d < MaxDepth, site'[d + 1].signal PROVE FALSE
      <3>1. d + 1 \in Frames /\ ~(d + 1 < d)
        BY <2>2 DEF Frames
      <3>2. QED
        BY <2>1, <2>2, <3>1 DEF StackOK
    <2>3. QED
      BY <2>1, <2>2 DEF Interrupted
  <1>3. before' = Interrupted(pos)'
    <2>1. Interrupted(pos)' = Interrupted(depth)'
      BY DEF Interrupted
    <2>2. Interrupted(pos)' \in BOOLEAN
      BY DEF Interrupted
    <2>3. QED
      BY <1>2, <2>1, <2>2, Zenon
  <1>4. QED
    BY <1>1, <1>3 DEF CursorOK

LEMMA AdvanceCursor ==
  ASSUME TypeOK, CursorOK, mode \in Walking, pos > 0, Advance
  PROVE  CursorOK'
  <1>1. pos \in Frames /\ depth \in Frames /\ pos <= depth
    BY DEF TypeOK, Frames, CursorOK
  <1>2. pos' <= depth'
    BY <1>1 DEF Advance, program, Frames
  <1>3. ASSUME pos' # 0 PROVE before' = Interrupted(pos)'
    <2>1. pos' < MaxDepth /\ pos' + 1 = pos /\ site' = site /\ before' = site[pos].signal
      BY <1>1 DEF Advance, program, Frames
    <2>2. site[pos].signal \in BOOLEAN
      BY <1>1, OnStack
    <2>3. Interrupted(pos)' <=> site[pos].signal
      BY <2>1 DEF Interrupted
    <2>4. Interrupted(pos)' \in BOOLEAN
      BY DEF Interrupted
    <2>5. QED
      BY <2>1, <2>2, <2>3, <2>4, Zenon
  <1>4. QED
    BY <1>2, <1>3 DEF CursorOK

LEMMA NextCursor ==
  ASSUME TypeOK, TypeOK', StackOK', WalkOK, [Next]_vars
  PROVE  CursorOK'
  <1>1. CASE mode' \notin Walking
    BY <1>1 DEF CursorOK
  <1>2. ASSUME NEW kind, NEW m, NEW e, NEW s, Begin(kind, m, e, s)
        PROVE  CursorOK'
    BY <1>2, BeginCursor DEF Begin
  <1>3. CASE Program
    <2>1. CASE \E e \in Exceptions : \E s \in PadSites : Resume(e, s)
      BY <1>2, <2>1 DEF Resume
    <2>2. CASE \E s \in Sites : \/ Trace(s)
                                \/ \E e \in Exceptions :
                                     \/ Raise(e, s) \/ Rethrow(e, s)
                                     \/ \E f \in StopFns, p \in Params : ForcedUnwind(e, s, f, p)
      BY <1>2, <2>2 DEF Trace, Raise, Rethrow, ForcedUnwind
    <2>3. CASE \/ Return \/ \E s \in Sites : Call(s) \/ Signal(s)
               \/ \E e \in Exceptions : EndCatch(e)
      BY <1>1, <2>3 DEF Return, Call, Signal, EndCatch, Walking
    <2>4. CASE \E kind \in {"raise", "force", "rethrow", "resume"} : NullException(kind)
      BY <1>1, <2>4 DEF NullException, Walking
    <2>5. QED
      BY <1>3, <2>1, <2>2, <2>3, <2>4 DEF Program
  <1>4. CASE Unwinder
    <2>1. CASE SearchAdvance \/ NormalAdvance \/ ForceAdvance \/ TraceAdvance
      <3>1. Advance /\ pos > 0 /\ mode \in Walking
        BY <2>1 DEF SearchAdvance, NormalAdvance, ForceAdvance, TraceAdvance, Named,
           Resolved, Walking
      <3>2. QED
        BY <3>1, AdvanceCursor DEF WalkOK
    <2>2. CASE SearchEnd \/ SearchFail \/ NormalFail \/ ForceStopped \/ ForceEnd
               \/ ForceFail \/ TraceEnd \/ TraceFail
      BY <1>1, <2>2 DEF SearchEnd, SearchFail, NormalFail, ForceStopped, ForceEnd,
         ForceFail, TraceEnd, TraceFail, Answer, Walking
    <2>3. CASE NormalInstall \/ ForceInstall
      BY <1>1, <2>3 DEF NormalInstall, ForceInstall, Install, Walking
    <2>4. CASE SearchFound
      BY <2>4, BeginCursor DEF SearchFound, program
    <2>5. QED
      BY <1>4, <2>1, <2>2, <2>3, <2>4
      DEF Unwinder, SearchWalk, NormalWalk, ForceWalk, TraceWalk
  <1>5. CASE Trapped \/ UNCHANGED vars
    BY <1>5 DEF Trapped, vars, program, walk, WalkOK, CursorOK, Interrupted
  <1>6. QED
    BY <1>3, <1>4, <1>5 DEF Next

LEMMA NextPropagated ==
  ASSUME TypeOK, HeldOK, WalkOK, [Next]_vars
  PROVE  PropagatedOK'
  <1>1. CASE mode' \in {"run", "trap"} /\ exc' = NoException
    BY <1>1 DEF PropagatedOK
  <1>2. CASE UNCHANGED <<mode, exc, entry, status, at>>
    BY <1>2 DEF WalkOK, PropagatedOK
  <1>3. mode \in {"run", "trap"} => exc = NoException
    BY DEF WalkOK, PropagatedOK
  <1>4. CASE Program
    <2>1. CASE \E e \in Exceptions : \E s \in PadSites : Resume(e, s)
      BY <2>1 DEF Resume, Begin, PropagatedOK
    <2>2. CASE \E e \in Exceptions : \E s \in Sites : Rethrow(e, s)
      BY <2>2 DEF Rethrow, Begin, PropagatedOK, IsNormal, WordsOK, Kept
    <2>3. CASE \E e \in Exceptions : \E s \in Sites :
                 Raise(e, s) \/ \E f \in StopFns, p \in Params : ForcedUnwind(e, s, f, p)
      BY <2>3 DEF Raise, ForcedUnwind, Begin, PropagatedOK, HeldOK
    <2>4. CASE \E s \in Sites : Trace(s)
      BY <2>4 DEF Trace, Begin, PropagatedOK
    <2>5. CASE \/ Return \/ \E s \in Sites : Call(s) \/ Signal(s)
               \/ \E e \in Exceptions : EndCatch(e)
      BY <1>1, <1>3, <2>5 DEF Return, Call, Signal, EndCatch
    <2>6. CASE \E kind \in {"raise", "force", "rethrow", "resume"} : NullException(kind)
      BY <1>1, <1>3, <2>6 DEF NullException
    <2>7. QED
      BY <1>4, <2>1, <2>2, <2>3, <2>4, <2>5, <2>6 DEF Program
  <1>5. CASE Unwinder
    <2>1. CASE SearchAdvance \/ NormalAdvance \/ ForceAdvance \/ TraceAdvance
      BY <1>2, <2>1
      DEF SearchAdvance, NormalAdvance, ForceAdvance, TraceAdvance, Advance, program
    <2>2. CASE SearchEnd \/ SearchFail \/ NormalFail \/ ForceStopped \/ ForceEnd
               \/ ForceFail \/ TraceEnd \/ TraceFail
      BY <1>1, <2>2 DEF SearchEnd, SearchFail, NormalFail, ForceStopped, ForceEnd,
         ForceFail, TraceEnd, TraceFail, Answer, Leave
    <2>3. CASE NormalInstall \/ ForceInstall
      BY <1>1, <2>3 DEF NormalInstall, ForceInstall, Install, Leave
    <2>4. CASE SearchFound
      BY <2>4 DEF SearchFound, program, WalkOK, PropagatedOK
    <2>5. QED
      BY <1>5, <2>1, <2>2, <2>3, <2>4
      DEF Unwinder, SearchWalk, NormalWalk, ForceWalk, TraceWalk
  <1>6. CASE Trapped \/ UNCHANGED vars
    BY <1>2, <1>6 DEF Trapped, vars, program, walk
  <1>7. QED
    BY <1>4, <1>5, <1>6 DEF Next

\* A resumed walk takes the course its exception was left with: the landing
\* pad's own call site adds nothing to it.
LEMMA ResumeCourse ==
  ASSUME TypeOK, TypeOK', HeldOK, HeldOK', WordsOK,
         NEW e \in Exceptions, NEW s \in PadSites, Resume(e, s), IsNormal(words[e]),
         NEW high \in Frames, high = depth
  PROVE  forced[e] = <<0, 0>> /\ Course(e, high)'
  <1>1. PICK m : Begin("resume", m, e, s)
    BY DEF Resume
  <1>2. /\ at[e] = high /\ status[e] = "cleanup" /\ UNCHANGED <<words, history>>
        /\ at[e] # 0 /\ depth' = high
    BY <1>1 DEF Resume, Begin, Frames
  <1>3. forced[e] = <<0, 0>> /\ Course(e, high - 1)
    BY <1>2 DEF WordsOK, Kept
  <1>4. /\ \A i \in Frames : i < high => site'[i] = site[i]
        /\ site'[high] = s /\ ~site'[high].signal /\ ~site[high].signal
    BY <1>1, <1>2, BeginSite, SiteFacts DEF Frames, HeldOK
  <1>5. high <= depth' /\ depth' \in Nat
    BY <1>2 DEF Frames
  <1>6. Course(e, high - 1)'
    BY <1>2, <1>3, <1>4, <1>5, CourseStays DEF history
  <1>7. site'[high].clean \notin {"CLEAN", "CATCH"}
    BY <1>4, SiteFacts
  <1>8. PICK low \in Frames : low = chosen'[e]
    <2>1. chosen'[e] \in 1..depth' /\ depth' \in Frames
      BY <1>6 DEF Course, HandlerAlive, TypeOK
    <2>2. QED
      BY <2>1 DEF Frames
  <1>9. low <= high - 1 /\ low <= high
    BY <1>6, <1>8 DEF Course, Frames
  <1>10. Pads(low, high)' = Pads(low, high - 1)'
    BY <1>7, <1>9 DEF Pads, Frames
  <1>11. \A i \in (low + 1)..high : site'[i].clean # "CATCH"
    <2>1. \A i \in (low + 1)..high : i \in (low + 1)..(high - 1) \/ i = high
      BY DEF Frames
    <2>2. QED
      BY <1>6, <1>7, <1>8, <2>1 DEF Course
  <1>12. QED
    BY <1>3, <1>6, <1>8, <1>9, <1>10, <1>11 DEF Course

\* Passing a frame that continues leaves the course as long as it was.
LEMMA AdvanceCourse ==
  ASSUME TypeOK, TypeOK', WalkOK, NormalAdvance, NEW e \in Exceptions, e = exc,
         NEW high \in Frames, high = pos
  PROVE  Course(e, high - 1)'
  <1>1. Course(e, high) /\ chosen[e] \in Frames /\ chosen[e] < high /\ site[high].clean = "CONTINUE"
    BY SelectedIsChosen DEF NormalAdvance, CleanupAnswer, WalkOK, NormalOK, Frames
  <1>2. PICK low \in Frames : low = chosen[e]
    BY <1>1
  <1>3. UNCHANGED <<program, words, history>>
    BY DEF NormalAdvance, Advance
  <1>4. low <= high - 1
    BY <1>1, <1>2 DEF Frames
  <1>5. \A i \in low..high : i \in low..(high - 1) \/ i = high
    BY DEF Frames
  <1>6. \A i \in low..(high - 1) : i \in low..high
    BY DEF Frames
  <1>7. Pads(low, high) = Pads(low, high - 1)
    BY <1>1, <1>2, <1>5, <1>6 DEF Pads
  <1>8. \A i \in (low + 1)..(high - 1) : i \in (low + 1)..high
    BY DEF Frames
  <1>9. Course(e, high - 1)
    BY <1>1, <1>2, <1>4, <1>7, <1>8 DEF Course
  <1>10. QED
    BY <1>3, <1>9
    DEF Course, HandlerAlive, Pads, Interrupted, program, history

\* A search that finds its handler has looked at every frame phase two will
\* ask for cleanups.
LEMMA FoundCourse ==
  ASSUME TypeOK, WalkOK, SearchOK, SearchFound, NEW e \in Exceptions, e = exc,
         NEW high \in Frames, high = depth
  PROVE  Course(e, high)'
  <1>1. /\ pos \in Frames /\ pos <= high /\ before = Interrupted(pos)
        /\ \A i \in (pos + 1)..high : site[i].clean # "CATCH"
    BY DEF SearchFound, Named, Resolved, WalkOK, CursorOK, SearchOK, Walking, TypeOK, Frames
  <1>2. PICK low \in Frames : low = pos
    BY <1>1
  <1>3. e \in site[low].catches
    BY <1>2 DEF SearchFound, SearchAnswer
  <1>4. /\ chosen'[e] = low /\ words'[e] = NormalWords(Key(pos, before))
        /\ due'[e] = Pads(low, high) /\ UNCHANGED program
    BY <1>2 DEF SearchFound, Pads, TypeOK
  <1>5. words'[e] = NormalWords(Key(low, Interrupted(low)))
    BY <1>1, <1>2, <1>4, Zenon
  <1>6. HandlerAlive(e)'
    BY <1>1, <1>2, <1>3, <1>4, <1>5
    DEF HandlerAlive, program, Interrupted, Key, Sp, Frames, NormalWords
  <1>7. QED
    BY <1>1, <1>2, <1>4, <1>6 DEF Course, Pads, program


\* Which steps start or continue each kind of walk.
LEMMA NormalSteps ==
  ASSUME [Next]_vars, mode' = "normal"
  PROVE  \/ \E e \in Exceptions, s \in PadSites : Resume(e, s) /\ IsNormal(words[e])
         \/ SearchFound \/ NormalAdvance
         \/ UNCHANGED vars
  <1>1. CASE Program
    BY <1>1 DEF Program, Return, Call, Signal, Trace, EndCatch, Resume, Raise, Rethrow,
       ForcedUnwind, NullException, Begin
  <1>2. CASE Unwinder
    BY <1>2 DEF Unwinder, SearchWalk, NormalWalk, ForceWalk, TraceWalk, SearchEnd,
       SearchAdvance, SearchFail, NormalFail, NormalInstall, ForceStopped, ForceEnd,
       ForceAdvance, ForceInstall, ForceFail, TraceEnd, TraceAdvance, TraceFail,
       Answer, Install, Advance
  <1>3. CASE Trapped
    BY <1>3 DEF Trapped
  <1>4. QED
    BY <1>1, <1>2, <1>3 DEF Next

LEMMA ForceSteps ==
  ASSUME [Next]_vars, mode' = "force"
  PROVE  \/ \E e \in Exceptions, s \in PadSites : Resume(e, s) /\ ~IsNormal(words[e])
         \/ \E e \in Exceptions, s \in Sites : Rethrow(e, s) /\ ~IsNormal(words[e])
         \/ \E e \in Exceptions, s \in Sites, f \in StopFns, p \in Params :
              ForcedUnwind(e, s, f, p)
         \/ ForceAdvance
         \/ UNCHANGED vars
  <1>1. CASE Program
    BY <1>1 DEF Program, Return, Call, Signal, Trace, EndCatch, Resume, Raise, Rethrow,
       ForcedUnwind, NullException, Begin
  <1>2. CASE Unwinder
    BY <1>2 DEF Unwinder, SearchWalk, NormalWalk, ForceWalk, TraceWalk, SearchEnd,
       SearchAdvance, SearchFound, SearchFail, NormalAdvance, NormalFail, NormalInstall,
       ForceStopped, ForceEnd, ForceInstall, ForceFail, TraceEnd, TraceAdvance, TraceFail,
       Answer, Install, Advance
  <1>3. CASE Trapped
    BY <1>3 DEF Trapped
  <1>4. QED
    BY <1>1, <1>2, <1>3 DEF Next

LEMMA SearchSteps ==
  ASSUME [Next]_vars, mode' = "search"
  PROVE  \/ pos' = depth'
         \/ SearchAdvance
         \/ UNCHANGED vars
  <1>1. CASE Program
    BY <1>1 DEF Program, Return, Call, Signal, Trace, EndCatch, Resume, Raise, Rethrow,
       ForcedUnwind, NullException, Begin
  <1>2. CASE Unwinder
    BY <1>2 DEF Unwinder, SearchWalk, NormalWalk, ForceWalk, TraceWalk, SearchEnd,
       SearchFound, SearchFail, NormalAdvance, NormalFail, NormalInstall, ForceStopped,
       ForceEnd, ForceAdvance, ForceInstall, ForceFail, TraceEnd, TraceAdvance, TraceFail,
       Answer, Install, Advance
  <1>3. CASE Trapped
    BY <1>3 DEF Trapped
  <1>4. QED
    BY <1>1, <1>2, <1>3 DEF Next

LEMMA NextNormal ==
  ASSUME TypeOK, TypeOK', HeldOK, HeldOK', WordsOK, WalkOK, SearchOK, [Next]_vars
  PROVE  NormalOK'
  <1> SUFFICES ASSUME mode' = "normal"
               PROVE  Course(exc, pos)' /\ goal' = words'[exc'][2] /\ forced'[exc'] = <<0, 0>>
    BY DEF NormalOK
  <1>0. depth \in Frames
    BY DEF TypeOK
  <1>1. ASSUME NEW e \in Exceptions, NEW s \in PadSites, Resume(e, s), IsNormal(words[e])
        PROVE  Course(exc, pos)' /\ goal' = words'[exc'][2] /\ forced'[exc'] = <<0, 0>>
    <2>1. PICK high \in Frames : high = depth
      BY <1>0
    <2>2. forced[e] = <<0, 0>> /\ Course(e, high)'
      BY <1>1, <2>1, ResumeCourse
    <2>3. /\ exc' = e /\ pos' = high /\ goal' = words[e][2]
          /\ words' = words /\ forced' = forced
      BY <1>1, <2>1 DEF Resume, Begin, history
    <2>4. QED
      BY <2>2, <2>3 DEF Course, HandlerAlive
  <1>2. CASE SearchFound
    <2>1. PICK e \in Exceptions : e = exc
      BY <1>2 DEF SearchFound, WalkOK, PropagatedOK, TypeOK
    <2>2. PICK high \in Frames : high = depth
      BY <1>0
    <2>3. Course(e, high)'
      BY <1>2, <2>1, <2>2, FoundCourse
    <2>4. /\ exc' = e /\ pos' = high /\ forced'[e] = <<0, 0>>
          /\ goal' = Key(pos, before) /\ words'[e] = NormalWords(Key(pos, before))
      BY <1>2, <2>1, <2>2 DEF SearchFound, TypeOK
    <2>5. QED
      BY <2>3, <2>4 DEF Course, HandlerAlive, NormalWords
  <1>3. CASE NormalAdvance
    <2>0. mode = "normal"
      BY <1>3 DEF NormalAdvance
    <2>1. PICK e \in Exceptions : e = exc
      BY <2>0, SelectedIsChosen DEF WalkOK
    <2>2. PICK high \in Frames : high = pos
      BY <2>0, SelectedIsChosen DEF WalkOK
    <2>3. Course(e, high - 1)'
      BY <1>3, <2>1, <2>2, AdvanceCourse
    <2>4. /\ exc' = e /\ pos' = high - 1
          /\ goal' = goal /\ words' = words /\ forced' = forced
      BY <1>3, <2>1, <2>2 DEF NormalAdvance, Advance, history
    <2>5. forced[e] = <<0, 0>> /\ goal = words[e][2]
      BY <2>0, <2>1 DEF WalkOK, NormalOK
    <2>6. QED
      BY <2>3, <2>4, <2>5 DEF Course, HandlerAlive
  <1>4. CASE UNCHANGED vars
    BY <1>4 DEF WalkOK, NormalOK, Course, HandlerAlive, Interrupted, Pads, vars,
       program, walk, history
  <1>5. QED
    BY <1>1, <1>2, <1>3, <1>4, NormalSteps

LEMMA NextForce ==
  ASSUME TypeOK, TypeOK', HeldOK, HeldOK', WordsOK, WalkOK, [Next]_vars
  PROVE  ForceOK'
  <1> SUFFICES ASSUME mode' = "force"
               PROVE  /\ stop' = forced'[exc'] /\ words'[exc'] = stop'
                      /\ ~IsNormal(stop')
                      /\ ForcedCourse(exc, pos)'
    BY DEF ForceOK, IsNormal
  <1>0. depth \in Frames /\ pos \in 0..MaxDepth /\ due \in [Exceptions -> SUBSET Frames]
    BY DEF TypeOK
  <1>1. ASSUME NEW kind, NEW e \in Exceptions, NEW s, Begin(kind, "force", e, s),
               at[e] = depth, ~IsNormal(words[e]), stop' = words[e],
               UNCHANGED <<words, history>>
        PROVE  /\ stop' = forced'[exc'] /\ words'[exc'] = stop'
               /\ ~IsNormal(stop')
               /\ ForcedCourse(exc, pos)'
    <2>1. at[e] # 0
      BY <1>0, <1>1 DEF Frames
    <2>2. forced[e] = words[e] /\ ForcedCourse(e, depth - 1)
      BY <1>1, <2>1 DEF WordsOK, Kept
    <2>3. exc' = e /\ pos' = depth /\ \A i \in Frames : i # depth => site'[i] = site[i]
      BY <1>1, BeginSite DEF Begin
    <2>4. ASSUME NEW i \in due'[e]
          PROVE  i <= depth /\ site'[i].force \in {"CLEAN", "CATCH"}
      <3>1. i \in Frames /\ i <= depth - 1 /\ site[i].force \in {"CLEAN", "CATCH"}
        BY <1>0, <1>1, <2>2 DEF ForcedCourse, history
      <3>2. i <= depth /\ i # depth
        BY <1>0, <3>1 DEF Frames
      <3>3. QED
        BY <2>3, <3>1, <3>2
    <2>5. ForcedCourse(exc, pos)'
      BY <2>3, <2>4 DEF ForcedCourse
    <2>6. QED
      BY <1>1, <2>2, <2>3, <2>5 DEF history
  <1>2. CASE \E e \in Exceptions, s \in PadSites : Resume(e, s) /\ ~IsNormal(words[e])
    BY <1>1, <1>2 DEF Resume
  <1>3. CASE \E e \in Exceptions, s \in Sites : Rethrow(e, s) /\ ~IsNormal(words[e])
    BY <1>1, <1>3 DEF Rethrow
  <1>4. ASSUME NEW e \in Exceptions, NEW s \in Sites, NEW f \in StopFns, NEW p \in Params,
               ForcedUnwind(e, s, f, p)
        PROVE  /\ stop' = forced'[exc'] /\ words'[exc'] = stop'
               /\ ~IsNormal(stop')
               /\ ForcedCourse(exc, pos)'
    <2>1. exc' = e /\ pos' = depth /\ stop' = <<f, p>>
      BY <1>4 DEF ForcedUnwind, Begin
    <2>2. words'[e] = <<f, p>> /\ forced'[e] = <<f, p>> /\ ~IsNormal(<<f, p>>)
      BY <1>4, WordPairs DEF ForcedUnwind, ForcedWords, TypeOK
    <2>3. due'[e] = {i \in 1..depth : site'[i].force \in {"CLEAN", "CATCH"}}
      BY <1>0, <1>4 DEF ForcedUnwind
    <2>4. ForcedCourse(exc, pos)'
      BY <1>0, <2>1, <2>3 DEF ForcedCourse, Frames
    <2>5. QED
      BY <2>1, <2>2, <2>4
  <1>5. CASE ForceAdvance
    <2>1. /\ stop = forced[exc] /\ words[exc] = stop /\ ~IsNormal(stop)
          /\ ForcedCourse(exc, pos) /\ exc \in Exceptions
      BY <1>5 DEF ForceAdvance, WalkOK, ForceOK, PropagatedOK, TypeOK
    <2>2. /\ pos' = pos - 1 /\ site[pos].force = "CONTINUE"
          /\ UNCHANGED <<program, words, exc, stop, history>>
      BY <1>5 DEF ForceAdvance, Advance
    <2>3. ASSUME NEW i \in due[exc] PROVE i <= pos - 1
      <3>1. i \in Frames /\ i <= pos /\ i # pos
        BY <1>0, <2>1, <2>2 DEF ForcedCourse
      <3>2. QED
        BY <1>0, <3>1 DEF Frames
    <2>4. ForcedCourse(exc, pos)'
      BY <2>1, <2>2, <2>3 DEF ForcedCourse, program, history
    <2>5. QED
      BY <2>1, <2>2, <2>4 DEF history
  <1>6. CASE UNCHANGED vars
    BY <1>6 DEF WalkOK, ForceOK, ForcedCourse, vars, program, walk, history
  <1>7. QED
    BY <1>2, <1>3, <1>4, <1>5, <1>6, ForceSteps

LEMMA NextSearch ==
  ASSUME TypeOK, TypeOK', WalkOK, SearchOK, [Next]_vars
  PROVE  SearchOK'
  <1> SUFFICES ASSUME mode' = "search", NEW i \in (pos' + 1)..depth'
               PROVE  site'[i].clean # "CATCH"
    BY DEF SearchOK
  <1>0. depth \in Frames /\ depth' \in Frames /\ pos \in 0..MaxDepth
    BY DEF TypeOK
  <1>1. CASE pos' = depth'
    <2>1. PICK d \in Frames : d = depth'
      BY <1>0
    <2>2. i \in (d + 1)..d
      BY <1>1, <2>1
    <2>3. QED
      BY <2>2 DEF Frames
  <1>2. CASE SearchAdvance
    <2>1. /\ UNCHANGED <<depth, site>> /\ pos' = pos - 1 /\ pos \in Frames
          /\ exc \in Exceptions /\ mode = "search"
      BY <1>0, <1>2
      DEF SearchAdvance, Advance, program, Resolved, WalkOK, PropagatedOK, TypeOK, Frames
    <2>2. CASE i = pos
      BY <1>2, <2>1, <2>2, OnStack DEF SearchAdvance, SearchAnswer
    <2>3. CASE i # pos
      <3>1. i \in (pos + 1)..depth
        BY <1>0, <2>1, <2>3 DEF Frames
      <3>2. QED
        BY <2>1, <3>1 DEF SearchOK
    <2>4. QED
      BY <2>2, <2>3
  <1>3. CASE UNCHANGED vars
    BY <1>3 DEF SearchOK, vars, program, walk
  <1>4. QED
    BY <1>1, <1>2, <1>3, SearchSteps

-----------------------------------------------------------------------------
(* The theorems.                                                           *)

LEMMA InitInductive == Init => Inductive
  <1> SUFFICES ASSUME Init PROVE Inductive
    OBVIOUS
  <1>1. TypeOK
    BY InitType
  <1>2. StackOK
    BY SiteFacts DEF Init, StackOK, Frames
  <1>3. HeldOK /\ WordsOK
    BY DEF Init, HeldOK, WordsOK
  <1>4. WalkOK /\ SearchOK
    BY DEF Init, WalkOK, CursorOK, PropagatedOK, NormalOK, ForceOK, SearchOK, Walking
  <1>5. QED
    BY <1>1, <1>2, <1>3, <1>4 DEF Inductive

LEMMA NextInductive == Inductive /\ [Next]_vars => Inductive'
  <1> SUFFICES ASSUME Inductive, [Next]_vars PROVE Inductive'
    OBVIOUS
  <1>1. TypeOK /\ StackOK /\ HeldOK /\ WordsOK /\ WalkOK /\ SearchOK
    BY DEF Inductive
  <1>2. TypeOK'
    BY <1>1, NextType
  <1>3. StackOK'
    BY <1>1, NextStack
  <1>4. HeldOK'
    BY <1>1, NextHeld
  <1>5. WordsOK'
    BY <1>1, <1>2, <1>4, NextWords
  <1>6. CursorOK' /\ PropagatedOK'
    BY <1>1, <1>2, <1>3, NextCursor, NextPropagated
  <1>7. NormalOK' /\ ForceOK'
    BY <1>1, <1>2, <1>4, NextNormal, NextForce
  <1>8. SearchOK'
    BY <1>1, <1>2, NextSearch
  <1>9. QED
    BY <1>2, <1>3, <1>4, <1>5, <1>6, <1>7, <1>8 DEF Inductive, WalkOK

(***************************************************************************)
(* What one entry of the unwinder leaves in exception headers and on the   *)
(* stack is what the next one relies on, for every program, depth and      *)
(* nesting of propagations (runtime.rs:528-610, 630-748).                  *)
(***************************************************************************)
THEOREM InductiveHolds == Spec => []Inductive
  BY InitInductive, NextInductive, PTL DEF Spec

(***************************************************************************)
(* The state stays within its types: in particular resume words are pairs  *)
(* of addresses and an entry only answers its documented reason codes.     *)
(***************************************************************************)
THEOREM TypeCorrect == Spec => []TypeOK
  <1>1. Inductive => TypeOK
    BY DEF Inductive
  <1>2. QED
    BY <1>1, InductiveHolds, PTL

(***************************************************************************)
(* While a cleanup runs for a normal propagation its handler is alive, is  *)
(* the frame its words name, and is older (runtime.rs:554-594, 701-711).   *)
(***************************************************************************)
THEOREM HandlerStaysAhead == Spec => []HandlerAhead
  <1>1. Inductive => HandlerAhead
    <2> SUFFICES ASSUME Inductive, NEW e \in Exceptions, Propagating(e)
                 PROVE  HandlerAlive(e) /\ chosen[e] < at[e]
      BY DEF HandlerAhead
    <2>1. TypeOK /\ HeldOK /\ WordsOK
      BY DEF Inductive
    <2>2. at[e] # 0 /\ at[e] \in 0..MaxDepth /\ depth \in Frames
      BY <2>1 DEF HeldOK, Propagating, TypeOK
    <2>3. Course(e, at[e] - 1)
      BY <2>1, <2>2 DEF WordsOK, Kept, Propagating
    <2>4. HandlerAlive(e) /\ chosen[e] <= at[e] - 1 /\ chosen[e] \in 1..depth
      BY <2>3 DEF Course, HandlerAlive
    <2>5. QED
      BY <2>2, <2>4 DEF Frames
  <1>2. QED
    BY <1>1, InductiveHolds, PTL

(***************************************************************************)
(* Phase two, fresh or resumed, is always at or above the frame phase one  *)
(* chose and recognises exactly that frame by its key (runtime.rs:848-861, *)
(* cursor.rs:219-230).                                                     *)
(***************************************************************************)
THEOREM PhaseTwoStaysOnCourse == Spec => []PhaseTwoOnCourse
  <1>1. Inductive => PhaseTwoOnCourse
    <2> SUFFICES ASSUME Inductive, mode = "normal"
                 PROVE  /\ HandlerAlive(exc) /\ chosen[exc] <= pos
                        /\ goal = words[exc][2]
                        /\ Selected <=> pos = chosen[exc]
      BY DEF PhaseTwoOnCourse
    <2>1. TypeOK /\ CursorOK /\ PropagatedOK /\ NormalOK
      BY DEF Inductive, WalkOK
    <2>2. QED
      BY <2>1, SelectedIsChosen DEF NormalOK, Course
  <1>2. QED
    BY <1>1, InductiveHolds, PTL

(***************************************************************************)
(* A propagation resumes as the kind it was started as, with its own stop  *)
(* function (runtime.rs:540-594).                                          *)
(***************************************************************************)
THEOREM KindIsKept == Spec => []ResumeKeepsKind
  <1>1. Inductive => ResumeKeepsKind
    BY DEF Inductive, WalkOK, NormalOK, ForceOK, ResumeKeepsKind, IsNormal
  <1>2. QED
    BY <1>1, InductiveHolds, PTL

(***************************************************************************)
(* A forced unwind reaches the end of the stack only after the pad of each *)
(* frame that had one has run (runtime.rs:898-964).                        *)
(***************************************************************************)
THEOREM ForcedRunsEveryPad == Spec => []ForcedCleansAll
  <1>1. Inductive => ForcedCleansAll
    <2> SUFFICES ASSUME Inductive, mode = "force", pos = 0
                 PROVE  due[exc] = {}
      BY DEF ForcedCleansAll
    <2>1. exc \in Exceptions /\ ForcedCourse(exc, 0) /\ due[exc] \subseteq Frames
      BY DEF Inductive, WalkOK, PropagatedOK, ForceOK, TypeOK
    <2>2. QED
      BY <2>1 DEF ForcedCourse, Frames
  <1>2. QED
    BY <1>1, InductiveHolds, PTL

\* How phase two ends.
LEMMA NormalEnds ==
  ASSUME Next, mode = "normal", mode' # "normal"
  PROVE  \/ NormalInstall /\ mode' = "run" /\ result' = "NONE"
         \/ NormalFail /\ (mode' = "run" => result' = "FATAL2")
  <1>1. ~Program /\ ~Trapped
    BY DEF Program, Return, Call, Signal, Trace, EndCatch, Resume, Raise, Rethrow,
       ForcedUnwind, NullException, Trapped
  <1>2. ~SearchWalk /\ ~ForceWalk /\ ~TraceWalk
    BY DEF SearchWalk, ForceWalk, TraceWalk, SearchEnd, SearchAdvance, SearchFound,
       SearchFail, ForceStopped, ForceEnd, ForceAdvance, ForceInstall, ForceFail,
       TraceEnd, TraceAdvance, TraceFail
  <1>3. ~NormalAdvance
    BY DEF NormalAdvance, Advance
  <1>4. QED
    BY <1>1, <1>2, <1>3 DEF Next, Unwinder, NormalWalk, NormalInstall, NormalFail,
       Install, Answer

\* What is known where phase two installs a pad.
LEMMA InstalledPad ==
  ASSUME Inductive, NormalInstall
  PROVE  /\ exc \in Exceptions /\ pos \in Frames /\ chosen[exc] \in Frames
         /\ Selected <=> pos = chosen[exc]
         /\ ~Selected => site[pos].clean = "CLEAN" /\ CleanupAnswer = "CLEAN"
         /\ due[exc] = Pads(chosen[exc], pos) /\ chosen[exc] <= pos
         /\ due'[exc] = due[exc] \ {pos}
         /\ status'[exc] = IF CleanupAnswer = "CATCH" THEN "handler" ELSE "cleanup"
  <1>1. TypeOK /\ CursorOK /\ PropagatedOK /\ NormalOK /\ mode = "normal"
    BY DEF Inductive, WalkOK, NormalInstall
  <1>2. /\ exc \in Exceptions /\ pos \in Frames /\ chosen[exc] \in Frames
        /\ chosen[exc] <= pos /\ (Selected <=> pos = chosen[exc])
    BY <1>1, SelectedIsChosen
  <1>3. Course(exc, pos)
    BY <1>1 DEF NormalOK
  <1>4. ASSUME ~Selected PROVE site[pos].clean = "CLEAN" /\ CleanupAnswer = "CLEAN"
    <2>1. pos \in (chosen[exc] + 1)..pos
      BY <1>2, <1>4 DEF Frames
    <2>2. site[pos].clean # "CATCH"
      BY <1>3, <2>1 DEF Course
    <2>3. QED
      BY <1>4, <2>2 DEF NormalInstall, CleanupAnswer
  <1>5. /\ due'[exc] = due[exc] \ {pos}
        /\ status'[exc] = IF CleanupAnswer = "CATCH" THEN "handler" ELSE "cleanup"
    BY <1>1, <1>2 DEF NormalInstall, Install, TypeOK
  <1>6. QED
    BY <1>2, <1>3, <1>4, <1>5 DEF Course

(***************************************************************************)
(* A normal propagation ends in the handler phase one chose, and no pad it *)
(* should have run is left then.                                           *)
(***************************************************************************)
THEOREM CaughtOnlyWhereChosen == Spec => CaughtWhereChosen
  <1>1. ASSUME Inductive, [Next]_vars
        PROVE  [mode = "normal" /\ Installs /\ status'[exc] = "handler"
                  => pos = chosen[exc] /\ due'[exc] = {}]_vars
    <2> SUFFICES ASSUME Next, mode = "normal", Installs, status'[exc] = "handler"
                 PROVE  pos = chosen[exc] /\ due'[exc] = {}
      BY <1>1
    <2>1. NormalInstall
      BY NormalEnds DEF Installs
    <2>2. Selected
      BY <1>1, <2>1, InstalledPad
    <2>3. pos = chosen[exc] /\ due[exc] = Pads(pos, pos) /\ due'[exc] = due[exc] \ {pos}
      BY <1>1, <2>1, <2>2, InstalledPad
    <2>4. pos \in Frames
      BY <1>1, <2>1, InstalledPad
    <2>5. QED
      BY <2>3, <2>4 DEF Pads, Frames
  <1>2. QED
    BY <1>1, InductiveHolds, PTL DEF Spec, CaughtWhereChosen

(***************************************************************************)
(* The pad phase two runs is the newest one still to run: none is skipped, *)
(* none runs twice.                                                        *)
(***************************************************************************)
THEOREM PadsRunNewestFirst == Spec => NewestFirst
  <1>1. ASSUME Inductive, [Next]_vars
        PROVE  [mode = "normal" /\ Installs
                  => pos \in due[exc] /\ \A i \in due[exc] : i <= pos]_vars
    <2> SUFFICES ASSUME Next, mode = "normal", Installs
                 PROVE  pos \in due[exc] /\ \A i \in due[exc] : i <= pos
      BY <1>1
    <2>1. NormalInstall
      BY NormalEnds DEF Installs
    <2>2. /\ pos \in Frames /\ chosen[exc] \in Frames /\ chosen[exc] <= pos
          /\ due[exc] = Pads(chosen[exc], pos)
          /\ pos = chosen[exc] \/ site[pos].clean = "CLEAN"
      BY <1>1, <2>1, InstalledPad
    <2>3. QED
      BY <2>2 DEF Pads, Frames
  <1>2. QED
    BY <1>1, InductiveHolds, PTL DEF Spec, NewestFirst

(***************************************************************************)
(* Phase two fails only in a frame that phase one could not see failing.   *)
(***************************************************************************)
THEOREM PhaseTwoFailsOnDefectOnly == Spec => PhaseTwoFailsOnlyOnDefect
  <1>1. ASSUME Inductive, [Next]_vars
        PROVE  [mode = "normal" /\ (mode' = "trap" \/ (mode' = "run" /\ result' = "FATAL2"))
                  => pos > 0 /\ Defective(site[pos], pos = chosen[exc])]_vars
    <2> SUFFICES ASSUME Next, mode = "normal",
                        mode' = "trap" \/ (mode' = "run" /\ result' = "FATAL2")
                 PROVE  pos > 0 /\ Defective(site[pos], pos = chosen[exc])
      BY <1>1
    <2>1. NormalFail
      BY NormalEnds
    <2>2. TypeOK /\ CursorOK /\ PropagatedOK /\ NormalOK
      BY <1>1 DEF Inductive, WalkOK
    <2>3. pos \in Frames /\ (Selected <=> pos = chosen[exc])
      BY <2>2, SelectedIsChosen
    <2>4. pos > 0 /\ pos # 0
      BY <2>3 DEF Frames
    <2>5. Defective(site[pos], pos = chosen[exc])
      BY <2>1, <2>3, <2>4
      DEF NormalFail, Defective, CleanupAnswer, Named, Resolved, Walkable, Landable
    <2>6. QED
      BY <2>4, <2>5
  <1>2. QED
    BY <1>1, InductiveHolds, PTL DEF Spec, PhaseTwoFailsOnlyOnDefect

-----------------------------------------------------------------------------
(* What the refinement needs besides Inductive: a forced propagation has   *)
(* still to run every pad below it, and no lost exception propagates.      *)

HasForcedPad(i) == site[i].force \in {"CLEAN", "CATCH"}

NotLost == exc # NoException => status[exc] # "lost"

HeldDue ==
  \A e \in Exceptions : at[e] # 0 /\ forced[e] # <<0, 0>> =>
    \A i \in Frames : i < at[e] /\ HasForcedPad(i) => i \in due[e]

WalkDue ==
  mode = "force" =>
    /\ at[exc] \in {0, depth}
    /\ \A i \in Frames : i <= pos /\ HasForcedPad(i) => i \in due[exc] \/ i = at[exc]

Complete == NotLost /\ HeldDue /\ WalkDue

\* No step changes the site of a frame below the running one.
LEMMA SitesBelow ==
  ASSUME TypeOK, StackOK, WalkOK, [Next]_vars
  PROVE  \A i \in Frames : i < depth /\ i < depth' => site'[i] = site[i]
  <1>0. depth \in Frames /\ site \in [Frames -> Sites \cup {Trampoline}]
    BY DEF TypeOK
  <1>1. ASSUME NEW kind, NEW m, NEW e, NEW s, Begin(kind, m, e, s)
        PROVE  \A i \in Frames : i < depth => site'[i] = site[i]
    BY <1>0, <1>1, BeginSite DEF Frames
  <1>2. CASE UNCHANGED site
    BY <1>2
  <1>3. CASE Program
    <2>1. CASE Return
      BY <2>1 DEF Return, Truncate
    <2>2. ASSUME NEW s, Call(s) \/ Signal(s) PROVE \A i \in Frames : i < depth => site'[i] = site[i]
      <3>1. CASE Call(s)
        BY <1>0, <3>1 DEF Call, Frames
      <3>2. CASE Signal(s)
        BY <1>0, <3>2 DEF Signal, Frames
      <3>3. QED
        BY <2>2, <3>1, <3>2
    <2>3. ASSUME NEW s, Trace(s) PROVE \A i \in Frames : i < depth => site'[i] = site[i]
      BY <1>1, <2>3 DEF Trace
    <2>4. ASSUME NEW e, NEW s, Raise(e, s) \/ Rethrow(e, s) \/ Resume(e, s)
                   \/ \E f \in StopFns, p \in Params : ForcedUnwind(e, s, f, p)
          PROVE  \A i \in Frames : i < depth => site'[i] = site[i]
      BY <1>1, <2>4 DEF Raise, Rethrow, Resume, ForcedUnwind
    <2>5. ASSUME NEW e, NEW kind, EndCatch(e) \/ NullException(kind) PROVE UNCHANGED site
      BY <2>5 DEF EndCatch, NullException, program
    <2>6. QED
      BY <1>3, <2>1, <2>2, <2>3, <2>4, <2>5 DEF Program
  <1>4. CASE Unwinder
    <2>1. ASSUME NEW r, Answer(r) PROVE UNCHANGED site
      BY <2>1 DEF Answer, program
    <2>2. CASE NormalInstall \/ ForceInstall
      BY <2>2 DEF NormalInstall, ForceInstall, Install, Truncate
    <2>3. CASE SearchFound \/ SearchAdvance \/ NormalAdvance \/ ForceAdvance \/ TraceAdvance
      BY <1>2, <2>3 DEF SearchFound, SearchAdvance, NormalAdvance, ForceAdvance, TraceAdvance,
         Advance, program
    <2>4. CASE SearchEnd \/ SearchFail \/ NormalFail \/ ForceStopped \/ ForceEnd
               \/ ForceFail \/ TraceEnd \/ TraceFail
      BY <1>2, <2>1, <2>4 DEF SearchEnd, SearchFail, NormalFail, ForceStopped, ForceEnd,
         ForceFail, TraceEnd, TraceFail
    <2>5. QED
      BY <1>4, <2>2, <2>3, <2>4 DEF Unwinder, SearchWalk, NormalWalk, ForceWalk, TraceWalk
  <1>5. CASE Trapped \/ UNCHANGED vars
    BY <1>2, <1>5 DEF Trapped, vars, program
  <1>6. QED
    BY <1>3, <1>4, <1>5 DEF Next

\* What a step does to the promises kept for the exceptions.
LEMMA StepKinds ==
  ASSUME [Next]_vars
  PROVE  \/ UNCHANGED <<status, at, history>>
         \/ \E e \in Exceptions, s \in Sites, f \in StopFns, p \in Params : ForcedUnwind(e, s, f, p)
         \/ \E e \in Exceptions : EndCatch(e)
         \/ SearchFound \/ NormalInstall \/ ForceInstall
         \/ /\ mode \in Walking /\ entry \notin {"resume", "rethrow"}
            /\ UNCHANGED <<status, at>> /\ Forget({exc})
  <1>1. CASE Program
    <2>1. CASE Return \/ \E s \in Sites : Call(s) \/ Signal(s) \/ Trace(s)
      BY <2>1 DEF Return, Call, Signal, Trace, Begin
    <2>2. CASE \E e \in Exceptions, s \in PadSites : Resume(e, s)
      BY <2>2 DEF Resume, Begin
    <2>3. CASE \E e \in Exceptions, s \in Sites : Raise(e, s) \/ Rethrow(e, s)
      BY <2>3 DEF Raise, Rethrow, Begin
    <2>4. CASE \E kind \in {"raise", "force", "rethrow", "resume"} : NullException(kind)
      BY <2>4 DEF NullException, program
    <2>5. QED
      BY <1>1, <2>1, <2>2, <2>3, <2>4 DEF Program
  <1>2. CASE Unwinder
    <2>1. CASE SearchAdvance \/ NormalAdvance \/ ForceAdvance \/ TraceAdvance
      BY <2>1 DEF SearchAdvance, NormalAdvance, ForceAdvance, TraceAdvance, Advance, program
    <2>2. ASSUME NEW r, Answer(r), mode \in Walking
          PROVE  \/ UNCHANGED <<status, at, history>>
                 \/ /\ mode \in Walking /\ entry \notin {"resume", "rethrow"}
                    /\ UNCHANGED <<status, at>> /\ Forget({exc})
      BY <2>2 DEF Answer, program
    <2>3. CASE SearchEnd \/ SearchFail \/ NormalFail \/ ForceStopped \/ ForceEnd
               \/ ForceFail \/ TraceEnd \/ TraceFail
      BY <2>2, <2>3 DEF SearchEnd, SearchFail, NormalFail, ForceStopped, ForceEnd,
         ForceFail, TraceEnd, TraceFail, Walking
    <2>4. QED
      BY <1>2, <2>1, <2>3 DEF Unwinder, SearchWalk, NormalWalk, ForceWalk, TraceWalk
  <1>3. CASE Trapped \/ UNCHANGED vars
    BY <1>3 DEF Trapped, vars, program
  <1>4. QED
    BY <1>1, <1>2, <1>3 DEF Next

\* What an installation does to exception x.
LEMMA InstallMoves ==
  ASSUME TypeOK, exc \in Exceptions, NEW pad, Install(pad), NEW x \in Exceptions
  PROVE  /\ x = exc => /\ at'[x] = pos /\ due'[x] = due[x] \ {pos}
                       /\ forced'[x] = forced[x] /\ chosen'[x] = chosen[x]
                       /\ status'[x] = IF pad = "CATCH" THEN "handler" ELSE "cleanup"
         /\ x # exc /\ at[x] > pos =>
              /\ at'[x] = 0 /\ due'[x] = {} /\ forced'[x] = <<0, 0>> /\ chosen'[x] = 0
              /\ status'[x] = "lost"
         /\ x # exc /\ ~(at[x] > pos) =>
              /\ at'[x] = at[x] /\ due'[x] = due[x] /\ forced'[x] = forced[x]
              /\ chosen'[x] = chosen[x] /\ status'[x] = status[x]
  BY DEF TypeOK, Install

-----------------------------------------------------------------------------
(* Complete is an invariant.                                               *)

LEMMA NextNotLost ==
  ASSUME TypeOK, WalkOK, NotLost, [Next]_vars
  PROVE  NotLost'
  <1>1. CASE exc' = NoException
    BY <1>1 DEF NotLost
  <1>2. CASE UNCHANGED <<status, exc>>
    BY <1>2 DEF NotLost
  <1>3. ASSUME NEW kind, NEW m, NEW e \in Exceptions, NEW s, Begin(kind, m, e, s),
               status[e] \in {"idle", "cleanup", "handler"}
        PROVE  NotLost'
    BY <1>3 DEF Begin, NotLost
  <1>4. CASE Program
    <2>1. exc = NoException
      BY <1>4 DEF Program, Return, Call, Signal, Trace, EndCatch, Resume, Raise, Rethrow,
         ForcedUnwind, NullException, WalkOK, PropagatedOK
    <2>2. CASE Return \/ \E s \in Sites : Call(s) \/ Signal(s) \/ Trace(s)
      BY <1>1, <2>1, <2>2 DEF Return, Call, Signal, Trace, Begin
    <2>3. CASE \E e \in Exceptions, s \in PadSites : Resume(e, s)
      BY <1>3, <2>3 DEF Resume
    <2>4. CASE \E e \in Exceptions, s \in Sites :
                 \/ Raise(e, s) \/ Rethrow(e, s)
                 \/ \E f \in StopFns, p \in Params : ForcedUnwind(e, s, f, p)
      BY <1>3, <2>4 DEF Raise, Rethrow, ForcedUnwind
    <2>5. CASE \E e \in Exceptions : EndCatch(e)
      BY <1>1, <2>1, <2>5 DEF EndCatch
    <2>6. CASE \E kind \in {"raise", "force", "rethrow", "resume"} : NullException(kind)
      BY <1>1, <2>1, <2>6 DEF NullException
    <2>7. QED
      BY <1>4, <2>2, <2>3, <2>4, <2>5, <2>6 DEF Program
  <1>5. CASE Unwinder
    <2>1. CASE SearchAdvance \/ NormalAdvance \/ ForceAdvance \/ TraceAdvance \/ SearchFound
      BY <1>2, <2>1 DEF SearchAdvance, NormalAdvance, ForceAdvance, TraceAdvance,
         SearchFound, Advance, program
    <2>2. CASE SearchEnd \/ SearchFail \/ NormalFail \/ ForceStopped \/ ForceEnd
               \/ ForceFail \/ TraceEnd \/ TraceFail \/ NormalInstall \/ ForceInstall
      BY <1>1, <2>2 DEF SearchEnd, SearchFail, NormalFail, ForceStopped, ForceEnd,
         ForceFail, TraceEnd, TraceFail, NormalInstall, ForceInstall, Answer, Install, Leave
    <2>3. QED
      BY <1>5, <2>1, <2>2 DEF Unwinder, SearchWalk, NormalWalk, ForceWalk, TraceWalk
  <1>6. CASE Trapped \/ UNCHANGED vars
    BY <1>2, <1>6 DEF Trapped, vars, program, walk
  <1>7. QED
    BY <1>4, <1>5, <1>6 DEF Next

\* An exception the step does not touch still has its pads to run.
LEMMA HeldDueStays ==
  ASSUME TypeOK, HeldOK, HeldOK', TypeOK', HeldDue, NEW e \in Exceptions,
         at'[e] = at[e], forced'[e] = forced[e], due'[e] = due[e],
         at'[e] # 0, forced'[e] # <<0, 0>>,
         \A i \in Frames : i < depth /\ i < depth' => site'[i] = site[i],
         NEW i \in Frames, i < at'[e], HasForcedPad(i)'
  PROVE  i \in due'[e]
  <1>1. at[e] <= depth /\ at[e] <= depth'
    BY DEF HeldOK
  <1>2. at[e] \in 0..MaxDepth /\ depth \in Frames /\ depth' \in Frames
    BY DEF TypeOK
  <1>3. i < depth /\ i < depth'
    BY <1>1, <1>2 DEF Frames
  <1>4. HasForcedPad(i)
    BY <1>3 DEF HasForcedPad
  <1>5. QED
    BY <1>4 DEF HeldDue

LEMMA NextHeldDue ==
  ASSUME Inductive, Inductive', HeldDue, WalkDue, [Next]_vars
  PROVE  HeldDue'
  <1> SUFFICES ASSUME NEW e \in Exceptions, at'[e] # 0, forced'[e] # <<0, 0>>,
                      NEW i \in Frames, i < at'[e], HasForcedPad(i)'
               PROVE  i \in due'[e]
    BY DEF HeldDue
  <1>1. /\ TypeOK /\ TypeOK' /\ HeldOK /\ HeldOK' /\ StackOK /\ WalkOK
        /\ NormalOK /\ PropagatedOK /\ CursorOK
    BY DEF Inductive, WalkOK
  <1>2. \A j \in Frames : j < depth /\ j < depth' => site'[j] = site[j]
    BY <1>1, SitesBelow
  <1>3. CASE at'[e] = at[e] /\ forced'[e] = forced[e] /\ due'[e] = due[e]
    BY <1>1, <1>2, <1>3, HeldDueStays
  <1>4. ASSUME NEW x \in Exceptions, NEW s \in Sites, NEW f \in StopFns, NEW p \in Params,
               ForcedUnwind(x, s, f, p)
        PROVE  i \in due'[e]
    <2>1. at' = at /\ at[x] = 0
      BY <1>1, <1>4 DEF ForcedUnwind, Begin, HeldOK
    <2>2. e # x /\ forced'[e] = forced[e] /\ due'[e] = due[e]
      BY <1>1, <1>4, <2>1 DEF ForcedUnwind, TypeOK
    <2>3. QED
      BY <1>3, <2>1, <2>2
  <1>5. ASSUME NEW x \in Exceptions, EndCatch(x)
        PROVE  i \in due'[e]
    BY <1>1, <1>3, <1>5 DEF EndCatch, Forget, TypeOK
  <1>6. CASE SearchFound
    BY <1>1, <1>3, <1>6 DEF SearchFound, TypeOK, program
  <1>7. CASE UNCHANGED <<status, at>> /\ Forget({exc})
    BY <1>3, <1>7 DEF Forget
  <1>8. ASSUME NEW pad, Install(pad), NormalInstall \/ ForceInstall
        PROVE  i \in due'[e]
    <2>1. exc \in Exceptions /\ pos \in Frames /\ depth \in Frames /\ pos <= depth
      BY <1>1, <1>8 DEF NormalInstall, ForceInstall, Named, Resolved, PropagatedOK, TypeOK,
         CursorOK, Walking, Frames
    <2>2. CASE e # exc
      BY <1>1, <1>3, <1>8, <2>1, <2>2, InstallMoves
    <2>3. CASE e = exc
      <3>1. at'[e] = pos /\ due'[e] = due[e] \ {pos} /\ forced'[e] = forced[e]
        BY <1>1, <1>8, <2>1, <2>3, InstallMoves
      <3>2. mode = "force"
        BY <1>1, <1>8, <2>3, <3>1 DEF NormalInstall, ForceInstall, NormalOK
      <3>3. i < pos /\ i <= pos /\ i # pos /\ i # depth /\ i # 0
        BY <2>1, <3>1 DEF Frames
      <3>4. site'[i] = site[i]
        BY <1>8, <3>3 DEF Install, Truncate
      <3>5. HasForcedPad(i)
        BY <3>4 DEF HasForcedPad
      <3>6. QED
        BY <2>3, <3>1, <3>2, <3>3, <3>5 DEF WalkDue
    <2>4. QED
      BY <2>2, <2>3
  <1>9. CASE NormalInstall \/ ForceInstall
    BY <1>8, <1>9 DEF NormalInstall, ForceInstall
  <1>10. CASE UNCHANGED <<status, at, history>>
    BY <1>3, <1>10 DEF history
  <1>11. QED
    BY <1>4, <1>5, <1>6, <1>7, <1>9, <1>10, StepKinds

\* Resuming or rethrowing a forced propagation: its pads below are all due.
LEMMA AgainDue ==
  ASSUME Inductive, HeldDue, NEW kind, NEW e \in Exceptions, NEW s,
         Begin(kind, "force", e, s), at[e] = depth, ~IsNormal(words[e]), UNCHANGED history
  PROVE  WalkDue'
  <1>1. TypeOK /\ WordsOK /\ depth \in Frames /\ at[e] # 0
    BY DEF Inductive, TypeOK, Frames
  <1>2. forced[e] # <<0, 0>>
    BY <1>1 DEF WordsOK, Kept
  <1>3. /\ exc' = e /\ pos' = depth /\ depth' = depth /\ at' = at /\ due' = due
        /\ \A i \in Frames : i # depth => site'[i] = site[i]
    BY <1>1, BeginSite DEF Begin, history
  <1>4. ASSUME NEW i \in Frames, i <= depth, HasForcedPad(i)'
        PROVE  i \in due[e] \/ i = depth
    <2>1. CASE i # depth
      <3>1. i < at[e] /\ HasForcedPad(i)
        BY <1>1, <1>3, <1>4, <2>1 DEF HasForcedPad, Frames
      <3>2. QED
        BY <1>1, <1>2, <3>1 DEF HeldDue
    <2>2. QED
      BY <2>1
  <1>5. QED
    BY <1>3, <1>4 DEF WalkDue

LEMMA NextWalkDue ==
  ASSUME Inductive, HeldDue, WalkDue, [Next]_vars
  PROVE  WalkDue'
  <1> SUFFICES ASSUME mode' = "force" PROVE WalkDue'
    BY DEF WalkDue
  <1>1. TypeOK /\ HeldOK /\ depth \in Frames
    BY DEF Inductive, TypeOK
  <1>2. CASE \E e \in Exceptions, s \in PadSites : Resume(e, s) /\ ~IsNormal(words[e])
    BY <1>2, AgainDue DEF Resume
  <1>3. CASE \E e \in Exceptions, s \in Sites : Rethrow(e, s) /\ ~IsNormal(words[e])
    BY <1>3, AgainDue DEF Rethrow
  <1>4. ASSUME NEW e \in Exceptions, NEW s \in Sites, NEW f \in StopFns, NEW p \in Params,
               ForcedUnwind(e, s, f, p)
        PROVE  WalkDue'
    <2>1. exc' = e /\ pos' = depth /\ depth' = depth /\ at'[e] = 0
      BY <1>1, <1>4 DEF ForcedUnwind, Begin, HeldOK
    <2>2. due'[e] = {i \in 1..depth : site'[i].force \in {"CLEAN", "CATCH"}}
      BY <1>1, <1>4 DEF ForcedUnwind, TypeOK
    <2>3. \A i \in Frames : i <= depth => i \in 1..depth
      BY <1>1 DEF Frames
    <2>4. QED
      BY <2>1, <2>2, <2>3 DEF WalkDue, HasForcedPad
  <1>5. CASE ForceAdvance
    <2>1. /\ mode = "force" /\ pos \in 0..MaxDepth /\ pos' = pos - 1
          /\ UNCHANGED <<depth, site, at, exc, due>>
      BY <1>1, <1>5 DEF ForceAdvance, Advance, program, history, TypeOK
    <2>2. \A i \in Frames : i <= pos' => i <= pos
      BY <2>1 DEF Frames
    <2>3. QED
      BY <2>1, <2>2 DEF WalkDue, HasForcedPad
  <1>6. CASE UNCHANGED vars
    BY <1>6 DEF WalkDue, HasForcedPad, vars, program, walk, history
  <1>7. QED
    BY <1>2, <1>3, <1>4, <1>5, <1>6, ForceSteps

LEMMA InitComplete == Init => Complete
  BY DEF Init, Complete, NotLost, HeldDue, WalkDue

LEMMA NextComplete ==
  Inductive /\ Inductive' /\ Complete /\ [Next]_vars => Complete'
  <1> SUFFICES ASSUME Inductive, Inductive', Complete, [Next]_vars PROVE Complete'
    OBVIOUS
  <1>1. NotLost'
    BY NextNotLost DEF Inductive, Complete
  <1>2. HeldDue' /\ WalkDue'
    BY NextHeldDue, NextWalkDue DEF Complete
  <1>3. QED
    BY <1>1, <1>2 DEF Complete

-----------------------------------------------------------------------------
(* The refinement.                                                         *)

\* Which exceptions a forced unwind propagates.
IsForced == [e \in Exceptions |-> forced[e] # <<0, 0>>]

LEMMA ForcedBecomes ==
  ASSUME TypeOK, TypeOK', NEW x \in Exceptions,
         \A e \in Exceptions \ {x} : forced'[e] = forced[e]
  PROVE  /\ forced'[x] = <<0, 0>> => IsForced' = [IsForced EXCEPT ![x] = FALSE]
         /\ forced'[x] # <<0, 0>> => IsForced' = [IsForced EXCEPT ![x] = TRUE]
  BY DEF IsForced

LEMMA InitPromise == Init => Promise!Init
  BY DEF Init, Promise!Init

LEMMA SearchFoundChooses ==
  ASSUME Inductive, Inductive', SearchFound, NEW e \in Exceptions, e = exc
  PROVE  Promise!Choose(e)
  <1>1. /\ TypeOK /\ TypeOK' /\ e = exc /\ status[e] \in {"idle", "handler"}
        /\ pos \in Frames /\ depth \in Frames /\ pos <= depth
    BY DEF Inductive, SearchFound, WalkOK, PropagatedOK, CursorOK, Walking, Named, Resolved,
       TypeOK, Frames
  <1>2. UNCHANGED <<status, at>>
    BY DEF SearchFound, program
  <1>3. chosen' = [chosen EXCEPT ![e] = pos]
    BY DEF SearchFound
  <1> DEFINE above == {i \in (pos + 1)..depth : site[i].clean = "CLEAN"}
  <1>4. due' = [due EXCEPT ![e] = above \cup {pos}]
    <2>1. {i \in pos..depth : site[i].clean = "CLEAN" \/ i = pos} = above \cup {pos}
      BY <1>1 DEF Frames
    <2>2. QED
      BY <2>1 DEF SearchFound
  <1>5. above \in SUBSET ((pos + 1)..MaxDepth)
    <2>1. ASSUME NEW i \in (pos + 1)..depth PROVE i \in (pos + 1)..MaxDepth
      BY <1>1 DEF Frames
    <2>2. QED
      BY <2>1, Zenon
  <1>6. IsForced' = [IsForced EXCEPT ![e] = FALSE]
    BY <1>1, ForcedBecomes DEF SearchFound, TypeOK
  <1>7. pos \in 1..MaxDepth
    BY <1>1 DEF Frames
  <1>8. QED
    BY <1>1, <1>2, <1>3, <1>4, <1>5, <1>6, <1>7 DEF Promise!Choose, IsForced

LEMMA ForcedUnwindForces ==
  ASSUME Inductive, Inductive', NEW e \in Exceptions, NEW s \in Sites,
         NEW f \in StopFns, NEW p \in Params, ForcedUnwind(e, s, f, p)
  PROVE  Promise!Force(e)
  <1>1. TypeOK /\ TypeOK' /\ depth \in Frames
    BY DEF Inductive, TypeOK
  <1>2. status[e] = "idle" /\ UNCHANGED <<status, at, chosen>>
    BY DEF ForcedUnwind, Begin
  <1> DEFINE pads == {i \in 1..depth : site'[i].force \in {"CLEAN", "CATCH"}}
  <1>3. due' = [due EXCEPT ![e] = pads] /\ pads \in SUBSET (1..MaxDepth)
    <2>1. ASSUME NEW i \in 1..depth PROVE i \in 1..MaxDepth
      BY <1>1 DEF Frames
    <2>2. due' = [due EXCEPT ![e] = pads]
      BY Zenon DEF ForcedUnwind
    <2>3. QED
      BY <2>1, <2>2, Zenon
  <1>4. IsForced' = [IsForced EXCEPT ![e] = TRUE]
    <2>1. forced' = [forced EXCEPT ![e] = <<f, p>>] /\ f # 0
      BY DEF ForcedUnwind
    <2>2. forced'[e] # <<0, 0>> /\ \A x \in Exceptions \ {e} : forced'[x] = forced[x]
      BY <1>1, <2>1 DEF TypeOK
    <2>3. QED
      BY <1>1, <2>2, ForcedBecomes
  <1>5. QED
    BY <1>2, <1>3, <1>4 DEF Promise!Force, IsForced

\* Once forgotten, nothing is promised of e any more.
LEMMA ForgetReleases ==
  ASSUME TypeOK, TypeOK', NEW e \in Exceptions, Forget({e})
  PROVE  Promise!Release(e)
  <1>1. IsForced' = [IsForced EXCEPT ![e] = FALSE]
    BY ForcedBecomes DEF Forget
  <1>2. chosen' = [chosen EXCEPT ![e] = 0]
    BY DEF Forget, TypeOK
  <1>3. due' = [due EXCEPT ![e] = {}]
    BY DEF Forget, TypeOK
  <1>4. QED
    BY <1>1, <1>2, <1>3 DEF Promise!Release, IsForced

LEMMA EndCatchFinishes ==
  ASSUME Inductive, Inductive', NEW e \in Exceptions, EndCatch(e)
  PROVE  Promise!Finish(e)
  <1>1. Promise!Release(e)
    BY ForgetReleases DEF Inductive, EndCatch
  <1>2. QED
    BY <1>1 DEF Promise!Finish, EndCatch

LEMMA AnswerGivesUp ==
  ASSUME Inductive, Inductive', mode \in Walking, entry \notin {"resume", "rethrow"},
         UNCHANGED <<status, at>>, Forget({exc})
  PROVE  \/ \E e \in Exceptions : Promise!GiveUp(e)
         \/ UNCHANGED Promise!promised
  <1>1. TypeOK /\ TypeOK' /\ PropagatedOK
    BY DEF Inductive, WalkOK
  <1>2. CASE exc \in Exceptions
    <2>1. PICK e \in Exceptions : e = exc
      BY <1>2
    <2>2. at[e] = 0
      BY <1>1, <2>1 DEF PropagatedOK
    <2>3. Forget({e})
      BY <2>1 DEF Forget
    <2>4. Promise!Release(e)
      BY <1>1, <2>3, ForgetReleases
    <2>5. Promise!GiveUp(e)
      BY <2>2, <2>4 DEF Promise!GiveUp
    <2>6. QED
      BY <2>5
  <1>3. CASE exc \notin Exceptions
    <2>1. chosen' = chosen /\ due' = due /\ forced' = forced
      BY <1>1, <1>3 DEF Forget, TypeOK
    <2>2. QED
      BY <2>1 DEF Promise!promised
  <1>4. QED
    BY <1>2, <1>3

\* The pad phase two installs is the newest one settled by phase one, and the
\* chosen one exactly when it catches.
LEMMA NormalEnters ==
  ASSUME Inductive, NormalInstall, NEW outcome,
         outcome = IF CleanupAnswer = "CATCH" THEN "handler" ELSE "cleanup"
  PROVE  Promise!Enters(exc, pos, outcome)
  <1>1. /\ exc \in Exceptions /\ pos \in Frames /\ chosen[exc] \in Frames
        /\ Selected <=> pos = chosen[exc]
        /\ ~Selected => site[pos].clean = "CLEAN" /\ CleanupAnswer = "CLEAN"
        /\ due[exc] = Pads(chosen[exc], pos) /\ chosen[exc] <= pos
    BY InstalledPad
  <1>2. forced[exc] = <<0, 0>> /\ mode = "normal" /\ TypeOK
    BY DEF Inductive, WalkOK, NormalOK, NormalInstall
  <1>3. pos \in due[exc] /\ \A j \in due[exc] : j <= pos
    BY <1>1 DEF Pads, Frames
  <1>4. Selected => CleanupAnswer = "CATCH"
    <2>1. Selected => CleanupAnswer = site[pos].handle
      BY DEF CleanupAnswer
    <2>2. CleanupAnswer \in {"CLEAN", "CATCH"}
      BY DEF NormalInstall
    <2>3. site[pos].handle # "CLEAN"
      BY <1>1, <1>2, OnStack
    <2>4. QED
      BY <2>1, <2>2, <2>3
  <1>5. outcome = "handler" <=> pos = chosen[exc]
    BY <1>1, <1>4
  <1>6. QED
    BY <1>1, <1>2, <1>3, <1>5 DEF Promise!Enters

\* The pad a forced unwind installs is the newest one still to run, or one of
\* the frame that rethrew.
LEMMA ForceEnters ==
  ASSUME Inductive, Complete, ForceInstall, NEW outcome
  PROVE  Promise!Enters(exc, pos, outcome)
  <1>1. /\ TypeOK /\ mode = "force" /\ exc \in Exceptions /\ pos \in Frames
        /\ HasForcedPad(pos)
    BY DEF Inductive, WalkOK, PropagatedOK, ForceInstall, Resolved, TypeOK, HasForcedPad, Frames
  <1>2. forced[exc] # <<0, 0>> /\ ForcedCourse(exc, pos)
    BY <1>1 DEF Inductive, WalkOK, ForceOK, IsNormal
  <1>3. \A j \in due[exc] : j <= pos
    BY <1>2 DEF ForcedCourse
  <1>4. pos \in due[exc] \cup {at[exc]}
    <2>1. pos <= pos
      BY <1>1 DEF Frames
    <2>2. QED
      BY <1>1, <2>1 DEF Complete, WalkDue
  <1>5. QED
    BY <1>1, <1>2, <1>3, <1>4 DEF Promise!Enters

LEMMA InstallLands ==
  ASSUME Inductive, Inductive', Complete, NEW pad, Install(pad), exc \in Exceptions,
         pos \in Frames, NEW outcome, outcome = IF pad = "CATCH" THEN "handler" ELSE "cleanup",
         Promise!Enters(exc, pos, outcome)
  PROVE  Promise!Land(exc, pos, outcome)
  <1>1. TypeOK /\ TypeOK' /\ status[exc] # "lost"
    BY DEF Inductive, Complete, NotLost
  <1> DEFINE gone == {x \in Exceptions \ {exc} : at[x] > pos}
  <1>2. status' = [x \in Exceptions |-> IF x = exc THEN outcome
                                        ELSE IF x \in gone THEN "lost" ELSE status[x]]
    BY DEF Install
  <1>3. at' = [x \in Exceptions |-> IF x = exc THEN pos ELSE IF x \in gone THEN 0 ELSE at[x]]
    BY DEF Install
  <1>4. due' = [x \in Exceptions |-> IF x = exc THEN due[exc] \ {pos}
                                     ELSE IF x \in gone THEN {} ELSE due[x]]
    BY DEF Install
  <1>5. chosen' = [x \in Exceptions |-> IF x \in gone THEN 0 ELSE chosen[x]]
    BY DEF Install
  <1>6. \A x \in Exceptions : forced'[x] = IF x \in gone THEN <<0, 0>> ELSE forced[x]
    BY DEF Install
  <1>7. IsForced' = [x \in Exceptions |-> IF x \in gone THEN FALSE ELSE IsForced[x]]
    BY <1>6, Zenon DEF IsForced
  <1>8. QED
    BY <1>1, <1>2, <1>3, <1>4, <1>5, <1>7 DEF Promise!Land, IsForced

LEMMA StepKeepsPromise ==
  ASSUME Inductive, Inductive', Complete, [Next]_vars
  PROVE  [Promise!Next]_(Promise!promised)
  <1> SUFFICES ASSUME ~UNCHANGED Promise!promised
               PROVE  \E e \in Exceptions : Promise!Step(e)
    BY DEF Promise!Next
  <1>1. CASE UNCHANGED <<status, at, history>>
    BY <1>1 DEF history, Promise!promised
  <1>2. CASE \E e \in Exceptions, s \in Sites, f \in StopFns, p \in Params :
               ForcedUnwind(e, s, f, p)
    BY <1>2, ForcedUnwindForces DEF Promise!Step
  <1>3. CASE \E e \in Exceptions : EndCatch(e)
    BY <1>3, EndCatchFinishes DEF Promise!Step
  <1>4. CASE SearchFound
    <2>1. PICK e \in Exceptions : e = exc
      BY <1>4 DEF Inductive, WalkOK, PropagatedOK, TypeOK, SearchFound
    <2>2. QED
      BY <1>4, <2>1, SearchFoundChooses DEF Promise!Step
  <1>5. CASE NormalInstall
    <2>1. exc \in Exceptions /\ pos \in Frames /\ pos \in 1..MaxDepth
      BY <1>5, InstalledPad DEF Frames
    <2>2. PICK outcome \in {"cleanup", "handler"} :
                 outcome = IF CleanupAnswer = "CATCH" THEN "handler" ELSE "cleanup"
      OBVIOUS
    <2>3. Promise!Land(exc, pos, outcome)
      BY <1>5, <2>1, <2>2, NormalEnters, InstallLands DEF NormalInstall
    <2>4. QED
      BY <2>1, <2>3 DEF Promise!Step
  <1>6. CASE ForceInstall
    <2>1. exc \in Exceptions /\ pos \in Frames /\ pos \in 1..MaxDepth
      BY <1>6 DEF Inductive, WalkOK, PropagatedOK, ForceInstall, Resolved, TypeOK, Frames
    <2>2. PICK outcome \in {"cleanup", "handler"} :
                 outcome = IF site[pos].force = "CATCH" THEN "handler" ELSE "cleanup"
      OBVIOUS
    <2>3. Promise!Land(exc, pos, outcome)
      BY <1>6, <2>1, <2>2, ForceEnters, InstallLands DEF ForceInstall
    <2>4. QED
      BY <2>1, <2>3 DEF Promise!Step
  <1>7. CASE /\ mode \in Walking /\ entry \notin {"resume", "rethrow"}
             /\ UNCHANGED <<status, at>> /\ Forget({exc})
    BY <1>7, AnswerGivesUp DEF Promise!Step
  <1>8. QED
    BY <1>1, <1>2, <1>3, <1>4, <1>5, <1>6, <1>7, StepKinds

(***************************************************************************)
(* Every exception enters exactly the pads settled when its propagation    *)
(* began, newest first, and is caught where its search said, whatever      *)
(* other propagations those pads start (runtime.rs:601-964): Unwind        *)
(* implements Propagation.                                                 *)
(***************************************************************************)
THEOREM PromiseKept == Spec => KeepsPromise
  <1>1. Init => Promise!Init /\ Complete
    BY InitPromise, InitComplete
  <1>2. Inductive /\ Inductive' /\ Complete /\ [Next]_vars => Complete'
    BY NextComplete
  <1>3. Inductive /\ Inductive' /\ Complete /\ [Next]_vars => [Promise!Next]_(Promise!promised)
    BY StepKeepsPromise
  <1>4. QED
    BY <1>1, <1>2, <1>3, InductiveHolds, PTL DEF Spec, KeepsPromise, Promise!Spec
=============================================================================
