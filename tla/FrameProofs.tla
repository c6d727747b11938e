---------------------------- MODULE FrameProofs ----------------------------
(* Proofs about Frame: for every stack of functions whose rows describe      *)
(* them, what the cursor knows is true, what it does not know was given up,  *)
(* and landing pads find the stack pointer and the registers they expect.    *)
EXTENDS Rows, FiniteSetTheorems, TLAPS

-----------------------------------------------------------------------------
(* Steps.                                                                  *)

\* A nonempty set of naturals has a least element: an initial segment that is
\* minimal for inclusion ends in it.
LEMMA Least ==
  ASSUME NEW S, S \subseteq Nat, S # {}
  PROVE  \E i \in S : \A j \in S : i <= j
  <1> DEFINE T == {0..i : i \in S}
             R == StrictSubsetOrdering(Nat)
  <1>1. IsWellFoundedOn(R, FiniteSubsetsOf(Nat))
    BY FS_StrictSubsetOrderingWellFounded, Zenon
  <1>2. T \subseteq FiniteSubsetsOf(Nat) /\ T # {}
    <2>1. \A i \in S : IsFiniteSet(0..i)
      BY FS_Interval
    <2>2. \A i \in S : 0..i \in FiniteSubsetsOf(Nat)
      BY <2>1 DEF FiniteSubsetsOf
    <2>3. QED
      BY <2>2
  <1>3. \E x \in T : \A y \in T : ~(<<y, x>> \in R)
    <2> HIDE DEF R, T
    <2>1. QED
      BY <1>1, <1>2, WFMin, Zenon
  <1>4. PICK i \in S : \A j \in S : <<0..j, 0..i>> \notin R
    BY <1>3
  <1>5. ASSUME NEW j \in S, j < i
        PROVE  FALSE
    <2>1. /\ 0..j \subseteq Nat /\ 0..i \subseteq Nat /\ 0..j \subseteq 0..i
          /\ i \in 0..i /\ i \notin 0..j
      BY <1>5
    <2>2. QED
      BY <1>4, <2>1 DEF StrictSubsetOrdering
  <1>6. QED
    BY <1>5

\* What holds first, and at each step if at the one before, always holds.
LEMMA Stepwise ==
  ASSUME NEW n \in Nat, NEW P \in [0..n -> BOOLEAN],
         P[0], \A k \in 1..n : P[k - 1] => P[k]
  PROVE  \A k \in 0..n : P[k]
<1> DEFINE S == {k \in 0..n : ~P[k]}
<1> SUFFICES ASSUME S # {}
             PROVE  FALSE
  OBVIOUS
<1>1. PICK k \in S : \A j \in S : k <= j
  <2>1. S \subseteq Nat
    OBVIOUS
  <2> HIDE DEF S
  <2> QED
    BY <2>1, Least
<1>2. k \in 1..n /\ k - 1 \in 0..n /\ ~(k <= k - 1)
  OBVIOUS
<1> QED
  BY <1>1, <1>2

\* What n steps over V, the k-th by G[k], make of b.
Machines(n, V) == [1..n -> [V -> V]]
Courses(n, V, b, G) ==
  {f \in [0..n -> V] : f[0] = b /\ \A k \in 1..n : f[k] = G[k][f[k - 1]]}

LEMMA StepsExist ==
  ASSUME NEW V, NEW b \in V, NEW n \in Nat, NEW G \in Machines(n, V)
  PROVE  Courses(n, V, b, G) # {}
<1> DEFINE Upto(m) == \E f \in [0..m -> V] :
                        f[0] = b /\ \A k \in 1..m : f[k] = G[k][f[k - 1]]
           P == [m \in 0..n |-> Upto(m)]
<1> USE DEF Machines
<1>1. P[0]
  <2>1. [k \in 0..0 |-> b] \in [0..0 -> V] /\ [k \in 0..0 |-> b][0] = b
    OBVIOUS
  <2>2. 1..0 = {}
    OBVIOUS
  <2>3. Upto(0)
    BY <2>1, <2>2
  <2> QED
    BY <2>3
<1>2. ASSUME NEW m \in 1..n, P[m - 1]
      PROVE  P[m]
  <2>1. m \in 0..n /\ m - 1 \in 0..n
    OBVIOUS
  <2>2. Upto(m - 1)
    BY <1>2, <2>1
  <2>3. PICK f \in [0..(m - 1) -> V] :
          f[0] = b /\ \A k \in 1..(m - 1) : f[k] = G[k][f[k - 1]]
    BY <2>2
  <2> DEFINE g == [k \in 0..m |-> IF k = m THEN G[m][f[m - 1]] ELSE f[k]]
  <2>4. G[m][f[m - 1]] \in V
    BY <2>1
  <2>5. g \in [0..m -> V]
    <3>1. ASSUME NEW k \in 0..m
          PROVE  (IF k = m THEN G[m][f[m - 1]] ELSE f[k]) \in V
      BY <2>1, <2>4
    <3> QED
      BY <3>1
  <2>6. g[0] = b
    BY <2>1, <2>3
  <2>7. ASSUME NEW k \in 1..m
        PROVE  g[k] = G[k][g[k - 1]]
    <3>1. k - 1 \in 0..(m - 1) /\ k - 1 # m /\ k - 1 \in 0..m /\ k \in 0..m
      BY <2>1
    <3>2. g[k - 1] = f[k - 1]
      BY <3>1
    <3>3. CASE k = m
      BY <3>1, <3>2, <3>3
    <3>4. CASE k # m
      <4>1. k \in 1..(m - 1)
        BY <2>1, <3>4
      <4> QED
        BY <2>3, <3>1, <3>2, <3>4, <4>1
    <3> QED
      BY <3>3, <3>4
  <2>8. Upto(m)
    <3> HIDE DEF g
    <3> QED
      BY <2>5, <2>6, <2>7
  <2> QED
    BY <2>1, <2>8
<1>3. P \in [0..n -> BOOLEAN]
  OBVIOUS
<1>4. \A m \in 0..n : P[m]
  <2> HIDE DEF P
  <2> QED
    BY <1>1, <1>2, <1>3, Stepwise
<1>5. Upto(n)
  BY <1>4
<1> QED
  BY <1>5 DEF Courses

-----------------------------------------------------------------------------
(* What values and meanings are, and when a value is what a meaning says.  *)

Values == Int \cup {Unknown}
Meanings == [base : Registers \cup {"home", "any"}, n : Int]

\* In a frame at home, called with the registers caller.
Fits(v, meaning, home, caller) ==
  \/ v = Unknown \/ meaning.base = "any"
  \/ meaning.base = "home" /\ v = home + meaning.n
  \/ meaning.base \in Registers /\ v = caller[meaning.base] + meaning.n

\* Memory m holds what the function with layout l saved.
Saved(m, l, home, caller) ==
  \A k \in Nat : SavedAt(l, k, 0) # {} =>
    home + k \in Words /\ Fits(m[home + k], Word(l, InFrame(k)), home, caller)

LEMMA DoesTyped ==
  ASSUME mem \in [Words -> Int], state \in [Registers -> Values],
         NEW cfa \in Values, NEW v \in Values, NEW operation \in Operation
  PROVE  Does(cfa, v, operation) \in Values
<1>1. /\ operation.op \in {"reg", "name", "cfa", "plus", "deref"}
      /\ operation.of \in Registers /\ operation.n \in Int
  BY DEF Operation
<1>2. CASE operation.op \in {"reg", "name"}
  BY <1>1, <1>2 DEF Does, Values
<1>3. CASE operation.op = "cfa"
  BY <1>3 DEF Does, Values
<1>4. CASE operation.op = "plus"
  BY <1>1, <1>4 DEF Does, Values
<1>5. CASE operation.op = "deref"
  BY <1>5 DEF Does, Values
<1> QED
  BY <1>1, <1>2, <1>3, <1>4, <1>5

\* The values an expression goes through.
LEMMA YieldsSteps ==
  ASSUME mem \in [Words -> Int], state \in [Registers -> Values],
         NEW cfa \in Values, NEW ops \in Seq(Operation)
  PROVE  \E top \in [0..Len(ops) -> Values] :
           /\ top[0] = Unknown
           /\ \A k \in 1..Len(ops) : top[k] = Does(cfa, top[k - 1], ops[k])
           /\ Yields(ops, cfa) \in {Unknown, top[Len(ops)]}
<1> DEFINE n == Len(ops)
           G == [k \in 1..n |-> [v \in Values |-> Does(cfa, v, ops[k])]]
           Step(top) == [k \in 0..n |-> IF k = 0 THEN Unknown ELSE Does(cfa, top[k - 1], ops[k])]
           T == CHOOSE top : top = Step(top)
<1>1. n \in Nat /\ \A k \in 1..n : ops[k] \in Operation
  OBVIOUS
<1>2. G \in Machines(n, Values)
  <2>1. ASSUME NEW k \in 1..n
        PROVE  [v \in Values |-> Does(cfa, v, ops[k])] \in [Values -> Values]
    BY <1>1, DoesTyped
  <2> QED
    BY <2>1 DEF Machines
<1>3. Unknown \in Values
  BY DEF Values
<1>4. PICK f \in [0..n -> Values] : f[0] = Unknown /\ \A k \in 1..n : f[k] = G[k][f[k - 1]]
  <2>1. Courses(n, Values, Unknown, G) # {}
    <3> HIDE DEF G, n
    <3> QED
      BY <1>1, <1>2, <1>3, StepsExist
  <2> QED
    BY <2>1 DEF Courses
<1>5. \A k \in 1..n : f[k] = Does(cfa, f[k - 1], ops[k])
  <2>1. ASSUME NEW k \in 1..n
        PROVE  f[k] = Does(cfa, f[k - 1], ops[k])
    <3>1. k - 1 \in 0..n
      BY <1>1
    <3>2. f[k - 1] \in Values
      BY <3>1
    <3> QED
      BY <1>4, <3>2
  <2> QED
    BY <2>1
<1>6. f = Step(f)
  <2>1. ASSUME NEW k \in 0..n
        PROVE  f[k] = (IF k = 0 THEN Unknown ELSE Does(cfa, f[k - 1], ops[k]))
    <3>1. k = 0 \/ k \in 1..n
      BY <1>1
    <3> QED
      BY <1>4, <1>5, <3>1
  <2> QED
    BY <2>1
<1>7. T = Step(T)
  <2> HIDE DEF Step
  <2> QED
    BY <1>6, Zenon
<1>8. Yields(ops, cfa) = IF \E k \in 1..n : T[k] = Unknown THEN Unknown ELSE T[n]
  BY Zenon DEF Yields
<1>9. T[0] = Unknown /\ \A k \in 1..n : T[k] = Does(cfa, T[k - 1], ops[k])
  <2> HIDE DEF T
  <2>1. \A k \in 0..n : T[k] = Step(T)[k]
    BY <1>7
  <2> QED
    BY <1>1, <2>1
<1>10. \A k \in 0..n : T[k] \in Values
  <2> DEFINE P == [k \in 0..n |-> T[k] \in Values]
  <2> HIDE DEF T
  <2>1. P \in [0..n -> BOOLEAN] /\ P[0]
    <3>1. 0 \in 0..n
      BY <1>1
    <3>2. T[0] \in Values
      BY <1>3, <1>9
    <3>3. P[0] = (T[0] \in Values)
      BY <3>1
    <3> QED
      BY <3>2, <3>3
  <2>2. ASSUME NEW k \in 1..n, P[k - 1]
        PROVE  P[k]
    <3>1. k - 1 \in 0..n /\ k \in 0..n
      BY <1>1
    <3>2. T[k - 1] \in Values
      BY <2>2, <3>1
    <3> QED
      BY <1>1, <1>9, <3>1, <3>2, DoesTyped
  <2>3. \A k \in 0..n : P[k]
    <3> HIDE DEF P
    <3> QED
      BY <1>1, <2>1, <2>2, Stepwise
  <2> QED
    BY <2>3
<1>11. T \in [0..n -> Values]
  <2>1. T = [k \in 0..n |-> T[k]]
    <3> DEFINE U == T
    <3> HIDE DEF T
    <3> QED
      BY <1>7
  <2> HIDE DEF T
  <2> QED
    BY <1>10, <2>1
<1> HIDE DEF T
<1> QED
  BY <1>1, <1>8, <1>9, <1>11

\* Layouts, field by field.
LEMMA LayoutFacts ==
  ASSUME NEW l \in Layout
  PROVE  /\ l.size \in Nat /\ l.gap \in Nat /\ l.signal \in BOOLEAN
         /\ l.points \in Nat \/ l.points = Nowhere
         /\ \A r \in Registers : l.saves[r] \in Nat \/ l.saves[r] = Nowhere
         /\ l.moves \subseteq General \X General /\ l.gives \subseteq Preserved
         /\ l.cfa \in Rule /\ \A r \in Registers : l.rule[r] \in Rule
  BY DEF Layout

LEMMA RuleFacts ==
  ASSUME NEW rule \in Rule
  PROVE  /\ rule.kind \in {"absent", "Undefined", "SameValue", "Offset", "ValOffset",
                           "Register", "Expr", "ValExpr", "Constant", "Architectural"}
         /\ rule.of \in Registers /\ rule.n \in Nat /\ rule.ops \in Seq(Operation)
  BY DEF Rule

LEMMA MeaningsTyped ==
  ASSUME NEW l \in Layout
  PROVE  /\ Any \in Meanings
         /\ \A n \in Int : InFrame(n) \in Meanings
         /\ \A q \in Registers : CallersOwn(l, q) \in Meanings /\ Own(l, q) \in Meanings
         /\ \A m \in Meanings : Word(l, m) \in Meanings
         /\ \A m \in Meanings, n \in Int : Beyond(m, n) \in Meanings
<1>1. ASSUME NEW base \in Registers \cup {"home", "any"}, NEW n \in Int
      PROVE  Meaning(base, n) \in Meanings
  BY DEF Meaning, Meanings
<1>2. \A n \in Int : InFrame(n) \in Meanings
  BY <1>1 DEF InFrame
<1>3. Any \in Meanings
  BY DEF Any, Meaning, Meanings
<1>4. ASSUME NEW q \in Registers
      PROVE  CallersOwn(l, q) \in Meanings
  BY <1>1, <1>2, LayoutFacts DEF CallersOwn
<1>5. ASSUME NEW q \in Registers
      PROVE  Own(l, q) \in Meanings
  <2>1. ASSUME KeptIn(l, q) # {}
        PROVE  (CHOOSE p \in KeptIn(l, q) : TRUE) \in Registers
    BY <2>1, Zenon DEF KeptIn, Registers
  <2>2. l.points # Nowhere => InFrame(l.points) \in Meanings
    BY <1>2, LayoutFacts
  <2>3. InFrame(0) \in Meanings
    BY <1>2
  <2> QED
    BY <1>3, <1>4, <2>1, <2>2, <2>3 DEF Own
<1>6. ASSUME NEW m \in Meanings
      PROVE  Word(l, m) \in Meanings
  <2>1. ASSUME SavedAt(l, m.n, 0) # {}
        PROVE  (CHOOSE r \in SavedAt(l, m.n, 0) : TRUE) \in Registers
    BY <2>1, Zenon DEF SavedAt
  <2> QED
    BY <1>3, <1>4, <2>1 DEF Word
<1>7. ASSUME NEW m \in Meanings, NEW n \in Int
      PROVE  Beyond(m, n) \in Meanings
  <2>1. m.base \in Registers \cup {"home", "any"} /\ m.n + n \in Int
    BY DEF Meanings
  <2> QED
    BY <1>1, <2>1 DEF Beyond
<1> QED
  BY <1>2, <1>3, <1>4, <1>5, <1>6, <1>7

\* The meanings an expression goes through.
LEMMA DenotedSteps ==
  ASSUME NEW l \in Layout, NEW cfa \in Meanings, NEW ops \in Seq(Operation)
  PROVE  \E top \in [0..Len(ops) -> Meanings] :
           /\ top[0] = Any
           /\ \A k \in 1..Len(ops) : top[k] = Denotes(l, cfa, top[k - 1], ops[k])
           /\ Denoted(l, ops, cfa) = top[Len(ops)]
<1> DEFINE n == Len(ops)
           G == [k \in 1..n |-> [m \in Meanings |-> Denotes(l, cfa, m, ops[k])]]
           Step(top) == [k \in 0..n |-> IF k = 0 THEN Any ELSE Denotes(l, cfa, top[k - 1], ops[k])]
           T == CHOOSE top : top = Step(top)
<1>1. n \in Nat /\ \A k \in 1..n : ops[k] \in Operation
  OBVIOUS
<1>2. ASSUME NEW m \in Meanings, NEW operation \in Operation
      PROVE  Denotes(l, cfa, m, operation) \in Meanings
  <2>1. /\ operation.op \in {"reg", "name", "cfa", "plus", "deref"}
        /\ operation.of \in Registers /\ operation.n \in Int
    BY DEF Operation
  <2>2. Own(l, operation.of) \in Meanings
    BY <2>1, MeaningsTyped
  <2>3. Beyond(Own(l, operation.of), operation.n) \in Meanings
    BY <2>1, <2>2, MeaningsTyped
  <2>4. Beyond(m, operation.n) \in Meanings /\ Word(l, m) \in Meanings
    BY <2>1, MeaningsTyped
  <2>5. CASE operation.op \in {"reg", "name"}
    BY <2>3, <2>5 DEF Denotes
  <2>6. CASE operation.op = "cfa"
    BY <2>6 DEF Denotes
  <2>7. CASE operation.op = "plus"
    BY <2>4, <2>7 DEF Denotes
  <2>8. CASE operation.op = "deref"
    BY <2>4, <2>8 DEF Denotes
  <2> QED
    BY <2>1, <2>5, <2>6, <2>7, <2>8
<1>3. G \in Machines(n, Meanings)
  <2>1. ASSUME NEW k \in 1..n
        PROVE  [m \in Meanings |-> Denotes(l, cfa, m, ops[k])] \in [Meanings -> Meanings]
    BY <1>1, <1>2
  <2> QED
    BY <2>1 DEF Machines
<1>4. Any \in Meanings
  BY MeaningsTyped
<1>5. PICK f \in [0..n -> Meanings] : f[0] = Any /\ \A k \in 1..n : f[k] = G[k][f[k - 1]]
  <2>1. Courses(n, Meanings, Any, G) # {}
    <3> HIDE DEF G, n
    <3> QED
      BY <1>1, <1>3, <1>4, StepsExist
  <2> QED
    BY <2>1 DEF Courses
<1>6. ASSUME NEW k \in 1..n
      PROVE  f[k] = Denotes(l, cfa, f[k - 1], ops[k])
  <2>1. k - 1 \in 0..n
    BY <1>1
  <2>2. f[k - 1] \in Meanings
    BY <2>1
  <2> QED
    BY <1>5, <2>2
<1>7. f = Step(f)
  <2>1. ASSUME NEW k \in 0..n
        PROVE  f[k] = (IF k = 0 THEN Any ELSE Denotes(l, cfa, f[k - 1], ops[k]))
    <3>1. k = 0 \/ k \in 1..n
      BY <1>1
    <3> QED
      BY <1>5, <1>6, <3>1
  <2> QED
    BY <2>1
<1>8. T = Step(T)
  <2> HIDE DEF Step
  <2> QED
    BY <1>7, Zenon
<1>9. Denoted(l, ops, cfa) = T[n]
  BY Zenon DEF Denoted
<1>10. T[0] = Any /\ \A k \in 1..n : T[k] = Denotes(l, cfa, T[k - 1], ops[k])
  <2> HIDE DEF T
  <2>1. \A k \in 0..n : T[k] = Step(T)[k]
    BY <1>8
  <2> QED
    BY <1>1, <2>1
<1>11. \A k \in 0..n : T[k] \in Meanings
  <2> DEFINE P == [k \in 0..n |-> T[k] \in Meanings]
  <2> HIDE DEF T
  <2>1. P \in [0..n -> BOOLEAN] /\ P[0]
    <3>1. 0 \in 0..n
      BY <1>1
    <3>2. T[0] \in Meanings
      BY <1>4, <1>10
    <3>3. P[0] = (T[0] \in Meanings)
      BY <3>1
    <3> QED
      BY <3>2, <3>3
  <2>2. ASSUME NEW k \in 1..n, P[k - 1]
        PROVE  P[k]
    <3>1. k - 1 \in 0..n /\ k \in 0..n
      BY <1>1
    <3>2. T[k - 1] \in Meanings
      BY <2>2, <3>1
    <3>3. T[k] \in Meanings
      BY <1>1, <1>2, <1>10, <3>2
    <3> QED
      BY <3>1, <3>3
  <2>3. \A k \in 0..n : P[k]
    <3> HIDE DEF P
    <3> QED
      BY <1>1, <2>1, <2>2, Stepwise
  <2> QED
    BY <2>3
<1>12. T \in [0..n -> Meanings]
  <2>1. T = [k \in 0..n |-> T[k]]
    <3> DEFINE U == T
    <3> HIDE DEF T
    <3> QED
      BY <1>8
  <2> HIDE DEF T
  <2> QED
    BY <1>11, <2>1
<1> HIDE DEF T
<1> QED
  BY <1>1, <1>9, <1>10, <1>12

\* What memory holds where a meaning points.
LEMMA WordFits ==
  ASSUME mem \in [Words -> Int], NEW l \in Layout, NEW home \in Int,
         NEW caller, Saved(mem, l, home, caller),
         NEW m \in Meanings, NEW v \in Words, Fits(v, m, home, caller)
  PROVE  Fits(mem[v], Word(l, m), home, caller)
<1>1. CASE ~(m.base = "home" /\ SavedAt(l, m.n, 0) # {})
  BY <1>1 DEF Word, Any, Meaning, Fits
<1>2. CASE m.base = "home" /\ SavedAt(l, m.n, 0) # {}
  <2>1. m.n \in Nat
    <3>1. PICK r \in Registers : l.saves[r] # Nowhere /\ 0 + l.saves[r] = m.n
      BY <1>2 DEF SavedAt
    <3> QED
      BY <3>1, LayoutFacts
  <2>2. v # Unknown /\ v \in Int
    BY RegisterAssumption DEF Words
  <2>3. v = home + m.n
    BY <1>2, <2>2, RowsAssumption DEF Fits
  <2>4. Word(l, InFrame(m.n)) = Word(l, m)
    BY <1>2 DEF Word, InFrame, Meaning
  <2> QED
    BY <1>2, <2>1, <2>3, <2>4 DEF Saved
<1> QED
  BY <1>1, <1>2

LEMMA BeyondFits ==
  ASSUME NEW v \in Int, NEW n \in Int, NEW home \in Int,
         NEW caller \in [Registers -> Int], NEW m \in Meanings,
         Fits(v, m, home, caller)
  PROVE  Fits(v + n, Beyond(m, n), home, caller)
<1>1. /\ m.base \in Registers \cup {"home", "any"} /\ m.n \in Int
      /\ Beyond(m, n).base = m.base /\ Beyond(m, n).n = m.n + n
  BY DEF Meanings, Beyond, Meaning
<1>2. v # Unknown
  BY RegisterAssumption
<1>3. CASE m.base = "any"
  BY <1>1, <1>3 DEF Fits
<1>4. CASE m.base = "home"
  BY <1>1, <1>2, <1>4, RowsAssumption DEF Fits
<1>5. CASE m.base \in Registers
  <2>1. v = caller[m.base] + m.n /\ caller[m.base] \in Int
    BY <1>1, <1>2, <1>5, RowsAssumption DEF Fits
  <2>2. v + n = caller[m.base] + (m.n + n)
    BY <1>1, <2>1
  <2> QED
    BY <1>1, <1>5, <2>2 DEF Fits
<1> QED
  BY <1>1, <1>3, <1>4, <1>5

\* What an expression yields is what it denotes.
LEMMA ExpressionFits ==
  ASSUME mem \in [Words -> Int], state \in [Registers -> Values],
         NEW l \in Layout, NEW home \in Int, NEW caller \in [Registers -> Int],
         Saved(mem, l, home, caller),
         \A q \in Registers : Fits(state[q], Own(l, q), home, caller),
         NEW cfa \in Values, NEW m \in Meanings, Fits(cfa, m, home, caller),
         NEW ops \in Seq(Operation)
  PROVE  Yields(ops, cfa) \in Values /\ Fits(Yields(ops, cfa), Denoted(l, ops, m), home, caller)
<1> DEFINE n == Len(ops)
<1>1. n \in Nat /\ \A k \in 1..n : ops[k] \in Operation
  OBVIOUS
<1>2. PICK v \in [0..n -> Values] :
        /\ v[0] = Unknown
        /\ \A k \in 1..n : v[k] = Does(cfa, v[k - 1], ops[k])
        /\ Yields(ops, cfa) \in {Unknown, v[n]}
  BY YieldsSteps
<1>3. PICK d \in [0..n -> Meanings] :
        /\ d[0] = Any
        /\ \A k \in 1..n : d[k] = Denotes(l, m, d[k - 1], ops[k])
        /\ Denoted(l, ops, m) = d[n]
  BY DenotedSteps
<1>4. ASSUME NEW x \in Values, NEW y \in Meanings, Fits(x, y, home, caller),
             NEW operation \in Operation
      PROVE  Fits(Does(cfa, x, operation), Denotes(l, m, y, operation), home, caller)
  <2>1. /\ operation.op \in {"reg", "name", "cfa", "plus", "deref"}
        /\ operation.of \in Registers /\ operation.n \in Int
    BY DEF Operation
  <2>2. CASE operation.op \in {"reg", "name"}
    <3> DEFINE q == operation.of
    <3>1. /\ state[q] \in Values /\ Own(l, q) \in Meanings
          /\ Fits(state[q], Own(l, q), home, caller)
      BY <2>1, MeaningsTyped
    <3>2. Denotes(l, m, y, operation) = Beyond(Own(l, q), operation.n)
      BY <2>2 DEF Denotes
    <3>3. CASE state[q] = Unknown
      BY <2>2, <3>3 DEF Does, Fits
    <3>4. CASE state[q] # Unknown
      <4>1. state[q] \in Int /\ Does(cfa, x, operation) = state[q] + operation.n
        BY <2>2, <3>1, <3>4 DEF Does, Values
      <4>2. Fits(state[q] + operation.n, Beyond(Own(l, q), operation.n), home, caller)
        BY <2>1, <3>1, <4>1, BeyondFits
      <4> QED
        BY <3>2, <4>1, <4>2
    <3> QED
      BY <3>3, <3>4
  <2>3. CASE operation.op = "cfa"
    BY <2>3 DEF Does, Denotes
  <2>4. CASE operation.op = "plus"
    <3>1. Denotes(l, m, y, operation) = Beyond(y, operation.n)
      BY <2>4 DEF Denotes
    <3>2. CASE x = Unknown
      BY <2>4, <3>2 DEF Does, Fits
    <3>3. CASE x # Unknown
      <4>1. x \in Int /\ Does(cfa, x, operation) = x + operation.n
        BY <2>4, <3>3 DEF Does, Values
      <4> QED
        BY <1>4, <2>1, <3>1, <4>1, BeyondFits
    <3> QED
      BY <3>2, <3>3
  <2>5. CASE operation.op = "deref"
    <3>1. Denotes(l, m, y, operation) = Word(l, y)
      BY <2>5 DEF Denotes
    <3>2. CASE x \in Words
      <4>1. Does(cfa, x, operation) = mem[x]
        BY <2>5, <3>2 DEF Does
      <4> QED
        BY <1>4, <3>1, <3>2, <4>1, WordFits
    <3>3. CASE x \notin Words
      BY <2>5, <3>3 DEF Does, Fits
    <3> QED
      BY <3>2, <3>3
  <2> QED
    BY <2>1, <2>2, <2>3, <2>4, <2>5
<1>5. \A k \in 0..n : Fits(v[k], d[k], home, caller)
  <2> DEFINE P == [k \in 0..n |-> Fits(v[k], d[k], home, caller)]
  <2>1. P[0]
    <3>1. 0 \in 0..n
      BY <1>1
    <3> QED
      BY <1>2, <1>3, <3>1 DEF Fits
  <2>2. ASSUME NEW k \in 1..n, P[k - 1]
        PROVE  P[k]
    <3>1. k - 1 \in 0..n /\ k \in 0..n
      BY <1>1
    <3>2. v[k - 1] \in Values /\ d[k - 1] \in Meanings /\ ops[k] \in Operation
      BY <1>1, <3>1
    <3>3. Fits(v[k - 1], d[k - 1], home, caller)
      BY <2>2, <3>1
    <3>4. Fits(Does(cfa, v[k - 1], ops[k]), Denotes(l, m, d[k - 1], ops[k]), home, caller)
      BY <1>4, <3>2, <3>3
    <3> QED
      BY <1>2, <1>3, <3>1, <3>4
  <2>3. P \in [0..n -> BOOLEAN]
    BY DEF Fits
  <2>4. \A k \in 0..n : P[k]
    <3> HIDE DEF P
    <3> QED
      BY <1>1, <2>1, <2>2, <2>3, Stepwise
  <2> QED
    BY <2>4
<1>6. n \in 0..n
  BY <1>1
<1>7. v[n] \in Values /\ Fits(v[n], d[n], home, caller)
  BY <1>5, <1>6
<1>8. Unknown \in Values /\ Fits(Unknown, d[n], home, caller)
  BY DEF Values, Fits
<1> QED
  BY <1>2, <1>3, <1>7, <1>8

-----------------------------------------------------------------------------
(* Rows.                                                                   *)

\* What an expression yields is a value, or nothing.
LEMMA YieldsTyped ==
  ASSUME mem \in [Words -> Int], state \in [Registers -> Values],
         NEW cfa \in Values, NEW ops \in Seq(Operation)
  PROVE  Yields(ops, cfa) \in Values
<1>1. PICK top \in [0..Len(ops) -> Values] : Yields(ops, cfa) \in {Unknown, top[Len(ops)]}
  BY YieldsSteps
<1>2. Len(ops) \in 0..Len(ops) /\ Unknown \in Values
  BY DEF Values
<1> QED
  BY <1>1, <1>2

LEMMA DenotedTyped ==
  ASSUME NEW l \in Layout, NEW m \in Meanings, NEW ops \in Seq(Operation)
  PROVE  Denoted(l, ops, m) \in Meanings
<1>1. PICK top \in [0..Len(ops) -> Meanings] : Denoted(l, ops, m) = top[Len(ops)]
  BY DenotedSteps
<1>2. Len(ops) \in 0..Len(ops)
  OBVIOUS
<1> QED
  BY <1>1, <1>2

LEMMA CfaTyped ==
  ASSUME mem \in [Words -> Int], state \in [Registers -> Values],
         Row \in Layout, Named.pushed \in Nat
  PROVE  Cfa \in Values
<1>1. Row.cfa.of \in Registers /\ Row.cfa.n \in Nat /\ Row.cfa.ops \in Seq(Operation)
  BY LayoutFacts, RuleFacts
<1>2. Yields(Row.cfa.ops, Unknown) \in Values
  BY <1>1, YieldsTyped DEF Values
<1>3. Pushed \in Nat
  BY DEF Pushed
<1> QED
  BY <1>1, <1>2, <1>3 DEF Cfa, Values

\* A readable row restores values; it loses a register by saying so, or by not
\* knowing it either.
LEMMA RestoredTyped ==
  ASSUME mem \in [Words -> Int], state \in [Registers -> Values],
         Row \in Layout, Named.pushed \in Nat, Readable, NEW r \in Registers
  PROVE  /\ Restored(r) \in Values
         /\ Restored(r) = Unknown =>
              \/ Row.rule[r].kind = "Undefined"
              \/ Row.rule[r].kind = "absent" /\ (r = "ra" \/ (r # "rsp" /\ state[r] = Unknown))
<1> DEFINE rule == Row.rule[r]
<1>1. rule \in Rule
  BY LayoutFacts
<1>2. /\ rule.kind \in {"absent", "Undefined", "SameValue", "Offset", "ValOffset",
                        "Register", "Expr", "ValExpr", "Constant", "Architectural"}
      /\ rule.of \in Registers /\ rule.n \in Nat /\ rule.ops \in Seq(Operation)
  <2> HIDE DEF rule
  <2> QED
    BY <1>1, RuleFacts
<1>3. Cfa \in Int /\ Cfa # Unknown
  BY CfaTyped DEF Readable, Values
<1>4. Cfa \in Values /\ Unknown \in Values /\ \A x \in Int : x \in Values /\ x # Unknown
  BY <1>3, RegisterAssumption DEF Values
<1>5. Yields(rule.ops, Cfa) \in Values
  <2> HIDE DEF rule
  <2> QED
    BY <1>2, <1>4, YieldsTyped
<1>6. CASE rule.kind = "absent"
  <2>1. Restored(r) = Default(r)
    BY <1>6 DEF Restored
  <2> QED
    BY <1>3, <1>4, <1>6, <2>1 DEF Default
<1>7. CASE rule.kind = "Undefined"
  BY <1>4, <1>7 DEF Restored
<1>8. CASE rule.kind \in {"SameValue", "Register"}
  <2>1. Restored(r) = state[rule.of]
    BY <1>8 DEF Restored, RegisterRead
  <2>2. state[rule.of] # Unknown
    BY <1>8 DEF Readable
  <2> QED
    BY <1>2, <2>1, <2>2
<1>9. CASE rule.kind \in {"Offset", "Expr"}
  <2>1. Restored(r) = mem[Address(rule)]
    BY <1>9 DEF Restored
  <2>2. Address(rule) \in Words
    BY <1>9 DEF Readable
  <2>3. mem[Address(rule)] \in Int
    BY <2>2
  <2> QED
    BY <1>4, <2>1, <2>3
<1>10. CASE rule.kind = "ValOffset"
  <2>1. Restored(r) = Cfa - rule.n
    BY <1>10 DEF Restored
  <2>2. Cfa - rule.n \in Int
    BY <1>2, <1>3
  <2> QED
    BY <1>4, <2>1, <2>2
<1>11. CASE rule.kind = "ValExpr"
  <2>1. Restored(r) = Yields(rule.ops, Cfa)
    BY <1>11 DEF Restored
  <2>2. Yields(rule.ops, Cfa) # Unknown
    BY <1>11 DEF Readable
  <2> QED
    BY <1>5, <2>1, <2>2
<1>12. CASE rule.kind = "Constant"
  <2>1. Restored(r) = rule.n /\ rule.n \in Int
    BY <1>2, <1>12 DEF Restored
  <2> QED
    BY <1>4, <2>1
<1>13. CASE rule.kind = "Architectural"
  BY <1>13 DEF Readable
<1> QED
  BY <1>2, <1>6, <1>7, <1>8, <1>9, <1>10, <1>11, <1>12, <1>13

\* The registers of the named frame are what its function has in them, and
\* those saved are where it put them.
Faithful(caller) ==
  /\ Row \in Layout /\ Named.home \in Int /\ Named.pushed \in Nat
  /\ caller \in [Registers -> Int]
  /\ caller["rsp"] = Named.home + (Row.size + Row.gap)
  /\ Saved(mem, Row, Named.home, caller)
  /\ state["rsp"] \in {Unknown, Named.home - Named.pushed}
  /\ \A q \in Registers : Fits(state[q], Own(Row, q), Named.home, caller)

LEMMA CfaFits ==
  ASSUME mem \in [Words -> Int], state \in [Registers -> Values],
         NEW caller, Faithful(caller)
  PROVE  /\ CfaMeans(Row) \in Meanings
         /\ Fits(Cfa, CfaMeans(Row), Named.home, caller)
<1> DEFINE l == Row
           home == Named.home
           cfa == Row.cfa
<1>1. /\ l \in Layout /\ home \in Int /\ Named.pushed \in Nat
      /\ caller \in [Registers -> Int] /\ Saved(mem, l, home, caller)
      /\ state["rsp"] \in {Unknown, home - Named.pushed}
      /\ \A q \in Registers : Fits(state[q], Own(l, q), home, caller)
  BY DEF Faithful
<1>2. cfa.of \in Registers /\ cfa.n \in Nat /\ cfa.ops \in Seq(Operation)
  BY <1>1, LayoutFacts, RuleFacts
<1>3. Any \in Meanings /\ Unknown \in Values /\ Fits(Unknown, Any, home, caller)
  BY <1>1, MeaningsTyped DEF Values, Fits
<1>4. CASE cfa.kind = "ValExpr"
  <2>1. Cfa = Yields(cfa.ops, Unknown) /\ CfaMeans(l) = Denoted(l, cfa.ops, Any)
    BY <1>4 DEF Cfa, CfaMeans
  <2>2. Fits(Yields(cfa.ops, Unknown), Denoted(l, cfa.ops, Any), home, caller)
    <3> HIDE DEF l, home, cfa
    <3> QED
      BY <1>1, <1>2, <1>3, ExpressionFits
  <2>3. Denoted(l, cfa.ops, Any) \in Meanings
    <3> HIDE DEF l, cfa
    <3> QED
      BY <1>1, <1>2, <1>3, DenotedTyped
  <2> QED
    BY <2>1, <2>2, <2>3
<1>5. CASE cfa.kind # "ValExpr" /\ cfa.of = "rsp"
  <2>1. CfaMeans(l) = InFrame(cfa.n)
    BY <1>5 DEF CfaMeans
  <2>2. CASE state["rsp"] = Unknown
    BY <1>1, <1>2, <1>5, <2>1, <2>2, MeaningsTyped DEF Cfa, Fits
  <2>3. CASE state["rsp"] # Unknown
    <3>1. Cfa = (home - Named.pushed) + cfa.n + Named.pushed
      BY <1>1, <1>5, <2>3 DEF Cfa, Pushed
    <3>2. Cfa = home + cfa.n
      BY <1>1, <1>2, <3>1
    <3> QED
      BY <1>1, <1>2, <2>1, <3>2, MeaningsTyped DEF Fits, InFrame, Meaning
  <2> QED
    BY <2>2, <2>3
<1>6. CASE cfa.kind # "ValExpr" /\ cfa.of # "rsp"
  <2> DEFINE q == cfa.of
  <2>1. CfaMeans(l) = Beyond(Own(l, q), cfa.n) /\ Own(l, q) \in Meanings
    BY <1>1, <1>2, <1>6, MeaningsTyped DEF CfaMeans
  <2>2. Beyond(Own(l, q), cfa.n) \in Meanings
    BY <1>1, <1>2, <2>1, MeaningsTyped
  <2>3. CASE state[q] = Unknown
    BY <1>6, <2>1, <2>2, <2>3 DEF Cfa, Fits
  <2>4. CASE state[q] # Unknown
    <3>1. state[q] \in Int /\ Cfa = state[q] + cfa.n
      BY <1>2, <1>6, <2>4 DEF Cfa, Pushed, Values
    <3>2. Fits(state[q] + cfa.n, Beyond(Own(l, q), cfa.n), home, caller)
      <4>1. /\ q \in Registers /\ cfa.n \in Int
            /\ Fits(state[q], Own(l, q), home, caller)
        BY <1>1, <1>2
      <4> HIDE DEF l, home, cfa, q
      <4> QED
        BY <1>1, <2>1, <3>1, <4>1, BeyondFits
    <3> QED
      BY <2>1, <2>2, <3>1, <3>2
  <2> QED
    BY <2>3, <2>4
<1> QED
  BY <1>4, <1>5, <1>6

\* What fits the caller's own register is the caller's value.
LEMMA CallersFits ==
  ASSUME NEW l \in Layout, NEW home \in Int, NEW caller \in [Registers -> Int],
         caller["rsp"] = home + (l.size + l.gap),
         NEW r \in Registers, NEW v, Fits(v, CallersOwn(l, r), home, caller)
  PROVE  v \in {Unknown, caller[r]}
<1>1. "home" \notin Registers /\ "any" \notin Registers
  BY RowsAssumption
<1>2. CASE r = "rsp"
  <2>1. CallersOwn(l, r).base = "home" /\ CallersOwn(l, r).n = l.size + l.gap
    BY <1>2 DEF CallersOwn, InFrame, Meaning
  <2> QED
    BY <1>1, <1>2, <2>1 DEF Fits
<1>3. CASE r # "rsp"
  <2>1. CallersOwn(l, r).base = r /\ CallersOwn(l, r).n = 0
    BY <1>3 DEF CallersOwn, Meaning
  <2>2. caller[r] \in Int
    OBVIOUS
  <2> QED
    BY <1>1, <2>1, <2>2 DEF Fits
<1> QED
  BY <1>2, <1>3

\* The caller's registers a row restores are the caller's.
LEMMA RestoredIsCallers ==
  ASSUME mem \in [Words -> Int], state \in [Registers -> Values],
         NEW caller, Faithful(caller), Row \in Layouts, Readable,
         NEW r \in Claimed(Row)
  PROVE  /\ Restored(r) \in {Unknown, caller[r]}
         /\ r = "ra" => Restored(r) # Unknown
<1> DEFINE l == Row
           home == Named.home
           rule == l.rule[r]
           means == CfaMeans(l)
<1>1. /\ l \in Layout /\ home \in Int /\ Named.pushed \in Nat
      /\ caller \in [Registers -> Int] /\ Saved(mem, l, home, caller)
      /\ caller["rsp"] = home + (l.size + l.gap)
      /\ \A q \in Registers : Fits(state[q], Own(l, q), home, caller)
  BY DEF Faithful
<1>2. r \in Registers
  BY DEF Claimed
<1>3. rule \in Rule
  BY <1>1, <1>2, LayoutFacts
<1>4. /\ rule.kind \in {"absent", "Undefined", "SameValue", "Offset", "ValOffset",
                        "Register", "Expr", "ValExpr", "Constant", "Architectural"}
      /\ rule.of \in Registers /\ rule.n \in Nat /\ rule.ops \in Seq(Operation)
  <2> HIDE DEF rule
  <2> QED
    BY <1>3, RuleFacts
<1>5. Cfa \in Int /\ Cfa \in Values
  BY <1>1, CfaTyped DEF Readable, Values
<1>6. means \in Meanings /\ Fits(Cfa, means, home, caller)
  BY CfaFits
<1>7. /\ r = "ra" => rule.kind \notin {"absent", "Undefined"}
      /\ rule.kind \notin {"Undefined", "Architectural"} => Says(l, r) = CallersOwn(l, r)
  BY RowsAssumption DEF Describes
<1>8. -rule.n \in Int /\ Cfa - rule.n = Cfa + (-rule.n)
  BY <1>4, <1>5
<1>9. Beyond(means, -rule.n) \in Meanings /\ Fits(Cfa - rule.n, Beyond(means, -rule.n), home, caller)
  <2> HIDE DEF l, home, rule, means
  <2> QED
    BY <1>1, <1>5, <1>6, <1>8, MeaningsTyped, BeyondFits
<1>10. /\ Denoted(l, rule.ops, means) \in Meanings
       /\ Fits(Yields(rule.ops, Cfa), Denoted(l, rule.ops, means), home, caller)
  <2> HIDE DEF l, home, rule, means
  <2> QED
    BY <1>1, <1>4, <1>5, <1>6, DenotedTyped, ExpressionFits
<1>11. CASE rule.kind = "Undefined"
  BY <1>7, <1>11 DEF Restored
<1>12. CASE rule.kind = "Architectural"
  BY <1>2, <1>12 DEF Readable
<1>13. CASE rule.kind \notin {"Undefined", "Architectural"}
  <2>1. Fits(Restored(r), Says(l, r), home, caller)
    <3>1. CASE rule.kind = "absent"
      <4>1. Restored(r) = Default(r) /\ Says(l, r) = IF r = "rsp" THEN means ELSE Own(l, r)
        BY <3>1 DEF Restored, Says
      <4>2. Default(r) = IF r = "rsp" THEN Cfa ELSE state[r]
        BY <1>7, <3>1 DEF Default
      <4> QED
        BY <1>1, <1>2, <1>6, <4>1, <4>2
    <3>2. CASE rule.kind \in {"SameValue", "Register"}
      <4>1. Restored(r) = state[rule.of] /\ Says(l, r) = Own(l, rule.of)
        BY <3>2 DEF Restored, RegisterRead, Says
      <4> QED
        BY <1>1, <1>4, <4>1
    <3>3. CASE rule.kind = "Offset"
      <4>1. Restored(r) = mem[Cfa - rule.n] /\ Says(l, r) = Word(l, Beyond(means, -rule.n))
        BY <3>3 DEF Restored, Address, Says
      <4>2. Cfa - rule.n \in Words
        BY <1>2, <3>3 DEF Readable, Address
      <4> HIDE DEF l, home, rule, means
      <4> QED
        BY <1>1, <1>9, <4>1, <4>2, WordFits
    <3>4. CASE rule.kind = "ValOffset"
      <4>1. Restored(r) = Cfa - rule.n /\ Says(l, r) = Beyond(means, -rule.n)
        BY <3>4 DEF Restored, Says
      <4> QED
        BY <1>9, <4>1
    <3>5. CASE rule.kind = "Expr"
      <4>1. /\ Restored(r) = mem[Yields(rule.ops, Cfa)]
            /\ Says(l, r) = Word(l, Denoted(l, rule.ops, means))
        BY <3>5 DEF Restored, Address, Says
      <4>2. Yields(rule.ops, Cfa) \in Words
        BY <1>2, <3>5 DEF Readable, Address
      <4> HIDE DEF l, home, rule, means
      <4> QED
        BY <1>1, <1>10, <4>1, <4>2, WordFits
    <3>6. CASE rule.kind = "ValExpr"
      <4>1. Restored(r) = Yields(rule.ops, Cfa) /\ Says(l, r) = Denoted(l, rule.ops, means)
        BY <3>6 DEF Restored, Says
      <4> QED
        BY <1>10, <4>1
    <3>7. CASE rule.kind = "Constant"
      BY <3>7 DEF Says, Any, Meaning, Fits
    <3> QED
      BY <1>4, <1>13, <3>1, <3>2, <3>3, <3>4, <3>5, <3>6, <3>7
  <2>2. Restored(r) \in {Unknown, caller[r]}
    <3>1. Fits(Restored(r), CallersOwn(l, r), home, caller)
      BY <1>7, <1>13, <2>1
    <3> HIDE DEF l, home, rule, means
    <3> QED
      BY <1>1, <1>2, <3>1, CallersFits
  <2>3. r = "ra" => Restored(r) # Unknown
    BY <1>1, <1>2, <1>7, <1>13, RestoredTyped
  <2> QED
    BY <2>2, <2>3
<1> QED
  BY <1>11, <1>12, <1>13

-----------------------------------------------------------------------------
(***************************************************************************)
(* The invariant.  Every frame on the stack is linked to its caller: it    *)
(* ends where the caller's stack pointer was, the words it saved are still *)
(* there, and its registers hold what its layout says of the caller's.     *)
(* This is what makes the cursor's next step as true as the last one.      *)
(***************************************************************************)
Function == [layout : Layout, home : Int, pushed : Nat, regs : [Registers -> Int]]

Types ==
  /\ mem \in [Words -> Int] /\ regs \in [Registers -> Int]
  /\ state \in [Registers -> Values] /\ mode \in {"run", "walk"}
  /\ cursor \in 0..Len(frames)

\* Frame f, the i-th, is under a call or runs.
Sound(f, i) ==
  /\ f.home <= Top /\ f.regs["ra"] = i /\ f.regs["rsp"] = f.home - f.pushed
  /\ f.layout.signal => f.pushed = 0

Linked(m, f, caller) ==
  /\ f.home >= 0 /\ caller.regs["rsp"] = f.home + (f.layout.size + f.layout.gap)
  /\ Saved(m, f.layout, f.home, caller.regs)
  /\ \A q \in Registers : Fits(f.regs[q], Own(f.layout, q), f.home, caller.regs)

\* The functions fs on the stack m.
Stack(m, fs) ==
  /\ fs \in Seq(Function) /\ Len(fs) \in 1..MaxFrames
  /\ fs[1].layout \in Roots
  /\ \A i \in 2..Len(fs) : fs[i].layout \in Layouts
  /\ \A i \in 1..Len(fs) : Sound(fs[i], i)
  /\ \A i, j \in 1..Len(fs) : i < j => fs[j].home <= fs[i].home
  /\ \A i \in 2..Len(fs) : Linked(m, fs[i], fs[i - 1])

Runs ==
  /\ \A r \in Registers \ {"rsp"} : Running.regs[r] = regs[r]
  /\ Running.home = regs["rsp"]
  /\ mode = "run" => Running.pushed = 0

Walks == mode = "walk" => state["ra"] = IF cursor = 0 THEN Unknown ELSE cursor

Inv == Types /\ Stack(mem, frames) /\ Runs /\ Walks /\ KnownIsTrue /\ UnknownOnlyIfLost

-----------------------------------------------------------------------------
(* Stacks.                                                                 *)

LEMMA FunctionFacts ==
  ASSUME NEW f \in Function
  PROVE  /\ f.layout \in Layout /\ f.home \in Int /\ f.pushed \in Nat
         /\ f.regs \in [Registers -> Int] /\ \A r \in Registers : f.regs[r] \in Int
  BY DEF Function

LEMMA RegisterFacts ==
  /\ "rsp" \in Registers /\ "ra" \in Registers /\ "rsp" \notin General /\ "ra" \notin General
  /\ Preserved \subseteq General /\ Volatile \subseteq General /\ General \subseteq Registers
  /\ Preserved \cap Volatile = {} /\ Data \subseteq Volatile
  BY RegisterAssumption DEF Registers, General

\* What is on the stack at home and above stays saved.
KeptAbove(low, m, m2) == \A a \in Words : a >= low => m2[a] = m[a]

LEMMA SavedKept ==
  ASSUME NEW m, NEW m2, NEW l, NEW home \in Int, NEW caller, Saved(m, l, home, caller),
         NEW low \in Int, low <= home, KeptAbove(low, m, m2)
  PROVE  Saved(m2, l, home, caller)
<1>1. ASSUME NEW k \in Nat, SavedAt(l, k, 0) # {}
      PROVE  home + k \in Words /\ Fits(m2[home + k], Word(l, InFrame(k)), home, caller)
  <2>1. home + k \in Words /\ Fits(m[home + k], Word(l, InFrame(k)), home, caller)
    BY <1>1 DEF Saved
  <2>2. home + k >= low
    OBVIOUS
  <2> QED
    BY <2>1, <2>2 DEF KeptAbove
<1> QED
  BY <1>1 DEF Saved

\* The functions fs, the newest of which has p words pushed and the registers r.
Amended(fs, p, r) == [fs EXCEPT ![Len(fs)] = [@ EXCEPT !.pushed = p, !.regs = r]]

LEMMA AmendedIs ==
  ASSUME NEW fs \in Seq(Function), Len(fs) >= 1, NEW p \in Nat, NEW r \in [Registers -> Int]
  PROVE  LET gs == Amended(fs, p, r)
             n == Len(fs)
         IN  /\ gs \in Seq(Function) /\ Len(gs) = n
             /\ \A i \in 1..(n - 1) : gs[i] = fs[i]
             /\ gs[n].layout = fs[n].layout /\ gs[n].home = fs[n].home
             /\ gs[n].pushed = p /\ gs[n].regs = r
<1> DEFINE n == Len(fs)
           f == fs[n]
           g == [f EXCEPT !.pushed = p, !.regs = r]
<1>1. n \in 1..n /\ n \in Nat /\ f \in Function
  OBVIOUS
<1>2. /\ g \in Function /\ g.layout = f.layout /\ g.home = f.home
      /\ g.pushed = p /\ g.regs = r
  BY <1>1 DEF Function
<1>3. Amended(fs, p, r) = [fs EXCEPT ![n] = g]
  BY DEF Amended
<1> HIDE DEF g
<1> QED
  BY <1>1, <1>2, <1>3

\* Frame f, the i-th, goes on or is suspended with p words pushed and the
\* registers r: only volatile ones may be new.
Resumes(f, i, p, r) ==
  /\ r \in [Registers -> Int] /\ r["ra"] = i /\ r["rsp"] = f.home - p
  /\ f.layout.signal => p = 0
  /\ \A q \in Preserved : r[q] = f.regs[q]

IsAmended(gs, fs, n, p, r) ==
  /\ Len(gs) = n /\ \A i \in 1..(n - 1) : gs[i] = fs[i]
  /\ gs[n].layout = fs[n].layout /\ gs[n].home = fs[n].home
  /\ gs[n].pushed = p /\ gs[n].regs = r

\* The newest n functions are a stack then, if memory changed below them only.
LEMMA AmendedStack ==
  ASSUME NEW m, NEW m2, NEW fs, Stack(m, fs), NEW n \in 1..Len(fs), NEW p \in Nat, NEW r,
         Resumes(fs[n], n, p, r), KeptAbove(fs[n].home, m, m2)
  PROVE  LET gs == Amended(SubSeq(fs, 1, n), p, r)
         IN  Stack(m2, gs) /\ IsAmended(gs, fs, n, p, r)
<1> USE DEF Resumes, IsAmended
<1> DEFINE hs == SubSeq(fs, 1, n)
           gs == Amended(hs, p, r)
<1>1. /\ fs \in Seq(Function) /\ Len(fs) \in 1..MaxFrames /\ fs[1].layout \in Roots
      /\ \A i \in 2..Len(fs) : fs[i].layout \in Layouts
      /\ \A i \in 1..Len(fs) : Sound(fs[i], i) /\ fs[i] \in Function
      /\ \A i, j \in 1..Len(fs) : i < j => fs[j].home <= fs[i].home
      /\ \A i \in 2..Len(fs) : Linked(m, fs[i], fs[i - 1])
  BY DEF Stack
<1>2. hs \in Seq(Function) /\ Len(hs) = n /\ \A i \in 1..n : hs[i] = fs[i]
  BY <1>1
<1>3. /\ gs \in Seq(Function) /\ Len(gs) = n
      /\ \A i \in 1..(n - 1) : gs[i] = fs[i]
      /\ gs[n].layout = fs[n].layout /\ gs[n].home = fs[n].home
      /\ gs[n].pushed = p /\ gs[n].regs = r
  <2>1. Len(hs) >= 1 /\ n \in 1..n
    BY <1>2
  <2> HIDE DEF hs
  <2>2. /\ gs \in Seq(Function) /\ Len(gs) = Len(hs)
        /\ \A i \in 1..(Len(hs) - 1) : gs[i] = hs[i]
        /\ gs[Len(hs)].layout = hs[Len(hs)].layout /\ gs[Len(hs)].home = hs[Len(hs)].home
        /\ gs[Len(hs)].pushed = p /\ gs[Len(hs)].regs = r
    BY <1>2, <2>1, AmendedIs
  <2> HIDE DEF gs
  <2> QED
    BY <1>2, <2>1, <2>2
<1> HIDE DEF gs
<1>4. \A i \in 1..n : gs[i].layout = fs[i].layout /\ gs[i].home = fs[i].home
  BY <1>3
<1>5. ASSUME NEW i \in 1..n
      PROVE  Sound(gs[i], i)
  <2>1. CASE i = n
    BY <1>1, <1>3, <2>1 DEF Sound
  <2>2. CASE i # n
    BY <1>1, <1>3, <2>2
  <2> QED
    BY <2>1, <2>2
<1>6. ASSUME NEW i \in 2..n
      PROVE  Linked(m2, gs[i], gs[i - 1])
  <2>1. Linked(m, fs[i], fs[i - 1]) /\ gs[i - 1] = fs[i - 1]
    BY <1>1, <1>3
  <2> DEFINE f == fs[i]
             caller == fs[i - 1].regs
  <2>2. f.home \in Int /\ fs[n].home \in Int /\ fs[n].home <= f.home
    <3>1. fs[i] \in Function /\ fs[n] \in Function
      BY <1>1
    <3>2. i = n \/ i < n
      OBVIOUS
    <3> QED
      BY <1>1, <3>1, <3>2, FunctionFacts
  <2>3. Saved(m2, f.layout, f.home, caller)
    <3>1. Saved(m, f.layout, f.home, caller)
      BY <2>1 DEF Linked
    <3> HIDE DEF f, caller
    <3> QED
      BY <2>2, <3>1, SavedKept
  <2>4. ASSUME NEW q \in Registers
        PROVE  Fits(gs[i].regs[q], Own(f.layout, q), f.home, caller)
    <3>1. Fits(f.regs[q], Own(f.layout, q), f.home, caller)
      BY <2>1 DEF Linked
    <3>2. CASE gs[i].regs[q] = f.regs[q]
      BY <3>1, <3>2
    <3>3. CASE i = n /\ q = "rsp" /\ f.layout.signal
      <4>1. r[q] = f.home + 0
        BY <2>2, <3>3
      <4>2. Own(f.layout, q) = InFrame(0)
        BY <3>3 DEF Own
      <4> QED
        BY <1>3, <3>3, <4>1, <4>2 DEF Fits, InFrame, Meaning
    <3>4. CASE i = n /\ q = "rsp" /\ ~f.layout.signal
      BY <3>4 DEF Own, Any, Meaning, Fits
    <3>5. CASE i = n /\ q \notin Preserved /\ q # "rsp"
      BY <3>5 DEF Own, Any, Meaning, Fits
    <3>6. i = n \/ gs[i].regs[q] = f.regs[q]
      BY <1>3
    <3>7. i = n /\ q \in Preserved => gs[i].regs[q] = f.regs[q]
      BY <1>3
    <3> QED
      BY <3>2, <3>3, <3>4, <3>5, <3>6, <3>7
  <2> QED
    BY <1>4, <2>1, <2>3, <2>4 DEF Linked
<1>7. Stack(m2, gs)
  <2>1. \A i, j \in 1..n : i < j => gs[j].home <= gs[i].home
    BY <1>1, <1>4
  <2>2. n \in 1..MaxFrames /\ 1 \in 1..n
    BY <1>1, LayoutAssumption
  <2>3. gs[1].layout \in Roots
    BY <1>1, <1>4, <2>2
  <2>4. ASSUME NEW i \in 2..n
        PROVE  gs[i].layout \in Layouts
    <3>1. i \in 1..n /\ i \in 2..Len(fs)
      BY <1>1
    <3> QED
      BY <1>1, <1>4, <3>1
  <2> QED
    BY <1>3, <1>5, <1>6, <2>1, <2>2, <2>3, <2>4 DEF Stack
<1> QED
  BY <1>3, <1>7 DEF gs

\* One more function.
LEMMA GrownStack ==
  ASSUME NEW m, NEW fs, Stack(m, fs), Len(fs) < MaxFrames,
         NEW f \in Function, f.layout \in Layouts, Sound(f, Len(fs) + 1),
         f.home <= fs[Len(fs)].home, Linked(m, f, fs[Len(fs)])
  PROVE  Stack(m, Append(fs, f))
<1> DEFINE gs == Append(fs, f)
           n == Len(fs)
<1>1. /\ fs \in Seq(Function) /\ n \in 1..MaxFrames /\ fs[1].layout \in Roots
      /\ \A i \in 2..n : fs[i].layout \in Layouts
      /\ \A i \in 1..n : Sound(fs[i], i) /\ fs[i] \in Function
      /\ \A i, j \in 1..n : i < j => fs[j].home <= fs[i].home
      /\ \A i \in 2..n : Linked(m, fs[i], fs[i - 1])
  BY DEF Stack
<1>2. /\ gs \in Seq(Function) /\ Len(gs) = n + 1 /\ gs[n + 1] = f
      /\ \A i \in 1..n : gs[i] = fs[i]
  BY <1>1
<1> HIDE DEF gs
<1>3. n + 1 \in 1..MaxFrames /\ n \in 1..n
  BY <1>1, LayoutAssumption
<1>4. f.home \in Int /\ \A i \in 1..n : fs[i].home \in Int
  BY <1>1, FunctionFacts
<1>5. ASSUME NEW i \in 1..(n + 1), NEW j \in 1..(n + 1), i < j
      PROVE  gs[j].home <= gs[i].home
  <2>1. CASE j = n + 1
    <3>1. i \in 1..n /\ gs[j].home = f.home /\ gs[i].home = fs[i].home
      BY <1>1, <1>2, <1>5, <2>1
    <3>2. fs[n].home <= fs[i].home
      BY <1>1, <1>3, <1>4, <3>1
    <3> QED
      BY <1>3, <1>4, <3>1, <3>2
  <2>2. CASE j # n + 1
    <3>1. i \in 1..n /\ j \in 1..n
      <4>1. n \in Nat
        BY <1>1
      <4> QED
        BY <1>5, <2>2, <4>1
    <3> QED
      BY <1>1, <1>2, <1>5, <3>1
  <2> QED
    BY <2>1, <2>2
<1>6. ASSUME NEW i \in 1..(n + 1)
      PROVE  Sound(gs[i], i)
  <2>1. i = n + 1 \/ i \in 1..n
    BY <1>1
  <2> QED
    BY <1>1, <1>2, <2>1
<1>7. ASSUME NEW i \in 2..(n + 1)
      PROVE  Linked(m, gs[i], gs[i - 1]) /\ gs[i].layout \in Layouts
  <2>1. CASE i = n + 1
    <3>1. gs[i] = f /\ gs[i - 1] = fs[n]
      BY <1>1, <1>2, <1>3, <2>1
    <3> QED
      BY <3>1
  <2>2. CASE i # n + 1
    <3>1. i \in 2..n /\ i - 1 \in 1..n /\ i \in 1..n
      BY <1>1, <2>2
    <3> QED
      BY <1>1, <1>2, <3>1
  <2> QED
    BY <2>1, <2>2
<1>8. gs[1].layout \in Roots
  BY <1>1, <1>2
<1>9. gs \in Seq(Function) /\ Len(gs) \in 1..MaxFrames
  BY <1>2, <1>3
<1>10. \A i \in 2..Len(gs) : Linked(m, gs[i], gs[i - 1]) /\ gs[i].layout \in Layouts
  BY <1>2, <1>7
<1>11. \A i \in 1..Len(gs) : Sound(gs[i], i)
  BY <1>2, <1>6
<1>12. \A i, j \in 1..Len(gs) : i < j => gs[j].home <= gs[i].home
  BY <1>2, <1>5
<1>13. Stack(m, gs)
  BY <1>8, <1>9, <1>10, <1>11, <1>12 DEF Stack
<1> QED
  BY <1>13 DEF gs

-----------------------------------------------------------------------------
(* The program.                                                            *)

\* The oldest function's layout is one; it returns to nobody.
LEMMA RootFacts ==
  ASSUME NEW l \in Roots
  PROVE  /\ l \in Layout /\ ~l.signal /\ l.size = 1 /\ l.gap = 0
         /\ l.rule["ra"].kind \in {"Undefined", "absent"}
<1>1. PICK kind \in {"Undefined", "absent"} : l = Root(kind)
  BY DEF Roots
<1>2. ASSUME NEW k \in {"Undefined", "absent", "Register"}, NEW q \in Registers, NEW n \in {0, 1}
      PROVE  Is(k, q, n) \in Rule
  <2>1. <<>> \in Seq(Operation)
    OBVIOUS
  <2> QED
    BY <2>1 DEF Is, Rule
<1>3. Is("Register", "rsp", 1) \in Rule
  BY <1>2, RegisterFacts
<1>4. l.rule \in [Registers -> Rule]
  <2>1. l.rule = [r \in Registers |-> Is(IF r = "ra" THEN kind ELSE "absent", r, 0)]
    BY <1>1 DEF Root
  <2>2. ASSUME NEW r \in Registers
        PROVE  Is(IF r = "ra" THEN kind ELSE "absent", r, 0) \in Rule
    BY <1>2
  <2> QED
    BY <2>1, <2>2
<1>5. l.rule["ra"].kind = kind
  BY <1>1, RegisterFacts DEF Root, Is
<1>6. [r \in Registers |-> Nowhere] \in [Registers -> Nat \cup {Nowhere}]
  OBVIOUS
<1>7. l \in Layout
  <2>1. l = [size |-> 1, gap |-> 0, saves |-> [r \in Registers |-> Nowhere], points |-> Nowhere,
             moves |-> {}, gives |-> {}, signal |-> FALSE, cfa |-> Is("Register", "rsp", 1),
             rule |-> l.rule]
    BY <1>1 DEF Root
  <2> DEFINE saves == [r \in Registers |-> Nowhere]
             cfa == Is("Register", "rsp", 1)
             rule == l.rule
  <2>2. saves \in [Registers -> Nat \cup {Nowhere}] /\ cfa \in Rule /\ rule \in [Registers -> Rule]
    BY <1>3, <1>4, <1>6
  <2>3. l = [size |-> 1, gap |-> 0, saves |-> saves, points |-> Nowhere,
             moves |-> {}, gives |-> {}, signal |-> FALSE, cfa |-> cfa, rule |-> rule]
    BY <2>1
  <2> HIDE DEF saves, cfa, rule
  <2> QED
    BY <2>2, <2>3 DEF Layout
<1>8. ~l.signal /\ l.size = 1 /\ l.gap = 0
  BY <1>1 DEF Root
<1> QED
  BY <1>1, <1>5, <1>7, <1>8

LEMMA InitHolds ==
  ASSUME Init
  PROVE  Inv
<1>1. PICK new \in Clobbers[1] :
        regs = [r \in Registers |->
                  IF r = "ra" THEN 1 ELSE IF r = "rsp" THEN Top - 1 ELSE new[r]]
  BY DEF Init
<1>2. PICK root \in Roots :
        frames = <<[layout |-> root, home |-> Top - 1, pushed |-> 0, regs |-> regs]>>
  BY DEF Init
<1>3. Top \in Nat /\ MaxFrames \in Nat \ {0} /\ new \in [General -> Nat]
  BY LayoutAssumption
<1>4. regs \in [Registers -> Int] /\ regs["ra"] = 1 /\ regs["rsp"] = Top - 1
  <2>1. ASSUME NEW r \in Registers
        PROVE  (IF r = "ra" THEN 1 ELSE IF r = "rsp" THEN Top - 1 ELSE new[r]) \in Int
    BY <1>3 DEF Registers
  <2> QED
    BY <1>1, <2>1, RegisterFacts
<1>5. root \in Layout /\ ~root.signal
  BY RootFacts
<1> DEFINE f == [layout |-> root, home |-> Top - 1, pushed |-> 0, regs |-> regs]
<1>6. /\ f \in Function /\ f.layout = root /\ f.home = Top - 1 /\ f.pushed = 0
      /\ f.regs = regs
  BY <1>3, <1>4, <1>5 DEF Function
<1>7. frames = <<f>>
  BY <1>2
<1> HIDE DEF f
<1>8. frames \in Seq(Function) /\ Len(frames) = 1 /\ frames[1] = f
  BY <1>6, <1>7
<1>9. Sound(f, 1)
  BY <1>3, <1>4, <1>5, <1>6 DEF Sound
<1>10. Stack(mem, frames)
  BY <1>3, <1>6, <1>8, <1>9 DEF Stack
<1>11. Types
  <2>1. mem \in [Words -> Int]
    BY DEF Init
  <2>2. Unknown \in Values
    BY DEF Values
  <2> QED
    BY <1>4, <1>8, <2>1, <2>2 DEF Init, Types
<1>12. Runs
  BY <1>4, <1>6, <1>8 DEF Runs, Running
<1> QED
  BY <1>10, <1>11, <1>12 DEF Inv, Init, Walks, KnownIsTrue, UnknownOnlyIfLost, Resolved

\* The registers at a call.
LEMMA AtCallFacts ==
  ASSUME Inv, NEW n \in Nat, mode = "run", Running.layout.signal => n = 0
  PROVE  /\ AtCall(n) \in [Registers -> Int]
         /\ AtCall(n)["ra"] = Len(frames) /\ AtCall(n)["rsp"] = Running.home - n
         /\ \A q \in General : AtCall(n)[q] = regs[q] /\ regs[q] = Running.regs[q]
         /\ Len(frames) \in 1..Len(frames) /\ Running \in Function
<1>1. regs \in [Registers -> Int] /\ frames \in Seq(Function) /\ Len(frames) \in 1..MaxFrames
  BY DEF Inv, Types, Stack
<1>2. Len(frames) \in 1..Len(frames) /\ Running \in Function
  BY <1>1 DEF Running
<1>3. Sound(Running, Len(frames))
  BY <1>2 DEF Inv, Stack, Running
<1>4. regs["rsp"] = Running.home /\ regs["ra"] = Len(frames)
  BY <1>3, RegisterFacts DEF Inv, Runs, Sound
<1>5. \A q \in General : regs[q] = Running.regs[q]
  BY RegisterFacts DEF Inv, Runs
<1>6. Running.home \in Int
  BY <1>2, FunctionFacts
<1> QED
  BY <1>1, <1>2, <1>4, <1>5, <1>6, RegisterFacts DEF AtCall

\* A call leaves a stack, of the running function under the call too.
LEMMA SuspendStack ==
  ASSUME Inv, NEW n \in Nat, mode = "run", Running.layout.signal => n = 0,
         NEW m2, KeptAbove(Running.home, mem, m2)
  PROVE  /\ Stack(m2, Suspend(n))
         /\ IsAmended(Suspend(n), frames, Len(frames), n, AtCall(n))
<1> DEFINE k == Len(frames)
           r == AtCall(n)
<1>1. Stack(mem, frames) /\ frames \in Seq(Function)
  BY DEF Inv, Stack
<1>2. Resumes(frames[k], k, n, r) /\ k \in 1..Len(frames)
  BY AtCallFacts, RegisterFacts DEF Running, Resumes
<1>3. SubSeq(frames, 1, k) = frames
  BY <1>1
<1>4. Suspend(n) = Amended(SubSeq(frames, 1, k), n, r)
  BY <1>3 DEF Suspend, Amended
<1>5. KeptAbove(frames[k].home, mem, m2)
  BY DEF Running
<1> HIDE DEF k, r
<1> QED
  BY <1>1, <1>2, <1>4, <1>5, AmendedStack DEF k, r

\* What the prologue of l leaves: its caller's registers in the words and the
\* registers its layout names.
StartsAt(l, at, sp) == at["rsp"] <= Top /\ sp = at["rsp"] - l.gap - l.size

LEMMA PrologueLinks ==
  ASSUME NEW l \in Layouts, NEW at \in [Registers -> Int], NEW sp \in Nat,
         StartsAt(l, at, sp),
         mem \in [Words -> Int], NEW new \in [General -> Nat]
  PROVE  LET m2 == Spilled(l, at, sp)
             r2 == Entered(l, at, sp, new)
         IN  /\ m2 \in [Words -> Int] /\ r2 \in [Registers -> Int]
             /\ KeptAbove(at["rsp"], mem, m2)
             /\ Saved(m2, l, sp, at)
             /\ r2["rsp"] = sp /\ r2["ra"] = at["ra"] + 1
             /\ \A q \in Registers : Fits(r2[q], Own(l, q), sp, at)
<1> DEFINE m2 == Spilled(l, at, sp)
           r2 == Entered(l, at, sp, new)
           size == l.size
           gap == l.gap
           rsp == at["rsp"]
<1>1. l \in Layout /\ \A r \in Registers : l.saves[r] < size + gap
  BY LayoutAssumption, RowsAssumption DEF Describes
<1> HIDE DEF m2, r2, size, gap, rsp
<1>2. /\ size \in Nat /\ gap \in Nat
      /\ l.points \in Nat \/ l.points = Nowhere
      /\ \A r \in Registers : l.saves[r] \in Nat \/ l.saves[r] = Nowhere
  BY <1>1, LayoutFacts DEF size, gap
<1>3. rsp \in Int /\ rsp = sp + (size + gap) /\ Top \in Nat /\ rsp <= Top
  <2>1. rsp \in Int /\ Top \in Nat
    BY RegisterFacts, LayoutAssumption DEF rsp
  <2>2. sp = rsp - gap - size /\ rsp <= Top
    BY DEF rsp, gap, size, StartsAt
  <2>3. size \in Nat /\ gap \in Nat
    BY <1>2
  <2> QED
    BY <2>1, <2>2, <2>3
<1>4. \A S \in SUBSET Registers : S # {} => (CHOOSE r \in S : TRUE) \in S
  OBVIOUS
<1>5. ASSUME NEW a \in Words
      PROVE  m2[a] \in Int
  <2>1. SavedAt(l, a, sp) \in SUBSET Registers
    BY DEF SavedAt
  <2> QED
    BY <1>4, <2>1 DEF m2, Spilled
<1>6. KeptAbove(rsp, mem, m2)
  <2> SUFFICES ASSUME NEW a \in Words, a >= rsp
               PROVE  m2[a] = mem[a]
    BY DEF KeptAbove
  <2>1. SavedAt(l, a, sp) = {}
    <3> SUFFICES ASSUME NEW r \in Registers, l.saves[r] # Nowhere, sp + l.saves[r] = a
                 PROVE  FALSE
      BY DEF SavedAt
    <3> DEFINE k == l.saves[r]
    <3>1. k \in Nat /\ k < size + gap
      BY <1>1, <1>2
    <3>2. a \in Int /\ a >= rsp /\ sp + k = a /\ size \in Nat /\ gap \in Nat
      BY <1>2 DEF Words
    <3> HIDE DEF k
    <3> QED
      BY <1>3, <3>1, <3>2
  <2> QED
    BY <2>1 DEF m2, Spilled
<1>7. Saved(m2, l, sp, at)
  <2> SUFFICES ASSUME NEW k \in Nat, SavedAt(l, k, 0) # {}
               PROVE  sp + k \in Words /\ Fits(m2[sp + k], Word(l, InFrame(k)), sp, at)
    BY DEF Saved
  <2>1. SavedAt(l, sp + k, sp) = SavedAt(l, k, 0)
    <3>1. ASSUME NEW r \in Registers, l.saves[r] # Nowhere
          PROVE  (sp + l.saves[r] = sp + k) <=> (0 + l.saves[r] = k)
      <4>1. l.saves[r] \in Nat
        BY <1>2, <3>1
      <4> QED
        BY <4>1
    <3> QED
      BY <3>1 DEF SavedAt
  <2>2. sp + k \in Words
    <3>1. PICK r \in Registers : l.saves[r] # Nowhere /\ 0 + l.saves[r] = k
      BY DEF SavedAt
    <3>2. k < size + gap
      BY <1>1, <1>2, <3>1
    <3>3. size \in Nat /\ gap \in Nat
      BY <1>2
    <3> QED
      BY <1>3, <3>2, <3>3 DEF Words
  <2> DEFINE r == CHOOSE r \in SavedAt(l, k, 0) : TRUE
  <2>3. r \in Registers
    <3>1. SavedAt(l, k, 0) \in SUBSET Registers
      BY DEF SavedAt
    <3> QED
      BY <1>4, <3>1
  <2>4. m2[sp + k] = at[r]
    BY <2>1, <2>2 DEF m2, Spilled
  <2>5. Word(l, InFrame(k)) = CallersOwn(l, r)
    BY DEF Word, InFrame, Meaning
  <2>6. Fits(at[r], CallersOwn(l, r), sp, at)
    <3> HIDE DEF r
    <3>1. at[r] \in Int
      BY <2>3
    <3>2. CASE r = "rsp"
      <4>1. at[r] = sp + (l.size + l.gap)
        BY <1>3, <3>2 DEF rsp, size, gap
      <4>2. CallersOwn(l, r).base = "home" /\ CallersOwn(l, r).n = l.size + l.gap
        BY <3>2 DEF CallersOwn, InFrame, Meaning
      <4> QED
        BY <4>1, <4>2 DEF Fits
    <3>3. CASE r # "rsp"
      <4>1. CallersOwn(l, r).base = r /\ CallersOwn(l, r).n = 0
        BY <3>3 DEF CallersOwn, Meaning
      <4> QED
        BY <2>3, <3>1, <4>1 DEF Fits
    <3> QED
      BY <3>2, <3>3
  <2> QED
    BY <2>2, <2>4, <2>5, <2>6
<1>8. ASSUME NEW q \in Registers
      PROVE  r2[q] \in Int /\ Fits(r2[q], Own(l, q), sp, at)
  <2>1. at[q] \in Int /\ at["ra"] \in Int
    BY RegisterFacts
  <2>2. CASE q = "rsp"
    <3>1. r2[q] = sp
      BY <2>2 DEF r2, Entered
    <3>2. Own(l, q) = InFrame(0) \/ Own(l, q) = Any
      BY <2>2 DEF Own
    <3> QED
      BY <3>1, <3>2 DEF Fits, Any, InFrame, Meaning
  <2>3. CASE q = "ra"
    <3>1. r2[q] = at["ra"] + 1
      BY <2>3 DEF r2, Entered
    <3>2. Own(l, q) = Any
      BY <2>3, RegisterFacts DEF Own
    <3> QED
      BY <2>1, <3>1, <3>2 DEF Fits, Any, Meaning
  <2>4. CASE q \notin {"rsp", "ra"} /\ q = "rbp" /\ l.points # Nowhere
    <3>1. r2[q] = sp + l.points
      BY <2>4 DEF r2, Entered
    <3>2. Own(l, q) = InFrame(l.points)
      BY <2>4, RegisterAssumption DEF Own
    <3> QED
      BY <1>2, <2>4, <3>1, <3>2 DEF Fits, InFrame, Meaning
  <2>5. CASE q \notin {"rsp", "ra"} /\ ~(q = "rbp" /\ l.points # Nowhere) /\ KeptIn(l, q) # {}
    <3> DEFINE p == CHOOSE p \in KeptIn(l, q) : TRUE
    <3>1. p \in General /\ p \in Registers /\ p # "rsp"
      <4>1. KeptIn(l, q) \in SUBSET General
        BY DEF KeptIn
      <4> HIDE DEF KeptIn
      <4>2. p \in KeptIn(l, q)
        BY <2>5
      <4> QED
        BY <4>1, <4>2, RegisterFacts
    <3>2. r2[q] = at[p]
      BY <2>5 DEF r2, Entered
    <3>3. Own(l, q) \in {Any, Meaning(p, 0)}
      BY <2>5, <3>1 DEF Own, CallersOwn
    <3> HIDE DEF p
    <3>4. at[p] \in Int
      BY <3>1
    <3> QED
      BY <3>1, <3>2, <3>3, <3>4 DEF Fits, Any, Meaning
  <2>6. CASE q \notin {"rsp", "ra"} /\ ~(q = "rbp" /\ l.points # Nowhere) /\ KeptIn(l, q) = {}
             /\ Spares(l, q)
    <3>1. r2[q] = at[q]
      BY <2>6 DEF r2, Entered
    <3>2. Own(l, q) \in {Any, Meaning(q, 0)}
      BY <2>6 DEF Own, CallersOwn
    <3> QED
      BY <2>1, <3>1, <3>2 DEF Fits, Any, Meaning
  <2>7. CASE q \notin {"rsp", "ra"} /\ ~(q = "rbp" /\ l.points # Nowhere) /\ KeptIn(l, q) = {}
             /\ ~Spares(l, q)
    <3>1. r2[q] = new[q]
      BY <2>7 DEF r2, Entered
    <3>2. Own(l, q) = Any /\ q \in General
      BY <2>7 DEF Own, Registers
    <3> QED
      BY <3>1, <3>2 DEF Fits, Any, Meaning
  <2> QED
    BY <2>2, <2>3, <2>4, <2>5, <2>6, <2>7
<1>9. m2 \in [Words -> Int]
  BY <1>5 DEF m2, Spilled
<1>10. r2 \in [Registers -> Int]
  BY <1>8 DEF r2, Entered
<1>11. r2["rsp"] = sp /\ r2["ra"] = at["ra"] + 1
  BY RegisterFacts DEF r2, Entered
<1> QED
  BY <1>6, <1>7, <1>8, <1>9, <1>10, <1>11 DEF m2, r2, rsp

LEMMA StartStep ==
  ASSUME Inv, NEW l \in Layouts, NEW n \in Nat, Start(l, n), mode = "run",
         Len(frames) < MaxFrames, Running.layout.signal => n = 0
  PROVE  Inv'
<1> DEFINE k == Len(frames)
           at == AtCall(n)
           sp == at["rsp"] - l.gap - l.size
           gs == Suspend(n)
           f == [layout |-> l, home |-> sp, pushed |-> 0, regs |-> regs']
<1>1. PICK new \in Clobbers[k + 1] :
        /\ sp >= 0 /\ mem' = Spilled(l, at, sp) /\ regs' = Entered(l, at, sp, new)
        /\ frames' = Append(gs, f)
  BY DEF Start
<1>2. mode' = "run" /\ state' = state /\ cursor' = cursor
  BY DEF Start
<1>3. /\ mem \in [Words -> Int] /\ state \in [Registers -> Values] /\ cursor \in 0..k
      /\ k \in 1..MaxFrames
  BY DEF Inv, Types, Stack
<1>4. new \in [General -> Nat] /\ l \in Layout /\ Top \in Nat
  <2>1. k + 1 \in 1..MaxFrames
    BY <1>3, LayoutAssumption
  <2> QED
    BY <2>1, LayoutAssumption
<1>5. /\ at \in [Registers -> Int] /\ at["ra"] = k /\ at["rsp"] = Running.home - n
      /\ Running \in Function
  BY AtCallFacts
<1>6. Running.home \in Int /\ Running.home <= Top
  <2>1. Sound(Running, k)
    BY <1>3 DEF Inv, Stack, Running
  <2> QED
    BY <1>5, <2>1, FunctionFacts DEF Sound
<1>7. sp \in Nat /\ l.size \in Nat /\ l.gap \in Nat /\ at["rsp"] \in Int
  BY <1>1, <1>4, <1>5, LayoutFacts, RegisterFacts
<1>8. StartsAt(l, at, sp) /\ at["rsp"] <= Running.home
  <2>1. at["rsp"] <= Running.home
    BY <1>5, <1>6
  <2> DEFINE rsp == at["rsp"]
             home == Running.home
  <2>2. rsp <= Top
    <3>1. rsp \in Int /\ home \in Int /\ home <= Top /\ rsp <= home
      BY <1>6, <1>7, <2>1
    <3> HIDE DEF rsp, home
    <3> QED
      BY <1>4, <3>1
  <2> QED
    BY <2>1, <2>2 DEF StartsAt
<1> HIDE DEF at, sp
<1>9. /\ mem' \in [Words -> Int] /\ regs' \in [Registers -> Int]
      /\ KeptAbove(at["rsp"], mem, mem')
      /\ Saved(mem', l, sp, at)
      /\ regs'["rsp"] = sp /\ regs'["ra"] = at["ra"] + 1
      /\ \A q \in Registers : Fits(regs'[q], Own(l, q), sp, at)
  <2> DEFINE m2 == Spilled(l, at, sp)
             r2 == Entered(l, at, sp, new)
  <2>1. /\ m2 \in [Words -> Int] /\ r2 \in [Registers -> Int]
        /\ KeptAbove(at["rsp"], mem, m2)
        /\ Saved(m2, l, sp, at)
        /\ r2["rsp"] = sp /\ r2["ra"] = at["ra"] + 1
        /\ \A q \in Registers : Fits(r2[q], Own(l, q), sp, at)
    BY <1>3, <1>4, <1>5, <1>7, <1>8, PrologueLinks
  <2>2. mem' = m2 /\ regs' = r2
    BY <1>1
  <2> HIDE DEF m2, r2
  <2> QED
    BY <2>1, <2>2
<1>10. KeptAbove(Running.home, mem, mem')
  <2> SUFFICES ASSUME NEW a \in Words, a >= Running.home
               PROVE  mem'[a] = mem[a]
    BY DEF KeptAbove
  <2>1. a >= at["rsp"]
    BY <1>6, <1>7, <1>8 DEF Words
  <2> QED
    BY <1>9, <2>1 DEF KeptAbove
<1>11. Stack(mem', gs) /\ IsAmended(gs, frames, k, n, at)
  BY <1>10, SuspendStack DEF at
<1>12. /\ f \in Function /\ f.layout = l /\ f.home = sp /\ f.pushed = 0 /\ f.regs = regs'
  BY <1>4, <1>7, <1>9 DEF Function
<1>13. Len(gs) = k /\ gs[k].home = Running.home /\ gs[k].regs = at
  BY <1>11 DEF IsAmended, Running
<1> HIDE DEF f
<1>14. Sound(f, Len(gs) + 1)
  <2>1. sp <= Top
    <3> DEFINE rsp == at["rsp"]
               room == l.gap + l.size
    <3>1. rsp <= Top /\ sp = rsp - l.gap - l.size
      BY <1>8 DEF StartsAt
    <3>2. rsp <= Top /\ sp = rsp - room
      BY <1>7, <3>1
    <3>3. rsp \in Int /\ room \in Nat
      BY <1>7
    <3> HIDE DEF rsp, room
    <3> QED
      BY <1>4, <1>7, <3>2, <3>3
  <2>2. sp = sp - 0
    BY <1>7
  <2> QED
    BY <1>5, <1>9, <1>12, <1>13, <2>1, <2>2 DEF Sound
<1>15. at["rsp"] = sp + (l.size + l.gap)
  BY <1>7, <1>8 DEF StartsAt
<1>16. f.home <= gs[k].home
  <2>1. sp <= at["rsp"]
    BY <1>7, <1>15
  <2> QED
    BY <1>6, <1>7, <1>8, <1>12, <1>13, <2>1
<1>17. Linked(mem', f, gs[k])
  BY <1>7, <1>9, <1>12, <1>13, <1>15 DEF Linked
<1>18. Stack(mem', Append(gs, f))
  BY <1>11, <1>12, <1>13, <1>14, <1>16, <1>17, GrownStack
<1>19. gs \in Seq(Function)
  BY <1>11 DEF Stack
<1>20. Len(frames') = k + 1 /\ frames'[k + 1] = f
  BY <1>1, <1>12, <1>13, <1>19
<1>21. Types'
  BY <1>2, <1>3, <1>9, <1>20 DEF Types
<1>22. Runs'
  BY <1>9, <1>12, <1>20 DEF Runs, Running
<1> QED
  BY <1>1, <1>2, <1>18, <1>21, <1>22
  DEF Inv, Walks, KnownIsTrue, UnknownOnlyIfLost, Resolved

LEMMA RaiseStep ==
  ASSUME Inv, NEW n \in Nat, Raise(n)
  PROVE  Inv'
<1> DEFINE k == Len(frames)
           at == AtCall(n)
<1>1. /\ mode = "run" /\ ~Running.layout.signal /\ mode' = "walk" /\ cursor' = k
      /\ frames' = Suspend(n) /\ mem' = mem /\ regs' = regs
      /\ state' = [r \in Registers |-> IF r \in Volatile THEN Unknown ELSE at[r]]
  BY DEF Raise
<1>2. /\ at \in [Registers -> Int] /\ at["ra"] = k /\ at["rsp"] = Running.home - n
      /\ \A q \in General : at[q] = regs[q] /\ regs[q] = Running.regs[q]
      /\ k \in 1..k /\ Running \in Function
  BY <1>1, AtCallFacts
<1>3. KeptAbove(Running.home, mem, mem)
  BY DEF KeptAbove
<1>4. Stack(mem, frames') /\ IsAmended(frames', frames, k, n, at)
  BY <1>1, <1>3, SuspendStack
<1>5. /\ Len(frames') = k /\ frames'[k].home = Running.home /\ frames'[k].regs = at
      /\ frames'[k].pushed = n
  BY <1>4 DEF IsAmended, Running
<1> HIDE DEF at
<1>6. state' \in [Registers -> Values]
  <2>1. ASSUME NEW r \in Registers
        PROVE  (IF r \in Volatile THEN Unknown ELSE at[r]) \in Values
    BY <1>2 DEF Values
  <2> QED
    BY <1>1, <2>1
<1>7. \A r \in Registers \ Volatile : state'[r] = at[r] /\ state'[r] # Unknown
  BY <1>1, <1>2, RegisterAssumption
<1>8. "ra" \in Registers \ Volatile /\ Preserved \subseteq Registers \ Volatile
  BY RegisterFacts
<1>9. Types'
  BY <1>1, <1>2, <1>5, <1>6 DEF Inv, Types
<1>10. Runs'
  <2>1. \A r \in Registers \ {"rsp"} : at[r] = regs[r]
    <3>1. regs["ra"] = k
      <4>1. Sound(Running, k)
        BY <1>2 DEF Inv, Stack, Running
      <4> QED
        BY <4>1, RegisterFacts DEF Inv, Runs, Sound
    <3> QED
      BY <1>2, <3>1 DEF Registers
  <2> QED
    BY <1>1, <1>5, <2>1 DEF Inv, Runs, Running
<1>11. state'["ra"] = k /\ k # 0
  BY <1>2, <1>7, <1>8
<1>12. KnownIsTrue'
  <2>1. ~Interrupted(k)'
    BY <1>5 DEF Interrupted
  <2>2. \A r \in Registers \ Volatile : state'[r] \in {Unknown, frames'[cursor'].regs[r]}
    BY <1>1, <1>5, <1>7
  <2>3. (IF Interrupted(cursor) THEN Registers ELSE Registers \ Volatile)' = Registers \ Volatile
    BY <1>1, <1>5 DEF Interrupted
  <2> QED
    BY <1>1, <1>11, <2>2, <2>3 DEF KnownIsTrue
<1>13. UnknownOnlyIfLost'
  BY <1>1, <1>2, <1>7, <1>8, <1>11, RegisterAssumption DEF UnknownOnlyIfLost, Resolved
<1> QED
  BY <1>1, <1>4, <1>9, <1>10, <1>11, <1>12, <1>13 DEF Inv, Walks

-----------------------------------------------------------------------------
(* The walk.                                                               *)

\* The cursor names the frame it should.
LEMMA NamedIs ==
  ASSUME Inv, Resolved
  PROVE  /\ mode = "walk" /\ cursor \in 1..Len(frames) /\ state["ra"] = cursor
         /\ Named = frames[cursor] /\ Named \in Function /\ Sound(Named, cursor)
<1>1. mode = "walk" /\ state["ra"] # Unknown
  BY DEF Resolved
<1>2. state["ra"] = cursor /\ cursor # 0
  BY <1>1 DEF Inv, Walks
<1>3. cursor \in 1..Len(frames) /\ frames \in Seq(Function)
  BY <1>2 DEF Inv, Types, Stack
<1>4. Named = frames[cursor]
  BY <1>2 DEF Named
<1>5. Sound(Named, cursor)
  BY <1>3, <1>4 DEF Inv, Stack
<1> QED
  BY <1>1, <1>2, <1>3, <1>4, <1>5

LEMMA NamedFaithful ==
  ASSUME Inv, Resolved, cursor # 1
  PROVE  /\ Row \in Layouts /\ cursor - 1 \in 1..Len(frames)
         /\ Faithful(frames[cursor - 1].regs)
<1> DEFINE f == frames[cursor]
           caller == frames[cursor - 1].regs
<1>1. /\ cursor \in 2..Len(frames) /\ cursor - 1 \in 1..Len(frames) /\ state["ra"] = cursor
      /\ Named = f /\ f \in Function /\ Sound(f, cursor)
  BY NamedIs
<1>2. Linked(mem, f, frames[cursor - 1]) /\ f.layout \in Layouts
  BY <1>1 DEF Inv, Stack
<1>3. frames[cursor - 1] \in Function
  BY <1>1 DEF Inv, Stack
<1>4. /\ f.layout \in Layout /\ f.home \in Int /\ f.pushed \in Nat
      /\ caller \in [Registers -> Int] /\ f.regs \in [Registers -> Int]
  BY <1>1, <1>3, FunctionFacts
<1>5. \A r \in Registers \ Volatile : state[r] \in {Unknown, f.regs[r]}
  BY DEF Inv, KnownIsTrue
<1>6. state["rsp"] \in {Unknown, f.home - f.pushed}
  <2>1. state["rsp"] \in {Unknown, f.regs["rsp"]}
    BY <1>5, RegisterFacts
  <2>2. f.regs["rsp"] = f.home - f.pushed
    BY <1>1 DEF Sound
  <2> QED
    BY <2>1, <2>2
<1>7. ASSUME NEW q \in Registers
      PROVE  Fits(state[q], Own(f.layout, q), f.home, caller)
  <2>1. Fits(f.regs[q], Own(f.layout, q), f.home, caller)
    BY <1>2 DEF Linked
  <2>2. CASE q \in Volatile
    <3>1. q \notin Preserved /\ q # "rsp"
      BY <2>2, RegisterFacts
    <3> QED
      BY <3>1 DEF Own, Any, Meaning, Fits
  <2>3. CASE q \notin Volatile
    <3>1. state[q] = Unknown \/ state[q] = f.regs[q]
      BY <1>5, <2>3
    <3>2. Fits(Unknown, Own(f.layout, q), f.home, caller)
      BY DEF Fits
    <3> QED
      BY <2>1, <3>1, <3>2
  <2> QED
    BY <2>2, <2>3
<1> QED
  BY <1>1, <1>2, <1>4, <1>6, <1>7 DEF Faithful, Row, Linked

LEMMA AdvanceStep ==
  ASSUME Inv, Advance
  PROVE  Inv'
<1> DEFINE k == Len(frames)
<1>1. /\ Resolved /\ Readable /\ cursor' = cursor - 1
      /\ state' = [r \in Registers |-> Restored(r)]
      /\ UNCHANGED <<regs, mem, frames, mode>>
  BY DEF Advance
<1>2. /\ mode = "walk" /\ cursor \in 1..k /\ state["ra"] = cursor
      /\ Named = frames[cursor] /\ Named \in Function
  BY <1>1, NamedIs
<1>3. mem \in [Words -> Int] /\ state \in [Registers -> Values]
  BY DEF Inv, Types
<1>4. Row \in Layout /\ Named.pushed \in Nat
  BY <1>2, FunctionFacts DEF Row
<1>5. ASSUME NEW r \in Registers
      PROVE  /\ Restored(r) \in Values /\ state'[r] = Restored(r)
             /\ Restored(r) = Unknown =>
                  \/ Row.rule[r].kind = "Undefined"
                  \/ Row.rule[r].kind = "absent" /\ (r = "ra" \/ (r # "rsp" /\ state[r] = Unknown))
  BY <1>1, <1>3, <1>4, RestoredTyped
<1>6. Types'
  BY <1>1, <1>2, <1>5 DEF Inv, Types
<1>7. Stack(mem, frames)' /\ Runs'
  BY <1>1 DEF Inv, Runs, Running
<1>8. CASE cursor = 1
  <2>1. Row \in Roots
    BY <1>2, <1>8 DEF Inv, Stack, Row
  <2>2. Row.rule["ra"].kind \in {"Undefined", "absent"}
    BY <2>1, RootFacts
  <2>3. Restored("ra") = Unknown
    BY <2>2, RegisterFacts DEF Restored, Default
  <2>4. state'["ra"] = Unknown /\ cursor' = 0
    BY <1>1, <1>5, <1>8, <2>3, RegisterFacts
  <2> QED
    BY <1>6, <1>7, <2>4 DEF Inv, Walks, KnownIsTrue, UnknownOnlyIfLost, Resolved
<1>9. CASE cursor # 1
  <2> DEFINE g == frames[cursor - 1]
             l == Row
  <2>1. l \in Layouts /\ cursor - 1 \in 1..k /\ Faithful(g.regs) /\ cursor - 1 # 0
    BY <1>1, <1>2, <1>9, NamedFaithful
  <2>2. \A r \in Claimed(l) : Restored(r) \in {Unknown, g.regs[r]} /\ (r = "ra" => Restored(r) # Unknown)
    BY <1>1, <1>3, <2>1, RestoredIsCallers
  <2>3. "ra" \in Claimed(l) /\ Claimed(l) \subseteq Registers
    BY RegisterFacts DEF Claimed
  <2>4. g.regs["ra"] = cursor - 1
    BY <2>1 DEF Inv, Stack, Sound
  <2>5. state'["ra"] = cursor'
    BY <1>1, <1>5, <2>2, <2>3, <2>4
  <2>6. Interrupted(cursor - 1) <=> l.signal
    BY <1>2, <2>1 DEF Interrupted, Row
  <2>7. (IF Interrupted(cursor) THEN Registers ELSE Registers \ Volatile)' = Claimed(l)
    BY <1>1, <2>6 DEF Claimed, Interrupted
  <2>8. KnownIsTrue'
    <3>1. \A r \in Claimed(l) : state'[r] \in {Unknown, g.regs[r]}
      BY <1>5, <2>2, <2>3
    <3>2. frames'[cursor'] = g
      BY <1>1
    <3> QED
      BY <2>5, <2>7, <3>1, <3>2 DEF KnownIsTrue
  <2>9. ASSUME NEW r \in Preserved, state'[r] = Unknown
        PROVE  \E i \in cursor..k : r \in frames[i].layout.gives
    <3>1. r \in Registers /\ r # "rsp" /\ r # "ra"
      BY RegisterFacts
    <3>2. CASE Row.rule[r].kind = "Undefined"
      <4>1. r \in l.gives
        BY <2>1, <3>2, RowsAssumption DEF Describes
      <4> QED
        BY <1>2, <4>1 DEF Row
    <3>3. CASE Row.rule[r].kind # "Undefined"
      <4>1. state[r] = Unknown
        BY <1>5, <2>9, <3>1, <3>3
      <4>2. PICK i \in (cursor + 1)..k : r \in frames[i].layout.gives
        BY <1>2, <4>1 DEF Inv, UnknownOnlyIfLost
      <4>3. i \in cursor..k
        BY <1>2
      <4> QED
        BY <4>2, <4>3
    <3> QED
      BY <3>2, <3>3
  <2>10. UnknownOnlyIfLost'
    <3>1. cursor' + 1 = cursor /\ frames' = frames
      BY <1>1, <1>2
    <3>2. state'["ra"] # Unknown /\ state'["ra"] # 0
      BY <1>1, <1>2, <2>1, <2>5, RegisterAssumption
    <3>3. Resolved'
      BY <1>1, <1>2, <3>2 DEF Resolved
    <3> QED
      BY <2>9, <3>1, <3>3 DEF UnknownOnlyIfLost
  <2>11. Walks'
    BY <1>1, <2>1, <2>5 DEF Walks
  <2> QED
    BY <1>6, <1>7, <2>8, <2>10, <2>11 DEF Inv
<1> QED
  BY <1>8, <1>9

\* The program goes on in the n-th function.
LEMMA LeaveStep ==
  ASSUME Inv, NEW n \in 1..Len(frames), Leave(SubSeq(frames, 1, n)),
         mem' \in [Words -> Int], KeptAbove(frames[n].home, mem, mem'),
         Resumes(frames[n], n, 0, regs')
  PROVE  Inv'
<1> DEFINE hs == SubSeq(frames, 1, n)
           gs == Amended(hs, 0, regs')
<1>1. /\ mode' = "run" /\ cursor' = 0 /\ state' = [r \in Registers |-> Unknown]
      /\ frames' = gs
  BY DEF Leave, Amended
<1>2. Stack(mem, frames) /\ frames[n] \in Function
  BY DEF Inv, Stack
<1>3. Stack(mem', gs) /\ IsAmended(gs, frames, n, 0, regs')
  BY <1>2, AmendedStack
<1> HIDE DEF gs
<1>4. /\ Len(gs) = n /\ gs[n].home = frames[n].home /\ gs[n].regs = regs' /\ gs[n].pushed = 0
  BY <1>3 DEF IsAmended
<1>5. regs' \in [Registers -> Int] /\ regs'["rsp"] = frames[n].home - 0
  BY DEF Resumes
<1>6. Types'
  <2>1. Unknown \in Values
    BY DEF Values
  <2> QED
    BY <1>1, <1>4, <1>5, <2>1 DEF Types
<1>7. Runs'
  <2>1. regs'["rsp"] = frames[n].home
    BY <1>2, <1>5, FunctionFacts
  <2> QED
    BY <1>1, <1>4, <2>1 DEF Runs, Running
<1> QED
  BY <1>1, <1>3, <1>6, <1>7 DEF Inv, Walks, KnownIsTrue, UnknownOnlyIfLost, Resolved

\* The unwinder returns to the running function.
LEMMA ReturnStep ==
  ASSUME Inv, UNCHANGED <<regs, mem>>, Leave(frames)
  PROVE  Inv'
<1> DEFINE k == Len(frames)
<1>1. /\ frames \in Seq(Function) /\ k \in 1..k /\ regs \in [Registers -> Int]
      /\ mem \in [Words -> Int] /\ Sound(frames[k], k) /\ frames[k] \in Function
  BY DEF Inv, Stack, Types
<1>2. SubSeq(frames, 1, k) = frames
  BY <1>1
<1>3. Resumes(frames[k], k, 0, regs)
  <2>1. regs["rsp"] = frames[k].home - 0
    BY <1>1, FunctionFacts DEF Inv, Runs, Running
  <2>2. /\ regs["ra"] = frames[k].regs["ra"]
        /\ \A q \in Preserved : regs[q] = frames[k].regs[q]
    BY RegisterFacts DEF Inv, Runs, Running
  <2> QED
    BY <1>1, <2>1, <2>2 DEF Resumes, Sound
<1>4. KeptAbove(frames[k].home, mem, mem')
  BY DEF KeptAbove
<1> QED
  BY <1>1, <1>2, <1>3, <1>4, LeaveStep

\* What a landing pad is entered with.
LEMMA InstallIs ==
  ASSUME Inv, Install
  PROVE  /\ cursor \in 1..Len(frames) /\ state["ra"] = cursor
         /\ Resumes(frames[cursor], cursor, 0, regs')
         /\ KeptAbove(frames[cursor].home, mem, mem') /\ mem' \in [Words -> Int]
<1> DEFINE f == frames[cursor]
<1>1. PICK data \in Clobbers[state["ra"]] :
        /\ \A r \in Required : Prepared(data)[r] # Unknown
        /\ regs' = [r \in Registers |->
             IF r = "rsp" THEN Adjusted ELSE Installed(Prepared(data)[r])]
  BY DEF Install
<1>2. /\ Resolved /\ mem' = [a \in Words |-> IF a < regs'["rsp"] THEN 0 ELSE mem[a]]
  BY DEF Install
<1>3. /\ cursor \in 1..Len(frames) /\ state["ra"] = cursor
      /\ Named = f /\ f \in Function /\ Sound(f, cursor)
  BY <1>2, NamedIs
<1>4. /\ mem \in [Words -> Int] /\ state \in [Registers -> Values]
      /\ Len(frames) \in 1..MaxFrames /\ f.home \in Int /\ f.pushed \in Nat
  BY <1>3, FunctionFacts DEF Inv, Types, Stack
<1>5. data \in [General -> Nat]
  <2>1. state["ra"] \in 1..MaxFrames
    BY <1>3, <1>4, LayoutAssumption
  <2> QED
    BY <2>1, LayoutAssumption
<1>6. \A r \in Registers \ Volatile : state[r] \in {Unknown, f.regs[r]}
  BY <1>2 DEF Inv, KnownIsTrue
<1>7. ASSUME NEW r \in Preserved \cup {"rsp", "ra"}
      PROVE  state[r] = f.regs[r] /\ Prepared(data)[r] = state[r] /\ state[r] # Unknown
  <2>1. r \in Registers \ Volatile /\ r \in Required /\ r \notin Data
    BY RegisterFacts DEF Required
  <2>2. Prepared(data)[r] = state[r]
    BY <2>1 DEF Prepared
  <2> QED
    BY <1>1, <1>6, <2>1, <2>2
<1>8. Adjusted = f.home - 0
  <2>1. state["rsp"] = f.home - f.pushed
    BY <1>3, <1>7 DEF Sound
  <2> QED
    BY <1>3, <1>4, <2>1 DEF Adjusted
<1>9. ASSUME NEW r \in Registers
      PROVE  Installed(Prepared(data)[r]) \in Int
  <2>1. Prepared(data)[r] = IF r \in Data THEN data[r] ELSE state[r]
    BY DEF Prepared
  <2>2. r \in Data => data[r] \in Int
    BY <1>5, RegisterFacts
  <2> QED
    BY <1>4, <2>1, <2>2 DEF Installed, Values
<1>10. /\ regs' \in [Registers -> Int] /\ regs'["rsp"] = f.home - 0
       /\ \A r \in Registers \ {"rsp"} : regs'[r] = Installed(Prepared(data)[r])
  BY <1>1, <1>4, <1>8, <1>9, RegisterFacts
<1>11. regs'["ra"] = cursor
  BY <1>3, <1>7, <1>10, RegisterFacts DEF Installed
<1>12. \A q \in Preserved : regs'[q] = f.regs[q]
  BY <1>7, <1>10, RegisterFacts DEF Installed
<1>13. Resumes(f, cursor, 0, regs')
  BY <1>10, <1>11, <1>12 DEF Resumes
<1>14. mem' \in [Words -> Int]
  BY <1>2, <1>4
<1>15. KeptAbove(f.home, mem, mem')
  <2> SUFFICES ASSUME NEW a \in Words, a >= f.home
               PROVE  mem'[a] = mem[a]
    BY DEF KeptAbove
  <2>1. ~(a < regs'["rsp"])
    BY <1>4, <1>10 DEF Words
  <2> QED
    BY <1>2, <2>1
<1> QED
  BY <1>3, <1>13, <1>14, <1>15

LEMMA InstallStep ==
  ASSUME Inv, Install
  PROVE  Inv'
<1>1. Leave(SubSeq(frames, 1, state["ra"]))
  BY DEF Install
<1> QED
  BY <1>1, InstallIs, LeaveStep

-----------------------------------------------------------------------------
(* Theorems.                                                               *)

LEMMA StepHolds ==
  ASSUME Inv, Next
  PROVE  Inv'
<1>1. ASSUME NEW l \in Layouts, Signal(l)
      PROVE  Inv'
  <2>1. Len(frames) < MaxFrames
    BY <1>1, LayoutAssumption DEF Signal, Inv, Stack
  <2>2. Start(l, 0) /\ mode = "run" /\ ~Running.layout.signal
    BY <1>1 DEF Signal
  <2> QED
    BY <2>1, <2>2, StartStep
<1>2. ASSUME NEW l \in Layouts, NEW n \in Pushes, Call(l, n)
      PROVE  Inv'
  <2>1. n \in Nat
    BY LayoutAssumption
  <2> QED
    BY <1>2, <2>1, StartStep DEF Call
<1>3. ASSUME NEW n \in Pushes, Raise(n)
      PROVE  Inv'
  <2>1. n \in Nat
    BY LayoutAssumption
  <2> QED
    BY <1>3, <2>1, RaiseStep
<1>4. CASE End
  BY <1>4, ReturnStep DEF End
<1>5. CASE Fail
  BY <1>5, ReturnStep DEF Fail
<1>6. CASE Advance
  BY <1>6, AdvanceStep
<1>7. CASE Install
  BY <1>7, InstallStep
<1> QED
  BY <1>1, <1>2, <1>3, <1>4, <1>5, <1>6, <1>7 DEF Next

LEMMA StutterHolds ==
  ASSUME Inv, UNCHANGED vars
  PROVE  Inv'
<1>1. /\ regs' = regs /\ mem' = mem /\ frames' = frames /\ mode' = mode
      /\ state' = state /\ cursor' = cursor
  BY DEF vars
<1> QED
  BY <1>1 DEF Inv, Types, Stack, Runs, Running, Walks, KnownIsTrue, UnknownOnlyIfLost,
     Resolved, Interrupted

\* The invariant holds in every state.
THEOREM Invariance == Spec => []Inv
<1>1. Init => Inv
  BY InitHolds
<1>2. Inv /\ [Next]_vars => Inv'
  BY StepHolds, StutterHolds
<1> QED
  BY <1>1, <1>2, PTL DEF Spec

(***************************************************************************)
(* Whatever functions do with their callers' registers, however deep the   *)
(* stack and whatever their rows, as long as these describe them: what     *)
(* the cursor knows of a frame's registers is true (source.rs:257-330).    *)
(***************************************************************************)
THEOREM CursorKnowsTruth == Spec => []KnownIsTrue
<1>1. Inv => KnownIsTrue
  BY DEF Inv
<1> QED
  BY <1>1, Invariance, PTL

(***************************************************************************)
(* Each readable row leaves a preserved register unknown only if a newer   *)
(* function gave it up, and the walk lacks a return address only behind    *)
(* the oldest frame (source.rs:274-289).                                   *)
(***************************************************************************)
THEOREM CursorForgetsNothing == Spec => []UnknownOnlyIfLost
<1>1. Inv => UnknownOnlyIfLost
  BY DEF Inv
<1> QED
  BY <1>1, Invariance, PTL

(***************************************************************************)
(* A landing pad starts with the stack pointer its function settled on and *)
(* the preserved registers it had at the call (runtime.rs:866-880).        *)
(***************************************************************************)
THEOREM PadsAreEnteredAtHome == Spec => PadsLandAtHome
<1> DEFINE Lands == LET f == frames[cursor]
                    IN  /\ regs'["rsp"] = f.home /\ regs'["ra"] = cursor
                        /\ \A r \in Preserved : regs'[r] = f.regs[r]
<1>1. ASSUME Inv, [Next]_vars, mode = "walk" /\ regs' # regs
      PROVE  Lands
  <2>1. Install
    BY <1>1 DEF Next, vars, Signal, Call, Raise, End, Advance, Fail
  <2>2. cursor \in 1..Len(frames) /\ Resumes(frames[cursor], cursor, 0, regs')
    BY <1>1, <2>1, InstallIs
  <2>3. frames[cursor].home \in Int
    BY <1>1, <2>2, FunctionFacts DEF Inv, Stack
  <2> QED
    BY <2>2, <2>3 DEF Resumes
<1>2. Inv /\ [Next]_vars => [mode = "walk" /\ regs' # regs => Lands]_vars
  BY <1>1
<1> QED
  BY <1>2, Invariance, PTL DEF Spec, PadsLandAtHome
=============================================================================
