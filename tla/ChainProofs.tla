---------------------------- MODULE ChainProofs ----------------------------
(***************************************************************************)
(* The budget of an action chain cuts off cycles and nothing else, for     *)
(* every LSDA and every content of its action table; and the integers its  *)
(* records are made of are decoded exactly, for every width.               *)
(***************************************************************************)
EXTENDS ActionChain, CallSites, LebValue, FiniteSetTheorems, TLAPS

(***************************************************************************)
(* The walk as a path: every record yielded leads to another one yielded   *)
(* or to the next; a path that has closed stays among its records; until   *)
(* it closes, each step spent on a record found a new one.                 *)
(***************************************************************************)
Path ==
  /\ outcome = "records" <=> next # Nowhere
  /\ outcome = "Loop" => fuel = 0
  /\ outcome = "records" =>
       \A p \in seen : parse[p].delta # 0 /\ Target(p) \in seen \cup {next}
  /\ outcome = "records" /\ again => next \in seen
  /\ ~again /\ outcome # "Table" => fuel + Cardinality(seen) = Budget

Inv == TypeOK /\ Path /\ EndedIsFinite

\* The action table is a finite set of at most Size positions.
LEMMA TableSize ==
  ASSUME NEW S \in SUBSET Table
  PROVE  IsFiniteSet(S) /\ Cardinality(S) \in Nat /\ Cardinality(S) <= Size
<1> Size \in Nat /\ Floor \in Nat /\ Floor <= Size
  BY SizeAssumption
<1>1. IsFiniteSet(0..Size) /\ IsFiniteSet(1..Size) /\ Cardinality(1..Size) = Size
  BY FS_Interval
<1>2. IsFiniteSet(0..(Size - 1)) /\ Cardinality(0..(Size - 1)) = Size
  BY FS_Interval
<1>3. S \subseteq 0..(Size - 1)
  BY DEF Table
<1> QED
  BY <1>2, <1>3, FS_Subset, FS_CardinalityType

\* The walk starts at its first record, having seen none.
LEMMA InvInit == Init => Inv
<1> SUFFICES ASSUME Init PROVE Inv
  OBVIOUS
<1> USE SizeAssumption
<1> Size \in Nat /\ Floor \in Nat
  OBVIOUS
<1>1. PICK raw \in 1..(Size - Floor + 1) : Start(raw)
  BY DEF Init, Begin
<1>2. TypeOK
  <2>1. fuel \in 0..Budget
    BY DEF Init, Begin, Budget
  <2>4. seen \subseteq Table /\ again \in BOOLEAN
    BY Zenon DEF Init, Begin
  <2>2. parse \in [Table -> Parse]
    BY ParsesAssumption DEF Init, Begin
  <2>3. next \in Table \cup {Nowhere} /\ outcome \in {"records", "Table"}
    BY <1>1 DEF Start, Table
  <2> QED
    BY <2>1, <2>2, <2>3, <2>4 DEF TypeOK
<1>3. Cardinality(seen) = 0
  BY FS_EmptySet DEF Init, Begin
<1>4. Path
  BY <1>1, <1>3 DEF Init, Begin, Start, Path, Budget, Nowhere, Table
<1> QED
  BY <1>1, <1>2, <1>4 DEF Inv, EndedIsFinite, Init, Begin, Start

\* The record at "next" is yielded, seen before or not.
LEMMA YieldKeepsInv == Inv /\ Yield => Inv'
<1> SUFFICES ASSUME Inv, Yield PROVE Inv'
  OBVIOUS
<1> USE SizeAssumption
<1> Size \in Nat /\ Floor \in Nat
  OBVIOUS
<1>1. PICK p \in Table : p = next
  BY DEF Inv, TypeOK, Yield
<1>2. /\ outcome = "records" /\ parse' = parse /\ fuel > 0 /\ fuel' = fuel - 1
      /\ seen' = seen \cup {p} /\ again' = (again \/ p \in seen)
  BY <1>1 DEF Inv, Path, Yield, Remember
<1>3. \/ parse[p].delta = 0 /\ next' = Nowhere /\ outcome' = "End"
      \/ /\ parse[p].delta # 0 /\ Leads(p)
         /\ next' = Target(p) /\ outcome' = "records"
  BY <1>1, <1>2 DEF Yield, Advance
<1>4. p # Nowhere
  BY DEF Table, Nowhere
<1>5. TypeOK'
  BY <1>1, <1>2, <1>3 DEF Inv, TypeOK, Leads, Table, Budget
<1>6. seen \in SUBSET Table /\ fuel \in Nat /\ again \in BOOLEAN
  BY DEF Inv, TypeOK, Budget
<1>7. CASE p \in seen
  <2>1. seen' = seen /\ again' = TRUE
    BY <1>2, <1>7
  <2>2. parse[p].delta # 0 /\ Target(p) \in seen \cup {p}
    BY <1>1, <1>2, <1>7 DEF Inv, Path
  <2>3. next' = Target(p) /\ outcome' = "records" /\ next' \in seen'
    BY <1>3, <1>7, <2>1, <2>2
  <2>4. next' # Nowhere
    BY <2>3, <1>6, <2>1 DEF Table, Nowhere
  <2>5. \A q \in seen : Target(q)' = Target(q)
    BY <1>2 DEF Target
  <2>6. \A q \in seen' : parse'[q].delta # 0 /\ Target(q)' \in seen' \cup {next'}
    BY <1>1, <1>2, <1>7, <2>1, <2>5 DEF Inv, Path
  <2>7. Path'
    BY <2>1, <2>3, <2>4, <2>6 DEF Path
  <2> QED
    BY <1>5, <2>3, <2>7 DEF Inv, EndedIsFinite
<1>8. CASE p \notin seen
  <2>1. ~again /\ ~again'
    BY <1>1, <1>2, <1>8, <1>6 DEF Inv, Path
  <2>2. Cardinality(seen') = Cardinality(seen) + 1
    BY <1>2, <1>6, <1>8, TableSize, FS_AddElement
  <2>3. fuel' + Cardinality(seen') = Budget'
    BY <1>2, <1>6, <2>1, <2>2, TableSize DEF Inv, Path, Budget
  <2>4. outcome' = "records" => next' # Nowhere
    BY <1>3 DEF Leads, Nowhere
  <2>5. ASSUME outcome' = "records", NEW q \in seen'
        PROVE  parse'[q].delta # 0 /\ Target(q)' \in seen' \cup {next'}
    <3>1. Target(q)' = Target(q)
      BY <1>2 DEF Target
    <3>2. CASE q = p
      BY <1>2, <1>3, <2>5, <3>1, <3>2
    <3>3. CASE q \in seen
      BY <1>1, <1>2, <3>1, <3>3 DEF Inv, Path
    <3> QED
      BY <1>2, <2>5, <3>2, <3>3
  <2>6. Path'
    BY <1>3, <2>1, <2>3, <2>4, <2>5 DEF Path
  <2> QED
    BY <1>5, <2>1, <2>6 DEF Inv, EndedIsFinite
<1> QED
  BY <1>7, <1>8

\* Every step keeps the path.
LEMMA InvNext == Inv /\ [Next]_vars => Inv'
<1> SUFFICES ASSUME Inv, [Next]_vars PROVE Inv'
  OBVIOUS
<1> USE SizeAssumption
<1>1. CASE Exhausted
  BY <1>1 DEF Inv, Exhausted, TypeOK, Path, EndedIsFinite, Budget
<1>2. CASE Yield
  BY <1>2, YieldKeepsInv
<1>3. CASE Malformed
  BY <1>3 DEF Inv, Malformed, TypeOK, Path, EndedIsFinite, Budget, Nowhere
<1>4. CASE Finished \/ UNCHANGED vars
  <2>1. UNCHANGED vars
    BY <1>4 DEF Finished
  <2> QED
    BY <2>1 DEF Inv, TypeOK, Path, EndedIsFinite, Target, vars
<1> QED
  BY <1>1, <1>2, <1>3, <1>4 DEF Next

THEOREM InvHolds == Spec => []Inv
<1> QED
  BY InvInit, InvNext, PTL DEF Spec

(***************************************************************************)
(* The walk never stands outside the action table and its budget never     *)
(* goes below zero (the decrement at table.rs:840).                        *)
(***************************************************************************)
THEOREM TypeCorrect == Spec => []TypeOK
<1>1. Inv => TypeOK
  BY DEF Inv
<1> QED
  BY <1>1, InvHolds, PTL

(***************************************************************************)
(* A chain is refused for its length only if it returns to a record: a     *)
(* table has fewer positions than the budget has steps (table.rs:639).     *)
(***************************************************************************)
THEOREM BudgetRejectsCyclesOnly == Spec => []LoopIsACycle
<1>1. Inv => LoopIsACycle
  <2> SUFFICES ASSUME Inv, outcome = "Loop", ~again PROVE FALSE
    BY DEF LoopIsACycle, Inv, TypeOK
  <2>1. fuel = 0 /\ fuel + Cardinality(seen) = Size + 1
    BY DEF Inv, Path, Budget
  <2>2. Cardinality(seen) \in Nat /\ Cardinality(seen) <= Size
    BY TableSize DEF Inv, TypeOK
  <2> QED
    BY <2>1, <2>2, SizeAssumption
<1> QED
  BY <1>1, InvHolds, PTL

(***************************************************************************)
(* A chain that returns to a record never ends as if it were complete      *)
(* (table.rs:836-878).                                                     *)
(***************************************************************************)
THEOREM CyclesAreReported == Spec => []EndedIsFinite
<1>1. Inv => EndedIsFinite
  BY DEF Inv
<1> QED
  BY <1>1, InvHolds, PTL

-----------------------------------------------------------------------------
(* Steps, and powers of two.                                               *)

\* A nonempty set of naturals has a least element: an initial segment that is
\* minimal for inclusion ends in it.
LEMMA Least ==
  ASSUME NEW S, S \subseteq Nat, S # {}
  PROVE  \E i \in S : \A j \in S : i <= j
  <1> DEFINE T == {0..i : i \in S}
             R == StrictSubsetOrdering(Nat)
  <1>1. IsWellFoundedOn(R, FiniteSubsetsOf(Nat))
    BY FS_StrictSubsetOrderingWellFounded, Zenon
  <1>2. T \subseteq FiniteSubsetsOf(Nat) /\ T # {}
    <2>1. \A i \in S : IsFiniteSet(0..i)
      BY FS_Interval
    <2>2. \A i \in S : 0..i \in FiniteSubsetsOf(Nat)
      BY <2>1 DEF FiniteSubsetsOf
    <2>3. QED
      BY <2>2
  <1>3. \E x \in T : \A y \in T : ~(<<y, x>> \in R)
    <2> HIDE DEF R, T
    <2>1. QED
      BY <1>1, <1>2, WFMin, Zenon
  <1>4. PICK i \in S : \A j \in S : <<0..j, 0..i>> \notin R
    BY <1>3
  <1>5. ASSUME NEW j \in S, j < i
        PROVE  FALSE
    <2>1. /\ 0..j \subseteq Nat /\ 0..i \subseteq Nat /\ 0..j \subseteq 0..i
          /\ i \in 0..i /\ i \notin 0..j
      BY <1>5
    <2>2. QED
      BY <1>4, <2>1 DEF StrictSubsetOrdering
  <1>6. QED
    BY <1>5

\* What holds first, and at each step if at the one before, always holds.
LEMMA Stepwise ==
  ASSUME NEW n \in Nat, NEW P \in [0..n -> BOOLEAN],
         P[0], \A k \in 1..n : P[k - 1] => P[k]
  PROVE  \A k \in 0..n : P[k]
<1> DEFINE S == {k \in 0..n : ~P[k]}
<1> SUFFICES ASSUME S # {}
             PROVE  FALSE
  OBVIOUS
<1>1. PICK k \in S : \A j \in S : k <= j
  <2>1. S \subseteq Nat
    OBVIOUS
  <2> HIDE DEF S
  <2> QED
    BY <2>1, Least
<1>2. k \in 1..n /\ k - 1 \in 0..n /\ ~(k <= k - 1)
  OBVIOUS
<1> QED
  BY <1>1, <1>2

\* What n steps over V, the k-th by G[k], make of b.
Machines(n, V) == [1..n -> [V -> V]]
Courses(n, V, b, G) ==
  {f \in [0..n -> V] : f[0] = b /\ \A k \in 1..n : f[k] = G[k][f[k - 1]]}

LEMMA StepsExist ==
  ASSUME NEW V, NEW b \in V, NEW n \in Nat, NEW G \in Machines(n, V)
  PROVE  Courses(n, V, b, G) # {}
<1> DEFINE Upto(m) == \E f \in [0..m -> V] :
                        f[0] = b /\ \A k \in 1..m : f[k] = G[k][f[k - 1]]
           P == [m \in 0..n |-> Upto(m)]
<1> USE DEF Machines
<1>1. P[0]
  <2>1. [k \in 0..0 |-> b] \in [0..0 -> V] /\ [k \in 0..0 |-> b][0] = b
    OBVIOUS
  <2>2. 1..0 = {}
    OBVIOUS
  <2>3. Upto(0)
    BY <2>1, <2>2
  <2> QED
    BY <2>3
<1>2. ASSUME NEW m \in 1..n, P[m - 1]
      PROVE  P[m]
  <2>1. m \in 0..n /\ m - 1 \in 0..n
    OBVIOUS
  <2>2. Upto(m - 1)
    BY <1>2, <2>1
  <2>3. PICK f \in [0..(m - 1) -> V] :
          f[0] = b /\ \A k \in 1..(m - 1) : f[k] = G[k][f[k - 1]]
    BY <2>2
  <2> DEFINE g == [k \in 0..m |-> IF k = m THEN G[m][f[m - 1]] ELSE f[k]]
  <2>4. G[m][f[m - 1]] \in V
    BY <2>1
  <2>5. g \in [0..m -> V]
    <3>1. ASSUME NEW k \in 0..m
          PROVE  (IF k = m THEN G[m][f[m - 1]] ELSE f[k]) \in V
      BY <2>1, <2>4
    <3> QED
      BY <3>1
  <2>6. g[0] = b
    BY <2>1, <2>3
  <2>7. ASSUME NEW k \in 1..m
        PROVE  g[k] = G[k][g[k - 1]]
    <3>1. k - 1 \in 0..(m - 1) /\ k - 1 # m /\ k - 1 \in 0..m /\ k \in 0..m
      BY <2>1
    <3>2. g[k - 1] = f[k - 1]
      BY <3>1
    <3>3. CASE k = m
      BY <3>1, <3>2, <3>3
    <3>4. CASE k # m
      <4>1. k \in 1..(m - 1)
        BY <2>1, <3>4
      <4> QED
        BY <2>3, <3>1, <3>2, <3>4, <4>1
    <3> QED
      BY <3>3, <3>4
  <2>8. Upto(m)
    <3> HIDE DEF g
    <3> QED
      BY <2>5, <2>6, <2>7
  <2> QED
    BY <2>1, <2>8
<1>3. P \in [0..n -> BOOLEAN]
  OBVIOUS
<1>4. \A m \in 0..n : P[m]
  <2> HIDE DEF P
  <2> QED
    BY <1>1, <1>2, <1>3, Stepwise
<1>5. Upto(n)
  BY <1>4
<1> QED
  BY <1>5 DEF Courses

\* 2 ^ n is the number of subsets of n things.
LEMMA Subsets ==
  ASSUME NEW n \in Nat
  PROVE  IsFiniteSet(SUBSET (1..n)) /\ Cardinality(SUBSET (1..n)) = 2 ^ n /\ 2 ^ n \in Nat
<1>1. IsFiniteSet(1..n) /\ Cardinality(1..n) = n
  BY FS_Interval
<1>2. IsFiniteSet(SUBSET (1..n)) /\ Cardinality(SUBSET (1..n)) = 2 ^ n
  BY <1>1, FS_SUBSET
<1> QED
  BY <1>2, FS_CardinalityType

\* One more thing is in half of the subsets.
LEMMA Doubles ==
  ASSUME NEW n \in Nat
  PROVE  2 ^ (n + 1) = 2 ^ n + 2 ^ n
<1> DEFINE S == SUBSET (1..n)
           T == {A \cup {n + 1} : A \in S}
           F == [A \in S |-> A \cup {n + 1}]
<1>1. IsFiniteSet(S) /\ Cardinality(S) = 2 ^ n /\ 2 ^ n \in Nat
  BY Subsets
<1>2. ExistsBijection(S, T)
  <2>1. F \in [S -> T]
    OBVIOUS
  <2>2. ASSUME NEW A \in S, NEW B \in S, F[A] = F[B]
        PROVE  A = B
    <3>1. n + 1 \notin A /\ n + 1 \notin B /\ A \cup {n + 1} = B \cup {n + 1}
      BY <2>2
    <3> QED
      BY <3>1
  <2>3. \A t \in T : \E A \in S : F[A] = t
    OBVIOUS
  <2> HIDE DEF F, S, T
  <2>4. F \in Bijection(S, T)
    BY <2>1, <2>2, <2>3 DEF Bijection, Injection, Surjection, IsInjective
  <2> QED
    BY <2>4 DEF ExistsBijection
<1>3. IsFiniteSet(T) /\ Cardinality(T) = 2 ^ n
  <2> HIDE DEF S, T
  <2> QED
    BY <1>1, <1>2, FS_Bijection
<1>4. SUBSET (1..(n + 1)) = S \cup T
  <2>1. ASSUME NEW A \in SUBSET (1..(n + 1))
        PROVE  A \in S \cup T
    <3>1. CASE n + 1 \in A
      <4>1. A \ {n + 1} \in S /\ A = (A \ {n + 1}) \cup {n + 1}
        BY <3>1
      <4> QED
        BY <4>1
    <3>2. CASE n + 1 \notin A
      BY <3>2
    <3> QED
      BY <3>1, <3>2
  <2>2. ASSUME NEW A \in S
        PROVE  A \in SUBSET (1..(n + 1)) /\ A \cup {n + 1} \in SUBSET (1..(n + 1))
    OBVIOUS
  <2>3. S \subseteq SUBSET (1..(n + 1))
    <3> HIDE DEF S
    <3> QED
      BY <2>2
  <2>4. T \subseteq SUBSET (1..(n + 1))
    BY <2>2
  <2> HIDE DEF S, T
  <2> QED
    BY <2>1, <2>3, <2>4
<1>5. S \cap T = {}
  <2>1. \A A \in S : n + 1 \notin A
    OBVIOUS
  <2>2. \A t \in T : n + 1 \in t
    OBVIOUS
  <2> QED
    BY <2>1, <2>2
<1>6. Cardinality(S \cup T) = Cardinality(S) + Cardinality(T) - Cardinality(S \cap T)
  <2> HIDE DEF S, T
  <2> QED
    BY <1>1, <1>3, FS_Union
<1>7. Cardinality(S \cap T) = 0
  BY <1>5, FS_EmptySet
<1>8. Cardinality(S \cup T) = 2 ^ (n + 1)
  <2>1. n + 1 \in Nat
    OBVIOUS
  <2>2. Cardinality(SUBSET (1..(n + 1))) = 2 ^ (n + 1)
    BY <2>1, Subsets
  <2> HIDE DEF S, T
  <2> QED
    BY <1>4, <2>2
<1> HIDE DEF S, T
<1> QED
  BY <1>1, <1>3, <1>6, <1>7, <1>8

\* Powers are positive, and multiply as exponents add.
LEMMA Powers ==
  ASSUME NEW n \in Nat
  PROVE  2 ^ n \in Nat \ {0}
<1> DEFINE Q(k) == 2 ^ k \in Nat \ {0}
           P == [k \in 0..n |-> Q(k)]
<1>5. \A k \in 0..n : P[k] <=> Q(k)
  <2> HIDE DEF Q
  <2> QED
    OBVIOUS
<1>1. P[0]
  <2>1. Q(0) /\ 0 \in 0..n
    OBVIOUS
  <2> HIDE DEF P, Q
  <2> QED
    BY <1>5, <2>1
<1>2. ASSUME NEW k \in 1..n, P[k - 1]
      PROVE  P[k]
  <2>1. k - 1 \in Nat /\ k - 1 \in 0..n /\ k = (k - 1) + 1
    OBVIOUS
  <2>2. 2 ^ k = 2 ^ (k - 1) + 2 ^ (k - 1)
    BY <2>1, Doubles
  <2>3. Q(k - 1)
    <3> HIDE DEF P, Q
    <3> QED
      BY <1>2, <1>5, <2>1
  <2>4. Q(k)
    BY <2>2, <2>3
  <2> HIDE DEF P, Q
  <2> QED
    BY <1>5, <2>4
<1>3. P \in [0..n -> BOOLEAN]
  OBVIOUS
<1>4. \A k \in 0..n : P[k]
  <2> HIDE DEF P
  <2> QED
    BY <1>1, <1>2, <1>3, Stepwise
<1>6. Q(n)
  <2> HIDE DEF P, Q
  <2> QED
    BY <1>4, <1>5
<1> QED
  BY <1>6

LEMMA PowersMultiply ==
  ASSUME NEW m \in Nat, NEW n \in Nat
  PROVE  2 ^ (m + n) = 2 ^ m * 2 ^ n
<1> DEFINE Q(k) == 2 ^ (m + k) = 2 ^ m * 2 ^ k
           P == [k \in 0..n |-> Q(k)]
<1>5. \A k \in 0..n : P[k] <=> Q(k)
  <2> HIDE DEF Q
  <2> QED
    OBVIOUS
<1>1. P[0]
  <2>1. 2 ^ m \in Nat /\ m + 0 = m
    BY Powers
  <2>2. 2 ^ m * 1 = 2 ^ m
    BY <2>1
  <2>3. Q(0) /\ 0 \in 0..n
    BY <2>1, <2>2
  <2> HIDE DEF P, Q
  <2> QED
    BY <1>5, <2>3
<1>2. ASSUME NEW k \in 1..n, P[k - 1]
      PROVE  P[k]
  <2>1. /\ k - 1 \in Nat /\ k - 1 \in 0..n /\ k = (k - 1) + 1
        /\ m + (k - 1) \in Nat /\ m + k = (m + (k - 1)) + 1
    OBVIOUS
  <2>2. /\ 2 ^ k = 2 ^ (k - 1) + 2 ^ (k - 1)
        /\ 2 ^ (m + k) = 2 ^ (m + (k - 1)) + 2 ^ (m + (k - 1))
    BY <2>1, Doubles
  <2>3. 2 ^ (k - 1) \in Nat /\ 2 ^ m \in Nat
    BY <2>1, Powers
  <2>4. Q(k - 1)
    <3> HIDE DEF P, Q
    <3> QED
      BY <1>2, <1>5, <2>1
  <2>5. \A a \in Nat, b \in Nat : a * (b + b) = a * b + a * b
    OBVIOUS
  <2>6. 2 ^ m * (2 ^ (k - 1) + 2 ^ (k - 1)) = 2 ^ m * 2 ^ (k - 1) + 2 ^ m * 2 ^ (k - 1)
    BY <2>3, <2>5
  <2>7. Q(k)
    BY <2>2, <2>4, <2>6
  <2> HIDE DEF P, Q
  <2> QED
    BY <1>5, <2>7
<1>3. P \in [0..n -> BOOLEAN]
  OBVIOUS
<1>4. \A k \in 0..n : P[k]
  <2> HIDE DEF P
  <2> QED
    BY <1>1, <1>2, <1>3, Stepwise
<1>6. Q(n)
  <2> HIDE DEF P, Q
  <2> QED
    BY <1>4, <1>5
<1> QED
  BY <1>6

LEMMA PowersGrow ==
  ASSUME NEW m \in Nat, NEW n \in Nat, m <= n
  PROVE  2 ^ m <= 2 ^ n
<1>1. n - m \in Nat /\ m + (n - m) = n
  OBVIOUS
<1>2. 2 ^ (n - m) \in Nat \ {0} /\ 2 ^ m \in Nat
  BY <1>1, Powers
<1>3. 2 ^ n = 2 ^ m * 2 ^ (n - m)
  BY <1>1, PowersMultiply
<1>4. \A a \in Nat, b \in Nat \ {0} : a <= a * b
  OBVIOUS
<1> QED
  BY <1>2, <1>3, <1>4

-----------------------------------------------------------------------------
(* Groups.                                                                 *)

\* Groups that fit as a whole; of one more a bit does.
Last == Width \div Group

Weight(k) == 2 ^ (Group * k)

LEMMA Divides ==
  ASSUME NEW x \in Int, NEW y \in Nat \ {0}
  PROVE  x = y * (x \div y) + (x % y) /\ x \div y \in Int
  BY Z3T(40)

LEMMA Sizes ==
  /\ Group \in Nat /\ Group >= 2 /\ Width \in Nat /\ Last \in Nat \ {0}
  /\ Width = Group * Last + 1 /\ MaxOctets = Last + 1
<1>0. Group \in Nat \ {0} /\ Width \in Nat /\ Width > Group /\ Width % Group = 1
  BY WidthAssumption
<1>1. Group >= 2
  <2>1. \A x \in Nat : x % 1 = 0
    OBVIOUS
  <2> QED
    BY <1>0, <2>1
<1>2. Width = Group * Last + (Width % Group) /\ Last \in Int
  <2>1. Width \in Int /\ Group \in Nat \ {0}
    BY <1>0
  <2>2. Width = Group * (Width \div Group) + (Width % Group) /\ Width \div Group \in Int
    BY <2>1, Divides
  <2> QED
    BY <2>2 DEF Last
<1>3. Last >= 1
  <2>1. Last > 0 \/ Last <= 0
    BY <1>2
  <2>2. \A g \in Nat, q \in Int : q <= 0 => g * q <= 0
    OBVIOUS
  <2>3. Last <= 0 => Group * Last <= 0
    BY <1>0, <1>2, <2>2
  <2> QED
    BY <1>0, <1>1, <1>2, <2>1, <2>3
<1> QED
  BY <1>0, <1>1, <1>2, <1>3 DEF MaxOctets, Last

LEMMA Weights ==
  ASSUME NEW k \in Nat \ {0}
  PROVE  /\ Weight(k - 1) \in Nat \ {0} /\ Weight(k) \in Nat \ {0}
         /\ Group * k = Group * (k - 1) + Group
         /\ Group * (k - 1) \in Nat /\ Group * k \in Nat
         /\ Weight(k) = Weight(k - 1) * 2 ^ Group
<1>1. Group \in Nat /\ k - 1 \in Nat
  BY Sizes
<1>2. \A a \in Nat, b \in Nat : a * b \in Nat /\ a * (b + 1) = a * b + a
  OBVIOUS
<1>3. Group * ((k - 1) + 1) = Group * (k - 1) + Group /\ (k - 1) + 1 = k
  BY <1>1, <1>2
<1>4. Group * (k - 1) \in Nat /\ Group * k \in Nat /\ Group * k = Group * (k - 1) + Group
  BY <1>1, <1>2, <1>3
<1>5. 2 ^ (Group * (k - 1) + Group) = 2 ^ (Group * (k - 1)) * 2 ^ Group
  BY <1>1, <1>4, PowersMultiply
<1>6. 2 ^ (Group * (k - 1)) \in Nat \ {0} /\ 2 ^ (Group * k) \in Nat \ {0}
  BY <1>4, Powers
<1> QED
  BY <1>4, <1>5, <1>6 DEF Weight

\* Where the groups of a value are.
LEMMA Shifts ==
  ASSUME NEW k \in Nat \ {0}
  PROVE  /\ k <= Last => Group * k <= Width - 1
         /\ k = Last + 1 => Group * (k - 1) = Width - 1 /\ Group * k >= Width
         /\ k > Last + 1 => Group * (k - 1) >= Width
<1>1. Group \in Nat /\ Group >= 2 /\ Last \in Nat /\ Width = Group * Last + 1
  BY Sizes
<1>2. Group * k = Group * (k - 1) + Group /\ Group * (k - 1) \in Nat
  BY Weights
<1>3. \A a \in Nat, b \in Nat, c \in Nat : b <= c => a * b <= a * c
  OBVIOUS
<1>4. CASE k <= Last
  <2>1. Group * k <= Group * Last /\ Group * Last \in Nat /\ Group * k \in Nat
    BY <1>1, <1>3, <1>4
  <2> QED
    BY <1>1, <1>4, <2>1
<1>5. CASE k = Last + 1
  <2>1. Group * (k - 1) = Group * Last /\ Group * Last \in Nat
    BY <1>1, <1>5
  <2> QED
    BY <1>1, <1>2, <1>5, <2>1
<1>6. CASE k > Last + 1
  <2>1. k - 1 \in Nat /\ Last + 1 <= k - 1 /\ Last + 1 \in Nat
    BY <1>1, <1>6
  <2>2. Group * (Last + 1) <= Group * (k - 1)
    BY <1>1, <1>3, <2>1
  <2>3. Group * (Last + 1) = Group * Last + Group /\ Group * Last \in Nat
    BY <1>1
  <2> QED
    BY <1>1, <1>2, <1>6, <2>2, <2>3
<1> QED
  BY <1>1, <1>4, <1>5, <1>6

\* Whole groups stay below the sign; the width is twice that.
LEMMA Room ==
  /\ Weight(0) = 1
  /\ Weight(Last) = 2 ^ (Width - 1) /\ 2 ^ (Width - 1) \in Nat \ {0}
  /\ 2 ^ Width = 2 ^ (Width - 1) + 2 ^ (Width - 1)
  /\ \A k \in 0..Last : Weight(k) \in Nat /\ Weight(k) <= 2 ^ (Width - 1)
  /\ 2 ^ Group \in Nat /\ 2 ^ Group >= 2
  /\ 2 ^ (Group - 1) \in Nat \ {0} /\ 2 ^ Group = 2 ^ (Group - 1) + 2 ^ (Group - 1)
<1>1. Group \in Nat /\ Group >= 2 /\ Last \in Nat \ {0} /\ Width = Group * Last + 1
      /\ Group * Last \in Nat /\ Width \in Nat
  BY Sizes
<1>2. Width - 1 = Group * Last /\ Width - 1 \in Nat /\ Group - 1 \in Nat
  BY <1>1
<1>3. Weight(Last) = 2 ^ (Width - 1)
  BY <1>2 DEF Weight
<1>4. 2 ^ Width = 2 ^ (Width - 1) + 2 ^ (Width - 1)
  <2>1. Width = (Width - 1) + 1
    BY <1>1
  <2> QED
    BY <1>2, <2>1, Doubles
<1>5. 2 ^ Group = 2 ^ (Group - 1) + 2 ^ (Group - 1)
  <2>1. Group = (Group - 1) + 1
    BY <1>1
  <2> QED
    BY <1>2, <2>1, Doubles
<1>6. 2 ^ (Width - 1) \in Nat \ {0} /\ 2 ^ (Group - 1) \in Nat \ {0}
  BY <1>2, Powers
<1>7. ASSUME NEW k \in 0..Last
      PROVE  Weight(k) \in Nat /\ Weight(k) <= 2 ^ (Width - 1)
  <2>1. Group * k \in Nat /\ Group * k <= Width - 1
    <3>1. \A a \in Nat, b \in Nat, c \in Nat : b <= c => a * b \in Nat /\ a * b <= a * c
      OBVIOUS
    <3>2. k \in Nat /\ k <= Last
      BY <1>1
    <3>3. Group * k \in Nat /\ Group * k <= Group * Last
      BY <1>1, <3>1, <3>2
    <3> QED
      BY <1>2, <3>3
  <2> QED
    BY <1>2, <2>1, Powers, PowersGrow DEF Weight
<1>8. Weight(0) = 1
  <2>1. Group * 0 = 0 /\ 2 ^ 0 = 1
    BY <1>1
  <2> QED
    BY <2>1 DEF Weight
<1> QED
  BY <1>3, <1>4, <1>5, <1>6, <1>7, <1>8

LEMMA Remains ==
  ASSUME NEW x \in Nat, NEW y \in Nat \ {0}
  PROVE  x % y \in Nat /\ x % y < y /\ x % y <= x /\ (x < y => x % y = x)
<1>1. \A a \in Nat, b \in Nat \ {0} : a % b \in 0..(b - 1) /\ (a < b => a % b = a)
  OBVIOUS
<1>2. x % y \in 0..(y - 1) /\ (x < y => x % y = x)
  BY <1>1
<1> QED
  BY <1>2

\* An octet's payload is less than a group.
LEMMA Payloads ==
  ASSUME NEW o \in Octet
  PROVE  Payload(o) \in Nat /\ Payload(o) < 2 ^ Group /\ o \in Nat
<1>1. Group + 1 \in Nat
  BY Sizes
<1>2. o \in Nat /\ 2 ^ Group \in Nat \ {0}
  <2>1. 2 ^ (Group + 1) \in Nat
    BY <1>1, Powers
  <2> QED
    BY <2>1, Sizes, Powers DEF Octet
<1>3. o % (2 ^ Group) \in Nat /\ o % (2 ^ Group) < 2 ^ Group
  BY <1>2, Remains
<1> QED
  BY <1>2, <1>3 DEF Payload

\* A group added to those before it.
LEMMA Joined ==
  ASSUME NEW k \in Nat \ {0}, NEW v \in Nat, v < Weight(k - 1),
         NEW p \in Nat, p < 2 ^ Group
  PROVE  /\ v + p * Weight(k - 1) \in Nat
         /\ v + p * Weight(k - 1) < Weight(k)
<1>1. Weight(k - 1) \in Nat \ {0} /\ Weight(k) = Weight(k - 1) * 2 ^ Group /\ 2 ^ Group \in Nat
  BY Weights, Room
<1>2. \A w \in Nat, x \in Nat, b \in Nat, q \in Nat : x < w /\ q < b => x + q * w < w * b
  <2> SUFFICES ASSUME NEW w \in Nat, NEW x \in Nat, NEW b \in Nat, NEW q \in Nat, x < w, q < b
               PROVE  x + q * w < w * b
    OBVIOUS
  <2>1. b - (q + 1) \in Nat /\ b = (q + 1) + (b - (q + 1))
    OBVIOUS
  <2>2. w * b = w * (q + 1) + w * (b - (q + 1))
    BY <2>1
  <2>3. w * (q + 1) = q * w + w /\ w * (b - (q + 1)) \in Nat /\ q * w \in Nat
    BY <2>1
  <2> QED
    BY <2>2, <2>3
<1>3. \A q \in Nat, w \in Nat : q * w \in Nat
  OBVIOUS
<1> QED
  BY <1>1, <1>2, <1>3

-----------------------------------------------------------------------------
(* One octet.                                                              *)

States == [read : Nat, value : Int, shift : Nat, end : {"reading", "done", "Overflow"}]

\* After k octets.
Reading(k, value, end) == [read |-> k, value |-> value, shift |-> Group * k, end |-> end]
EndAt(o) == IF Continues(o) THEN "reading" ELSE "done"
Added(k, value, o) == value + Payload(o) * Weight(k - 1)
SignedAt(k, value, o) == IF Negative(o) THEN value - Weight(k) ELSE value

\* A group that fits as a whole is added as it is.
LEMMA TakeWhole ==
  ASSUME NEW k \in 1..Last, NEW v \in Nat, v < Weight(k - 1), NEW o \in Octet, NEW e
  PROVE  /\ Take(Reading(k - 1, v, e), o) = Reading(k, Added(k, v, o), EndAt(o))
         /\ Added(k, v, o) \in Nat /\ Added(k, v, o) < Weight(k)
<1>1. k \in Nat \ {0} /\ k <= Last /\ Last \in Nat /\ Width \in Nat /\ Group \in Nat
  BY Sizes
<1>2. /\ Group * k = Group * (k - 1) + Group /\ Group * (k - 1) \in Nat /\ Group * k <= Width - 1
  BY <1>1, Weights, Shifts
<1>3. Payload(o) \in Nat /\ Payload(o) < 2 ^ Group /\ 2 ^ Group \in Nat
  BY Payloads, Room
<1>4. Payload(o) % 2 ^ (Width - Group * (k - 1)) = Payload(o)
  <2> DEFINE d == Width - Group * (k - 1)
  <2>1. d \in Nat /\ Group <= d
    BY <1>1, <1>2
  <2> HIDE DEF d
  <2>2. 2 ^ Group <= 2 ^ d /\ 2 ^ d \in Nat \ {0}
    BY <1>1, <2>1, Powers, PowersGrow
  <2>3. Payload(o) < 2 ^ d
    BY <1>3, <2>2
  <2>4. Payload(o) % (2 ^ d) = Payload(o)
    BY <1>3, <2>2, <2>3, Remains
  <2> QED
    BY <2>4 DEF d
<1>5. Shifted(Payload(o), Group * (k - 1)) = Payload(o) * Weight(k - 1)
  BY <1>4 DEF Shifted, Weight
<1>6. Added(k, v, o) \in Nat /\ Added(k, v, o) < Weight(k)
  BY <1>1, <1>3, Joined DEF Added
<1>7. (k - 1) + 1 = k
  BY <1>1
<1>8. Take(Reading(k - 1, v, e), o) = Reading(k, Added(k, v, o), EndAt(o))
  BY <1>2, <1>5, <1>7 DEF Take, Reading, Added, EndAt
<1> QED
  BY <1>6, <1>8

\* Of the last group a bit is.
LEMMA TakeBit ==
  ASSUME NEW v \in Nat, NEW o \in Octet, NEW e
  PROVE  Take(Reading(Last, v, e), o) =
           Reading(Last + 1, v + (Payload(o) % 2) * Weight(Last), EndAt(o))
<1>1. Last + 1 \in Nat \ {0} /\ Group \in Nat /\ Last \in Nat /\ Width \in Nat
      /\ (Last + 1) - 1 = Last
  BY Sizes
<1>2. Group * Last = Width - 1 /\ Group * (Last + 1) = Group * Last + Group
  BY <1>1, Shifts, Weights
<1>3. 2 ^ (Width - Group * Last) = 2
  <2>1. Width - Group * Last = 1
    BY <1>1, <1>2
  <2>2. \A d \in Int : d = 1 => 2 ^ d = 2
    OBVIOUS
  <2> QED
    BY <2>1, <2>2
<1>4. Shifted(Payload(o), Group * Last) = (Payload(o) % 2) * Weight(Last)
  BY <1>3 DEF Shifted, Weight
<1> QED
  BY <1>2, <1>4 DEF Take, Reading, EndAt

\* uleb.
LEMMA UnsignedWhole ==
  ASSUME NEW k \in 1..Last, NEW v \in Nat, v < Weight(k - 1), NEW o \in Octet
  PROVE  /\ Unsigned(Reading(k - 1, v, "reading"), o) = Reading(k, Added(k, v, o), EndAt(o))
         /\ Added(k, v, o) \in Nat /\ Added(k, v, o) < Weight(k)
<1>1. k \in Nat \ {0} /\ k <= Last /\ Width \in Nat /\ Group \in Nat /\ Group >= 2
  BY Sizes
<1>2. Group * k = Group * (k - 1) + Group /\ Group * (k - 1) \in Nat /\ Group * k <= Width - 1
  BY <1>1, Weights, Shifts
<1>3. Group * (k - 1) < Width - 1
  BY <1>1, <1>2
<1>4. Fits(Payload(o), Group * (k - 1))
  BY <1>1, <1>2, <1>3 DEF Fits
<1>5. Unsigned(Reading(k - 1, v, "reading"), o) = Take(Reading(k - 1, v, "reading"), o)
  BY <1>4 DEF Unsigned, Reading
<1> QED
  BY <1>5, TakeWhole

LEMMA UnsignedBit ==
  ASSUME NEW v \in Nat, v < Weight(Last), NEW o \in Octet
  PROVE  LET sum == Added(Last + 1, v, o)
             after == Unsigned(Reading(Last, v, "reading"), o)
         IN  /\ sum \in Nat
             /\ sum < 2 ^ Width => after = Reading(Last + 1, sum, EndAt(o))
             /\ sum >= 2 ^ Width => after.end = "Overflow"
<1> DEFINE p == Payload(o)
           st == Reading(Last, v, "reading")
<1>1. Last \in Nat /\ (Last + 1) - 1 = Last /\ Width \in Nat /\ Last + 1 \in Nat \ {0}
  BY Sizes
<1>2. /\ Weight(Last) = 2 ^ (Width - 1) /\ Weight(Last) \in Nat \ {0}
      /\ 2 ^ Width = Weight(Last) + Weight(Last)
  BY Room
<1>3. p \in Nat
  BY Payloads
<1>4. Group * Last = Width - 1
  BY <1>1, Shifts
<1>5. Fits(p, Group * Last) <=> p <= 1
  BY <1>4 DEF Fits
<1>6. Added(Last + 1, v, o) = v + p * Weight(Last)
  BY <1>1 DEF Added
<1> HIDE DEF p
<1>7. CASE p <= 1
  <2>1. p = 0 \/ p = 1
    BY <1>3, <1>7
  <2>2. p * Weight(Last) \in Nat /\ p * Weight(Last) <= Weight(Last)
    BY <1>2, <2>1
  <2>3. v + p * Weight(Last) \in Nat /\ v + p * Weight(Last) < 2 ^ Width
    BY <1>2, <2>2
  <2>4. p % 2 = p
    BY <1>3, <1>7, Remains
  <2>5. Unsigned(st, o) = Take(st, o)
    BY <1>5, <1>7 DEF Unsigned, Reading, p
  <2>6. Take(st, o) = Reading(Last + 1, v + p * Weight(Last), EndAt(o))
    BY <2>4, TakeBit DEF p
  <2>7. ~(v + p * Weight(Last) >= 2 ^ Width)
    BY <1>2, <2>3
  <2> QED
    BY <1>6, <2>3, <2>5, <2>6, <2>7
<1>8. CASE p > 1
  <2>1. \A x \in Nat, y \in Nat : x > 1 => x * y \in Nat /\ x * y >= y + y
    OBVIOUS
  <2>2. p * Weight(Last) \in Nat /\ p * Weight(Last) >= 2 ^ Width
    BY <1>2, <1>3, <1>8, <2>1
  <2>3. v + p * Weight(Last) \in Nat /\ ~(v + p * Weight(Last) < 2 ^ Width)
    BY <1>2, <2>2
  <2>4. Unsigned(st, o).end = "Overflow"
    BY <1>3, <1>5, <1>8 DEF Unsigned, Reading, p
  <2> QED
    BY <1>6, <2>3, <2>4
<1> QED
  BY <1>3, <1>7, <1>8

LEMMA UnsignedBeyond ==
  ASSUME NEW k \in Nat, k > Last + 1, NEW v, NEW o \in Octet
  PROVE  Unsigned(Reading(k - 1, v, "reading"), o).end = "Overflow"
<1>1. k \in Nat \ {0} /\ Last \in Nat /\ Width \in Nat /\ Group \in Nat
  BY Sizes
<1>2. Group * (k - 1) >= Width /\ Group * (k - 1) \in Nat
  BY <1>1, Shifts, Weights
<1>3. ~Fits(Payload(o), Group * (k - 1))
  BY <1>1, <1>2 DEF Fits
<1> QED
  BY <1>3 DEF Unsigned, Reading

\* sleb.
LEMMA SignedWhole ==
  ASSUME NEW k \in 1..Last, NEW v \in Nat, v < Weight(k - 1), NEW o \in Octet
  PROVE  LET sum == Added(k, v, o)
             after == Signed(Reading(k - 1, v, "reading"), o)
         IN  /\ sum \in Nat /\ sum < Weight(k)
             /\ Continues(o) => after = Reading(k, sum, "reading")
             /\ ~Continues(o) => /\ after = Reading(k, SignedAt(k, sum, o), "done")
                                 /\ SignedAt(k, sum, o) \in SignedRange
<1> DEFINE sum == Added(k, v, o)
           st == Reading(k - 1, v, "reading")
           H == 2 ^ (Width - 1)
           w == Weight(k)
<1>1. k \in Nat \ {0} /\ k <= Last /\ Width \in Nat /\ Group \in Nat /\ Group >= 2 /\ Last \in Nat
  BY Sizes
<1>2. /\ Group * k = Group * (k - 1) + Group /\ Group * (k - 1) \in Nat
      /\ Group * k \in Nat /\ Group * k <= Width - 1
  BY <1>1, Weights, Shifts
<1>3. Group * (k - 1) < Width /\ Group * k < Width
  BY <1>1, <1>2
<1>4. Take(st, o) = Reading(k, sum, EndAt(o)) /\ sum \in Nat /\ sum < w
  BY TakeWhole
<1>5. H \in Nat \ {0} /\ 2 ^ Width = H + H /\ w \in Nat /\ w <= H
  BY <1>1, Room
<1>6. ~(st.shift >= Width)
  BY <1>1, <1>2, <1>3 DEF Reading
<1>7. Signed(st, o) = IF Take(st, o).end = "done"
                      THEN [Take(st, o) EXCEPT !.value = AsSigned(Extend(Take(st, o), o))]
                      ELSE Take(st, o)
  BY <1>6 DEF Signed
<1> HIDE DEF sum, st
<1>8. CASE Continues(o)
  BY <1>4, <1>7, <1>8 DEF EndAt, Reading, sum, st
<1>9. CASE ~Continues(o)
  <2>1. Take(st, o) = Reading(k, sum, "done")
    BY <1>4, <1>9 DEF EndAt
  <2>2. Signed(st, o) = Reading(k, AsSigned(Extend(Reading(k, sum, "done"), o)), "done")
    BY <1>7, <2>1 DEF Reading
  <2>3. Extend(Reading(k, sum, "done"), o) =
          IF Negative(o) THEN sum + 2 ^ Width - w ELSE sum
    BY <1>3 DEF Extend, Reading, Weight
  <2>4. AsSigned(Extend(Reading(k, sum, "done"), o)) = SignedAt(k, sum, o)
        /\ SignedAt(k, sum, o) \in (-H)..(H - 1)
    <3>1. CASE Negative(o)
      <4> DEFINE x == sum + 2 ^ Width - w
      <4>1. x >= H /\ x - 2 ^ Width = sum - w /\ sum - w \in (-H)..(H - 1)
        <5> HIDE DEF w, H
        <5> QED
          BY <1>4, <1>5
      <4> HIDE DEF x
      <4>2. Extend(Reading(k, sum, "done"), o) = x
        BY <2>3, <3>1 DEF x
      <4>3. AsSigned(x) = x - 2 ^ Width
        BY <4>1 DEF AsSigned
      <4>4. SignedAt(k, sum, o) = sum - w
        BY <3>1 DEF SignedAt
      <4> QED
        BY <4>1, <4>2, <4>3, <4>4
    <3>2. CASE ~Negative(o)
      <4>1. ~(sum >= H) /\ sum \in (-H)..(H - 1)
        <5> HIDE DEF w, H
        <5> QED
          BY <1>4, <1>5
      <4>2. AsSigned(sum) = sum
        BY <4>1 DEF AsSigned
      <4>3. Extend(Reading(k, sum, "done"), o) = sum /\ SignedAt(k, sum, o) = sum
        BY <2>3, <3>2 DEF SignedAt
      <4> QED
        BY <4>1, <4>2, <4>3
    <3> QED
      BY <3>1, <3>2
  <2>5. SignedAt(k, sum, o) \in SignedRange
    BY <2>4 DEF SignedRange
  <2>6. Signed(st, o) = Reading(k, SignedAt(k, sum, o), "done")
    BY <2>2, <2>4
  <2> QED
    BY <1>4, <1>9, <2>5, <2>6 DEF sum, st
<1> QED
  BY <1>8, <1>9

\* A number a multiple of the modulus away.
LEMMA MultipleRemains ==
  ASSUME NEW j \in Int, NEW y \in Nat \ {0}
  PROVE  (j * y) % y = 0
  BY Z3T(40)

LEMMA SignedBit ==
  ASSUME NEW v \in Nat, v < Weight(Last), NEW o \in Octet
  PROVE  LET after == Signed(Reading(Last, v, "reading"), o)
             meant == SignedAt(Last + 1, Added(Last + 1, v, o), o)
         IN  /\ after.end = EndAt(o) /\ after.read = Last + 1
             /\ after.shift = Group * (Last + 1)
             /\ ~Continues(o) => /\ after.value \in SignedRange /\ meant \in Int
                                 /\ (after.value - meant) % (2 ^ Width) = 0
<1> DEFINE p == Payload(o)
           b == p % 2
           j == p \div 2
           st == Reading(Last, v, "reading")
           H == 2 ^ (Width - 1)
           M == 2 ^ Width
           G == 2 ^ (Group - 1)
           t == v + b * H
           meant == SignedAt(Last + 1, Added(Last + 1, v, o), o)
<1>1. Last \in Nat /\ (Last + 1) - 1 = Last /\ Width \in Nat /\ Last + 1 \in Nat \ {0}
      /\ Group \in Nat
  BY Sizes
<1>2. /\ Weight(Last) = H /\ H \in Nat \ {0} /\ M = H + H
      /\ G \in Nat /\ 2 ^ Group = G + G
  BY Room
<1>3. Weight(Last + 1) = H * (G + G)
  BY <1>1, <1>2, Weights
<1>4. p \in Nat
  BY Payloads
<1>5. p = 2 * j + b /\ j \in Int /\ b \in {0, 1}
  <2>1. p = 2 * j + b /\ j \in Int
    BY <1>4, Divides
  <2>2. b \in Nat /\ b < 2
    BY <1>4, Remains
  <2> HIDE DEF b
  <2> QED
    BY <2>1, <2>2
<1>6. Group * Last = Width - 1 /\ Group * (Last + 1) >= Width /\ Group * (Last + 1) \in Nat
  BY <1>1, Shifts, Weights
<1>7. ~(st.shift >= Width)
  BY <1>1, <1>6 DEF Reading
<1>8. Take(st, o) = Reading(Last + 1, t, EndAt(o))
  BY <1>2, TakeBit
<1>9. Signed(st, o) = IF Take(st, o).end = "done"
                      THEN [Take(st, o) EXCEPT !.value = AsSigned(Extend(Take(st, o), o))]
                      ELSE Take(st, o)
  BY <1>7 DEF Signed
<1> HIDE DEF st, t, b, j, p, meant, H, M, G
<1>10. CASE Continues(o)
  BY <1>8, <1>9, <1>10 DEF EndAt, Reading, st
<1>11. CASE ~Continues(o)
  <2>1. Take(st, o) = Reading(Last + 1, t, "done")
    BY <1>8, <1>11 DEF EndAt
  <2>2. Signed(st, o) = Reading(Last + 1, AsSigned(Extend(Reading(Last + 1, t, "done"), o)), "done")
    BY <1>9, <2>1 DEF Reading
  <2>3. Extend(Reading(Last + 1, t, "done"), o) = t
    BY <1>1, <1>6 DEF Extend, Reading
  <2>4. Signed(st, o) = Reading(Last + 1, AsSigned(t), "done")
    BY <2>2, <2>3
  <2>5. t \in Nat /\ t < H + H /\ t = v + b * H
    <3>1. b * H = 0 \/ b * H = H
      BY <1>2, <1>5
    <3>2. t = v + b * H
      BY DEF t
    <3>3. v < H
      BY <1>2
    <3> QED
      BY <1>2, <3>1, <3>2, <3>3
  <2>6. PICK c \in {0, 1} : AsSigned(t) = t - c * M /\ AsSigned(t) \in (-H)..(H - 1)
    <3>1. CASE t >= H
      <4>1. AsSigned(t) = t - M
        BY <3>1 DEF AsSigned, H, M
      <4>2. t - M = t - 1 * M /\ t - M \in (-H)..(H - 1)
        BY <1>2, <2>5, <3>1
      <4> QED
        BY <4>1, <4>2
    <3>2. CASE ~(t >= H)
      <4>1. AsSigned(t) = t
        BY <3>2 DEF AsSigned, H
      <4>2. t = t - 0 * M /\ t \in (-H)..(H - 1)
        BY <1>2, <2>5, <3>2
      <4> QED
        BY <4>1, <4>2
    <3> QED
      BY <3>1, <3>2
  <2>7. AsSigned(t) \in SignedRange
    BY <2>6 DEF SignedRange, H
  <2>8. PICK d \in {0, 1} : meant = (v + p * H) - d * (H * (G + G))
    <3>1. Added(Last + 1, v, o) = v + p * H /\ v + p * H \in Int
      BY <1>1, <1>2, <1>4 DEF Added, p
    <3>2. CASE Negative(o)
      <4>1. meant = Added(Last + 1, v, o) - Weight(Last + 1)
        BY <3>2, Zenon DEF meant, SignedAt
      <4>2. 1 * (H * (G + G)) = H * (G + G)
        BY <1>2
      <4> QED
        BY <1>3, <3>1, <4>1, <4>2
    <3>3. CASE ~Negative(o)
      <4>1. meant = v + p * H
        BY <3>1, <3>3 DEF meant, SignedAt
      <4>2. (v + p * H) - 0 * (H * (G + G)) = v + p * H
        <5>1. \A x \in Int, h \in Int : x - 0 * h = x
          OBVIOUS
        <5>2. H * (G + G) \in Int
          BY <1>2
        <5> QED
          BY <3>1, <5>1, <5>2
      <4> QED
        BY <4>1, <4>2
    <3> QED
      BY <3>2, <3>3
  <2>9. AsSigned(t) - meant = (d * G - c - j) * M
    <3>1. p * H = j * M + b * H
      <4>1. p * H = (2 * j + b) * H
        BY <1>5
      <4>2. \A x \in Int, y \in Int, h \in Int : (2 * x + y) * h = x * (h + h) + y * h
        OBVIOUS
      <4>3. (2 * j + b) * H = j * (H + H) + b * H
        BY <1>2, <1>5, <4>2
      <4> QED
        BY <1>2, <4>1, <4>3
    <3>2. d * (H * (G + G)) = (d * G) * M
      <4>1. \A x \in Int, y \in Int, h \in Int : x * (h * (y + y)) = (x * y) * (h + h)
        OBVIOUS
      <4> QED
        BY <1>2, <4>1
    <3>3. /\ d * G \in Int /\ c \in Int /\ j \in Int /\ M \in Int /\ b * H \in Int
          /\ c * M \in Int /\ j * M \in Int /\ (d * G) * M \in Int
      BY <1>2, <1>5
    <3>4. \A x \in Int, y \in Int, z \in Int, h \in Int :
            (x - y - z) * h = x * h - y * h - z * h
      OBVIOUS
    <3>5. (d * G - c - j) * M = (d * G) * M - c * M - j * M
      BY <3>3, <3>4
    <3>6. AsSigned(t) = (v + b * H) - c * M
      BY <2>5, <2>6, Zenon
    <3>7. meant = (v + (j * M + b * H)) - (d * G) * M
      BY <2>8, <3>1, <3>2
    <3> QED
      BY <3>3, <3>5, <3>6, <3>7
  <2>10. meant \in Int /\ (AsSigned(t) - meant) % M = 0
    <3>1. d * G - c - j \in Int /\ M \in Nat \ {0}
      BY <1>2, <1>5
    <3>2. ((d * G - c - j) * M) % M = 0
      BY <3>1, MultipleRemains
    <3>3. meant \in Int
      BY <1>2, <1>4, <2>8
    <3> QED
      BY <2>9, <3>2, <3>3
  <2>11. meant = SignedAt(Last + 1, Added(Last + 1, v, o), o)
    BY DEF meant
  <2> QED
    BY <1>11, <2>4, <2>7, <2>10, <2>11 DEF Reading, EndAt, st, M
<1> QED
  BY <1>10, <1>11 DEF st

LEMMA SignedBeyond ==
  ASSUME NEW st \in States, st.shift >= Width, NEW o \in Octet
  PROVE  Signed(st, o).end = "Overflow"
BY DEF Signed, States

\* Two numbers of the signed range do not differ by a multiple of the modulus.
LEMMA SignedApart ==
  ASSUME NEW x \in SignedRange, NEW y \in SignedRange, (x - y) % (2 ^ Width) = 0
  PROVE  x = y
<1> DEFINE H == 2 ^ (Width - 1)
           M == 2 ^ Width
           q == (x - y) \div M
<1>1. H \in Nat \ {0} /\ M = H + H
  BY Room
<1>2. x \in (-H)..(H - 1) /\ y \in (-H)..(H - 1)
  BY DEF SignedRange
<1>3. x - y = M * q + ((x - y) % M) /\ q \in Int
  <2> HIDE DEF H
  <2>1. x - y \in Int /\ M \in Nat \ {0}
    <3> HIDE DEF M
    <3> QED
      BY <1>1, <1>2
  <2> QED
    BY <2>1, Divides
<1>4. x - y = M * q
  <2>1. (x - y) % M = 0
    OBVIOUS
  <2> HIDE DEF M, H, q
  <2>2. M * q \in Int
    BY <1>1, <1>3
  <2> QED
    BY <1>3, <2>1, <2>2
<1>5. x - y < M /\ x - y > -M
  <2> HIDE DEF M, H, q
  <2> QED
    BY <1>1, <1>2
<1> HIDE DEF M, H, q
<1>6. q = 0
  <2>1. \A m \in Nat \ {0}, n \in Int : m * n < m /\ m * n > -m => n = 0
    OBVIOUS
  <2>2. M \in Nat \ {0}
    BY <1>1
  <2> QED
    BY <1>3, <1>4, <1>5, <2>1, <2>2
<1>7. M * 0 = 0
  BY <1>1
<1> QED
  BY <1>1, <1>2, <1>4, <1>6, <1>7

-----------------------------------------------------------------------------
(* The loops.                                                              *)

Step(st, octet, signed) ==
  IF st.end # "reading" THEN st
  ELSE IF signed THEN Signed(st, octet) ELSE Unsigned(st, octet)

\* The states a loop over s goes through, and what its octets denote so far.
Course(s, signed) ==
  {after \in [0..Len(s) -> States] :
     /\ after[0] = Begun
     /\ \A k \in 1..Len(s) : after[k] = Step(after[k - 1], s[k], signed)}
Sums(s, n) ==
  {sum \in [0..n -> Nat] :
     sum[0] = 0 /\ \A k \in 1..n : sum[k] = Added(k, sum[k - 1], s[k])}

LEMMA StepTyped ==
  ASSUME NEW st \in States, NEW o \in Octet, NEW signed \in BOOLEAN
  PROVE  Step(st, o, signed) \in States
<1>1. Width \in Nat /\ Group \in Nat
  BY Sizes
<1>2. /\ st.read \in Nat /\ st.value \in Int /\ st.shift \in Nat
      /\ st = [read |-> st.read, value |-> st.value, shift |-> st.shift, end |-> st.end]
  BY DEF States
<1>3. [st EXCEPT !.end = "Overflow"] \in States
  BY DEF States
<1>4. ASSUME st.shift < Width
      PROVE  /\ Take(st, o) \in [read : Nat, value : Int, shift : Nat, end : {"reading", "done"}]
             /\ Take(st, o).shift = st.shift + Group
  <2>1. Width - st.shift \in Nat
    BY <1>1, <1>2, <1>4
  <2>2. 2 ^ (Width - st.shift) \in Nat \ {0} /\ 2 ^ st.shift \in Nat
    BY <1>2, <2>1, Powers
  <2>3. Payload(o) % 2 ^ (Width - st.shift) \in Nat
    BY <2>2, Payloads, Remains
  <2>4. \A x \in Nat, y \in Nat : x * y \in Nat
    OBVIOUS
  <2>5. Shifted(Payload(o), st.shift) \in Nat
    BY <2>2, <2>3, <2>4 DEF Shifted
  <2>6. st.value + Shifted(Payload(o), st.shift) \in Int
    BY <1>2, <2>5
  <2> QED
    BY <1>1, <1>2, <2>6 DEF Take
<1>5. Unsigned(st, o) \in States
  <2>1. Fits(Payload(o), st.shift) => st.shift < Width
    BY <1>1, <1>2 DEF Fits
  <2>2. Fits(Payload(o), st.shift) => Take(st, o) \in States
    BY <1>4, <2>1 DEF States
  <2> QED
    BY <1>3, <2>2 DEF Unsigned
<1>6. Signed(st, o) \in States
  <2>1. CASE st.shift >= Width
    BY <1>3, <2>1 DEF Signed
  <2>2. CASE ~(st.shift >= Width)
    <3> DEFINE taken == Take(st, o)
    <3>1. st.shift < Width
      BY <1>1, <1>2, <2>2
    <3>2. /\ taken \in [read : Nat, value : Int, shift : Nat, end : {"reading", "done"}]
      BY <1>4, <3>1
    <3>3. Signed(st, o) = IF taken.end = "done"
                          THEN [taken EXCEPT !.value = AsSigned(Extend(taken, o))] ELSE taken
      BY <2>2 DEF Signed
    <3> HIDE DEF taken
    <3>4. taken.value \in Int /\ taken.shift \in Nat
      BY <3>2
    <3>5. 2 ^ Width \in Int /\ 2 ^ taken.shift \in Int
      BY <1>1, <3>4, Powers
    <3>6. Extend(taken, o) \in Int
      BY <3>4, <3>5 DEF Extend
    <3>7. AsSigned(Extend(taken, o)) \in Int
      BY <3>5, <3>6 DEF AsSigned
    <3> QED
      BY <3>2, <3>3, <3>7 DEF States
  <2> QED
    BY <2>1, <2>2
<1> QED
  BY <1>5, <1>6 DEF Step

LEMMA LoopSteps ==
  ASSUME NEW s \in Seq(Octet), NEW signed \in BOOLEAN
  PROVE  \E after \in Course(s, signed) :
           Loop(s, signed) = IF after[Len(s)].end = "reading"
                             THEN [after[Len(s)] EXCEPT !.end = "Eof"] ELSE after[Len(s)]
<1> DEFINE n == Len(s)
           G == [k \in 1..n |-> [v \in States |-> Step(v, s[k], signed)]]
           Next1(f) == [k \in 0..n |-> IF k = 0 THEN Begun ELSE Step(f[k - 1], s[k], signed)]
           T == CHOOSE f : f = Next1(f)
<1>1. n \in Nat /\ \A k \in 1..n : s[k] \in Octet
  OBVIOUS
<1>2. G \in Machines(n, States)
  <2>1. ASSUME NEW k \in 1..n
        PROVE  [v \in States |-> Step(v, s[k], signed)] \in [States -> States]
    BY <1>1, StepTyped
  <2> QED
    BY <2>1 DEF Machines
<1>3. Begun \in States
  BY DEF Begun, States
<1>4. PICK f \in [0..n -> States] : f[0] = Begun /\ \A k \in 1..n : f[k] = G[k][f[k - 1]]
  <2>1. Courses(n, States, Begun, G) # {}
    <3> HIDE DEF G, n
    <3> QED
      BY <1>1, <1>2, <1>3, StepsExist
  <2> QED
    BY <2>1 DEF Courses
<1>5. ASSUME NEW k \in 1..n
      PROVE  f[k] = Step(f[k - 1], s[k], signed)
  <2>1. k - 1 \in 0..n
    BY <1>1
  <2>2. f[k - 1] \in States
    BY <2>1
  <2> QED
    BY <1>4, <2>2
<1>6. f = Next1(f)
  <2>1. ASSUME NEW k \in 0..n
        PROVE  f[k] = (IF k = 0 THEN Begun ELSE Step(f[k - 1], s[k], signed))
    <3>1. k = 0 \/ k \in 1..n
      BY <1>1
    <3> QED
      BY <1>4, <1>5, <3>1
  <2> QED
    BY <2>1
<1>7. T = Next1(T)
  <2> HIDE DEF Next1
  <2> QED
    BY <1>6, Zenon
<1>8. Loop(s, signed) = IF T[n].end = "reading" THEN [T[n] EXCEPT !.end = "Eof"] ELSE T[n]
  BY Zenon DEF Loop, Step
<1>9. T[0] = Begun /\ \A k \in 1..n : T[k] = Step(T[k - 1], s[k], signed)
  <2> HIDE DEF T
  <2>1. \A k \in 0..n : T[k] = Next1(T)[k]
    BY <1>7
  <2> QED
    BY <1>1, <2>1
<1>10. T \in [0..n -> States]
  <2> DEFINE P == [k \in 0..n |-> T[k] \in States]
  <2> HIDE DEF T
  <2>1. P \in [0..n -> BOOLEAN] /\ P[0]
    <3>1. 0 \in 0..n /\ T[0] \in States
      BY <1>1, <1>3, <1>9
    <3>2. P[0] = (T[0] \in States)
      BY <3>1
    <3> QED
      BY <3>1, <3>2
  <2>2. ASSUME NEW k \in 1..n, P[k - 1]
        PROVE  P[k]
    <3>1. k - 1 \in 0..n /\ k \in 0..n
      BY <1>1
    <3>2. T[k - 1] \in States
      BY <2>2, <3>1
    <3> QED
      BY <1>1, <1>9, <3>1, <3>2, StepTyped
  <2>3. \A k \in 0..n : P[k]
    <3> HIDE DEF P
    <3> QED
      BY <1>1, <2>1, <2>2, Stepwise
  <2>4. T = [k \in 0..n |-> T[k]]
    <3> HIDE DEF P
    <3> QED
      BY <1>7
  <2> QED
    BY <2>3, <2>4
<1> HIDE DEF T
<1>11. T \in Course(s, signed)
  BY <1>9, <1>10 DEF Course
<1> QED
  BY <1>8, <1>11

LEMMA DenotesSteps ==
  ASSUME NEW s \in Seq(Octet), NEW n \in 0..Len(s)
  PROVE  \E sum \in Sums(s, n) : Denotes(s, n) = sum[n]
<1> DEFINE G == [k \in 1..n |-> [v \in Nat |-> Added(k, v, s[k])]]
           Next1(f) == [k \in 0..n |-> IF k = 0 THEN 0
                                       ELSE f[k - 1] + Payload(s[k]) * 2 ^ (Group * (k - 1))]
           T == CHOOSE f : f = Next1(f)
<1>1. n \in Nat /\ \A k \in 1..n : s[k] \in Octet
  OBVIOUS
<1>2. ASSUME NEW k \in 1..n, NEW v \in Nat
      PROVE  Added(k, v, s[k]) \in Nat
  <2>1. Weight(k - 1) \in Nat /\ Payload(s[k]) \in Nat
    <3>1. k \in Nat \ {0} /\ s[k] \in Octet
      BY <1>1
    <3> QED
      BY <3>1, Weights, Payloads
  <2>2. \A x \in Nat, y \in Nat : x * y \in Nat
    OBVIOUS
  <2>3. Payload(s[k]) * Weight(k - 1) \in Nat
    BY <2>1, <2>2
  <2> QED
    BY <2>3 DEF Added
<1>3. G \in Machines(n, Nat)
  <2>1. ASSUME NEW k \in 1..n
        PROVE  [v \in Nat |-> Added(k, v, s[k])] \in [Nat -> Nat]
    BY <1>2
  <2> QED
    BY <2>1 DEF Machines
<1>4. PICK f \in [0..n -> Nat] : f[0] = 0 /\ \A k \in 1..n : f[k] = G[k][f[k - 1]]
  <2>1. Courses(n, Nat, 0, G) # {}
    <3> HIDE DEF G
    <3> QED
      BY <1>1, <1>3, StepsExist
  <2> QED
    BY <2>1 DEF Courses
<1>5. ASSUME NEW k \in 1..n
      PROVE  f[k] = Added(k, f[k - 1], s[k])
  <2>1. k - 1 \in 0..n
    BY <1>1
  <2>2. f[k - 1] \in Nat
    BY <2>1
  <2> QED
    BY <1>4, <2>2
<1>6. f = Next1(f)
  <2>1. ASSUME NEW k \in 0..n
        PROVE  f[k] = (IF k = 0 THEN 0 ELSE Added(k, f[k - 1], s[k]))
    <3>1. k = 0 \/ k \in 1..n
      BY <1>1
    <3> QED
      BY <1>4, <1>5, <3>1
  <2> QED
    BY <2>1 DEF Added, Weight
<1>7. T = Next1(T)
  <2> HIDE DEF Next1
  <2> QED
    BY <1>6, Zenon
<1>8. Denotes(s, n) = T[n]
  BY Zenon DEF Denotes
<1>9. T[0] = 0 /\ \A k \in 1..n : T[k] = Added(k, T[k - 1], s[k])
  <2> HIDE DEF T
  <2>1. \A k \in 0..n : T[k] = Next1(T)[k]
    BY <1>7
  <2> QED
    BY <1>1, <2>1 DEF Added, Weight
<1>10. T \in [0..n -> Nat]
  <2> DEFINE P == [k \in 0..n |-> T[k] \in Nat]
  <2> HIDE DEF T
  <2>1. P \in [0..n -> BOOLEAN] /\ P[0]
    BY <1>1, <1>9
  <2>2. ASSUME NEW k \in 1..n, P[k - 1]
        PROVE  P[k]
    <3>1. k - 1 \in 0..n /\ k \in 0..n
      BY <1>1
    <3>2. T[k - 1] \in Nat
      BY <2>2, <3>1
    <3> QED
      BY <1>2, <1>9, <3>1, <3>2
  <2>3. \A k \in 0..n : P[k]
    <3> HIDE DEF P
    <3> QED
      BY <1>1, <2>1, <2>2, Stepwise
  <2>4. T = [k \in 0..n |-> T[k]]
    <3> HIDE DEF P
    <3> QED
      BY <1>7
  <2> QED
    BY <2>3, <2>4
<1> HIDE DEF T
<1>11. T \in Sums(s, n)
  BY <1>9, <1>10 DEF Sums
<1> QED
  BY <1>8, <1>11

LEMMA TerminalIs ==
  ASSUME NEW s \in Seq(Octet)
  PROVE  /\ Terminal(s) \in 0..Len(s)
         /\ Terminal(s) # 0 => ~Continues(s[Terminal(s)])
         /\ \A k \in 1..Len(s) : k < Terminal(s) \/ Terminal(s) = 0 => Continues(s[k])
<1> DEFINE ends == {i \in 1..Len(s) : ~Continues(s[i])}
<1>1. Terminal(s) = IF ends = {} THEN 0 ELSE CHOOSE i \in ends : \A j \in ends : i <= j
  BY Zenon DEF Terminal
<1>2. CASE ends = {}
  BY <1>1, <1>2
<1>3. CASE ends # {}
  <2>1. ends \subseteq Nat
    OBVIOUS
  <2>2. \E i \in ends : \A j \in ends : i <= j
    <3> HIDE DEF ends
    <3> QED
      BY <1>3, <2>1, Least
  <2>3. Terminal(s) \in ends /\ \A j \in ends : Terminal(s) <= j
    <3>1. Terminal(s) = CHOOSE i \in ends : \A j \in ends : i <= j
      BY <1>1, <1>3
    <3> HIDE DEF ends
    <3> QED
      BY <2>2, <3>1
  <2>4. \A k \in 1..Len(s) : k < Terminal(s) => k \notin ends
    <3>1. \A j \in ends : Terminal(s) <= j /\ j \in Nat
      BY <2>1, <2>3
    <3>2. Terminal(s) \in Nat
      BY <2>1, <2>3
    <3> HIDE DEF ends
    <3> QED
      BY <3>1, <3>2
  <2> QED
    BY <2>3, <2>4
<1> QED
  BY <1>2, <1>3

\* A loop that has ended stays as it is.
LEMMA EndedStays ==
  ASSUME NEW s \in Seq(Octet), NEW signed \in BOOLEAN, NEW after \in Course(s, signed),
         NEW n \in 0..Len(s), after[n].end # "reading"
  PROVE  after[Len(s)] = after[n]
<1> DEFINE L == Len(s)
           Q(i) == after[n + i] = after[n]
           P == [i \in 0..(L - n) |-> Q(i)]
<1>1. L \in Nat /\ L - n \in Nat /\ n \in Nat
  OBVIOUS
<1>2. \A k \in 1..L : after[k] = Step(after[k - 1], s[k], signed)
  BY DEF Course
<1>3. \A i \in 0..(L - n) : P[i] <=> Q(i)
  <2> HIDE DEF Q, L
  <2> QED
    OBVIOUS
<1> HIDE DEF P, L
<1>4. P[0]
  <2>1. n + 0 = n /\ 0 \in 0..(L - n)
    BY <1>1
  <2> QED
    BY <1>3, <2>1
<1>5. ASSUME NEW i \in 1..(L - n), P[i - 1]
      PROVE  P[i]
  <2>1. /\ i - 1 \in 0..(L - n) /\ i \in 0..(L - n)
        /\ n + i \in 1..L /\ (n + i) - 1 = n + (i - 1)
    BY <1>1
  <2>2. after[n + (i - 1)] = after[n]
    BY <1>3, <1>5, <2>1
  <2>3. after[n + i] = Step(after[n], s[n + i], signed)
    BY <1>2, <2>1, <2>2
  <2>4. after[n + i] = after[n]
    BY <2>3 DEF Step
  <2> QED
    BY <1>3, <2>1, <2>4
<1>6. P \in [0..(L - n) -> BOOLEAN]
  BY DEF P
<1>7. \A i \in 0..(L - n) : P[i]
  BY <1>1, <1>4, <1>5, <1>6, Stepwise
<1>8. Q(L - n) /\ n + (L - n) = L
  BY <1>1, <1>3, <1>7
<1> QED
  BY <1>8 DEF L

-----------------------------------------------------------------------------
(* uleb.                                                                   *)

\* What the loop has after k octets, of which sum is the value.
UnsignedAt(k, e, st, sum) ==
  \/ k <= Last /\ sum < Weight(k) /\ st = Reading(k, sum, e)
  \/ k = Last + 1 /\ sum < 2 ^ Width /\ st = Reading(k, sum, e)
  \/ k > Last /\ st.end = "Overflow" /\ (k = Last + 1 => sum >= 2 ^ Width)

LEMMA UnsignedGoesOn ==
  ASSUME NEW k \in Nat \ {0}, NEW sum \in Nat, NEW st, NEW o \in Octet,
         UnsignedAt(k - 1, "reading", st, sum)
  PROVE  UnsignedAt(k, EndAt(o), Step(st, o, FALSE), Added(k, sum, o))
<1>1. Last \in Nat \ {0} /\ Width \in Nat /\ k - 1 \in Nat
  BY Sizes
<1>2. CASE k <= Last
  <2>1. st = Reading(k - 1, sum, "reading") /\ sum < Weight(k - 1) /\ k \in 1..Last
    BY <1>1, <1>2 DEF UnsignedAt
  <2>2. /\ Unsigned(st, o) = Reading(k, Added(k, sum, o), EndAt(o))
        /\ Added(k, sum, o) < Weight(k)
    BY <2>1, UnsignedWhole
  <2>3. Step(st, o, FALSE) = Unsigned(st, o)
    BY <2>1 DEF Step, Reading
  <2> QED
    BY <1>2, <2>2, <2>3 DEF UnsignedAt
<1>3. CASE k = Last + 1
  <2>1. st = Reading(k - 1, sum, "reading") /\ sum < Weight(k - 1) /\ k - 1 = Last
    BY <1>1, <1>3 DEF UnsignedAt
  <2>2. /\ Added(k, sum, o) \in Nat
        /\ Added(k, sum, o) < 2 ^ Width =>
             Unsigned(st, o) = Reading(k, Added(k, sum, o), EndAt(o))
        /\ Added(k, sum, o) >= 2 ^ Width => Unsigned(st, o).end = "Overflow"
    BY <1>3, <2>1, UnsignedBit
  <2>3. Step(st, o, FALSE) = Unsigned(st, o)
    BY <2>1 DEF Step, Reading
  <2>4. 2 ^ Width \in Nat
    BY <1>1, Powers
  <2>5. Added(k, sum, o) < 2 ^ Width \/ Added(k, sum, o) >= 2 ^ Width
    BY <2>2, <2>4
  <2>6. k > Last
    BY <1>1, <1>3
  <2> QED
    BY <1>3, <2>2, <2>3, <2>5, <2>6 DEF UnsignedAt
<1>4. CASE k > Last + 1
  <2>1. Step(st, o, FALSE).end = "Overflow"
    <3>1. CASE st.end = "Overflow"
      BY <3>1 DEF Step
    <3>2. CASE st.end # "Overflow"
      <4>1. st = Reading(k - 1, sum, "reading")
        BY <3>2 DEF UnsignedAt
      <4>2. Unsigned(st, o).end = "Overflow"
        BY <1>4, <4>1, UnsignedBeyond
      <4> QED
        BY <4>1, <4>2 DEF Step, Reading
    <3> QED
      BY <3>1, <3>2
  <2>2. k > Last /\ k # Last + 1
    BY <1>1, <1>4
  <2> QED
    BY <2>1, <2>2 DEF UnsignedAt
<1>5. k <= Last \/ k = Last + 1 \/ k > Last + 1
  BY <1>1
<1> QED
  BY <1>2, <1>3, <1>4, <1>5

LEMMA UnsignedLoop ==
  ASSUME NEW s \in Seq(Octet), NEW m \in 0..Len(s),
         \A k \in 1..Len(s) : k < m => Continues(s[k]),
         NEW after \in Course(s, FALSE), NEW sum \in Sums(s, m)
  PROVE  IF m = 0 THEN UnsignedAt(0, "reading", after[0], 0)
                  ELSE UnsignedAt(m, EndAt(s[m]), after[m], sum[m])
<1> DEFINE E(k) == IF k = 0 THEN "reading" ELSE EndAt(s[k])
           Q(k) == UnsignedAt(k, E(k), after[k], sum[k])
           P == [k \in 0..m |-> Q(k)]
<1>1. m \in Nat /\ Last \in Nat
  BY Sizes
<1>2. /\ after[0] = Begun
      /\ \A k \in 1..Len(s) : after[k] = Step(after[k - 1], s[k], FALSE)
  BY DEF Course
<1>3. /\ sum \in [0..m -> Nat] /\ sum[0] = 0
      /\ \A k \in 1..m : sum[k] = Added(k, sum[k - 1], s[k])
  BY DEF Sums
<1>4. \A k \in 0..m : P[k] <=> Q(k)
  <2> HIDE DEF Q
  <2> QED
    OBVIOUS
<1>5. Q(0)
  <2>1. Begun = Reading(0, 0, "reading")
    BY Sizes DEF Begun, Reading
  <2>2. Weight(0) = 1
    BY Room
  <2> QED
    BY <1>1, <1>2, <1>3, <2>1, <2>2 DEF UnsignedAt
<1>6. ASSUME NEW k \in 1..m, Q(k - 1)
      PROVE  Q(k)
  <2>1. k \in Nat \ {0} /\ k \in 1..Len(s) /\ s[k] \in Octet /\ sum[k - 1] \in Nat
    BY <1>3
  <2>2. E(k - 1) = "reading"
    <3>1. CASE k - 1 = 0
      BY <3>1
    <3>2. CASE k - 1 # 0
      <4>1. k - 1 \in 1..Len(s) /\ k - 1 < m
        BY <3>2
      <4> QED
        BY <3>2, <4>1 DEF EndAt
    <3> QED
      BY <3>1, <3>2
  <2>3. UnsignedAt(k - 1, "reading", after[k - 1], sum[k - 1])
    BY <1>6, <2>2
  <2>4. UnsignedAt(k, EndAt(s[k]), Step(after[k - 1], s[k], FALSE), Added(k, sum[k - 1], s[k]))
    BY <2>1, <2>3, UnsignedGoesOn
  <2>5. E(k) = EndAt(s[k])
    BY <2>1
  <2>6. after[k] = Step(after[k - 1], s[k], FALSE) /\ sum[k] = Added(k, sum[k - 1], s[k])
    BY <1>2, <1>3, <2>1
  <2> HIDE DEF E
  <2> QED
    BY <2>4, <2>5, <2>6
<1> HIDE DEF Q
<1>7. P[0] /\ P \in [0..m -> BOOLEAN]
  <2>1. 0 \in 0..m
    BY <1>1
  <2>2. P \in [0..m -> BOOLEAN]
    BY DEF Q, UnsignedAt
  <2> QED
    BY <1>4, <1>5, <2>1, <2>2
<1> HIDE DEF P
<1>8. ASSUME NEW k \in 1..m, P[k - 1]
      PROVE  P[k]
  <2>1. k - 1 \in 0..m /\ k \in 0..m
    OBVIOUS
  <2> QED
    BY <1>4, <1>6, <1>8, <2>1
<1>9. \A k \in 0..m : P[k]
  BY <1>1, <1>7, <1>8, Stepwise
<1>10. Q(m)
  BY <1>1, <1>4, <1>9
<1> QED
  BY <1>3, <1>10 DEF Q

\* Every octet but the terminal one continues.
LEMMA UnsignedRead ==
  ASSUME NEW s \in Seq(Octet)
  PROVE  ReadsUnsigned(s)
<1> DEFINE n == Terminal(s)
           L == Len(s)
           m == IF n = 0 THEN L ELSE n
<1>1. PICK after \in Course(s, FALSE) :
        Loop(s, FALSE) = IF after[L].end = "reading"
                         THEN [after[L] EXCEPT !.end = "Eof"] ELSE after[L]
  BY LoopSteps
<1>2. L \in Nat /\ n \in 0..L /\ m \in 0..L /\ (m = 0 => n = 0)
  BY TerminalIs
<1>3. PICK sum \in Sums(s, m) : Denotes(s, m) = sum[m]
  BY <1>2, DenotesSteps
<1>4. \A k \in 1..L : k < m => Continues(s[k])
  <2>1. \A k \in 1..L : k < n \/ n = 0 => Continues(s[k])
    BY TerminalIs
  <2> HIDE DEF n, L
  <2> QED
    BY <2>1
<1>5. IF m = 0 THEN UnsignedAt(0, "reading", after[0], 0)
               ELSE UnsignedAt(m, EndAt(s[m]), after[m], sum[m])
  <2> HIDE DEF m, n
  <2> QED
    BY <1>2, <1>4, UnsignedLoop
<1>6. /\ Last \in Nat \ {0} /\ MaxOctets = Last + 1 /\ Width \in Nat
      /\ 2 ^ Width \in Nat /\ \A k \in 0..Last : Weight(k) \in Nat /\ Weight(k) <= 2 ^ Width
  <2>1. 2 ^ (Width - 1) \in Nat /\ 2 ^ Width = 2 ^ (Width - 1) + 2 ^ (Width - 1)
    BY Room
  <2>2. \A k \in 0..Last : Weight(k) \in Nat /\ Weight(k) <= 2 ^ (Width - 1)
    BY Room
  <2> QED
    BY <2>1, <2>2, Sizes
<1>7. after \in [0..L -> States] /\ sum \in [0..m -> Nat]
  BY DEF Course, Sums
<1>8. Uleb(s) = Loop(s, FALSE)
  BY DEF Uleb
<1>9. CASE n = 0
  <2>1. after[m].end \in {"reading", "Overflow"} /\ m = L
    <3>1. CASE m = 0
      BY <1>5, <1>9, <3>1 DEF UnsignedAt, Reading
    <3>2. CASE m # 0
      <4>1. m \in 1..L /\ m = L
        BY <1>2, <1>9, <3>2
      <4>2. EndAt(s[m]) = "reading"
        BY <1>9, <4>1, TerminalIs DEF EndAt
      <4>3. UnsignedAt(m, "reading", after[m], sum[m])
        BY <1>5, <3>2, <4>2
      <4> HIDE DEF m, n
      <4> QED
        BY <4>1, <4>3 DEF UnsignedAt, Reading
    <3> QED
      BY <3>1, <3>2
  <2>2. after[L] \in States
    BY <1>2, <1>7
  <2>3. Uleb(s).end \in {"Eof", "Overflow"}
    <3>1. CASE after[L].end = "reading"
      BY <1>1, <1>8, <2>2, <3>1 DEF States
    <3>2. CASE after[L].end = "Overflow"
      BY <1>1, <1>8, <3>2
    <3> QED
      BY <2>1, <3>1, <3>2
  <2>4. ~(n \in 1..MaxOctets)
    BY <1>9
  <2> QED
    BY <2>3, <2>4 DEF ReadsUnsigned
<1>10. CASE n # 0
  <2>1. m = n /\ n \in 1..L
    BY <1>2, <1>10
  <2>2. EndAt(s[n]) = "done"
    BY <1>10, TerminalIs DEF EndAt
  <2>3. UnsignedAt(n, "done", after[n], sum[n])
    <3> HIDE DEF n
    <3> QED
      BY <1>5, <1>10, <2>1, <2>2
  <2> DEFINE d == Denotes(s, n)
  <2>4. d = sum[n] /\ d \in Nat
    BY <1>3, <1>7, <2>1
  <2> HIDE DEF m, n, L, d
  <2>5. after[n].end # "reading"
    BY <2>3 DEF UnsignedAt, Reading
  <2>6. after[L] = after[n]
    <3>1. n \in 0..Len(s)
      BY <2>1 DEF L
    <3> QED
      BY <2>5, <3>1, EndedStays DEF L
  <2>7. Uleb(s) = after[n]
    BY <1>1, <1>8, <2>5, <2>6
  <2>8. CASE after[n] = Reading(n, d, "done") /\ d < 2 ^ Width /\ n <= Last + 1
    <3>1. Uleb(s).end = "done" /\ Uleb(s).read = n /\ Uleb(s).value = d
      BY <2>7, <2>8 DEF Reading
    <3>2. n \in 1..MaxOctets
      BY <1>6, <2>1, <2>8
    <3> QED
      BY <2>8, <3>1, <3>2 DEF ReadsUnsigned, n, d
  <2>9. CASE after[n].end = "Overflow" /\ ~(n \in 1..MaxOctets /\ d < 2 ^ Width)
    BY <2>7, <2>9 DEF ReadsUnsigned, n, d
  <2>10. n \in Nat \ {0}
    BY <1>2, <2>1
  <2>11. CASE n <= Last /\ d < Weight(n) /\ after[n] = Reading(n, d, "done")
    <3>1. Weight(n) \in Nat /\ Weight(n) <= 2 ^ Width
      BY <1>6, <2>10, <2>11
    <3>2. d < 2 ^ Width /\ n <= Last + 1
      BY <1>6, <2>4, <2>10, <2>11, <3>1
    <3> QED
      BY <2>8, <2>11, <3>2
  <2>12. CASE n > Last /\ after[n].end = "Overflow" /\ (n = Last + 1 => d >= 2 ^ Width)
    <3>1. ~(n \in 1..MaxOctets /\ d < 2 ^ Width)
      BY <1>6, <2>4, <2>10, <2>12
    <3> QED
      BY <2>9, <2>12, <3>1
  <2>13. n = Last + 1 => n <= Last + 1
    BY <1>6
  <2> QED
    BY <2>3, <2>4, <2>8, <2>11, <2>12, <2>13 DEF UnsignedAt
<1> QED
  BY <1>9, <1>10

-----------------------------------------------------------------------------
(* sleb.                                                                   *)

\* What the loop has after k octets that continue, of which sum is the value,
\* and after a terminal one that means what DenotesSigned says.
SignedReads(k, st, sum) ==
  \/ k <= Last /\ sum < Weight(k) /\ st = Reading(k, sum, "reading")
  \/ k = Last + 1 /\ st.end = "reading" /\ st.shift >= Width
  \/ k > Last + 1 /\ st.end = "Overflow"

SignedEnds(k, st, meant) ==
  \/ /\ k <= Last + 1 /\ st.end = "done" /\ st.read = k
     /\ st.value \in SignedRange /\ (st.value - meant) % (2 ^ Width) = 0
  \/ k > Last + 1 /\ st.end = "Overflow"

LEMMA SignedGoesOn ==
  ASSUME NEW k \in Nat \ {0}, NEW sum \in Nat, NEW st \in States, NEW o \in Octet,
         SignedReads(k - 1, st, sum)
  PROVE  LET result == Step(st, o, TRUE)
             all == Added(k, sum, o)
         IN  /\ Continues(o) => SignedReads(k, result, all)
             /\ ~Continues(o) => SignedEnds(k, result, SignedAt(k, all, o))
<1> DEFINE result == Step(st, o, TRUE)
           all == Added(k, sum, o)
<1>1. Last \in Nat \ {0} /\ Width \in Nat /\ k - 1 \in Nat
  BY Sizes
<1>2. CASE k <= Last
  <2>1. st = Reading(k - 1, sum, "reading") /\ sum < Weight(k - 1) /\ k \in 1..Last
    BY <1>1, <1>2 DEF SignedReads
  <2>2. result = Signed(st, o)
    BY <2>1 DEF Step, Reading
  <2>3. /\ all \in Nat /\ all < Weight(k)
        /\ Continues(o) => result = Reading(k, all, "reading")
        /\ ~Continues(o) => /\ result = Reading(k, SignedAt(k, all, o), "done")
                            /\ SignedAt(k, all, o) \in SignedRange
    BY <2>1, <2>2, SignedWhole
  <2> HIDE DEF result, all
  <2>4. ASSUME ~Continues(o)
        PROVE  SignedEnds(k, result, SignedAt(k, all, o))
    <3> DEFINE v == SignedAt(k, all, o)
    <3>1. v \in Int /\ 2 ^ Width \in Nat \ {0}
      <4>1. 2 ^ (Width - 1) \in Nat
        BY Room
      <4>2. v \in SignedRange
        BY <2>3, <2>4
      <4> HIDE DEF v
      <4> QED
        BY <1>1, <4>1, <4>2, Powers DEF SignedRange
    <3>2. (v - v) % (2 ^ Width) = 0
      <4> HIDE DEF v
      <4>1. v - v = 0 * 2 ^ Width
        BY <3>1
      <4> QED
        BY <3>1, <4>1, MultipleRemains
    <3>3. result.end = "done" /\ result.read = k /\ result.value = v
      BY <2>3, <2>4 DEF Reading
    <3>4. k <= Last + 1
      BY <1>1, <1>2
    <3> QED
      BY <2>3, <2>4, <3>2, <3>3, <3>4 DEF SignedEnds
  <2>5. Continues(o) => SignedReads(k, result, all)
    BY <1>2, <2>3 DEF SignedReads
  <2> QED
    BY <2>4, <2>5 DEF result, all
<1>3. CASE k = Last + 1
  <2>1. st = Reading(k - 1, sum, "reading") /\ sum < Weight(k - 1) /\ k - 1 = Last
    BY <1>1, <1>3 DEF SignedReads
  <2>2. result = Signed(st, o)
    BY <2>1 DEF Step, Reading
  <2>3. /\ result.end = EndAt(o) /\ result.read = k /\ result.shift = Group * k
        /\ ~Continues(o) =>
             /\ result.value \in SignedRange
             /\ (result.value - SignedAt(k, all, o)) % (2 ^ Width) = 0
    BY <1>3, <2>1, <2>2, SignedBit
  <2>4. Group * k >= Width
    BY <1>3, Shifts
  <2>5. k <= Last + 1
    BY <1>1, <1>3
  <2> HIDE DEF result, all
  <2>6. Continues(o) => SignedReads(k, result, all)
    BY <1>3, <2>3, <2>4 DEF SignedReads, EndAt
  <2>7. ~Continues(o) => SignedEnds(k, result, SignedAt(k, all, o))
    BY <2>3, <2>5 DEF SignedEnds, EndAt
  <2> QED
    BY <2>6, <2>7 DEF result, all
<1>4. CASE k > Last + 1
  <2>1. result.end = "Overflow"
    <3>1. CASE st.end = "Overflow"
      BY <3>1 DEF Step
    <3>2. CASE st.end # "Overflow"
      <4>1. st.end = "reading" /\ st.shift >= Width
        BY <1>1, <1>4, <3>2 DEF SignedReads
      <4> QED
        BY <4>1, SignedBeyond DEF Step
    <3> QED
      BY <3>1, <3>2
  <2> HIDE DEF result, all
  <2>2. SignedReads(k, result, all) /\ SignedEnds(k, result, SignedAt(k, all, o))
    BY <1>4, <2>1 DEF SignedReads, SignedEnds
  <2> QED
    BY <2>2 DEF result, all
<1>5. k <= Last \/ k = Last + 1 \/ k > Last + 1
  BY <1>1
<1> QED
  BY <1>2, <1>3, <1>4, <1>5

LEMMA SignedLoop ==
  ASSUME NEW s \in Seq(Octet), NEW n \in 0..Len(s), NEW m \in 0..n,
         \A k \in 1..m : Continues(s[k]),
         NEW after \in Course(s, TRUE), NEW sum \in Sums(s, n)
  PROVE  SignedReads(m, after[m], sum[m])
<1> DEFINE Q(k) == SignedReads(k, after[k], sum[k])
           P == [k \in 0..m |-> Q(k)]
<1>1. m \in Nat /\ Last \in Nat
  BY Sizes
<1>2. /\ after \in [0..Len(s) -> States] /\ after[0] = Begun
      /\ \A k \in 1..Len(s) : after[k] = Step(after[k - 1], s[k], TRUE)
  BY DEF Course
<1>3. /\ sum \in [0..n -> Nat] /\ sum[0] = 0
      /\ \A k \in 1..n : sum[k] = Added(k, sum[k - 1], s[k])
  BY DEF Sums
<1>4. \A k \in 0..m : P[k] <=> Q(k)
  <2> HIDE DEF Q
  <2> QED
    OBVIOUS
<1>5. Q(0)
  <2>1. Begun = Reading(0, 0, "reading")
    BY Sizes DEF Begun, Reading
  <2>2. Weight(0) = 1
    BY Room
  <2> QED
    BY <1>1, <1>2, <1>3, <2>1, <2>2 DEF SignedReads
<1>6. ASSUME NEW k \in 1..m, Q(k - 1)
      PROVE  Q(k)
  <2>1. /\ k \in Nat \ {0} /\ k \in 1..Len(s) /\ s[k] \in Octet /\ sum[k - 1] \in Nat
        /\ after[k - 1] \in States /\ Continues(s[k])
    <3>1. k \in 1..Len(s) /\ k - 1 \in 0..Len(s) /\ k - 1 \in 0..n /\ k \in 1..n
      OBVIOUS
    <3>2. sum[k - 1] \in Nat /\ after[k - 1] \in States
      BY <1>2, <1>3, <3>1
    <3> QED
      BY <3>1, <3>2
  <2>2. SignedReads(k, Step(after[k - 1], s[k], TRUE), Added(k, sum[k - 1], s[k]))
    BY <1>6, <2>1, SignedGoesOn
  <2>3. after[k] = Step(after[k - 1], s[k], TRUE) /\ sum[k] = Added(k, sum[k - 1], s[k])
    <3>1. k \in 1..n
      OBVIOUS
    <3> QED
      BY <1>2, <1>3, <2>1, <3>1
  <2> QED
    BY <2>2, <2>3
<1>7. P[0] /\ P \in [0..m -> BOOLEAN]
  <2>1. 0 \in 0..m
    BY <1>1
  <2>2. P \in [0..m -> BOOLEAN]
    BY DEF Q, SignedReads
  <2> HIDE DEF Q
  <2> QED
    BY <1>4, <1>5, <2>1, <2>2
<1> HIDE DEF P, Q
<1>8. ASSUME NEW k \in 1..m, P[k - 1]
      PROVE  P[k]
  <2>1. k - 1 \in 0..m /\ k \in 0..m
    OBVIOUS
  <2> QED
    BY <1>4, <1>6, <1>8, <2>1
<1>9. \A k \in 0..m : P[k]
  BY <1>1, <1>7, <1>8, Stepwise
<1>10. Q(m)
  BY <1>1, <1>4, <1>9
<1> QED
  BY <1>10 DEF Q

LEMMA SignedRead ==
  ASSUME NEW s \in Seq(Octet)
  PROVE  ReadsSigned(s)
<1> DEFINE n == Terminal(s)
           L == Len(s)
           m == IF n = 0 THEN L ELSE n
<1>1. PICK after \in Course(s, TRUE) :
        Loop(s, TRUE) = IF after[L].end = "reading"
                        THEN [after[L] EXCEPT !.end = "Eof"] ELSE after[L]
  BY LoopSteps
<1>2. L \in Nat /\ n \in 0..L /\ m \in 0..L
  BY TerminalIs
<1>3. PICK sum \in Sums(s, m) : Denotes(s, m) = sum[m]
  BY <1>2, DenotesSteps
<1>4. \A k \in 1..L : k < n \/ n = 0 => Continues(s[k])
  BY TerminalIs
<1>5. Last \in Nat \ {0} /\ MaxOctets = Last + 1 /\ Width \in Nat
  BY Sizes
<1>6. /\ after \in [0..L -> States]
      /\ \A k \in 1..L : after[k] = Step(after[k - 1], s[k], TRUE)
      /\ sum \in [0..m -> Nat] /\ \A k \in 1..m : sum[k] = Added(k, sum[k - 1], s[k])
  BY DEF Course, Sums
<1>7. Sleb(s) = Loop(s, TRUE)
  BY DEF Sleb
<1>8. CASE n = 0
  <2>1. m = L /\ \A k \in 1..L : Continues(s[k])
    BY <1>4, <1>8
  <2>2. SignedReads(L, after[L], sum[L])
    <3>1. L \in 0..Len(s) /\ sum \in Sums(s, L) /\ L \in 0..L
      BY <1>2, <2>1
    <3> QED
      BY <2>1, <3>1, SignedLoop
  <2>3. after[L] \in States
    BY <1>2, <1>6
  <2>4. after[L].end \in {"reading", "Overflow"}
    BY <2>2 DEF SignedReads, Reading
  <2>5. Sleb(s).end # "done"
    <3>1. CASE after[L].end = "reading"
      BY <1>1, <1>7, <2>3, <3>1 DEF States
    <3>2. CASE after[L].end = "Overflow"
      BY <1>1, <1>7, <3>2
    <3> QED
      BY <2>4, <3>1, <3>2
  <2>6. ~(n \in 1..MaxOctets)
    BY <1>8
  <2> QED
    BY <2>5, <2>6 DEF ReadsSigned
<1>9. CASE n # 0
  <2>1. m = n /\ n \in 1..L /\ n \in Nat \ {0}
    BY <1>2, <1>9
  <2>2. ~Continues(s[n])
    BY <1>9, TerminalIs
  <2> HIDE DEF n, L, m
  <2>3. SignedReads(n - 1, after[n - 1], sum[n - 1])
    <3>1. n \in 0..Len(s) /\ n - 1 \in 0..n /\ sum \in Sums(s, n)
      BY <2>1 DEF L
    <3>2. \A k \in 1..(n - 1) : Continues(s[k])
      <4>1. \A k \in 1..(n - 1) : k \in 1..L /\ k < n
        BY <1>2, <2>1
      <4> QED
        BY <1>4, <4>1
    <3> QED
      BY <3>1, <3>2, SignedLoop
  <2>4. s[n] \in Octet /\ after[n - 1] \in States /\ sum[n - 1] \in Nat
    <3>1. n - 1 \in 0..L /\ n - 1 \in 0..m
      BY <1>2, <2>1
    <3>2. s[n] \in Octet
      BY <2>1 DEF L
    <3> QED
      BY <1>6, <3>1, <3>2
  <2>5. SignedEnds(n, Step(after[n - 1], s[n], TRUE),
                   SignedAt(n, Added(n, sum[n - 1], s[n]), s[n]))
    BY <2>1, <2>2, <2>3, <2>4, SignedGoesOn
  <2> DEFINE d == DenotesSigned(s, n)
  <2>6. d = SignedAt(n, sum[n], s[n])
    <3>1. Denotes(s, n) = sum[n]
      BY <1>3, <2>1
    <3> QED
      BY <3>1 DEF DenotesSigned, SignedAt, Weight
  <2>7. SignedEnds(n, after[n], d)
    BY <1>6, <2>1, <2>5, <2>6
  <2> HIDE DEF d
  <2>8. after[n].end # "reading"
    BY <2>7 DEF SignedEnds
  <2>9. after[L] = after[n]
    <3>1. n \in 0..Len(s)
      BY <2>1 DEF L
    <3> QED
      BY <2>8, <3>1, EndedStays DEF L
  <2>10. Sleb(s) = after[n]
    BY <1>1, <1>7, <2>8, <2>9
  <2>11. CASE n <= Last + 1 /\ after[n].end = "done"
    <3>1. /\ Sleb(s).end = "done" /\ Sleb(s).read = n /\ Sleb(s).value \in SignedRange
          /\ (Sleb(s).value - d) % (2 ^ Width) = 0
      BY <2>7, <2>10, <2>11 DEF SignedEnds
    <3>2. d \in SignedRange => Sleb(s).value = d
      BY <3>1, SignedApart
    <3> QED
      BY <3>1, <3>2 DEF ReadsSigned, n, d
  <2>12. CASE n > Last + 1 /\ after[n].end = "Overflow"
    <3>1. ~(n \in 1..MaxOctets) /\ Sleb(s).end # "done"
      BY <1>5, <2>1, <2>10, <2>12
    <3> QED
      BY <3>1 DEF ReadsSigned, n
  <2> QED
    BY <2>7, <2>11, <2>12 DEF SignedEnds
<1> QED
  BY <1>8, <1>9

-----------------------------------------------------------------------------
(* Of what the decoder is given, every suffix is decoded so.               *)

LEMMA SuffixesAre ==
  ASSUME octets \in Seq(Octet)
  PROVE  Suffixes \subseteq Seq(Octet)
<1>1. ASSUME NEW i \in 1..(Len(octets) + 1)
      PROVE  SubSeq(octets, i, Len(octets)) \in Seq(Octet)
  OBVIOUS
<1> QED
  BY <1>1 DEF Suffixes

(***************************************************************************)
(* uleb reads exactly the values that fit, up to the last bit of the       *)
(* width, and refuses all others: for every width with one bit more than   *)
(* whole groups, and any octets (table.rs:344-371).                        *)
(***************************************************************************)
THEOREM UnsignedIsExact == [](octets \in Seq(Octet)) => []UnsignedExact
<1>1. octets \in Seq(Octet) => UnsignedExact
  BY SuffixesAre, UnsignedRead DEF UnsignedExact
<1> QED
  BY <1>1, PTL

(***************************************************************************)
(* sleb reads every value of the range exactly, however many octets encode *)
(* it; what it reads of another wraps (table.rs:374-404).                  *)
(***************************************************************************)
THEOREM SignedIsExact == [](octets \in Seq(Octet)) => []SignedExact
<1>1. octets \in Seq(Octet) => SignedExact
  BY SuffixesAre, SignedRead DEF SignedExact
<1> QED
  BY <1>1, PTL

-----------------------------------------------------------------------------
(* The scan of a call-site table finds what the table says, for every      *)
(* table, function and instruction.                                        *)

\* What the scan has learnt of the entries before the index, and why it left.
Scanned ==
  /\ \A i \in 1..(index - 1) :
       ~table[i].bad /\ End(table[i]) <= MaxAddress
       /\ Pc >= table[i].start /\ ~Contains(table[i])
  /\ answer = "site" => index <= Len(table) /\ Contains(table[index])
  /\ answer = "none" =>
       index > Len(table) \/ (~table[index].bad /\ Pc < table[index].start)
  /\ answer = "Table" =>
       SiteAddress(stop) < Base \/ (index <= Len(table) /\ table[index].bad)
  /\ answer = "Overflow" =>
       /\ index <= Len(table)
       /\ ~table[index].bad /\ End(table[index]) > MaxAddress

ScanInv == ScanTypeOK /\ Scanned

\* ScanNumbers are numbers.
LEMMA ScanNumbers ==
  ASSUME ScanTypeOK
  PROVE  /\ table \in Seq(Entry) /\ Len(table) \in Nat /\ index \in Nat \ {0}
         /\ Pc \in Int /\ Base \in Nat /\ MaxAddress \in Nat
         /\ stop.first \in Nat /\ stop.after \in Nat /\ stop.first < stop.after
         /\ \A i \in 1..Len(table) :
              /\ table[i].start \in Nat /\ table[i].size \in Nat
              /\ table[i].bad \in BOOLEAN /\ End(table[i]) \in Nat
<1>1. table \in Seq(Entry) /\ stop \in Stop /\ stop.first < stop.after
  BY TablesAssumption, StopsAssumption DEF ScanTypeOK
<1>2. Len(table) \in Nat /\ index \in Nat \ {0}
  BY <1>1 DEF ScanTypeOK
<1>3. Base \in Nat /\ MaxAddress \in Nat
  BY BaseAssumption DEF Address
<1>4. stop.first \in Nat /\ stop.after \in Nat
  BY <1>1, <1>3 DEF Stop, Address
<1>5. Pc \in Int
  BY <1>3, <1>4 DEF Pc, SiteAddress, Reported
<1>6. ASSUME NEW i \in 1..Len(table)
      PROVE  /\ table[i].start \in Nat /\ table[i].size \in Nat
             /\ table[i].bad \in BOOLEAN /\ End(table[i]) \in Nat
  <2>1. table[i] \in Entry
    BY <1>1
  <2>2. table[i].start \in Nat /\ table[i].size \in Nat /\ table[i].bad \in BOOLEAN
    BY <2>1, <1>3 DEF Entry, Address
  <2> QED
    BY <2>2 DEF End
<1> QED
  BY <1>1, <1>2, <1>3, <1>4, <1>5, <1>6

\* The scan starts at the first entry, unless the counter precedes the function.
LEMMA ScanInvInit == ScanInit => ScanInv
<1> SUFFICES ASSUME ScanInit PROVE ScanInv
  OBVIOUS
<1>1. table \in Seq(Entry) /\ stop \in Stop
  BY TablesAssumption, StopsAssumption DEF ScanInit
<1>2. Len(table) \in Nat
  BY <1>1
<1>3. ScanTypeOK
  BY <1>2 DEF ScanInit, ScanTypeOK
<1>4. 1..(index - 1) = {}
  BY DEF ScanInit
<1> QED
  BY <1>3, <1>4 DEF ScanInit, ScanInv, Scanned

\* A step adds one entry to those passed over, or says why it leaves.
LEMMA ScanInvNext == ScanInv /\ [ScanNext]_scanVars => ScanInv'
<1> SUFFICES ASSUME ScanInv, [ScanNext]_scanVars PROVE ScanInv'
  OBVIOUS
<1>1. /\ Len(table) \in Nat /\ index \in Nat /\ Pc \in Int
      /\ \A i \in 1..Len(table) : table[i].start \in Nat
    BY ScanNumbers DEF ScanInv
<1>2. ASSUME NEW result, Finish(result),
             result \in {"site", "none", "Table", "Overflow"},
             result = "site" => index <= Len(table) /\ Contains(table[index]),
             result = "none" =>
               index > Len(table) \/ (~table[index].bad /\ Pc < table[index].start),
             result = "Table" => index <= Len(table) /\ table[index].bad,
             result = "Overflow" =>
               /\ index <= Len(table)
               /\ ~table[index].bad /\ End(table[index]) > MaxAddress
      PROVE  ScanInv'
  <2>1. table' = table /\ stop' = stop /\ index' = index /\ answer' = result
    BY <1>2 DEF Finish
  <2>2. Pc' = Pc /\ SiteAddress(stop)' = SiteAddress(stop)
    BY <2>1 DEF Pc, SiteAddress, Reported
  <2>3. ScanTypeOK'
    BY <1>2, <2>1 DEF ScanInv, ScanTypeOK
  <2>4. Scanned'
    BY <1>2, <2>1, <2>2 DEF ScanInv, Scanned, Contains, End
  <2> QED
    BY <2>3, <2>4 DEF ScanInv
<1>3. CASE Found
  BY <1>2, <1>3 DEF Found, Reads
<1>4. CASE Passed
  BY <1>2, <1>4 DEF Passed, Reads
<1>5. CASE Skip
  <2>1. /\ table' = table /\ stop' = stop /\ index' = index + 1
        /\ answer' = answer /\ answer = "scan" /\ index <= Len(table)
    BY <1>5 DEF Skip, Reads
  <2>2. Pc' = Pc
    BY <2>1 DEF Pc, SiteAddress, Reported
  <2>3. ScanTypeOK'
    BY <1>1, <2>1 DEF ScanInv, ScanTypeOK
  <2>4. /\ ~table[index].bad /\ End(table[index]) <= MaxAddress
        /\ Pc >= table[index].start /\ ~Contains(table[index])
    BY <1>5 DEF Skip, Reads
  <2>5. ASSUME NEW i \in 1..index
        PROVE  ~table[i].bad /\ End(table[i]) <= MaxAddress
               /\ Pc >= table[i].start /\ ~Contains(table[i])
    <3>1. i = index \/ i \in 1..(index - 1)
      BY <1>1
    <3> QED
      BY <2>4, <3>1 DEF ScanInv, Scanned
  <2>6. index' - 1 = index
    BY <1>1, <2>1
  <2>7. Scanned'
    BY <2>1, <2>2, <2>5, <2>6 DEF Scanned, Contains, End
  <2> QED
    BY <2>3, <2>7 DEF ScanInv
<1>6. CASE Broken
  BY <1>2, <1>6 DEF Broken
<1>7. CASE Overflows
  BY <1>2, <1>7 DEF Overflows
<1>8. CASE RunsOut
  BY <1>2, <1>8 DEF RunsOut
<1>9. CASE Returned \/ UNCHANGED scanVars
  <2>1. UNCHANGED scanVars
    BY <1>9 DEF Returned
  <2> QED
    BY <2>1 DEF ScanInv, ScanTypeOK, Scanned, Contains, End, Pc, SiteAddress, Reported, scanVars
<1> QED
  BY <1>3, <1>4, <1>5, <1>6, <1>7, <1>8, <1>9 DEF ScanNext

THEOREM ScanHolds == ScanSpec => []ScanInv
<1> QED
  BY ScanInvInit, ScanInvNext, PTL DEF ScanSpec

\* The Sites iterator stays within its table (table.rs:214-226, 737-765).
THEOREM ScanTypeCorrect == ScanSpec => []ScanTypeOK
<1>1. ScanInv => ScanTypeOK
  BY DEF ScanInv
<1> QED
  BY <1>1, ScanHolds, PTL

(***************************************************************************)
(* Leaving an ascending table early hides no entry that covers the counter *)
(* (table.rs:683-697).                                                     *)
(***************************************************************************)
THEOREM EarlyExitHidesNothing == ScanSpec => []NoneIsUncovered
<1>1. ScanInv => NoneIsUncovered
  <2> SUFFICES ASSUME ScanInv, answer = "none", Ascending(table),
                      NEW i \in DOMAIN table, ~table[i].bad, Contains(table[i])
               PROVE  FALSE
    BY DEF NoneIsUncovered
  <2>1. /\ table \in Seq(Entry) /\ Len(table) \in Nat /\ index \in Nat \ {0}
        /\ Pc \in Int
        /\ \A j \in 1..Len(table) : table[j].start \in Nat
    BY ScanNumbers DEF ScanInv
  <2>2. i \in 1..Len(table) /\ i \notin 1..(index - 1)
    BY <2>1 DEF ScanInv, Scanned
  <2>3. index <= i /\ index \in 1..Len(table)
    BY <2>1, <2>2
  <2>4. ~table[index].bad /\ Pc < table[index].start
    BY <2>1, <2>3 DEF ScanInv, Scanned
  <2>5. table[index].start <= table[i].start
    BY <2>1, <2>2, <2>3, <2>4 DEF Ascending
  <2> QED
    BY <2>1, <2>2, <2>3, <2>4, <2>5 DEF Contains
<1> QED
  BY <1>1, ScanHolds, PTL

(***************************************************************************)
(* A call is found in the range its instruction lies in, an interrupted    *)
(* instruction as well (context.rs:82-94, table.rs:683-697).               *)
(***************************************************************************)
THEOREM CallsAreFound == ScanSpec => []FindsTheCall
<1>1. ScanInv => FindsTheCall
  <2> SUFFICES ASSUME ScanInv, answer # "scan", Disjoint(table),
                      NEW i \in DOMAIN table, Holds(table[i], stop)
               PROVE  answer = "site" /\ index = i
    BY DEF FindsTheCall
  <2>1. /\ table \in Seq(Entry) /\ Len(table) \in Nat /\ index \in Nat \ {0}
        /\ Pc \in Int /\ Base \in Nat /\ MaxAddress \in Nat
        /\ stop.first \in Nat /\ stop.after \in Nat /\ stop.first < stop.after
        /\ \A j \in 1..Len(table) :
             table[j].start \in Nat /\ table[j].size \in Nat /\ End(table[j]) \in Nat
    BY ScanNumbers DEF ScanInv
  <2>2. i \in 1..Len(table) /\ index \in Int
    BY <2>1
  <2>3. /\ ~table[i].bad /\ End(table[i]) <= MaxAddress
        /\ Base + table[i].start <= stop.first
        /\ stop.after <= Base + End(table[i])
    BY DEF Holds
  <2>4. /\ SiteAddress(stop) \in Int
        /\ stop.first <= SiteAddress(stop) /\ SiteAddress(stop) < stop.after
    BY <2>1 DEF SiteAddress, Reported
  <2>5. table[i].start <= Pc /\ Pc < End(table[i]) /\ SiteAddress(stop) >= Base
    BY <2>1, <2>2, <2>3, <2>4 DEF Pc
  <2>6. Contains(table[i]) /\ index <= i
    BY <2>1, <2>2, <2>5 DEF Contains, ScanInv, Scanned
  <2>7. index \in DOMAIN table /\ index \in 1..Len(table)
    BY <2>1, <2>2, <2>6
  <2>8. CASE index = i
    <3>1. answer # "none"
      BY <2>1, <2>2, <2>5, <2>8 DEF ScanInv, Scanned
    <3>2. answer # "Table"
      BY <2>1, <2>3, <2>4, <2>5, <2>8 DEF ScanInv, Scanned
    <3>3. answer # "Overflow"
      BY <2>1, <2>2, <2>3, <2>8 DEF ScanInv, Scanned
    <3> QED
      BY <2>8, <3>1, <3>2, <3>3 DEF ScanInv, ScanTypeOK
  <2>9. CASE index < i
    <3>1. ~table[index].bad
      BY <2>1, <2>2, <2>7, <2>9, TablesAssumption DEF ScanInv, ScanTypeOK
    <3>2. End(table[index]) <= table[i].start
      BY <2>3, <2>7, <2>9, <3>1 DEF Disjoint
    <3>3. table[index].start <= End(table[index])
      BY <2>1, <2>7 DEF End
    <3>4. answer # "none"
      BY <2>1, <2>2, <2>5, <2>7, <3>2, <3>3 DEF ScanInv, Scanned
    <3>5. answer # "Table"
      BY <2>1, <2>4, <2>5, <3>1 DEF ScanInv, Scanned
    <3>6. answer # "Overflow"
      <4>1. table[i].start <= End(table[i])
        BY <2>1, <2>2 DEF End
      <4> QED
        BY <2>1, <2>2, <2>3, <2>7, <3>2, <4>1 DEF ScanInv, Scanned
    <3>7. answer # "site"
      BY <2>1, <2>2, <2>5, <2>7, <3>2 DEF ScanInv, Scanned, Contains
    <3> QED
      BY <3>4, <3>5, <3>6, <3>7 DEF ScanInv, ScanTypeOK
  <2> QED
    BY <2>1, <2>2, <2>6, <2>8, <2>9
<1> QED
  BY <1>1, ScanHolds, PTL
=============================================================================
