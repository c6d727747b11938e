-------------------------------- MODULE Rows --------------------------------
(***************************************************************************)
(* What the row of an unwind table means, whatever the values are: each    *)
(* register of a function and of its caller is a place in the function's   *)
(* frame, a register of its caller, or unknown, plus a number.  A row      *)
(* describes its function if what it says of the caller's registers is     *)
(* what the function did with them.  That is the assembler's promise, and  *)
(* the only thing the theorems about Frame assume of rows.                 *)
(***************************************************************************)
EXTENDS Frame

\* A place counted from the frame's lowest word, or a register of the caller.
Meaning(base, n) == [base |-> base, n |-> n]
InFrame(n) == Meaning("home", n)
Any == Meaning("any", 0)

Beyond(meaning, n) == Meaning(meaning.base, meaning.n + n)

\* The caller's stack pointer is where the frame ends.
CallersOwn(l, r) == IF r = "rsp" THEN InFrame(l.size + l.gap) ELSE Meaning(r, 0)

\* What the function has in its register q under a call, or in a signal.
Own(l, q) ==
  IF q = "rsp" THEN (IF l.signal THEN InFrame(0) ELSE Any)
  ELSE IF q \notin Preserved THEN Any
  ELSE IF q = "rbp" /\ l.points # Nowhere THEN InFrame(l.points)
  ELSE IF KeptIn(l, q) # {} THEN CallersOwn(l, CHOOSE p \in KeptIn(l, q) : TRUE)
  ELSE IF Spares(l, q) THEN CallersOwn(l, q)
  ELSE Any

\* What it has in the word a meaning points to.
Word(l, meaning) ==
  IF meaning.base = "home" /\ SavedAt(l, meaning.n, 0) # {}
  THEN CallersOwn(l, CHOOSE r \in SavedAt(l, meaning.n, 0) : TRUE)
  ELSE Any

\* DWARF expressions.
Denotes(l, cfa, top, operation) ==
  CASE operation.op \in {"reg", "name"} -> Beyond(Own(l, operation.of), operation.n)
    [] operation.op = "cfa" -> cfa
    [] operation.op = "plus" -> Beyond(top, operation.n)
    [] operation.op = "deref" -> Word(l, top)

Denoted(l, ops, cfa) ==
  LET top[k \in 0..Len(ops)] ==
        IF k = 0 THEN Any ELSE Denotes(l, cfa, top[k - 1], ops[k])
  IN  top[Len(ops)]

CfaMeans(l) ==
  IF l.cfa.kind = "ValExpr" THEN Denoted(l, l.cfa.ops, Any)
  ELSE IF l.cfa.of = "rsp" THEN InFrame(l.cfa.n)
  ELSE Beyond(Own(l, l.cfa.of), l.cfa.n)

\* What the row says of the caller's register r.
Says(l, r) ==
  LET rule == l.rule[r]
  IN  CASE rule.kind = "absent" -> IF r = "rsp" THEN CfaMeans(l) ELSE Own(l, r)
        [] rule.kind \in {"SameValue", "Register"} -> Own(l, rule.of)
        [] rule.kind = "Offset" -> Word(l, Beyond(CfaMeans(l), -rule.n))
        [] rule.kind = "ValOffset" -> Beyond(CfaMeans(l), -rule.n)
        [] rule.kind = "Expr" -> Word(l, Denoted(l, rule.ops, CfaMeans(l)))
        [] rule.kind = "ValExpr" -> Denoted(l, rule.ops, CfaMeans(l))
        [] rule.kind \in {"Undefined", "Constant", "Architectural"} -> Any

\* Registers of the caller that mean something: a signal spares none.
Claimed(l) == IF l.signal THEN Registers ELSE Registers \ Volatile

\* It saves registers in its own frame; there is a way back; a register that
\* is said to be undefined was given up; and of the others the row is right.
Describes(l) ==
  /\ \A r \in Registers : l.saves[r] < l.size + l.gap
  /\ l.rule["ra"].kind \notin {"absent", "Undefined"}
  /\ \A r \in Preserved : l.rule[r].kind = "Undefined" => r \in l.gives
  /\ \A r \in Claimed(l) : l.rule[r].kind \notin {"Undefined", "Architectural"} =>
       Says(l, r) = CallersOwn(l, r)

ASSUME RowsAssumption ==
  /\ {"home", "any"} \cap Registers = {}
  /\ \A l \in Layouts : Describes(l)
=============================================================================
