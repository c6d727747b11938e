------------------------------ MODULE MCFrame ------------------------------
(* Functions with every kind of rule over two preserved and two volatile   *)
(* registers, on a stack of a few frames.                                  *)
EXTENDS Rows

Reg(q, n) == [op |-> "reg", of |-> q, n |-> n]
Name(q) == [op |-> "name", of |-> q, n |-> 0]
CfaOp == [op |-> "cfa", of |-> "rsp", n |-> 0]
Plus(n) == [op |-> "plus", of |-> "rsp", n |-> n]
Deref == [op |-> "deref", of |-> "rsp", n |-> 0]

At(ops) == [kind |-> "Expr", of |-> "rsp", n |-> 0, ops |-> ops]
Value(ops) == [kind |-> "ValExpr", of |-> "rsp", n |-> 0, ops |-> ops]

\* A function without a frame: only the return address is on the stack.
Plain ==
  [size |-> 1, gap |-> 0, saves |-> [r \in Registers |-> IF r = "ra" THEN 0 ELSE Nowhere],
   points |-> Nowhere, moves |-> {}, gives |-> {}, signal |-> FALSE,
   cfa |-> Is("Register", "rsp", 1),
   rule |-> [r \in Registers |-> IF r = "ra" THEN Is("Offset", r, 1) ELSE Is("absent", r, 0)]]

With(l, r, rule) == [l EXCEPT !.rule = [@ EXCEPT ![r] = rule]]
Saving(l, places) == [l EXCEPT !.saves = [r \in Registers |->
                        IF r \in DOMAIN places THEN places[r] ELSE Nowhere]]

\* rbx on the stack, rbp said to be kept.
Saves == [With(With(Saving(Plain, [ra |-> 1, rbx |-> 0]), "rbx", Is("Offset", "rbx", 2)),
               "rbp", Is("SameValue", "rbp", 0))
            EXCEPT !.size = 2, !.cfa = Is("Register", "rsp", 2)]

\* A frame pointer.
Pointer == [With(Saving(Plain, [ra |-> 2, rbp |-> 1]), "rbp", Is("Offset", "rbp", 2))
              EXCEPT !.size = 3, !.points = 1, !.cfa = Is("Register", "rbp", 2)]

\* rbx moved to rbp, which is on the stack; the stack pointer spelt out.
Moves == [With(With(With(Saving(Plain, [ra |-> 1, rbp |-> 0]), "rbp", Is("Offset", "rbp", 2)),
                    "rbx", Is("Register", "rbp", 0)),
               "rsp", Is("ValOffset", "rsp", 0))
            EXCEPT !.size = 2, !.moves = {<<"rbx", "rbp">>}, !.cfa = Is("Register", "rsp", 2)]

\* The stack pointer realigned: the distance to the CFA is not in the row, the
\* CFA itself is stored below the saved frame pointer, the return address
\* above the padding.  rbx is counted from the CFA.
Realigned == [With(With(With(Saving(Plain, [ra |-> 3, rbp |-> 1, rsp |-> 0]),
                             "rbp", At(<<Reg("rbp", 0)>>)),
                        "rsp", Value(<<CfaOp>>)),
                   "ra", At(<<CfaOp, Plus(-1)>>))
                EXCEPT !.size = 3, !.gap = 1, !.points = 1,
                       !.cfa = Value(<<Reg("rbp", -1), Deref>>)]

\* A function that never returns gives rbx up; rbp is named by an expression.
Gives == [With(With(Plain, "rbx", Is("Undefined", "rbx", 0)), "rbp", Value(<<Name("rbp")>>))
            EXCEPT !.gives = {"rbx"}]

Place == [ra |-> 0, rsp |-> 1, rax |-> 2, rbx |-> 3, rbp |-> 4, rcx |-> 5]

\* A signal's trampoline: everything stored on the stack, two words below the
\* interrupted stack pointer.  One finds its CFA there, one has a rule for rsp.
Stored == [Saving(Plain, Place) EXCEPT
             !.size = 6, !.gap = 2, !.signal = TRUE,
             !.cfa = Value(<<Reg("rsp", 1), Deref>>),
             !.rule = [r \in Registers |-> At(<<Reg("rsp", Place[r])>>)]]
Counted == [Stored EXCEPT !.cfa = Is("Register", "rsp", 6)]

AllLayouts == {Plain, Saves, Pointer, Moves, Realigned, Gives, Stored, Counted}

\* What functions leave in registers tells them apart.
NewValues ==
  [i \in 1..MaxFrames |->
     {[rax |-> 10 * i + 1, rbx |-> 10 * i + 3, rbp |-> 10 * i + 5, rcx |-> 10 * i]}]
=============================================================================
