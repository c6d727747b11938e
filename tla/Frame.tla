------------------------------- MODULE Frame -------------------------------
(***************************************************************************)
(* Registers of suspended frames (desenredo-unwind: source.rs, state.rs,   *)
(* cursor.rs).  A program builds a stack: each function saves registers of *)
(* its caller and overwrites them, a signal saves all of them.  The        *)
(* unwinder has the registers preserved across its own call, a table row   *)
(* for each frame, and the stack; from these it reconstructs the registers *)
(* of frame after frame, and may continue the program in one of them.      *)
(***************************************************************************)
EXTENDS Integers, Sequences

CONSTANTS
  Preserved,   \* general registers a call preserves, the frame pointer too
  Volatile,    \* general registers it does not
  Data,        \* the two among them that carry data to landing pads
  Top,         \* bound: the stack is words 0 to Top
  MaxFrames,   \* bound: suspended frames
  Layouts,     \* what functions do with their caller's registers
  Pushes,      \* words of arguments a frame may push before a call
  Clobbers,    \* Clobbers[i]: what the i-th function leaves in registers
  Unknown      \* an unavailable register

General == Preserved \cup Volatile
Registers == General \cup {"rsp", "ra"}

\* An operation of a CFI expression.  "reg": the register's value plus n;
\* "name": the register itself is the result; "cfa", "plus" n and "deref" push
\* the CFA, add to the topmost value, and replace it by the word it points to.
Operation == [op : {"reg", "name", "cfa", "plus", "deref"}, of : Registers, n : Int]

\* A rule says where the caller's register is: Offset n, n words below the
\* frame's CFA; ValOffset n, this address itself; Register q, in q; Expr, at
\* the address its operations yield; ValExpr, this value itself.  "absent" is
\* the default.  A CFA has a rule as well: Register q plus n, or ValExpr.
Rule == [kind : {"absent", "Undefined", "SameValue", "Offset", "ValOffset",
                 "Register", "Expr", "ValExpr", "Constant", "Architectural"},
         of : Registers, n : Nat, ops : Seq(Operation)]

Nowhere == -1

(***************************************************************************)
(* A function (or the trampoline of a signal).  What it does: its words on *)
(* the stack, the words left out above them (a signal spares the red zone, *)
(* an aligned frame pads), how far above its stack pointer it saves its    *)
(* caller's registers and, with a frame pointer, points rbp, the registers *)
(* it keeps in others, and those it gives up.  And what its row says: the  *)
(* rules of its CFA and of its caller's registers.                         *)
(***************************************************************************)
Layout == [size : Nat, gap : Nat, saves : [Registers -> Nat \cup {Nowhere}],
           points : Nat \cup {Nowhere}, moves : SUBSET (General \X General),
           gives : SUBSET Preserved, signal : BOOLEAN,
           cfa : Rule, rule : [Registers -> Rule]]

ASSUME RegisterAssumption ==
  /\ "rbp" \in Preserved /\ "rsp" \notin General /\ "ra" \notin General
  /\ Preserved \cap Volatile = {} /\ Data \subseteq Volatile
  /\ Unknown \notin Int

ASSUME LayoutAssumption ==
  /\ Layouts \subseteq Layout
  /\ Clobbers \in [1..MaxFrames -> SUBSET [General -> Nat]]
  /\ Pushes \subseteq Nat /\ Top \in Nat /\ MaxFrames \in Nat \ {0}

Words == 0..Top

VARIABLES
  regs,     \* the registers; "ra" holds the number of the running frame
  mem,      \* the stack
  frames,   \* the functions, oldest first; the last one runs.  A frame
            \* under a call keeps its registers as the call found them
  mode,     \* "run", or "walk" while the unwinder does
  state,    \* the cursor's registers, each known or not
  cursor    \* history, read by no action: the frame the cursor should name

vars == <<regs, mem, frames, mode, state, cursor>>

Running == frames[Len(frames)]

Is(kind, of, n) == [kind |-> kind, of |-> of, n |-> n, ops |-> <<>>]

\* The oldest function has no caller; its row says so, or is silent.
Root(kind) ==
  [size |-> 1, gap |-> 0, saves |-> [r \in Registers |-> Nowhere], points |-> Nowhere,
   moves |-> {}, gives |-> {}, signal |-> FALSE, cfa |-> Is("Register", "rsp", 1),
   rule |-> [r \in Registers |-> Is(IF r = "ra" THEN kind ELSE "absent", r, 0)]]

Roots == {Root("Undefined"), Root("absent")}

Init ==
  /\ \E new \in Clobbers[1] :
       regs = [r \in Registers |->
                 IF r = "ra" THEN 1 ELSE IF r = "rsp" THEN Top - 1 ELSE new[r]]
  /\ mem = [a \in Words |-> 0]
  /\ \E root \in Roots :
       frames = <<[layout |-> root, home |-> Top - 1, pushed |-> 0, regs |-> regs]>>
  /\ mode = "run" /\ cursor = 0
  /\ state = [r \in Registers |-> Unknown]

-----------------------------------------------------------------------------
(* The program.                                                            *)

\* The registers at a call that n words of arguments are pushed for.
AtCall(n) == [regs EXCEPT !["rsp"] = regs["rsp"] - n]

Suspend(n) == [frames EXCEPT ![Len(frames)] =
                 [@ EXCEPT !.pushed = n, !.regs = AtCall(n)]]

\* The caller's registers layout l saves in word a, its stack pointer being sp.
SavedAt(l, a, sp) == {r \in Registers : l.saves[r] # Nowhere /\ sp + l.saves[r] = a}

\* The registers it keeps in r.
KeptIn(l, r) == {q \in General : <<q, r>> \in l.moves}

\* It leaves r alone, as a preserved register it has no use for.
Spares(l, r) ==
  /\ r \in Preserved \ l.gives
  /\ l.saves[r] = Nowhere /\ \A q \in General : <<r, q>> \notin l.moves

\* What a prologue leaves on the stack and in the registers, the caller's being
\* at.
Spilled(l, at, sp) ==
  [a \in Words |->
     IF SavedAt(l, a, sp) # {} THEN at[CHOOSE r \in SavedAt(l, a, sp) : TRUE] ELSE mem[a]]

Entered(l, at, sp, new) ==
  [r \in Registers |->
     IF r = "rsp" THEN sp
     ELSE IF r = "ra" THEN at["ra"] + 1
     ELSE IF r = "rbp" /\ l.points # Nowhere THEN sp + l.points
     ELSE IF KeptIn(l, r) # {} THEN at[CHOOSE q \in KeptIn(l, r) : TRUE]
     ELSE IF Spares(l, r) THEN at[r] ELSE new[r]]

\* A function with layout l starts, from a call with n words pushed.
Start(l, n) ==
  \E new \in Clobbers[Len(frames) + 1] :
  LET at == AtCall(n)
      sp == at["rsp"] - l.gap - l.size
  IN  /\ sp >= 0
      /\ mem' = Spilled(l, at, sp)
      /\ regs' = Entered(l, at, sp, new)
      /\ frames' = Append(Suspend(n), [layout |-> l, home |-> sp, pushed |-> 0, regs |-> regs'])
      /\ UNCHANGED <<mode, state, cursor>>

\* A function is called; the handler of a signal is called by its trampoline.
Call(l, n) ==
  /\ mode = "run" /\ Len(frames) < MaxFrames /\ ~l.signal
  /\ Running.layout.signal => n = 0
  /\ Start(l, n)

\* A signal arrives.
Signal(l) ==
  /\ mode = "run" /\ Len(frames) + 1 < MaxFrames /\ l.signal
  /\ ~Running.layout.signal
  /\ Start(l, 0)

\* The running function calls into the unwinder: State::captured.
Raise(n) ==
  /\ mode = "run" /\ ~Running.layout.signal
  /\ mode' = "walk"
  /\ frames' = Suspend(n)
  /\ state' = [r \in Registers |-> IF r \in Volatile THEN Unknown ELSE AtCall(n)[r]]
  /\ cursor' = Len(frames)
  /\ UNCHANGED <<regs, mem>>

-----------------------------------------------------------------------------
(* Info::caller.                                                           *)

\* The frame the cursor finds metadata for: that of its return address.
Named == frames[state["ra"]]
Row == Named.layout

\* Info::expr.  An operation needs what it reads to be known and on the stack.
\* None reaches below the value on top.
Does(cfa, top, operation) ==
  CASE operation.op \in {"reg", "name"} ->
         IF state[operation.of] = Unknown THEN Unknown
         ELSE state[operation.of] + operation.n
    [] operation.op = "cfa" -> cfa
    [] operation.op = "plus" -> IF top = Unknown THEN Unknown ELSE top + operation.n
    [] operation.op = "deref" -> IF top \in Words THEN mem[top] ELSE Unknown

\* What an expression yields, or Unknown: nothing is on top before its first
\* operation, and one that fails ends it.
Yields(ops, cfa) ==
  LET top[k \in 0..Len(ops)] ==
        IF k = 0 THEN Unknown ELSE Does(cfa, top[k - 1], ops[k])
  IN  IF \E k \in 1..Len(ops) : top[k] = Unknown THEN Unknown ELSE top[Len(ops)]

\* The frame's row at its call: pushed arguments move a CFA counted from rsp.
Pushed == IF Row.cfa.of = "rsp" THEN Named.pushed ELSE 0

Cfa == IF Row.cfa.kind = "ValExpr" THEN Yields(Row.cfa.ops, Unknown)
       ELSE IF state[Row.cfa.of] = Unknown THEN Unknown
       ELSE state[Row.cfa.of] + Row.cfa.n + Pushed

\* The address rule reads a word from.
Address(rule) == IF rule.kind = "Offset" THEN Cfa - rule.n ELSE Yields(rule.ops, Cfa)

\* Everything the row reads is known and on the stack.
Readable ==
  /\ Cfa # Unknown
  /\ \A r \in Registers :
       LET rule == Row.rule[r]
       IN  CASE rule.kind \in {"SameValue", "Register"} -> state[rule.of] # Unknown
             [] rule.kind \in {"Offset", "Expr"} -> Address(rule) \in Words
             [] rule.kind = "ValExpr" -> Yields(rule.ops, Cfa) # Unknown
             [] OTHER -> rule.kind # "Architectural"

\* Mutant: rules read the registers already restored.
RegisterRestored(q) == IF Row.rule[q].kind = "Offset" THEN mem[Address(Row.rule[q])] ELSE state[q]

RegisterRead(q) == state[q]

\* Mutant: only what the row restores is available.
DefaultCleared(r) == IF r = "rsp" THEN Cfa ELSE Unknown

\* A register without a rule is the frame's own; the stack pointer is the CFA
\* and no return address is known.
Default(r) == IF r = "rsp" THEN Cfa ELSE IF r = "ra" THEN Unknown ELSE state[r]

\* The caller's register r.
Restored(r) ==
  LET rule == Row.rule[r]
  IN  CASE rule.kind = "absent" -> Default(r)
        [] rule.kind = "Undefined" -> Unknown
        [] rule.kind \in {"SameValue", "Register"} -> RegisterRead(rule.of)
        [] rule.kind \in {"Offset", "Expr"} -> mem[Address(rule)]
        [] rule.kind = "ValOffset" -> Cfa - rule.n
        [] rule.kind = "ValExpr" -> Yields(rule.ops, Cfa)
        [] rule.kind = "Constant" -> rule.n

-----------------------------------------------------------------------------
(* The cursor.                                                             *)

Resolved == mode = "walk" /\ state["ra"] \notin {Unknown, 0}

\* The walk is over and the newest of the functions fs goes on.
Leave(fs) ==
  /\ mode' = "run" /\ cursor' = 0
  /\ state' = [r \in Registers |-> Unknown]
  /\ frames' = [fs EXCEPT ![Len(fs)] = [@ EXCEPT !.pushed = 0, !.regs = regs']]

\* The oldest frame has been passed: the entry returns.
End ==
  /\ mode = "walk" /\ ~Resolved
  /\ UNCHANGED <<regs, mem>> /\ Leave(frames)

\* Cursor::advance.
Advance ==
  /\ Resolved /\ Readable
  /\ state' = [r \in Registers |-> Restored(r)]
  /\ cursor' = cursor - 1
  /\ UNCHANGED <<regs, mem, frames, mode>>

\* The row cannot be evaluated, or its memory not be read.
Fail ==
  /\ Resolved
  /\ UNCHANGED <<regs, mem>> /\ Leave(frames)

\* Registers a landing pad is entered with: a personality sets the data
\* registers, then State::install wants these known.
Required == Preserved \cup Data \cup {"rsp", "ra"}

Prepared(data) == [r \in Registers |-> IF r \in Data THEN data[r] ELSE state[r]]

\* Mutant: the arguments of the call stay on the stack.
AdjustedNot == state["rsp"]

\* Cursor::adjust by the arguments the frame had pushed.
Adjusted == state["rsp"] + Named.pushed

\* An unavailable register that a pad does not need is zero.
Installed(value) == IF value = Unknown THEN 0 ELSE value

\* A landing pad of the named frame is entered.  What is left below its stack
\* pointer is dead.
Install ==
  /\ Resolved /\ ~Row.signal
  /\ \E data \in Clobbers[state["ra"]] :
     /\ \A r \in Required : Prepared(data)[r] # Unknown
     /\ regs' = [r \in Registers |->
          IF r = "rsp" THEN Adjusted
          ELSE Installed(Prepared(data)[r])]
  /\ Leave(SubSeq(frames, 1, state["ra"]))
  /\ mem' = [a \in Words |-> IF a < regs'["rsp"] THEN 0 ELSE mem[a]]

Next ==
  \/ \E l \in Layouts : Signal(l) \/ \E n \in Pushes : Call(l, n)
  \/ \E n \in Pushes : Raise(n)
  \/ End \/ Advance \/ Fail
  \/ Install

Spec == Init /\ [][Next]_vars

-----------------------------------------------------------------------------
(* Properties.                                                             *)

\* Frame i was interrupted rather than under a call.
Interrupted(i) == i < Len(frames) /\ frames[i + 1].layout.signal

(***************************************************************************)
(* Whatever the functions did with their callers' registers, a register    *)
(* the cursor knows has the value its frame left in it: the stack pointer, *)
(* the return address and the preserved registers in every frame, all of   *)
(* them in an interrupted one (source.rs:257-330).                         *)
(***************************************************************************)
KnownIsTrue ==
  Resolved =>
    /\ state["ra"] = cursor
    /\ \A r \in IF Interrupted(cursor) THEN Registers ELSE Registers \ Volatile :
         state[r] \in {Unknown, frames[cursor].regs[r]}

(***************************************************************************)
(* A preserved register is unknown only if a function newer than the frame *)
(* gave it up; the walk ends, for want of a return address, behind the     *)
(* oldest frame only (source.rs:274-289).                                  *)
(***************************************************************************)
UnknownOnlyIfLost ==
  mode = "walk" =>
    /\ ~Resolved => cursor = 0
    /\ cursor > 0 => \A r \in Preserved : state[r] = Unknown =>
         \E i \in (cursor + 1)..Len(frames) : r \in frames[i].layout.gives

(***************************************************************************)
(* A landing pad is entered with the stack pointer the frame's function    *)
(* settled on, without the arguments it had pushed, and with the preserved *)
(* registers it had at the call (runtime.rs:866-880, state.rs:237-311).    *)
(***************************************************************************)
PadsLandAtHome ==
  [][(mode = "walk" /\ regs' # regs)
       => LET f == frames[cursor]
          IN  /\ regs'["rsp"] = f.home /\ regs'["ra"] = cursor
              /\ \A r \in Preserved : regs'[r] = f.regs[r]]_vars
=============================================================================
