---------------------------- MODULE MCLsdaTables ----------------------------
(* Headers over every kind of pointer encoding, with and without types and *)
(* specifications; one damage at a time: a skewed offset, a cut, a missing *)
(* base or an encoding the reader does not know.                           *)
EXTENDS LsdaTables

Enc(f, a, i) == [format |-> f, application |-> a, indirect |-> i]

Landings == {Absent, Enc("U4", "FUNC", FALSE), Enc("ABS", "ALIGN", FALSE),
             Enc("LEB", "ABS", FALSE), Enc("U4", "PC", TRUE), Enc("U2", "BAD", FALSE)}

Typings == {Enc("ABS", "ABS", FALSE), Enc("U4", "PC", TRUE), Enc("U2", "TEXT", FALSE),
            Enc("U8", "DATA", TRUE), Enc("ABS", "ALIGN", FALSE),
            Enc("LEB", "ABS", FALSE), Enc("U4", "BAD", FALSE)}

Lists == {<<>>, <<0>>, <<2, 1, 0, 1, 0>>, <<1>>, <<1, Malformed>>}

Written(pad, rtti, targets, filters, callable) ==
  [landing |-> pad, pads |-> 520, typing |-> rtti, targets |-> targets,
   calls |-> 3, actions |-> 2, callable |-> callable, filters |-> filters]

\* Every header, and every type table behind a padded and an unpadded one.
Headers == {Written(l, t, <<>>, <<>>, c) :
              l \in Landings, t \in {Absent, Enc("U4", "PC", TRUE)}, c \in BOOLEAN}
Tables == {Written(l, t, targets, list, TRUE) :
             l \in {Absent, Enc("ABS", "ALIGN", FALSE)}, t \in Typings, list \in Lists,
             targets \in {<<>>, <<700, 0>>, <<700, 650, 700>>}}
AllLsdas == Headers \cup Tables

AllImages == {[origin |-> o, function |-> 500, text |-> b, data |-> b] :
                o \in {0, 3, 8}, b \in {None, 300}}

\* The type table's end, the call sites' end, bytes missing.
Damage(t, c, n) == [types |-> t, calls |-> c, cut |-> n]
AllDamages == {Damage(0, 0, 0), Damage(-3, 0, 0), Damage(-40, 0, 0), Damage(2, 0, 0),
               Damage(0, 3, 0), Damage(0, 90, 0), Damage(0, 0, 1),
               Damage(0, 0, 9), Damage(0, 0, 30)}

AllIndices == {1, 2, 3, 4, 60, 200, 1200}
AllGarbage == {-900, 0, 77, 1001}
=============================================================================
