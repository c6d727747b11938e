--------------------------- MODULE MCActionChain ---------------------------
(* Every action table of four octets, behind the smallest header that has a *)
(* call site.  The fields of a record are what the model of sleb decodes,   *)
(* in groups of two bits and values of five; that model is itself compared  *)
(* with what the octets denote, from every position of every table.         *)
EXTENDS ActionChain, LebValue

\* No landing base, no types, one call site with action 1: eight octets, and
\* only their number matters.
HeaderSize == 8

ActionTables == [1..4 -> Octet]

\* The field at position p.
Decoded(table, p) == Sleb(SubSeq(table, p - HeaderSize + 1, Len(table)))

Records(table) ==
  [p \in Table |->
     LET index == Decoded(table, p)
         link == p + index.read
         delta == Decoded(table, link)
     IN  IF index.end # "done" \/ delta.end # "done"
         THEN [bad |-> TRUE, link |-> 0, delta |-> 0]
         ELSE [bad |-> FALSE, link |-> link, delta |-> delta.value]]

AllTables == {Records(table) : table \in ActionTables}

bytes == <<vars, octets>>

MCInit ==
  /\ octets \in ActionTables
  /\ parse = Records(octets)
  /\ Begin

MCNext == Next /\ UNCHANGED octets

MCSpec ==
  /\ MCInit /\ [][MCNext]_bytes
  /\ WF_bytes((Exhausted \/ Yield \/ Malformed) /\ UNCHANGED octets)
=============================================================================
