--------------------------- MODULE MCPersonality ---------------------------
(* Every readable table with chains of up to two records, both languages.  *)
EXTENDS Personality

CONSTANTS e1, e2

Two == {e1, e2}

\* Filter 1 accepts e1 and fails on e2; catch 1 accepts e2.
Verdicts ==
  [p \in Two \X (Index \ {0}) |->
     IF p \in {<<e1, -1>>, <<e2, 1>>} THEN "yes"
     ELSE IF p = <<e2, -1>> THEN "fail" ELSE "no"]

Chains == {<<>>} \cup {<<k>> : k \in Index} \cup (Index \X Index)

Tabled ==
  {t \in [lang : {"rust", "cxx"}, shape : Shapes, kinds : Chains,
          end : {"end", "bad"}, types : {{1}, {}}] :
     IF t.shape = "chained" THEN t.kinds # <<>> \/ t.end = "bad"
     ELSE t.kinds = <<>> /\ t.end = "end" /\ t.types = {}}

\* Every action mask, and each way the other arguments can be wrong.
Asked ==
  {r \in Request : /\ r.exc = e1 \/ (r.exc = e2 /\ r.actions \subseteq Phases)
                  /\ r.supported /\ r.context /\ r.same}
  \cup {r \in Request : r.actions \in {{"SEARCH"}, {"CLEANUP", "HANDLER"}} /\ r.exc # e2}
=============================================================================
