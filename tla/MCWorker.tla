------------------------------ MODULE MCWorker ------------------------------
(* Command lines one longer than there are request identities.             *)
EXTENDS Worker
=============================================================================
