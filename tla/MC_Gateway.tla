---------------------------- MODULE MC_Gateway ------------------------------
(* A small instance of Gateway for TLC. *)
EXTENDS Gateway

CONSTANTS w1, w2, r1, r2, r3, env, cli

(* A transcript and a batch on one worker, an ingest of two videos on the other. *)
Hosts  == [r \in Request |-> IF r = r2 THEN w2 ELSE w1]
Routes == [r \in Request |-> CASE r = r1 -> "transcript"
                               [] r = r2 -> "ingest"
                               [] OTHER  -> "batch"]
Videos == [r \in Request |-> CASE r = r1 -> 1 [] r = r2 -> 2 [] OTHER -> 1]

Limits == [c \in Category |-> IF c = "batch" THEN 2 ELSE 1]
Scopes == {{"read"}}

(* Bounds: requests come where no worker died, lost the lock or kept it, and the
   EXPIRE of one key is lost at most. *)
Untouched == \A r \in Request : At(r, 0, "idle")
Calm ==
    /\ deaths = 0 /\ unlocked = 0
    /\ \A w \in Worker : boot[w] = "serving" => advisory # w
Bounded == (Untouched \/ Calm) /\ Cardinality(orphan) <= 1
=============================================================================
