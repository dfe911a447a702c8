--------------------------- MODULE MC_JobPipeline ---------------------------
(* Small instances of JobPipeline for TLC. *)
EXTENDS JobPipeline, TLC

CONSTANTS j1, j2, j3, w1, w2, k1, k2

(* Every call asks for the same key; one worker serves its queue. *)
OneKey       == {k1}
OneKeyOf     == [j \in Job |-> k1]
OneTypeOf    == k1 :> "whisper"
OneServes    == w1 :> "whisper"

(* Two whisper calls and one diarization call for the same video. *)
TwoKeys      == {k1, k2}
TwoKeysOf    == (j1 :> k1) @@ (j2 :> k1) @@ (j3 :> k2)
TwoTypesOf   == (k1 :> "whisper") @@ (k2 :> "enrichment")
TwoServes    == (w1 :> "whisper") @@ (w2 :> "enrichment")

SymmetricJobs == Permutations(Job)
=============================================================================
