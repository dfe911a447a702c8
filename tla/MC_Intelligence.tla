-------------------------- MODULE MC_Intelligence ---------------------------
(* Small instances of Intelligence for TLC. *)
EXTENDS Intelligence, TLC

CONSTANTS r1, r2, r3, r4, r5, p1, p2, e1, e2, e3

(* A primary, a fallback without a key and a second fallback. *)
Routed == <<e1, e2, e3>>
Unit == [e \in Entry |-> 1]

OneProcess == [r \in Request |-> p1]

(* An overriding and a plain summary, and sentiment by chapter. *)
MixedChains == (r1 :> <<e3>>) @@ [r \in Request |-> <<e1, e3>>]
MixedKinds  == (r1 :> "summary") @@ (r2 :> "summary") @@ (r3 :> "sentiment")

(* A diff and equal topics requests against the cap. *)
RoutedChains == [r \in Request |-> Routed]
DiffAndTopics == (r1 :> "diff") @@ [r \in Request |-> "topics"]
EqualTopics == Permutations(Request \ {r1})
=============================================================================
