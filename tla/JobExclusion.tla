---------------------------- MODULE JobExclusion ----------------------------
(***************************************************************************)
(* What the job pipeline promises: for one key -- a (video, operation)     *)
(* pair -- at most one job is active, unless the lease of an active job    *)
(* was taken away from it (its Redis lock expired or was stolen, or the    *)
(* queue kept a task its caller undid).  Such a job is "exposed", and from *)
(* then on nothing is promised about it.                                   *)
(***************************************************************************)
CONSTANTS Job, Key, KeyOf

VARIABLES
    active,     \* jobs between winning the lock and giving it back
    exposed     \* jobs that lost the protection of the lock while active

vars == <<active, exposed>>

Init ==
    /\ active = {}
    /\ exposed = {}

(* A job starts only if every active job of its key is exposed. *)
Admit(j) ==
    /\ j \notin active
    /\ \A i \in active : KeyOf[i] = KeyOf[j] => i \in exposed
    /\ active' = active \union {j}
    /\ UNCHANGED exposed

Retire(j) ==
    /\ j \in active
    /\ active' = active \ {j}
    /\ UNCHANGED exposed

Expose(j) ==
    /\ j \in active
    /\ exposed' = exposed \union {j}
    /\ UNCHANGED active

Next == \E j \in Job : Admit(j) \/ Retire(j) \/ Expose(j)

Spec == Init /\ [][Next]_vars
=============================================================================
