--------------------------- MODULE JobPipelineProofs ---------------------------
(***************************************************************************)
(* Proofs about JobPipeline for every set of calls, keys and workers and   *)
(* every set of faults: that an active job keeps its lock (IndInv), what a *)
(* client is told about a job (ResultInv), that no row is left in flight   *)
(* (RowsKept), and that the pipeline implements JobExclusion.              *)
(***************************************************************************)
EXTENDS JobPipeline, TLAPS

LEMMA KeyTyping ==
    ASSUME NEW j \in Job
    PROVE  /\ KeyOf[j] \in Key
           /\ TypeOfJob(j) \in JobType
           /\ j # NoJob
BY JobAssumption, KeyAssumption DEF TypeOfJob

LEMMA TailFacts ==
    ASSUME NEW S, NEW s \in Seq(S), s # <<>>
    PROVE  /\ 1 \in DOMAIN s /\ Head(s) = s[1] /\ Head(s) \in S
           /\ Tail(s) \in Seq(S)
           /\ DOMAIN s \subseteq Nat /\ DOMAIN Tail(s) \subseteq Nat
           /\ \A n \in DOMAIN Tail(s) :
                 n + 1 \in DOMAIN s /\ n + 1 # 1 /\ Tail(s)[n] = s[n + 1]
           /\ \A n \in DOMAIN s :
                 n # 1 => n - 1 \in DOMAIN Tail(s) /\ Tail(s)[n - 1] = s[n]
<1>1. /\ Len(s) \in Nat \ {0} /\ DOMAIN s = 1 .. Len(s)
      /\ Tail(s) \in Seq(S) /\ Len(Tail(s)) = Len(s) - 1
      /\ DOMAIN Tail(s) = 1 .. Len(s) - 1
    OBVIOUS
<1>2. \A n \in 1 .. Len(s) - 1 : Tail(s)[n] = s[n + 1]
    OBVIOUS
<1>3. \A n \in DOMAIN s :
         n # 1 => n - 1 \in 1 .. Len(s) - 1 /\ (n - 1) + 1 = n
    BY <1>1
<1>4. Head(s) = s[1] /\ Head(s) \in S
    OBVIOUS
<1>. QED
    BY <1>1, <1>2, <1>3, <1>4

LEMMA InitInactive ==
    ASSUME Init, NEW j \in Job
    PROVE  ~Active(j)
<1> USE DEF Init
<1>1. queue[TypeOfJob(j)] = <<>>
    BY KeyTyping
<1>2. ~Waiting(j)
    BY <1>1 DEF Waiting
<1>3. ~Running(j)
    BY KeyTyping DEF Running, RunBy
<1>4. call[j] \notin CallOwns
    BY DEF CallOwns
<1>. QED
    BY <1>2, <1>3, <1>4 DEF Active

LEMMA InitIndInv == Init => IndInv
<1> SUFFICES ASSUME Init PROVE IndInv
    OBVIOUS
<1> USE JobAssumption DEF Init
<1>1. TypeOK
    <2>1. queue \in [JobType -> Seq(Job)]
        OBVIOUS
    <2>. QED
        BY <2>1 DEF TypeOK, RowStatus, CallState, WorkerStep
<1>2. WorkersWellFormed
    BY DEF WorkersWellFormed
<1>3. OnePlace
    BY DEF OnePlace, JobType
<1>4. \A j \in Job : ~Active(j)
    BY InitInactive
<1>5. PushedByCall /\ LeaseHeld
    BY <1>4 DEF PushedByCall, LeaseHeld, Active
<1>. QED
    BY <1>1, <1>2, <1>3, <1>5 DEF IndInv

(* A step that touches neither the queues nor the workers moves no job. *)
LEMMA PlacesUnchanged ==
    ASSUME WorkersWellFormed, OnePlace,
           UNCHANGED <<queue, at, doing>>
    PROVE  /\ WorkersWellFormed'
           /\ OnePlace'
           /\ \A j \in Job : Waiting(j)' = Waiting(j) /\ Running(j)' = Running(j)
<1>1. WorkersWellFormed'
    BY DEF WorkersWellFormed
<1>2. OnePlace'
    BY DEF OnePlace, Running, RunBy
<1>3. \A j \in Job : Waiting(j)' = Waiting(j) /\ Running(j)' = Running(j)
    BY DEF Waiting, Running, RunBy
<1>. QED
    BY <1>1, <1>2, <1>3

LEMMA WonFacts ==
    ASSUME TypeOK, NEW j \in Job
    PROVE  /\ Won(j) \in [Key -> Job \union {NoJob}]
           /\ lock[KeyOf[j]] = NoJob => Won(j)[KeyOf[j]] = j
           /\ \A k \in Key : lock[k] # NoJob => Won(j)[k] = lock[k]
BY KeyTyping DEF Won, TypeOK

(* Winning the lock: nobody unexposed was active, and the winner now owns it. *)
LEMMA TryLockIndInv ==
    ASSUME IndInv, NEW j \in Job, NEW from, NEW lost,
           from \in {"idle", "retry"}, lost \in {"find", "conflict"},
           TryLock(j, from, lost),
           UNCHANGED <<row, answer, queue, workerVars, exposed>>
    PROVE  IndInv'
<1> USE KeyTyping, WonFacts DEF IndInv, TryLock, Goto, workerVars
<1>1. TypeOK'
    <2>1. lock' \in [Key -> Job \union {NoJob}]
        BY DEF TypeOK
    <2>2. call' \in [Job -> CallState]
        BY DEF TypeOK, CallState
    <2>. QED
        BY <2>1, <2>2 DEF TypeOK
<1>2. /\ WorkersWellFormed' /\ OnePlace'
      /\ \A i \in Job : Waiting(i)' = Waiting(i) /\ Running(i)' = Running(i)
    BY PlacesUnchanged
<1>3. ~Waiting(j) /\ ~Running(j)
    BY DEF PushedByCall
<1>4. PushedByCall'
    BY <1>2, <1>3 DEF PushedByCall, TypeOK
<1>5. LeaseHeld'
    BY <1>2, <1>3 DEF LeaseHeld, Active, TypeOK, CallOwns
<1>. QED
    BY <1>1, <1>2, <1>4, <1>5

(* A step of call j that leaves the lock and the places alone, and that does *)
(* not let go of a lock it owns unless the job is no longer protected.       *)
LEMMA CallMoveIndInv ==
    ASSUME IndInv, NEW j \in Job, NEW to \in CallState,
           call' = [call EXCEPT ![j] = to],
           UNCHANGED <<lock, queue, at, doing, stored, notified, exposed>>,
           row' \in [Job -> RowStatus],
           answer' \in [Job -> Job \union {NoJob}],
           call[j] \notin CallEnded,
           to \in CallOwns => call[j] \in CallOwns,
           call[j] \in {"undo", "unlock"} => to \in {"unlock", "error", "dead"}
    PROVE  IndInv'
<1> USE DEF IndInv
<1>1. TypeOK'
    BY DEF TypeOK
<1>2. /\ WorkersWellFormed' /\ OnePlace'
      /\ \A i \in Job : Waiting(i)' = Waiting(i) /\ Running(i)' = Running(i)
    BY PlacesUnchanged
<1>3. PushedByCall'
    BY <1>2 DEF PushedByCall, TypeOK, CallEnded
<1>4. LeaseHeld'
    BY <1>2 DEF LeaseHeld, Active, TypeOK
<1>. QED
    BY <1>1, <1>2, <1>3, <1>4

(* Taking the lock of k away exposes every active job that relied on it. *)
LEMMA RevokeIndInv ==
    ASSUME IndInv, NEW k \in Key,
           exposed' = ExposedBy(k),
           lock' = [lock EXCEPT ![k] = NoJob],
           UNCHANGED <<row, answer, queue, workerVars>>,
           \/ UNCHANGED call
           \/ \E j \in Job : Goto(j, "steal", "retry") \/ Goto(j, "steal", "error")
    PROVE  IndInv'
<1> USE DEF IndInv, workerVars
<1>1. TypeOK'
    BY DEF TypeOK, ExposedBy, Goto, CallState
<1>2. /\ WorkersWellFormed' /\ OnePlace'
      /\ \A i \in Job : Waiting(i)' = Waiting(i) /\ Running(i)' = Running(i)
    BY PlacesUnchanged
<1>3. PushedByCall'
    BY <1>2 DEF PushedByCall, TypeOK, Goto, ExposedBy
<1>4. \A i \in Job : Active(i)' <=> Active(i)
    BY <1>2 DEF Active, TypeOK, Goto, CallOwns
<1>5. LeaseHeld'
    BY <1>4, KeyTyping DEF LeaseHeld, ExposedBy, TypeOK
<1>. QED
    BY <1>1, <1>2, <1>3, <1>5

(* Deleting the lock only while it stores j hurts nobody but j. *)
LEMMA ReleasedFacts ==
    ASSUME TypeOK, NEW j \in Job
    PROVE  /\ Released(j) \in [Key -> Job \union {NoJob}]
           /\ \A i \in Job : i # j /\ lock[KeyOf[i]] = i => Released(j)[KeyOf[i]] = i
BY KeyTyping DEF Released, TypeOK

LEMMA UnlockIndInv ==
    ASSUME IndInv, NEW j \in Job, Unlock(j)
    PROVE  IndInv'
<1> USE DEF IndInv, Unlock, Goto, workerVars
<1>1. lock' \in {lock, Released(j)}
    OBVIOUS
<1>2. TypeOK'
    BY <1>1, ReleasedFacts DEF TypeOK, CallState
<1>3. /\ WorkersWellFormed' /\ OnePlace'
      /\ \A i \in Job : Waiting(i)' = Waiting(i) /\ Running(i)' = Running(i)
    BY PlacesUnchanged
<1>4. PushedByCall'
    BY <1>3 DEF PushedByCall, TypeOK
<1>5. LeaseHeld'
    <2> SUFFICES ASSUME NEW i \in Job, Active(i)', i \notin exposed
                 PROVE  lock'[KeyOf[i]] = i
        BY DEF LeaseHeld
    <2>1. i # j
        BY <1>3 DEF Active, PushedByCall, TypeOK, CallOwns
    <2>2. Active(i)
        BY <1>3, <2>1 DEF Active, TypeOK
    <2>. QED
        BY <1>1, <2>1, <2>2, ReleasedFacts DEF LeaseHeld
<1>. QED
    BY <1>2, <1>3, <1>4, <1>5

(* Appending a task: j waits, and the other jobs stay where they were. *)
LEMMA PushedPlaces ==
    ASSUME TypeOK, WorkersWellFormed, OnePlace, NEW j \in Job,
           ~Waiting(j), ~Running(j),
           queue' = Pushed(j), UNCHANGED <<at, doing>>
    PROVE  /\ queue' \in [JobType -> Seq(Job)]
           /\ WorkersWellFormed'
           /\ OnePlace'
           /\ Waiting(j)'
           /\ \A i \in Job : i # j => Waiting(i)' = Waiting(i)
           /\ \A i \in Job : Running(i)' = Running(i)
<1> DEFINE t == TypeOfJob(j)
           s == queue[t]
<1>1. t \in JobType /\ s \in Seq(Job)
    BY KeyTyping DEF TypeOK
<1>2. /\ queue'[t] = Append(s, j)
      /\ \A u \in JobType : u # t => queue'[u] = queue[u]
      /\ queue' \in [JobType -> Seq(Job)]
    BY <1>1 DEF Pushed, TypeOK
<1>3. /\ DOMAIN Append(s, j) = 1 .. Len(s) + 1
      /\ DOMAIN s = 1 .. Len(s)
      /\ \A n \in 1 .. Len(s) : Append(s, j)[n] = s[n]
      /\ Append(s, j)[Len(s) + 1] = j
      /\ Len(s) \in Nat
    BY <1>1
<1>4. \A i \in Job : Running(i)' = Running(i)
    BY DEF Running, RunBy
<1>5. Waiting(j)'
    BY <1>2, <1>3 DEF Waiting
<1>6. ASSUME NEW i \in Job, i # j
      PROVE  Waiting(i)' = Waiting(i)
    <2>1. CASE TypeOfJob(i) = t
        BY <1>2, <1>3, <1>6, <2>1, SMTT(40) DEF Waiting
    <2>2. CASE TypeOfJob(i) # t
        BY <1>2, <2>2, KeyTyping DEF Waiting
    <2>. QED
        BY <2>1, <2>2
<1>7. WorkersWellFormed'
    BY DEF WorkersWellFormed
<1>8. OnePlace'
    <2>1. ASSUME NEW u \in JobType, NEW n \in DOMAIN queue'[u]
          PROVE  /\ TypeOfJob(queue'[u][n]) = u
                 /\ \A w \in Worker : doing'[w] # queue'[u][n]
        <3>1. CASE u = t /\ n \in 1 .. Len(s)
            BY <1>2, <1>3, <2>1, <3>1 DEF OnePlace, RunBy
        <3>2. CASE u = t /\ n = Len(s) + 1
            BY <1>2, <1>3, <2>1, <3>2 DEF Running, RunBy
        <3>3. CASE u # t
            BY <1>2, <2>1, <3>3 DEF OnePlace, RunBy
        <3>. QED
            BY <1>2, <1>3, <2>1, <3>1, <3>2, <3>3
    <2>2. ASSUME NEW u \in JobType, NEW m \in DOMAIN queue'[u],
                 NEW n \in DOMAIN queue'[u], queue'[u][m] = queue'[u][n]
          PROVE  m = n
        <3>1. CASE u = t
            <4>1. \A p \in 1 .. Len(s) : s[p] # j
                BY <1>3 DEF Waiting
            <4>2. \A p, q \in 1 .. Len(s) : s[p] = s[q] => p = q
                BY <1>1, <1>3 DEF OnePlace
            <4>3. /\ m \in 1 .. Len(s) + 1 /\ n \in 1 .. Len(s) + 1
                  /\ Append(s, j)[m] = Append(s, j)[n]
                BY <1>2, <1>3, <2>2, <3>1
            <4>4. CASE m \in 1 .. Len(s) /\ n \in 1 .. Len(s)
                BY <1>3, <4>2, <4>3, <4>4
            <4>5. CASE m = Len(s) + 1 \/ n = Len(s) + 1
                BY <1>3, <4>1, <4>3, <4>5
            <4>. QED
                BY <1>3, <4>3, <4>4, <4>5
        <3>2. CASE u # t
            BY <1>2, <2>2, <3>2 DEF OnePlace
        <3>. QED
            BY <3>1, <3>2
    <2>3. \A v, w \in Worker : doing'[v] = doing'[w] /\ doing'[v] # NoJob => v = w
        BY DEF OnePlace
    <2>. QED
        BY <2>1, <2>2, <2>3 DEF OnePlace, RunBy, TypeOfJob
<1>. QED
    BY <1>2, <1>4, <1>5, <1>6, <1>7, <1>8

LEMMA PushIndInv ==
    ASSUME IndInv, NEW j \in Job, Push(j)
    PROVE  IndInv'
<1> USE DEF IndInv, Goto, workerVars
<1>1. call[j] = "push" /\ ~Waiting(j) /\ ~Running(j)
    BY DEF Push, PushedByCall
<1>2. UNCHANGED <<lock, row, at, doing, stored, notified>>
    BY DEF Push
<1>3. ASSUME queue' = Pushed(j),
             answer' \in [Job -> Job \union {NoJob}],
             \/ call' = [call EXCEPT ![j] = "accepted"] /\ exposed' = exposed
             \/ /\ call' = [call EXCEPT ![j] = "undo"]
                /\ exposed' = exposed \union {j}
      PROVE  IndInv'
    <2>1. /\ queue' \in [JobType -> Seq(Job)]
          /\ WorkersWellFormed' /\ OnePlace' /\ Waiting(j)'
          /\ \A i \in Job : i # j => Waiting(i)' = Waiting(i)
          /\ \A i \in Job : Running(i)' = Running(i)
        BY <1>1, <1>2, <1>3, PushedPlaces
    <2>2. TypeOK'
        BY <1>2, <1>3, <2>1 DEF TypeOK, CallState
    <2>3. PushedByCall'
        BY <1>3, <2>1 DEF PushedByCall, TypeOK
    <2>4. LeaseHeld'
        BY <1>1, <1>2, <1>3, <2>1 DEF LeaseHeld, Active, TypeOK, CallOwns
    <2>. QED
        BY <2>1, <2>2, <2>3, <2>4
<1>4. ASSUME UNCHANGED <<queue, exposed, answer>>,
             call' = [call EXCEPT ![j] = "undo"]
      PROVE  IndInv'
    BY <1>1, <1>2, <1>4, CallMoveIndInv DEF CallState, CallEnded, CallOwns, TypeOK
<1>. QED
    BY <1>3, <1>4 DEF Push, TypeOK

(* Taking the oldest task: it moves from the queue to the worker. *)
LEMMA TakeIndInv ==
    ASSUME IndInv, NEW w \in Worker, Take(w)
    PROVE  /\ IndInv' /\ \A i \in Job : Active(i)' <=> Active(i)
           /\ \A i \in Job : (Waiting(i) \/ Running(i))' <=> (Waiting(i) \/ Running(i))
           /\ Head(queue[Serves[w]]) \in Job /\ Waiting(Head(queue[Serves[w]]))
<1> DEFINE t == Serves[w]
           s == queue[t]
           h == Head(s)
<1> USE DEF IndInv, callVars
<1>1. t \in JobType /\ s \in Seq(Job) /\ s # <<>>
    BY WorkerAssumption DEF TypeOK, Take
<1>2. /\ 1 \in DOMAIN s /\ h = s[1] /\ h \in Job
      /\ Tail(s) \in Seq(Job)
      /\ DOMAIN s \subseteq Nat /\ DOMAIN Tail(s) \subseteq Nat
      /\ \A n \in DOMAIN Tail(s) :
            n + 1 \in DOMAIN s /\ n + 1 # 1 /\ Tail(s)[n] = s[n + 1]
      /\ \A n \in DOMAIN s :
            n # 1 => n - 1 \in DOMAIN Tail(s) /\ Tail(s)[n - 1] = s[n]
    BY <1>1, TailFacts
<1>3. /\ queue' = [queue EXCEPT ![t] = Tail(s)]
      /\ doing' = [doing EXCEPT ![w] = h]
      /\ at' = [at EXCEPT ![w] = "load"]
      /\ doing[w] = NoJob
      /\ UNCHANGED <<lock, row, call, answer, stored, notified, exposed>>
    BY DEF Take, MovesTo, WorkersWellFormed
<1>4. /\ queue'[t] = Tail(s)
      /\ \A u \in JobType : u # t => queue'[u] = queue[u]
      /\ queue' \in [JobType -> Seq(Job)]
    BY <1>1, <1>2, <1>3 DEF TypeOK
<1>5. TypeOfJob(h) = t /\ h # NoJob /\ \A v \in Worker : doing[v] # h
    BY <1>1, <1>2, KeyTyping DEF OnePlace, RunBy
<1>6. TypeOK'
    BY <1>2, <1>3, <1>4 DEF TypeOK, WorkerStep
<1>7. WorkersWellFormed'
    BY <1>3, <1>5 DEF WorkersWellFormed, TypeOfJob, TypeOK
<1>8. \A n \in DOMAIN queue'[t] : queue'[t][n] # h
    BY <1>1, <1>2, <1>4 DEF OnePlace
<1>9. OnePlace'
    <2>1. ASSUME NEW u \in JobType, NEW n \in DOMAIN queue'[u]
          PROVE  /\ TypeOfJob(queue'[u][n]) = u
                 /\ \A v \in Worker : doing'[v] # queue'[u][n]
        <3>1. CASE u = t
            <4>1. n + 1 \in DOMAIN s /\ queue'[u][n] = s[n + 1]
                BY <1>2, <1>4, <2>1, <3>1
            <4>. QED
                BY <1>1, <1>3, <1>8, <2>1, <3>1, <4>1 DEF OnePlace, RunBy, TypeOK
        <3>2. CASE u # t
            BY <1>3, <1>4, <1>5, <2>1, <3>2 DEF OnePlace, RunBy, TypeOK
        <3>. QED
            BY <3>1, <3>2
    <2>2. ASSUME NEW u \in JobType, NEW m \in DOMAIN queue'[u],
                 NEW n \in DOMAIN queue'[u], queue'[u][m] = queue'[u][n]
          PROVE  m = n
        <3>1. CASE u = t
            <4>1. /\ m \in DOMAIN Tail(s) /\ n \in DOMAIN Tail(s)
                  /\ m \in Nat /\ n \in Nat
                  /\ m + 1 \in DOMAIN s /\ n + 1 \in DOMAIN s
                  /\ s[m + 1] = s[n + 1]
                BY <1>2, <1>4, <2>2, <3>1
            <4>2. m + 1 = n + 1
                BY <1>1, <4>1 DEF OnePlace
            <4>. QED
                BY <4>1, <4>2
        <3>2. CASE u # t
            BY <1>4, <2>2, <3>2 DEF OnePlace
        <3>. QED
            BY <3>1, <3>2
    <2>3. \A v, x \in Worker : doing'[v] = doing'[x] /\ doing'[v] # NoJob => v = x
        BY <1>3, <1>5 DEF OnePlace, TypeOK
    <2>. QED
        BY <2>1, <2>2, <2>3 DEF OnePlace, RunBy, TypeOfJob
<1>10. ASSUME NEW i \in Job
       PROVE  (Waiting(i) \/ Running(i))' <=> (Waiting(i) \/ Running(i))
    <2>1. CASE i = h
        <3>1. Waiting(i)
            BY <1>2, <1>5, <2>1 DEF Waiting
        <3>2. Running(i)'
            BY <1>2, <1>3, <2>1 DEF Running, RunBy, TypeOK
        <3>. QED
            BY <3>1, <3>2
    <2>2. CASE i # h
        <3>1. Running(i)' <=> Running(i)
            BY <1>3, <2>2, KeyTyping DEF Running, RunBy, TypeOK
        <3>2. CASE TypeOfJob(i) = t
            <4>1. ASSUME NEW n \in DOMAIN s, s[n] = i
                  PROVE  n - 1 \in DOMAIN Tail(s) /\ Tail(s)[n - 1] = i
                BY <1>2, <2>2, <4>1
            <4>2. ASSUME NEW n \in DOMAIN Tail(s), Tail(s)[n] = i
                  PROVE  n + 1 \in DOMAIN s /\ s[n + 1] = i
                BY <1>2, <4>2
            <4>3. Waiting(i)' <=> Waiting(i)
                BY <1>4, <3>2, <4>1, <4>2 DEF Waiting, TypeOfJob
            <4>. QED
                BY <3>1, <4>3
        <3>3. CASE TypeOfJob(i) # t
            <4>1. Waiting(i)' <=> Waiting(i)
                BY <1>4, <3>3, KeyTyping DEF Waiting, TypeOfJob
            <4>. QED
                BY <3>1, <4>1
        <3>. QED
            BY <3>2, <3>3
    <2>. QED
        BY <2>1, <2>2
<1>11. \A i \in Job : Active(i)' <=> Active(i)
    BY <1>3, <1>10 DEF Active
<1>12. PushedByCall' /\ LeaseHeld'
    BY <1>3, <1>10, <1>11 DEF PushedByCall, LeaseHeld
<1>13. Waiting(h)
    BY <1>2, <1>5 DEF Waiting
<1>. QED
    BY <1>2, <1>6, <1>7, <1>9, <1>10, <1>11, <1>12, <1>13

(* A worker that goes on to its next step keeps its job and the lock. *)
LEMMA WorkerMoveIndInv ==
    ASSUME IndInv, NEW w \in Worker, at[w] # "idle",
           NEW to \in WorkerStep \ {"idle"},
           at' = [at EXCEPT ![w] = to],
           UNCHANGED <<lock, callVars, queue, doing, exposed>>,
           row' \in [Job -> RowStatus],
           stored' \subseteq Job, notified' \subseteq Job
    PROVE  IndInv'
<1> USE DEF IndInv, callVars
<1>1. TypeOK'
    BY DEF TypeOK
<1>2. WorkersWellFormed'
    BY DEF WorkersWellFormed, TypeOK, TypeOfJob
<1>3. OnePlace'
    BY DEF OnePlace, RunBy, TypeOfJob
<1>4. \A i \in Job : Waiting(i)' = Waiting(i) /\ Running(i)' = Running(i)
    BY DEF Waiting, Running, RunBy, TypeOfJob
<1>5. PushedByCall' /\ LeaseHeld'
    BY <1>4 DEF PushedByCall, LeaseHeld, Active
<1>. QED
    BY <1>1, <1>2, <1>3, <1>5

(* A task that ends leaves its worker idle; its lock is given back or kept. *)
LEMMA TaskEndsIndInv ==
    ASSUME IndInv, NEW w \in Worker, at[w] # "idle", TaskEnds(w),
           lock' \in {lock, Released(doing[w])},
           UNCHANGED <<callVars, queue, stored, notified, exposed>>,
           row' \in [Job -> RowStatus]
    PROVE  IndInv'
<1> DEFINE j == doing[w]
<1> USE DEF IndInv, callVars, TaskEnds
<1>1. j \in Job /\ Running(j)
    BY DEF WorkersWellFormed, TypeOK, Running, RunBy
<1>2. TypeOK'
    BY <1>1, ReleasedFacts DEF TypeOK, WorkerStep
<1>3. WorkersWellFormed'
    BY KeyTyping DEF WorkersWellFormed, TypeOK, TypeOfJob
<1>4. OnePlace'
    BY KeyTyping DEF OnePlace, RunBy, TypeOfJob, TypeOK
<1>5. \A i \in Job : Waiting(i)' = Waiting(i)
    BY DEF Waiting, TypeOfJob
<1>6. \A i \in Job : Running(i)' <=> Running(i) /\ i # j
    BY KeyTyping DEF Running, RunBy, TypeOK, OnePlace
<1>7. ~Waiting(j)
    BY <1>1, KeyTyping DEF Waiting, OnePlace, RunBy
<1>8. PushedByCall'
    BY <1>5, <1>6 DEF PushedByCall
<1>9. LeaseHeld'
    <2> SUFFICES ASSUME NEW i \in Job, Active(i)', i \notin exposed
                 PROVE  lock'[KeyOf[i]] = i
        BY DEF LeaseHeld
    <2>1. Active(i)
        BY <1>5, <1>6 DEF Active
    <2>2. i # j
        BY <1>1, <1>5, <1>6, <1>7 DEF Active, PushedByCall, CallOwns
    <2>. QED
        BY <1>1, <2>1, <2>2, ReleasedFacts DEF LeaseHeld
<1>. QED
    BY <1>2, <1>3, <1>4, <1>8, <1>9

LEMMA CallStepIndInv ==
    ASSUME IndInv, NEW j \in Job, Acquire(j) \/ CallStep(j) \/ ApiCrash(j)
    PROVE  IndInv'
<1> USE DEF Goto, workerVars
<1>1. TypeOK
    BY DEF IndInv
<1>2. CASE Acquire(j)
    BY <1>2, TryLockIndInv DEF Acquire
<1>3. CASE Retry(j)
    BY <1>3, TryLockIndInv DEF Retry
<1>4. CASE Find(j) \/ Recheck(j)
    <2>1. PICK to \in {"duplicate", "recheck", "steal"} :
             call' = [call EXCEPT ![j] = to]
        BY <1>4 DEF Find, Recheck, Lookup
    <2>2. answer' \in [Job -> Job \union {NoJob}]
        BY <1>1, <1>4 DEF Find, Recheck, Lookup, InProgress, TypeOK
    <2>3. /\ call[j] \in {"find", "recheck"}
          /\ UNCHANGED <<lock, row, queue, at, doing, stored, notified, exposed>>
        BY <1>4 DEF Find, Recheck, Lookup
    <2>. QED
        BY <1>1, <2>1, <2>2, <2>3, CallMoveIndInv
           DEF CallState, CallEnded, CallOwns, TypeOK
<1>5. CASE Steal(j)
    <2>1. PICK to \in {"retry", "error"} : Goto(j, "steal", to)
        BY <1>5 DEF Steal
    <2>2. UNCHANGED <<row, answer, queue, workerVars>>
        BY <1>5 DEF Steal
    <2>3. CASE /\ exposed' = ExposedBy(KeyOf[j])
               /\ lock' = [lock EXCEPT ![KeyOf[j]] = NoJob]
        BY <2>1, <2>2, <2>3, RevokeIndInv, KeyTyping
    <2>4. CASE UNCHANGED <<lock, exposed>>
        BY <1>1, <2>1, <2>2, <2>4, CallMoveIndInv
           DEF CallState, CallEnded, CallOwns, TypeOK
    <2>. QED
        BY <1>5, <2>3, <2>4 DEF Steal
<1>6. CASE Insert(j)
    <2>1. PICK to \in {"push", "error"} : call' = [call EXCEPT ![j] = to]
        BY <1>6 DEF Insert
    <2>2. row' \in {row, [row EXCEPT ![j] = "queued"]}
        BY <1>6 DEF Insert
    <2>3. row' \in [Job -> RowStatus]
        BY <1>1, <2>2 DEF TypeOK, RowStatus
    <2>4. /\ call[j] = "insert"
          /\ UNCHANGED <<lock, answer, queue, at, doing, stored, notified, exposed>>
        BY <1>6 DEF Insert
    <2>. QED
        BY <1>1, <2>1, <2>3, <2>4, CallMoveIndInv
           DEF CallState, CallEnded, CallOwns, TypeOK
<1>7. CASE Push(j)
    BY <1>7, PushIndInv
<1>8. CASE Undo(j)
    <2>1. PICK to \in {"unlock", "error"} : call' = [call EXCEPT ![j] = to]
        BY <1>8 DEF Undo
    <2>2. row' \in {row, [row EXCEPT ![j] = "failed"]}
        BY <1>8 DEF Undo
    <2>3. row' \in [Job -> RowStatus]
        BY <1>1, <2>2 DEF TypeOK, RowStatus
    <2>4. /\ call[j] = "undo"
          /\ UNCHANGED <<lock, answer, queue, at, doing, stored, notified, exposed>>
        BY <1>8 DEF Undo
    <2>. QED
        BY <1>1, <2>1, <2>3, <2>4, CallMoveIndInv
           DEF CallState, CallEnded, CallOwns, TypeOK
<1>9. CASE Unlock(j)
    BY <1>9, UnlockIndInv
<1>10. CASE ApiCrash(j)
    BY <1>1, <1>10, CallMoveIndInv DEF ApiCrash, CallState, CallEnded, CallOwns, TypeOK
<1>. QED
    BY <1>2, <1>3, <1>4, <1>5, <1>6, <1>7, <1>8, <1>9, <1>10 DEF CallStep

LEMMA WorkerStepIndInv ==
    ASSUME IndInv, NEW w \in Worker, WorkerStepOf(w) \/ HorseKilled(w)
    PROVE  IndInv'
<1> USE DEF MovesTo
<1>1. TypeOK
    BY DEF IndInv
<1>2. at[w] # "idle" => doing[w] \in Job
    BY DEF IndInv, WorkersWellFormed, TypeOK
<1>3. CASE Take(w)
    BY <1>3, TakeIndInv
<1>4. CASE Load(w)
    <2>1. CASE at' = [at EXCEPT ![w] = "start"] /\ UNCHANGED doing
        BY <1>1, <1>4, <2>1, WorkerMoveIndInv DEF Load, WorkerStep, TypeOK
    <2>2. CASE TaskEnds(w)
        BY <1>1, <1>4, <2>2, TaskEndsIndInv DEF Load, TypeOK
    <2>3. CASE at' = [at EXCEPT ![w] = "giveup"] /\ UNCHANGED doing
        BY <1>1, <1>4, <2>3, WorkerMoveIndInv DEF Load, WorkerStep, TypeOK
    <2>. QED
        BY <1>4, <2>1, <2>2, <2>3 DEF Load
<1>5. CASE GiveUp(w)
    BY <1>1, <1>5, TaskEndsIndInv DEF GiveUp, TypeOK, RowStatus
<1>6. CASE Start(w)
    <2>1. PICK to \in {"work", "release", "fail"} : at' = [at EXCEPT ![w] = to]
        BY <1>6 DEF Start
    <2>2. row' \in {row, [row EXCEPT ![doing[w]] = "running"]}
        BY <1>6 DEF Start
    <2>3. row' \in [Job -> RowStatus]
        BY <1>1, <2>2 DEF TypeOK, RowStatus
    <2>4. /\ at[w] = "start"
          /\ UNCHANGED <<lock, callVars, queue, doing, stored, notified, exposed>>
        BY <1>6 DEF Start
    <2>. QED
        BY <1>1, <2>1, <2>3, <2>4, WorkerMoveIndInv DEF WorkerStep, TypeOK
<1>7. CASE Work(w)
    BY <1>1, <1>7, WorkerMoveIndInv DEF Work, WorkerStep, TypeOK
<1>8. CASE Store(w)
    BY <1>1, <1>2, <1>8, WorkerMoveIndInv DEF Store, WorkerStep, TypeOK
<1>9. CASE Finish(w)
    <2>1. PICK to \in {"notify", "release", "fail"} : at' = [at EXCEPT ![w] = to]
        BY <1>9 DEF Finish
    <2>2. row' \in {row, [row EXCEPT ![doing[w]] = "complete"]}
        BY <1>9 DEF Finish
    <2>3. row' \in [Job -> RowStatus]
        BY <1>1, <2>2 DEF TypeOK, RowStatus
    <2>4. /\ at[w] = "finish"
          /\ UNCHANGED <<lock, callVars, queue, doing, stored, notified, exposed>>
        BY <1>9 DEF Finish
    <2>. QED
        BY <1>1, <2>1, <2>3, <2>4, WorkerMoveIndInv DEF WorkerStep, TypeOK
<1>10. CASE Notify(w)
    BY <1>1, <1>2, <1>10, WorkerMoveIndInv DEF Notify, WorkerStep, TypeOK
<1>11. CASE Fail(w)
    BY <1>1, <1>11, WorkerMoveIndInv DEF Fail, WorkerStep, TypeOK, RowStatus
<1>12. CASE Release(w)
    BY <1>1, <1>12, TaskEndsIndInv DEF Release, TypeOK
<1>13. CASE HorseKilled(w)
    BY <1>1, <1>13, TaskEndsIndInv DEF HorseKilled, TypeOK
<1>. QED
    BY <1>3, <1>4, <1>5, <1>6, <1>7, <1>8, <1>9, <1>10, <1>11, <1>12, <1>13
       DEF WorkerStepOf

LEMMA NextIndInv == IndInv /\ [Next]_vars => IndInv'
<1> SUFFICES ASSUME IndInv, [Next]_vars PROVE IndInv'
    OBVIOUS
<1>1. ASSUME NEW j \in Job, Acquire(j) \/ CallStep(j) \/ ApiCrash(j)
      PROVE  IndInv'
    BY <1>1, CallStepIndInv
<1>2. ASSUME NEW w \in Worker, WorkerStepOf(w) \/ HorseKilled(w)
      PROVE  IndInv'
    BY <1>2, WorkerStepIndInv
<1>3. ASSUME NEW k \in Key, Expire(k)
      PROVE  IndInv'
    BY <1>3, RevokeIndInv DEF Expire, callVars
<1>4. CASE UNCHANGED vars
    <2>1. /\ WorkersWellFormed' /\ OnePlace'
          /\ \A i \in Job : Waiting(i)' = Waiting(i) /\ Running(i)' = Running(i)
        BY <1>4, PlacesUnchanged DEF IndInv, vars, workerVars
    <2>2. TypeOK' /\ PushedByCall' /\ LeaseHeld'
        BY <1>4, <2>1
           DEF IndInv, vars, workerVars, callVars, TypeOK, PushedByCall, LeaseHeld, Active
    <2>. QED
        BY <2>1, <2>2 DEF IndInv
<1>. QED
    BY <1>1, <1>2, <1>3, <1>4 DEF Next, Quiet

LEMMA InvariantHolds == Spec => []IndInv
BY InitIndInv, NextIndInv, PTL DEF Spec

(* Every variable keeps its type, in every interleaving and under every     *)
(* fault.                                                                   *)
THEOREM TypeCorrect == Spec => []TypeOK
<1>1. IndInv => TypeOK
    BY DEF IndInv
<1>. QED
    BY <1>1, InvariantHolds, PTL

(* The release of app/jobs.py never takes a lock away from another job: an  *)
(* active job that was not stolen from owns its lock.                       *)
THEOREM LeaseIsHeld == Spec => []LeaseHeld
<1>1. IndInv => LeaseHeld
    BY DEF IndInv
<1>. QED
    BY <1>1, InvariantHolds, PTL

(* Two unexposed jobs of one (video, operation) are never active together. *)
THEOREM MutualExclusion == Spec => []Exclusive
<1>1. IndInv => Exclusive
    BY DEF IndInv, LeaseHeld, Exclusive
<1>. QED
    BY <1>1, InvariantHolds, PTL

-----------------------------------------------------------------------------
(***************************************************************************)
(* What a client is told about a job holds, for every set of calls, keys   *)
(* and workers and every set of faults: its row exists, a complete row has *)
(* its result, and a final row stays final.                                *)
(***************************************************************************)
(* The calls that have not inserted their row yet. *)
Rowless == {"idle", "find", "recheck", "steal", "retry", "insert"}

RowFollowsCall ==
    \A j \in Job : /\ call[j] \in Rowless => row[j] = "none"
                   /\ call[j] = "push" => row[j] = "queued"

(* A worker past the commit of the result runs a job with a result, and one *)
(* that announces it runs a job with a callback_url.                        *)
PastStore ==
    \A w \in Worker :
        /\ at[w] \in {"finish", "notify"} => doing[w] \in stored
        /\ at[w] = "notify" => doing[w] \in Callback

(* A task that has not come to its end has a row that is not final, unless  *)
(* its call was not accepted and undid it.                                  *)
BeforeEnd == {"load", "giveup", "start", "work", "store", "finish"}
UnfinishedNotFinal ==
    /\ \A j \in Job : Waiting(j) /\ FinalRow(j) => call[j] # "accepted"
    /\ \A w \in Worker :
          at[w] \in BeforeEnd /\ FinalRow(doing[w]) => call[doing[w]] # "accepted"

ResultInv ==
    /\ RowFollowsCall
    /\ QueuedHasRow
    /\ AnswerResolves
    /\ CompleteIsStored
    /\ PastStore
    /\ UnfinishedNotFinal
    /\ notified \subseteq stored

LEMMA InitResultInv == Init => ResultInv
<1> SUFFICES ASSUME Init PROVE ResultInv
    OBVIOUS
<1>1. \A j \in Job : ~Waiting(j) /\ ~Running(j)
    BY InitInactive DEF Active
<1>. QED
    BY <1>1 DEF Init, ResultInv, RowFollowsCall, QueuedHasRow, AnswerResolves,
                CompleteIsStored, PastStore, UnfinishedNotFinal, BeforeEnd, FinalRow

(* A step of call j that moves no task: its row and its answer may change. *)
LEMMA CallMoveResultInv ==
    ASSUME IndInv, ResultInv, NEW j \in Job, NEW to \in CallState, NEW r \in RowStatus,
           call' = [call EXCEPT ![j] = to],
           row' = [row EXCEPT ![j] = r],
           UNCHANGED <<queue, workerVars>>,
           to # "accepted",
           to \in Rowless => r = "none",
           to = "push" => r = "queued",
           r = "none" => row[j] = "none",
           r = "complete" => row[j] = "complete",
           \A i \in Job : answer'[i] # NoJob =>
               \/ answer'[i] = answer[i]
               \/ answer'[i] \in Job /\ row'[answer'[i]] # "none"
                                     /\ KeyOf[answer'[i]] = KeyOf[i]
    PROVE  ResultInv'
<1> USE DEF ResultInv, workerVars
<1>1. \A i \in Job : row'[i] = IF i = j THEN r ELSE row[i]
    BY DEF IndInv, TypeOK
<1>2. \A i \in Job : Waiting(i)' = Waiting(i) /\ Running(i)' = Running(i)
    BY DEF Waiting, Running, RunBy, TypeOfJob
<1>3. RowFollowsCall'
    BY <1>1 DEF RowFollowsCall, IndInv, TypeOK
<1>4. QueuedHasRow'
    BY <1>1, <1>2 DEF QueuedHasRow
<1>5. AnswerResolves'
    <2> SUFFICES ASSUME NEW i \in Job, answer'[i] # NoJob
                 PROVE  row'[answer'[i]] # "none" /\ KeyOf[answer'[i]] = KeyOf[i]
        BY DEF AnswerResolves
    <2>1. CASE answer'[i] = answer[i]
        <3>1. answer[i] \in Job /\ row[answer[i]] # "none" /\ KeyOf[answer[i]] = KeyOf[i]
            BY <2>1 DEF AnswerResolves, IndInv, TypeOK
        <3>. QED
            BY <1>1, <2>1, <3>1
    <2>. QED
        BY <2>1
<1>6. CompleteIsStored'
    BY <1>1 DEF CompleteIsStored
<1>7. PastStore'
    BY DEF PastStore
<1>8. \A i \in Job : call'[i] = "accepted" =>
          call[i] = "accepted" /\ (FinalRow(i)' => FinalRow(i))
    BY <1>1 DEF FinalRow, IndInv, TypeOK
<1>9. UnfinishedNotFinal'
    <2>1. \A i \in Job : Waiting(i)' /\ FinalRow(i)' => call'[i] # "accepted"
        BY <1>2, <1>8 DEF UnfinishedNotFinal
    <2>2. ASSUME NEW w \in Worker, at'[w] \in BeforeEnd, FinalRow(doing[w])'
          PROVE  call'[doing'[w]] # "accepted"
        <3>1. doing[w] \in Job
            BY <2>2 DEF IndInv, WorkersWellFormed, TypeOK, BeforeEnd
        <3>2. at'[w] = at[w] /\ doing'[w] = doing[w]
            OBVIOUS
        <3>3. FinalRow(doing[w]) => call[doing[w]] # "accepted"
            BY <2>2, <3>2 DEF UnfinishedNotFinal
        <3>. QED
            BY <1>8, <2>2, <3>1, <3>2, <3>3
    <2>. QED
        BY <2>1, <2>2 DEF UnfinishedNotFinal, FinalRow
<1>. QED
    BY <1>3, <1>4, <1>5, <1>6, <1>7, <1>9

(* Pushing the task: the call has its row, and the task waits from now on. *)
LEMMA PushResultInv == ASSUME IndInv, ResultInv, NEW j \in Job, Push(j) PROVE ResultInv'
<1> USE DEF ResultInv, Goto, workerVars
<1>1. call[j] = "push" /\ row[j] = "queued" /\ row' = row
    BY DEF Push, RowFollowsCall
<1>2. PICK to \in {"accepted", "undo"} : call' = [call EXCEPT ![j] = to]
    BY DEF Push
<1>3. /\ UNCHANGED <<at, doing, stored, notified>> /\ exposed \subseteq exposed'
      /\ answer' \in {answer, [answer EXCEPT ![j] = j]}
      /\ queue' \in {queue, Pushed(j)}
    BY DEF Push
<1>4. \A i \in Job : /\ Waiting(i)' => Waiting(i) \/ i = j
                     /\ Running(i)' = Running(i)
    <2>1. ~Waiting(j) /\ ~Running(j)
        BY <1>1 DEF IndInv, PushedByCall
    <2>2. CASE queue' = queue
        BY <1>3, <2>2 DEF Waiting, Running, RunBy, TypeOfJob
    <2>3. CASE queue' = Pushed(j)
        BY <1>3, <2>1, <2>3, PushedPlaces DEF IndInv
    <2>. QED
        BY <1>3, <2>2, <2>3
<1>5. RowFollowsCall'
    BY <1>1, <1>2 DEF RowFollowsCall, Rowless, IndInv, TypeOK
<1>6. QueuedHasRow'
    BY <1>1, <1>4 DEF QueuedHasRow
<1>7. AnswerResolves'
    <2>1. \A i \in Job : answer'[i] = answer[i] \/ (i = j /\ answer'[i] = j)
        BY <1>3 DEF IndInv, TypeOK
    <2>. QED
        BY <1>1, <2>1 DEF AnswerResolves
<1>8. CompleteIsStored' /\ PastStore'
    BY <1>1, <1>3 DEF CompleteIsStored, PastStore
<1>9. UnfinishedNotFinal'
    <2>1. \A i \in Job : i # j => call'[i] = call[i]
        BY <1>2 DEF IndInv, TypeOK
    <2>2. \A w \in Worker : at[w] \in BeforeEnd => doing[w] \in Job
        BY DEF IndInv, WorkersWellFormed, TypeOK, BeforeEnd
    <2>. QED
        BY <1>1, <1>3, <1>4, <2>1, <2>2 DEF UnfinishedNotFinal, FinalRow
<1>. QED
    BY <1>3, <1>5, <1>6, <1>7, <1>8, <1>9

LEMMA CallStepResultInv ==
    ASSUME IndInv, ResultInv, NEW j \in Job, Acquire(j) \/ CallStep(j) \/ ApiCrash(j)
    PROVE  ResultInv'
<1> USE DEF Goto, CallState, Rowless
<1>1. row[j] \in RowStatus /\ row = [row EXCEPT ![j] = row[j]]
    BY DEF IndInv, TypeOK
<1>2. CASE Acquire(j) \/ Retry(j)
    <2>1. PICK to \in {"insert", "find", "conflict", "error"} :
             call' = [call EXCEPT ![j] = to]
        BY <1>2 DEF Acquire, Retry, TryLock
    <2>2. /\ row[j] = "none" /\ row' = [row EXCEPT ![j] = "none"]
          /\ UNCHANGED <<answer, queue, workerVars, exposed>>
        BY <1>1, <1>2 DEF Acquire, Retry, TryLock, ResultInv, RowFollowsCall
    <2>. QED
        BY <2>1, <2>2, CallMoveResultInv DEF RowStatus
<1>3. CASE Find(j) \/ Recheck(j)
    <2>1. PICK to \in {"duplicate", "recheck", "steal"} : call' = [call EXCEPT ![j] = to]
        BY <1>3 DEF Find, Recheck, Lookup
    <2>2. /\ row[j] = "none" /\ row' = [row EXCEPT ![j] = "none"]
          /\ UNCHANGED <<queue, workerVars, exposed>>
        BY <1>1, <1>3 DEF Find, Recheck, Lookup, ResultInv, RowFollowsCall
    <2>3. ASSUME NEW i \in Job, answer'[i] # NoJob, answer'[i] # answer[i]
          PROVE  /\ answer'[i] \in Job /\ row'[answer'[i]] # "none"
                 /\ KeyOf[answer'[i]] = KeyOf[i]
        <3>1. PICK e \in InProgress(KeyOf[j]) : answer' = [answer EXCEPT ![j] = e]
            BY <1>3, <2>3 DEF Find, Recheck, Lookup
        <3>2. i = j /\ answer'[i] = e
            BY <2>3, <3>1 DEF IndInv, TypeOK
        <3>3. e \in Job /\ KeyOf[e] = KeyOf[j] /\ row[e] \in {"queued", "running"}
            BY <3>1 DEF InProgress
        <3>. QED
            BY <1>3, <3>2, <3>3 DEF Find, Recheck, Lookup
    <2>. QED
        BY <2>1, <2>2, <2>3, CallMoveResultInv DEF RowStatus
<1>4. CASE Steal(j)
    <2>1. PICK to \in {"retry", "error"} : call' = [call EXCEPT ![j] = to]
        BY <1>4 DEF Steal
    <2>2. /\ row[j] = "none" /\ row' = [row EXCEPT ![j] = "none"]
          /\ UNCHANGED <<answer, queue, workerVars>>
        BY <1>1, <1>4 DEF Steal, ResultInv, RowFollowsCall
    <2>. QED
        BY <2>1, <2>2, CallMoveResultInv DEF RowStatus
<1>5. CASE Insert(j)
    <2>1. PICK to \in {"push", "error"}, r \in {"none", "queued"} :
             /\ call' = [call EXCEPT ![j] = to] /\ row' = [row EXCEPT ![j] = r]
             /\ to = "push" => r = "queued"
             /\ r = "none" => row[j] = "none"
        BY <1>1, <1>5 DEF Insert, ResultInv, RowFollowsCall
    <2>2. UNCHANGED <<answer, queue, workerVars, exposed>>
        BY <1>5 DEF Insert
    <2>. QED
        BY <2>1, <2>2, CallMoveResultInv DEF RowStatus
<1>6. CASE Push(j)
    BY <1>6, PushResultInv
<1>7. CASE Undo(j)
    <2>1. PICK to \in {"unlock", "error"} : call' = [call EXCEPT ![j] = to]
        BY <1>7 DEF Undo
    <2>2. PICK r \in {row[j], "failed"} : row' = [row EXCEPT ![j] = r]
        BY <1>1, <1>7 DEF Undo
    <2>3. call[j] = "undo" /\ UNCHANGED <<answer, queue, workerVars, exposed>>
        BY <1>7 DEF Undo
    <2>4. r \in RowStatus
        BY <1>1 DEF RowStatus
    <2>. QED
        BY <2>1, <2>2, <2>3, <2>4, CallMoveResultInv
<1>8. CASE Unlock(j)
    <2>1. /\ call' = [call EXCEPT ![j] = "error"] /\ row' = [row EXCEPT ![j] = row[j]]
          /\ UNCHANGED <<answer, queue, workerVars, exposed>>
        BY <1>1, <1>8 DEF Unlock
    <2>. QED
        BY <1>1, <2>1, CallMoveResultInv
<1>9. CASE ApiCrash(j)
    <2>1. /\ call' = [call EXCEPT ![j] = "dead"] /\ row' = [row EXCEPT ![j] = row[j]]
          /\ UNCHANGED <<answer, queue, workerVars, exposed>>
        BY <1>1, <1>9 DEF ApiCrash
    <2>. QED
        BY <1>1, <2>1, CallMoveResultInv
<1>. QED
    BY <1>2, <1>3, <1>4, <1>5, <1>6, <1>7, <1>8, <1>9 DEF CallStep

(* A worker takes a step of its task, or ends it. *)
LEMMA WorkerMoveResultInv ==
    ASSUME IndInv, ResultInv, NEW w \in Worker, at[w] # "idle", NEW to \in WorkerStep,
           NEW r \in RowStatus,
           at' = [at EXCEPT ![w] = to],
           doing' = doing \/ (to = "idle" /\ doing' = [doing EXCEPT ![w] = NoJob]),
           row' = [row EXCEPT ![doing[w]] = r],
           UNCHANGED <<callVars, queue, exposed>>,
           stored \subseteq stored', notified' \subseteq stored',
           r # row[doing[w]] => r # "none" /\ (r = "complete" => doing[w] \in stored'),
           to \in {"finish", "notify"} => doing[w] \in stored',
           to = "notify" => doing[w] \in Callback,
           to \in BeforeEnd => r = "running" \/ (at[w] \in BeforeEnd /\ r = row[doing[w]])
    PROVE  ResultInv'
<1> DEFINE j == doing[w]
<1> USE DEF ResultInv, callVars
<1>1. /\ j \in Job /\ Running(j) /\ ~Waiting(j)
      /\ \A v \in Worker : v # w => doing[v] # j
    BY KeyTyping DEF IndInv, WorkersWellFormed, TypeOK, Running, RunBy, OnePlace, Waiting
<1>2. /\ \A i \in Job : row'[i] = IF i = j THEN r ELSE row[i]
      /\ \A v \in Worker : v # w => at'[v] = at[v] /\ doing'[v] = doing[v]
      /\ at'[w] = to /\ doing'[w] \in {j, NoJob} /\ (to # "idle" => doing'[w] = j)
    BY <1>1 DEF IndInv, TypeOK
<1>3. \A i \in Job : Waiting(i)' = Waiting(i) /\ (Running(i)' => Running(i))
    BY <1>2, KeyTyping DEF Waiting, Running, RunBy, TypeOfJob
<1>4. call[j] \notin Rowless \union {"push"}
    BY <1>1 DEF IndInv, PushedByCall, Rowless
<1>5. RowFollowsCall'
    BY <1>2, <1>4 DEF RowFollowsCall
<1>6. row[j] # "none" /\ r # "none"
    BY <1>1 DEF QueuedHasRow
<1>7. QueuedHasRow'
    BY <1>2, <1>3, <1>6 DEF QueuedHasRow
<1>8. AnswerResolves'
    BY <1>2, <1>6 DEF AnswerResolves, IndInv, TypeOK
<1>9. CompleteIsStored'
    BY <1>2 DEF CompleteIsStored
<1>10. PastStore'
    BY <1>2 DEF PastStore
<1>11. UnfinishedNotFinal'
    <2>1. \A i \in Job : Waiting(i)' /\ FinalRow(i)' => call'[i] # "accepted"
        BY <1>1, <1>2, <1>3 DEF UnfinishedNotFinal, FinalRow
    <2>2. ASSUME NEW v \in Worker, at'[v] \in BeforeEnd, FinalRow(doing[v])'
          PROVE  call'[doing'[v]] # "accepted"
        <3>1. CASE v = w
            BY <1>1, <1>2, <2>2, <3>1 DEF UnfinishedNotFinal, FinalRow, BeforeEnd
        <3>2. CASE v # w
            <4>1. doing[v] \in Job /\ doing'[v] = doing[v] /\ doing[v] # j
                BY <1>1, <1>2, <2>2, <3>2 DEF IndInv, WorkersWellFormed, TypeOK, BeforeEnd
            <4>. QED
                BY <1>2, <2>2, <3>2, <4>1 DEF UnfinishedNotFinal, FinalRow
        <3>. QED
            BY <3>1, <3>2
    <2>. QED
        BY <2>1, <2>2 DEF UnfinishedNotFinal, FinalRow
<1>. QED
    BY <1>5, <1>7, <1>8, <1>9, <1>10, <1>11

LEMMA TakeResultInv ==
    ASSUME IndInv, ResultInv, NEW w \in Worker, Take(w) PROVE ResultInv'
<1> DEFINE h == Head(queue[Serves[w]])
<1> USE DEF ResultInv, callVars, MovesTo
<1>1. /\ IndInv' /\ h \in Job /\ Waiting(h)
      /\ \A i \in Job : (Waiting(i) \/ Running(i))' <=> (Waiting(i) \/ Running(i))
    BY TakeIndInv
<1>2. /\ UNCHANGED <<lock, row, call, answer, stored, notified, exposed>>
      /\ \A v \in Worker : v # w => at'[v] = at[v] /\ doing'[v] = doing[v]
      /\ at'[w] = "load" /\ doing'[w] = h /\ doing[w] = NoJob
    BY DEF Take, IndInv, TypeOK, WorkersWellFormed
<1>3. \A i \in Job : Waiting(i)' => Waiting(i)
    <2> SUFFICES ASSUME NEW i \in Job, Waiting(i)', Running(i) PROVE FALSE
        BY <1>1
    <2>1. PICK v \in Worker : doing[v] = i
        BY DEF Running, RunBy
    <2>2. doing'[v] = i
        BY <1>2, <2>1, KeyTyping
    <2>. QED
        BY <1>1, <2>2, KeyTyping DEF IndInv, OnePlace, Waiting, RunBy
<1>4. RowFollowsCall' /\ AnswerResolves' /\ CompleteIsStored'
    BY <1>2 DEF RowFollowsCall, AnswerResolves, CompleteIsStored
<1>5. QueuedHasRow'
    BY <1>1, <1>2 DEF QueuedHasRow
<1>6. PastStore'
    BY <1>2 DEF PastStore
<1>7. UnfinishedNotFinal'
    <2>1. \A i \in Job : Waiting(i)' /\ FinalRow(i)' => call'[i] # "accepted"
        BY <1>2, <1>3 DEF UnfinishedNotFinal, FinalRow
    <2>2. \A v \in Worker :
             at'[v] \in BeforeEnd /\ FinalRow(doing[v])' => call'[doing'[v]] # "accepted"
        BY <1>1, <1>2 DEF UnfinishedNotFinal, FinalRow
    <2>. QED
        BY <2>1, <2>2 DEF UnfinishedNotFinal, FinalRow
<1>. QED
    BY <1>2, <1>4, <1>5, <1>6, <1>7

LEMMA WorkerStepResultInv ==
    ASSUME IndInv, ResultInv, NEW w \in Worker, WorkerStepOf(w) \/ HorseKilled(w)
    PROVE  ResultInv'
<1> DEFINE j == doing[w]
<1> USE DEF MovesTo, WorkerStep, BeforeEnd
<1>1. CASE Take(w)
    BY <1>1, TakeResultInv
<1>2. CASE ~Take(w)
    <2>1. at[w] # "idle" /\ j \in Job
        BY <1>2 DEF WorkerStepOf, HorseKilled, Load, GiveUp, Start, Work, Store,
                    Finish, Notify, Fail, Release, IndInv, WorkersWellFormed, TypeOK
    <2>2. row[j] \in RowStatus /\ row = [row EXCEPT ![j] = row[j]]
        BY <2>1 DEF IndInv, TypeOK
    <2>3. notified \subseteq stored
        BY DEF ResultInv
    <2>4. CASE Load(w) \/ Work(w) \/ Release(w) \/ HorseKilled(w)
        <3>1. PICK to \in {"start", "idle", "giveup", "store", "fail"} :
                 /\ at' = [at EXCEPT ![w] = to]
                 /\ doing' = doing \/ (to = "idle" /\ doing' = [doing EXCEPT ![w] = NoJob])
                 /\ to \in BeforeEnd => at[w] \in BeforeEnd
            BY <2>4 DEF Load, Work, Release, HorseKilled, TaskEnds
        <3>2. UNCHANGED <<row, callVars, queue, exposed, stored, notified>>
            BY <2>4 DEF Load, Work, Release, HorseKilled, callVars
        <3>. QED
            BY <2>1, <2>2, <2>3, <3>1, <3>2, WorkerMoveResultInv
    <2>5. CASE GiveUp(w) \/ Fail(w)
        <3>1. PICK to \in {"idle", "release"}, r \in {row[j], "failed"} :
                 /\ at' = [at EXCEPT ![w] = to]
                 /\ doing' = doing \/ (to = "idle" /\ doing' = [doing EXCEPT ![w] = NoJob])
                 /\ row' = [row EXCEPT ![j] = r]
            BY <2>2, <2>5 DEF GiveUp, Fail, TaskEnds
        <3>2. UNCHANGED <<callVars, queue, exposed, stored, notified>> /\ r \in RowStatus
            BY <2>2, <2>5 DEF GiveUp, Fail, callVars, RowStatus
        <3>. QED
            BY <2>1, <2>2, <2>3, <3>1, <3>2, WorkerMoveResultInv
    <2>6. CASE Start(w)
        <3>1. PICK to \in {"work", "release", "fail"}, r \in {row[j], "running"} :
                 /\ at' = [at EXCEPT ![w] = to] /\ row' = [row EXCEPT ![j] = r]
                 /\ to = "work" => r = "running"
            BY <2>2, <2>6 DEF Start
        <3>2. UNCHANGED <<callVars, queue, doing, exposed, stored, notified>> /\ r \in RowStatus
            BY <2>2, <2>6 DEF Start, callVars, RowStatus
        <3>. QED
            BY <2>1, <2>2, <2>3, <3>1, <3>2, WorkerMoveResultInv
    <2>7. CASE Store(w)
        <3>1. PICK to \in {"finish", "fail"} :
                 /\ at' = [at EXCEPT ![w] = to]
                 /\ to = "finish" => j \in stored'
                 /\ at[w] \in BeforeEnd
                 /\ stored \subseteq stored'
            BY <2>7 DEF Store
        <3>2. UNCHANGED <<row, callVars, queue, doing, exposed, notified>>
            BY <2>7 DEF Store, callVars
        <3>. QED
            BY <2>1, <2>2, <2>3, <3>1, <3>2, WorkerMoveResultInv
    <2>8. CASE Finish(w)
        <3>1. j \in stored
            BY <2>8 DEF Finish, ResultInv, PastStore
        <3>2. PICK to \in {"notify", "release", "fail"}, r \in {row[j], "complete"} :
                 /\ at' = [at EXCEPT ![w] = to] /\ row' = [row EXCEPT ![j] = r]
                 /\ to = "notify" => j \in Callback
            BY <2>2, <2>8 DEF Finish
        <3>3. UNCHANGED <<callVars, queue, doing, exposed, stored, notified>> /\ r \in RowStatus
            BY <2>2, <2>8 DEF Finish, callVars, RowStatus
        <3>. QED
            BY <2>1, <2>2, <2>3, <3>1, <3>2, <3>3, WorkerMoveResultInv
    <2>9. CASE Notify(w)
        <3>1. j \in stored
            BY <2>9 DEF Notify, ResultInv, PastStore
        <3>2. PICK to \in {"release", "fail"} : at' = [at EXCEPT ![w] = to]
            BY <2>9 DEF Notify
        <3>3. /\ UNCHANGED <<row, callVars, queue, doing, exposed, stored>>
              /\ notified' \subseteq stored
            BY <2>3, <2>9, <3>1 DEF Notify, callVars
        <3>. QED
            BY <2>1, <2>2, <3>2, <3>3, WorkerMoveResultInv
    <2>. QED
        BY <1>2, <2>4, <2>5, <2>6, <2>7, <2>8, <2>9 DEF WorkerStepOf
<1>. QED
    BY <1>1, <1>2

LEMMA NextResultInv == IndInv /\ ResultInv /\ [Next]_vars => ResultInv'
<1> SUFFICES ASSUME IndInv, ResultInv, [Next]_vars PROVE ResultInv'
    OBVIOUS
<1>1. ASSUME NEW j \in Job, Acquire(j) \/ CallStep(j) \/ ApiCrash(j)
      PROVE  ResultInv'
    BY <1>1, CallStepResultInv
<1>2. ASSUME NEW w \in Worker, WorkerStepOf(w) \/ HorseKilled(w)
      PROVE  ResultInv'
    BY <1>2, WorkerStepResultInv
<1>3. CASE UNCHANGED <<row, callVars, queue, workerVars>>
    BY <1>3 DEF ResultInv, RowFollowsCall, QueuedHasRow, AnswerResolves, CompleteIsStored,
                PastStore, UnfinishedNotFinal, FinalRow, Waiting, Running, RunBy, TypeOfJob,
                callVars, workerVars
<1>4. ASSUME NEW k \in Key, Expire(k)
      PROVE  ResultInv'
    BY <1>3, <1>4 DEF Expire
<1>5. CASE UNCHANGED vars
    BY <1>3, <1>5 DEF vars
<1>. QED
    BY <1>1, <1>2, <1>4, <1>5 DEF Next, Quiet

LEMMA ResultInvariantHolds == Spec => [](IndInv /\ ResultInv)
BY InvariantHolds, InitResultInv, NextResultInv, PTL DEF Spec

(* A task never finds its row missing: enqueue_job commits before it pushes, *)
(* whatever is interrupted between the two.                                  *)
THEOREM TasksHaveRows == Spec => []QueuedHasRow
<1>1. ResultInv => QueuedHasRow
    BY DEF ResultInv
<1>. QED
    BY <1>1, ResultInvariantHolds, PTL

(* The job id a client was given names a row of the key it asked for. *)
THEOREM AnswersResolve == Spec => []AnswerResolves
<1>1. ResultInv => AnswerResolves
    BY DEF ResultInv
<1>. QED
    BY <1>1, ResultInvariantHolds, PTL

(* A row that says complete has its result committed, whatever step of the  *)
(* task was interrupted.                                                    *)
THEOREM CompleteHasResult == Spec => []CompleteIsStored
<1>1. ResultInv => CompleteIsStored
    BY DEF ResultInv
<1>. QED
    BY <1>1, ResultInvariantHolds, PTL

(* The final status of an accepted job stays, except that complete becomes   *)
(* failed at the hands of its own task, before that releases the lock: for   *)
(* every set of calls and workers and every set of faults.                   *)
THEOREM FinalRowsStay == Spec => FinalStaysFinal
<1> DEFINE Last(j) == /\ row[j] = "complete" /\ row'[j] = "failed"
                      /\ \E w \in Worker : RunBy(w, j) /\ at[w] = "fail"
<1>1. ASSUME IndInv, ResultInv, [Next]_vars, NEW j \in Job,
             call[j] = "accepted", FinalRow(j), row'[j] # row[j]
      PROVE  Last(j)
    <2>1. row[j] \in {"complete", "failed"} /\ row \in [Job -> RowStatus]
        BY <1>1 DEF FinalRow, IndInv, TypeOK
    <2>2. ASSUME NEW i \in Job, Acquire(i) \/ CallStep(i) \/ ApiCrash(i)
          PROVE  FALSE
        <3>1. CASE Insert(i)
            <4>1. row[i] = "none" /\ row' \in {row, [row EXCEPT ![i] = "queued"]}
                BY <1>1, <3>1 DEF Insert, Goto, ResultInv, RowFollowsCall, Rowless
            <4>. QED
                BY <1>1, <2>1, <4>1
        <3>2. CASE Undo(i)
            <4>1. call[i] = "undo" /\ row' \in {row, [row EXCEPT ![i] = "failed"]}
                BY <3>2 DEF Undo, Goto
            <4>. QED
                BY <1>1, <2>1, <4>1
        <3>3. CASE ~Insert(i) /\ ~Undo(i)
            BY <1>1, <2>2, <3>3 DEF Acquire, CallStep, ApiCrash, Find, Recheck, Lookup,
                                    Steal, Retry, TryLock, Push, Unlock
        <3>. QED
            BY <3>1, <3>2, <3>3
    <2>3. ASSUME NEW w \in Worker, WorkerStepOf(w) \/ HorseKilled(w)
          PROVE  Last(j)
        <3>1. CASE Start(w) \/ Finish(w) \/ GiveUp(w)
            <4>1. PICK r \in RowStatus : row' = [row EXCEPT ![doing[w]] = r]
                BY <1>1, <2>1, <3>1 DEF Start, Finish, GiveUp, RowStatus
            <4>2. doing[w] = j
                BY <1>1, <2>1, <4>1
            <4>3. at[w] \in BeforeEnd
                BY <3>1 DEF Start, Finish, GiveUp, MovesTo, BeforeEnd
            <4>. QED
                BY <1>1, <4>2, <4>3 DEF ResultInv, UnfinishedNotFinal
        <3>2. CASE Fail(w)
            <4>1. at[w] = "fail" /\ row' = [row EXCEPT ![doing[w]] = "failed"]
                BY <1>1, <3>2 DEF Fail, MovesTo
            <4>2. doing[w] = j
                BY <1>1, <2>1, <4>1
            <4>. QED
                BY <1>1, <2>1, <4>1, <4>2 DEF RunBy
        <3>3. CASE ~(Start(w) \/ Finish(w) \/ GiveUp(w) \/ Fail(w))
            BY <1>1, <2>3, <3>3 DEF WorkerStepOf, HorseKilled, Take, Load, Work, Store,
                                    Notify, Release
        <3>. QED
            BY <3>1, <3>2, <3>3
    <2>4. ASSUME NEW k \in Key, Expire(k) PROVE FALSE
        BY <1>1, <2>4 DEF Expire
    <2>5. CASE UNCHANGED vars
        BY <1>1, <2>5 DEF vars
    <2>. QED
        BY <1>1, <2>2, <2>3, <2>4, <2>5 DEF Next, Quiet
<1>2. IndInv /\ ResultInv /\ [Next]_vars
          => [\A j \in Job : call[j] = "accepted" /\ FinalRow(j) /\ row'[j] # row[j]
                 => Last(j)]_vars
    BY <1>1
<1>. QED
    BY <1>2, ResultInvariantHolds, PTL DEF Spec, FinalStaysFinal

-----------------------------------------------------------------------------
(* Between the insert and the final status a row always has someone who is  *)
(* going to move it on: its call, its queue or a worker before its last     *)
(* write to the row.                                                        *)
BeforeLastWrite == {"load", "start", "work", "store", "finish", "fail"}
Tended(j) == \E w \in Worker : doing[w] = j /\ at[w] \in BeforeLastWrite
Kept(j) == call[j] \in {"push", "undo"} \/ Waiting(j) \/ Tended(j)
RowInFlight(j) == row[j] \in {"queued", "running"}
RowsKept == \A j \in Job : RowInFlight(j) => Kept(j)

(* Without these faults a step of enqueue_job or of a task runs to its end. *)
Uninterrupted == Faults \intersect {"api", "horse", "step"} = {}

LEMMA CallRowsKept ==
    ASSUME IndInv, RowsKept, Uninterrupted, NEW j \in Job, Acquire(j) \/ CallStep(j)
    PROVE  RowsKept'
<1>1. /\ call \in [Job -> CallState] /\ row \in [Job -> RowStatus]
      /\ UNCHANGED <<at, doing>>
    BY DEF IndInv, TypeOK, Acquire, CallStep, Find, Recheck, Lookup, Steal, Retry, Insert,
           Push, Undo, Unlock, workerVars
<1>2. \A i \in Job : Tended(i)' = Tended(i)
    BY <1>1 DEF Tended
<1>3. \A i \in Job : Waiting(i) => Waiting(i)'
    <2>1. CASE queue' = queue
        BY <2>1 DEF Waiting, TypeOfJob
    <2>2. CASE queue' # queue
        <3>1. Push(j) /\ queue' = Pushed(j)
            BY <2>2 DEF Acquire, CallStep, Find, Recheck, Lookup, Steal, Retry, Insert,
                        Push, Undo, Unlock
        <3>2. call[j] = "push" /\ ~Waiting(j) /\ ~Running(j)
            BY <3>1 DEF Push, Goto, IndInv, PushedByCall
        <3>. QED
            BY <1>1, <3>1, <3>2, PushedPlaces DEF IndInv
    <2>. QED
        BY <2>1, <2>2
<1>4. \A i \in Job \ {j} : call'[i] = call[i] /\ row'[i] = row[i]
    BY <1>1 DEF Acquire, TryLock, CallStep, Find, Recheck, Lookup, Steal, Retry, Insert,
                Push, Undo, Unlock, Goto
<1>5. RowInFlight(j)' => Kept(j)'
    <2>1. CASE Insert(j)
        BY <1>1, <2>1 DEF Insert, Goto, Kept, Uninterrupted
    <2>2. CASE Push(j)
        <3>1. CASE queue' = Pushed(j)
            <4>1. call[j] = "push" /\ ~Waiting(j) /\ ~Running(j)
                BY <2>2 DEF Push, Goto, IndInv, PushedByCall
            <4>. QED
                BY <1>1, <3>1, <4>1, PushedPlaces DEF IndInv, Kept
        <3>2. CASE queue' # Pushed(j)
            BY <1>1, <2>2, <3>2 DEF Push, Goto, Kept
        <3>. QED
            BY <3>1, <3>2
    <2>3. CASE Undo(j)
        BY <1>1, <2>3 DEF Undo, RowInFlight, Uninterrupted
    <2>4. CASE ~Insert(j) /\ ~Push(j) /\ ~Undo(j)
        <3>1. call[j] \notin {"push", "undo"} /\ row' = row
            BY <2>4 DEF Acquire, TryLock, CallStep, Find, Recheck, Lookup, Steal, Retry,
                        Unlock, Goto
        <3>. QED
            BY <1>2, <1>3, <3>1 DEF RowsKept, RowInFlight, Kept
    <2>. QED
        BY <2>1, <2>2, <2>3, <2>4
<1>6. ASSUME NEW i \in Job \ {j}, RowInFlight(i)' PROVE Kept(i)'
    BY <1>2, <1>3, <1>4, <1>6 DEF RowsKept, RowInFlight, Kept
<1>. QED
    BY <1>5, <1>6 DEF RowsKept

LEMMA WorkerRowsKept ==
    ASSUME IndInv, RowsKept, Uninterrupted, NEW w \in Worker, WorkerStepOf(w)
    PROVE  RowsKept'
<1>1. /\ at \in [Worker -> WorkerStep] /\ doing \in [Worker -> Job \union {NoJob}]
      /\ row \in [Job -> RowStatus]
      /\ call' = call
      /\ \A v \in Worker \ {w} : at'[v] = at[v] /\ doing'[v] = doing[v]
    BY DEF IndInv, TypeOK, WorkerStepOf, Take, Load, GiveUp, Start, Work, Store, Finish,
           Notify, Fail, Release, MovesTo, TaskEnds, callVars
<1>2. CASE Take(w)
    <2>1. PICK h \in Job : h = Head(queue[Serves[w]])
        BY <1>2, TakeIndInv
    <2>2. /\ row' = row /\ at[w] = "idle" /\ doing'[w] = h /\ at'[w] = "load"
          /\ \A i \in Job : (Waiting(i) \/ Running(i))' <=> (Waiting(i) \/ Running(i))
        BY <1>1, <1>2, <2>1, TakeIndInv DEF Take, MovesTo
    <2>3. Tended(h)'
        BY <2>2 DEF Tended, BeforeLastWrite
    <2>4. ASSUME NEW i \in Job, i # h, Tended(i) PROVE Tended(i)'
        BY <1>1, <2>2, <2>4 DEF Tended, BeforeLastWrite
    <2>5. ASSUME NEW i \in Job, i # h, Waiting(i) PROVE Waiting(i)'
        <3>1. ~Running(i)
            BY <2>5, KeyTyping DEF IndInv, OnePlace, Waiting, Running
        <3>2. ~Running(i)'
            BY <1>1, <2>2, <2>5, <3>1 DEF Running, RunBy
        <3>. QED
            BY <2>2, <2>5, <3>2
    <2>. QED
        BY <1>1, <2>2, <2>3, <2>4, <2>5 DEF RowsKept, RowInFlight, Kept
<1>3. CASE ~Take(w)
    <2>1. PICK j \in Job : j = doing[w]
        BY <1>1, <1>3 DEF IndInv, WorkersWellFormed, WorkerStepOf, Load, GiveUp, Start, Work,
                          Store, Finish, Notify, Fail, Release, MovesTo
    <2>2. queue' = queue /\ \A i \in Job \ {j} : row'[i] = row[i]
        BY <1>1, <1>3, <2>1
           DEF WorkerStepOf, Load, GiveUp, Start, Work, Store, Finish, Notify, Fail, Release
    <2>3. \A i \in Job : Waiting(i)' = Waiting(i)
        BY <2>2 DEF Waiting, TypeOfJob
    <2>4. ASSUME NEW i \in Job \ {j}, RowInFlight(i)' PROVE Kept(i)'
        <3>1. Tended(i) => Tended(i)'
            BY <1>1, <2>1 DEF Tended
        <3>. QED
            BY <1>1, <2>2, <2>3, <2>4, <3>1 DEF RowsKept, RowInFlight, Kept
    <2>5. ASSUME RowInFlight(j)' PROVE Kept(j)'
        <3>1. \/ at'[w] \in BeforeLastWrite /\ doing'[w] = j
              \/ row'[j] \in {"complete", "failed"}
              \/ at[w] \notin BeforeLastWrite /\ row'[j] = row[j]
            <4>1. CASE Start(w) \/ Work(w) \/ Store(w)
                BY <1>1, <2>1, <4>1
                   DEF Start, Work, Store, MovesTo, Uninterrupted, BeforeLastWrite
            <4>4. CASE Load(w)
                <5>1. row[j] # "none"
                    BY <1>1, <2>5, <4>4 DEF Load, RowInFlight
                <5>. QED
                    BY <1>1, <2>1, <4>4, <5>1
                       DEF Load, MovesTo, Uninterrupted, BeforeLastWrite
            <4>2. CASE Finish(w) \/ Notify(w) \/ Fail(w)
                BY <1>1, <2>1, <4>2
                   DEF Finish, Notify, Fail, MovesTo, Uninterrupted, BeforeLastWrite
            <4>3. CASE GiveUp(w) \/ Release(w)
                BY <1>1, <2>1, <4>3 DEF GiveUp, Release, BeforeLastWrite
            <4>. QED
                BY <1>3, <4>1, <4>2, <4>3, <4>4 DEF WorkerStepOf
        <3>2. CASE at'[w] \in BeforeLastWrite /\ doing'[w] = j
            BY <3>2 DEF Kept, Tended
        <3>3. CASE at[w] \notin BeforeLastWrite /\ row'[j] = row[j]
            <4>1. ~Tended(j)
                BY <2>1, <3>3, KeyTyping DEF Tended, IndInv, OnePlace
            <4>. QED
                BY <1>1, <2>3, <2>5, <3>3, <4>1 DEF RowsKept, RowInFlight, Kept
        <3>. QED
            BY <2>5, <3>1, <3>2, <3>3 DEF RowInFlight
    <2>. QED
        BY <2>4, <2>5 DEF RowsKept
<1>. QED
    BY <1>2, <1>3

LEMMA NextRowsKept ==
    ASSUME IndInv, RowsKept, Uninterrupted, [Next]_vars
    PROVE  RowsKept'
<1>1. ASSUME NEW j \in Job, Acquire(j) \/ CallStep(j) \/ ApiCrash(j) PROVE RowsKept'
    BY <1>1, CallRowsKept DEF ApiCrash, Uninterrupted
<1>2. ASSUME NEW w \in Worker, WorkerStepOf(w) \/ HorseKilled(w) PROVE RowsKept'
    BY <1>2, WorkerRowsKept DEF HorseKilled, Uninterrupted
<1>3. ASSUME UNCHANGED <<row, callVars, queue, workerVars>> PROVE RowsKept'
    BY <1>3 DEF RowsKept, RowInFlight, Kept, Tended, Waiting, TypeOfJob, callVars, workerVars
<1>. QED
    BY <1>1, <1>2, <1>3 DEF Next, Quiet, Expire, vars

(* Unless a process dies or a step is interrupted, no row stays behind in   *)
(* flight: not when Redis raises in the middle of enqueue_job, and not when *)
(* a lock expires or is stolen under its job.                               *)
THEOREM NoRowIsLost ==
    ASSUME Faults \intersect {"api", "horse", "step"} = {}
    PROVE  Spec => []NoPhantomRow
<1>1. Uninterrupted
    BY DEF Uninterrupted
<1>2. Init => RowsKept
    BY DEF Init, RowsKept, RowInFlight
<1>3. IndInv /\ RowsKept /\ [Next]_vars => RowsKept'
    BY <1>1, NextRowsKept
<1>4. IndInv /\ RowsKept => NoPhantomRow
    <2>1. \A j \in Job : Tended(j) => Running(j)
        BY DEF Tended, Running, RunBy
    <2>. QED
        BY <2>1 DEF RowsKept, RowInFlight, Kept, NoPhantomRow, Active, CallOwns
<1>. QED
    BY <1>2, <1>3, <1>4, InvariantHolds, PTL DEF Spec

-----------------------------------------------------------------------------
(***************************************************************************)
(* The refinement of JobExclusion: the jobs that are active are admitted,  *)
(* retired and exposed one at a time.                                      *)
(***************************************************************************)
(* The three ways in which a step of the pipeline shows in JobExclusion. *)
LEMMA AdmitStep ==
    ASSUME IndInv, NEW j \in Job, ~Active(j), lock[KeyOf[j]] = NoJob,
           \A i \in Job : Active(i)' <=> Active(i) \/ i = j,
           UNCHANGED exposed
    PROVE  Promise!Next
<1>1. {i \in Job : Active(i)}' = {i \in Job : Active(i)} \union {j}
    OBVIOUS
<1>2. \A i \in {i \in Job : Active(i)} : KeyOf[i] = KeyOf[j] => i \in exposed
    BY KeyTyping DEF IndInv, LeaseHeld
<1>3. Promise!Admit(j)
    BY <1>1, <1>2 DEF Promise!Admit
<1>. QED
    BY <1>3 DEF Promise!Next

LEMMA RetireStep ==
    ASSUME NEW j \in Job, Active(j), ~Active(j)',
           \A i \in Job : i # j => (Active(i)' <=> Active(i)),
           UNCHANGED exposed
    PROVE  Promise!Next
<1>1. {i \in Job : Active(i)}' = {i \in Job : Active(i)} \ {j}
    OBVIOUS
<1>2. Promise!Retire(j)
    BY <1>1 DEF Promise!Retire
<1>. QED
    BY <1>2 DEF Promise!Next

LEMMA ExposeStep ==
    ASSUME NEW j \in Job, Active(j),
           \A i \in Job : Active(i)' <=> Active(i),
           exposed' = exposed \union {j}
    PROVE  Promise!Next
<1>1. {i \in Job : Active(i)}' = {i \in Job : Active(i)}
    OBVIOUS
<1>2. Promise!Expose(j)
    BY <1>1 DEF Promise!Expose
<1>. QED
    BY <1>2 DEF Promise!Next

LEMMA StutterStep ==
    ASSUME \A i \in Job : Active(i)' <=> Active(i),
           UNCHANGED exposed
    PROVE  UNCHANGED Promise!vars
<1>1. {i \in Job : Active(i)}' = {i \in Job : Active(i)}
    OBVIOUS
<1>. QED
    BY <1>1 DEF Promise!vars

(* Taking the lock of k away exposes its holder, if that is active. *)
LEMMA RevokeStep ==
    ASSUME NEW k \in Key,
           \A i \in Job : Active(i)' <=> Active(i),
           exposed' = ExposedBy(k)
    PROVE  [Promise!Next]_(Promise!vars)
<1>1. CASE lock[k] \in Job /\ Active(lock[k])
    <2>1. exposed' = exposed \union {lock[k]}
        BY <1>1 DEF ExposedBy
    <2>. QED
        BY <1>1, <2>1, ExposeStep
<1>2. CASE ~(lock[k] \in Job /\ Active(lock[k]))
    <2>1. exposed' = exposed
        BY <1>2 DEF ExposedBy
    <2>. QED
        BY <2>1, StutterStep
<1>. QED
    BY <1>1, <1>2

(* A call that neither wins a lock nor moves a task: if its job stops being *)
(* active, it retires.                                                      *)
LEMMA CallMoveStep ==
    ASSUME TypeOK, NEW j \in Job, NEW to \in CallState,
           call' = [call EXCEPT ![j] = to],
           to \in CallOwns => call[j] \in CallOwns,
           UNCHANGED <<queue, doing, exposed>>
    PROVE  [Promise!Next]_(Promise!vars)
<1>1. \A i \in Job : Waiting(i)' = Waiting(i) /\ Running(i)' = Running(i)
    BY DEF Waiting, Running, RunBy, TypeOfJob
<1>2. \A i \in Job : i # j => (Active(i)' <=> Active(i))
    BY <1>1 DEF Active, TypeOK
<1>3. Active(j)' => Active(j)
    BY <1>1 DEF Active, TypeOK
<1>4. CASE Active(j)' <=> Active(j)
    BY <1>2, <1>4, StutterStep
<1>5. CASE Active(j) /\ ~Active(j)'
    BY <1>2, <1>5, RetireStep
<1>. QED
    BY <1>3, <1>4, <1>5

LEMMA TryLockStep ==
    ASSUME IndInv, NEW j \in Job, NEW from, NEW lost,
           from \in {"idle", "retry"}, lost \in {"find", "conflict"},
           TryLock(j, from, lost),
           UNCHANGED <<queue, doing, exposed>>
    PROVE  [Promise!Next]_(Promise!vars)
<1> USE DEF IndInv, TryLock, Goto
<1>1. \A i \in Job : Waiting(i)' = Waiting(i) /\ Running(i)' = Running(i)
    BY DEF Waiting, Running, RunBy, TypeOfJob
<1>2. ~Active(j)
    BY DEF PushedByCall, Active, CallOwns
<1>3. CASE lock[KeyOf[j]] = NoJob /\ call' = [call EXCEPT ![j] = "insert"]
    <2>1. \A i \in Job : Active(i)' <=> Active(i) \/ i = j
        BY <1>1, <1>3 DEF Active, TypeOK, CallOwns
    <2>. QED
        BY <1>2, <1>3, <2>1, AdmitStep
<1>4. CASE call' = [call EXCEPT ![j] = lost] \/ call' = [call EXCEPT ![j] = "error"]
    BY <1>4, CallMoveStep DEF CallState, CallOwns
<1>. QED
    BY <1>3, <1>4

LEMMA PushStep ==
    ASSUME IndInv, NEW j \in Job, Push(j)
    PROVE  [Promise!Next]_(Promise!vars)
<1> USE DEF IndInv, Goto, workerVars
<1>1. call[j] = "push" /\ ~Waiting(j) /\ ~Running(j) /\ UNCHANGED <<at, doing>>
    BY DEF Push, PushedByCall
<1>2. ASSUME queue' = Pushed(j), NEW to, call' = [call EXCEPT ![j] = to]
      PROVE  Active(j) /\ \A i \in Job : Active(i)' <=> Active(i)
    <2>1. /\ Waiting(j)'
          /\ \A i \in Job : i # j => Waiting(i)' = Waiting(i)
          /\ \A i \in Job : Running(i)' = Running(i)
        BY <1>1, <1>2, PushedPlaces
    <2>. QED
        BY <1>1, <1>2, <2>1 DEF Active, TypeOK, CallOwns
<1>3. CASE queue' = Pushed(j) /\ exposed' = exposed /\ Goto(j, "push", "accepted")
    BY <1>2, <1>3, StutterStep
<1>4. CASE /\ queue' = Pushed(j) /\ exposed' = exposed \union {j}
           /\ Goto(j, "push", "undo")
    BY <1>2, <1>4, ExposeStep
<1>5. CASE UNCHANGED <<queue, exposed>> /\ Goto(j, "push", "undo")
    BY <1>1, <1>5, CallMoveStep DEF CallState, CallOwns
<1>. QED
    BY <1>3, <1>4, <1>5 DEF Push

LEMMA CallRefines ==
    ASSUME IndInv, NEW j \in Job, Acquire(j) \/ CallStep(j) \/ ApiCrash(j)
    PROVE  [Promise!Next]_(Promise!vars)
<1> USE DEF Goto, workerVars
<1>1. TypeOK
    BY DEF IndInv
<1>2. CASE Acquire(j)
    BY <1>2, TryLockStep DEF Acquire
<1>3. CASE Retry(j)
    BY <1>3, TryLockStep DEF Retry
<1>4. CASE Find(j) \/ Recheck(j)
    <2>1. PICK to \in {"duplicate", "recheck", "steal"} :
             call' = [call EXCEPT ![j] = to]
        BY <1>4 DEF Find, Recheck, Lookup
    <2>. QED
        BY <1>1, <1>4, <2>1, CallMoveStep
           DEF Find, Recheck, Lookup, CallState, CallOwns
<1>5. CASE Steal(j)
    <2>1. \A i \in Job : Active(i)' <=> Active(i)
        BY <1>1, <1>5
           DEF Steal, Active, Waiting, Running, RunBy, TypeOfJob, TypeOK, CallOwns
    <2>. QED
        BY <1>5, <2>1, RevokeStep, StutterStep, KeyTyping DEF Steal
<1>6. CASE Insert(j)
    BY <1>1, <1>6, CallMoveStep DEF Insert, CallState, CallOwns
<1>7. CASE Push(j)
    BY <1>7, PushStep
<1>8. CASE Undo(j)
    BY <1>1, <1>8, CallMoveStep DEF Undo, CallState, CallOwns
<1>9. CASE Unlock(j)
    BY <1>1, <1>9, CallMoveStep DEF Unlock, CallState, CallOwns
<1>10. CASE ApiCrash(j)
    BY <1>1, <1>10, CallMoveStep DEF ApiCrash, CallState, CallOwns
<1>. QED
    BY <1>2, <1>3, <1>4, <1>5, <1>6, <1>7, <1>8, <1>9, <1>10 DEF CallStep

(* A task that ends: its job retires unless its call still owns the lock. *)
LEMMA TaskEndsStep ==
    ASSUME IndInv, NEW w \in Worker, at[w] # "idle", TaskEnds(w),
           UNCHANGED <<call, queue, exposed>>
    PROVE  [Promise!Next]_(Promise!vars)
<1> DEFINE j == doing[w]
<1> USE DEF IndInv, TaskEnds
<1>1. j \in Job /\ Active(j)
    BY DEF WorkersWellFormed, TypeOK, Active, Running, RunBy
<1>2. \A i \in Job : Waiting(i)' = Waiting(i)
    BY DEF Waiting, TypeOfJob
<1>3. \A i \in Job : i # j => (Running(i)' <=> Running(i))
    BY KeyTyping DEF Running, RunBy, TypeOK
<1>4. \A i \in Job : i # j => (Active(i)' <=> Active(i))
    BY <1>2, <1>3 DEF Active
<1>5. ASSUME NEW i \in Job, i = j, Active(i),
             \A h \in Job : h # i => (Active(h)' <=> Active(h))
      PROVE  [Promise!Next]_(Promise!vars)
    <2>1. CASE Active(i)'
        BY <1>5, <2>1, StutterStep
    <2>2. CASE ~Active(i)'
        BY <1>5, <2>2, RetireStep
    <2>. QED
        BY <2>1, <2>2
<1>. QED
    BY <1>1, <1>4, <1>5

LEMMA WorkerRefines ==
    ASSUME IndInv, NEW w \in Worker, WorkerStepOf(w) \/ HorseKilled(w)
    PROVE  [Promise!Next]_(Promise!vars)
<1> USE DEF MovesTo, callVars
<1>1. ASSUME UNCHANGED <<call, queue, doing, exposed>>
      PROVE  [Promise!Next]_(Promise!vars)
    <2>1. \A i \in Job : Active(i)' <=> Active(i)
        BY <1>1 DEF Active, Waiting, Running, RunBy, TypeOfJob
    <2>. QED
        BY <1>1, <2>1, StutterStep
<1>2. CASE Take(w)
    BY <1>2, TakeIndInv, StutterStep DEF Take
<1>3. CASE Load(w)
    BY <1>1, <1>3, TaskEndsStep DEF Load
<1>4. CASE GiveUp(w) \/ Release(w) \/ HorseKilled(w)
    BY <1>4, TaskEndsStep DEF GiveUp, Release, HorseKilled
<1>5. CASE Start(w) \/ Work(w) \/ Store(w) \/ Finish(w) \/ Notify(w) \/ Fail(w)
    BY <1>1, <1>5 DEF Start, Work, Store, Finish, Notify, Fail
<1>. QED
    BY <1>2, <1>3, <1>4, <1>5 DEF WorkerStepOf

LEMMA NextRefines ==
    IndInv /\ [Next]_vars => [Promise!Next]_(Promise!vars)
<1> SUFFICES ASSUME IndInv, [Next]_vars PROVE [Promise!Next]_(Promise!vars)
    OBVIOUS
<1>1. ASSUME NEW k \in Key, Expire(k)
      PROVE  [Promise!Next]_(Promise!vars)
    <2>1. \A i \in Job : Active(i)' <=> Active(i)
        BY <1>1 DEF Expire, callVars, workerVars, Active, Waiting, Running, RunBy, TypeOfJob
    <2>. QED
        BY <1>1, <2>1, RevokeStep DEF Expire
<1>2. CASE UNCHANGED vars
    <2>1. \A i \in Job : Active(i)' <=> Active(i)
        BY <1>2 DEF vars, callVars, workerVars, Active, Waiting, Running, RunBy, TypeOfJob
    <2>. QED
        BY <1>2, <2>1, StutterStep DEF vars
<1>. QED
    BY <1>1, <1>2, CallRefines, WorkerRefines DEF Next, Quiet

LEMMA InitRefines == Init => Promise!Init
BY InitInactive DEF Init, Promise!Init

(* Every behaviour of the pipeline is one of JobExclusion: jobs of one key  *)
(* are admitted one at a time as long as no lock is taken away by force.    *)
THEOREM PipelineImplementsExclusion == Spec => ImplementsExclusion
BY InitRefines, NextRefines, InvariantHolds, PTL
   DEF Spec, ImplementsExclusion, Promise!Spec
=============================================================================
