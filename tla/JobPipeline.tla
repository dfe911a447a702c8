----------------------------- MODULE JobPipeline -----------------------------
(***************************************************************************)
(* The life of a background job: app/jobs.py (the Redis lock, the jobs     *)
(* table and enqueue_job) and the two RQ task bodies of app/worker.py.     *)
(*                                                                         *)
(* A job is named by the id its enqueue_job call mints, so Job is also the *)
(* set of calls.  A key is a (video, job type) pair: it names one Redis    *)
(* lock and one group of rows that _find_in_progress_job searches.  Every  *)
(* await is a step of its own, so API workers (uvicorn --workers 2, many   *)
(* coroutines each) and RQ workers interleave everywhere the code lets     *)
(* them.  What a job computes is abstracted to success or failure.         *)
(***************************************************************************)
EXTENDS Naturals, Sequences

CONSTANTS
    Job,        \* job ids, one per call of enqueue_job
    Key,        \* (video, job type) pairs
    Worker,     \* RQ worker processes
    KeyOf,      \* KeyOf[j]: the key that call j asks for
    TypeOf,     \* TypeOf[k]: the job type of a key, which names its queue
    Serves,     \* Serves[w]: the queue that worker w listens on
    Callback,   \* jobs submitted with a callback_url
    Faults,     \* the fault classes that may occur
    NoJob       \* absence of a job: an unheld lock, an idle worker

JobType == {"whisper", "enrichment"}

(* api:   an API process dies inside a call                                 *)
(* horse: an RQ work-horse is killed while it runs a task                   *)
(* step:  a database call raises, or RQ's job timeout fires, at a step; the *)
(*        commit it interrupts may or may not have been applied             *)
(* redis: a Redis command raises; what it was to write may or may not have  *)
(*        been applied                                                      *)
(* ttl:   a lock outlives _DEFAULT_LOCK_TTL_SECONDS                         *)
FaultClass == {"api", "horse", "step", "redis", "ttl"}

ASSUME JobAssumption      == NoJob \notin Job /\ KeyOf \in [Job -> Key]
ASSUME KeyAssumption      == TypeOf \in [Key -> JobType]
ASSUME WorkerAssumption   == Serves \in [Worker -> JobType]
ASSUME CallbackAssumption == Callback \subseteq Job
ASSUME FaultAssumption    == Faults \subseteq FaultClass

VARIABLES
    lock,       \* lock[k]: the job id stored under lock:{op}:{video_id}
    row,        \* row[j]: committed status of the jobs row, "none" if absent
    call,       \* call[j]: where the enqueue_job call of j stands
    answer,     \* answer[j]: the job id that call j gave to its client
    queue,      \* queue[t]: the RQ queue of a job type, oldest first
    at,         \* at[w]: the step worker w is about to take
    doing,      \* doing[w]: the job worker w runs
    stored,     \* jobs whose result is committed to the transcripts table
    notified,   \* jobs whose completion webhook was put on the default queue
    exposed     \* history: jobs that lost their lock while they were active

callVars   == <<call, answer>>
workerVars == <<at, doing, stored, notified>>
vars == <<lock, row, callVars, queue, workerVars, exposed>>

RowStatus  == {"none", "queued", "running", "complete", "failed"}
CallState  == {"idle", "find", "recheck", "steal", "retry", "insert", "push",
               "undo", "unlock", "accepted", "duplicate", "conflict",
               "error", "dead"}
WorkerStep == {"idle", "load", "start", "work", "store", "finish", "notify",
               "fail", "giveup", "release"}

(* Calls that are over, and those that hold the lock they won. *)
CallEnded == {"accepted", "duplicate", "conflict", "error", "dead"}
CallOwns  == {"insert", "push", "undo", "unlock"}

TypeOK ==
    /\ lock \in [Key -> Job \union {NoJob}]
    /\ row \in [Job -> RowStatus]
    /\ call \in [Job -> CallState]
    /\ answer \in [Job -> Job \union {NoJob}]
    /\ queue \in [JobType -> Seq(Job)]
    /\ at \in [Worker -> WorkerStep]
    /\ doing \in [Worker -> Job \union {NoJob}]
    /\ stored \subseteq Job
    /\ notified \subseteq Job
    /\ exposed \subseteq Job

-----------------------------------------------------------------------------
(* Helpers *)

TypeOfJob(j) == TypeOf[KeyOf[j]]
Waiting(j)   == \E n \in DOMAIN queue[TypeOfJob(j)] : queue[TypeOfJob(j)][n] = j
RunBy(w, j)  == doing[w] = j
Running(j)   == \E w \in Worker : RunBy(w, j)
Active(j)    == call[j] \in CallOwns \/ Waiting(j) \/ Running(j)

(* Mutant: the job_type filter is forgotten. *)
InProgressOfAnyType(k) == {e \in Job : row[e] \in {"queued", "running"}}

(* The rows of one key that count as in flight. *)
InProgress(k) ==
    {e \in Job : KeyOf[e] = k /\ row[e] \in {"queued", "running"}}

(* Mutant: a plain DELETE. *)
DeletedBlindly(j) == [lock EXCEPT ![KeyOf[j]] = NoJob]

(* The Lua script: delete the lock only if it stores this job id. *)
Released(j) ==
    [lock EXCEPT ![KeyOf[j]] = IF lock[KeyOf[j]] = j THEN NoJob ELSE @]

(* Taking a lock away by force exposes its holder if that is still active. *)
ExposedBy(k) == exposed \union {j \in Job : lock[k] = j /\ Active(j)}

Init ==
    /\ lock = [k \in Key |-> NoJob]
    /\ row = [j \in Job |-> "none"]
    /\ call = [j \in Job |-> "idle"]
    /\ answer = [j \in Job |-> NoJob]
    /\ queue = [t \in JobType |-> <<>>]
    /\ at = [w \in Worker |-> "idle"]
    /\ doing = [w \in Worker |-> NoJob]
    /\ stored = {}
    /\ notified = {}
    /\ exposed = {}
-----------------------------------------------------------------------------
(* enqueue_job, one action per await *)

Goto(j, from, to) ==
    /\ call[j] = from
    /\ call' = [call EXCEPT ![j] = to]

(* Mutant: SET without NX. *)
TryLockOverwriting(j, from, lost) ==
    /\ Goto(j, from, "insert")
    /\ lock' = [lock EXCEPT ![KeyOf[j]] = j]

Won(j) == [lock EXCEPT ![KeyOf[j]] = IF @ = NoJob THEN j ELSE @]

(* SETNX with the fresh job id as the value.  If it raises the call ends, and *)
(* nothing takes back a lock that was set all the same.                       *)
TryLock(j, from, lost) ==
    \/ /\ lock[KeyOf[j]] = NoJob
       /\ Goto(j, from, "insert")
       /\ lock' = Won(j)
    \/ /\ lock[KeyOf[j]] # NoJob
       /\ Goto(j, from, lost)
       /\ UNCHANGED lock
    \/ /\ "redis" \in Faults
       /\ Goto(j, from, "error")
       /\ lock' \in {lock, Won(j)}

Acquire(j) ==
    /\ TryLock(j, "idle", "find")
    /\ UNCHANGED <<row, answer, queue, workerVars, exposed>>

(* Answer with an in-flight job of the key, if one is visible.  The code    *)
(* orders by created_at, the start of the inserting transaction, which need *)
(* not be the order of the commits: any of the rows may come first.         *)
Lookup(j, from, missing) ==
    /\ \/ \E e \in InProgress(KeyOf[j]) :
            /\ Goto(j, from, "duplicate")
            /\ answer' = [answer EXCEPT ![j] = e]
       \/ /\ InProgress(KeyOf[j]) = {}
          /\ Goto(j, from, missing)
          /\ UNCHANGED answer
    /\ UNCHANGED <<lock, row, queue, workerVars, exposed>>

Find(j)    == Lookup(j, "find", "recheck")
Recheck(j) == Lookup(j, "recheck", "steal")     \* after the 50 ms sleep

(* _steal_stale_lock: an unconditional DELETE, which may raise. *)
Steal(j) ==
    /\ \/ Goto(j, "steal", "retry")
       \/ "redis" \in Faults /\ Goto(j, "steal", "error")
    /\ \/ /\ exposed' = ExposedBy(KeyOf[j])
          /\ lock' = [lock EXCEPT ![KeyOf[j]] = NoJob]
       \/ call'[j] = "error" /\ UNCHANGED <<lock, exposed>>
    /\ UNCHANGED <<row, answer, queue, workerVars>>

Retry(j) ==
    /\ TryLock(j, "retry", "conflict")
    /\ UNCHANGED <<row, answer, queue, workerVars, exposed>>

(* Mutant: the commit is left to the end of the request. *)
InsertUncommitted(j) ==
    /\ Goto(j, "insert", "push")
    /\ UNCHANGED <<lock, row, answer, queue, workerVars, exposed>>

(* session.add, commit and refresh.  If one raises nothing undoes the lock, *)
(* and the row may have been committed.                                     *)
Insert(j) ==
    /\ \/ /\ Goto(j, "insert", "push")
          /\ row' = [row EXCEPT ![j] = "queued"]
       \/ /\ "step" \in Faults
          /\ Goto(j, "insert", "error")
          /\ row' \in {row, [row EXCEPT ![j] = "queued"]}
    /\ UNCHANGED <<lock, answer, queue, workerVars, exposed>>

Pushed(j) == [queue EXCEPT ![TypeOfJob(j)] = Append(@, j)]

(* Queue.enqueue.  On an exception the call undoes the job; a task that was *)
(* pushed all the same stays in the queue and runs without protection.      *)
Push(j) ==
    \/ /\ Goto(j, "push", "accepted")
       /\ answer' = [answer EXCEPT ![j] = j]
       /\ queue' = Pushed(j)
       /\ UNCHANGED <<lock, row, workerVars, exposed>>
    \/ /\ "redis" \in Faults
       /\ Goto(j, "push", "undo")
       /\ \/ UNCHANGED <<queue, exposed>>
          \/ /\ queue' = Pushed(j)
             /\ exposed' = exposed \union {j}
       /\ UNCHANGED <<lock, row, answer, workerVars>>

(* Mutant: the row is left queued. *)
UndoSkippingRow(j) ==
    /\ Goto(j, "undo", "unlock")
    /\ UNCHANGED <<lock, row, answer, queue, workerVars, exposed>>

(* mark_failed of the undo path; if it raises, the lock is not released. *)
Undo(j) ==
    /\ \/ /\ Goto(j, "undo", "unlock")
          /\ row' = [row EXCEPT ![j] = "failed"]
       \/ /\ "step" \in Faults
          /\ Goto(j, "undo", "error")
          /\ row' \in {row, [row EXCEPT ![j] = "failed"]}
    /\ UNCHANGED <<lock, answer, queue, workerVars, exposed>>

(* release_lock of the undo path; a Redis error is swallowed. *)
Unlock(j) ==
    /\ Goto(j, "unlock", "error")
    /\ \/ lock' = Released(j)
       \/ "redis" \in Faults /\ UNCHANGED lock
    /\ UNCHANGED <<row, answer, queue, workerVars, exposed>>

(* The API process dies while the call is in progress. *)
ApiCrash(j) ==
    /\ "api" \in Faults
    /\ call[j] \notin CallEnded \union {"idle"}
    /\ call' = [call EXCEPT ![j] = "dead"]
    /\ UNCHANGED <<lock, row, answer, queue, workerVars, exposed>>

CallStep(j) ==
    \/ Find(j) \/ Recheck(j) \/ Steal(j) \/ Retry(j)
    \/ Insert(j) \/ Push(j) \/ Undo(j) \/ Unlock(j)

-----------------------------------------------------------------------------
(* The task bodies _run_whisper_job_async and _run_diarization_job_async *)

MovesTo(w, from, to) ==
    /\ at[w] = from
    /\ at' = [at EXCEPT ![w] = to]

(* The task is over: RQ takes the job off the worker and never reruns it. *)
TaskEnds(w) ==
    /\ at' = [at EXCEPT ![w] = "idle"]
    /\ doing' = [doing EXCEPT ![w] = NoJob]

IsWhisper(w) == Serves[w] = "whisper"

(* Mutant: the task is acknowledged only at the end. *)
TakeWithoutRemoving(w) ==
    /\ queue[Serves[w]] # <<>>
    /\ MovesTo(w, "idle", "load")
    /\ doing' = [doing EXCEPT ![w] = Head(queue[Serves[w]])]
    /\ UNCHANGED <<lock, row, callVars, queue, stored, notified, exposed>>

Take(w) ==
    /\ queue[Serves[w]] # <<>>
    /\ MovesTo(w, "idle", "load")
    /\ doing' = [doing EXCEPT ![w] = Head(queue[Serves[w]])]
    /\ queue' = [queue EXCEPT ![Serves[w]] = Tail(@)]
    /\ UNCHANGED <<lock, row, callVars, stored, notified, exposed>>

(* get_job.  The task ends there if the row is missing.  If get_job raises, *)
(* the diarization body first tries to mark the row.  In both cases video_id *)
(* is still None, and finally does not release the lock.                     *)
Load(w) ==
    /\ at[w] = "load"
    /\ \/ IF row[doing[w]] = "none" THEN TaskEnds(w)
          ELSE MovesTo(w, "load", "start") /\ UNCHANGED doing
       \/ "step" \in Faults /\ IsWhisper(w) /\ TaskEnds(w)
       \/ "step" \in Faults /\ ~IsWhisper(w)
          /\ MovesTo(w, "load", "giveup") /\ UNCHANGED doing
    /\ UNCHANGED <<lock, row, callVars, queue, stored, notified, exposed>>

GiveUp(w) ==
    /\ at[w] = "giveup"
    /\ row' \in {row, [row EXCEPT ![doing[w]] = "failed"]}
    /\ TaskEnds(w)
    /\ UNCHANGED <<lock, callVars, queue, stored, notified, exposed>>

(* mark_running.  Outside the whisper body's inner try. *)
Start(w) ==
    /\ \/ /\ MovesTo(w, "start", "work")
          /\ row' = [row EXCEPT ![doing[w]] = "running"]
       \/ /\ "step" \in Faults
          /\ MovesTo(w, "start", IF IsWhisper(w) THEN "release" ELSE "fail")
          /\ row' \in {row, [row EXCEPT ![doing[w]] = "running"]}
    /\ UNCHANGED <<lock, callVars, queue, doing, stored, notified, exposed>>

(* Mutant: an exception is logged and the row forgotten. *)
WorkSwallowing(w) ==
    /\ MovesTo(w, "work", "store") \/ MovesTo(w, "work", "release")
    /\ UNCHANGED <<lock, row, callVars, queue, doing, stored, notified, exposed>>

(* Download and transcribe or diarize, with the preconditions of the latter: *)
(* any refusal or exception ends in mark_failed.                             *)
Work(w) ==
    /\ MovesTo(w, "work", "store") \/ MovesTo(w, "work", "fail")
    /\ UNCHANGED <<lock, row, callVars, queue, doing, stored, notified, exposed>>

(* Mutant: put_diarization's rowcount is not looked at. *)
StoreIgnoringRowcount(w) ==
    /\ MovesTo(w, "store", "finish")
    /\ stored' = stored \union {doing[w]} \/ (~IsWhisper(w) /\ UNCHANGED stored)
    /\ UNCHANGED <<lock, row, callVars, queue, doing, notified, exposed>>

(* Mutant: the session is closed without a commit. *)
StoreUncommitted(w) ==
    /\ MovesTo(w, "store", "finish")
    /\ UNCHANGED <<lock, row, callVars, queue, doing, stored, notified, exposed>>

(* put_transcript or put_diarization and its commit; the latter may find no *)
(* row to update.                                                           *)
Store(w) ==
    /\ \/ /\ MovesTo(w, "store", "finish")
          /\ stored' = stored \union {doing[w]}
       \/ /\ ~IsWhisper(w)
          /\ MovesTo(w, "store", "fail")
          /\ UNCHANGED stored
       \/ /\ "step" \in Faults
          /\ MovesTo(w, "store", "fail")
          /\ stored' \in {stored, stored \union {doing[w]}}
    /\ UNCHANGED <<lock, row, callVars, queue, doing, notified, exposed>>

(* mark_complete *)
Finish(w) ==
    /\ \/ /\ MovesTo(w, "finish",
                  IF IsWhisper(w) /\ doing[w] \in Callback
                  THEN "notify" ELSE "release")
          /\ row' = [row EXCEPT ![doing[w]] = "complete"]
       \/ /\ "step" \in Faults
          /\ MovesTo(w, "finish", "fail")
          /\ row' \in {row, [row EXCEPT ![doing[w]] = "complete"]}
    /\ UNCHANGED <<lock, callVars, queue, doing, stored, notified, exposed>>

(* _enqueue_completion_webhook: SELECT the token, then RPUSH the delivery.   *)
(* It runs inside the try, so an exception here leads to mark_failed.        *)
Notify(w) ==
    /\ \/ /\ MovesTo(w, "notify", "release")
          /\ notified' = notified \union {doing[w]}
       \/ /\ Faults \cap {"step", "redis"} # {}
          /\ MovesTo(w, "notify", "fail")
          /\ notified' \in {notified, notified \union {doing[w]}}
    /\ UNCHANGED <<lock, row, callVars, queue, doing, stored, exposed>>

(* Mutants: an early return past finally, and a lock freed before the end. *)
FailReturning(w) ==
    /\ at[w] = "fail"
    /\ row' = [row EXCEPT ![doing[w]] = "failed"]
    /\ TaskEnds(w)
    /\ UNCHANGED <<lock, callVars, queue, stored, notified, exposed>>
FailUnlocking(w) ==
    /\ MovesTo(w, "fail", "release")
    /\ row' = [row EXCEPT ![doing[w]] = "failed"]
    /\ lock' = Released(doing[w])
    /\ UNCHANGED <<callVars, queue, doing, stored, notified, exposed>>

(* mark_failed.  If it raises, finally still runs. *)
Fail(w) ==
    /\ MovesTo(w, "fail", "release")
    /\ \/ row' = [row EXCEPT ![doing[w]] = "failed"]
       \/ "step" \in Faults /\ UNCHANGED row
    /\ UNCHANGED <<lock, callVars, queue, doing, stored, notified, exposed>>

(* finally: release_lock; a Redis error or RQ's timeout is swallowed here. *)
Release(w) ==
    /\ at[w] = "release"
    /\ \/ lock' = Released(doing[w])
       \/ Faults \cap {"step", "redis"} # {} /\ UNCHANGED lock
    /\ TaskEnds(w)
    /\ UNCHANGED <<row, callVars, queue, stored, notified, exposed>>

(* The work-horse is killed: nothing of the task body runs any more. *)
HorseKilled(w) ==
    /\ "horse" \in Faults
    /\ at[w] # "idle"
    /\ TaskEnds(w)
    /\ UNCHANGED <<lock, row, callVars, queue, stored, notified, exposed>>

WorkerStepOf(w) ==
    \/ Take(w) \/ Load(w) \/ GiveUp(w) \/ Start(w) \/ Work(w)
    \/ Store(w) \/ Finish(w) \/ Notify(w) \/ Fail(w) \/ Release(w)

-----------------------------------------------------------------------------
(* Redis expires the lock, _DEFAULT_LOCK_TTL_SECONDS after it was won. *)
Expire(k) ==
    /\ "ttl" \in Faults
    /\ lock[k] # NoJob
    /\ exposed' = ExposedBy(k)
    /\ lock' = [lock EXCEPT ![k] = NoJob]
    /\ UNCHANGED <<row, callVars, queue, workerVars>>

(* Every call is over and every queue is drained. *)
Quiet ==
    /\ \A j \in Job : call[j] \in CallEnded
    /\ \A w \in Worker : at[w] = "idle"
    /\ \A t \in JobType : queue[t] = <<>>
    /\ UNCHANGED vars

Next ==
    \/ \E j \in Job : Acquire(j) \/ CallStep(j) \/ ApiCrash(j)
    \/ \E w \in Worker : WorkerStepOf(w) \/ HorseKilled(w)
    \/ \E k \in Key : Expire(k)
    \/ Quiet

(* Clients need not call.  A coroutine and a worker that can take a step     *)
(* take it eventually, and Redis expires the locks it was told to expire.    *)
Fairness ==
    /\ \A j \in Job : WF_vars(CallStep(j))
    /\ \A w \in Worker : WF_vars(WorkerStepOf(w))
    /\ \A k \in Key : WF_vars(Expire(k))

Spec == Init /\ [][Next]_vars
FairSpec == Spec /\ Fairness

-----------------------------------------------------------------------------
(* Properties *)

(* Two jobs of one (video, operation) are never active together unless one  *)
(* of them had its lock expired or stolen under it.  This is what the SETNX *)
(* lock of enqueue_job and the release in the workers' finally are for.     *)
Exclusive ==
    \A i, j \in Job :
        i # j /\ KeyOf[i] = KeyOf[j] /\ Active(i) /\ Active(j)
            => i \in exposed \/ j \in exposed

(* An active job that was not exposed still owns its lock: no release, late *)
(* or repeated, of another job deletes it (the compare-and-delete script).  *)
LeaseHeld ==
    \A j \in Job : Active(j) /\ j \notin exposed => lock[KeyOf[j]] = j

(* A worker that takes a task finds its row: enqueue_job commits the insert *)
(* before it pushes the task.                                               *)
QueuedHasRow ==
    \A j \in Job : Waiting(j) \/ Running(j) => row[j] # "none"

(* The job id a client is given, its own or that of the job already in      *)
(* flight, names a row for the video and operation the client asked for.    *)
AnswerResolves ==
    \A j \in Job : answer[j] # NoJob =>
        row[answer[j]] # "none" /\ KeyOf[answer[j]] = KeyOf[j]

(* A row says complete only when the result it promises is committed, at    *)
(* whatever step the worker was interrupted.                                *)
CompleteIsStored ==
    \A j \in Job : row[j] = "complete" => j \in stored

FinalRow(j) == row[j] \in {"complete", "failed"}

(* What a client read as the final status of an accepted job stays, however *)
(* often its lock was stolen or its webhook failed.  One change is left: an *)
(* exception after mark_complete was applied turns complete into failed,    *)
(* before the task has released its lock.  A call whose push raised is not  *)
(* accepted; its task may run all the same.                                 *)
FinalStaysFinal ==
    [][\A j \in Job :
          call[j] = "accepted" /\ FinalRow(j) /\ row'[j] # row[j] =>
              /\ row[j] = "complete" /\ row'[j] = "failed"
              /\ \E w \in Worker : RunBy(w, j) /\ at[w] = "fail"]_vars

(* Without crashes and step faults, a row that counts as in flight is being *)
(* worked on: the undo path of enqueue_job leaves no phantom row behind.    *)
NoPhantomRow ==
    \A j \in Job : row[j] \in {"queued", "running"} => Active(j)

(* Without crashes and step faults, every accepted job ends up complete or  *)
(* failed: each path through the workers writes one of them.                *)
JobsSettle == \A j \in Job : call[j] = "accepted" ~> FinalRow(j)

(* Without faults, a lock is given back after it was won. *)
LocksFreed ==
    \A j \in Job : lock[KeyOf[j]] = j ~> lock[KeyOf[j]] # j

(* The pipeline implements JobExclusion. *)
Promise == INSTANCE JobExclusion WITH active <- {j \in Job : Active(j)}
ImplementsExclusion == Promise!Spec

-----------------------------------------------------------------------------
(* What the documents say and the code does not do *)

(* "Same video submitted twice while in-flight returns same job_id": two    *)
(* accepted jobs of one key are never in flight together.  A caller that    *)
(* needs more than 50 ms from its SETNX to the commit of its row is taken   *)
(* for dead, and _steal_stale_lock deletes its lock.                        *)
OneInFlight ==
    \A i, j \in Job :
        call[i] = "accepted" /\ call[j] = "accepted" /\ {i, j} \subseteq InProgress(KeyOf[i])
            => i = j

(* "no webhook fires on a failed job": a delivery whose RPUSH raised after  *)
(* it was applied belongs to a row that ends up failed.                     *)
NoWebhookOnFailed ==
    \A j \in Job : j \in notified => row[j] # "failed"

(* "releasing the lock in the finally block regardless of outcome": a task  *)
(* that ended, with no crash and no Redis fault, has given its lock back.   *)
TaskReleasesLock ==
    \A j \in Job : call[j] = "accepted" /\ ~Active(j) => lock[KeyOf[j]] # j

-----------------------------------------------------------------------------
(* The inductive invariant behind LeaseHeld and Exclusive *)

(* An idle worker has no job and every other worker has one of its type. *)
WorkersWellFormed ==
    /\ \A w \in Worker : (at[w] = "idle") <=> (doing[w] = NoJob)
    /\ \A w \in Worker : doing[w] \in Job => TypeOfJob(doing[w]) = Serves[w]

(* RQ hands a task to one worker only: a job is in one place at a time. *)
OnePlace ==
    /\ \A t \in JobType : \A n \in DOMAIN queue[t] :
          /\ TypeOfJob(queue[t][n]) = t
          /\ \A w \in Worker : ~RunBy(w, queue[t][n])
    /\ \A t \in JobType : \A m, n \in DOMAIN queue[t] :
          queue[t][m] = queue[t][n] => m = n
    /\ \A v, w \in Worker : doing[v] = doing[w] /\ doing[v] # NoJob => v = w

(* Only an accepted or an undone call has its task in the queue or at a     *)
(* worker, and the latter's job is exposed.                                 *)
PushedByCall ==
    \A j \in Job : Waiting(j) \/ Running(j) =>
        \/ call[j] = "accepted"
        \/ call[j] \in {"undo", "unlock", "error", "dead"} /\ j \in exposed

IndInv ==
    /\ TypeOK
    /\ WorkersWellFormed
    /\ OnePlace
    /\ PushedByCall
    /\ LeaseHeld
=============================================================================
