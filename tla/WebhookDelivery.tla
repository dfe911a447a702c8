-------------------------- MODULE WebhookDelivery ---------------------------
(***************************************************************************)
(* Webhook deliveries: app/webhooks.py.  enqueue_webhook puts the first    *)
(* attempt on RQ's default queue; deliver_webhook_task makes one POST and, *)
(* on a server error or a transport error, schedules the next attempt with *)
(* Queue.enqueue_in instead of sleeping.  One worker with RQ's scheduler   *)
(* serves the queue (deploy/yt-transcript-worker-default.service).  The    *)
(* delays are abstracted: a delayed task becomes due at any later time.    *)
(***************************************************************************)
EXTENDS Naturals, Sequences

CONSTANTS
    Delivery,       \* the webhook deliveries, one per enqueue_webhook call
    MaxAttempts,    \* settings.webhook_max_attempts
    NoTask,         \* the idle worker's task
    HookFaults      \* subset of {"horse", "redis"}

ASSUME AttemptsAssumption   == MaxAttempts \in Nat \ {0}
ASSUME HookFaultsAssumption == HookFaults \subseteq {"horse", "redis"}

Task == [id : Delivery, attempt : 1 .. MaxAttempts]

ASSUME NoTaskAssumption == NoTask \notin Task

VARIABLES
    inbox,      \* the default queue, oldest first
    delayed,    \* RQ's scheduled-job registry of that queue
    sending,    \* the task the worker runs
    hookAt,     \* the step of deliver_webhook_task it is about to take
    posts,      \* posts[d]: how many POSTs were attempted for d
    heard,      \* heard[d]: the final answer of the receiver
    lost        \* history: deliveries whose next attempt was lost to a fault

hookVars == <<inbox, delayed, sending, hookAt, posts, heard, lost>>

Answer == {"none", "delivered", "refused"}

HookTypeOK ==
    /\ inbox \in Seq(Task)
    /\ delayed \subseteq Task
    /\ sending \in Task \union {NoTask}
    /\ hookAt \in {"idle", "post", "retry"}
    /\ posts \in [Delivery -> 0 .. MaxAttempts]
    /\ heard \in [Delivery -> Answer]
    /\ lost \subseteq Delivery

HookInit ==
    /\ inbox = <<>>
    /\ delayed = {}
    /\ sending = NoTask
    /\ hookAt = "idle"
    /\ posts = [d \in Delivery |-> 0]
    /\ heard = [d \in Delivery |-> "none"]
    /\ lost = {}

FirstAttempt(d) == [id |-> d, attempt |-> 1]

InInbox(d) == \E n \in DOMAIN inbox : inbox[n].id = d
InDelayed(d) == \E t \in delayed : t.id = d
InFlight(d) == InInbox(d) \/ InDelayed(d) \/ (sending # NoTask /\ sending.id = d)

(* A delivery that was never enqueued: enqueue_webhook is called once for it. *)
Fresh(d) == ~InFlight(d) /\ posts[d] = 0 /\ d \notin lost

EnqueueWebhook(d) ==
    /\ Fresh(d)
    /\ inbox' = Append(inbox, FirstAttempt(d))
    /\ UNCHANGED <<delayed, sending, hookAt, posts, heard, lost>>

-----------------------------------------------------------------------------
(* deliver_webhook_task *)

TaskDone == sending' = NoTask /\ hookAt' = "idle"

TakeDelivery ==
    /\ hookAt = "idle"
    /\ inbox # <<>>
    /\ sending' = Head(inbox)
    /\ inbox' = Tail(inbox)
    /\ hookAt' = "post"
    /\ UNCHANGED <<delayed, posts, heard, lost>>

(* client.post.  2xx and 3xx end the delivery, so does 4xx, as the receiver *)
(* refuses it; a 5xx or a transport error leads to _maybe_retry.            *)
Post ==
    /\ hookAt = "post"
    /\ posts' = [posts EXCEPT ![sending.id] = @ + 1]
    /\ \/ /\ TaskDone
          /\ \E a \in Answer \ {"none"} : heard' = [heard EXCEPT ![sending.id] = a]
       \/ hookAt' = "retry" /\ UNCHANGED <<sending, heard>>
    /\ UNCHANGED <<inbox, delayed, lost>>

(* Mutant: the attempt number is not advanced. *)
SameAttempt(t) == t

NextAttempt(t) == [t EXCEPT !.attempt = @ + 1]

(* Mutant: _maybe_retry compares with the attempt it would enqueue. *)
MaybeRetryOneLess ==
    /\ hookAt = "retry"
    /\ delayed' = IF sending.attempt + 1 >= MaxAttempts THEN delayed
                  ELSE delayed \union {NextAttempt(sending)}
    /\ TaskDone
    /\ UNCHANGED <<inbox, posts, heard, lost>>

(* _maybe_retry: give up at the last attempt, or schedule the next one.  If *)
(* Redis raises, the exception ends the task, which RQ does not rerun.      *)
MaybeRetry ==
    /\ hookAt = "retry"
    /\ \/ /\ sending.attempt >= MaxAttempts
          /\ UNCHANGED <<delayed, lost>>
       \/ /\ sending.attempt < MaxAttempts
          /\ delayed' = delayed \union {NextAttempt(sending)}
          /\ UNCHANGED lost
       \/ /\ sending.attempt < MaxAttempts
          /\ "redis" \in HookFaults
          /\ lost' = lost \union {sending.id}
          /\ UNCHANGED delayed
    /\ TaskDone
    /\ UNCHANGED <<inbox, posts, heard>>

(* RQ's scheduler thread moves a due task to the end of the queue. *)
Due(t) ==
    /\ t \in delayed
    /\ delayed' = delayed \ {t}
    /\ inbox' = Append(inbox, t)
    /\ UNCHANGED <<sending, hookAt, posts, heard, lost>>

(* The work-horse is killed, before or after its POST went out. *)
DeliveryKilled ==
    /\ "horse" \in HookFaults
    /\ hookAt # "idle"
    /\ lost' = lost \union {sending.id}
    /\ posts' \in {posts} \union
          {[posts EXCEPT ![sending.id] = @ + 1] : p \in {hookAt} \cap {"post"}}
    /\ TaskDone
    /\ UNCHANGED <<inbox, delayed, heard>>

DeliveryStep == TakeDelivery \/ Post \/ MaybeRetry \/ \E t \in delayed : Due(t)

HookNext ==
    \/ \E d \in Delivery : EnqueueWebhook(d)
    \/ DeliveryStep
    \/ DeliveryKilled

(* The worker and the scheduler thread keep running. *)
HookFairness ==
    /\ WF_hookVars(TakeDelivery \/ Post \/ MaybeRetry)
    /\ \A d \in Delivery :
          WF_hookVars(\E a \in 1 .. MaxAttempts : Due([id |-> d, attempt |-> a]))

HookSpec == HookInit /\ [][HookNext]_hookVars

-----------------------------------------------------------------------------
(* Properties *)

(* A delivery is in one place: no attempt runs beside another one, and the  *)
(* X-YT-Attempt header counts the POSTs of the delivery.                    *)
DeliveryInvariant ==
    /\ HookTypeOK
    /\ (hookAt = "idle") <=> (sending = NoTask)
    /\ \A n \in DOMAIN inbox :
          /\ inbox[n].attempt = posts[inbox[n].id] + 1
          /\ heard[inbox[n].id] = "none"
          /\ inbox[n].id \notin lost
          /\ \A m \in DOMAIN inbox : inbox[m].id = inbox[n].id => m = n
          /\ ~InDelayed(inbox[n].id)
          /\ sending # NoTask => sending.id # inbox[n].id
    /\ \A t \in delayed :
          /\ t.attempt = posts[t.id] + 1
          /\ heard[t.id] = "none"
          /\ t.id \notin lost
          /\ \A u \in delayed : u.id = t.id => u = t
          /\ sending # NoTask => sending.id # t.id
    /\ hookAt # "idle" =>
          /\ sending.attempt = posts[sending.id] + (IF hookAt = "post" THEN 1 ELSE 0)
          /\ heard[sending.id] = "none"
          /\ sending.id \notin lost

(* Deliveries keep the promise made to the receiver. *)
Receiver == INSTANCE WebhookPromise
    WITH over <- {d \in Delivery : heard[d] # "none"}
KeepsPromise == Receiver!PromiseSpec
=============================================================================
