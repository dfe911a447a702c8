-------------------------- MODULE JobsAndWebhooks ---------------------------
(***************************************************************************)
(* The job pipeline and the webhook deliveries together.  A Whisper task   *)
(* whose job has a callback_url calls enqueue_webhook in its last step     *)
(* (app/worker.py, _enqueue_completion_webhook); from there the delivery   *)
(* has a life of its own on the default queue.                             *)
(***************************************************************************)
EXTENDS JobPipeline, WebhookDelivery

ASSUME DeliveryAssumption == Delivery = Callback

systemVars == <<vars, hookVars>>

SystemInit == Init /\ HookInit

(* A job step and the deliveries it enqueues. *)
JobStep ==
    /\ Next
    /\ IF notified' = notified
       THEN UNCHANGED hookVars
       ELSE \E d \in notified' \ notified : EnqueueWebhook(d)

HookStep ==
    /\ DeliveryStep \/ DeliveryKilled
    /\ UNCHANGED vars

SystemNext == JobStep \/ HookStep
SystemSpec == SystemInit /\ [][SystemNext]_systemVars

SystemFairSpec == SystemSpec /\ Fairness /\ HookFairness

-----------------------------------------------------------------------------
(* Properties *)

(* A receiver hears of a job only when the result it is told to fetch is    *)
(* committed, however the worker was interrupted.                           *)
AnnouncedIsStored == \A j \in Callback : InFlight(j) \/ posts[j] > 0 => j \in stored

(* Without faults in the pipeline, a completed job with a callback_url is   *)
(* announced: its receiver answers, or is tried MaxAttempts times, unless   *)
(* the delivery's worker died.  No retryable failure is dropped on the way. *)
CompletionAnnounced ==
    \A j \in Callback :
        (row[j] = "complete" /\ TypeOfJob(j) = "whisper")
            ~> (heard[j] # "none" \/ posts[j] = MaxAttempts \/ j \in lost)
=============================================================================
