------------------------- MODULE MC_JobsAndWebhooks -------------------------
(* The instances of MC_JobPipeline with the webhooks their jobs enqueue. *)
EXTENDS MC_JobPipeline, JobsAndWebhooks

CONSTANT none

CallbackJobs == Callback
=============================================================================
