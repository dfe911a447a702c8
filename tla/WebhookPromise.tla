--------------------------- MODULE WebhookPromise ---------------------------
(***************************************************************************)
(* What app/webhooks.py promises to the receiver of a callback: at most    *)
(* MaxAttempts POSTs per delivery, numbered one after the other, and none  *)
(* after the receiver has answered with a final status.                    *)
(***************************************************************************)
EXTENDS Naturals

CONSTANTS
    Delivery,       \* the webhook deliveries
    MaxAttempts     \* settings.webhook_max_attempts

VARIABLES
    posts,          \* posts[d]: how many POSTs were attempted for d
    over            \* the deliveries with a final answer

promiseVars == <<posts, over>>

PromiseInit ==
    /\ posts = [d \in Delivery |-> 0]
    /\ over = {}

Send(d) ==
    /\ d \notin over
    /\ posts[d] < MaxAttempts
    /\ posts' = [posts EXCEPT ![d] = @ + 1]
    /\ over' \in {over, over \union {d}}

PromiseSpec == PromiseInit /\ [][\E d \in Delivery : Send(d)]_promiseVars
=============================================================================
