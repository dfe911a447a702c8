---------------------------- MODULE SystemProofs ----------------------------
(***************************************************************************)
(* Proofs about WebhookDelivery for every set of deliveries, every number  *)
(* of attempts and every fault: a delivery is in one place and its attempt *)
(* number counts its POSTs, hence the promise made to the receiver.  Then  *)
(* about JobsAndWebhooks: the composition keeps what its two halves        *)
(* guarantee, and a receiver is told only of results that are committed.   *)
(***************************************************************************)
EXTENDS JobsAndWebhooks, JobPipelineProofs

(* A delivery that the receiver has answered was posted: without it a fresh *)
(* delivery could be one that is over.                                      *)
HeardWasPosted == \A d \in Delivery : heard[d] # "none" => posts[d] > 0

HookInv == DeliveryInvariant /\ HeardWasPosted

LEMMA TaskFacts ==
    ASSUME NEW t \in Task
    PROVE  /\ t.id \in Delivery /\ t.attempt \in 1 .. MaxAttempts
           /\ t.attempt \in Nat /\ t.attempt <= MaxAttempts
           /\ t # NoTask
BY NoTaskAssumption, AttemptsAssumption DEF Task

LEMMA AppendFacts ==
    ASSUME NEW S, NEW s \in Seq(S), NEW e \in S
    PROVE  /\ Append(s, e) \in Seq(S)
           /\ \A n \in DOMAIN s : n \in DOMAIN Append(s, e) /\ Append(s, e)[n] = s[n]
           /\ \A n \in DOMAIN Append(s, e) :
                 \/ n \in DOMAIN s
                 \/ n = Len(s) + 1 /\ Append(s, e)[n] = e
           /\ Len(s) + 1 \notin DOMAIN s
OBVIOUS

LEMMA RestFacts ==
    ASSUME NEW S, NEW s \in Seq(S), s # <<>>
    PROVE  /\ 1 \in DOMAIN s /\ Head(s) = s[1] /\ Head(s) \in S
           /\ Tail(s) \in Seq(S)
           /\ \A n \in DOMAIN Tail(s) :
                 n + 1 \in DOMAIN s /\ n + 1 # 1 /\ Tail(s)[n] = s[n + 1]
           /\ \A m, n \in DOMAIN Tail(s) : m + 1 = n + 1 => m = n
<1>1. /\ Len(s) \in Nat \ {0} /\ DOMAIN s = 1 .. Len(s)
      /\ Tail(s) \in Seq(S) /\ DOMAIN Tail(s) = 1 .. Len(s) - 1
    OBVIOUS
<1>2. \A n \in 1 .. Len(s) - 1 : Tail(s)[n] = s[n + 1]
    OBVIOUS
<1>3. Head(s) = s[1] /\ Head(s) \in S
    OBVIOUS
<1>. QED
    BY <1>1, <1>2, <1>3

LEMMA InitHookInv == HookInit => HookInv
<1> SUFFICES ASSUME HookInit PROVE HookInv
    OBVIOUS
<1>1. HookTypeOK
    BY AttemptsAssumption DEF HookInit, HookTypeOK, Answer
<1>. QED
    BY <1>1 DEF HookInit, HookInv, DeliveryInvariant, HeardWasPosted

(* The first attempt of a delivery that is nowhere. *)
LEMMA EnqueueHookInv ==
    ASSUME HookInv, NEW d \in Delivery, EnqueueWebhook(d)
    PROVE  HookInv'
<1> DEFINE t == FirstAttempt(d)
<1> USE DEF HookInv, EnqueueWebhook, Fresh
<1>1. t \in Task /\ t.id = d /\ t.attempt = 1
    BY AttemptsAssumption DEF FirstAttempt, Task
<1>2. inbox \in Seq(Task) /\ posts[d] = 0 /\ heard[d] = "none"
    BY DEF DeliveryInvariant, HookTypeOK, HeardWasPosted
<1>3. /\ inbox' \in Seq(Task)
      /\ \A n \in DOMAIN inbox : n \in DOMAIN inbox' /\ inbox'[n] = inbox[n]
      /\ \A n \in DOMAIN inbox' : n \in DOMAIN inbox \/ (n = Len(inbox) + 1 /\ inbox'[n] = t)
    BY <1>1, <1>2, AppendFacts
<1>4. HookTypeOK'
    BY <1>3 DEF DeliveryInvariant, HookTypeOK
<1>5. /\ \A n \in DOMAIN inbox : inbox[n].id # d
      /\ \A u \in delayed : u.id # d
      /\ sending # NoTask => sending.id # d
    BY DEF InFlight, InInbox, InDelayed
<1>6. \A n \in DOMAIN inbox' :
          /\ inbox'[n].attempt = posts[inbox'[n].id] + 1
          /\ heard[inbox'[n].id] = "none"
          /\ inbox'[n].id \notin lost
          /\ \A m \in DOMAIN inbox' : inbox'[m].id = inbox'[n].id => m = n
          /\ ~InDelayed(inbox'[n].id)
          /\ sending # NoTask => sending.id # inbox'[n].id
    <2> TAKE n \in DOMAIN inbox'
    <2>1. CASE n \in DOMAIN inbox
        BY <2>1, <1>1, <1>3, <1>5 DEF DeliveryInvariant
    <2>2. CASE n = Len(inbox) + 1 /\ inbox'[n] = t
        BY <2>2, <1>1, <1>2, <1>3, <1>5 DEF DeliveryInvariant, InDelayed
    <2>. QED
        BY <1>3, <2>1, <2>2
<1>7. DeliveryInvariant'
    BY <1>4, <1>6 DEF DeliveryInvariant, InDelayed
<1>. QED
    BY <1>7 DEF HeardWasPosted

(* The worker takes the oldest attempt. *)
LEMMA TakeHookInv == ASSUME HookInv, TakeDelivery PROVE HookInv'
<1> USE DEF HookInv, TakeDelivery
<1>1. inbox \in Seq(Task) /\ inbox # <<>> /\ sending = NoTask
    BY DEF DeliveryInvariant, HookTypeOK
<1>2. /\ 1 \in DOMAIN inbox /\ sending' = inbox[1] /\ sending' \in Task
      /\ inbox' \in Seq(Task)
      /\ \A n \in DOMAIN inbox' :
            n + 1 \in DOMAIN inbox /\ n + 1 # 1 /\ inbox'[n] = inbox[n + 1]
      /\ \A m, n \in DOMAIN inbox' : m + 1 = n + 1 => m = n
    BY <1>1, RestFacts
<1>3. HookTypeOK'
    BY <1>2 DEF DeliveryInvariant, HookTypeOK
<1>4. sending' # NoTask
    BY <1>2, TaskFacts
<1>5. \A n \in DOMAIN inbox' :
          /\ inbox'[n].attempt = posts[inbox'[n].id] + 1
          /\ heard[inbox'[n].id] = "none"
          /\ inbox'[n].id \notin lost
          /\ \A m \in DOMAIN inbox' : inbox'[m].id = inbox'[n].id => m = n
          /\ ~InDelayed(inbox'[n].id)
          /\ sending'.id # inbox'[n].id
    BY <1>2 DEF DeliveryInvariant
<1>6. /\ sending'.attempt = posts[sending'.id] + 1
      /\ heard[sending'.id] = "none"
      /\ sending'.id \notin lost
      /\ \A t \in delayed : sending'.id # t.id
    BY <1>2 DEF DeliveryInvariant, InDelayed
<1>7. DeliveryInvariant'
    BY <1>3, <1>4, <1>5, <1>6 DEF DeliveryInvariant, InDelayed
<1>. QED
    BY <1>7 DEF HeardWasPosted

(* What the invariant says of the task that runs. *)
LEMMA SendingFacts ==
    ASSUME HookInv, hookAt # "idle"
    PROVE  /\ sending \in Task /\ sending # NoTask /\ sending.id \in Delivery
           /\ sending.attempt \in Nat /\ sending.attempt <= MaxAttempts
           /\ posts[sending.id] \in Nat
           /\ heard[sending.id] = "none" /\ sending.id \notin lost
           /\ hookAt = "post" => sending.attempt = posts[sending.id] + 1
           /\ hookAt = "retry" => sending.attempt = posts[sending.id]
           /\ \A n \in DOMAIN inbox : inbox[n].id # sending.id
           /\ \A t \in delayed : t.id # sending.id
<1>1. sending \in Task
    BY DEF HookInv, DeliveryInvariant, HookTypeOK
<1>2. posts[sending.id] \in 0 .. MaxAttempts
    BY <1>1, TaskFacts DEF HookInv, DeliveryInvariant, HookTypeOK
<1>. QED
    BY <1>1, <1>2, TaskFacts, AttemptsAssumption DEF HookInv, DeliveryInvariant

(* Everything but the task that runs is left as it was: its own facts are    *)
(* what remains to be shown.                                                *)
LEMMA OthersUntouched ==
    ASSUME HookInv, hookAt # "idle",
           UNCHANGED <<inbox, delayed>>,
           \A d \in Delivery : d # sending.id =>
               posts'[d] = posts[d] /\ heard'[d] = heard[d] /\ (d \in lost' => d \in lost)
    PROVE  /\ \A n \in DOMAIN inbox' :
                 /\ inbox'[n].attempt = posts'[inbox'[n].id] + 1
                 /\ heard'[inbox'[n].id] = "none"
                 /\ inbox'[n].id \notin lost'
                 /\ \A m \in DOMAIN inbox' : inbox'[m].id = inbox'[n].id => m = n
                 /\ ~InDelayed(inbox[n].id)'
                 /\ inbox'[n].id # sending.id
           /\ \A t \in delayed' :
                 /\ t.attempt = posts'[t.id] + 1
                 /\ heard'[t.id] = "none"
                 /\ t.id \notin lost'
                 /\ \A u \in delayed' : u.id = t.id => u = t
                 /\ t.id # sending.id
<1>1. /\ \A n \in DOMAIN inbox : inbox[n].id \in Delivery
      /\ \A t \in delayed : t.id \in Delivery
    BY TaskFacts DEF HookInv, DeliveryInvariant, HookTypeOK
<1>2. /\ \A n \in DOMAIN inbox : inbox[n].id # sending.id
      /\ \A t \in delayed : t.id # sending.id
    BY SendingFacts
<1>3. \A n \in DOMAIN inbox :
          /\ inbox[n].attempt = posts[inbox[n].id] + 1
          /\ heard[inbox[n].id] = "none"
          /\ inbox[n].id \notin lost
          /\ \A m \in DOMAIN inbox : inbox[m].id = inbox[n].id => m = n
          /\ ~InDelayed(inbox[n].id)
    BY DEF HookInv, DeliveryInvariant
<1>4. \A t \in delayed :
          /\ t.attempt = posts[t.id] + 1
          /\ heard[t.id] = "none"
          /\ t.id \notin lost
          /\ \A u \in delayed : u.id = t.id => u = t
    BY DEF HookInv, DeliveryInvariant
<1>5. inbox' = inbox /\ delayed' = delayed
    OBVIOUS
<1>6. \A n \in DOMAIN inbox : ~InDelayed(inbox[n].id)'
    BY <1>3, <1>5 DEF InDelayed
<1>. QED
    BY <1>1, <1>2, <1>3, <1>4, <1>5, <1>6

(* One POST. *)
LEMMA PostHookInv == ASSUME HookInv, Post PROVE HookInv'
<1> DEFINE d == sending.id
<1> USE DEF HookInv, Post
<1>1. hookAt # "idle" /\ d \in Delivery /\ sending \in Task /\ sending # NoTask
    BY SendingFacts
<1>2. /\ posts[d] \in Nat /\ sending.attempt = posts[d] + 1
      /\ sending.attempt <= MaxAttempts /\ heard[d] = "none" /\ d \notin lost
    BY SendingFacts
<1>3. posts' = [posts EXCEPT ![d] = @ + 1] /\ posts'[d] = posts[d] + 1
    BY <1>1 DEF DeliveryInvariant, HookTypeOK
<1>4. HookTypeOK'
    <2>1. posts' \in [Delivery -> 0 .. MaxAttempts]
        BY <1>1, <1>2, <1>3, AttemptsAssumption DEF DeliveryInvariant, HookTypeOK
    <2>2. heard' \in [Delivery -> Answer]
        BY <1>1 DEF DeliveryInvariant, HookTypeOK, TaskDone
    <2>. QED
        BY <2>1, <2>2, <1>1 DEF DeliveryInvariant, HookTypeOK, TaskDone
<1>5. \A e \in Delivery : e # d => posts'[e] = posts[e] /\ heard'[e] = heard[e]
    BY <1>1 DEF DeliveryInvariant, HookTypeOK, TaskDone
<1>6. HeardWasPosted'
    <2>1. posts'[d] > 0
        BY <1>2, <1>3
    <2>. QED
        BY <2>1, <1>5 DEF HeardWasPosted
<1>7. /\ \A n \in DOMAIN inbox' :
            /\ inbox'[n].attempt = posts'[inbox'[n].id] + 1
            /\ heard'[inbox'[n].id] = "none"
            /\ inbox'[n].id \notin lost'
            /\ \A m \in DOMAIN inbox' : inbox'[m].id = inbox'[n].id => m = n
            /\ ~InDelayed(inbox[n].id)'
            /\ inbox'[n].id # sending.id
      /\ \A t \in delayed' :
            /\ t.attempt = posts'[t.id] + 1
            /\ heard'[t.id] = "none"
            /\ t.id \notin lost'
            /\ \A u \in delayed' : u.id = t.id => u = t
            /\ t.id # sending.id
    BY <1>1, <1>5, OthersUntouched
<1>8. CASE TaskDone
    BY <1>4, <1>6, <1>7, <1>8 DEF DeliveryInvariant, TaskDone
<1>9. CASE hookAt' = "retry" /\ UNCHANGED <<sending, heard>>
    BY <1>1, <1>2, <1>3, <1>4, <1>6, <1>7, <1>9 DEF DeliveryInvariant
<1>. QED
    BY <1>8, <1>9

(* The next attempt is scheduled, given up or lost. *)
LEMMA RetryHookInv == ASSUME HookInv, MaybeRetry PROVE HookInv'
<1> DEFINE d == sending.id
<1> DEFINE t == NextAttempt(sending)
<1> USE DEF HookInv, MaybeRetry
<1>1. hookAt # "idle" /\ d \in Delivery /\ sending \in Task
    BY SendingFacts
<1>2. /\ posts[d] \in Nat /\ sending.attempt = posts[d]
      /\ sending.attempt <= MaxAttempts /\ heard[d] = "none" /\ d \notin lost
      /\ \A n \in DOMAIN inbox : inbox[n].id # d
      /\ \A u \in delayed : u.id # d
    BY SendingFacts
<1>3. sending' = NoTask /\ hookAt' = "idle"
    BY DEF TaskDone
<1>4. UNCHANGED <<inbox, posts, heard>> /\ HeardWasPosted'
    BY DEF HeardWasPosted
<1>5. \A n \in DOMAIN inbox : inbox[n].id \in Delivery
    BY TaskFacts DEF DeliveryInvariant, HookTypeOK
<1>6. CASE delayed' = delayed /\ (lost' = lost \/ lost' = lost \union {d})
    <2>1. HookTypeOK'
        BY <1>1, <1>3, <1>4, <1>6 DEF DeliveryInvariant, HookTypeOK
    <2>. QED
        BY <2>1, <1>2, <1>3, <1>4, <1>6 DEF DeliveryInvariant, InDelayed
<1>7. CASE sending.attempt < MaxAttempts /\ delayed' = delayed \union {t} /\ lost' = lost
    <2>1. /\ t \in Task /\ t.id = d /\ t.attempt = posts[d] + 1
        BY <1>1, <1>2, <1>7, AttemptsAssumption DEF NextAttempt, Task
    <2>2. HookTypeOK'
        BY <2>1, <1>3, <1>4, <1>7 DEF DeliveryInvariant, HookTypeOK
    <2>3. \A u \in delayed' :
              /\ u.attempt = posts[u.id] + 1
              /\ heard[u.id] = "none"
              /\ u.id \notin lost
              /\ \A v \in delayed' : v.id = u.id => v = u
        BY <2>1, <1>2, <1>7 DEF DeliveryInvariant
    <2>4. \A n \in DOMAIN inbox : ~InDelayed(inbox[n].id)'
        BY <2>1, <1>2, <1>4, <1>7 DEF DeliveryInvariant, InDelayed
    <2>5. \A n \in DOMAIN inbox :
              /\ inbox[n].attempt = posts[inbox[n].id] + 1
              /\ heard[inbox[n].id] = "none"
              /\ inbox[n].id \notin lost
              /\ \A m \in DOMAIN inbox : inbox[m].id = inbox[n].id => m = n
        BY DEF DeliveryInvariant
    <2>. QED
        BY <2>2, <2>3, <2>4, <2>5, <1>3, <1>4, <1>7 DEF DeliveryInvariant
<1>. QED
    BY <1>6, <1>7

(* A delayed attempt comes back to the queue. *)
LEMMA DueHookInv == ASSUME HookInv, NEW t \in delayed, Due(t) PROVE HookInv'
<1> USE DEF HookInv, Due
<1>1. t \in Task /\ inbox \in Seq(Task)
    BY DEF DeliveryInvariant, HookTypeOK
<1>2. /\ inbox' \in Seq(Task)
      /\ \A n \in DOMAIN inbox : n \in DOMAIN inbox' /\ inbox'[n] = inbox[n]
      /\ \A n \in DOMAIN inbox' : n \in DOMAIN inbox \/ (n = Len(inbox) + 1 /\ inbox'[n] = t)
    BY <1>1, AppendFacts
<1>3. HookTypeOK'
    BY <1>2 DEF DeliveryInvariant, HookTypeOK
<1>4. \A n \in DOMAIN inbox : inbox[n].id # t.id
    BY DEF DeliveryInvariant, InDelayed
<1>5. /\ t.attempt = posts[t.id] + 1 /\ heard[t.id] = "none" /\ t.id \notin lost
      /\ \A u \in delayed' : u \in delayed /\ u.id # t.id
      /\ sending # NoTask => sending.id # t.id
    BY DEF DeliveryInvariant
<1>6. \A n \in DOMAIN inbox' :
          /\ inbox'[n].attempt = posts[inbox'[n].id] + 1
          /\ heard[inbox'[n].id] = "none"
          /\ inbox'[n].id \notin lost
          /\ \A m \in DOMAIN inbox' : inbox'[m].id = inbox'[n].id => m = n
          /\ \A u \in delayed' : u.id # inbox'[n].id
          /\ sending # NoTask => sending.id # inbox'[n].id
    <2> TAKE n \in DOMAIN inbox'
    <2>1. CASE n \in DOMAIN inbox
        BY <2>1, <1>2, <1>4, <1>5 DEF DeliveryInvariant, InDelayed
    <2>2. CASE n = Len(inbox) + 1 /\ inbox'[n] = t
        BY <2>2, <1>2, <1>4, <1>5
    <2>. QED
        BY <1>2, <2>1, <2>2
<1>7. DeliveryInvariant'
    BY <1>3, <1>5, <1>6 DEF DeliveryInvariant, InDelayed
<1>. QED
    BY <1>7 DEF HeardWasPosted

(* The work-horse dies: its delivery is lost. *)
LEMMA KilledHookInv == ASSUME HookInv, DeliveryKilled PROVE HookInv'
<1> DEFINE d == sending.id
<1> USE DEF HookInv, DeliveryKilled
<1>1. hookAt # "idle" /\ d \in Delivery /\ sending \in Task
    BY SendingFacts
<1>2. /\ posts[d] \in Nat /\ (hookAt = "post" => posts[d] + 1 <= MaxAttempts)
      /\ heard[d] = "none"
    BY SendingFacts
<1>3. posts' = posts \/ (hookAt = "post" /\ posts' = [posts EXCEPT ![d] = @ + 1])
    OBVIOUS
<1>4. /\ posts' \in [Delivery -> 0 .. MaxAttempts]
      /\ \A e \in Delivery : e # d => posts'[e] = posts[e]
      /\ \A e \in Delivery : posts'[e] >= posts[e]
    BY <1>1, <1>2, <1>3, AttemptsAssumption DEF DeliveryInvariant, HookTypeOK
<1>5. HookTypeOK'
    BY <1>1, <1>4 DEF DeliveryInvariant, HookTypeOK, TaskDone
<1>6. HeardWasPosted'
    BY <1>4, AttemptsAssumption DEF HeardWasPosted, DeliveryInvariant, HookTypeOK
<1>7. \A e \in Delivery : e # d =>
          posts'[e] = posts[e] /\ heard'[e] = heard[e] /\ (e \in lost' => e \in lost)
    BY <1>4
<1>8. /\ \A n \in DOMAIN inbox' :
            /\ inbox'[n].attempt = posts'[inbox'[n].id] + 1
            /\ heard'[inbox'[n].id] = "none"
            /\ inbox'[n].id \notin lost'
            /\ \A m \in DOMAIN inbox' : inbox'[m].id = inbox'[n].id => m = n
            /\ ~InDelayed(inbox[n].id)'
            /\ inbox'[n].id # sending.id
      /\ \A t \in delayed' :
            /\ t.attempt = posts'[t.id] + 1
            /\ heard'[t.id] = "none"
            /\ t.id \notin lost'
            /\ \A u \in delayed' : u.id = t.id => u = t
            /\ t.id # sending.id
    BY <1>1, <1>7, OthersUntouched
<1>. QED
    BY <1>5, <1>6, <1>8 DEF DeliveryInvariant, TaskDone

LEMMA NextHookInv == HookInv /\ [HookNext]_hookVars => HookInv'
<1> SUFFICES ASSUME HookInv, [HookNext]_hookVars PROVE HookInv'
    OBVIOUS
<1>1. ASSUME NEW d \in Delivery, EnqueueWebhook(d) PROVE HookInv'
    BY <1>1, EnqueueHookInv
<1>2. CASE TakeDelivery
    BY <1>2, TakeHookInv
<1>3. CASE Post
    BY <1>3, PostHookInv
<1>4. CASE MaybeRetry
    BY <1>4, RetryHookInv
<1>5. ASSUME NEW t \in delayed, Due(t) PROVE HookInv'
    BY <1>5, DueHookInv
<1>6. CASE DeliveryKilled
    BY <1>6, KilledHookInv
<1>7. CASE UNCHANGED hookVars
    BY <1>7 DEF hookVars, HookInv, DeliveryInvariant, HookTypeOK, HeardWasPosted, InDelayed
<1>. QED
    BY <1>1, <1>2, <1>3, <1>4, <1>5, <1>6, <1>7 DEF HookNext, DeliveryStep

(* However many deliveries there are and whatever fails, a delivery is in   *)
(* one place, and its attempt number is the number of its POSTs.            *)
THEOREM OnePlaceForDelivery == HookSpec => []DeliveryInvariant
<1>1. HookInv => DeliveryInvariant
    BY DEF HookInv
<1>. QED
    BY <1>1, InitHookInv, NextHookInv, PTL DEF HookSpec

(* deliver_webhook_task keeps the promise of WebhookPromise: at most        *)
(* MaxAttempts POSTs and none after a final answer, also when the worker is *)
(* killed around a POST or Redis fails while the next one is scheduled.     *)
THEOREM DeliveriesKeepPromise == HookSpec => KeepsPromise
<1> DEFINE Over == {d \in Delivery : heard[d] # "none"}
<1>1. HookInit => Receiver!PromiseInit
    BY DEF HookInit, Receiver!PromiseInit
<1>2. ASSUME HookInv, [HookNext]_hookVars
      PROVE  [\E d \in Delivery : Receiver!Send(d)]_(Receiver!promiseVars)
    <2>1. CASE Post
        <3> DEFINE d == sending.id
        <3>1. /\ hookAt # "idle" /\ d \in Delivery /\ d \notin Over
              /\ posts[d] \in Nat /\ posts[d] + 1 <= MaxAttempts
            BY <2>1, <1>2, SendingFacts DEF Post
        <3>2. posts' = [posts EXCEPT ![d] = @ + 1] /\ posts[d] < MaxAttempts
            BY <2>1, <3>1, AttemptsAssumption DEF Post
        <3>3. Over' \in {Over, Over \union {d}}
            BY <2>1, <3>1, <1>2 DEF Post, TaskDone, HookInv, DeliveryInvariant, HookTypeOK, Answer
        <3>4. \E e \in Delivery : Receiver!Send(e)
            BY <3>1, <3>2, <3>3 DEF Receiver!Send
        <3>. QED
            BY <3>4
    <2>2. CASE DeliveryKilled
        <3> DEFINE d == sending.id
        <3>1. /\ hookAt # "idle" /\ d \in Delivery /\ d \notin Over
              /\ posts[d] \in Nat /\ (hookAt = "post" => posts[d] + 1 <= MaxAttempts)
            BY <2>2, <1>2, SendingFacts DEF DeliveryKilled
        <3>2. Over' = Over
            BY <2>2 DEF DeliveryKilled
        <3>3. CASE posts' = posts
            BY <3>2, <3>3 DEF Receiver!promiseVars
        <3>4. CASE hookAt = "post" /\ posts' = [posts EXCEPT ![d] = @ + 1]
            <4>1. posts[d] < MaxAttempts
                BY <3>1, <3>4, AttemptsAssumption
            <4>2. \E e \in Delivery : Receiver!Send(e)
                BY <3>1, <3>2, <3>4, <4>1 DEF Receiver!Send
            <4>. QED
                BY <4>2
        <3>. QED
            BY <2>2, <3>3, <3>4 DEF DeliveryKilled
    <2>3. CASE UNCHANGED <<posts, heard>>
        BY <2>3 DEF Receiver!promiseVars
    <2>. QED
        BY <1>2, <2>1, <2>2, <2>3
           DEF HookNext, DeliveryStep, EnqueueWebhook, TakeDelivery, MaybeRetry, Due, hookVars
<1>. QED
    BY <1>1, <1>2, InitHookInv, NextHookInv, PTL
       DEF HookSpec, KeepsPromise, Receiver!PromiseSpec

-----------------------------------------------------------------------------
(***************************************************************************)
(* The composition of the job pipeline and the webhooks.                   *)
(***************************************************************************)
(* Whatever is or was under way to a receiver was announced by the worker.  *)
OnlyAnnounced == \A d \in Delivery : InFlight(d) \/ posts[d] > 0 => d \in notified

SystemInv == IndInv /\ ResultInv /\ HookInv /\ OnlyAnnounced

LEMMA InitSystemInv == SystemInit => SystemInv
<1> SUFFICES ASSUME SystemInit PROVE SystemInv
    OBVIOUS
<1>1. IndInv /\ ResultInv /\ HookInv
    BY InitIndInv, InitResultInv, InitHookInv DEF SystemInit
<1>2. OnlyAnnounced
    BY DEF SystemInit, HookInit, OnlyAnnounced, InFlight, InInbox, InDelayed
<1>. QED
    BY <1>1, <1>2 DEF SystemInv

(* The first attempt of a delivery goes with the announcement of its job. *)
LEMMA EnqueueAnnounced ==
    ASSUME SystemInv, NEW d \in Delivery, EnqueueWebhook(d),
           notified \subseteq notified', d \in notified'
    PROVE  OnlyAnnounced'
<1> USE DEF EnqueueWebhook
<1>1. inbox \in Seq(Task) /\ FirstAttempt(d) \in Task /\ FirstAttempt(d).id = d
    BY AttemptsAssumption
       DEF SystemInv, HookInv, DeliveryInvariant, HookTypeOK, FirstAttempt, Task
<1>2. \A n \in DOMAIN inbox' :
          (n \in DOMAIN inbox /\ inbox'[n] = inbox[n]) \/ inbox'[n].id = d
    BY <1>1, AppendFacts
<1>3. \A e \in Delivery : InFlight(e)' => InFlight(e) \/ e = d
    BY <1>2 DEF InFlight, InInbox, InDelayed
<1>. QED
    BY <1>3 DEF SystemInv, OnlyAnnounced

(* From the first attempt on, a delivery only moves from place to place. *)
LEMMA DeliveryOnlyAnnounced ==
    ASSUME SystemInv, DeliveryStep \/ DeliveryKilled, UNCHANGED notified
    PROVE  OnlyAnnounced'
<1> USE DEF SystemInv
<1>1. inbox \in Seq(Task)
    BY DEF HookInv, DeliveryInvariant, HookTypeOK
<1>2. CASE TakeDelivery
    <2>1. inbox # <<>> /\ sending' = Head(inbox) /\ inbox' = Tail(inbox)
        BY <1>2 DEF TakeDelivery
    <2>2. /\ 1 \in DOMAIN inbox /\ sending' = inbox[1]
          /\ \A n \in DOMAIN inbox' : n + 1 \in DOMAIN inbox /\ inbox'[n] = inbox[n + 1]
        BY <1>1, <2>1, RestFacts
    <2>3. \A e \in Delivery : InFlight(e)' => InFlight(e)
        BY <2>2, <1>2 DEF TakeDelivery, InFlight, InInbox, InDelayed
    <2>. QED
        BY <2>3, <1>2 DEF TakeDelivery, OnlyAnnounced
<1>3. CASE Post \/ MaybeRetry \/ DeliveryKilled
    <2> DEFINE d == sending.id
    <2>1. /\ hookAt # "idle" /\ d \in Delivery /\ sending # NoTask
          /\ sending \in Task /\ InFlight(d)
        BY <1>3, SendingFacts DEF Post, MaybeRetry, DeliveryKilled, InFlight
    <2>2. \A e \in Delivery : e # d => posts'[e] = posts[e]
        BY <1>3, <2>1 DEF Post, MaybeRetry, DeliveryKilled, HookInv, DeliveryInvariant, HookTypeOK
    <2>3. NextAttempt(sending).id = d
        BY <2>1 DEF NextAttempt, Task
    <2>4. \A e \in Delivery : e # d /\ InFlight(e)' => InFlight(e)
        BY <1>3, <2>1, <2>3 DEF Post, MaybeRetry, DeliveryKilled, TaskDone,
                                InFlight, InInbox, InDelayed
    <2>. QED
        BY <2>1, <2>2, <2>4 DEF OnlyAnnounced
<1>4. ASSUME NEW t \in delayed, Due(t) PROVE OnlyAnnounced'
    <2>1. t \in Task /\ inbox' = Append(inbox, t)
        BY <1>4 DEF Due, HookInv, DeliveryInvariant, HookTypeOK
    <2>2. \A n \in DOMAIN inbox' :
              (n \in DOMAIN inbox /\ inbox'[n] = inbox[n]) \/ inbox'[n] = t
        BY <1>1, <2>1, AppendFacts
    <2>3. \A e \in Delivery : InFlight(e)' => InFlight(e)
        BY <1>4, <2>2 DEF Due, InFlight, InInbox, InDelayed
    <2>. QED
        BY <2>3, <1>4 DEF Due, OnlyAnnounced
<1>. QED
    BY <1>2, <1>3, <1>4 DEF DeliveryStep

(* A step of the jobs announces one with a callback_url or none. *)
LEMMA AnnouncedGrows ==
    ASSUME IndInv, ResultInv, Next
    PROVE  notified \subseteq notified' /\ notified' \ notified \subseteq Callback
<1>1. ASSUME NEW w \in Worker, Notify(w)
      PROVE  notified \subseteq notified' /\ notified' \ notified \subseteq Callback
    BY <1>1 DEF Notify, MovesTo, ResultInv, PastStore
<1>2. ASSUME NEW w \in Worker, ~Notify(w), WorkerStepOf(w) \/ HorseKilled(w)
      PROVE  UNCHANGED notified
    BY <1>2 DEF WorkerStepOf, HorseKilled, Take, Load, GiveUp, Start, Work, Store, Finish,
                Fail, Release
<1>3. ASSUME NEW j \in Job, Acquire(j) \/ CallStep(j) \/ ApiCrash(j)
      PROVE  UNCHANGED notified
    BY <1>3 DEF CallStep, Acquire, Find, Recheck, Lookup, Steal, Retry, Insert, Push, Undo,
                Unlock, ApiCrash, workerVars
<1>4. ASSUME NEW k \in Key, Expire(k) PROVE UNCHANGED notified
    BY <1>4 DEF Expire, workerVars
<1>. QED
    BY <1>1, <1>2, <1>3, <1>4 DEF Next, Quiet, vars, workerVars

LEMMA NextSystemInv == SystemInv /\ [SystemNext]_systemVars => SystemInv'
<1> SUFFICES ASSUME SystemInv, [SystemNext]_systemVars PROVE SystemInv'
    OBVIOUS
<1> USE DEF SystemInv
<1>1. CASE JobStep
    <2>1. /\ Next /\ IndInv' /\ ResultInv'
          /\ notified \subseteq notified' /\ notified' \ notified \subseteq Callback
        BY <1>1, NextIndInv, NextResultInv, AnnouncedGrows DEF JobStep
    <2>2. CASE UNCHANGED hookVars
        <3>1. HookInv'
            BY <2>2, NextHookInv
        <3>2. OnlyAnnounced'
            BY <2>1, <2>2 DEF OnlyAnnounced, hookVars, InFlight, InInbox, InDelayed
        <3>. QED
            BY <2>1, <3>1, <3>2
    <2>3. ASSUME NEW d, d \in notified' \ notified, EnqueueWebhook(d) PROVE SystemInv'
        <3>1. d \in Delivery
            BY <2>1, <2>3, DeliveryAssumption
        <3>. QED
            BY <2>1, <2>3, <3>1, EnqueueHookInv, EnqueueAnnounced
    <2>. QED
        BY <1>1, <2>2, <2>3 DEF JobStep
<1>2. CASE HookStep
    <2>1. IndInv' /\ ResultInv' /\ UNCHANGED notified
        BY <1>2, NextIndInv, NextResultInv DEF HookStep, vars, workerVars
    <2>2. HookInv'
        BY <1>2, NextHookInv DEF HookStep, HookNext
    <2>. QED
        BY <1>2, <2>1, <2>2, DeliveryOnlyAnnounced DEF HookStep
<1>3. CASE UNCHANGED systemVars
    <2>1. IndInv' /\ ResultInv' /\ HookInv'
        BY <1>3, NextIndInv, NextResultInv, NextHookInv DEF systemVars
    <2>2. OnlyAnnounced'
        BY <1>3 DEF systemVars, vars, workerVars, hookVars, OnlyAnnounced, InFlight, InInbox, InDelayed
    <2>. QED
        BY <2>1, <2>2
<1>. QED
    BY <1>1, <1>2, <1>3 DEF SystemNext

LEMMA SystemInvariantHolds == SystemSpec => []SystemInv
BY InitSystemInv, NextSystemInv, PTL DEF SystemSpec

(* A receiver hears of a job only when its result is committed, for every   *)
(* set of jobs, number of attempts and fault of the workers on either side. *)
THEOREM AnnouncementsAreStored == SystemSpec => []AnnouncedIsStored
<1>1. SystemInv => AnnouncedIsStored
    BY DeliveryAssumption DEF SystemInv, OnlyAnnounced, ResultInv, AnnouncedIsStored
<1>. QED
    BY <1>1, SystemInvariantHolds, PTL

(* In the composition the deliveries behave as WebhookDelivery says, and so  *)
(* the promise to the receiver is kept, whatever kills the workers on either *)
(* side: at most MaxAttempts POSTs for the delivery of a job, and none after *)
(* an answer that deliver_webhook took as final.                            *)
THEOREM SystemKeepsPromise == SystemSpec => KeepsPromise
<1>1. SystemInit => HookInit
    BY DEF SystemInit
<1>2. SystemInv /\ [SystemNext]_systemVars => [HookNext]_hookVars
    <2> SUFFICES ASSUME SystemInv, [SystemNext]_systemVars, ~UNCHANGED hookVars
                 PROVE  HookNext
        OBVIOUS
    <2>1. CASE JobStep
        <3>1. PICK d \in notified' \ notified : EnqueueWebhook(d)
            BY <2>1 DEF JobStep
        <3>2. d \in Delivery
            BY <2>1, <3>1, AnnouncedGrows, DeliveryAssumption DEF JobStep, SystemInv
        <3>. QED
            BY <3>1, <3>2 DEF HookNext
    <2>2. CASE HookStep
        BY <2>2 DEF HookStep, HookNext
    <2>. QED
        BY <2>1, <2>2 DEF SystemNext, systemVars
<1>3. SystemSpec => HookSpec
    BY <1>1, <1>2, SystemInvariantHolds, PTL DEF SystemSpec, HookSpec
<1>. QED
    BY <1>3, DeliveriesKeepPromise, PTL

(* With deliveries under way, too, no two jobs of one key are active        *)
(* together, unless a lock was lost: the composition implements JobPipeline.*)
THEOREM SystemExcludes == SystemSpec => []Exclusive
<1>1. SystemInit => Init
    BY DEF SystemInit
<1>2. [SystemNext]_systemVars => [Next]_vars
    BY DEF SystemNext, JobStep, HookStep, systemVars
<1>3. SystemSpec => Spec
    BY <1>1, <1>2, PTL DEF SystemSpec, Spec
<1>. QED
    BY <1>3, MutualExclusion, PTL
=============================================================================
