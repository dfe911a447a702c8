------------------------------ MODULE Gateway -------------------------------
(***************************************************************************)
(* What a request passes before and while it does its work: the bearer     *)
(* token (require_scopes), the rate limiter of app/middleware.py and the   *)
(* routes of app/main.py that fan out into transcript jobs: one video, a   *)
(* batch (asyncio.gather) or an ingest (one video after the other).        *)
(* Each await of Redis or Postgres ends a step.                            *)
(***************************************************************************)
EXTENDS Tokens

CONSTANTS
    Request,
    HostOf,         \* HostOf[r]: the worker that accepts it
    RouteOf,        \* RouteOf[r]: "transcript", "batch" or "ingest"
    VideosOf,       \* VideosOf[r]: how many videos it names
    RedisFaults,    \* TRUE: a command of the limiter may fail
    Limit,          \* Limit[category]: the count of its rate limit
    Window          \* the period of every limit, in ticks

Route == {"transcript", "batch", "ingest"}
Category == {"read", "batch", "whisper"}
MaxVideos == Max({VideosOf[r] : r \in Request})

ASSUME RequestAssumption == IsFiniteSet(Request) /\ Request # {}
ASSUME RouteAssumption ==
    /\ HostOf \in [Request -> Worker]
    /\ RouteOf \in [Request -> Route]
    /\ VideosOf \in [Request -> Nat]
    /\ \A r \in Request : RouteOf[r] = "transcript" => VideosOf[r] = 1
ASSUME LimitAssumption ==
    /\ Limit \in [Category -> Nat]
    /\ Window \in Nat \ {0}

VARIABLES
    call,       \* call[r][k]: k = 0 is the handler of r, k > 0 its k-th video
    row,        \* the token row r was matched with, 0 before
    count,      \* count[key]: the counter in Redis, 0 when there is none
    ttl,        \* ttl[key]: ticks until it expires, 0 when it never does
    window,     \* window[key]: how many times the key has expired (history)
    orphan      \* keys whose EXPIRE was lost (history)

gateVars == <<call, row, count, ttl, window, orphan>>
vars == <<tokenVars, gateVars>>

Answered == {"200", "202", "400", "401", "403", "429", "500"}
Outcome == {"cached", "queued", "limited", "failed"}
Stage == {"idle", "incr", "expire", "work"}
         \union Answered \union Outcome
Call == [stage : Stage, window : Nat]
Key == Category \X (1 .. MaxToken)

TypeOK ==
    /\ TokensTypeOK
    /\ call \in [Request -> [0 .. MaxVideos -> Call]]
    /\ row \in [Request -> 0 .. MaxToken]
    /\ count \in [Key -> Nat]
    /\ ttl \in [Key -> 0 .. Window]
    /\ \A k \in Key : count[k] = 0 => ttl[k] = 0
    /\ window \in [Key -> Nat]
    /\ orphan \subseteq Key

Init ==
    /\ TokensInit
    /\ call = [r \in Request |-> [k \in 0 .. MaxVideos |->
                  [stage |-> "idle", window |-> 0]]]
    /\ row = [r \in Request |-> 0]
    /\ count = [k \in Key |-> 0]
    /\ ttl = [k \in Key |-> 0]
    /\ window = [k \in Key |-> 0]
    /\ orphan = {}

Video(r) == 1 .. VideosOf[r]
Ended(r) == call[r][0].stage \in Answered

(* require_scopes of the route; admin implies every scope. *)
ScopeOf(r) == IF RouteOf[r] \in {"batch", "ingest"} THEN "batch" ELSE "read"
Permits(scopes, r) == "admin" \in scopes \/ ScopeOf(r) \in scopes

(* rl:{category}:{token.id} *)
KeyOf(r, k) == <<IF k = 0 THEN ScopeOf(r) ELSE "whisper", row[r]>>

Moved(r, k, to) == [call EXCEPT ![r][k].stage = to]
At(r, k, stage) == call[r][k].stage = stage

-----------------------------------------------------------------------------
(* Authentication. *)
(* Before the request is counted the route parses the video id of a transcript,
   and FastAPI has validated the body of a batch or an ingest: 400 stands for
   these refusals and for the 413 of an oversized batch. *)
Authorized(r, scopes) ==
    IF Permits(scopes, r) THEN {"incr", "400"} ELSE {"403"}

(* lookup_token reads the live rows; its snapshot of the match decides, and the
   commit of last_used_at changes nothing that is read. *)
Authenticate(r) ==
    /\ boot[HostOf[r]] = "serving"
    /\ At(r, 0, "idle")
    /\ \E plain \in Plain :
          LET match == {i \in LiveRows : token[i].plain = plain} IN
          \/ match = {} /\ call' = Moved(r, 0, "401") /\ UNCHANGED row
          \/ \E i \in match :
                /\ row' = [row EXCEPT ![r] = i]
                /\ \E to \in Authorized(r, token[i].scopes) : call' = Moved(r, 0, to)
    /\ UNCHANGED <<tokenVars, count, ttl, window, orphan>>

-----------------------------------------------------------------------------
(* A batch and an ingest check their callback URL, and an ingest its date and
   channel, only after they were counted: 400 stands for all of these. *)
Validated(r) == IF ScopeOf(r) = "batch" THEN {"work", "400"} ELSE {"work"}

(* enforce_rate_limit, for the handler and for each Whisper enqueue.  What is
   over the limit is refused; a video whose hook raised ends alone. *)
Verdict(r, k, n) ==
    IF n > Limit[KeyOf(r, k)[1]] THEN {IF k = 0 THEN "429" ELSE "limited"}
    ELSE IF k > 0 THEN {"queued", "failed"}
    ELSE Validated(r)

Incr(r, k) ==
    LET key == KeyOf(r, k) IN
    /\ At(r, k, "incr")
    /\ count' = [count EXCEPT ![key] = @ + 1]
    /\ \E to \in IF count'[key] = 1 THEN {"expire"} ELSE Verdict(r, k, count'[key]) :
          call' = [call EXCEPT ![r][k] = [stage |-> to, window |-> window[key]]]
    /\ UNCHANGED <<tokenVars, row, ttl, window, orphan>>

(* Mutant: the hook expires the counter of its route. *)
ExpireRouteKey(r, k) ==
    /\ At(r, k, "expire")
    /\ ttl' = [ttl EXCEPT ![KeyOf(r, 0)] = Window]
    /\ \E to \in Verdict(r, k, 1) : call' = Moved(r, k, to)
    /\ UNCHANGED <<tokenVars, row, count, window, orphan>>

ExpireKey(r, k) ==
    /\ At(r, k, "expire")
    /\ ttl' = [ttl EXCEPT ![KeyOf(r, k)] = Window]
    /\ \E to \in Verdict(r, k, 1) : call' = Moved(r, k, to)
    /\ UNCHANGED <<tokenVars, row, count, window, orphan>>

(* Redis errors are not swallowed: the request fails, the video of a batch or an
   ingest alone, whether Redis executed the command or not; so it does when the
   TTL of a refusal cannot be read.  After a first INCR nothing sends the EXPIRE
   again; a worker that dies there leaves the same counter behind. *)
RedisFails(r, k) ==
    LET key == KeyOf(r, k) IN
    /\ RedisFaults
    /\ call[r][k].stage \in {"incr", "expire"}
    /\ count' \in IF At(r, k, "incr") THEN {count, [count EXCEPT ![key] = @ + 1]}
                  ELSE {count}
    /\ ttl' \in IF At(r, k, "expire") THEN {ttl, [ttl EXCEPT ![key] = Window]}
                ELSE {ttl}
    /\ orphan' = IF ttl'[key] = 0 /\ (At(r, k, "expire") \/ count'[key] = 1)
                 THEN orphan \union {key} ELSE orphan
    /\ call' = Moved(r, k, IF k = 0 THEN "500" ELSE "failed")
    /\ UNCHANGED <<tokenVars, row, window>>

Enforce(r, k) == Incr(r, k) \/ ExpireKey(r, k) \/ RedisFails(r, k)

-----------------------------------------------------------------------------
(* The routes.  A video is served from the cache or the captions, fails, or
   comes to the point where a Whisper job is enqueued. *)
(* Mutant: a video that was refused stops the ingest. *)
InTurnUntilRefused(r, k) ==
    \/ RouteOf[r] # "ingest"
    \/ \A j \in 1 .. k - 1 : call[r][j].stage \in {"cached", "queued"}

InTurn(r, k) ==
    \/ RouteOf[r] # "ingest"
    \/ \A j \in 1 .. k - 1 : call[r][j].stage \in Outcome

(* Mutant: ingest enqueues without the hook. *)
DispatchUnhooked(r, k) ==
    /\ At(r, 0, "work")
    /\ At(r, k, "idle")
    /\ InTurn(r, k)
    /\ \/ call' = Moved(r, k, "cached")
       \/ call' = Moved(r, k, "failed")
       \/ /\ RouteOf[r] = "ingest"
          /\ call' = [call EXCEPT ![r][k].stage = "queued",
                                  ![r][k].window = window[KeyOf(r, k)]]
       \/ RouteOf[r] # "ingest" /\ call' = Moved(r, k, "incr")
    /\ UNCHANGED <<tokenVars, row, count, ttl, window, orphan>>

Dispatch(r, k) ==
    /\ At(r, 0, "work")
    /\ At(r, k, "idle")
    /\ InTurn(r, k)
    /\ \E to \in {"cached", "failed", "incr"} : call' = Moved(r, k, to)
    /\ UNCHANGED <<tokenVars, row, count, ttl, window, orphan>>

Response(r) ==
    IF RouteOf[r] # "transcript" THEN "200"
    ELSE CASE call[r][1].stage = "cached"  -> "200"
           [] call[r][1].stage = "queued"  -> "202"
           [] call[r][1].stage = "limited" -> "429"
           [] call[r][1].stage = "failed"  -> "500"

Answer(r) ==
    /\ At(r, 0, "work")
    /\ \A k \in Video(r) : call[r][k].stage \in Outcome
    /\ call' = Moved(r, 0, Response(r))
    /\ UNCHANGED <<tokenVars, row, count, ttl, window, orphan>>

Serve(r) ==
    \/ Enforce(r, 0) \/ Answer(r)
    \/ \E k \in Video(r) : Dispatch(r, k) \/ Enforce(r, k)

Handle(r) == Authenticate(r) \/ Serve(r)

-----------------------------------------------------------------------------
(* Deaths are explored before the first request, a bound: a request that dies
   with its worker leaves what one that ends in RedisFails leaves. *)
Die(w) ==
    /\ \A r \in Request : At(r, 0, "idle")
    /\ WorkerDies(w)
    /\ UNCHANGED gateVars

(* Redis: a key whose time is over disappears. *)
Tick ==
    LET over == {k \in Key : ttl[k] = 1} IN
    /\ \E k \in Key : ttl[k] > 0
    /\ ttl' = [k \in Key |-> IF ttl[k] = 0 THEN 0 ELSE ttl[k] - 1]
    /\ count' = [k \in Key |-> IF k \in over THEN 0 ELSE count[k]]
    /\ window' = [k \in Key |-> IF k \in over THEN window[k] + 1 ELSE window[k]]
    /\ UNCHANGED <<tokenVars, call, row, orphan>>

TokenStep ==
    /\ Admin \/ \E w \in Worker : Bootstrap(w)
    /\ UNCHANGED gateVars

Next ==
    \/ \E r \in Request : Handle(r)
    \/ \E w \in Worker : Die(w)
    \/ Tick
    \/ TokenStep

Spec == Init /\ [][Next]_vars

(* The event loops run, Postgres grants a free lock to a waiter, time passes.
   Nobody has to send a request, and the lock need not fail. *)
Fairness ==
    /\ \A r \in Request : WF_vars(Serve(r))
    /\ \A w \in Worker : WF_vars(Proceed(w) /\ UNCHANGED gateVars)
    /\ WF_vars(Tick)

FairSpec == Spec /\ Fairness

-----------------------------------------------------------------------------
(***************************************************************************)
(* Properties.                                                             *)
(***************************************************************************)
Passed(key, n) ==
    {rk \in Request \X (0 .. MaxVideos) :
        /\ row[rk[1]] # 0
        /\ KeyOf(rk[1], rk[2]) = key
        /\ call[rk[1]][rk[2]].window = n
        /\ call[rk[1]][rk[2]].stage \in {"work", "200", "202", "queued"}}

(* Whatever the routes, workers and interleavings, a token gets no more through
   a counter than its limit while the key lives; the Whisper counter is shared
   by transcripts, batches and ingests (ingest.py:70-71). *)
LimitHolds ==
    \A key \in Key : \A n \in 0 .. window[key] :
        Cardinality(Passed(key, n)) <= Limit[key[1]]

(* A counter without an expiry has a request on its way to set one, unless that
   was lost between INCR and EXPIRE: then the token stays locked out. *)
CountersExpire ==
    \A key \in Key :
        count[key] > 0 /\ ttl[key] = 0 =>
            \/ key \in orphan
            \/ \E r \in Request : \E k \in 0 .. MaxVideos :
                  row[r] = key[2] /\ At(r, k, "expire") /\ KeyOf(r, k) = key

(* "the counter resets cleanly" (middleware.py:180): every counter of a window
   comes to an expiry.  The code's EXPIRE is a second command, sent once. *)
CountersReset == []<>(\A key \in Key : count[key] = 0 \/ ttl[key] > 0)

(* A token over its limit gets a fresh window, unless its EXPIRE was lost. *)
LimitedRecovers ==
    []<>(\A key \in Key : count[key] <= Limit[key[1]] \/ key \in orphan)

(* Every request that was accepted is answered, also when Redis fails in the
   hook of some of its videos or the limit refuses them. *)
RequestsEnd == []<>(\A r \in Request : At(r, 0, "idle") \/ Ended(r))
=============================================================================
