-------------------------- MODULE MonitorScheduler --------------------------
(***************************************************************************)
(* The channel monitors: app/monitor_scheduler.py (one process, one loop)  *)
(* and the rows of app/monitors.py that operators change beside it.        *)
(*                                                                         *)
(* The loop works on monitors it loaded up to _RELOAD_SECONDS ago, so the  *)
(* cursor last_video_id it compares the feed with is a copy.  Videos of a  *)
(* channel are numbered in the order of their publication; a feed shows    *)
(* the newest Window of those that still exist.  The loop's clock is kept  *)
(* as the time since the last reload and the time to each monitor's next   *)
(* poll; one tick is the granularity of the model, and every iteration     *)
(* takes at least one (asyncio.sleep).                                     *)
(***************************************************************************)
EXTENDS Naturals, FiniteSets, FiniteSetsExt

CONSTANTS
    Monitor,
    MaxVideo,       \* bound: videos published per channel
    MaxRemoved,     \* bound: videos removed per channel
    MaxFaults,      \* bound: failing steps and crashes in one behaviour
    Window,         \* entries in a feed
    Reload,         \* _RELOAD_SECONDS, in ticks
    Interval,       \* poll_interval_minutes of every monitor, in ticks
    SlowestLoop,    \* the longest iteration of the loop, in ticks
    NoMonitor       \* no poll is going on

Video == 1 .. MaxVideo

(* The schema wants at least 5 minutes, _RELOAD_SECONDS.  The two are       *)
(* compared by <= and >, so a monitor of exactly 5 minutes is polled on     *)
(* stale rows only if the float clock reads exactly 300.0: left out.        *)
ASSUME IntervalAssumption ==
    /\ Reload \in Nat /\ Interval \in Nat /\ Interval > Reload
    /\ SlowestLoop \in Nat \ {0}
ASSUME BoundAssumption ==
    /\ MaxVideo \in Nat /\ MaxRemoved \in Nat /\ MaxFaults \in Nat
    /\ Window \in Nat \ {0}
ASSUME NoMonitorAssumption == NoMonitor \notin Monitor

VARIABLES
    status,     \* status[m]: of the row of m
    last,       \* last[m]: last_video_id of the row, 0 for NULL
    published,  \* published[m]: how many videos the channel has published
    removed,    \* removed[m]: those it took down again
    cached,     \* monitors_cache, the monitors of the last reload
    copy,       \* copy[m]: last_video_id in the cached object
    age,        \* time since last_reload, at most Reload + 1
    wait,       \* wait[m]: time to next_runs[m], 0 when m is due
    at,         \* the step the loop is about to take
    todo,       \* monitors due in this iteration and not polled yet
    current,    \* the monitor being polled
    fresh,      \* videos of this poll not dispatched yet
    newest,     \* newest_succeeded, 0 for None
    poisoned,   \* the poll's session has a failed transaction
    faults,     \* failing steps so far
    done,       \* history: done[m], videos dispatched for m
    missed,     \* history: missed[m], videos that left the feed undispatched
    gap         \* history: the cursor was not in the feed of this poll

rowVars   == <<status, last>>
feedVars  == <<published, removed, missed>>
cacheVars == <<cached, copy, age, wait>>
pollVars  == <<todo, current, fresh, newest, poisoned, gap>>
vars == <<rowVars, feedVars, cacheVars, pollVars, at, faults, done>>

Status == {"absent", "active", "paused", "deleted"}

TypeOK ==
    /\ status \in [Monitor -> Status]
    /\ last \in [Monitor -> 0 .. MaxVideo]
    /\ published \in [Monitor -> 0 .. MaxVideo]
    /\ removed \in [Monitor -> SUBSET Video]
    /\ cached \subseteq Monitor
    /\ copy \in [Monitor -> 0 .. MaxVideo]
    /\ age \in 0 .. Reload + 1
    /\ wait \in [Monitor -> 0 .. Interval]
    /\ at \in {"sleep", "top", "scan", "walk", "mark"}
    /\ todo \subseteq Monitor
    /\ current \in Monitor \union {NoMonitor}
    /\ fresh \subseteq Video
    /\ newest \in 0 .. MaxVideo
    /\ poisoned \in BOOLEAN
    /\ faults \in 0 .. MaxFaults
    /\ done \in [Monitor -> SUBSET Video]
    /\ missed \in [Monitor -> SUBSET Video]
    /\ gap \in BOOLEAN

Init ==
    /\ status = [m \in Monitor |-> "absent"]
    /\ last = [m \in Monitor |-> 0]
    /\ published = [m \in Monitor |-> 0]
    /\ removed = [m \in Monitor |-> {}]
    /\ cached = {}
    /\ copy = [m \in Monitor |-> 0]
    /\ age = Reload + 1
    /\ wait = [m \in Monitor |-> 0]
    /\ at = "sleep"
    /\ todo = {}
    /\ current = NoMonitor
    /\ fresh = {}
    /\ newest = 0
    /\ poisoned = FALSE
    /\ faults = 0
    /\ done = [m \in Monitor |-> {}]
    /\ missed = [m \in Monitor |-> {}]
    /\ gap = FALSE

-----------------------------------------------------------------------------
(* The feed of a channel *)

FeedOf(n, gone) ==
    {v \in (1 .. n) \ gone :
        Cardinality({u \in (1 .. n) \ gone : u > v}) < Window}
Feed(m) == FeedOf(published[m], removed[m])

(* Videos that a change takes out of the feed before they were dispatched. *)
Dropped(m, n, gone) == Feed(m) \ (FeedOf(n, gone) \union done[m])

Publish(m) ==
    /\ published[m] < MaxVideo
    /\ published' = [published EXCEPT ![m] = @ + 1]
    /\ missed' = [missed EXCEPT ![m] =
                    @ \union Dropped(m, published[m] + 1, removed[m])]
    /\ UNCHANGED <<rowVars, removed, cacheVars, pollVars, at, faults, done>>

Remove(m, v) ==
    /\ v \in (1 .. published[m]) \ removed[m]
    /\ Cardinality(removed[m]) < MaxRemoved
    /\ removed' = [removed EXCEPT ![m] = @ \union {v}]
    /\ missed' = [missed EXCEPT ![m] =
                    @ \union Dropped(m, published[m], removed[m] \union {v})]
    /\ UNCHANGED <<rowVars, published, cacheVars, pollVars, at, faults, done>>

-----------------------------------------------------------------------------
(* app/monitors.py, called by operators *)

SetStatus(m, from, to) ==
    /\ status[m] = from
    /\ status' = [status EXCEPT ![m] = to]
    /\ UNCHANGED <<last, feedVars, cacheVars, pollVars, at, faults, done>>

CreateMonitor(m) == SetStatus(m, "absent", "active")
SetPaused(m) == SetStatus(m, "active", "paused") \/ SetStatus(m, "paused", "active")
DeleteMonitor(m) ==
    SetStatus(m, "active", "deleted") \/ SetStatus(m, "paused", "deleted")

Exists(m) == status[m] \in {"active", "paused"}

(* A step that fails, while failures remain. *)
Fault == faults < MaxFaults /\ faults' = faults + 1
NoFault == UNCHANGED faults

-----------------------------------------------------------------------------
(* _poll_loop *)

Less(a, b) == IF a > b THEN a - b ELSE 0

(* asyncio.sleep and the time the previous iteration took. *)
Wake(e) ==
    /\ at = "sleep"
    /\ at' = "top"
    /\ age' = Min({Reload + 1, age + e})
    /\ wait' = [m \in Monitor |-> Less(wait[m], e)]
    /\ UNCHANGED <<rowVars, feedVars, cached, copy, pollVars, faults, done>>

DueOf(known) == {m \in known : wait[m] = 0}

(* list_monitors(include_paused=False).  New monitors are due at once. *)
ReloadMonitors ==
    /\ at = "top"
    /\ age > Reload
    /\ cached' = {m \in Monitor : status[m] = "active"}
    /\ copy' = last
    /\ age' = 0
    /\ todo' = DueOf(cached')
    /\ at' = "scan"
    /\ UNCHANGED <<rowVars, feedVars, wait, current, fresh, newest, poisoned,
                   gap, faults, done>>

(* Mutant: the loop may go on with rows older than _RELOAD_SECONDS. *)
KeepForever ==
    /\ at = "top"
    /\ age <= Reload \/ cached # {}
    /\ todo' = DueOf(cached)
    /\ at' = "scan"
    /\ UNCHANGED <<rowVars, feedVars, cacheVars, current, fresh, newest,
                   poisoned, gap, faults, done>>

KeepMonitors ==
    /\ at = "top"
    /\ age <= Reload
    /\ todo' = DueOf(cached)
    /\ at' = "scan"
    /\ UNCHANGED <<rowVars, feedVars, cacheVars, current, fresh, newest,
                   poisoned, gap, faults, done>>

ScanDone ==
    /\ at = "scan"
    /\ todo = {}
    /\ at' = "sleep"
    /\ UNCHANGED <<rowVars, feedVars, cacheVars, pollVars, faults, done>>

(* _poll_one returned or raised: next_runs moves on in both cases. *)
PollEnds(m) ==
    /\ todo' = todo \ {m}
    /\ wait' = [wait EXCEPT ![m] = Interval]
    /\ current' = NoMonitor
    /\ fresh' = {}
    /\ newest' = 0
    /\ poisoned' = FALSE
    /\ gap' = FALSE
    /\ at' = "scan"

-----------------------------------------------------------------------------
(* _poll_one *)

(* The feed could not be fetched, or it is empty. *)
FetchFails(m) ==
    /\ at = "scan"
    /\ m \in todo
    /\ (Feed(m) = {} /\ NoFault) \/ Fault
    /\ PollEnds(m)
    /\ UNCHANGED <<rowVars, feedVars, cached, copy, age, done>>

(* Mutant: a monitor without a cursor has nothing new. *)
NewBesidesCursor(feed, cursor) == {v \in feed : cursor \in feed /\ v > cursor}

(* The entries before the one that is the cached last_video_id. *)
NewVideos(feed, cursor) == {v \in feed : cursor \in feed => v > cursor}

Fetch(m) ==
    /\ at = "scan"
    /\ m \in todo
    /\ Feed(m) # {}
    /\ fresh' = NewVideos(Feed(m), copy[m])
    /\ gap' = (last[m] \notin Feed(m) \union {0})
    /\ current' = m
    /\ at' = IF fresh' = {} THEN "mark" ELSE "walk"
    /\ UNCHANGED <<rowVars, feedVars, cacheVars, todo, newest, poisoned,
                   faults, done>>

(* Mutant: a failed video is skipped and the walk goes on. *)
DispatchSkipping ==
    /\ at = "walk"
    /\ LET v == Min(fresh) IN
         /\ \/ NoFault /\ done' = [done EXCEPT ![current] = @ \union {v}]
            \/ Fault /\ UNCHANGED done
         /\ fresh' = fresh \ {v}
         /\ newest' = v
    /\ at' = IF fresh' = {} THEN "mark" ELSE "walk"
    /\ UNCHANGED <<rowVars, feedVars, cacheVars, todo, current, poisoned, gap>>

(* get_or_fetch for the oldest video left, and for a cache hit the callback. *)
Dispatch ==
    /\ at = "walk"
    /\ LET v == Min(fresh) IN
         /\ NoFault
         /\ done' = [done EXCEPT ![current] = @ \union {v}]
         /\ newest' = v
         /\ fresh' = fresh \ {v}
    /\ at' = IF fresh' = {} THEN "mark" ELSE "walk"
    /\ UNCHANGED <<rowVars, feedVars, cacheVars, todo, current, poisoned, gap>>

(* It raises, perhaps after the job or the callback was enqueued: the walk  *)
(* stops.  A database error leaves the session unusable.                    *)
DispatchFails ==
    /\ at = "walk"
    /\ Fault
    /\ done' \in {done, [done EXCEPT ![current] = @ \union {Min(fresh)}]}
    /\ poisoned' \in BOOLEAN
    /\ fresh' = {}
    /\ at' = "mark"
    /\ UNCHANGED <<rowVars, feedVars, cacheVars, todo, current, newest, gap>>

(* Mutant: a poll without new videos clears the cursor. *)
MarkClearing ==
    /\ at = "mark"
    /\ ~poisoned /\ Exists(current)
    /\ last' = [last EXCEPT ![current] = newest]
    /\ NoFault
    /\ PollEnds(current)
    /\ UNCHANGED <<status, feedVars, cached, copy, age, done>>

(* mark_polled and the commit of the poll. *)
Mark ==
    /\ at = "mark"
    /\ ~poisoned /\ Exists(current)
    /\ last' = [last EXCEPT ![current] = IF newest = 0 THEN @ ELSE newest]
    /\ NoFault
    /\ PollEnds(current)
    /\ UNCHANGED <<status, feedVars, cached, copy, age, done>>

(* It raises: the row is gone, the session is unusable, or the database is. *)
MarkFails ==
    /\ at = "mark"
    /\ ((poisoned \/ ~Exists(current)) /\ NoFault) \/ Fault
    /\ PollEnds(current)
    /\ UNCHANGED <<rowVars, feedVars, cached, copy, age, done>>

(* The process dies, also when a reload raises, and systemd restarts it.    *)
(* last_reload starts at 0.0 and the clock at the time since boot, so the   *)
(* first reload may have to wait.                                           *)
Restart ==
    /\ Fault
    /\ cached' = {}
    /\ age' \in 0 .. Reload + 1
    /\ wait' = [m \in Monitor |-> 0]
    /\ at' = "sleep"
    /\ todo' = {}
    /\ current' = NoMonitor
    /\ fresh' = {}
    /\ newest' = 0
    /\ poisoned' = FALSE
    /\ gap' = FALSE
    /\ UNCHANGED <<rowVars, feedVars, copy, done>>

-----------------------------------------------------------------------------
Operator(m) == CreateMonitor(m) \/ SetPaused(m) \/ DeleteMonitor(m)
Channel(m) == Publish(m) \/ \E v \in Video : Remove(m, v)

Poll ==
    \/ ReloadMonitors \/ KeepMonitors \/ ScanDone
    \/ \E m \in Monitor : FetchFails(m) \/ Fetch(m)
    \/ Dispatch \/ DispatchFails \/ Mark \/ MarkFails

Loop == Poll \/ \E e \in 1 .. SlowestLoop : Wake(e)

Next ==
    \/ \E m \in Monitor : Operator(m) \/ Channel(m)
    \/ Loop
    \/ Restart

Spec == Init /\ [][Next]_vars

(* The loop keeps running; failures are bounded, so they end. *)
FairSpec == Spec /\ WF_vars(Loop)

-----------------------------------------------------------------------------
(* Properties *)

(* No video behind the cursor was skipped: it was dispatched, or it had     *)
(* left the feed before a poll saw it.  JC-045: the cursor advances only    *)
(* through dispatched videos, whatever fails in between.                    *)
NoSkippedVideo ==
    \A m \in Monitor : \A v \in 1 .. last[m] : v \in done[m] \union missed[m]

(* A poll whose feed holds the row's cursor dispatches only newer videos,   *)
(* although it goes by a cached copy of the row: a reload lies between any  *)
(* two polls of a monitor, also after a restart.                            *)
OnlyNewer ==
    at = "walk" /\ ~gap => \A v \in fresh : v > last[current]

(* The cursor goes back only if its video has left the feed. *)
CursorAdvances == [][\A m \in Monitor : last'[m] < last[m] => gap]_vars

(* A video in the feed of an active monitor is dispatched sooner or later,  *)
(* unless it leaves the feed or the monitor is switched off: a failure      *)
(* stops a poll and delays the video, and no more.                          *)
NewVideosDispatched ==
    \A m \in Monitor, v \in Video :
        (status[m] = "active" /\ v \in Feed(m))
            ~> (status[m] # "active" \/ v \in done[m] \union missed[m]
                \/ v \notin Feed(m))
=============================================================================
