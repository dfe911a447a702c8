---------------------------- MODULE MonitorProofs ---------------------------
(***************************************************************************)
(* Proofs about MonitorScheduler for every set of monitors, every length   *)
(* of feed and channel, every interval above _RELOAD_SECONDS and any       *)
(* failures: no video is skipped, no poll goes by a stale cursor, and the  *)
(* cursor only advances.                                                   *)
(***************************************************************************)
EXTENDS MonitorScheduler, FiniteSetTheorems, WellFoundedInduction, TLAPS

(* Accounted for: dispatched, or out of the feed before a poll saw it. *)
Settled(m, v) == v \in done[m] \union missed[m]

(* A video that was published is in the feed unless it is accounted for. *)
FeedCovers ==
    \A m \in Monitor :
        /\ removed[m] \subseteq 1 .. published[m]
        /\ \A v \in 1 .. published[m] : v \in Feed(m) \/ Settled(m, v)

(* Behind both cursors, the row's and the copy's, all is accounted for.     *)
CursorsSettled ==
    /\ \A m \in Monitor : last[m] <= published[m] /\ \A v \in 1 .. last[m] : Settled(m, v)
    /\ \A m \in Monitor : copy[m] <= published[m] /\ \A v \in 1 .. copy[m] : Settled(m, v)

(* A cached cursor that fell behind its row is not used before the next     *)
(* reload: the monitor is due only when the cache is too old.               *)
CopyFresh ==
    /\ \A m \in cached : copy[m] = last[m] \/ wait[m] + age > Reload
    /\ at \in {"scan", "walk", "mark"} => age <= Reload
    /\ \A m \in todo : m \in cached /\ wait[m] = 0

(* A poll walks through the new videos from the oldest on: whatever is      *)
(* older than the next one, or was the last success, is accounted for.      *)
WalkInv ==
    /\ at \in {"sleep", "top", "scan"} => newest = 0
    /\ at \in {"walk", "mark"} => current \in todo
    /\ at \in {"walk", "mark"} =>
          /\ newest <= published[current]
          /\ \A v \in 1 .. newest : Settled(current, v)
          /\ gap \/ newest = 0 \/ newest > last[current]
    /\ at = "walk" =>
          /\ fresh # {} /\ fresh \subseteq 1 .. published[current]
          /\ \A u \in fresh : \A v \in 1 .. u : v \in fresh \/ Settled(current, v)
          /\ gap \/ \A v \in fresh : v > last[current]

MonitorInv == TypeOK /\ FeedCovers /\ CursorsSettled /\ CopyFresh /\ WalkInv
-----------------------------------------------------------------------------
(* The oldest of some videos is one of them. *)
LEMMA MinFacts ==
    ASSUME NEW S, S \subseteq Nat, S # {}
    PROVE  Min(S) \in S /\ \A n \in S : Min(S) <= n
<1> DEFINE R == {s \in Nat \X Nat : s[1] < s[2]}
<1>1. IsWellFoundedOn(R, Nat)
    BY NatLessThanWellFounded DEF OpToRel
<1>2. \A m, n \in Nat : n < m => <<n, m>> \in R
    OBVIOUS
<1>. HIDE DEF R
<1>3. PICK m \in S : \A n \in S : ~(<<n, m>> \in R)
    BY <1>1, WFMin
<1>4. ASSUME NEW n \in S PROVE m <= n
    <2>1. m \in Nat /\ n \in Nat /\ ~(n < m)
        BY <1>2, <1>3
    <2>. QED
        BY <2>1
<1>. QED
    BY <1>4 DEF Min

(* A feed shows videos that were published, and the newest of them. *)
LEMMA FeedFacts ==
    ASSUME NEW n \in Nat, NEW gone
    PROVE  /\ FeedOf(n, gone) \subseteq 1 .. n
           /\ n \in (1 .. n) \ gone => n \in FeedOf(n, gone)
<1>1. {u \in (1 .. n) \ gone : u > n} = {}
    OBVIOUS
<1>2. Cardinality({u \in (1 .. n) \ gone : u > n}) < Window
    BY <1>1, FS_EmptySet, BoundAssumption
<1>. QED
    BY <1>2 DEF FeedOf

LEMMA LessFacts ==
    ASSUME NEW a \in Nat, NEW b \in Nat
    PROVE  Less(a, b) \in 0 .. a /\ Less(a, b) + b >= a
BY DEF Less

LEMMA InitMonitorInv == Init => MonitorInv
<1> SUFFICES ASSUME Init PROVE MonitorInv
    OBVIOUS
<1>1. TypeOK
    <2>1. 0 \in 0 .. MaxVideo /\ 0 \in 0 .. Interval /\ 0 \in 0 .. MaxFaults
        BY IntervalAssumption, BoundAssumption
    <2>2. Reload + 1 \in 0 .. Reload + 1
        BY IntervalAssumption
    <2>. QED
        BY <2>1, <2>2 DEF Init, TypeOK, Status
<1>2. FeedCovers /\ CursorsSettled
    BY DEF Init, FeedCovers, CursorsSettled
<1>3. CopyFresh /\ WalkInv
    BY DEF Init, CopyFresh, WalkInv
<1>. QED
    BY <1>1, <1>2, <1>3 DEF MonitorInv

(* What is accounted for stays so while published grows: the other parts of  *)
(* the invariant hold on when nothing else changes.                         *)
LEMMA SettledGrows ==
    ASSUME MonitorInv,
           published' \in [Monitor -> 0 .. MaxVideo],
           \A m \in Monitor : published[m] <= published'[m]
                             /\ done[m] \union missed[m] \subseteq done'[m] \union missed'[m],
           UNCHANGED <<last, cacheVars, pollVars, at>>
    PROVE  CursorsSettled' /\ CopyFresh' /\ WalkInv'
<1> USE DEF MonitorInv, cacheVars, pollVars
<1>1. \A m \in Monitor : /\ published[m] \in Nat /\ published'[m] \in Nat
                         /\ last[m] \in Nat /\ copy[m] \in Nat
                         /\ \A v : Settled(m, v) => Settled(m, v)'
    BY BoundAssumption DEF TypeOK, Settled
<1>2. CursorsSettled'
    BY <1>1 DEF CursorsSettled
<1>3. CopyFresh'
    BY DEF CopyFresh
<1>4. WalkInv'
    <2>1. ASSUME at \in {"walk", "mark"}
          PROVE  /\ current \in Monitor /\ newest \in Nat
                 /\ \A v : Settled(current, v) => Settled(current, v)'
                 /\ published[current] \in Nat /\ published'[current] \in Nat
                 /\ published[current] <= published'[current]
        BY <1>1, <2>1, BoundAssumption DEF WalkInv, TypeOK
    <2>2. ASSUME at' \in {"walk", "mark"}
          PROVE  /\ current' \in todo'
                 /\ newest' <= published'[current']
                 /\ \A v \in 1 .. newest' : Settled(current, v)'
                 /\ gap' \/ newest' = 0 \/ newest' > last'[current']
        BY <2>1, <2>2 DEF WalkInv
    <2>3. ASSUME at' = "walk"
          PROVE  /\ fresh' # {} /\ fresh' \subseteq 1 .. published'[current']
                 /\ \A u \in fresh' : \A v \in 1 .. u : v \in fresh' \/ Settled(current, v)'
                 /\ gap' \/ \A v \in fresh' : v > last'[current']
        BY <2>1, <2>3 DEF WalkInv
    <2>. QED
        BY <2>2, <2>3 DEF WalkInv
<1>. QED
    BY <1>2, <1>3, <1>4

(* A change of the channel: what leaves the feed unseen is missed. *)
LEMMA ChannelMonitorInv ==
    ASSUME MonitorInv, NEW m \in Monitor, Channel(m)
    PROVE  MonitorInv'
<1> USE DEF MonitorInv
<1>1. published[m] \in Nat /\ removed[m] \in SUBSET Video /\ missed[m] \in SUBSET Video
    BY DEF TypeOK
<1>2. PICK n \in {published[m], published[m] + 1}, gone \in SUBSET Video :
          /\ n <= MaxVideo /\ gone \subseteq 1 .. n
          /\ n = published[m] + 1 => n \notin gone
          /\ published' = [published EXCEPT ![m] = n]
          /\ removed' = [removed EXCEPT ![m] = gone]
          /\ missed' = [missed EXCEPT ![m] = @ \union Dropped(m, n, gone)]
          /\ UNCHANGED <<rowVars, cacheVars, pollVars, at, faults, done>>
    <2>1. CASE Publish(m)
        <3>1. removed[m] \subseteq 1 .. published[m] /\ published[m] + 1 <= MaxVideo
            BY <1>1, <2>1, BoundAssumption DEF Publish, FeedCovers, TypeOK
        <3>2. /\ removed[m] \subseteq 1 .. published[m] + 1
              /\ published[m] + 1 \notin removed[m]
            BY <1>1, <3>1
        <3>3. removed' = [removed EXCEPT ![m] = removed[m]]
            BY <2>1 DEF Publish, TypeOK
        <3>4. /\ published' = [published EXCEPT ![m] = published[m] + 1]
              /\ missed' = [missed EXCEPT ![m] = @ \union Dropped(m, published[m] + 1, removed[m])]
              /\ UNCHANGED <<rowVars, cacheVars, pollVars, at, faults, done>>
            BY <2>1 DEF Publish
        <3>. QED
            BY <1>1, <3>1, <3>2, <3>3, <3>4
    <2>2. ASSUME NEW v \in Video, Remove(m, v)
          PROVE  \E gone \in SUBSET Video :
                     /\ gone \subseteq 1 .. published[m]
                     /\ published' = [published EXCEPT ![m] = published[m]]
                     /\ removed' = [removed EXCEPT ![m] = gone]
                     /\ missed' = [missed EXCEPT ![m] = @ \union Dropped(m, published[m], gone)]
        <3>1. removed[m] \union {v} \in SUBSET Video /\ removed[m] \union {v} \subseteq 1 .. published[m]
            BY <1>1, <2>2 DEF Remove, FeedCovers
        <3>2. published' = [published EXCEPT ![m] = published[m]]
            BY <2>2 DEF Remove, TypeOK
        <3>. QED
            BY <2>2, <3>1, <3>2 DEF Remove
    <2>3. published[m] <= MaxVideo /\ published[m] # published[m] + 1
        BY <1>1, BoundAssumption DEF TypeOK
    <2>4. (\E v \in Video : Remove(m, v)) =>
              UNCHANGED <<rowVars, cacheVars, pollVars, at, faults, done>>
        BY DEF Remove
    <2>. QED
        BY <2>1, <2>2, <2>3, <2>4 DEF Channel
<1>3. /\ n \in 0 .. MaxVideo /\ published[m] <= n
      /\ Feed(m) \subseteq Video /\ gone \subseteq Video
    BY <1>1, <1>2, FeedFacts, BoundAssumption DEF Feed, Video, TypeOK
<1>4. Dropped(m, n, gone) \subseteq Video
    BY <1>3 DEF Dropped
<1>5. TypeOK'
    BY <1>1, <1>2, <1>3, <1>4 DEF TypeOK, rowVars, cacheVars, pollVars
<1>6. \A k \in Monitor :
          /\ published[k] <= published'[k]
          /\ done[k] \union missed[k] \subseteq done'[k] \union missed'[k]
    BY <1>2, <1>3, BoundAssumption DEF TypeOK
<1>7. FeedCovers'
    <2> SUFFICES ASSUME NEW k \in Monitor
                 PROVE  /\ removed'[k] \subseteq 1 .. published'[k]
                        /\ \A v \in 1 .. published'[k] : v \in Feed(k)' \/ Settled(k, v)'
        BY DEF FeedCovers
    <2>1. CASE k # m
        BY <1>2, <2>1 DEF FeedCovers, Feed, Settled, TypeOK
    <2>2. CASE k = m
        <3>1. /\ published'[m] = n /\ removed'[m] = gone /\ done' = done
              /\ missed'[m] = missed[m] \union Dropped(m, n, gone)
            BY <1>2 DEF TypeOK
        <3>2. ASSUME NEW v \in 1 .. n PROVE v \in FeedOf(n, gone) \/ Settled(m, v)'
            <4>1. CASE v \in 1 .. published[m]
                BY <3>1, <4>1 DEF FeedCovers, Dropped, Settled
            <4>2. CASE v \notin 1 .. published[m]
                <5>1. v = n /\ n = published[m] + 1
                    BY <1>1, <1>2, <4>2
                <5>. QED
                    BY <1>1, <1>2, <5>1, FeedFacts
            <4>. QED
                BY <4>1, <4>2
        <3>. QED
            BY <1>2, <2>2, <3>1, <3>2 DEF Feed
    <2>. QED
        BY <2>1, <2>2
<1>. QED
    BY <1>2, <1>5, <1>6, <1>7, SettledGrows DEF rowVars, TypeOK

(* A step of the loop that dispatches at most, and leaves the rows alone. *)
LEMMA CursorsKept ==
    ASSUME MonitorInv, UNCHANGED <<last, copy, feedVars>>,
           \A m \in Monitor : done[m] \subseteq done'[m]
    PROVE  FeedCovers' /\ CursorsSettled'
<1>1. \A m \in Monitor : \A v : Settled(m, v) => Settled(m, v)'
    BY DEF Settled, feedVars
<1>2. FeedCovers'
    BY <1>1 DEF MonitorInv, FeedCovers, Feed, feedVars
<1>. QED
    BY <1>1, <1>2 DEF MonitorInv, CursorsSettled, feedVars

LEMMA OperatorMonitorInv ==
    ASSUME MonitorInv, NEW m \in Monitor, Operator(m)
    PROVE  MonitorInv'
<1>1. /\ UNCHANGED <<last, feedVars, cacheVars, pollVars, at, faults, done>>
      /\ \E s \in Status : status' = [status EXCEPT ![m] = s]
    BY DEF Operator, CreateMonitor, SetPaused, DeleteMonitor, SetStatus, Status
<1>2. TypeOK'
    BY <1>1 DEF MonitorInv, TypeOK, feedVars, cacheVars, pollVars
<1>3. FeedCovers' /\ CursorsSettled'
    BY <1>1, CursorsKept DEF cacheVars
<1>4. CopyFresh'
    BY <1>1 DEF MonitorInv, CopyFresh, cacheVars, pollVars
<1>5. WalkInv'
    BY <1>1 DEF MonitorInv, WalkInv, Settled, feedVars, pollVars
<1>. QED
    BY <1>2, <1>3, <1>4, <1>5 DEF MonitorInv

(* Time passes: what a cached cursor lacks in age its monitor has to wait. *)
LEMMA WakeMonitorInv ==
    ASSUME MonitorInv, NEW e \in 1 .. SlowestLoop, Wake(e)
    PROVE  MonitorInv'
<1> USE DEF MonitorInv
<1>1. /\ e \in Nat /\ age \in Nat /\ Reload \in Nat /\ e + age \in Nat
    BY IntervalAssumption DEF TypeOK
<1>2. age' \in {Reload + 1, age + e} /\ age' <= Reload + 1
    BY <1>1, MinFacts DEF Wake
<1>3. \A m \in Monitor :
          /\ wait[m] \in Nat /\ wait'[m] \in Nat /\ wait'[m] <= wait[m]
          /\ wait'[m] + e >= wait[m]
    BY <1>1, LessFacts DEF Wake, TypeOK
<1>4. TypeOK'
    <2>1. age' \in 0 .. Reload + 1
        BY <1>1, <1>2
    <2>2. wait' \in [Monitor -> 0 .. Interval]
        BY <1>3, IntervalAssumption DEF Wake, TypeOK
    <2>. QED
        BY <2>1, <2>2 DEF Wake, TypeOK, rowVars, feedVars, pollVars
<1>5. FeedCovers' /\ CursorsSettled'
    BY CursorsKept DEF Wake, rowVars
<1>6. CopyFresh'
    <2>1. ASSUME NEW m \in cached', copy'[m] # last'[m]
          PROVE  wait'[m] + age' > Reload
        <3>1. m \in Monitor /\ wait[m] + age > Reload
            BY <2>1 DEF Wake, CopyFresh, rowVars, TypeOK
        <3>2. CASE age' = Reload + 1
            BY <1>1, <1>3, <3>1, <3>2
        <3>3. CASE age' = age + e
            BY <1>1, <1>3, <3>1, <3>3
        <3>. QED
            BY <1>2, <3>2, <3>3
    <2>2. \A m \in todo' : m \in cached' /\ wait'[m] = 0
        BY <1>3 DEF Wake, CopyFresh, pollVars, TypeOK
    <2>. QED
        BY <2>1, <2>2 DEF CopyFresh, Wake
<1>7. WalkInv'
    BY DEF Wake, WalkInv, pollVars
<1>. QED
    BY <1>4, <1>5, <1>6, <1>7

(* The start of an iteration: a monitor that is due has its row's cursor. *)
LEMMA ScanMonitorInv ==
    ASSUME MonitorInv, ReloadMonitors \/ KeepMonitors \/ ScanDone
    PROVE  MonitorInv'
<1> USE DEF MonitorInv
<1>1. /\ UNCHANGED <<rowVars, feedVars, wait, current, fresh, newest, poisoned, gap,
                      faults, done>>
      /\ at' \in {"scan", "sleep"}
    BY DEF ReloadMonitors, KeepMonitors, ScanDone, cacheVars, pollVars
<1>2. CASE ReloadMonitors
    <2>1. TypeOK'
        BY <1>1, <1>2, IntervalAssumption
           DEF ReloadMonitors, TypeOK, DueOf, rowVars, feedVars
    <2>2. CursorsSettled' /\ FeedCovers'
        BY <1>1, <1>2 DEF ReloadMonitors, CursorsSettled, FeedCovers, Feed, Settled, rowVars, feedVars
    <2>3. CopyFresh'
        BY <1>1, <1>2, IntervalAssumption DEF ReloadMonitors, CopyFresh, DueOf, rowVars
    <2>. QED
        BY <1>1, <1>2, <2>1, <2>2, <2>3 DEF ReloadMonitors, WalkInv
<1>3. CASE KeepMonitors \/ ScanDone
    <2>1. UNCHANGED cacheVars
        BY <1>3 DEF KeepMonitors, ScanDone
    <2>2. todo' = todo \/ todo' = DueOf(cached)
        BY <1>3 DEF KeepMonitors, ScanDone, pollVars
    <2>3. TypeOK'
        BY <1>1, <2>1, <2>2 DEF TypeOK, DueOf, rowVars, feedVars, cacheVars
    <2>4. CopyFresh'
        BY <1>1, <1>3, <2>1, <2>2 DEF KeepMonitors, ScanDone, CopyFresh, DueOf, rowVars, cacheVars
    <2>5. CursorsSettled' /\ FeedCovers'
        BY <1>1, <2>1, CursorsKept DEF rowVars, cacheVars
    <2>. QED
        BY <1>1, <1>3, <2>3, <2>4, <2>5 DEF KeepMonitors, ScanDone, WalkInv
<1>. QED
    BY <1>2, <1>3

(* A poll ends, by its mark_polled or before it: its monitor is due again   *)
(* only after the cache has aged out, so the copy may fall behind the row.  *)
LEMMA PollEndsMonitorInv ==
    ASSUME MonitorInv, NEW m \in todo, at \in {"scan", "mark"}, PollEnds(m),
           NEW n \in Nat,
           n <= published[m], \A v \in 1 .. n : Settled(m, v),
           last' = [last EXCEPT ![m] = n],
           faults' \in 0 .. MaxFaults,
           UNCHANGED <<status, feedVars, cached, copy, age, done>>
    PROVE  MonitorInv'
<1> USE DEF MonitorInv
<1>1. m \in Monitor /\ m \in cached /\ n \in 0 .. MaxVideo
    BY BoundAssumption DEF TypeOK, CopyFresh
<1>2. /\ wait' = [wait EXCEPT ![m] = Interval]
      /\ todo' = todo \ {m} /\ at' = "scan"
    BY DEF PollEnds
<1>3. TypeOK'
    <2>1. 0 \in 0 .. MaxVideo /\ Interval \in 0 .. Interval
        BY IntervalAssumption, BoundAssumption
    <2>. QED
        BY <1>1, <1>2, <2>1 DEF PollEnds, TypeOK, feedVars
<1>4. FeedCovers' /\ CursorsSettled'
    <2>1. FeedCovers'
        BY DEF FeedCovers, Feed, Settled, feedVars
    <2>2. \A k \in Monitor : last'[k] = IF k = m THEN n ELSE last[k]
        BY DEF TypeOK
    <2>. QED
        BY <2>1, <2>2 DEF CursorsSettled, Settled, feedVars
<1>5. CopyFresh'
    <2>1. age \in Nat /\ age <= Reload /\ Interval \in Nat /\ Interval > Reload /\ Reload \in Nat
        BY IntervalAssumption DEF CopyFresh, TypeOK
    <2>2. wait'[m] + age' > Reload
        BY <1>1, <1>2, <2>1 DEF TypeOK
    <2>3. \A k \in cached' : k # m => copy'[k] = last'[k] \/ wait'[k] + age' > Reload
        BY <1>1, <1>2 DEF CopyFresh, TypeOK
    <2>4. \A k \in todo' : k \in cached' /\ wait'[k] = 0
        BY <1>1, <1>2 DEF CopyFresh, TypeOK
    <2>. QED
        BY <2>1, <2>2, <2>3, <2>4 DEF CopyFresh
<1>6. WalkInv'
    BY <1>2 DEF PollEnds, WalkInv
<1>. QED
    BY <1>3, <1>4, <1>5, <1>6

LEMMA PollOverMonitorInv ==
    ASSUME MonitorInv, Mark \/ MarkFails \/ \E m \in Monitor : FetchFails(m)
    PROVE  MonitorInv'
<1> USE DEF MonitorInv
<1>1. faults' \in 0 .. MaxFaults
    BY BoundAssumption DEF Mark, MarkFails, FetchFails, Fault, NoFault, TypeOK
<1>2. \A m \in Monitor : last = [last EXCEPT ![m] = last[m]] /\ last[m] \in Nat
    BY DEF TypeOK
<1>3. ASSUME NEW m \in Monitor, FetchFails(m) PROVE MonitorInv'
    BY <1>1, <1>2, <1>3, PollEndsMonitorInv DEF FetchFails, CursorsSettled, rowVars
<1>4. CASE MarkFails
    <2>1. current \in todo /\ current \in Monitor
        BY <1>4 DEF MarkFails, WalkInv, TypeOK
    <2>. QED
        BY <1>1, <1>2, <1>4, <2>1, PollEndsMonitorInv DEF MarkFails, CursorsSettled, rowVars
<1>5. CASE Mark
    <2>1. /\ current \in todo /\ current \in Monitor /\ newest \in Nat
          /\ newest <= published[current] /\ \A v \in 1 .. newest : Settled(current, v)
        BY <1>5 DEF Mark, WalkInv, TypeOK
    <2>2. CASE newest = 0
        BY <1>1, <1>2, <1>5, <2>1, <2>2, PollEndsMonitorInv DEF Mark, CursorsSettled
    <2>3. CASE newest # 0
        BY <1>1, <1>5, <2>1, <2>3, PollEndsMonitorInv DEF Mark
    <2>. QED
        BY <2>2, <2>3
<1>. QED
    BY <1>3, <1>4, <1>5

(* A poll reads the feed with a cursor that is the row's. *)
LEMMA FetchMonitorInv ==
    ASSUME MonitorInv, NEW m \in Monitor, Fetch(m)
    PROVE  MonitorInv'
<1> USE DEF MonitorInv
<1>1. /\ UNCHANGED <<rowVars, feedVars, cacheVars, todo, newest, poisoned, faults, done>>
      /\ m \in todo /\ current' = m /\ fresh' = NewVideos(Feed(m), copy[m])
      /\ at' = IF fresh' = {} THEN "mark" ELSE "walk"
      /\ gap' = (last[m] \notin Feed(m) \union {0})
    BY DEF Fetch
<1>2. /\ published[m] \in Nat /\ copy[m] \in Nat /\ last[m] \in Nat
      /\ fresh' \subseteq Feed(m) /\ Feed(m) \subseteq 1 .. published[m]
    BY <1>1, FeedFacts DEF TypeOK, Feed, NewVideos
<1>3. copy[m] = last[m]
    <2>1. /\ wait[m] = 0 /\ m \in cached /\ age <= Reload
          /\ age \in Nat /\ Reload \in Nat
        BY <1>1, IntervalAssumption DEF Fetch, CopyFresh, TypeOK
    <2>2. ~(wait[m] + age > Reload)
        BY <2>1
    <2>. QED
        BY <2>1, <2>2 DEF CopyFresh
<1>4. TypeOK'
    <2>1. 1 .. published[m] \subseteq Video
        BY BoundAssumption DEF TypeOK, Video
    <2>2. gap' \in BOOLEAN
        BY <1>1
    <2>. QED
        BY <1>1, <1>2, <2>1, <2>2 DEF TypeOK, rowVars, feedVars, cacheVars
<1>5. FeedCovers' /\ CursorsSettled'
    BY <1>1, CursorsKept DEF rowVars, cacheVars
<1>6. CopyFresh'
    BY <1>1 DEF Fetch, CopyFresh, rowVars, cacheVars
<1>7. WalkInv'
    <2>1. newest = 0
        BY DEF Fetch, WalkInv
    <2>2. ASSUME NEW u \in fresh', NEW v \in 1 .. u
          PROVE  v \in fresh' \/ Settled(m, v)'
        <3>1. v \in 1 .. published[m] /\ u \in Nat /\ u <= published[m]
            BY <1>2
        <3>2. CASE v \notin Feed(m)
            BY <1>1, <3>1, <3>2 DEF FeedCovers, Settled, feedVars
        <3>3. CASE v \in Feed(m) /\ v \notin fresh'
            <4>1. v \in 1 .. copy[m]
                BY <1>1, <1>2, <3>1, <3>3 DEF NewVideos
            <4>. QED
                BY <1>1, <4>1 DEF CursorsSettled, Settled, feedVars
        <3>. QED
            BY <3>2, <3>3
    <2>3. gap' \/ \A v \in fresh' : v > last[m]
        <3> SUFFICES ASSUME ~gap', NEW v \in fresh' PROVE v > last[m]
            OBVIOUS
        <3>1. v \in Nat /\ v > 0
            BY <1>2
        <3>2. last[m] = 0 \/ last[m] \in Feed(m)
            BY <1>1
        <3>. QED
            BY <1>1, <1>3, <3>1, <3>2 DEF NewVideos
    <2>. QED
        BY <1>1, <1>2, <2>1, <2>2, <2>3 DEF WalkInv, rowVars, feedVars
<1>. QED
    BY <1>4, <1>5, <1>6, <1>7

(* The walk: the oldest video left is dispatched, or the walk stops at it. *)
LEMMA WalkMonitorInv ==
    ASSUME MonitorInv, Dispatch \/ DispatchFails
    PROVE  MonitorInv'
<1> DEFINE m == current
<1>0. TypeOK /\ FeedCovers /\ CursorsSettled /\ CopyFresh /\ WalkInv
    BY DEF MonitorInv
<1>. USE <1>0
<1>1. /\ at = "walk" /\ m \in Monitor /\ m \in todo
      /\ published[m] \in Nat /\ last[m] \in Nat /\ newest \in Nat
    BY DEF Dispatch, DispatchFails, WalkInv, CopyFresh, TypeOK
<1>2. /\ fresh \subseteq 1 .. published[m] /\ fresh # {} /\ fresh \subseteq Video
      /\ fresh \subseteq Nat
      /\ \A u \in fresh : \A w \in 1 .. u : w \in fresh \/ Settled(m, w)
      /\ gap \/ \A u \in fresh : u > last[m]
    BY <1>1 DEF WalkInv, TypeOK
<1>3. PICK v \in fresh : v = Min(fresh) /\ \A u \in fresh : v <= u
    BY <1>2, MinFacts
<1>4. /\ UNCHANGED <<rowVars, feedVars, cacheVars, todo, current, gap>>
      /\ done' \in {done, [done EXCEPT ![m] = @ \union {v}]}
      /\ \/ /\ Dispatch /\ NoFault
            /\ done' = [done EXCEPT ![m] = @ \union {v}]
            /\ newest' = v /\ fresh' = fresh \ {v} /\ poisoned' = poisoned
            /\ at' = IF fresh' = {} THEN "mark" ELSE "walk"
         \/ /\ DispatchFails /\ Fault /\ poisoned' \in BOOLEAN
            /\ fresh' = {} /\ at' = "mark" /\ newest' = newest
    BY <1>3 DEF Dispatch, DispatchFails
<1>5. /\ done' \in [Monitor -> SUBSET Video]
      /\ \A k \in Monitor : done[k] \subseteq done'[k]
    <2>1. done \in [Monitor -> SUBSET Video] /\ v \in Video
        BY <1>2, <1>3 DEF TypeOK
    <2>. QED
        BY <1>1, <1>4, <2>1
<1>6. \A u : Settled(m, u) => Settled(m, u)'
    BY <1>1, <1>4, <1>5 DEF Settled, feedVars
<1>7. /\ FeedCovers' /\ CursorsSettled'
    BY <1>4, <1>5, CursorsKept DEF rowVars, cacheVars
<1>8. at' \in {"walk", "mark"} /\ fresh' \subseteq fresh /\ (at' = "walk" => fresh' # {})
    BY <1>4
<1>9. newest' \in 0 .. MaxVideo /\ poisoned' \in BOOLEAN /\ faults' \in 0 .. MaxFaults
    BY <1>2, <1>3, <1>4, BoundAssumption DEF Fault, NoFault, TypeOK, Video
<1>10. TypeOK'
    BY <1>4, <1>5, <1>8, <1>9 DEF TypeOK, rowVars, feedVars, cacheVars
<1>11. CopyFresh'
    BY <1>1, <1>4, <1>8 DEF CopyFresh, rowVars, cacheVars
<1>12. CASE fresh' = {} /\ at' = "mark" /\ newest' = newest
    <2>2. WalkInv'
        BY <1>1, <1>4, <1>6, <1>12 DEF WalkInv, rowVars, feedVars
    <2>. QED
        BY <1>7, <1>10, <1>11, <2>2 DEF MonitorInv
<1>13. CASE /\ newest' = v /\ fresh' = fresh \ {v}
            /\ done' = [done EXCEPT ![m] = @ \union {v}]
    <2>1. /\ newest' = v /\ fresh' = fresh \ {v} /\ done'[m] = done[m] \union {v}
        BY <1>1, <1>13 DEF TypeOK
    <2>2. /\ Settled(m, v)' /\ v \in Nat /\ v >= 1 /\ v <= published[m]
        BY <1>2, <1>3, <1>4, <2>1 DEF Settled, feedVars
    <2>3. ASSUME NEW u \in fresh, NEW w \in 1 .. u
          PROVE  w \in fresh' \/ Settled(m, w)'
        <3>1. w \in fresh \/ Settled(m, w)
            BY <1>2, <2>3
        <3>. QED
            BY <1>6, <2>1, <2>2, <3>1
    <2>4. ASSUME NEW w \in 1 .. v PROVE Settled(m, w)'
        <3>1. w \in fresh' \/ Settled(m, w)'
            BY <1>3, <2>3
        <3>2. w \notin fresh'
            BY <1>2, <1>3, <2>1, <2>2
        <3>. QED
            BY <3>1, <3>2
    <2>5. gap \/ (v > last[m] /\ \A u \in fresh' : u > last[m])
        <3>1. fresh' \subseteq fresh
            BY <1>8
        <3>. QED
            BY <1>2, <1>3, <3>1
    <2>6. WalkInv'
        <3>1. /\ current' \in todo' /\ newest' <= published'[current']
              /\ \A w \in 1 .. newest' : Settled(m, w)'
              /\ gap' \/ newest' = 0 \/ newest' > last'[current']
            BY <1>1, <1>4, <2>1, <2>2, <2>4, <2>5 DEF rowVars, feedVars
        <3>2. at' = "walk" =>
                  /\ fresh' # {} /\ fresh' \subseteq 1 .. published'[current']
                  /\ \A u \in fresh' : \A w \in 1 .. u : w \in fresh' \/ Settled(m, w)'
                  /\ gap' \/ \A u \in fresh' : u > last'[current']
            BY <1>2, <1>4, <1>8, <2>3, <2>5 DEF rowVars, feedVars
        <3>. QED
            BY <1>8, <3>1, <3>2 DEF WalkInv
    <2>. QED
        BY <1>7, <1>10, <1>11, <2>6 DEF MonitorInv
<1>. QED
    BY <1>4, <1>12, <1>13

(* A restart forgets the cache, so the first poll has to wait for a reload. *)
LEMMA RestartMonitorInv == ASSUME MonitorInv, Restart PROVE MonitorInv'
<1> USE DEF MonitorInv
<1>1. TypeOK'
    <2>1. 0 \in 0 .. MaxVideo /\ 0 \in 0 .. Interval
        BY IntervalAssumption, BoundAssumption
    <2>2. faults' \in 0 .. MaxFaults
        BY BoundAssumption DEF Restart, Fault, TypeOK
    <2>. QED
        BY <2>1, <2>2 DEF Restart, TypeOK, rowVars, feedVars
<1>2. FeedCovers' /\ CursorsSettled'
    BY CursorsKept DEF Restart, rowVars
<1>3. CopyFresh' /\ WalkInv'
    BY DEF Restart, CopyFresh, WalkInv
<1>. QED
    BY <1>1, <1>2, <1>3

LEMMA NextMonitorInv == MonitorInv /\ [Next]_vars => MonitorInv'
<1> SUFFICES ASSUME MonitorInv, [Next]_vars PROVE MonitorInv'
    OBVIOUS
<1>1. ASSUME NEW m \in Monitor, Operator(m) PROVE MonitorInv'
    BY <1>1, OperatorMonitorInv
<1>2. ASSUME NEW m \in Monitor, Channel(m) PROVE MonitorInv'
    BY <1>2, ChannelMonitorInv
<1>3. CASE Poll
    <2>1. ASSUME NEW m \in Monitor, Fetch(m) PROVE MonitorInv'
        BY <2>1, FetchMonitorInv
    <2>. QED
        BY <1>3, <2>1, ScanMonitorInv, PollOverMonitorInv, WalkMonitorInv DEF Poll
<1>4. ASSUME NEW e \in 1 .. SlowestLoop, Wake(e) PROVE MonitorInv'
    BY <1>4, WakeMonitorInv
<1>5. CASE Restart
    BY <1>5, RestartMonitorInv
<1>6. CASE UNCHANGED vars
    BY <1>6 DEF vars, rowVars, feedVars, cacheVars, pollVars, MonitorInv, TypeOK, FeedCovers,
                CursorsSettled, CopyFresh, WalkInv, Settled, Feed
<1>. QED
    BY <1>1, <1>2, <1>3, <1>4, <1>5, <1>6 DEF Next, Loop

LEMMA MonitorInvariantHolds == Spec => []MonitorInv
BY InitMonitorInv, NextMonitorInv, PTL DEF Spec

(* Every reachable state of the scheduler is well typed. *)
THEOREM SchedulerTypes == Spec => []TypeOK
<1>1. MonitorInv => TypeOK
    BY DEF MonitorInv
<1>. QED
    BY <1>1, MonitorInvariantHolds, PTL

(* Behind the committed cursor no video was skipped, whatever failed, in    *)
(* channels and feeds of any length (JC-045).                               *)
THEOREM NothingSkipped == Spec => []NoSkippedVideo
<1>1. MonitorInv => NoSkippedVideo
    BY DEF MonitorInv, CursorsSettled, NoSkippedVideo, Settled
<1>. QED
    BY <1>1, MonitorInvariantHolds, PTL

(* A poll that can tell dispatches only videos newer than the committed     *)
(* cursor, for every interval above _RELOAD_SECONDS and however long an     *)
(* iteration of the loop takes.                                             *)
THEOREM PollsOnlyNewer == Spec => []OnlyNewer
<1>1. MonitorInv => OnlyNewer
    BY DEF MonitorInv, WalkInv, OnlyNewer
<1>. QED
    BY <1>1, MonitorInvariantHolds, PTL

(* mark_polled moves the cursor back only if its video has left the feed. *)
THEOREM CursorOnlyAdvances == Spec => CursorAdvances
<1>1. ASSUME MonitorInv, [Next]_vars, NEW m \in Monitor, last'[m] < last[m]
      PROVE  gap
    <2>1. last[m] \in Nat /\ last' # last /\ newest \in Nat
        BY <1>1 DEF MonitorInv, TypeOK
    <2>2. Mark
        BY <1>1, <2>1 DEF Next, Operator, CreateMonitor, SetPaused, DeleteMonitor, SetStatus,
                          Channel, Publish, Remove, Loop, Poll, ReloadMonitors, KeepMonitors,
                          ScanDone, FetchFails, Fetch, Dispatch, DispatchFails, MarkFails,
                          Wake, Restart, rowVars, vars
    <2>3. newest # 0 /\ last'[m] = newest /\ current = m
        BY <1>1, <2>1, <2>2 DEF Mark, MonitorInv, TypeOK
    <2>. QED
        BY <1>1, <2>1, <2>2, <2>3 DEF Mark, MonitorInv, WalkInv
<1>2. MonitorInv /\ [Next]_vars => [\A m \in Monitor : last'[m] < last[m] => gap]_vars
    BY <1>1
<1>. QED
    BY <1>2, MonitorInvariantHolds, PTL DEF Spec, CursorAdvances
=============================================================================
