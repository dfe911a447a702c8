---------------------------- MODULE TranscriptProofs ----------------------------
(***************************************************************************)
(* Proofs about TranscriptService for any number of requests and           *)
(* languages, whatever the requests ask for.                               *)
(***************************************************************************)
EXTENDS TranscriptService, TLAPS

TypingInv == TypeOK /\ Busy /\ Prepared

(* TagsMatchFlag of any table. *)
Consistent(t) ==
    \A l \in Lang : t[l] # NoRow =>
        /\ t[l].flag = t[l].tagged
        /\ ~t[l].flag => t[l].snippets = t[l].text

-----------------------------------------------------------------------------
(* What the operations of app/cache.py preserve *)

LEMMA PutFacts ==
    ASSUME NEW t \in Table, NEW l \in Lang, NEW a \in Author, NEW s \in Source
    PROVE  /\ Put(t, l, a, s) \in Table
           /\ Got(Put(t, l, a, s), l) # NoRow
           /\ \A m \in Lang \ {l} : Put(t, l, a, s)[m] = t[m]
           /\ Consistent(t) => Consistent(Put(t, l, a, s))
<1> DEFINE row == [source |-> s, text |-> a, snippets |-> a, tagged |-> FALSE,
                   flag |-> FALSE,
                   chapters |-> IF t[l] = NoRow THEN "null" ELSE t[l].chapters,
                   fresh |-> TRUE]
<1>1. row \in Row
    <2>1. (IF t[l] = NoRow THEN "null" ELSE t[l].chapters) \in Chapters
        BY DEF Table, Row, Chapters
    <2>. QED
        BY <2>1 DEF Row
<1>2. Put(t, l, a, s) = [t EXCEPT ![l] = row]
    BY DEF Put
<1>3. row # NoRow /\ row.fresh /\ row.flag = row.tagged /\ row.snippets = row.text
    BY <1>1, NoRowAssumption
<1> HIDE DEF row
<1>4. /\ Put(t, l, a, s)[l] = row
      /\ \A m \in Lang \ {l} : Put(t, l, a, s)[m] = t[m]
      /\ Put(t, l, a, s) \in Table
    BY <1>1, <1>2 DEF Table
<1>. QED
    BY <1>3, <1>4 DEF Got, Consistent

LEMMA PutChaptersFacts ==
    ASSUME NEW t \in Table, NEW l \in Lang, NEW c \in Chapters
    PROVE  /\ PutChapters(t, l, c) \in Table
           /\ \A m \in Lang : Got(t, m) # NoRow => Got(PutChapters(t, l, c), m) # NoRow
           /\ \A m \in Lang : t[m] = NoRow => PutChapters(t, l, c)[m] = NoRow
           /\ Consistent(t) => Consistent(PutChapters(t, l, c))
<1>1. CASE t[l] = NoRow
    BY <1>1 DEF PutChapters
<1>2. CASE t[l] # NoRow
    <2> DEFINE row == [t[l] EXCEPT !.chapters = c]
    <2>1. t[l] \in Row
        BY <1>2 DEF Table
    <2>2. /\ row \in Row /\ row.fresh = t[l].fresh /\ row.flag = t[l].flag
          /\ row.tagged = t[l].tagged /\ row.text = t[l].text
          /\ row.snippets = t[l].snippets
        BY <2>1 DEF Row
    <2>3. PutChapters(t, l, c) = [t EXCEPT ![l] = row]
        BY <1>2 DEF PutChapters
    <2> HIDE DEF row
    <2>4. /\ PutChapters(t, l, c)[l] = row
          /\ \A m \in Lang \ {l} : PutChapters(t, l, c)[m] = t[m]
          /\ PutChapters(t, l, c) \in Table
        BY <2>2, <2>3 DEF Table
    <2>. QED
        BY <1>2, <2>2, <2>4, NoRowAssumption DEF Got, Consistent
<1>. QED
    BY <1>1, <1>2

LEMMA PutDiarizationFacts ==
    ASSUME NEW t \in Table, NEW l \in Lang, NEW rec \in Row
    PROVE  /\ PutDiarization(t, l, rec) \in Table
           /\ \A m \in Lang :
                 Got(t, m) # NoRow => Got(PutDiarization(t, l, rec), m) # NoRow
           /\ \A m \in Lang : t[m] = NoRow => PutDiarization(t, l, rec)[m] = NoRow
           /\ Consistent(t) => Consistent(PutDiarization(t, l, rec))
<1>1. CASE t[l] = NoRow
    BY <1>1 DEF PutDiarization
<1>2. CASE t[l] # NoRow
    <2> DEFINE row == [t[l] EXCEPT !.snippets = rec.snippets,
                                   !.tagged = TRUE, !.flag = TRUE]
    <2>1. t[l] \in Row /\ rec.snippets \in Author
        BY <1>2 DEF Table, Row
    <2>2. /\ row \in Row /\ row.fresh = t[l].fresh
          /\ row.flag = TRUE /\ row.tagged = TRUE
        BY <2>1 DEF Row
    <2>3. PutDiarization(t, l, rec) = [t EXCEPT ![l] = row]
        BY <1>2, <2>1 DEF PutDiarization, Table
    <2> HIDE DEF row
    <2>4. /\ PutDiarization(t, l, rec)[l] = row
          /\ \A m \in Lang \ {l} : PutDiarization(t, l, rec)[m] = t[m]
          /\ PutDiarization(t, l, rec) \in Table
        BY <2>2, <2>3 DEF Table
    <2>. QED
        BY <1>2, <2>2, <2>4, NoRowAssumption DEF Got, Consistent
<1>. QED
    BY <1>1, <1>2

LEMMA PurgedFacts ==
    /\ Purged(table) \in Table
    /\ \A m \in Lang : Purged(table)[m] = NoRow
    /\ Consistent(Purged(table))
BY DEF Purged, Table, Consistent

LEMMA AgedFacts ==
    ASSUME NEW t \in Table, NEW l \in Lang, t[l] # NoRow
    PROVE  /\ Aged(t, l) \in Table
           /\ \A m \in Lang \ {l} : Aged(t, l)[m] = t[m]
           /\ \A m \in Lang : t[m] = NoRow => Aged(t, l)[m] = NoRow
           /\ Consistent(t) => Consistent(Aged(t, l))
<1> DEFINE row == [t[l] EXCEPT !.fresh = FALSE]
<1>1. t[l] \in Row
    BY DEF Table
<1>2. /\ row \in Row /\ row.flag = t[l].flag
      /\ row.tagged = t[l].tagged /\ row.text = t[l].text
      /\ row.snippets = t[l].snippets
    BY <1>1 DEF Row
<1>3. Aged(t, l) = [t EXCEPT ![l] = row]
    BY DEF Aged
<1> HIDE DEF row
<1>4. /\ Aged(t, l)[l] = row
      /\ \A m \in Lang \ {l} : Aged(t, l)[m] = t[m]
      /\ Aged(t, l) \in Table
    BY <1>2, <1>3 DEF Table
<1>. QED
    BY <1>2, <1>4 DEF Consistent

-----------------------------------------------------------------------------
(* Typing *)

LEMMA RequestTyping ==
    ASSUME NEW r \in Req
    PROVE  /\ LangOf[r] \in Lang
           /\ Enrich(r) \in Step /\ AfterChapters(r) \in Step
BY RequestAssumption DEF Enrich, AfterChapters, Step, Ended

LEMMA ForceTyping ==
    ASSUME NEW r \in Req
    PROVE  \/ ForceOf[r] = "none"
           \/ ForceOf[r] = "whisper"
           \/ ForceOf[r] = "refresh"
<1>1. ForceOf \in [Req -> ForceMode]
    BY RequestAssumption
<1>2. ForceOf[r] \in ForceMode
    BY <1>1
<1>. QED
    BY <1>2 DEF ForceMode

LEMMA CompletedTyping == ASSUME TypingInv PROVE Completed \subseteq Req
BY DEF TypingInv, Busy, Completed, Worker

LEMMA CachedTyping ==
    ASSUME TypeOK, NEW r \in Req, Cached(r) # NoRow
    PROVE  Cached(r) \in Row /\ Cached(r).source \in Source
BY RequestTyping DEF TypeOK, Table, Cached, Got, Row

LEMMA TypingInit == Init => TypingInv
<1> SUFFICES ASSUME Init PROVE TypingInv
    OBVIOUS
<1> USE DEF Init
<1>1. TypeOK
    <2>1. table \in Table /\ audio \in BOOLEAN /\ gone \subseteq Req
        BY DEF Table
    <2>2. pc \in [Req -> Step]
        BY DEF Step
    <2>3. polls \in [Req -> 0..MaxPolls]
        BY RequestAssumption
    <2>4. status \in [Worker -> [Req -> JobStatus]]
        BY DEF JobStatus
    <2>5. /\ doing \in [Worker -> Req \union {"idle"}]
          /\ at \in [Worker -> TaskStep]
          /\ loaded \in Row \union {NoRow}
        BY DEF TaskStep
    <2>. QED
        BY <2>1, <2>2, <2>3, <2>4, <2>5 DEF TypeOK
<1>. QED
    BY <1>1 DEF TypingInv, Busy, Prepared, Worker

(* Steps of requests; most leave table and jobs alone. *)
LEMMA TypingRequest ==
    ASSUME TypingInv, NEW r \in Req, Begin(r) \/ RequestStep(r)
    PROVE  TypingInv'
<1> USE RequestTyping DEF TypingInv, Goto
<1>1. CASE Begin(r)
    <2>1. pc' \in [Req -> Step]
        <3>1. CASE ForceOf[r] = "refresh"
            BY <1>1, <3>1 DEF Begin, TypeOK, Step
        <3>2. CASE ForceOf[r] = "whisper"
            BY <1>1, <3>2 DEF Begin, TypeOK, Step
        <3>3. CASE ForceOf[r] = "none"
            BY <1>1, <3>3 DEF Begin, TypeOK, Step
        <3>. QED
            BY ForceTyping, <3>1, <3>2, <3>3
    <2>. QED
        BY <1>1, <2>1 DEF Begin, TypeOK, Busy, Prepared, jobVars
<1>2. CASE PurgeFirst(r)
    BY <1>2, PurgedFacts, CompletedTyping
    DEF PurgeFirst, TypeOK, Busy, Prepared, jobVars, Step, Ended
<1>3. CASE Look(r)
    BY <1>3 DEF Look, Serve, TypeOK, Busy, Prepared, jobVars, Step, Ended
<1>4. CASE FetchCaptions(r)
    BY <1>4 DEF FetchCaptions, TypeOK, Busy, Prepared, jobVars, Step, Ended
<1>5. CASE PutCaptions(r)
    <2>1. table' \in Table
        BY <1>5, PutFacts DEF PutCaptions, TypeOK, Source, Req
    <2>. QED
        BY <1>5, <2>1
        DEF PutCaptions, Serve, TypeOK, Busy, Prepared, jobVars, Source
<1>6. CASE Probe(r)
    BY <1>6 DEF Probe, TypeOK, Busy, Prepared, jobVars, Step, Ended
<1>7. CASE Enqueue(r)
    BY <1>7 DEF Enqueue, TypeOK, Busy, Prepared, Step, Ended, JobStatus, Worker
<1>8. CASE Poll(r)
    <2>1. polls' \in [Req -> 0..MaxPolls]
        BY <1>8, RequestAssumption DEF Poll, PollOnce, TypeOK
    <2>2. pc' \in [Req -> Step]
        BY <1>8, CachedTyping DEF Poll, PollOnce, Serve, TypeOK, Step, Ended
    <2>. QED
        BY <1>8, <2>1, <2>2 DEF Poll, PollOnce, TypeOK, Busy, Prepared, jobVars
<1>9. CASE WaitOver(r)
    BY <1>9 DEF WaitOver, TypeOK, Busy, Prepared, jobVars, Step, Ended
<1>10. CASE MergeChapters(r)
    BY <1>10 DEF MergeChapters, TypeOK, Busy, Prepared, jobVars, Step, Ended
<1>11. CASE DeriveChapters(r)
    <2>1. table' \in Table
        BY <1>11, PutChaptersFacts DEF DeriveChapters, TypeOK, Chapters
    <2>. QED
        BY <1>11, <2>1
        DEF DeriveChapters, TypeOK, Busy, Prepared, jobVars, Step, Ended
<1>12. CASE MergeSpeakers(r)
    BY <1>12 DEF MergeSpeakers, TypeOK, Busy, Prepared, jobVars, Step, Ended
<1>13. CASE EnqueueDiarization(r)
    BY <1>13
    DEF EnqueueDiarization, TypeOK, Busy, Prepared, Step, Ended, JobStatus, Worker
<1>. QED
    BY <1>1, <1>2, <1>3, <1>4, <1>5, <1>6, <1>7, <1>8, <1>9, <1>10, <1>11,
       <1>12, <1>13 DEF RequestStep

(* Steps of workers. *)
LEMMA TypingWorker ==
    ASSUME TypingInv, NEW w \in Worker, WorkerStep(w) \/ Interrupted(w)
    PROVE  TypingInv'
<1> USE NameAssumption
    DEF TypingInv, MovesTo, Marked, Worker, reqVars, TaskStep, JobStatus, Busy,
        Prepared
<1>1. ASSUME NEW r \in Req, Take(w, r) PROVE TypingInv'
    BY <1>1 DEF Take, TypeOK
<1>2. CASE Load(w)
    <2>1. at[w] = "load" => doing[w] \in Req
        OBVIOUS
    <2>2. loaded' \in Row \union {NoRow} /\ (at'[w] = "download" => loaded' \in Row)
        BY <1>2, <2>1, CachedTyping DEF Load, TypeOK
    <2>. QED
        BY <1>2, <2>1, <2>2 DEF Load, TypeOK
<1>3. CASE Download(w)
    <2>1. audio' \in BOOLEAN
        BY <1>3 DEF Download, TypeOK
    <2>. QED
        BY <1>3, <2>1 DEF Download, TypeOK
<1>4. CASE Work(w)
    BY <1>4 DEF Work, TypeOK
<1>5. CASE Store(w)
    <2>1. at[w] = "put" /\ doing[w] \in Req /\ LangOf[doing[w]] \in Lang
        BY <1>5, RequestTyping DEF Store
    <2>2. CASE w = "whisper"
        <3>1. table' = Put(table, Spoken, doing[w], "whisper")
            BY <1>5, <2>2 DEF Store
        <3>2. table' \in Table
            BY <2>1, <3>1, PutFacts, RequestAssumption DEF TypeOK, Source, Req
        <3>. QED
            BY <1>5, <2>2, <3>2 DEF Store, TypeOK
    <2>3. CASE w = "enrichment"
        BY <1>5, <2>1, <2>3, PutDiarizationFacts DEF Store, TypeOK
    <2>. QED
        BY <2>2, <2>3
<1>6. CASE Complete(w)
    BY <1>6 DEF Complete, TypeOK
<1>7. CASE Fail(w)
    BY <1>7 DEF Fail, TypeOK
<1>8. CASE Cleanup(w)
    BY <1>8 DEF Cleanup, TypeOK
<1>9. CASE TimeOut(w)
    <2>1. audio' \in BOOLEAN
        BY <1>9 DEF TimeOut, TypeOK
    <2>2. status' \in [Worker -> [Req -> JobStatus]]
        BY <1>9 DEF TimeOut, TypeOK
    <2>3. /\ at' \in [Worker -> TaskStep]
          /\ doing' \in [Worker -> Req \union {"idle"}]
          /\ Busy' /\ Prepared'
        BY <1>9 DEF TimeOut, TypeOK
    <2>. QED
        BY <1>9, <2>1, <2>2, <2>3 DEF TimeOut, TypeOK
<1>10. CASE Kill(w)
    <2>1. audio' \in BOOLEAN
        BY <1>10 DEF Kill, TypeOK
    <2>. QED
        BY <1>10, <2>1 DEF Kill, TypeOK
<1>11. ASSUME NEW r \in Req, LockLapses(w, r) PROVE TypingInv'
    BY <1>11 DEF LockLapses, TypeOK
<1>. QED
    BY <1>1, <1>2, <1>3, <1>4, <1>5, <1>6, <1>7, <1>8, <1>9, <1>10, <1>11
    DEF WorkerStep, Interrupted

LEMMA TypingStep == TypingInv /\ [Next]_vars => TypingInv'
<1> SUFFICES ASSUME TypingInv, [Next]_vars PROVE TypingInv'
    OBVIOUS
<1>1. CASE DeleteCache
    BY <1>1, PurgedFacts, CompletedTyping
    DEF DeleteCache, TypingInv, TypeOK, Busy, Prepared, reqVars, jobVars
<1>2. ASSUME NEW l \in Lang, Expire(l) PROVE TypingInv'
    BY <1>2, AgedFacts, CompletedTyping
    DEF Expire, TypingInv, TypeOK, Busy, Prepared, reqVars, jobVars
<1>3. CASE UNCHANGED vars
    BY <1>3 DEF vars, TypingInv, TypeOK, Busy, Prepared, reqVars, jobVars
<1>. QED
    BY <1>1, <1>2, <1>3, TypingRequest, TypingWorker DEF Next

(* Every reachable state is well typed. *)
THEOREM TypeCorrect == Spec => []TypeOK
<1>1. TypingInv => TypeOK
    BY DEF TypingInv
<1>. QED
    BY <1>1, TypingInit, TypingStep, PTL DEF Spec

-----------------------------------------------------------------------------
(* The table *)

(* A step changes the table by one operation of app/cache.py, or not. *)
LEMMA TableSteps ==
    ASSUME TypingInv, [Next]_vars
    PROVE  \/ table' = table
           \/ table' = Purged(table)
           \/ \E l \in Lang, a \in Author, s \in Source : table' = Put(table, l, a, s)
           \/ \E l \in Lang, c \in {"empty", "found"} : table' = PutChapters(table, l, c)
           \/ \E l \in Lang, rec \in Row : table' = PutDiarization(table, l, rec)
           \/ \E l \in Lang : table[l] # NoRow /\ table' = Aged(table, l)
<1>1. ASSUME NEW r \in Req, Begin(r) \/ RequestStep(r) PROVE
          \/ table' = table
          \/ table' = Purged(table)
          \/ \E l \in Lang, a \in Author, s \in Source : table' = Put(table, l, a, s)
          \/ \E l \in Lang, c \in {"empty", "found"} : table' = PutChapters(table, l, c)
    <2>1. CASE PutCaptions(r)
        BY <2>1, RequestTyping DEF PutCaptions, Source, Req
    <2>2. CASE DeriveChapters(r)
        BY <2>2, RequestTyping DEF DeriveChapters
    <2>3. CASE PurgeFirst(r)
        BY <2>3 DEF PurgeFirst
    <2>. QED
        BY <1>1, <2>1, <2>2, <2>3
        DEF RequestStep, Begin, Look, FetchCaptions, Probe, Enqueue, Poll,
            PollOnce, WaitOver, MergeChapters, MergeSpeakers, EnqueueDiarization
<1>2. ASSUME NEW w \in Worker, WorkerStep(w) \/ Interrupted(w) PROVE
          \/ table' = table
          \/ \E l \in Lang, a \in Author, s \in Source : table' = Put(table, l, a, s)
          \/ \E l \in Lang, rec \in Row : table' = PutDiarization(table, l, rec)
    <2>1. CASE Store(w)
        <3>1. at[w] = "put" /\ doing[w] \in Req
            BY <2>1 DEF Store, MovesTo, TypingInv, Busy
        <3>2. CASE w = "whisper"
            BY <2>1, <3>1, <3>2, RequestAssumption DEF Store, Source, Req
        <3>3. CASE w = "enrichment"
            <4>1. LangOf[doing[w]] \in Lang /\ loaded \in Row
                BY <3>1, <3>3, RequestTyping DEF TypingInv, Prepared
            <4>. QED
                BY <2>1, <3>3, <4>1 DEF Store
        <3>. QED
            BY <3>2, <3>3 DEF Worker
    <2>. QED
        BY <1>2, <2>1
        DEF WorkerStep, Interrupted, TimeOut, Kill, LockLapses, Take, Load,
            Download, Work, Complete, Fail, Cleanup
<1>3. CASE UNCHANGED vars
    BY <1>3 DEF vars
<1>. QED
    BY <1>1, <1>2, <1>3 DEF Next, DeleteCache, Expire

(* has_diarization describes the snippets of its row: whatever races, the   *)
(* flag is set exactly with the tags, and an unflagged row is of one text.  *)
THEOREM FlagsAreTrue == Spec => []TagsMatchFlag
<1>1. Init => TagsMatchFlag
    BY DEF Init, TagsMatchFlag
<1>2. TypingInv /\ TagsMatchFlag /\ [Next]_vars => TagsMatchFlag'
    <2> SUFFICES ASSUME TypingInv, Consistent(table), [Next]_vars
                 PROVE  Consistent(table')
        BY DEF TagsMatchFlag, Consistent
    <2>1. table \in Table
        BY DEF TypingInv, TypeOK
    <2>. QED
        BY <2>1, TableSteps, PurgedFacts, PutFacts, PutChaptersFacts,
           PutDiarizationFacts, AgedFacts DEF Chapters
<1>. QED
    BY <1>1, <1>2, TypingInit, TypingStep, PTL DEF Spec

(* Only a fetch or a transcription makes a row: speakers and chapters of a  *)
(* transcript that was deleted meanwhile do not bring it back.              *)
THEOREM RowsAreNotRevived == Spec => NoRevival
<1> DEFINE Appears ==
        \A l \in Lang : table[l] = NoRow /\ table'[l] # NoRow =>
            /\ table'[l].text = table'[l].snippets
            /\ ~table'[l].flag
            /\ table'[l].chapters = "null"
<1>1. TypingInv /\ [Next]_vars => Appears
    <2> SUFFICES ASSUME TypingInv, [Next]_vars, NEW l \in Lang,
                        table[l] = NoRow, table'[l] # NoRow
                 PROVE  /\ table'[l].text = table'[l].snippets
                        /\ ~table'[l].flag
                        /\ table'[l].chapters = "null"
        OBVIOUS
    <2>1. table \in Table
        BY DEF TypingInv, TypeOK
    <2>2. PICK m \in Lang, a \in Author, s \in Source :
              table' = Put(table, m, a, s)
        <3>1. \A m \in Lang, c \in {"empty", "found"} :
                  table' # PutChapters(table, m, c)
            <4>1. {"empty", "found"} \subseteq Chapters
                BY DEF Chapters
            <4>. QED
                BY <2>1, <4>1, PutChaptersFacts
        <3>2. \A m \in Lang, rec \in Row : table' # PutDiarization(table, m, rec)
            BY <2>1, PutDiarizationFacts
        <3>3. \A m \in Lang : table[m] # NoRow => table' # Aged(table, m)
            BY <2>1, AgedFacts
        <3>. QED
            BY <3>1, <3>2, <3>3, TableSteps, PurgedFacts
    <2>3. m = l
        BY <2>1, <2>2, PutFacts
    <2>. QED
        BY <2>1, <2>2, <2>3 DEF Put, Table
<1>. QED
    BY <1>1, TypingInit, TypingStep, PTL DEF Spec, NoRevival

-----------------------------------------------------------------------------
(* Completed jobs *)

Servable == Got(table, Spoken) # NoRow
CompletionInv == Stored /\ CompleteIsCached

(* Replacing a transcript, or a part of it, leaves it servable. *)
LEMMA StaysServable ==
    ASSUME TypingInv, Servable
    PROVE  /\ \A l \in Lang, a \in Author, s \in Source :
                 table' = Put(table, l, a, s) => Servable'
           /\ \A l \in Lang, c \in Chapters :
                 table' = PutChapters(table, l, c) => Servable'
           /\ \A l \in Lang, rec \in Row :
                 table' = PutDiarization(table, l, rec) => Servable'
<1>1. table \in Table /\ Spoken \in Lang
    BY RequestAssumption DEF TypingInv, TypeOK
<1>2. ASSUME NEW l \in Lang, NEW a \in Author, NEW s \in Source,
             table' = Put(table, l, a, s)
      PROVE  Servable'
    <2>1. CASE l = Spoken
        BY <1>1, <1>2, <2>1, PutFacts DEF Servable
    <2>2. CASE l # Spoken
        <3>1. table'[Spoken] = table[Spoken]
            BY <1>1, <1>2, <2>2, PutFacts
        <3>. QED
            BY <3>1 DEF Servable, Got
    <2>. QED
        BY <2>1, <2>2
<1>. QED
    BY <1>1, <1>2, PutChaptersFacts, PutDiarizationFacts DEF Servable

(* A step that takes a transcript away writes the completed jobs to gone. *)
LEMMA CompletionLost ==
    ASSUME gone' = gone \union Completed,
           UNCHANGED <<status, at, doing>>
    PROVE  CompletionInv'
BY DEF CompletionInv, Stored, CompleteIsCached, Completed

(* Steps that complete no job and keep a servable transcript. *)
LEMMA CompletionKept ==
    ASSUME TypingInv, CompletionInv,
           Servable => Servable',
           gone' = gone,
           at'["whisper"] = "complete" =>
               at["whisper"] = "complete" /\ doing'["whisper"] = doing["whisper"],
           \A r \in Req : status'["whisper"][r] = "complete" =>
               status["whisper"][r] = "complete"
    PROVE  CompletionInv'
BY DEF CompletionInv, Stored, CompleteIsCached, Servable

LEMMA CompletionRequest ==
    ASSUME TypingInv, CompletionInv, NEW r \in Req, Begin(r) \/ RequestStep(r)
    PROVE  CompletionInv'
<1>1. CASE PurgeFirst(r)
    BY <1>1, CompletionLost DEF PurgeFirst, jobVars
<1>2. CASE PutCaptions(r)
    <2>1. Servable => Servable'
        BY <1>2, StaysServable, RequestTyping DEF PutCaptions, Source, Req
    <2>. QED
        BY <1>2, <2>1, CompletionKept DEF PutCaptions, jobVars
<1>3. CASE DeriveChapters(r)
    <2>1. CASE UNCHANGED table
        BY <1>3, <2>1, CompletionKept DEF DeriveChapters, jobVars, Servable
    <2>2. CASE \E c \in Chapters : table' = PutChapters(table, LangOf[r], c)
        <3>1. Servable => Servable'
            BY <2>2, StaysServable, RequestTyping
        <3>. QED
            BY <1>3, <3>1, CompletionKept DEF DeriveChapters, jobVars
    <2>. QED
        BY <1>3, <2>1, <2>2 DEF DeriveChapters, Chapters
<1>4. CASE Enqueue(r) \/ EnqueueDiarization(r)
    <2>1. /\ UNCHANGED <<table, gone, at, doing>>
          /\ \A x \in Req : status'["whisper"][x] = "complete" =>
                 status["whisper"][x] = "complete"
        BY <1>4 DEF Enqueue, EnqueueDiarization, TypingInv, TypeOK, Worker
    <2>. QED
        BY <2>1, CompletionKept DEF Servable
<1>5. CASE UNCHANGED <<table, jobVars, gone>>
    BY <1>5, CompletionKept DEF jobVars, Servable
<1>. QED
    BY <1>1, <1>2, <1>3, <1>4, <1>5
    DEF RequestStep, Begin, Look, FetchCaptions, Probe, Poll, PollOnce,
        WaitOver, MergeChapters, MergeSpeakers

LEMMA CompletionWorker ==
    ASSUME TypingInv, CompletionInv, NEW w \in Worker,
           WorkerStep(w) \/ Interrupted(w)
    PROVE  CompletionInv'
<1>1. CASE Store(w)
    <2>1. at[w] = "put" /\ doing[w] \in Req /\ LangOf[doing[w]] \in Lang
        BY <1>1, RequestTyping DEF Store, MovesTo, TypingInv, Busy
    <2>2. CASE w = "whisper"
        <3>1. table' = Put(table, Spoken, doing[w], "whisper")
            BY <1>1, <2>2 DEF Store
        <3>2. Servable'
            BY <2>1, <3>1, PutFacts, RequestAssumption
            DEF Servable, TypingInv, TypeOK, Source, Req
        <3>. QED
            BY <3>2 DEF CompletionInv, Stored, CompleteIsCached, Servable
    <2>3. CASE w = "enrichment"
        <3>1. table' = PutDiarization(table, LangOf[doing[w]], loaded)
              /\ loaded \in Row
            BY <1>1, <2>1, <2>3 DEF Store, TypingInv, Prepared
        <3>2. Servable => Servable'
            BY <2>1, <3>1, StaysServable
        <3>3. at'["whisper"] = at["whisper"]
            BY <1>1, <2>3 DEF Store, MovesTo, TypingInv, TypeOK, Worker
        <3>. QED
            BY <1>1, <3>2, <3>3, CompletionKept DEF Store
    <2>. QED
        BY <2>2, <2>3 DEF Worker
<1>2. CASE Complete(w)
    <2>1. /\ UNCHANGED <<table, gone>>
          /\ \A x \in Req : status'["whisper"][x] = "complete" =>
                 \/ status["whisper"][x] = "complete"
                 \/ at["whisper"] = "complete" /\ x = doing["whisper"]
          /\ at'["whisper"] = "complete" =>
                 at["whisper"] = "complete" /\ UNCHANGED doing
        BY <1>2 DEF Complete, MovesTo, Marked, TypingInv, TypeOK, Worker
    <2>. QED
        BY <2>1 DEF CompletionInv, Stored, CompleteIsCached
<1>3. CASE \/ \E r \in Req : Take(w, r)
           \/ Load(w) \/ Download(w) \/ Work(w) \/ Fail(w) \/ Cleanup(w)
           \/ TimeOut(w) \/ Kill(w) \/ \E r \in Req : LockLapses(w, r)
    <2>1. UNCHANGED <<table, gone>>
        BY <1>3 DEF Take, Load, Download, Work, Fail, Cleanup, TimeOut, Kill, LockLapses
    <2>2. /\ at'[w] = "complete" => at[w] = "complete" /\ doing'[w] = doing[w]
          /\ \A v \in Worker \ {w} : at'[v] = at[v] /\ doing'[v] = doing[v]
        BY <1>3 DEF Take, Load, Download, Work, Fail, Cleanup, TimeOut, Kill, LockLapses,
                    MovesTo, TypingInv, TypeOK, Worker
    <2>3. at'["whisper"] = "complete" =>
              at["whisper"] = "complete" /\ doing'["whisper"] = doing["whisper"]
        BY <2>2 DEF Worker
    <2>4. \A x \in Req : status'["whisper"][x] = "complete" =>
              status["whisper"][x] = "complete"
        BY <1>3 DEF Take, Load, Download, Work, Fail, Cleanup, TimeOut, Kill, LockLapses,
                    Marked, TypingInv, TypeOK, Worker
    <2>. QED
        BY <2>1, <2>3, <2>4, CompletionKept DEF Servable
<1>. QED
    BY <1>1, <1>2, <1>3 DEF WorkerStep, Interrupted

LEMMA CompletionStep ==
    TypingInv /\ CompletionInv /\ [Next]_vars => CompletionInv'
<1> SUFFICES ASSUME TypingInv, CompletionInv, [Next]_vars PROVE CompletionInv'
    OBVIOUS
<1>1. CASE DeleteCache
    BY <1>1, CompletionLost DEF DeleteCache, jobVars
<1>2. ASSUME NEW l \in Lang, Expire(l) PROVE CompletionInv'
    <2>1. CASE l = Spoken
        BY <1>2, <2>1, CompletionLost DEF Expire, jobVars
    <2>2. CASE l # Spoken
        <3>1. table'[Spoken] = table[Spoken]
            BY <1>2, <2>2, AgedFacts, RequestAssumption
            DEF Expire, TypingInv, TypeOK
        <3>. QED
            BY <1>2, <2>2, <3>1, CompletionKept
            DEF Expire, jobVars, Servable, Got
    <2>. QED
        BY <2>1, <2>2
<1>3. CASE UNCHANGED vars
    BY <1>3, CompletionKept DEF vars, jobVars, Servable
<1>. QED
    BY <1>1, <1>2, <1>3, CompletionRequest, CompletionWorker DEF Next

(* A completed Whisper job has a servable transcript until it is purged or  *)
(* expires, whatever else is written to the table meanwhile.                *)
THEOREM CompletedJobsAreCached == Spec => []CompleteIsCached
<1>1. Init => CompletionInv
    BY DEF Init, CompletionInv, Stored, CompleteIsCached, Worker
<1>2. CompletionInv => CompleteIsCached
    BY DEF CompletionInv
<1>. QED
    BY <1>1, <1>2, TypingInit, TypingStep, CompletionStep, PTL DEF Spec

-----------------------------------------------------------------------------
(* The audio file *)

LEMMA AudioStep ==
    ASSUME TypingInv, TaskFaults = {}, AudioReleased, [Next]_vars
    PROVE  AudioReleased'
<1> DEFINE Owning == {"work", "put", "complete", "fail", "cleanup"}
<1> SUFFICES ASSUME audio' PROVE \E v \in Worker : at'[v] \in Owning
    BY DEF AudioReleased
<1>1. CASE UNCHANGED <<audio, at>>
    BY <1>1 DEF AudioReleased
<1>2. ASSUME NEW w \in Worker, WorkerStep(w)
      PROVE  \E v \in Worker : at'[v] \in Owning
    <2>1. CASE Cleanup(w)
        BY <2>1 DEF Cleanup
    <2>2. CASE Download(w)
        BY <2>2 DEF Download, MovesTo, AudioReleased, TypingInv, TypeOK, Worker
    <2>3. ASSUME NEW r \in Req, Take(w, r)
          PROVE  \E v \in Worker : at'[v] \in Owning
        BY <2>3 DEF Take, MovesTo, AudioReleased, TypingInv, TypeOK, Worker
    <2>4. CASE Load(w)
        BY <2>4 DEF Load, MovesTo, AudioReleased, TypingInv, TypeOK, Worker
    <2>5. CASE Work(w) \/ Store(w) \/ Complete(w) \/ Fail(w)
        BY <2>5 DEF Work, Store, Complete, Fail, MovesTo, TypingInv, TypeOK, Worker
    <2>. QED
        BY <1>2, <2>1, <2>2, <2>3, <2>4, <2>5 DEF WorkerStep
<1>3. ASSUME NEW r \in Req, Begin(r) \/ RequestStep(r)
      PROVE  UNCHANGED <<audio, at>>
    BY <1>3 DEF RequestStep, Begin, PurgeFirst, Look, FetchCaptions,
        PutCaptions, Probe, Enqueue, Poll, PollOnce, WaitOver, MergeChapters,
        DeriveChapters, MergeSpeakers, EnqueueDiarization, jobVars
<1>4. ASSUME DeleteCache \/ (\E l \in Lang : Expire(l)) \/ UNCHANGED vars
      PROVE  UNCHANGED <<audio, at>>
    BY <1>4 DEF DeleteCache, Expire, vars, jobVars
<1>5. ASSUME NEW w \in Worker, NEW r \in Req, LockLapses(w, r)
      PROVE  UNCHANGED <<audio, at>>
    BY <1>5 DEF LockLapses
<1>. QED
    BY <1>1, <1>2, <1>3, <1>4, <1>5 DEF Next, Interrupted, TimeOut, Kill

(* Unless a task is timed out or killed, no audio file outlives the tasks   *)
(* that downloaded it.                                                      *)
THEOREM AudioIsReleased == ASSUME TaskFaults = {} PROVE Spec => []AudioReleased
<1>1. Init => AudioReleased
    BY DEF Init, AudioReleased
<1>2. TypingInv /\ AudioReleased /\ [Next]_vars => AudioReleased'
    BY AudioStep
<1>. QED
    BY <1>1, <1>2, TypingInit, TypingStep, PTL DEF Spec

-----------------------------------------------------------------------------
(* Chapters *)

(* Chapters that were tried are only forgotten with their row: a re-fetch,  *)
(* a re-transcription and a diarization keep them.                          *)
THEOREM ChaptersAreKept == Spec => ChaptersKept
<1> DEFINE Keeps ==
        \A l \in Lang :
            table[l] # NoRow /\ table'[l] # NoRow /\ table[l].chapters # "null"
                => table'[l].chapters # "null"
<1>1. TypingInv /\ [Next]_vars => Keeps
    <2> SUFFICES ASSUME TypingInv, [Next]_vars, NEW l \in Lang,
                        table[l] # NoRow, table'[l] # NoRow,
                        table[l].chapters # "null"
                 PROVE  table'[l].chapters # "null"
        OBVIOUS
    <2>1. table \in Table /\ table[l] \in Row
        BY DEF TypingInv, TypeOK, Table
    <2>2. ASSUME NEW m \in Lang, NEW a \in Author, NEW s \in Source,
                 table' = Put(table, m, a, s)
          PROVE  table'[l].chapters # "null"
        BY <2>1, <2>2 DEF Put, Table, Row
    <2>3. ASSUME NEW m \in Lang, NEW c \in {"empty", "found"},
                 table' = PutChapters(table, m, c)
          PROVE  table'[l].chapters # "null"
        BY <2>1, <2>3 DEF PutChapters, Table, Row
    <2>4. ASSUME NEW m \in Lang, NEW rec \in Row,
                 table' = PutDiarization(table, m, rec)
          PROVE  table'[l].chapters # "null"
        BY <2>1, <2>4 DEF PutDiarization, Table, Row
    <2>5. ASSUME NEW m \in Lang, table' = Aged(table, m)
          PROVE  table'[l].chapters # "null"
        BY <2>1, <2>5 DEF Aged, Table, Row
    <2>. QED
        BY <2>1, <2>2, <2>3, <2>4, <2>5, TableSteps, PurgedFacts
<1>. QED
    BY <1>1, TypingInit, TypingStep, PTL DEF Spec, ChaptersKept

=============================================================================
