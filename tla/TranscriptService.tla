-------------------------- MODULE TranscriptService --------------------------
(***************************************************************************)
(* How requests for one video, the Whisper worker and the diarization      *)
(* worker share its cached transcripts and its audio file:                 *)
(* get_or_fetch and its wait loop (app/transcript_service.py), the merging *)
(* of chapters and speakers (app/main.py, app/chapters.py), the bodies of  *)
(* the two RQ tasks (app/worker.py) and the table of app/cache.py.         *)
(*                                                                         *)
(* Locks and rows of jobs are those of JobPipeline, seen from outside: a   *)
(* call of enqueue_job starts a job if none is in flight, or is given the  *)
(* one in flight, or fails.  A job is named by the request that started it.*)
(***************************************************************************)
EXTENDS Naturals, TranscriptTable

CONSTANTS
    LangOf,     \* LangOf[r]: the language request r asks for
    ForceOf,    \* ForceOf[r]: its force parameter
    Include,    \* Include[r]: the enrichments it asks for
    Waiting,    \* the requests with wait > 0
    MaxPolls,   \* polls that fit into wait_seconds
    Spoken,     \* the language Whisper detects
    TaskFaults  \* what may end a task: "timeout" of RQ, "kill" of its work-horse

Req == Author
ForceMode == {"none", "whisper", "refresh"}
Worker == {"whisper", "enrichment"}

ASSUME RequestAssumption ==
    /\ LangOf \in [Req -> Lang]
    /\ ForceOf \in [Req -> ForceMode]
    /\ Include \in [Req -> SUBSET {"chapters", "speakers"}]
    /\ Waiting \subseteq Req
    /\ MaxPolls \in Nat
    /\ Spoken \in Lang
    /\ TaskFaults \subseteq {"timeout", "kill"}
ASSUME NameAssumption == "idle" \notin Req

VARIABLES
    table,      \* the transcripts rows of the video
    audio,      \* the audio file exists
    pc,         \* pc[r]: where request r stands
    polls,      \* polls[r]: iterations of the wait loop
    status,     \* status[w][r]: the row of r's job for worker w
    doing,      \* doing[w]: the job of worker w, or "idle"
    at,         \* at[w]: the step it is about to take
    loaded,     \* the transcript the diarization job works on
    gone        \* history: jobs completed before a purge or an expiry

reqVars == <<pc, polls>>
jobVars == <<status, doing, at, loaded>>
vars == <<table, audio, reqVars, jobVars, gone>>

Ended     == {"done", "accepted", "error"}
Step      == {"idle", "purge", "look", "captions", "put", "probe", "enqueue",
              "wait", "chapters", "derive", "speakers", "tag"} \union Ended
(* "lost": a row that says running, of a task that is gone with its lock.   *)
JobStatus == {"none", "queued", "running", "lost", "complete", "failed"}
TaskStep  == {"idle", "load", "download", "work", "put", "complete", "fail",
              "cleanup"}

TypeOK ==
    /\ table \in Table
    /\ audio \in BOOLEAN
    /\ pc \in [Req -> Step]
    /\ polls \in [Req -> 0..MaxPolls]
    /\ status \in [Worker -> [Req -> JobStatus]]
    /\ doing \in [Worker -> Req \union {"idle"}]
    /\ at \in [Worker -> TaskStep]
    /\ loaded \in Row \union {NoRow}
    /\ gone \subseteq Req

Init ==
    /\ table = [l \in Lang |-> NoRow]
    /\ audio = FALSE
    /\ pc = [r \in Req |-> "idle"]
    /\ polls = [r \in Req |-> 0]
    /\ status = [w \in Worker |-> [r \in Req |-> "none"]]
    /\ doing = [w \in Worker |-> "idle"]
    /\ at = [w \in Worker |-> "idle"]
    /\ loaded = NoRow
    /\ gone = {}

-----------------------------------------------------------------------------
(* Requests *)

Goto(r, from, to) ==
    /\ pc[r] = from
    /\ pc' = [pc EXCEPT ![r] = to]

(* After a transcript was found: the enrichments that were asked for. *)
Enrich(r) ==
    CASE "chapters" \in Include[r] -> "chapters"
      [] "speakers" \in Include[r] -> "speakers"
      [] OTHER -> "done"
Serve(r, from) == Goto(r, from, Enrich(r))
AfterChapters(r) == IF "speakers" \in Include[r] THEN "speakers" ELSE "done"

Cached(r) == Got(table, LangOf[r])

(* What a purge or an expiry takes back of the jobs completed so far. *)
Completed == {r \in Req : status["whisper"][r] = "complete"}
                \union (IF at["whisper"] = "complete" THEN {doing["whisper"]} ELSE {})

Begin(r) ==
    /\ Goto(r, "idle", CASE ForceOf[r] = "refresh" -> "purge"
                         [] ForceOf[r] = "whisper" -> "probe"
                         [] ForceOf[r] = "none"    -> "look")
    /\ UNCHANGED <<table, audio, polls, jobVars, gone>>

PurgeFirst(r) ==
    /\ Goto(r, "purge", "look")
    /\ table' = Purged(table)
    /\ gone' = gone \union Completed
    /\ UNCHANGED <<audio, polls, jobVars>>

Look(r) ==
    /\ \/ /\ Cached(r) # NoRow
          /\ Serve(r, "look")
       \/ /\ Cached(r) = NoRow
          /\ Goto(r, "look", "captions")
    /\ UNCHANGED <<table, audio, polls, jobVars, gone>>

(* fetch_captions: a track in the language asked for, none, or an error. *)
FetchCaptions(r) ==
    /\ \E to \in {"put", "probe", "error"} : Goto(r, "captions", to)
    /\ UNCHANGED <<table, audio, polls, jobVars, gone>>

PutCaptions(r) ==
    /\ Serve(r, "put")
    /\ table' = Put(table, LangOf[r], r, "captions")
    /\ UNCHANGED <<audio, polls, jobVars, gone>>

(* The duration cap and the rate-limit hook. *)
Probe(r) ==
    /\ \E to \in {"enqueue", "error"} : Goto(r, "probe", to)
    /\ UNCHANGED <<table, audio, polls, jobVars, gone>>

InFlight(w) == {e \in Req : status[w][e] \in {"queued", "running"}}

Enqueue(r) ==
    /\ \/ /\ InFlight("whisper") # {}
          /\ Goto(r, "enqueue", "accepted")     \* 202 with the id in flight
          /\ UNCHANGED status
       \/ /\ InFlight("whisper") = {}
          /\ Goto(r, "enqueue", IF r \in Waiting THEN "wait" ELSE "accepted")
          /\ status' = [status EXCEPT !["whisper"][r] = "queued"]
       \/ /\ Goto(r, "enqueue", "error")
          /\ UNCHANGED status
    /\ UNCHANGED <<table, audio, polls, doing, at, loaded, gone>>

(* Mutant: continue before elapsed is advanced. *)
PollForever(r) ==
    /\ polls[r] < MaxPolls
    /\ \/ /\ status["whisper"][r] = "complete" /\ Cached(r) # NoRow
          /\ Serve(r, "wait")
          /\ UNCHANGED polls
       \/ /\ status["whisper"][r] = "complete" /\ Cached(r) = NoRow
          /\ pc[r] = "wait"
          /\ UNCHANGED <<pc, polls>>
       \/ /\ status["whisper"][r] = "failed"
          /\ Goto(r, "wait", "error")
          /\ UNCHANGED polls
       \/ /\ status["whisper"][r] \in {"queued", "running", "lost"}
          /\ Goto(r, "wait", "wait")
          /\ polls' = [polls EXCEPT ![r] = @ + 1]
    /\ UNCHANGED <<table, audio, jobVars, gone>>

(* One iteration of _wait_for_job_completion. *)
PollOnce(r) ==
    /\ polls' = [polls EXCEPT ![r] = @ + 1]
    /\ \/ /\ status["whisper"][r] = "complete" /\ Cached(r) # NoRow
          /\ Serve(r, "wait")
       \/ /\ status["whisper"][r] = "failed"
          /\ Goto(r, "wait", "error")
       \/ /\ \/ status["whisper"][r] \in {"queued", "running", "lost"}
             \/ status["whisper"][r] = "complete" /\ Cached(r) = NoRow
          /\ Goto(r, "wait", "wait")
    /\ UNCHANGED <<table, audio, jobVars, gone>>

Poll(r) == polls[r] < MaxPolls /\ PollOnce(r)

WaitOver(r) ==
    /\ polls[r] = MaxPolls
    /\ Goto(r, "wait", "accepted")
    /\ UNCHANGED <<table, audio, polls, jobVars, gone>>

(* _merge_chapters: read the row again, and keep what it has, even []. *)
MergeChapters(r) ==
    /\ Goto(r, "chapters",
            IF Cached(r) # NoRow /\ Cached(r).chapters = "null"
            THEN "derive" ELSE AfterChapters(r))
    /\ UNCHANGED <<table, audio, polls, jobVars, gone>>

(* yt-dlp or the LLM finds chapters or none; the cost cap raises. *)
DeriveChapters(r) ==
    /\ \/ \E c \in {"empty", "found"} :
            /\ Goto(r, "derive", AfterChapters(r))
            /\ table' = PutChapters(table, LangOf[r], c)
       \/ /\ Goto(r, "derive", "error")
          /\ UNCHANGED table
    /\ UNCHANGED <<audio, polls, jobVars, gone>>

(* _merge_speakers: only a Whisper transcript without speakers is enqueued. *)
MergeSpeakers(r) ==
    /\ Goto(r, "speakers",
            IF Cached(r) # NoRow /\ ~Cached(r).flag /\ Cached(r).source = "whisper"
            THEN "tag" ELSE "done")
    /\ UNCHANGED <<table, audio, polls, jobVars, gone>>

EnqueueDiarization(r) ==
    /\ Goto(r, "tag", "done")
    /\ \/ /\ InFlight("enrichment") = {}
          /\ status' = [status EXCEPT !["enrichment"][r] = "queued"]
       \/ UNCHANGED status      \* one is in flight, or the call failed
    /\ UNCHANGED <<table, audio, polls, doing, at, loaded, gone>>

RequestStep(r) ==
    \/ PurgeFirst(r) \/ Look(r) \/ FetchCaptions(r) \/ PutCaptions(r)
    \/ Probe(r) \/ Enqueue(r) \/ Poll(r) \/ WaitOver(r) \/ MergeChapters(r)
    \/ DeriveChapters(r) \/ MergeSpeakers(r) \/ EnqueueDiarization(r)

-----------------------------------------------------------------------------
(* Workers: one RQ worker per queue, one task at a time *)

MovesTo(w, from, to) ==
    /\ at[w] = from
    /\ at' = [at EXCEPT ![w] = to]
Marked(w, s) == status' = [status EXCEPT ![w][doing[w]] = s]

Take(w, r) ==
    /\ status[w][r] = "queued"
    /\ MovesTo(w, "idle", IF w = "whisper" THEN "download" ELSE "load")
    /\ doing' = [doing EXCEPT ![w] = r]
    /\ status' = [status EXCEPT ![w][r] = "running"]
    /\ UNCHANGED <<table, audio, reqVars, loaded, gone>>

(* The diarization body reads the transcript and refuses if there is none, *)
(* if it comes from captions, or if pyannote is not available.             *)
Load(w) ==
    LET rec == Cached(doing[w]) IN
    /\ \/ /\ MovesTo(w, "load", "download")
          /\ rec # NoRow
          /\ rec.source = "whisper"
          /\ loaded' = rec
          /\ UNCHANGED <<status, doing>>
       \/ /\ MovesTo(w, "load", "idle")
          /\ Marked(w, "failed")
          /\ doing' = [doing EXCEPT ![w] = "idle"]
          /\ UNCHANGED loaded
    /\ UNCHANGED <<table, audio, reqVars, gone>>

(* yt-dlp writes %(id)s.%(ext)s, the same file for both workers; a failed   *)
(* download leaves audio_path unset.                                        *)
Download(w) ==
    /\ \/ /\ MovesTo(w, "download", "work")
          /\ audio' = TRUE
          /\ UNCHANGED <<status, doing>>
       \/ /\ MovesTo(w, "download", "idle")
          /\ Marked(w, "failed")
          /\ doing' = [doing EXCEPT ![w] = "idle"]
          /\ UNCHANGED audio
    /\ UNCHANGED <<table, reqVars, loaded, gone>>

(* Transcribe or diarize: opening the file decides, without it the work can *)
(* only fail.                                                               *)
Work(w) ==
    /\ \/ audio /\ MovesTo(w, "work", "put")
       \/ MovesTo(w, "work", "fail")
    /\ UNCHANGED <<table, audio, reqVars, status, doing, loaded, gone>>

(* Mutant: the transcript is not committed. *)
StoreWithoutCommit(w) ==
    /\ MovesTo(w, "put", "complete")
    /\ UNCHANGED <<table, audio, reqVars, status, doing, loaded, gone>>

(* put_transcript under the detected language, or put_diarization; without *)
(* a row to update the latter fails the job.                               *)
Store(w) ==
    /\ \/ /\ w = "whisper"
          /\ MovesTo(w, "put", "complete")
          /\ table' = Put(table, Spoken, doing[w], "whisper")
       \/ /\ w = "enrichment"
          /\ MovesTo(w, "put", IF table[LangOf[doing[w]]] = NoRow
                               THEN "fail" ELSE "complete")
          /\ table' = PutDiarization(table, LangOf[doing[w]], loaded)
    /\ UNCHANGED <<audio, reqVars, status, doing, loaded, gone>>

Complete(w) ==
    /\ MovesTo(w, "complete", "cleanup")
    /\ Marked(w, "complete")
    /\ UNCHANGED <<table, audio, reqVars, doing, loaded, gone>>

(* Mutant: a failed job returns past its finally. *)
FailWithoutCleanup(w) ==
    /\ MovesTo(w, "fail", "idle")
    /\ Marked(w, "failed")
    /\ doing' = [doing EXCEPT ![w] = "idle"]
    /\ UNCHANGED <<table, audio, reqVars, loaded, gone>>

Fail(w) ==
    /\ MovesTo(w, "fail", "cleanup")
    /\ Marked(w, "failed")
    /\ UNCHANGED <<table, audio, reqVars, doing, loaded, gone>>

(* finally: unlink the file, whoever may be reading it. *)
Cleanup(w) ==
    /\ MovesTo(w, "cleanup", "idle")
    /\ audio' = FALSE
    /\ doing' = [doing EXCEPT ![w] = "idle"]
    /\ UNCHANGED <<table, reqVars, status, loaded, gone>>

(* RQ's timeout cancels the task.  Its finally gives the lock back and unlinks *)
(* the file, the row keeps running.  A download goes on in its thread, and  *)
(* audio_path was not assigned yet; and a cancellation that meets the finally *)
(* in release_lock is no Exception, so cleanup_audio is skipped.            *)
TimeOut(w) ==
    /\ "timeout" \in TaskFaults
    /\ \/ /\ at[w] \in {"load", "download"}
          /\ Marked(w, "lost")
          /\ at' = [at EXCEPT ![w] = "idle"]
          /\ doing' = [doing EXCEPT ![w] = "idle"]
          /\ audio' \in {audio, audio \/ at[w] = "download"}
       \/ /\ at[w] \in {"work", "put", "complete", "fail"}
          /\ Marked(w, "lost")
          /\ at' = [at EXCEPT ![w] = "cleanup"]
          /\ UNCHANGED <<doing, audio>>
       \/ /\ MovesTo(w, "cleanup", "idle")
          /\ doing' = [doing EXCEPT ![w] = "idle"]
          /\ UNCHANGED <<status, audio>>
    /\ UNCHANGED <<table, reqVars, loaded, gone>>

(* The work-horse is killed: its file, its row and its lock stay.           *)
Kill(w) ==
    /\ "kill" \in TaskFaults
    /\ at[w] # "idle"
    /\ at' = [at EXCEPT ![w] = "idle"]
    /\ doing' = [doing EXCEPT ![w] = "idle"]
    /\ audio' \in {audio, audio \/ at[w] = "download"}
    /\ UNCHANGED <<table, reqVars, status, loaded, gone>>

(* The lock of a killed job reaches its TTL: the row no longer counts.      *)
LockLapses(w, r) ==
    /\ status[w][r] = "running"
    /\ doing[w] # r
    /\ status' = [status EXCEPT ![w][r] = "lost"]
    /\ UNCHANGED <<table, audio, reqVars, doing, at, loaded, gone>>

Interrupted(w) == TimeOut(w) \/ Kill(w) \/ \E r \in Req : LockLapses(w, r)

WorkerStep(w) ==
    \/ \E r \in Req : Take(w, r)
    \/ Load(w) \/ Download(w) \/ Work(w) \/ Store(w)
    \/ Complete(w) \/ Fail(w) \/ Cleanup(w)

-----------------------------------------------------------------------------
(* DELETE /v1/cache/{video_id} *)
DeleteCache ==
    /\ table' = Purged(table)
    /\ gone' = gone \union Completed
    /\ UNCHANGED <<audio, reqVars, jobVars>>

Expire(l) ==
    /\ table[l] # NoRow
    /\ table' = Aged(table, l)
    /\ gone' = IF l = Spoken THEN gone \union Completed ELSE gone
    /\ UNCHANGED <<audio, reqVars, jobVars>>

Next ==
    \/ \E r \in Req : Begin(r) \/ RequestStep(r)
    \/ \E w \in Worker : WorkerStep(w) \/ Interrupted(w)
    \/ DeleteCache
    \/ \E l \in Lang : Expire(l)

Spec == Init /\ [][Next]_vars

(* The event loop resumes requests, and the RQ workers serve their queues. *)
Fairness ==
    /\ \A r \in Req : WF_vars(RequestStep(r))
    /\ \A w \in Worker : WF_vars(WorkerStep(w))
FairSpec == Spec /\ Fairness

-----------------------------------------------------------------------------
(* Properties *)

(* has_diarization says what the snippets of the row are: no replacement of *)
(* the snippets leaves the flag behind, whoever wins the race, and a row    *)
(* without it has the snippets of its own full text.                        *)
TagsMatchFlag ==
    \A l \in Lang : table[l] # NoRow =>
        /\ table[l].flag = table[l].tagged
        /\ ~table[l].flag => table[l].snippets = table[l].text

(* A row that appears is a whole, untagged transcript: a diarization or the *)
(* chapters of a transcript that was deleted meanwhile do not bring it back.*)
NoRevival ==
    [][\A l \in Lang : table[l] = NoRow /\ table'[l] # NoRow =>
          /\ table'[l].text = table'[l].snippets
          /\ ~table'[l].flag
          /\ table'[l].chapters = "null"]_vars

(* Only a purge takes chapters back to "never tried": they survive every    *)
(* re-fetch and re-transcription of the row.                                *)
ChaptersKept ==
    [][\A l \in Lang :
          table[l] # NoRow /\ table'[l] # NoRow /\ table[l].chapters # "null"
              => table'[l].chapters # "null"]_vars

(* "Audio files and Redis locks are released in finally regardless of       *)
(* outcome" (worker.py:74-75): no file outlives the tasks that downloaded   *)
(* it.  It holds as long as no task is timed out or killed.                 *)
AudioReleased ==
    audio => \E w \in Worker :
                at[w] \in {"work", "put", "complete", "fail", "cleanup"}

(* A Whisper job that is complete has a servable transcript, unless it was  *)
(* purged or expired since.                                                 *)
CompleteIsCached ==
    \A r \in Req : status["whisper"][r] = "complete" /\ r \notin gone
        => Got(table, Spoken) # NoRow

(* What the inductive invariants of the proofs add.  A worker at work has a *)
(* job, a diarization past its checks has a transcript, and a transcript    *)
(* that is stored stays servable until its job is marked complete.          *)
Busy == \A w \in Worker : at[w] # "idle" => doing[w] \in Req
Prepared ==
    at["enrichment"] \in {"download", "work", "put"} => loaded \in Row
Stored ==
    at["whisper"] = "complete" /\ doing["whisper"] \notin gone
        => Got(table, Spoken) # NoRow

(* Every request that began is answered, whatever the jobs do.              *)
RequestsEnd ==
    \A r \in Req : pc[r] # "idle" ~> pc[r] \in Ended

-----------------------------------------------------------------------------
(* What the documents say and the code does not do *)

(* "Diarization refuses captions-sourced transcripts": no captions row has  *)
(* speakers.  The source is checked when the job loads the transcript, and  *)
(* the UPDATE minutes later does not look at it again.                      *)
NoDiarizedCaptions ==
    \A l \in Lang :
        table[l] # NoRow /\ table[l].source = "captions" => ~table[l].flag

(* "/var/tmp/yt-transcript/{job_id}.{ext}": a task has the audio it         *)
(* downloaded until it is done with it.                                     *)
AudioIsOwn == \A w \in Worker : at[w] = "work" => audio

(* "Preferred caption language; ignored for Whisper" and "No-caption video  *)
(* -> 202 -> poll -> final transcript": when the job of a request is        *)
(* complete, the transcript is there for the language it asked for, unless  *)
(* it was purged or expired since.                                          *)
CompleteIsServed ==
    \A r \in Req : status["whisper"][r] = "complete" /\ r \notin gone
        => Cached(r) # NoRow
=============================================================================
