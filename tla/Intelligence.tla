---------------------------- MODULE Intelligence ----------------------------
(***************************************************************************)
(* The LLM endpoints over one cached transcript: summarize, topics,        *)
(* sentiment and diff (app/tasks), each a lookup of a stored result, the   *)
(* load of the transcript, one execute call and the store of the result.   *)
(* Nothing locks a result while it is computed, and the transcript may be  *)
(* purged and fetched again meanwhile; what an LLM says is abstracted to   *)
(* the entry that said it and the chapters it was told.                    *)
(***************************************************************************)
EXTENDS LlmExecution

CONSTANTS
    KindOf,         \* KindOf[r]: the endpoint of r
    Overriding,     \* requests with provider_override (admins only)
    Refreshing,     \* topics requests with refresh
    ByChapter,      \* sentiment requests with granularity chapter
    NoRow,          \* absence of a stored result
    MaxChanges      \* bound: changes of the transcript in one behaviour

Kind == {"summary", "topics", "sentiment", "diff"}

ASSUME KindAssumption ==
    /\ KindOf \in [Request -> Kind]
    /\ MaxChanges \in Nat
    /\ Overriding \union Refreshing \union ByChapter \subseteq Request
    /\ \A r \in Overriding : KindOf[r] # "sentiment" /\ Len(Chain[r]) = 1
    /\ \A r \in Refreshing : KindOf[r] = "topics"
    /\ \A r \in ByChapter : KindOf[r] = "sentiment"

VARIABLES
    transcript, \* the transcripts row: "absent", or the state of its chapters
    changes,    \* changes of the transcript so far
    stage,      \* stage[r]: where the task function of r stands
    told,       \* told[r]: the transcript row r has loaded
    store,      \* store[s]: the result stored in slot s
    answer      \* answer[r]: the stored or new result r was given

taskVars == <<transcript, changes, stage, told, store, answer>>
vars == <<llmVars, taskVars>>

Transcript == {"absent", "untried", "noChapters", "chapters"}

(* The primary keys: (video, style, audience_hash, custom_hash), where the  *)
(* override is part of the hashed custom prompt; (video); (video,           *)
(* granularity).  The requests ask for one style, audience and prompt.      *)
SlotName == {"summary", "overriddenSummary", "topics", "overall", "byChapter"}

(* Mutant: the override is not mixed into custom_hash. *)
SharedSlot(r) ==
    CASE KindOf[r] = "summary"   -> "summary"
      [] KindOf[r] = "topics"    -> "topics"
      [] KindOf[r] = "sentiment" -> IF r \in ByChapter THEN "byChapter" ELSE "overall"
      [] OTHER -> "none"

Slot(r) ==
    CASE KindOf[r] = "summary"   ->
            IF r \in Overriding THEN "overriddenSummary" ELSE "summary"
      [] KindOf[r] = "topics"    -> "topics"
      [] KindOf[r] = "sentiment" -> IF r \in ByChapter THEN "byChapter" ELSE "overall"
      [] OTHER -> "none"

Row == [by : Entry, chain : {"routed", "override"}, told : Transcript]
ResultOf(r) ==
    [by |-> Current(r), told |-> told[r],
     chain |-> IF r \in Overriding THEN "override" ELSE "routed"]

Stage == {"idle", "load", "llm", "done", "notFound", "lost"}

TypeOK ==
    /\ LlmTypeOK
    /\ transcript \in Transcript
    /\ changes \in 0 .. MaxChanges
    /\ stage \in [Request -> Stage]
    /\ told \in [Request -> Transcript]
    /\ store \in [SlotName -> Row \union {NoRow}]
    /\ answer \in [Request -> Row \union {NoRow}]

Init ==
    /\ LlmInit
    /\ transcript = "untried"
    /\ changes = 0
    /\ stage = [r \in Request |-> "idle"]
    /\ told = [r \in Request |-> "absent"]
    /\ store = [s \in SlotName |-> NoRow]
    /\ answer = [r \in Request |-> NoRow]

-----------------------------------------------------------------------------
TaskGoto(r, from, to) ==
    /\ stage[r] = from
    /\ stage' = [stage EXCEPT ![r] = to]

LooksUp(r) == KindOf[r] # "diff" /\ r \notin Overriding \union Refreshing

(* A request arrives: _lookup_cached_summary and its siblings. *)
Lookup(r) ==
    /\ \/ /\ LooksUp(r)
          /\ store[Slot(r)] # NoRow
          /\ TaskGoto(r, "idle", "done")
          /\ answer' = [answer EXCEPT ![r] = store[Slot(r)]]
       \/ /\ LooksUp(r) => store[Slot(r)] = NoRow
          /\ TaskGoto(r, "idle", "load")
          /\ UNCHANGED answer
    /\ UNCHANGED <<llmVars, transcript, changes, told, store>>

(* Mutant: without chapters the whole video is one segment. *)
ServesAnyway(r) == transcript # "absent"

(* Sentiment by chapter refuses a transcript without chapters. *)
Serves(r) == transcript # "absent" /\ (r \in ByChapter => transcript = "chapters")

Load(r) ==
    /\ \/ ~Serves(r) /\ TaskGoto(r, "load", "notFound") /\ UNCHANGED <<told, llmVars>>
       \/ /\ Serves(r)
          /\ TaskGoto(r, "load", "llm")
          /\ told' = [told EXCEPT ![r] = transcript]
          /\ Execute(r)
    /\ UNCHANGED <<transcript, changes, store, answer>>

(* The upsert and commit; a diff is not stored.  A response that is JSON    *)
(* but no object, or a database error, loses a result that was paid for.    *)
Persist(r) ==
    /\ step[r] = "ok"
    /\ \/ /\ TaskGoto(r, "llm", "done")
          /\ answer' = [answer EXCEPT ![r] = ResultOf(r)]
          /\ store' = IF KindOf[r] = "diff" THEN store
                      ELSE [store EXCEPT ![Slot(r)] = ResultOf(r)]
       \/ TaskGoto(r, "llm", "lost") /\ UNCHANGED <<answer, store>>
    /\ UNCHANGED <<llmVars, transcript, changes, told>>

(* Summaries have a TTL; the other results stay. *)
SummaryExpires(s) ==
    /\ store[s] # NoRow
    /\ store' = [store EXCEPT ![s] = NoRow]
    /\ UNCHANGED <<llmVars, transcript, changes, stage, told, answer>>

(* /v1/transcript, chapters included or not, and the admin purge.  Neither  *)
(* touches the stored results.                                              *)
TranscriptChanges ==
    /\ changes < MaxChanges
    /\ changes' = changes + 1
    /\ \/ transcript' = "absent"
       \/ transcript = "absent" /\ transcript' = "untried"
       \/ transcript = "untried" /\ transcript' \in {"noChapters", "chapters"}
    /\ UNCHANGED <<llmVars, stage, told, store, answer>>

LlmSteps(r) == ExecuteStep(r) /\ UNCHANGED taskVars

(* What the four task functions do around their execute call. *)
TaskStep(r) == Load(r) \/ Persist(r)
Summarize(r)        == KindOf[r] = "summary"   /\ (Lookup(r) \/ TaskStep(r))
ExtractTopics(r)    == KindOf[r] = "topics"    /\ (Lookup(r) \/ TaskStep(r))
ComputeSentiment(r) == KindOf[r] = "sentiment" /\ (Lookup(r) \/ TaskStep(r))
DiffTranscripts(r)  == KindOf[r] = "diff"      /\ (Lookup(r) \/ TaskStep(r))

Next ==
    \/ \E r \in Request :
          \/ Summarize(r) \/ ExtractTopics(r) \/ ComputeSentiment(r) \/ DiffTranscripts(r)
          \/ LlmSteps(r)
    \/ \E p \in Process : (CacheExpires(p) \/ ProcessDies(p)) /\ UNCHANGED taskVars
    \/ \E s \in {"summary", "overriddenSummary"} : SummaryExpires(s)
    \/ TranscriptChanges

(* A process that can take a step of a request takes it. *)
Fairness == \A r \in Request : SF_vars(TaskStep(r)) /\ WF_vars(LlmSteps(r))

Spec == Init /\ [][Next]_vars
FairSpec == Spec /\ Fairness

-----------------------------------------------------------------------------
(* Properties *)

(* JC-041: a summary request without an override is never answered with a   *)
(* summary that an administrator's override has produced, and one with an   *)
(* override is answered by its own provider only, never by a fallback.      *)
OverridesStayApart ==
    \A r \in Request : KindOf[r] = "summary" /\ answer[r] # NoRow =>
        /\ answer[r].chain = IF r \in Overriding THEN "override" ELSE "routed"
        /\ r \in Overriding => answer[r].by = Chain[r][1]

(* JC-047: no sentiment by chapter, stored or served, was computed from a   *)
(* transcript without chapters, whatever the transcript became since.       *)
ChapterSentimentHasChapters ==
    /\ store["byChapter"] # NoRow => store["byChapter"].told = "chapters"
    /\ \A r \in ByChapter : answer[r] # NoRow => answer[r].told = "chapters"

(* What a request paid for and was answered with is what the next one finds *)
(* in the store, until another request or the TTL replaces it.              *)
PaidIsStored ==
    [][\A r \in Request :
         answer[r] = NoRow /\ answer'[r] # NoRow /\ KindOf[r] # "diff"
             => answer'[r] = store'[Slot(r)]]_vars

(* Every request ends: with an answer, a refusal or an error. *)
Over(r) == stage[r] \in {"done", "notFound", "lost"}
           \/ (stage[r] = "llm" /\ step[r] \in {"capped", "failed", "error"})
RequestsEnd == []<>(\A r \in Request : stage[r] = "idle" \/ Over(r))
=============================================================================
