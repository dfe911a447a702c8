------------------------- MODULE IntelligenceProofs -------------------------
(***************************************************************************)
(* Proofs about Intelligence for every set of requests, chains, prices,    *)
(* processes and faults.  TaskInv follows a request from its call to the   *)
(* stored result; SpendInv, in the second half, bounds what may still be   *)
(* spent once the ledger has passed the cap.                               *)
(***************************************************************************)
EXTENDS Intelligence, FiniteLemmas

(* A request that was not paid for, or whose calls all failed. *)
Unpaid == {"idle", "check", "query", "stow", "call", "log", "logError", "capped", "failed"}

(* A request is in the ledger from its successful call on, and the entry it *)
(* is at is one of its chain while it calls and after it has answered.      *)
ChainInv ==
    /\ step \in [Request -> LlmStep]
    /\ pos \in [Request -> Nat]
    /\ booked \subseteq Request
    /\ \A r \in Request : pos[r] \in 1 .. Len(Chain[r]) + 1
    /\ \A r \in Request : step[r] \in Unpaid => r \notin booked
    /\ \A r \in Request : step[r] \in {"pop", "ok"} => r \in booked
    /\ \A r \in Request :
          step[r] \in {"log", "logError", "pop", "ok"} => pos[r] <= Len(Chain[r])
    /\ \A r \in Request : step[r] = "failed" => pos[r] = Len(Chain[r]) + 1

(* The slot of plain summaries holds no overridden one, and a sentiment by  *)
(* chapter comes from a transcript that had chapters when it was loaded.    *)
StoreInv ==
    /\ transcript \in Transcript
    /\ stage \in [Request -> Stage]
    /\ told \in [Request -> Transcript]
    /\ store \in [SlotName -> Row \union {NoRow}]
    /\ answer \in [Request -> Row \union {NoRow}]
    /\ store["summary"] # NoRow => store["summary"].chain = "routed"
    /\ \A r \in ByChapter : stage[r] = "llm" => told[r] = "chapters"
    /\ OverridesStayApart
    /\ ChapterSentimentHasChapters

TaskInv == ChainInv /\ StoreInv
-----------------------------------------------------------------------------
LEMMA ChainFacts ==
    ASSUME NEW r \in Request
    PROVE  /\ Chain[r] \in Seq(Entry) /\ Len(Chain[r]) \in Nat
           /\ \A n \in 1 .. Len(Chain[r]) : Chain[r][n] \in Entry
           /\ KindOf[r] \in Kind /\ Slot(r) \in SlotName \union {"none"}
           /\ KindOf[r] # "diff" => Slot(r) \in SlotName
           /\ Slot(r) = "summary" <=> KindOf[r] = "summary" /\ r \notin Overriding
           /\ Slot(r) = "byChapter" <=> r \in ByChapter /\ KindOf[r] = "sentiment"
BY ChainAssumption, KindAssumption DEF Kind, Slot, SlotName

LEMMA InitTaskInv == Init => TaskInv
<1> SUFFICES ASSUME Init PROVE TaskInv
    OBVIOUS
<1>1. ChainInv
    <2>1. \A r \in Request : 1 \in 1 .. Len(Chain[r]) + 1
        BY ChainFacts
    <2>. QED
        BY <2>1 DEF Init, LlmInit, ChainInv, LlmStep, Ended, Unpaid
<1>2. StoreInv
    <2>1. /\ store = [s \in SlotName |-> NoRow]
          /\ store["summary"] = NoRow /\ store["byChapter"] = NoRow
        BY DEF Init, SlotName
    <2>2. \A r \in Request : answer[r] = NoRow /\ stage[r] = "idle"
        BY DEF Init
    <2>3. OverridesStayApart /\ ChapterSentimentHasChapters
        BY <2>1, <2>2, KindAssumption DEF OverridesStayApart, ChapterSentimentHasChapters
    <2>. QED
        BY <2>1, <2>2, <2>3, KindAssumption DEF Init, StoreInv, Transcript, Stage
<1>. QED
    BY <1>1, <1>2 DEF TaskInv

(* One step of an execute call. *)
LEMMA ExecuteChainInv ==
    ASSUME ChainInv, NEW r \in Request, Execute(r) \/ ExecuteStep(r)
    PROVE  ChainInv'
<1> USE DEF ChainInv, LlmGoto, Unpaid, LlmStep, Ended
<1>1. /\ Len(Chain[r]) \in Nat /\ pos[r] \in Nat /\ pos[r] >= 1 /\ pos[r] <= Len(Chain[r]) + 1
    BY ChainFacts
<1>2. CASE Execute(r)
    BY <1>2 DEF Execute
<1>3. CASE CheckCap(r)
    <2>1. PICK to \in {"query", "capped", "call"} :
              step[r] = "check" /\ step' = [step EXCEPT ![r] = to]
        BY <1>3 DEF CheckCap, Admit
    <2>. QED
        BY <1>3, <2>1 DEF CheckCap
<1>4. CASE QuerySpend(r)
    BY <1>4 DEF QuerySpend
<1>5. CASE StowSpend(r)
    <2>1. PICK to \in {"capped", "call"} :
              step[r] = "stow" /\ step' = [step EXCEPT ![r] = to]
        BY <1>5 DEF StowSpend, Admit
    <2>. QED
        BY <1>5, <2>1 DEF StowSpend
<1>6. CASE CallProvider(r)
    <2>1. CASE UNCHANGED step
        <3>1. /\ step[r] = "call" /\ pos[r] <= Len(Chain[r])
              /\ pos' = [pos EXCEPT ![r] = @ + 1] /\ booked' = booked
            BY <1>6, <2>1 DEF CallProvider
        <3>. QED
            BY <1>1, <2>1, <3>1
    <2>2. CASE UNCHANGED pos
        <3>1. /\ step[r] = "call" /\ booked' = booked
              /\ \E to \in {"log", "logError", "failed"} :
                    /\ step' = [step EXCEPT ![r] = to]
                    /\ to = "failed" <=> pos[r] > Len(Chain[r])
            BY <1>1, <1>6, <2>2 DEF CallProvider
        <3>. QED
            BY <1>1, <2>2, <3>1
    <2>. QED
        BY <1>6, <2>1, <2>2 DEF CallProvider
<1>7. CASE LogSuccess(r)
    BY <1>7 DEF LogSuccess
<1>8. CASE LogError(r)
    <2>1. CASE UNCHANGED pos
        BY <1>8, <2>1 DEF LogError
    <2>2. CASE pos' = [pos EXCEPT ![r] = @ + 1] /\ LlmGoto(r, "logError", "call")
        BY <1>1, <1>8, <2>2 DEF LogError
    <2>. QED
        BY <1>8, <2>1, <2>2 DEF LogError
<1>9. CASE PopCache(r)
    BY <1>9 DEF PopCache
<1>. QED
    BY <1>2, <1>3, <1>4, <1>5, <1>6, <1>7, <1>8, <1>9 DEF ExecuteStep

LEMMA ProcessChainInv ==
    ASSUME ChainInv, NEW p \in Process, CacheExpires(p) \/ ProcessDies(p)
    PROVE  ChainInv'
<1>1. CASE CacheExpires(p)
    BY <1>1 DEF ChainInv, CacheExpires
<1>2. CASE ProcessDies(p)
    <2>1. \A r \in Request : step'[r] = step[r] \/ step'[r] = "error"
        BY <1>2 DEF ProcessDies
    <2>2. step' \in [Request -> LlmStep]
        BY <1>2 DEF ProcessDies, ChainInv, LlmStep, Ended
    <2>. QED
        BY <1>2, <2>1, <2>2 DEF ProcessDies, ChainInv, Unpaid
<1>. QED
    BY <1>1, <1>2

(* What the task of a request does around its execute call. *)
LEMMA StepStoreInv ==
    ASSUME TaskInv, NEW r \in Request, Lookup(r) \/ TaskStep(r)
    PROVE  StoreInv'
<1> USE DEF TaskInv, TaskGoto
<1>0. ByChapter \subseteq Request
    BY KindAssumption
<1>1. CASE Lookup(r)
    <2>1. PICK to \in {"done", "load"} : stage' = [stage EXCEPT ![r] = to]
        BY <1>1 DEF Lookup
    <2>2. UNCHANGED <<transcript, told, store>>
        BY <1>1 DEF Lookup
    <2>3. \/ UNCHANGED answer
          \/ /\ LooksUp(r) /\ store[Slot(r)] # NoRow
             /\ answer' = [answer EXCEPT ![r] = store[Slot(r)]]
        BY <1>1 DEF Lookup
    <2>4. answer' \in [Request -> Row \union {NoRow}]
        BY <2>3, ChainFacts DEF StoreInv, LooksUp
    <2>5. OverridesStayApart'
        BY <2>2, <2>3, ChainFacts DEF StoreInv, OverridesStayApart, LooksUp
    <2>6. ChapterSentimentHasChapters'
        BY <2>2, <2>3, ChainFacts, KindAssumption
           DEF StoreInv, ChapterSentimentHasChapters, LooksUp
    <2>7. stage' \in [Request -> Stage]
        BY <2>1 DEF StoreInv, Stage
    <2>. QED
        BY <2>1, <2>2, <2>4, <2>5, <2>6, <2>7 DEF StoreInv
<1>2. CASE Load(r)
    <2>1. PICK to \in {"notFound", "llm"} : stage' = [stage EXCEPT ![r] = to]
        BY <1>2 DEF Load
    <2>2. /\ UNCHANGED <<transcript, store, answer>>
          /\ told' \in {told, [told EXCEPT ![r] = transcript]}
          /\ stage'[r] = "llm" /\ r \in ByChapter => told'[r] = "chapters"
        BY <1>2 DEF Load, Serves, StoreInv
    <2>3. \A q \in ByChapter : stage'[q] = "llm" => told'[q] = "chapters"
        BY <1>0, <2>1, <2>2 DEF StoreInv
    <2>4. stage' \in [Request -> Stage] /\ told' \in [Request -> Transcript]
        BY <2>1, <2>2 DEF StoreInv, Stage
    <2>. QED
        BY <2>2, <2>3, <2>4 DEF StoreInv, OverridesStayApart, ChapterSentimentHasChapters
<1>3. CASE Persist(r)
    <2> DEFINE res == ResultOf(r)
    <2>1. /\ step[r] = "ok" /\ stage[r] = "llm"
          /\ UNCHANGED <<transcript, told>>
          /\ stage' \in {[stage EXCEPT ![r] = "done"], [stage EXCEPT ![r] = "lost"]}
          /\ \/ UNCHANGED <<answer, store>>
             \/ /\ answer' = [answer EXCEPT ![r] = ResultOf(r)]
                /\ store' = IF KindOf[r] = "diff" THEN store
                            ELSE [store EXCEPT ![Slot(r)] = ResultOf(r)]
        BY <1>3 DEF Persist
    <2>2. /\ pos[r] \in 1 .. Len(Chain[r])
          /\ Len(Chain[r]) = 1 => pos[r] = 1
        BY <2>1, ChainFacts DEF ChainInv
    <2>3. /\ res \in Row
          /\ res.chain = IF r \in Overriding THEN "override" ELSE "routed"
          /\ r \in Overriding => res.by = Chain[r][1]
          /\ r \in ByChapter => res.told = "chapters"
        <3>1. Current(r) \in Entry /\ told[r] \in Transcript
            BY <2>2, ChainFacts DEF Current, StoreInv
        <3>2. r \in Overriding => Current(r) = Chain[r][1]
            BY <2>2, KindAssumption DEF Current
        <3>3. r \in ByChapter => told[r] = "chapters"
            BY <2>1 DEF StoreInv
        <3>. QED
            BY <3>1, <3>2, <3>3 DEF ResultOf, Row
    <2>. HIDE DEF res
    <2>4. CASE UNCHANGED <<answer, store>>
        BY <1>0, <2>1, <2>4 DEF StoreInv, Stage, OverridesStayApart, ChapterSentimentHasChapters
    <2>5. CASE /\ answer' = [answer EXCEPT ![r] = res]
               /\ store' = IF KindOf[r] = "diff" THEN store
                           ELSE [store EXCEPT ![Slot(r)] = res]
        <3>1. /\ store' \in [SlotName -> Row \union {NoRow}]
              /\ answer' \in [Request -> Row \union {NoRow}]
            BY <2>3, <2>5, ChainFacts DEF StoreInv
        <3>2. stage' \in [Request -> Stage]
            BY <2>1 DEF StoreInv, Stage
        <3>3. \A s \in SlotName : store'[s] = store[s] \/ (s = Slot(r) /\ store'[s] = res)
            BY <2>5 DEF StoreInv
        <3>4. \A q \in Request : answer'[q] = IF q = r THEN res ELSE answer[q]
            BY <2>5 DEF StoreInv
        <3>5. store'["summary"] # NoRow => store'["summary"].chain = "routed"
            BY <2>3, <3>3, ChainFacts DEF StoreInv, SlotName
        <3>6. OverridesStayApart'
            BY <2>3, <3>4 DEF StoreInv, OverridesStayApart
        <3>7. ChapterSentimentHasChapters'
            <4>1. store'["byChapter"] # NoRow => store'["byChapter"].told = "chapters"
                <5>1. "byChapter" \in SlotName /\ (Slot(r) = "byChapter" => r \in ByChapter)
                    BY ChainFacts DEF SlotName
                <5>2. store["byChapter"] # NoRow => store["byChapter"].told = "chapters"
                    BY DEF StoreInv, ChapterSentimentHasChapters
                <5>. QED
                    BY <2>3, <3>3, <5>1, <5>2
            <4>2. \A q \in ByChapter :
                      answer'[q] # NoRow => answer'[q].told = "chapters"
                BY <1>0, <2>3, <3>4 DEF StoreInv, ChapterSentimentHasChapters
            <4>. QED
                BY <4>1, <4>2 DEF ChapterSentimentHasChapters
        <3>8. \A q \in ByChapter : stage'[q] = "llm" => told'[q] = "chapters"
            BY <1>0, <2>1 DEF StoreInv
        <3>. QED
            BY <2>1, <3>1, <3>2, <3>5, <3>6, <3>7, <3>8 DEF StoreInv
    <2>. QED
        BY <2>1, <2>4, <2>5 DEF res
<1>. QED
    BY <1>1, <1>2, <1>3 DEF TaskStep

LEMMA NextTaskInv == TaskInv /\ [Next]_vars => TaskInv'
<1> SUFFICES ASSUME TaskInv, [Next]_vars PROVE TaskInv'
    OBVIOUS
<1> USE DEF TaskInv
<1>1. ASSUME UNCHANGED <<transcript, stage, told, store, answer>>
      PROVE  StoreInv'
    BY <1>1 DEF StoreInv, OverridesStayApart, ChapterSentimentHasChapters
<1>2. ASSUME UNCHANGED llmVars PROVE ChainInv'
    BY <1>2 DEF ChainInv, llmVars
<1>3. ASSUME NEW r \in Request, Lookup(r) \/ TaskStep(r) PROVE TaskInv'
    <2>1. Execute(r) \/ UNCHANGED llmVars
        BY <1>3 DEF Lookup, TaskStep, Load, Persist
    <2>. QED
        BY <1>2, <1>3, <2>1, ExecuteChainInv, StepStoreInv
<1>4. ASSUME NEW r \in Request, LlmSteps(r) PROVE TaskInv'
    BY <1>1, <1>4, ExecuteChainInv DEF LlmSteps, taskVars
<1>5. ASSUME NEW p \in Process, CacheExpires(p) \/ ProcessDies(p), UNCHANGED taskVars
      PROVE  TaskInv'
    BY <1>1, <1>5, ProcessChainInv DEF taskVars
<1>6. ASSUME NEW s \in {"summary", "overriddenSummary"}, SummaryExpires(s) PROVE TaskInv'
    <2>1. \A t \in SlotName : store'[t] = store[t] \/ store'[t] = NoRow
        BY <1>6 DEF SummaryExpires, StoreInv
    <2>2. store' \in [SlotName -> Row \union {NoRow}]
        BY <1>6 DEF SummaryExpires, StoreInv
    <2>3. StoreInv'
        BY <1>6, <2>1, <2>2
           DEF SummaryExpires, StoreInv, OverridesStayApart, ChapterSentimentHasChapters, SlotName
    <2>. QED
        BY <1>2, <1>6, <2>3 DEF SummaryExpires
<1>7. CASE TranscriptChanges
    <2>1. StoreInv'
        BY <1>7 DEF TranscriptChanges, StoreInv, Transcript, OverridesStayApart,
                    ChapterSentimentHasChapters
    <2>. QED
        BY <1>2, <1>7, <2>1 DEF TranscriptChanges
<1>8. CASE UNCHANGED vars
    BY <1>1, <1>2, <1>8 DEF vars, taskVars
<1>. QED
    BY <1>3, <1>4, <1>5, <1>6, <1>7, <1>8
       DEF Next, Summarize, ExtractTopics, ComputeSentiment, DiffTranscripts

LEMMA TaskInvariantHolds == Spec => []TaskInv
BY InitTaskInv, NextTaskInv, PTL DEF Spec

(* LLMFailedError means that the whole chain was tried and nothing paid.    *)
THEOREM FailureTriesAll == Spec => []FailedTriedAll
<1>1. TaskInv => FailedTriedAll
    <2> SUFFICES ASSUME TaskInv, NEW r \in Request, step[r] = "failed"
                 PROVE  r \notin booked /\ pos[r] .. Len(Chain[r]) = {}
        BY DEF FailedTriedAll
    <2>1. Len(Chain[r]) \in Nat /\ pos[r] = Len(Chain[r]) + 1
        BY ChainFacts DEF TaskInv, ChainInv
    <2>. QED
        BY <2>1 DEF TaskInv, ChainInv, Unpaid
<1>. QED
    BY <1>1, TaskInvariantHolds, PTL

(* Overridden summaries and plain ones never answer for one another, and an *)
(* override is never answered by a fallback (JC-041), for every chain.      *)
THEOREM OverridesApart == Spec => []OverridesStayApart
<1>1. TaskInv => OverridesStayApart
    BY DEF TaskInv, StoreInv
<1>. QED
    BY <1>1, TaskInvariantHolds, PTL

(* Sentiment by chapter was computed from chapters (JC-047), however the    *)
(* transcript changes under its requests.                                   *)
THEOREM ChapterSentimentSound == Spec => []ChapterSentimentHasChapters
<1>1. TaskInv => ChapterSentimentHasChapters
    BY DEF TaskInv, StoreInv
<1>. QED
    BY <1>1, TaskInvariantHolds, PTL

(* A result that a request was given is the one the store holds then: what  *)
(* was paid for is never returned without being stored.                     *)
THEOREM PaidResultsStored == Spec => PaidIsStored
<1>1. ASSUME TaskInv, [Next]_vars, NEW r \in Request,
             answer[r] = NoRow, answer'[r] # NoRow, KindOf[r] # "diff"
      PROVE  answer'[r] = store'[Slot(r)]
    <2>1. answer' # answer /\ answer \in [Request -> Row \union {NoRow}]
        BY <1>1 DEF TaskInv, StoreInv
    <2>2. PICK q \in Request : Lookup(q) \/ TaskStep(q)
        BY <1>1, <2>1 DEF Next, Summarize, ExtractTopics, ComputeSentiment, DiffTranscripts,
                          LlmSteps, SummaryExpires, TranscriptChanges, taskVars, vars
    <2>3. CASE Lookup(q)
        <3>1. answer' = [answer EXCEPT ![q] = store[Slot(q)]] /\ store' = store
            BY <2>1, <2>3 DEF Lookup
        <3>. QED
            BY <1>1, <2>1, <3>1
    <2>4. CASE Load(q)
        BY <2>1, <2>4 DEF Load
    <2>5. CASE Persist(q)
        <3>1. /\ answer' = [answer EXCEPT ![q] = ResultOf(q)]
              /\ store' = IF KindOf[q] = "diff" THEN store
                          ELSE [store EXCEPT ![Slot(q)] = ResultOf(q)]
            BY <2>1, <2>5 DEF Persist
        <3>2. q = r /\ answer'[r] = ResultOf(r)
            BY <1>1, <2>1, <3>1
        <3>3. Slot(r) \in SlotName
            BY <1>1, ChainFacts
        <3>. QED
            BY <1>1, <3>1, <3>2, <3>3 DEF TaskInv, StoreInv
    <2>. QED
        BY <2>2, <2>3, <2>4, <2>5 DEF TaskStep
<1>2. TaskInv /\ [Next]_vars =>
          [\A r \in Request :
              answer[r] = NoRow /\ answer'[r] # NoRow /\ KindOf[r] # "diff"
                  => answer'[r] = store'[Slot(r)]]_vars
    BY <1>1
<1>. QED
    BY <1>2, TaskInvariantHolds, PTL DEF Spec, PaidIsStored
-----------------------------------------------------------------------------
(***************************************************************************)
(* The daily cap.  Once the ledger has passed it, every later query finds  *)
(* it passed; who is let through then is let through by a reading from     *)
(* before: the cached one, or one that a request has yet to cache.  Each   *)
(* cached one lasts until the next response pops it, and up to then lets   *)
(* through no more requests than fit in besides those that hold a reading  *)
(* and those that are about to pop.  Room counts what may still be spent.  *)
(***************************************************************************)
(* Requests that hold a reading from before, that are let through and that  *)
(* have a response.                                                         *)
Holding(p) == {r \in Request : ProcessOf[r] = p /\ step[r] = "stow" /\ seen[r] <= Cap}
Paying(p)  == {r \in Request : ProcessOf[r] = p /\ step[r] \in {"call", "log", "logError"}}
Popping(p) == {r \in Request : ProcessOf[r] = p /\ step[r] = "pop"}
Outdated(p) == cache[p] # Unknown /\ cache[p] <= Cap

(* Twice the calls that h readings, n requests let through, m responses and *)
(* an outdated cache can still lead to.                                     *)
Weight(h, n, m, outdated) ==
    h * (2 * Concurrency + 1 - h)
        + 2 * (IF outdated THEN Concurrency - h - m ELSE n)

Full == Concurrency * (Concurrency + 1)

Room == [p \in Process |->
            Weight(Cardinality(Holding(p)), Cardinality(Paying(p)),
                   Cardinality(Popping(p)), Outdated(p))]

Good == {r \in booked : step[r] # "error"}

Within(good, room) ==
    2 * good + MaxCost * Total(room, Process)
        <= 2 * Cap + MaxCost * (Cardinality(Process) * Full)

(* No process runs more requests than it may, and a request in the ledger is *)
(* at the entry that answered it.                                           *)
SlotInv ==
    /\ cache \in [Process -> Nat \union {Unknown}]
    /\ seen \in [Request -> Nat]
    /\ \A r \in booked : pos[r] \in 1 .. Len(Chain[r])
    /\ \A p \in Process : Cardinality(Executing(p)) <= Concurrency

SpendInv == SlotInv /\ (Spent <= Cap \/ Within(MapThenSumSet(Cost, Good), Room))

-----------------------------------------------------------------------------
(* Arithmetic of the weights. *)
LEMMA Square == \A u \in Nat : u * u \in Nat /\ u * u >= u
<1> SUFFICES ASSUME NEW u \in Nat PROVE u * u \in Nat /\ u * u >= u
    OBVIOUS
<1> DEFINE P == {i \in 0 .. u : i * i \in Nat /\ i * i >= i}
<1>1. 0 \in P
    OBVIOUS
<1>2. ASSUME NEW i \in 1 .. u, i - 1 \in P PROVE i \in P
    <2>1. PICK k \in Nat : k = (i - 1) * (i - 1)
        BY <1>2
    <2>2. PICK d \in Nat : i = d + 1 /\ k = d * d
        BY <2>1
    <2>3. (d + 1) * (d + 1) = d * d + 2 * d + 1
        OBVIOUS
    <2>4. i * i = k + 2 * d + 1
        BY <2>2, <2>3
    <2>5. i * i \in Nat /\ i * i >= i
        BY <2>2, <2>4
    <2>. QED
        BY <2>5
<1>3. \A i \in 1 .. u : i - 1 \in P => i \in P
    BY <1>2
<1>4. \A i \in 0 .. u : i \in P
    <2>. HIDE DEF P
    <2>. QED
        BY <1>1, <1>3, UpTo
<1>. QED
    BY <1>4

LEMMA Scaled ==
    ASSUME NEW k \in Nat, NEW a \in Nat, NEW b \in Nat, a <= b
    PROVE  k * a <= k * b /\ k * a \in Nat
<1> DEFINE P == {i \in 0 .. k : i * a <= i * b /\ i * a \in Nat /\ i * b \in Nat}
<1>1. 0 \in P
    OBVIOUS
<1>2. ASSUME NEW i \in 1 .. k, i - 1 \in P PROVE i \in P
    <2>1. PICK d \in Nat : i = d + 1 /\ d = i - 1
        OBVIOUS
    <2>2. PICK x \in Nat, y \in Nat : x = d * a /\ y = d * b /\ x <= y
        BY <1>2, <2>1
    <2>3. (d + 1) * a = d * a + a /\ (d + 1) * b = d * b + b
        OBVIOUS
    <2>4. i * a = x + a /\ i * b = y + b
        BY <2>1, <2>2, <2>3
    <2>5. x + a <= y + b /\ x + a \in Nat /\ y + b \in Nat
        BY <2>2
    <2>. QED
        BY <2>4, <2>5
<1>3. \A i \in 1 .. k : i - 1 \in P => i \in P
    BY <1>2
<1>4. \A i \in 0 .. k : i \in P
    <2>. HIDE DEF P
    <2>. QED
        BY <1>1, <1>3, UpTo
<1>. QED
    BY <1>4

LEMMA WeightBounds ==
    ASSUME NEW h \in Nat, NEW n \in Nat, NEW m \in Nat, NEW outdated \in BOOLEAN,
           h + n + m <= Concurrency
    PROVE  /\ Weight(h, n, m, outdated) \in Nat /\ Full \in Nat
           /\ Weight(h, n, m, outdated) <= Full
           /\ m > 0 => Weight(h, n, m, outdated) + 2 <= Full
<1>1. PICK u \in Nat : Concurrency = h + u /\ n + m <= u
    <2>1. PICK u \in Int : u = Concurrency - h
        BY CapAssumption
    <2>2. Concurrency = h + u /\ n + m <= u /\ u \in Nat
        BY <2>1, CapAssumption
    <2>. QED
        BY <2>2
<1>2. PICK x \in Nat : x = (IF outdated THEN u - m ELSE n) /\ x + m <= u
    <2>1. CASE outdated
        <3>1. m <= u
            BY <1>1
        <3>2. PICK x \in Nat : x = u - m
            BY <3>1
        <3>3. x + m <= u
            BY <3>2
        <3>. QED
            BY <2>1, <3>2, <3>3
    <2>2. CASE ~outdated
        <3>1. n + m <= u
            BY <1>1
        <3>. QED
            BY <2>2, <3>1
    <2>. QED
        BY <2>1, <2>2
<1>4. PICK hh \in Nat, hu \in Nat, uu \in Nat : hh = h * h /\ hu = h * u /\ uu = u * u /\ uu >= u
    BY Square
<1>5. Weight(h, n, m, outdated) = h * (2 * (h + u) + 1 - h) + 2 * x
    BY <1>1, <1>2 DEF Weight
<1>6. h * (2 * (h + u) + 1 - h) = hh + 2 * hu + h
    BY <1>4
<1>7. Full = (h + u) * (h + u + 1)
    BY <1>1 DEF Full
<1>8. (h + u) * (h + u + 1) = hh + 2 * hu + uu + h + u
    BY <1>4
<1>. QED
    BY <1>2, <1>4, <1>5, <1>6, <1>7, <1>8

(* The cache is not outdated by the step, and no one is let through but by it. *)
LEMMA WeightStays ==
    ASSUME NEW h \in Nat, NEW n \in Nat, NEW m \in Nat, NEW outdated \in BOOLEAN,
           NEW n2 \in Nat, NEW m2 \in Nat, NEW outdated2 \in BOOLEAN,
           h + n + m <= Concurrency, h + n2 + m2 <= Concurrency,
           outdated2 => outdated,
           \/ m2 = m /\ (outdated \/ n2 <= n)
           \/ n2 <= n /\ ~outdated2
    PROVE  Weight(h, n2, m2, outdated2) <= Weight(h, n, m, outdated)
<1>1. PICK w \in Int, c \in Int : w = h * (2 * Concurrency + 1 - h) /\ c = Concurrency
    BY CapAssumption
<1>2. Weight(h, n, m, outdated) = w + 2 * (IF outdated THEN c - h - m ELSE n)
    BY <1>1 DEF Weight
<1>3. Weight(h, n2, m2, outdated2) = w + 2 * (IF outdated2 THEN c - h - m2 ELSE n2)
    BY <1>1 DEF Weight
<1>4. (IF outdated2 THEN c - h - m2 ELSE n2) <= (IF outdated THEN c - h - m ELSE n)
    BY <1>1
<1>. QED
    BY <1>1, <1>2, <1>3, <1>4

(* A response takes the place of a call. *)
LEMMA WeightOfResponse ==
    ASSUME NEW h \in Nat, NEW n \in Nat, NEW m \in Nat, NEW outdated \in BOOLEAN,
           h + n + m <= Concurrency, n > 0
    PROVE  Weight(h, n - 1, m + 1, outdated) + 2 <= Weight(h, n, m, outdated)
<1>1. PICK w \in Int, c \in Int : w = h * (2 * Concurrency + 1 - h) /\ c = Concurrency
    BY CapAssumption
<1>2. Weight(h, n, m, outdated) = w + 2 * (IF outdated THEN c - h - m ELSE n)
    BY <1>1 DEF Weight
<1>3. Weight(h, n - 1, m + 1, outdated) = w + 2 * (IF outdated THEN c - h - (m + 1) ELSE n - 1)
    BY <1>1 DEF Weight
<1>. QED
    BY <1>1, <1>2, <1>3

(* A reading from before is cached. *)
LEMMA WeightOfReading ==
    ASSUME NEW h \in Nat, NEW n \in Nat, NEW m \in Nat, NEW outdated \in BOOLEAN,
           NEW n2 \in Nat, h + n + m <= Concurrency, h > 0
    PROVE  Weight(h - 1, n2, m, TRUE) <= Weight(h, n, m, outdated)
<1>1. PICK c \in Nat, hh \in Nat, hc \in Nat : c = Concurrency /\ hh = h * h /\ hc = h * c
    BY CapAssumption
<1>2. h * (2 * c + 1 - h) = 2 * hc + h - hh
    BY <1>1
<1>3. (h - 1) * (2 * c + 1 - (h - 1)) = 2 * hc + h - hh - 2 * c + 2 * h - 2
    BY <1>1
<1>4. Weight(h, n, m, outdated)
        = 2 * hc + h - hh + 2 * (IF outdated THEN c - h - m ELSE n)
    BY <1>1, <1>2 DEF Weight
<1>5. Weight(h - 1, n2, m, TRUE)
        = 2 * hc + h - hh - 2 * c + 2 * h - 2 + 2 * (c - (h - 1) - m)
    BY <1>1, <1>3 DEF Weight
<1>6. PICK x \in Nat : x = IF outdated THEN c - h - m ELSE n
    <2>1. CASE outdated
        <3>1. c - h - m \in Nat
            BY <1>1
        <3>. QED
            BY <2>1, <3>1
    <2>2. CASE ~outdated
        BY <2>2
    <2>. QED
        BY <2>1, <2>2
<1>7. PICK w \in Int : w = 2 * hc + h - hh
    OBVIOUS
<1>8. Weight(h, n, m, outdated) = w + 2 * x
    BY <1>4, <1>6, <1>7
<1>9. - 2 * c + 2 * h - 2 + 2 * (c - (h - 1) - m) = - (2 * m)
    OBVIOUS
<1>10. Weight(h - 1, n2, m, TRUE) = w - 2 * m
    <2>1. 2 * hc + h - hh - 2 * c + 2 * h - 2 + 2 * (c - (h - 1) - m)
             = (2 * hc + h - hh) + (- 2 * c + 2 * h - 2 + 2 * (c - (h - 1) - m))
        OBVIOUS
    <2>. QED
        BY <1>5, <1>7, <1>9, <2>1
<1>11. w - 2 * m <= w + 2 * x
    OBVIOUS
<1>. QED
    BY <1>8, <1>10, <1>11, Zenon

-----------------------------------------------------------------------------
(* Sums over the ledger: the entry of r is at[r]. *)
Prices(at) == [r \in Request |-> CostOf[Chain[r][at[r]]]]
Sum(at, S) == MapThenSumSet(LAMBDA r : CostOf[Chain[r][at[r]]], S)
Priced(at, S) == \A r \in S : at[r] \in 1 .. Len(Chain[r])

LEMMA MaxCostBounds == MaxCost \in Nat /\ \A e \in Entry : CostOf[e] \in Nat /\ CostOf[e] <= MaxCost
<1> DEFINE Costs == {CostOf[e] : e \in Entry}
<1>1. Costs \subseteq Nat /\ Costs # {}
    BY ChainAssumption, FinitenessAssumption
<1>2. IsFiniteSet(Costs)
    <2>1. CostOf \in Surjection(Entry, Costs)
        BY ChainAssumption DEF Surjection
    <2>. QED
        BY <2>1, FinitenessAssumption, FS_Surjection
<1>3. MaxCost = Max(Costs)
    BY DEF MaxCost
<1>4. \A e \in Entry : CostOf[e] \in Costs
    OBVIOUS
<1>. HIDE DEF Costs
<1>5. Max(Costs) \in Costs /\ \A n \in Costs : n <= Max(Costs)
    BY <1>1, <1>2, MaxFacts
<1>. QED
    BY <1>1, <1>3, <1>4, <1>5

LEMMA PricedCosts ==
    ASSUME NEW at, NEW S \in SUBSET Request, Priced(at, S)
    PROVE  /\ IsFiniteSet(S)
           /\ \A r \in S : Prices(at)[r] \in Nat /\ Prices(at)[r] <= MaxCost
<1>1. ASSUME NEW r \in S PROVE Prices(at)[r] \in Nat /\ Prices(at)[r] <= MaxCost
    <2>1. Chain[r][at[r]] \in Entry
        BY ChainFacts DEF Priced
    <2>. QED
        BY <2>1, MaxCostBounds DEF Prices
<1>. QED
    BY <1>1, FinitenessAssumption, FS_Subset

LEMMA SumIsTotal ==
    ASSUME NEW at, NEW S \in SUBSET Request, Priced(at, S)
    PROVE  Sum(at, S) = Total(Prices(at), S) /\ Sum(at, S) \in Nat
<1> DEFINE Body(it) == [T \in SUBSET S |->
                           IF T = {} THEN 0
                           ELSE CostOf[Chain[CHOOSE x \in T : TRUE][at[CHOOSE x \in T : TRUE]]]
                                  + it[T \ {CHOOSE x \in T : TRUE}]]
<1>1. Sum(at, S) = (CHOOSE it : it = Body(it))[S]
    BY DEF Sum, MapThenSumSet, MapThenFoldSet
<1>2. /\ IsFiniteSet(S)
      /\ \A r \in S : Prices(at)[r] \in Nat
    BY PricedCosts
<1>3. \A T \in SUBSET S : T # {} =>
          /\ Pick(T) \in T
          /\ Prices(at)[Pick(T)] = CostOf[Chain[Pick(T)][at[Pick(T)]]]
    BY DEF Prices, Pick
<1>4. \E it : it = Body(it)
    <2>1. PICK it : Adds(it, S, Prices(at))
        BY <1>2, AddsExists
    <2>2. it = Body(it)
        BY <1>3, <2>1 DEF Adds, Pick
    <2>. QED
        BY <2>2
<1>5. PICK it : it = Body(it) /\ Sum(at, S) = it[S]
    BY <1>1, <1>4
<1>6. \A T \in SUBSET S :
          it[T] = IF T = {} THEN 0 ELSE Prices(at)[Pick(T)] + it[T \ {Pick(T)}]
    BY <1>3, <1>5, ZenonT(40) DEF Pick
<1>7. it = [T \in SUBSET S |-> it[T]]
    BY <1>5
<1>. HIDE DEF Body
<1> DEFINE P == {T \in SUBSET S : it[T] \in Nat}
<1>8. \A T \in SUBSET S : T \in P
    <2>1. {} \in P
        BY <1>6
    <2>2. ASSUME NEW T \in SUBSET S, T # {}, \A x \in T : T \ {x} \in P PROVE T \in P
        <3>1. PICK x \in T : x = Pick(T)
            BY <1>3, <2>2
        <3>2. it[T \ {x}] \in Nat /\ Prices(at)[x] \in Nat
            BY <1>2, <2>2
        <3>3. it[T] = Prices(at)[x] + it[T \ {x}]
            BY <1>6, <2>2, <3>1
        <3>. QED
            BY <3>2, <3>3
    <2>3. \A T \in SUBSET S : T # {} /\ (\A x \in T : T \ {x} \in P) => T \in P
        BY <2>2
    <2>. HIDE DEF P
    <2>. QED
        BY <1>2, <2>1, <2>3, SetInduction
<1>9. Adds(it, S, Prices(at))
    BY <1>6, <1>7, <1>8 DEF Adds
<1>10. Total(Prices(at), S) \in Nat /\ Total(Prices(at), S) = it[S]
    BY <1>2, <1>9, TotalWithin
<1>. QED
    BY <1>5, <1>10

LEMMA SpentIsSum ==
    Spent = Sum(pos, booked) /\ MapThenSumSet(Cost, Good) = Sum(pos, Good)
BY DEF Spent, Sum, Cost, Current, MapThenSumSet, MapThenFoldSet

LEMMA SpentIsSumPrimed ==
    Spent' = Sum(pos', booked') /\ MapThenSumSet(Cost, Good)' = Sum(pos', Good')
BY DEF Spent, Sum, Cost, Current, MapThenSumSet, MapThenFoldSet

(* The price of what is in S stays, and more in S costs more. *)
LEMMA SumOfPart ==
    ASSUME NEW at, NEW at2, NEW S \in SUBSET Request, NEW T \in SUBSET S,
           Priced(at, S), \A r \in T : at2[r] = at[r]
    PROVE  Sum(at2, T) \in Nat /\ Sum(at, S) \in Nat /\ Sum(at2, T) <= Sum(at, S)
<1>1. Priced(at, T) /\ Priced(at2, T)
    BY DEF Priced
<1>2. Sum(at2, T) = Total(Prices(at2), T) /\ Sum(at2, T) \in Nat
    BY <1>1, SumIsTotal
<1>3. Sum(at, S) = Total(Prices(at), S) /\ Sum(at, S) \in Nat
    BY SumIsTotal
<1>4. IsFiniteSet(S) /\ \A r \in S : Prices(at)[r] \in Nat
    BY PricedCosts
<1>5. Total(Prices(at), T) <= Total(Prices(at), S)
    BY <1>4, TotalOfPart
<1>6. \A r \in T : Prices(at2)[r] = Prices(at)[r]
    BY DEF Prices
<1>7. Total(Prices(at2), T) = Total(Prices(at), T)
    <2>1. IsFiniteSet(T) /\ \A r \in T : Prices(at)[r] \in Nat /\ Prices(at2)[r] = Prices(at)[r]
        BY <1>4, <1>6, FS_Subset
    <2>. QED
        BY <2>1, TotalEqual
<1>. QED
    BY <1>2, <1>3, <1>5, <1>7

LEMMA SumOfOneMore ==
    ASSUME NEW at, NEW S \in SUBSET Request, NEW r \in Request \ S, Priced(at, S \union {r})
    PROVE  /\ Sum(at, S) \in Nat /\ Sum(at, S \union {r}) \in Nat
           /\ Sum(at, S \union {r}) <= Sum(at, S) + MaxCost
<1>1. PICK T \in SUBSET Request : T = S \union {r} /\ T \ {r} = S
    OBVIOUS
<1>2. Priced(at, S) /\ Priced(at, T)
    BY <1>1 DEF Priced
<1>3. Sum(at, S) = Total(Prices(at), S) /\ Sum(at, S) \in Nat
    BY <1>2, SumIsTotal
<1>4. Sum(at, T) = Total(Prices(at), T) /\ Sum(at, T) \in Nat
    BY <1>2, SumIsTotal
<1>5. /\ IsFiniteSet(T) /\ r \in T
      /\ \A q \in T : Prices(at)[q] \in Nat /\ Prices(at)[q] <= MaxCost
    BY <1>1, <1>2, PricedCosts
<1>6. Total(Prices(at), T) = Prices(at)[r] + Total(Prices(at), T \ {r})
    BY <1>5, TotalRemove
<1>. QED
    BY <1>1, <1>3, <1>4, <1>5, <1>6, MaxCostBounds

(* What the bound admits stays admitted when less is spent and less can be. *)
LEMMA WithinLess ==
    ASSUME NEW good \in Nat, NEW good2 \in Nat, NEW room, NEW room2,
           Within(good, room), good2 <= good, Below(room2, room, Process)
    PROVE  Within(good2, room2)
<1>1. /\ Total(room, Process) \in Nat /\ Total(room2, Process) \in Nat
      /\ Total(room2, Process) <= Total(room, Process)
    BY FinitenessAssumption, TotalMonotone DEF Below
<1>2. MaxCost * Total(room2, Process) <= MaxCost * Total(room, Process)
    BY <1>1, MaxCostBounds, Scaled
<1>3. PICK a \in Int, b \in Int, c \in Int :
          /\ a = MaxCost * Total(room2, Process) /\ b = MaxCost * Total(room, Process)
          /\ c = 2 * Cap + MaxCost * (Cardinality(Process) * Full)
    <2>1. Cardinality(Process) \in Nat /\ Full \in Int
        BY FinitenessAssumption, FS_CardinalityType, CapAssumption DEF Full
    <2>. QED
        BY <1>1, <2>1, MaxCostBounds, CapAssumption
<1>4. 2 * good + b <= c /\ a <= b
    BY <1>2, <1>3 DEF Within
<1>5. 2 * good2 + a <= c
    BY <1>4
<1>. QED
    BY <1>3, <1>5 DEF Within

(* Another call takes two from what a process can still spend. *)
LEMMA WithinOneMore ==
    ASSUME NEW good \in Nat, NEW good2 \in Nat, NEW room, NEW room2, NEW p \in Process,
           Within(good, room), good2 <= good + MaxCost, Below(room2, room, Process),
           room2[p] + 2 <= room[p]
    PROVE  Within(good2, room2)
<1>1. /\ Total(room, Process) \in Nat /\ Total(room2, Process) \in Nat
      /\ Total(room2, Process) + 2 <= Total(room, Process)
    BY FinitenessAssumption, TotalLess DEF Below
<1>2. PICK s \in Nat, t \in Nat, k \in Nat :
          s = Total(room, Process) /\ t = Total(room2, Process) /\ k = MaxCost
    BY <1>1, MaxCostBounds
<1>3. k * (t + 2) <= k * s
    BY <1>1, <1>2, Scaled
<1>4. PICK a \in Int, b \in Int, c \in Int :
          /\ a = k * t /\ b = k * s
          /\ c = 2 * Cap + MaxCost * (Cardinality(Process) * Full)
    <2>1. Cardinality(Process) \in Nat /\ Full \in Int
        BY FinitenessAssumption, FS_CardinalityType, CapAssumption DEF Full
    <2>. QED
        BY <1>2, <2>1, MaxCostBounds, CapAssumption
<1>5. k * (t + 2) = a + 2 * k
    BY <1>4
<1>6. 2 * good + b <= c
    BY <1>2, <1>4 DEF Within
<1>7. good2 <= good + k
    BY <1>2
<1>8. a + 2 * k <= b
    BY <1>3, <1>4, <1>5
<1>9. 2 * good2 + a <= c
    BY <1>6, <1>7, <1>8
<1>. QED
    BY <1>2, <1>4, <1>9 DEF Within

(* Until the cap is passed nothing was spent beyond it. *)
LEMMA WithinCap ==
    Within(Cap, [p \in Process |-> Full])
<1> DEFINE all == [p \in Process |-> Full]
<1>1. Full \in Nat
    <2>1. 0 + 0 + 0 <= Concurrency /\ FALSE \in BOOLEAN
        BY CapAssumption
    <2>. QED
        BY <2>1, WeightBounds
<1>2. Total(all, Process) = Cardinality(Process) * Full
    <2>1. \A p \in Process : all[p] = Full
        OBVIOUS
    <2>. HIDE DEF all
    <2>. QED
        BY <1>1, <2>1, FinitenessAssumption, TotalConstant
<1>3. PICK c \in Int : c = MaxCost * (Cardinality(Process) * Full)
    BY <1>1, MaxCostBounds, FinitenessAssumption, FS_CardinalityType
<1>4. 2 * Cap + c <= 2 * Cap + c
    BY CapAssumption
<1>. QED
    BY <1>2, <1>3, <1>4 DEF Within

-----------------------------------------------------------------------------
(* The requests of a process. *)
LEMMA PartCounts ==
    ASSUME NEW E, IsFiniteSet(E), NEW H, NEW N, NEW M,
           H \subseteq E, N \subseteq E, M \subseteq E,
           H \intersect N = {}, H \intersect M = {}, N \intersect M = {}
    PROVE  /\ Cardinality(H) \in Nat /\ Cardinality(N) \in Nat /\ Cardinality(M) \in Nat
           /\ Cardinality(E) \in Nat
           /\ Cardinality(H) + Cardinality(N) + Cardinality(M) <= Cardinality(E)
<1>1. IsFiniteSet(H) /\ IsFiniteSet(N) /\ IsFiniteSet(M)
    BY FS_Subset
<1>2. /\ IsFiniteSet(H \union N)
      /\ Cardinality(H \union N) = Cardinality(H) + Cardinality(N) - Cardinality(H \intersect N)
    BY <1>1, FS_Union
<1>3. PICK U : U = H \union N /\ U \intersect M = {} /\ U \union M \subseteq E
    <2>1. (H \union N) \intersect M = {} /\ (H \union N) \union M \subseteq E
        OBVIOUS
    <2>. QED
        BY <2>1
<1>4. /\ IsFiniteSet(U \union M)
      /\ Cardinality(U \union M) = Cardinality(U) + Cardinality(M) - Cardinality(U \intersect M)
    BY <1>1, <1>2, <1>3, FS_Union
<1>5. Cardinality(U \union M) <= Cardinality(E)
    BY <1>3, FS_Subset
<1>6. Cardinality(H \intersect N) = 0 /\ Cardinality(U \intersect M) = 0
    BY <1>3, FS_EmptySet
<1>7. /\ Cardinality(H) \in Nat /\ Cardinality(N) \in Nat /\ Cardinality(M) \in Nat
      /\ Cardinality(E) \in Nat
    BY <1>1, FS_CardinalityType
<1>8. Cardinality(U) = Cardinality(H) + Cardinality(N)
    BY <1>2, <1>3, <1>6, <1>7
<1>9. Cardinality(U \union M) = Cardinality(U) + Cardinality(M)
    BY <1>4, <1>6, <1>7, <1>8
<1>. QED
    BY <1>5, <1>7, <1>8, <1>9

SlotFacts(p) ==
    /\ Cardinality(Holding(p)) \in Nat /\ Cardinality(Paying(p)) \in Nat
    /\ Cardinality(Popping(p)) \in Nat
    /\ Cardinality(Holding(p)) + Cardinality(Paying(p)) + Cardinality(Popping(p)) <= Concurrency
    /\ Popping(p) # {} => Cardinality(Popping(p)) > 0
    /\ Room[p] = Weight(Cardinality(Holding(p)), Cardinality(Paying(p)),
                        Cardinality(Popping(p)), Outdated(p))
    /\ Room[p] \in Nat /\ Room[p] <= Full /\ (Popping(p) # {} => Room[p] + 2 <= Full)

LEMMA SlotCounts == SlotInv => \A p \in Process : SlotFacts(p)
<1> SUFFICES ASSUME SlotInv, NEW p \in Process PROVE SlotFacts(p)
    OBVIOUS
<1>1. Executing(p) \subseteq Request /\ IsFiniteSet(Executing(p))
    <2>1. Executing(p) \subseteq Request
        BY DEF Executing
    <2>. QED
        BY <2>1, FinitenessAssumption, FS_Subset
<1>2. /\ Holding(p) \subseteq Executing(p) /\ Paying(p) \subseteq Executing(p)
      /\ Popping(p) \subseteq Executing(p)
      /\ Holding(p) \intersect Paying(p) = {} /\ Holding(p) \intersect Popping(p) = {}
      /\ Paying(p) \intersect Popping(p) = {}
    BY DEF Holding, Paying, Popping, Executing, Ended
<1>3. PICK h \in Nat, n \in Nat, m \in Nat :
          /\ h = Cardinality(Holding(p)) /\ n = Cardinality(Paying(p))
          /\ m = Cardinality(Popping(p)) /\ h + n + m <= Concurrency
    <2>1. /\ Cardinality(Holding(p)) \in Nat /\ Cardinality(Paying(p)) \in Nat
          /\ Cardinality(Popping(p)) \in Nat /\ Cardinality(Executing(p)) \in Nat
          /\ Cardinality(Holding(p)) + Cardinality(Paying(p)) + Cardinality(Popping(p))
                <= Cardinality(Executing(p))
        BY <1>1, <1>2, PartCounts
    <2>2. Cardinality(Executing(p)) <= Concurrency
        BY DEF SlotInv
    <2>. QED
        BY <2>1, <2>2, CapAssumption
<1>4. Popping(p) # {} => m > 0
    <2>1. IsFiniteSet(Popping(p))
        BY <1>1, <1>2, FS_Subset
    <2>. QED
        BY <1>3, <2>1, FS_EmptySet
<1>5. Room[p] = Weight(h, n, m, Outdated(p))
    BY <1>3 DEF Room
<1>6. Outdated(p) \in BOOLEAN
    BY DEF Outdated
<1>7. /\ Weight(h, n, m, Outdated(p)) \in Nat
      /\ Weight(h, n, m, Outdated(p)) <= Full
      /\ m > 0 => Weight(h, n, m, Outdated(p)) + 2 <= Full
    BY <1>3, <1>6, WeightBounds
<1>. QED
    BY <1>3, <1>4, <1>5, <1>7 DEF SlotFacts

LEMMA SlotCountsPrimed == SlotInv' => (\A p \in Process : SlotFacts(p))'
BY SlotCounts, PTL

-----------------------------------------------------------------------------
(* Steps.  A step of request r leaves the others where they are.            *)
Moves(r) ==
    /\ \A q \in Request \ {r} : step'[q] = step[q] /\ seen'[q] = seen[q] /\ pos'[q] = pos[q]
    /\ \A p \in Process \ {ProcessOf[r]} : cache'[p] = cache[p]
    /\ booked \subseteq booked' /\ booked' \subseteq booked \union {r}
    /\ r \in booked => pos'[r] = pos[r]

LEMMA StepMoves ==
    ASSUME ChainInv, SlotInv, NEW r \in Request, Execute(r) \/ ExecuteStep(r)
    PROVE  Moves(r)
<1>1. /\ step \in [Request -> LlmStep] /\ seen \in [Request -> Nat] /\ pos \in [Request -> Nat]
      /\ cache \in [Process -> Nat \union {Unknown}]
      /\ step[r] \in {"call", "logError"} => r \notin booked
    BY DEF ChainInv, SlotInv, Unpaid
<1>2. CASE Execute(r)
    BY <1>1, <1>2 DEF Execute, LlmGoto, Moves
<1>3. CASE CheckCap(r)
    BY <1>1, <1>3 DEF CheckCap, LlmGoto, Moves
<1>4. CASE QuerySpend(r)
    BY <1>1, <1>4 DEF QuerySpend, LlmGoto, Moves
<1>5. CASE StowSpend(r)
    BY <1>1, <1>5 DEF StowSpend, LlmGoto, Moves
<1>6. CASE CallProvider(r)
    BY <1>1, <1>6 DEF CallProvider, LlmGoto, Moves
<1>7. CASE LogSuccess(r)
    BY <1>1, <1>7 DEF LogSuccess, LlmGoto, Moves
<1>8. CASE LogError(r)
    BY <1>1, <1>8 DEF LogError, LlmGoto, Moves
<1>9. CASE PopCache(r)
    BY <1>1, <1>9 DEF PopCache, LlmGoto, Moves
<1>. QED
    BY <1>2, <1>3, <1>4, <1>5, <1>6, <1>7, <1>8, <1>9 DEF ExecuteStep

LEMMA SpentSums ==
    ASSUME ChainInv, SlotInv
    PROVE  /\ Priced(pos, booked) /\ Spent \in Nat
           /\ booked \in SUBSET Request /\ Good \in SUBSET booked
           /\ Sum(pos, Good) \in Nat /\ Sum(pos, Good) <= Spent
<1>1. /\ Priced(pos, booked) /\ booked \in SUBSET Request /\ Good \in SUBSET booked
      /\ \A r \in Good : pos[r] = pos[r]
    BY DEF Priced, SlotInv, ChainInv, Good
<1>2. /\ Sum(pos, Good) \in Nat /\ Sum(pos, booked) \in Nat
      /\ Sum(pos, Good) <= Sum(pos, booked)
    BY <1>1, SumOfPart
<1>. QED
    BY <1>1, <1>2, SpentIsSum

LEMMA ExecuteSlotInv ==
    ASSUME ChainInv, SlotInv, NEW r \in Request, Execute(r) \/ ExecuteStep(r)
    PROVE  SlotInv'
<1>1. PICK p \in Process : p = ProcessOf[r]
    BY ProcessAssumption
<1>2. Moves(r)
    BY StepMoves
<1>3. cache' \in [Process -> Nat \union {Unknown}]
    BY <1>1 DEF SlotInv, Execute, ExecuteStep, CheckCap, QuerySpend, StowSpend, CallProvider,
                LogSuccess, LogError, PopCache
<1>4. seen' \in [Request -> Nat]
    BY SpentSums
       DEF SlotInv, Execute, ExecuteStep, CheckCap, QuerySpend, StowSpend, CallProvider,
           LogSuccess, LogError, PopCache
<1>5. \A q \in booked' : pos'[q] \in 1 .. Len(Chain[q])
    <2>1. ASSUME NEW q \in booked PROVE pos'[q] = pos[q] /\ pos[q] \in 1 .. Len(Chain[q])
        BY <1>2 DEF Moves, SlotInv, ChainInv
    <2>2. ASSUME r \in booked', r \notin booked PROVE pos'[r] \in 1 .. Len(Chain[r])
        <3>1. LogSuccess(r)
            BY <2>2 DEF Execute, ExecuteStep, CheckCap, QuerySpend, StowSpend, CallProvider,
                        LogError, PopCache
        <3>2. pos' = pos /\ step[r] = "log"
            BY <3>1 DEF LogSuccess, LlmGoto
        <3>3. pos[r] \in Nat /\ pos[r] >= 1 /\ pos[r] <= Len(Chain[r]) /\ Len(Chain[r]) \in Nat
            BY <3>2, ChainFacts DEF ChainInv
        <3>. QED
            BY <3>2, <3>3
    <2>. QED
        BY <1>2, <2>1, <2>2 DEF Moves
<1>6. ASSUME NEW q \in Process PROVE Cardinality(Executing(q)') <= Concurrency
    <2>1. IsFiniteSet(Executing(q)) /\ Cardinality(Executing(q)) \in Nat
        <3>1. Executing(q) \subseteq Request
            BY DEF Executing
        <3>. QED
            BY <3>1, FinitenessAssumption, FS_Subset, FS_CardinalityType
    <2>2. Cardinality(Executing(q)) <= Concurrency
        BY DEF SlotInv
    <2>3. CASE Execute(r) /\ q = p
        <3>1. step[r] = "idle" /\ Cardinality(Executing(q)) < Concurrency
            BY <1>1, <2>3 DEF Execute, LlmGoto
        <3>2. r \notin Executing(q)
            BY <3>1 DEF Executing
        <3>3. Executing(q)' \subseteq Executing(q) \union {r}
            BY <1>2 DEF Moves, Executing
        <3>4. /\ IsFiniteSet(Executing(q) \union {r})
              /\ Cardinality(Executing(q) \union {r}) = Cardinality(Executing(q)) + 1
            BY <2>1, <3>2, FS_AddElement
        <3>5. /\ Cardinality(Executing(q)') <= Cardinality(Executing(q) \union {r})
              /\ IsFiniteSet(Executing(q)')
            BY <3>3, <3>4, FS_Subset
        <3>6. Cardinality(Executing(q)') \in Nat
            BY <3>5, FS_CardinalityType
        <3>. QED
            BY <2>1, <3>1, <3>4, <3>5, <3>6, CapAssumption
    <2>4. CASE ~(Execute(r) /\ q = p)
        <3>1. q = p => step[r] \notin Ended \union {"idle"}
            BY <2>4 DEF ExecuteStep, CheckCap, QuerySpend, StowSpend, CallProvider,
                        LogSuccess, LogError, PopCache, LlmGoto, Ended
        <3>2. Executing(q)' \subseteq Executing(q)
            BY <1>1, <1>2, <3>1 DEF Moves, Executing
        <3>3. Cardinality(Executing(q)') <= Cardinality(Executing(q)) /\ IsFiniteSet(Executing(q)')
            BY <2>1, <3>2, FS_Subset
        <3>4. Cardinality(Executing(q)') \in Nat
            BY <3>3, FS_CardinalityType
        <3>. QED
            BY <2>1, <2>2, <3>3, <3>4, CapAssumption
    <2>. QED
        BY <2>3, <2>4
<1>. QED
    BY <1>3, <1>4, <1>5, <1>6 DEF SlotInv

(* The cases in which nothing is added to what a process can still spend. *)
LEMMA RoomStays ==
    ASSUME NEW p \in Process, SlotFacts(p), SlotFacts(p)',
           Holding(p)' = Holding(p), Outdated(p)' => Outdated(p),
           \/ Popping(p)' = Popping(p) /\ (Outdated(p) \/ Paying(p)' \subseteq Paying(p))
           \/ Paying(p)' \subseteq Paying(p) /\ ~Outdated(p)'
    PROVE  Room'[p] <= Room[p]
<1>1. PICK h \in Nat, n \in Nat, m \in Nat, o \in BOOLEAN :
          /\ h = Cardinality(Holding(p)) /\ n = Cardinality(Paying(p))
          /\ m = Cardinality(Popping(p)) /\ o = Outdated(p)
    BY DEF SlotFacts, Outdated
<1>2. PICK n2 \in Nat, m2 \in Nat, o2 \in BOOLEAN :
          /\ n2 = Cardinality(Paying(p)') /\ m2 = Cardinality(Popping(p)') /\ o2 = Outdated(p)'
    BY DEF SlotFacts, Outdated
<1>3. h + n + m <= Concurrency /\ Room[p] = Weight(h, n, m, o)
    BY <1>1 DEF SlotFacts
<1>4. h + n2 + m2 <= Concurrency /\ Room'[p] = Weight(h, n2, m2, o2)
    BY <1>1, <1>2 DEF SlotFacts
<1>5. Paying(p)' \subseteq Paying(p) => n2 <= n
    <2>1. IsFiniteSet(Paying(p))
        <3>1. Paying(p) \subseteq Request
            BY DEF Paying
        <3>. QED
            BY <3>1, FinitenessAssumption, FS_Subset
    <2>. QED
        BY <1>1, <1>2, <2>1, FS_Subset
<1>6. /\ o2 => o
      /\ \/ m2 = m /\ (o \/ n2 <= n)
         \/ n2 <= n /\ ~o2
    BY <1>1, <1>2, <1>5
<1>7. Weight(h, n2, m2, o2) <= Weight(h, n, m, o)
    BY <1>3, <1>4, <1>6, WeightStays
<1>. QED
    BY <1>3, <1>4, <1>7

(* After the ledger has passed the cap, a step of an execute call adds nothing *)
(* to what its process can still spend, and a response takes a call from it. *)
LEMMA RoomOfOwn ==
    ASSUME ChainInv, SlotInv, SlotInv', NEW r \in Request, Execute(r) \/ ExecuteStep(r),
           Spent > Cap, NEW p \in Process, p = ProcessOf[r]
    PROVE  /\ Room'[p] <= Room[p]
           /\ step[r] = "log" /\ step'[r] = "pop" => Room'[p] + 2 <= Room[p]
<1>1. SlotFacts(p) /\ SlotFacts(p)'
    <2>1. SlotFacts(p)
        BY SlotCounts
    <2>2. SlotFacts(p)'
        BY SlotCountsPrimed
    <2>. QED
        BY <2>1, <2>2
<1>2. Moves(r) /\ step \in [Request -> LlmStep] /\ seen \in [Request -> Nat]
      /\ cache \in [Process -> Nat \union {Unknown}]
    BY StepMoves DEF ChainInv, SlotInv
<1>3. CASE Execute(r)
    <2>1. step[r] = "idle" /\ step'[r] = "check" /\ cache' = cache
        BY <1>2, <1>3 DEF Execute, LlmGoto
    <2>2. /\ Holding(p)' = Holding(p) /\ Paying(p)' = Paying(p) /\ Popping(p)' = Popping(p)
          /\ Outdated(p)' = Outdated(p)
        BY <1>2, <2>1 DEF Moves, Holding, Paying, Popping, Outdated
    <2>. QED
        BY <1>1, <2>1, <2>2, RoomStays
<1>4. CASE CheckCap(r)
    <2>1. step[r] = "check" /\ step'[r] \in {"query", "capped", "call"} /\ cache' = cache
        BY <1>2, <1>4 DEF CheckCap, LlmGoto, Admit
    <2>2. Holding(p)' = Holding(p) /\ Popping(p)' = Popping(p) /\ Outdated(p)' = Outdated(p)
        BY <1>2, <2>1 DEF Moves, Holding, Popping, Outdated
    <2>3. Outdated(p) \/ Paying(p)' \subseteq Paying(p)
        <3>1. step'[r] = "call" => Outdated(p)
            <4>1. cache[p] \in Nat \union {Unknown}
                BY <1>2
            <4>. QED
                BY <1>2, <1>4, <4>1, CapAssumption DEF CheckCap, LlmGoto, Admit, Outdated, Unknown
        <3>2. step'[r] # "call" => Paying(p)' \subseteq Paying(p)
            BY <1>2, <2>1 DEF Moves, Paying
        <3>. QED
            BY <3>1, <3>2
    <2>. QED
        BY <1>1, <2>1, <2>2, <2>3, RoomStays
<1>5. CASE QuerySpend(r)
    <2>1. /\ step[r] = "query" /\ step'[r] \in {"stow", "error"} /\ cache' = cache
          /\ step'[r] = "stow" => seen'[r] = Spent
        BY <1>2, <1>5 DEF QuerySpend, LlmGoto
    <2>2. step'[r] = "stow" => ~(seen'[r] <= Cap)
        BY <2>1, SpentSums, CapAssumption
    <2>3. /\ Holding(p)' = Holding(p) /\ Paying(p)' = Paying(p) /\ Popping(p)' = Popping(p)
          /\ Outdated(p)' = Outdated(p)
        BY <1>2, <2>1, <2>2 DEF Moves, Holding, Paying, Popping, Outdated
    <2>. QED
        BY <1>1, <2>1, <2>3, RoomStays
<1>6. CASE StowSpend(r)
    <2>1. /\ step[r] = "stow" /\ cache' = [cache EXCEPT ![p] = seen[r]]
          /\ step'[r] = IF seen[r] > Cap THEN "capped" ELSE "call"
          /\ seen[r] \in Nat
        BY <1>2, <1>6 DEF StowSpend, LlmGoto, Admit
    <2>2. Popping(p)' = Popping(p)
        BY <1>2, <2>1 DEF Moves, Popping
    <2>3. CASE seen[r] > Cap
        <3>1. ~(seen[r] <= Cap)
            BY <2>1, <2>3, CapAssumption
        <3>2. cache'[p] = seen[r]
            BY <1>2, <2>1
        <3>3. /\ Holding(p)' = Holding(p) /\ Paying(p)' = Paying(p) /\ ~Outdated(p)'
            BY <1>2, <2>1, <2>3, <3>1, <3>2 DEF Moves, Holding, Paying, Outdated
        <3>. QED
            BY <1>1, <2>1, <2>3, <3>3, RoomStays
    <2>4. CASE ~(seen[r] > Cap)
        <3>1. seen[r] <= Cap
            BY <2>1, <2>4, CapAssumption
        <3>2. r \in Holding(p) /\ Holding(p)' = Holding(p) \ {r} /\ IsFiniteSet(Holding(p))
            <4>1. Holding(p) \subseteq Request
                BY DEF Holding
            <4>. QED
                BY <1>2, <2>1, <2>4, <3>1, <4>1, FinitenessAssumption, FS_Subset DEF Moves, Holding
        <3>3. Outdated(p)' = TRUE
            <4>1. cache'[p] = seen[r] /\ seen[r] # Unknown
                BY <1>2, <2>1 DEF Unknown
            <4>. QED
                BY <3>1, <4>1 DEF Outdated
        <3>4. PICK h \in Nat, n \in Nat, m \in Nat, o \in BOOLEAN, n2 \in Nat :
                  /\ h = Cardinality(Holding(p)) /\ n = Cardinality(Paying(p))
                  /\ m = Cardinality(Popping(p)) /\ o = Outdated(p)
                  /\ n2 = Cardinality(Paying(p)')
            BY <1>1 DEF SlotFacts, Outdated
        <3>5. Cardinality(Holding(p)') = h - 1 /\ h > 0
            <4>1. Cardinality(Holding(p)') = h - 1
                <5>1. Cardinality(Holding(p) \ {r}) = Cardinality(Holding(p)) - 1
                    BY <3>2, FS_RemoveElement
                <5>. QED
                    BY <3>2, <3>4, <5>1
            <4>2. Cardinality(Holding(p)') \in Nat
                BY <1>1 DEF SlotFacts
            <4>. QED
                BY <4>1, <4>2
        <3>6. h + n + m <= Concurrency /\ Room[p] = Weight(h, n, m, o)
            BY <1>1, <3>4 DEF SlotFacts
        <3>7. Room'[p] = Weight(h - 1, n2, m, TRUE)
            BY <1>1, <2>2, <3>3, <3>4, <3>5 DEF SlotFacts
        <3>8. Weight(h - 1, n2, m, TRUE) <= Weight(h, n, m, o)
            BY <3>5, <3>6, WeightOfReading
        <3>. QED
            BY <2>1, <3>6, <3>7, <3>8
    <2>. QED
        BY <2>3, <2>4
<1>7. CASE CallProvider(r)
    <2>1. step[r] = "call" /\ step'[r] \in {"call", "log", "logError", "failed"} /\ cache' = cache
        BY <1>2, <1>7 DEF CallProvider, LlmGoto
    <2>2. /\ Holding(p)' = Holding(p) /\ Popping(p)' = Popping(p) /\ Outdated(p)' = Outdated(p)
          /\ Paying(p)' \subseteq Paying(p)
        BY <1>2, <2>1 DEF Moves, Holding, Paying, Popping, Outdated
    <2>. QED
        BY <1>1, <2>1, <2>2, RoomStays
<1>8. CASE LogSuccess(r)
    <2>1. step[r] = "log" /\ step'[r] \in {"pop", "error"} /\ cache' = cache
        BY <1>2, <1>8 DEF LogSuccess, LlmGoto
    <2>2. Holding(p)' = Holding(p) /\ Outdated(p)' = Outdated(p)
        BY <1>2, <2>1 DEF Moves, Holding, Outdated
    <2>3. CASE step'[r] = "error"
        <3>1. Popping(p)' = Popping(p) /\ Paying(p)' \subseteq Paying(p)
            BY <1>2, <2>1, <2>3 DEF Moves, Paying, Popping
        <3>. QED
            BY <1>1, <2>2, <2>3, <3>1, RoomStays
    <2>4. CASE step'[r] = "pop"
        <3>1. /\ r \in Paying(p) /\ Paying(p)' = Paying(p) \ {r}
              /\ r \notin Popping(p) /\ Popping(p)' = Popping(p) \union {r}
            BY <1>2, <2>1, <2>4 DEF Moves, Paying, Popping
        <3>2. IsFiniteSet(Paying(p)) /\ IsFiniteSet(Popping(p))
            <4>1. Paying(p) \subseteq Request /\ Popping(p) \subseteq Request
                BY DEF Paying, Popping
            <4>. QED
                BY <4>1, FinitenessAssumption, FS_Subset
        <3>3. PICK h \in Nat, n \in Nat, m \in Nat, o \in BOOLEAN :
                  /\ h = Cardinality(Holding(p)) /\ n = Cardinality(Paying(p))
                  /\ m = Cardinality(Popping(p)) /\ o = Outdated(p)
            BY <1>1 DEF SlotFacts, Outdated
        <3>4. Cardinality(Paying(p)') = n - 1 /\ Cardinality(Popping(p)') = m + 1
            <4>1. Cardinality(Paying(p) \ {r}) = n - 1
                BY <3>1, <3>2, <3>3, FS_RemoveElement
            <4>2. Cardinality(Popping(p) \union {r}) = m + 1
                BY <3>1, <3>2, <3>3, FS_AddElement
            <4>. QED
                BY <3>1, <4>1, <4>2
        <3>5. Cardinality(Paying(p)') \in Nat
            BY <1>1 DEF SlotFacts
        <3>6. h + n + m <= Concurrency /\ Room[p] = Weight(h, n, m, o)
            BY <1>1, <3>3 DEF SlotFacts
        <3>7. Room'[p] = Weight(h, n - 1, m + 1, o)
            BY <1>1, <2>2, <3>3, <3>4 DEF SlotFacts
        <3>8. n > 0
            BY <3>4, <3>5
        <3>9. Weight(h, n - 1, m + 1, o) + 2 <= Weight(h, n, m, o)
            BY <3>6, <3>8, WeightOfResponse
        <3>10. Room[p] \in Nat /\ Room'[p] \in Nat
            BY <1>1 DEF SlotFacts
        <3>11. Room'[p] + 2 <= Room[p]
            BY <3>6, <3>7, <3>9
        <3>12. Room'[p] <= Room[p]
            BY <3>10, <3>11
        <3>. QED
            BY <3>11, <3>12
    <2>. QED
        BY <2>1, <2>3, <2>4
<1>9. CASE LogError(r)
    <2>1. step[r] = "logError" /\ step'[r] \in {"call", "error"} /\ cache' = cache
        BY <1>2, <1>9 DEF LogError, LlmGoto
    <2>2. /\ Holding(p)' = Holding(p) /\ Popping(p)' = Popping(p) /\ Outdated(p)' = Outdated(p)
          /\ Paying(p)' \subseteq Paying(p)
        BY <1>2, <2>1 DEF Moves, Holding, Paying, Popping, Outdated
    <2>. QED
        BY <1>1, <2>1, <2>2, RoomStays
<1>10. CASE PopCache(r)
    <2>1. step[r] = "pop" /\ step'[r] = "ok" /\ cache'[p] = Unknown
        BY <1>2, <1>10 DEF PopCache, LlmGoto
    <2>2. Holding(p)' = Holding(p) /\ Paying(p)' \subseteq Paying(p) /\ ~Outdated(p)'
        BY <1>2, <2>1 DEF Moves, Holding, Paying, Outdated
    <2>. QED
        BY <1>1, <2>1, <2>2, RoomStays
<1>. QED
    BY <1>3, <1>4, <1>5, <1>6, <1>7, <1>8, <1>9, <1>10 DEF ExecuteStep

(* The processes that no step is taken in. *)
LEMMA RoomElsewhere ==
    ASSUME NEW p \in Process, SlotFacts(p), SlotFacts(p)',
           \A q \in Request : ProcessOf[q] = p => step'[q] = step[q] /\ seen'[q] = seen[q],
           cache'[p] = cache[p]
    PROVE  Room'[p] <= Room[p]
<1>1. /\ Holding(p)' = Holding(p) /\ Paying(p)' = Paying(p) /\ Popping(p)' = Popping(p)
      /\ Outdated(p)' = Outdated(p)
    BY DEF Holding, Paying, Popping, Outdated
<1>. QED
    BY <1>1, RoomStays

(* Nothing is paid for: what is spent of the ledger may only shrink. *)
LEMMA NothingBooked ==
    ASSUME ChainInv, SlotInv, SlotInv', SpendInv,
           booked' \in SUBSET Request, Good' \subseteq Good,
           \A q \in Good : pos'[q] = pos[q],
           Spent' \in Nat, Spent <= Spent',
           Spent > Cap => \A p \in Process : Room'[p] <= Room[p]
    PROVE  SpendInv'
<1>1. PICK good \in Nat, good2 \in Nat, spent \in Nat, spent2 \in Nat :
          /\ good = Sum(pos, Good) /\ good2 = Sum(pos', Good')
          /\ spent = Spent /\ spent2 = Spent'
          /\ good <= spent /\ good2 <= good
    <2>1. /\ Sum(pos, Good) \in Nat /\ Sum(pos, Good) <= Spent /\ Spent \in Nat
          /\ Priced(pos, booked) /\ booked \in SUBSET Request /\ Good \in SUBSET booked
        BY SpentSums
    <2>2. Good \in SUBSET Request /\ Good' \in SUBSET Good /\ Priced(pos, Good)
          /\ \A q \in Good' : pos'[q] = pos[q]
        BY <2>1 DEF Priced
    <2>3. Sum(pos', Good') \in Nat /\ Sum(pos', Good') <= Sum(pos, Good)
        BY <2>2, SumOfPart
    <2>. QED
        BY <2>1, <2>3
<1>2. \A p \in Process : Room[p] \in Nat /\ Room'[p] \in Nat /\ Room'[p] <= Full /\ Full \in Nat
    <2>1. \A p \in Process : SlotFacts(p)
        BY SlotCounts
    <2>2. (\A p \in Process : SlotFacts(p))'
        BY SlotCountsPrimed
    <2>3. Full \in Int
        BY CapAssumption DEF Full
    <2>. QED
        BY <2>1, <2>2, <2>3 DEF SlotFacts
<1>3. CASE Spent' <= Cap
    BY <1>3 DEF SpendInv
<1>4. CASE ~(Spent' <= Cap)
    <2>1. Within(good2, Room')
        <3>1. CASE Spent <= Cap
            <4>1. good2 <= Cap /\ Cap \in Nat
                BY <1>1, <3>1, CapAssumption
            <4>2. Below(Room', [p \in Process |-> Full], Process)
                BY <1>2 DEF Below
            <4>. QED
                BY <4>1, <4>2, WithinCap, WithinLess
        <3>2. CASE ~(Spent <= Cap)
            <4>1. Within(good, Room)
                BY <1>1, <3>2, SpentIsSum DEF SpendInv
            <4>2. Spent > Cap
                BY <1>1, <3>2, CapAssumption
            <4>3. Below(Room', Room, Process)
                BY <1>2, <4>2 DEF Below
            <4>. QED
                BY <1>1, <4>1, <4>3, WithinLess
        <3>. QED
            BY <3>1, <3>2
    <2>. QED
        BY <1>1, <2>1, SpentIsSumPrimed DEF SpendInv
<1>. QED
    BY <1>3, <1>4

LEMMA OneBooked ==
    ASSUME ChainInv, SlotInv, SlotInv', SpendInv, NEW r \in Request, NEW p \in Process,
           Good' = Good \union {r}, r \notin Good, pos' = pos, Priced(pos, Good \union {r}),
           Popping(p)' # {},
           Spent > Cap => /\ \A q \in Process : Room'[q] <= Room[q]
                          /\ Room'[p] + 2 <= Room[p]
    PROVE  SpendInv'
<1>1. PICK good \in Nat, good2 \in Nat, spent \in Nat :
          /\ good = Sum(pos, Good) /\ good2 = Sum(pos', Good') /\ spent = Spent
          /\ good <= spent /\ good2 <= good + MaxCost
    <2>1. /\ Sum(pos, Good) \in Nat /\ Sum(pos, Good) <= Spent /\ Spent \in Nat
          /\ booked \in SUBSET Request /\ Good \in SUBSET booked
        BY SpentSums
    <2>2. Good \in SUBSET Request /\ r \in Request \ Good
        BY <2>1
    <2>3. /\ Sum(pos, Good \union {r}) \in Nat
          /\ Sum(pos, Good \union {r}) <= Sum(pos, Good) + MaxCost
        BY <2>2, SumOfOneMore
    <2>. QED
        BY <2>1, <2>3
<1>2. \A q \in Process : Room[q] \in Nat /\ Room'[q] \in Nat /\ Room'[q] <= Full /\ Full \in Nat
    <2>1. \A q \in Process : SlotFacts(q)
        BY SlotCounts
    <2>2. (\A q \in Process : SlotFacts(q))'
        BY SlotCountsPrimed
    <2>3. Full \in Int
        BY CapAssumption DEF Full
    <2>. QED
        BY <2>1, <2>2, <2>3 DEF SlotFacts
<1>3. Room'[p] + 2 <= Full
    <2>1. (\A q \in Process : SlotFacts(q))'
        BY SlotCountsPrimed
    <2>. QED
        BY <2>1 DEF SlotFacts
<1>4. Within(good2, Room')
    <2>1. CASE Spent <= Cap
        <3>1. PICK all : all = [q \in Process |-> Full]
            OBVIOUS
        <3>2. Below(all, all, Process) /\ Below(Room', all, Process) /\ Room'[p] + 2 <= all[p]
            BY <1>2, <1>3, <3>1 DEF Below
        <3>3. Within(good, all)
            <4>1. Within(Cap, all) /\ Cap \in Nat /\ good <= Cap
                BY <1>1, <2>1, <3>1, WithinCap, CapAssumption
            <4>. QED
                BY <3>2, <4>1, WithinLess
        <3>. QED
            BY <1>1, <3>2, <3>3, WithinOneMore
    <2>2. CASE ~(Spent <= Cap)
        <3>1. Within(good, Room)
            BY <1>1, <2>2, SpentIsSum DEF SpendInv
        <3>2. Spent > Cap
            BY <1>1, <2>2, CapAssumption
        <3>3. Below(Room', Room, Process) /\ Room'[p] + 2 <= Room[p]
            BY <1>2, <3>2 DEF Below
        <3>. QED
            BY <1>1, <3>1, <3>3, WithinOneMore
    <2>. QED
        BY <2>1, <2>2
<1>. QED
    BY <1>1, <1>4, SpentIsSumPrimed DEF SpendInv

(* No row of the ledger is removed or changed. *)
LEMMA LedgerGrows ==
    ASSUME SlotInv', booked' \in SUBSET Request,
           booked \in SUBSET booked', \A q \in booked : pos'[q] = pos[q]
    PROVE  Spent' \in Nat /\ Spent <= Spent'
<1>1. Priced(pos', booked')
    BY DEF Priced, SlotInv
<1>2. \A q \in booked : pos[q] = pos'[q]
    OBVIOUS
<1>3. Sum(pos', booked') \in Nat /\ Sum(pos, booked) <= Sum(pos', booked')
    BY <1>1, <1>2, SumOfPart
<1>. QED
    BY <1>3, SpentIsSum, SpentIsSumPrimed

LEMMA InitSpendInv == Init => SpendInv
<1> SUFFICES ASSUME Init PROVE SpendInv
    OBVIOUS
<1>1. /\ cache = [p \in Process |-> Unknown] /\ step = [r \in Request |-> "idle"]
      /\ seen = [r \in Request |-> 0] /\ booked = {}
    BY DEF Init, LlmInit
<1>2. \A p \in Process : Cardinality(Executing(p)) <= Concurrency
    <2>1. \A p \in Process : Executing(p) = {}
        BY <1>1 DEF Executing
    <2>. QED
        BY <2>1, FS_EmptySet, CapAssumption
<1>3. SlotInv
    BY <1>1, <1>2 DEF SlotInv
<1>4. Spent = 0
    <2>1. Priced(pos, {}) /\ {} \in SUBSET Request
        BY DEF Priced
    <2>2. Sum(pos, {}) = Total(Prices(pos), {})
        BY <2>1, SumIsTotal
    <2>3. Total(Prices(pos), {}) = 0
        BY FS_EmptySet, TotalConstant
    <2>. QED
        BY <1>1, <2>2, <2>3, SpentIsSum
<1>. QED
    BY <1>3, <1>4, CapAssumption DEF SpendInv

LEMMA ExecuteSpendInv ==
    ASSUME ChainInv, SpendInv, NEW r \in Request, Execute(r) \/ ExecuteStep(r)
    PROVE  SpendInv'
<1>1. SlotInv /\ SlotInv' /\ ChainInv'
    BY ExecuteSlotInv, ExecuteChainInv DEF SpendInv
<1>2. PICK p \in Process : p = ProcessOf[r]
    BY ProcessAssumption
<1>3. Moves(r) /\ booked \in SUBSET Request /\ booked' \in SUBSET Request
    <2>1. Moves(r)
        BY <1>1, StepMoves
    <2>. QED
        BY <1>1, <2>1 DEF ChainInv
<1>4. \A q \in booked : pos'[q] = pos[q]
    BY <1>3 DEF Moves
<1>5. Spent' \in Nat /\ Spent <= Spent'
    <2>1. booked \in SUBSET booked'
        BY <1>3 DEF Moves
    <2>. QED
        BY <1>1, <1>3, <1>4, <2>1, LedgerGrows
<1>6. ASSUME Spent > Cap
      PROVE  /\ \A q \in Process : Room'[q] <= Room[q]
             /\ step[r] = "log" /\ step'[r] = "pop" => Room'[p] + 2 <= Room[p]
    <2>1. /\ Room'[p] <= Room[p]
          /\ step[r] = "log" /\ step'[r] = "pop" => Room'[p] + 2 <= Room[p]
        BY <1>1, <1>2, <1>6, RoomOfOwn
    <2>2. ASSUME NEW q \in Process \ {p} PROVE Room'[q] <= Room[q]
        <3>1. SlotFacts(q)
            BY <1>1, SlotCounts
        <3>2. SlotFacts(q)'
            BY <1>1, SlotCountsPrimed
        <3>3. /\ \A s \in Request : ProcessOf[s] = q => step'[s] = step[s] /\ seen'[s] = seen[s]
              /\ cache'[q] = cache[q]
            BY <1>2, <1>3 DEF Moves
        <3>. QED
            BY <3>1, <3>2, <3>3, RoomElsewhere
    <2>. QED
        BY <2>1, <2>2
<1>7. CASE step[r] = "log" /\ step'[r] = "pop"
    <2>1. LogSuccess(r)
        BY <1>7 DEF Execute, ExecuteStep, CheckCap, QuerySpend, StowSpend, CallProvider,
                    LogError, PopCache, LlmGoto
    <2>2. pos' = pos /\ booked' = booked \union {r} /\ r \notin booked
        BY <1>1, <1>7, <2>1 DEF LogSuccess, LlmGoto, ChainInv, Unpaid
    <2>3. \A q \in Request \ {r} : step'[q] = step[q]
        BY <1>3 DEF Moves
    <2>4. Good' = Good \union {r} /\ r \notin Good
        BY <1>3, <1>7, <2>2, <2>3 DEF Good
    <2>5. Priced(pos, Good \union {r})
        BY <1>1, <2>2 DEF Priced, SlotInv, Good
    <2>6. Popping(p)' # {}
        BY <1>2, <1>7 DEF Popping
    <2>. QED
        BY <1>1, <1>6, <1>7, <2>2, <2>4, <2>5, <2>6, OneBooked
<1>8. CASE ~(step[r] = "log" /\ step'[r] = "pop")
    <2>1. r \in booked => step[r] = "error" \/ step'[r] \in {"ok", "pop", "error"}
        BY <1>1, <1>8 DEF Execute, ExecuteStep, CheckCap, QuerySpend, StowSpend, CallProvider,
                    LogSuccess, LogError, PopCache, LlmGoto, ChainInv, Unpaid
    <2>2. r \in booked' /\ r \notin booked => step'[r] = "error"
        BY <1>1, <1>8 DEF Execute, ExecuteStep, CheckCap, QuerySpend, StowSpend, CallProvider,
                    LogSuccess, LogError, PopCache, LlmGoto, ChainInv
    <2>3. step[r] = "error" => FALSE
        BY DEF Execute, ExecuteStep, CheckCap, QuerySpend, StowSpend, CallProvider,
               LogSuccess, LogError, PopCache, LlmGoto
    <2>4. Good' \subseteq Good
        BY <1>3, <2>1, <2>2, <2>3 DEF Good, Moves
    <2>5. \A q \in Good : pos'[q] = pos[q]
        BY <1>4 DEF Good
    <2>. QED
        BY <1>1, <1>3, <1>5, <1>6, <2>4, <2>5, NothingBooked
<1>. QED
    BY <1>7, <1>8

(* A cached reading that expires or a process that dies lets nothing more   *)
(* through.                                                                 *)
LEMMA ProcessSpendInv ==
    ASSUME ChainInv, SpendInv, NEW p \in Process, CacheExpires(p) \/ ProcessDies(p)
    PROVE  SpendInv'
<1>1. /\ SlotInv /\ pos' = pos /\ booked' = booked /\ booked \in SUBSET Request
      /\ cache' = [cache EXCEPT ![p] = Unknown]
      /\ cache \in [Process -> Nat \union {Unknown}] /\ seen \in [Request -> Nat]
    BY DEF SpendInv, SlotInv, ChainInv, CacheExpires, ProcessDies
<1>2. seen' \in [Request -> Nat]
    BY <1>1 DEF CacheExpires, ProcessDies
<1>3. \A r \in Request :
          \/ step'[r] = step[r] /\ seen'[r] = seen[r]
          \/ ProcessOf[r] = p /\ step'[r] = "error"
    BY <1>1 DEF CacheExpires, ProcessDies, Executing
<1>4. ASSUME NEW q \in Process PROVE Cardinality(Executing(q)') <= Concurrency
    <2>1. Executing(q)' \subseteq Executing(q) /\ IsFiniteSet(Executing(q))
        <3>1. Executing(q) \subseteq Request
            BY DEF Executing
        <3>2. Executing(q)' \subseteq Executing(q)
            BY <1>3 DEF Executing, Ended
        <3>. QED
            BY <3>1, <3>2, FinitenessAssumption, FS_Subset
    <2>2. /\ Cardinality(Executing(q)') <= Cardinality(Executing(q))
          /\ IsFiniteSet(Executing(q)')
        BY <2>1, FS_Subset
    <2>3. Cardinality(Executing(q)') \in Nat /\ Cardinality(Executing(q)) \in Nat
        BY <2>1, <2>2, FS_CardinalityType
    <2>4. Cardinality(Executing(q)) <= Concurrency
        BY <1>1 DEF SlotInv
    <2>. QED
        BY <2>2, <2>3, <2>4, CapAssumption
<1>5. SlotInv'
    BY <1>1, <1>2, <1>4 DEF SlotInv
<1>6. ASSUME NEW q \in Process PROVE Room'[q] <= Room[q]
    <2>1. SlotFacts(q)
        BY <1>1, SlotCounts
    <2>2. SlotFacts(q)'
        BY <1>5, SlotCountsPrimed
    <2>3. CASE q # p
        <3>1. /\ \A s \in Request : ProcessOf[s] = q => step'[s] = step[s] /\ seen'[s] = seen[s]
              /\ cache'[q] = cache[q]
            BY <1>1, <1>3, <2>3
        <3>. QED
            BY <2>1, <2>2, <3>1, RoomElsewhere
    <2>4. CASE q = p /\ CacheExpires(p)
        <3>1. /\ Holding(q)' = Holding(q) /\ Paying(q)' = Paying(q)
              /\ ~Outdated(q)'
            BY <1>1, <2>4 DEF CacheExpires, Holding, Paying, Outdated
        <3>. QED
            BY <2>1, <2>2, <3>1, RoomStays
    <2>5. CASE q = p /\ ProcessDies(p)
        <3>1. Holding(q)' = {} /\ Paying(q)' = {} /\ Popping(q)' = {}
            BY <2>5 DEF ProcessDies, Holding, Paying, Popping, Executing, Ended
        <3>2. ~Outdated(q)'
            BY <1>1, <2>5 DEF Outdated
        <3>3. Room'[q] = Weight(0, 0, 0, FALSE)
            <4>1. PICK o \in BOOLEAN : o = Outdated(q)'
                BY DEF Outdated
            <4>2. Room'[q] = Weight(Cardinality({}), Cardinality({}), Cardinality({}), o)
                BY <2>2, <3>1, <4>1 DEF SlotFacts
            <4>3. o = FALSE /\ Cardinality({}) = 0
                BY <3>2, <4>1, FS_EmptySet
            <4>. QED
                BY <4>2, <4>3
        <3>4. Room'[q] = 0
            BY <3>3, CapAssumption DEF Weight
        <3>. QED
            BY <2>1, <3>4 DEF SlotFacts
    <2>. QED
        BY <2>3, <2>4, <2>5
<1>7. Good' \subseteq Good
    BY <1>1, <1>3 DEF Good
<1>8. Spent' \in Nat /\ Spent <= Spent'
    BY <1>1, <1>5, LedgerGrows
<1>9. \A q \in Good : pos'[q] = pos[q]
    BY <1>1
<1>. QED
    BY <1>1, <1>5, <1>6, <1>7, <1>8, <1>9, NothingBooked

LEMMA StutterSpendInv == SpendInv /\ UNCHANGED llmVars => SpendInv'
<1> SUFFICES ASSUME SpendInv, UNCHANGED llmVars PROVE SpendInv'
    OBVIOUS
<1>1. cache' = cache /\ step' = step /\ seen' = seen /\ pos' = pos /\ booked' = booked
    BY DEF llmVars
<1>2. SlotInv'
    BY <1>1 DEF SpendInv, SlotInv, Executing
<1>3. Good' = Good
    BY <1>1 DEF Good
<1>4. Room' = Room
    BY <1>1 DEF Room, Holding, Paying, Popping, Outdated
<1>5. Spent' = Spent /\ MapThenSumSet(Cost, Good)' = MapThenSumSet(Cost, Good)
    BY <1>1, <1>3, SpentIsSum, SpentIsSumPrimed
<1>. QED
    BY <1>2, <1>4, <1>5 DEF SpendInv, Within

LEMMA NextSpendInv == TaskInv /\ SpendInv /\ [Next]_vars => SpendInv'
<1> SUFFICES ASSUME ChainInv, SpendInv, [Next]_vars PROVE SpendInv'
    BY DEF TaskInv
<1>1. ASSUME NEW r \in Request, Lookup(r) \/ TaskStep(r) PROVE SpendInv'
    <2>1. Execute(r) \/ UNCHANGED llmVars
        BY <1>1 DEF Lookup, TaskStep, Load, Persist
    <2>. QED
        BY <2>1, ExecuteSpendInv, StutterSpendInv
<1>2. ASSUME NEW r \in Request, LlmSteps(r) PROVE SpendInv'
    BY <1>2, ExecuteSpendInv DEF LlmSteps
<1>3. ASSUME NEW p \in Process, CacheExpires(p) \/ ProcessDies(p) PROVE SpendInv'
    BY <1>3, ProcessSpendInv
<1>4. ASSUME NEW s \in {"summary", "overriddenSummary"}, SummaryExpires(s) PROVE SpendInv'
    BY <1>4, StutterSpendInv DEF SummaryExpires
<1>5. CASE TranscriptChanges \/ UNCHANGED vars
    BY <1>5, StutterSpendInv DEF TranscriptChanges, vars
<1>. QED
    BY <1>1, <1>2, <1>3, <1>4, <1>5
       DEF Next, Summarize, ExtractTopics, ComputeSentiment, DiffTranscripts

LEMMA SpendInvariantHolds == Spec => []SpendInv
<1>1. Init => SpendInv
    BY InitSpendInv
<1>2. TaskInv /\ SpendInv /\ [Next]_vars => SpendInv'
    BY NextSpendInv
<1>. QED
    BY <1>1, <1>2, TaskInvariantHolds, PTL DEF Spec

LEMMA FullIsEven == Full = 2 * ((Concurrency * (Concurrency + 1)) \div 2)
<1> DEFINE P == {i \in 0 .. Concurrency : \E k \in Nat : i * (i + 1) = 2 * k}
<1>1. 0 \in P
    <2>1. 0 * (0 + 1) = 2 * 0 /\ 0 \in 0 .. Concurrency
        BY CapAssumption
    <2>. QED
        BY <2>1
<1>2. ASSUME NEW i \in 1 .. Concurrency, i - 1 \in P PROVE i \in P
    <2>1. PICK d \in Nat : i = d + 1 /\ d = i - 1
        BY CapAssumption
    <2>2. PICK k \in Nat : d * (d + 1) = 2 * k
        BY <1>2, <2>1
    <2>3. (d + 1) * (d + 1 + 1) = d * (d + 1) + 2 * (d + 1)
        OBVIOUS
    <2>4. i * (i + 1) = 2 * (k + d + 1) /\ k + d + 1 \in Nat
        BY <2>1, <2>2, <2>3
    <2>5. i \in 0 .. Concurrency
        BY CapAssumption
    <2>. QED
        BY <2>4, <2>5
<1>3. \A i \in 1 .. Concurrency : i - 1 \in P => i \in P
    BY <1>2
<1>4. \A i \in 0 .. Concurrency : i \in P
    <2>. HIDE DEF P
    <2>. QED
        BY <1>1, <1>3, UpTo, CapAssumption
<1>5. PICK k \in Nat : Concurrency * (Concurrency + 1) = 2 * k
    BY <1>4, CapAssumption
<1>6. (2 * k) \div 2 = k
    OBVIOUS
<1>. QED
    BY <1>5, <1>6 DEF Full

(* The ledger stays within the bound on the day's overshoot however many    *)
(* requests there are, whatever they cost, fail or die: the queries and the *)
(* per-process cache of the spend admit no more.                            *)
THEOREM SpendIsBounded == Spec => []SpendBounded
<1>1. ASSUME TaskInv, SpendInv PROVE SpendBounded
    <2>1. PICK good \in Nat, spent \in Nat :
              good = MapThenSumSet(Cost, Good) /\ spent = Spent /\ good <= spent
        BY <1>1, SpentSums, SpentIsSum DEF TaskInv, SpendInv
    <2>2. PICK n \in Nat, k \in Nat, half \in Int :
              /\ n = Cardinality(Process) /\ k = MaxCost
              /\ half = (Concurrency * (Concurrency + 1)) \div 2
              /\ Full = 2 * half
        <3>1. (Concurrency * (Concurrency + 1)) \div 2 \in Int
            BY CapAssumption
        <3>. QED
            BY <3>1, MaxCostBounds, FinitenessAssumption, FS_CardinalityType, FullIsEven
    <2>3. half \in Nat
        <3>1. Full \in Nat
            <4>1. 0 + 0 + 0 <= Concurrency /\ FALSE \in BOOLEAN
                BY CapAssumption
            <4>. QED
                BY <4>1, WeightBounds
        <3>. QED
            BY <2>2, <3>1
    <2>4. Full \in Nat
        BY <2>2, <2>3
    <2>5. PICK c \in Nat : c = n * half /\ n * Full = 2 * c
        <3>1. n * half \in Nat
            BY <2>2, <2>3, Scaled
        <3>2. n * (2 * half) = 2 * (n * half)
            BY <2>2
        <3>. QED
            BY <2>2, <3>1, <3>2
    <2>6. PICK b \in Nat : b = k * c /\ k * (2 * c) = 2 * b
        <3>1. k * c \in Nat
            BY <2>5, Scaled
        <3>2. k * (2 * c) = 2 * (k * c)
            OBVIOUS
        <3>. QED
            BY <3>1, <3>2
    <2>7. n * k * half = b
        <3>1. n * k * half = k * (n * half)
            BY <2>2
        <3>. QED
            BY <2>5, <2>6, <3>1
    <2>8. good <= Cap + b
        <3>1. CASE Spent <= Cap
            BY <2>1, <2>6, <3>1, CapAssumption
        <3>2. CASE ~(Spent <= Cap)
            <4>1. Within(good, Room)
                BY <1>1, <2>1, <3>2 DEF SpendInv
            <4>2. Total(Room, Process) \in Nat
                <5>1. \A p \in Process : Room[p] \in Nat
                    BY <1>1, SlotCounts DEF SpendInv, SlotFacts
                <5>2. \A p \in Process : Room[p] <= Room[p]
                    BY <5>1
                <5>. QED
                    BY <5>1, <5>2, FinitenessAssumption, TotalMonotone
            <4>3. PICK t \in Nat : t = k * Total(Room, Process)
                BY <4>2, Scaled
            <4>4. 2 * good + t <= 2 * Cap + 2 * b
                BY <2>2, <2>5, <2>6, <4>1, <4>3 DEF Within
            <4>. QED
                BY <4>4, CapAssumption
        <3>. QED
            BY <3>1, <3>2
    <2>. QED
        BY <2>1, <2>2, <2>7, <2>8 DEF SpendBounded, Good
<1>. QED
    BY <1>1, TaskInvariantHolds, SpendInvariantHolds, PTL

(* Every variable of the tasks and of their execute calls keeps its type.   *)
THEOREM IntelligenceTypes == Spec => []TypeOK
<1> DEFINE Changes == changes \in 0 .. MaxChanges
<1>1. Init => Changes
    BY KindAssumption DEF Init
<1>2. Changes /\ [Next]_vars => Changes'
    <2> SUFFICES ASSUME changes \in 0 .. MaxChanges, [Next]_vars
                 PROVE  changes' \in 0 .. MaxChanges
        OBVIOUS
    <2>1. CASE TranscriptChanges
        BY <2>1, KindAssumption DEF TranscriptChanges
    <2>2. CASE changes' = changes
        BY <2>2
    <2>3. TranscriptChanges \/ changes' = changes
        BY DEF Next, Summarize, ExtractTopics, ComputeSentiment, DiffTranscripts, Lookup,
               TaskStep, Load, Persist, LlmSteps, SummaryExpires, taskVars, vars
    <2>. QED
        BY <2>1, <2>2, <2>3
<1>3. TaskInv /\ SpendInv /\ Changes => TypeOK
    <2>1. ChainInv /\ SlotInv => LlmTypeOK
        BY DEF ChainInv, SlotInv, LlmTypeOK
    <2>2. StoreInv /\ LlmTypeOK /\ changes \in 0 .. MaxChanges => TypeOK
        BY DEF StoreInv, TypeOK
    <2>. QED
        BY <2>1, <2>2 DEF TaskInv, SpendInv
<1>. HIDE DEF Changes
<1>. QED
    BY <1>1, <1>2, <1>3, TaskInvariantHolds, SpendInvariantHolds, PTL DEF Spec

=============================================================================
