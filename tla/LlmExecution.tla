---------------------------- MODULE LlmExecution ----------------------------
(***************************************************************************)
(* execute of app/llm/fallback.py: the daily cost cap with its per-process *)
(* cache, the provider chain of app/llm/routing.py and the ledger          *)
(* llm_call_log.  Every await is a step of its own, so the requests of a   *)
(* process interleave between reading the spend, caching it and popping    *)
(* the cache.  The behaviour is that of one UTC day.                       *)
(***************************************************************************)
EXTENDS Integers, Sequences, FiniteSets, FiniteSetsExt

CONSTANTS
    Request,        \* one execute call each
    Process,        \* uvicorn workers, each with its own _cost_cache
    ProcessOf,      \* ProcessOf[r]: the process that serves r
    Entry,          \* "provider/model" entries
    Chain,          \* Chain[r]: the entries to try; an override is a chain of one
    Usable,         \* the entries that parse and whose provider has an API key
    CostOf,         \* CostOf[e]: what compute_cost makes of one call
    Cap,            \* max_daily_llm_cost_usd
    Concurrency,    \* how many requests of one process are in execute at once
    LlmFaults       \* subset of {"db", "crash"}

ASSUME ProcessAssumption == ProcessOf \in [Request -> Process]
ASSUME ChainAssumption ==
    /\ Chain \in [Request -> Seq(Entry)]
    /\ Usable \subseteq Entry
    /\ CostOf \in [Entry -> Nat]
ASSUME FinitenessAssumption ==
    IsFiniteSet(Request) /\ IsFiniteSet(Process) /\ IsFiniteSet(Entry) /\ Entry # {}
ASSUME CapAssumption == Cap \in Nat /\ Concurrency \in Nat \ {0}
ASSUME LlmFaultsAssumption == LlmFaults \subseteq {"db", "crash"}

Unknown == -1       \* no cached spend, or one older than the cache's TTL

VARIABLES
    cache,      \* cache[p]: _cost_cache[today] while it is valid, or Unknown
    step,       \* step[r]: where the execute call of r stands
    seen,       \* seen[r]: the spend r has read from the ledger
    pos,        \* pos[r]: the entry of its chain it is at
    booked      \* requests whose successful call has its row in llm_call_log

llmVars == <<cache, step, seen, pos, booked>>

Ended == {"ok", "capped", "failed", "error"}
LlmStep == {"idle", "check", "query", "stow", "call", "log", "logError", "pop"}
           \union Ended

LlmTypeOK ==
    /\ cache \in [Process -> Nat \union {Unknown}]
    /\ step \in [Request -> LlmStep]
    /\ seen \in [Request -> Nat]
    /\ \A r \in Request : pos[r] \in 1 .. Len(Chain[r]) + 1
    /\ booked \subseteq Request

LlmInit ==
    /\ cache = [p \in Process |-> Unknown]
    /\ step = [r \in Request |-> "idle"]
    /\ seen = [r \in Request |-> 0]
    /\ pos = [r \in Request |-> 1]
    /\ booked = {}

(* The call a request made last; failed calls are logged with cost 0. *)
Current(r) == Chain[r][pos[r]]
Cost(r) == CostOf[Current(r)]
Spent == MapThenSumSet(Cost, booked)

Executing(p) == {r \in Request : ProcessOf[r] = p /\ step[r] \notin Ended \union {"idle"}}

LlmGoto(r, from, to) ==
    /\ step[r] = from
    /\ step' = [step EXCEPT ![r] = to]

Admit(r, spent) == IF spent > Cap THEN "capped" ELSE "call"

-----------------------------------------------------------------------------
Execute(r) ==
    /\ Cardinality(Executing(ProcessOf[r])) < Concurrency
    /\ LlmGoto(r, "idle", "check")
    /\ UNCHANGED <<cache, seen, pos, booked>>

(* _check_daily_cost_cap with a valid cache entry, or the start of a query. *)
CheckCap(r) ==
    LET known == cache[ProcessOf[r]] IN
    /\ LlmGoto(r, "check", IF known = Unknown THEN "query" ELSE Admit(r, known))
    /\ UNCHANGED <<cache, seen, pos, booked>>

(* _query_today_spend, at the database. *)
QuerySpend(r) ==
    /\ \/ LlmGoto(r, "query", "stow") /\ seen' = [seen EXCEPT ![r] = Spent]
       \/ "db" \in LlmFaults /\ LlmGoto(r, "query", "error") /\ UNCHANGED seen
    /\ UNCHANGED <<cache, pos, booked>>

(* The coroutine resumes and caches what it read, however old by now. *)
StowSpend(r) ==
    /\ LlmGoto(r, "stow", Admit(r, seen[r]))
    /\ cache' = [cache EXCEPT ![ProcessOf[r]] = seen[r]]
    /\ seen' = [seen EXCEPT ![r] = 0]
    /\ UNCHANGED <<pos, booked>>

(* One turn of the chain: an unusable entry is skipped, a call answers or   *)
(* raises, and the end of the chain is LLMFailedError.                      *)
CallProvider(r) ==
    /\ \/ /\ pos[r] <= Len(Chain[r])
          /\ Current(r) \notin Usable
          /\ step[r] = "call"
          /\ pos' = [pos EXCEPT ![r] = @ + 1]
          /\ UNCHANGED step
       \/ /\ pos[r] <= Len(Chain[r])
          /\ Current(r) \in Usable
          /\ LlmGoto(r, "call", "log") \/ LlmGoto(r, "call", "logError")
          /\ UNCHANGED pos
       \/ /\ pos[r] > Len(Chain[r])
          /\ LlmGoto(r, "call", "failed")
          /\ UNCHANGED pos
    /\ UNCHANGED <<cache, seen, booked>>

(* _log_call after a success, in a session of its own.  If it raises, the   *)
(* request fails although the call was paid for.                            *)
LogSuccess(r) ==
    /\ \/ LlmGoto(r, "log", "pop") /\ booked' = booked \union {r}
       \/ /\ "db" \in LlmFaults
          /\ LlmGoto(r, "log", "error")
          /\ booked' \in {booked, booked \union {r}}
    /\ UNCHANGED <<cache, seen, pos>>

(* Mutant: the entry that failed is tried again. *)
LogErrorStaying(r) ==
    /\ LlmGoto(r, "logError", "call")
    /\ UNCHANGED <<cache, seen, pos, booked>>

(* _log_call after a failure; if it raises, the chain is not continued. *)
LogError(r) ==
    /\ \/ LlmGoto(r, "logError", "call") /\ pos' = [pos EXCEPT ![r] = @ + 1]
       \/ "db" \in LlmFaults /\ LlmGoto(r, "logError", "error") /\ UNCHANGED pos
    /\ UNCHANGED <<cache, seen, booked>>

(* Mutant: the cached spend is left to its TTL. *)
PopNothing(r) ==
    /\ LlmGoto(r, "pop", "ok")
    /\ UNCHANGED <<cache, seen, pos, booked>>

(* The cache entry is dropped and the response returned. *)
PopCache(r) ==
    /\ LlmGoto(r, "pop", "ok")
    /\ cache' = [cache EXCEPT ![ProcessOf[r]] = Unknown]
    /\ UNCHANGED <<seen, pos, booked>>

ExecuteStep(r) ==
    \/ CheckCap(r) \/ QuerySpend(r) \/ StowSpend(r) \/ CallProvider(r)
    \/ LogSuccess(r) \/ LogError(r) \/ PopCache(r)

(* _COST_CACHE_TTL_SECONDS have passed since the entry's query began. *)
CacheExpires(p) ==
    /\ cache[p] # Unknown
    /\ cache' = [cache EXCEPT ![p] = Unknown]
    /\ UNCHANGED <<step, seen, pos, booked>>

(* A process dies: its requests end where they are, its cache is gone. *)
ProcessDies(p) ==
    /\ "crash" \in LlmFaults
    /\ Executing(p) # {}
    /\ step' = [r \in Request |-> IF r \in Executing(p) THEN "error" ELSE step[r]]
    /\ seen' = [r \in Request |-> IF r \in Executing(p) THEN 0 ELSE seen[r]]
    /\ cache' = [cache EXCEPT ![p] = Unknown]
    /\ UNCHANGED <<pos, booked>>

-----------------------------------------------------------------------------
(* Properties *)

MaxCost == Max({CostOf[e] : e \in Entry})

(* The cap holds up to a bound that does not depend on how many requests    *)
(* there are.  When the ledger passes the cap, a process has at most        *)
(* Concurrency requests that are admitted or hold an older reading; each    *)
(* reading, cached late, admits the others in flight until the next pop.    *)
(* Requests that failed while writing the ledger pop nothing: left out.     *)
SpendBounded ==
    MapThenSumSet(Cost, {r \in booked : step[r] # "error"})
        <= Cap + Cardinality(Process) * MaxCost
                    * ((Concurrency * (Concurrency + 1)) \div 2)

(* What JC-034 says and the code does not do: "Worst-case overshoot bounded *)
(* by N_workers x concurrent_calls x max_single_call_cost"                  *)
(* (JUDGEMENT_CALLS.md:172).  A reading cached late admits others, and so   *)
(* does a cache that a failed write of the ledger has not dropped.          *)
OvershootAsDocumented ==
    Spent <= Cap + Cardinality(Process) * Concurrency * MaxCost

(* LLMFailedError is raised only after the last usable entry was tried, and *)
(* a request whose chain has been exhausted has not been paid for.          *)
FailedTriedAll ==
    \A r \in Request : step[r] = "failed" =>
        r \notin booked /\ \A n \in pos[r] .. Len(Chain[r]) : Chain[r][n] \notin Usable
=============================================================================
