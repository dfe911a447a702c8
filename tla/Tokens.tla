------------------------------- MODULE Tokens -------------------------------
(***************************************************************************)
(* The tokens table (app/auth.py, app/admin.py) and the start of the       *)
(* uvicorn workers: every worker runs bootstrap_admin_token in its         *)
(* lifespan, under a Postgres advisory lock that belongs to its pooled     *)
(* connection, while the operator creates and revokes tokens with the CLI. *)
(***************************************************************************)
EXTENDS Integers, Sequences, FiniteSets, FiniteSetsExt, SequencesExt

CONSTANTS
    Worker,         \* uvicorn worker processes
    Plain,          \* token plaintexts
    EnvToken,       \* YT_BOOTSTRAP_ADMIN_TOKEN, a member of Plain
    ScopeSets,      \* the scope lists the operator passes to create-token
    MaxCreated,     \* bound on the tokens the operator creates
    MaxRevoked,     \* bound on the tokens the operator revokes
    MaxDeaths,      \* bound on worker deaths
    MaxUnlocked,    \* bound on the bootstraps that go on without the lock
    BootFaults,     \* subset of {"lock", "commit"}
    None            \* no worker

ASSUME EnvAssumption == EnvToken \in Plain
ASSUME TokenBounds ==
    /\ MaxCreated \in Nat
    /\ MaxRevoked \in Nat
    /\ MaxDeaths \in Nat
    /\ MaxUnlocked \in Nat
    /\ BootFaults \subseteq {"lock", "commit"}
ASSUME WorkersAssumption == IsFiniteSet(Worker) /\ None \notin Worker

VARIABLES
    token,      \* the rows, in the order they were committed; a row's id is its place
    boot,       \* boot[w]: where w is in its lifespan
    advisory,   \* the worker whose connection holds _BOOTSTRAP_ADMIN_LOCK_ID, or None
    unlocked,   \* how many bootstraps went on without the lock (history)
    deaths

tokenVars == <<token, boot, advisory, unlocked, deaths>>

Scope == {"admin", "read", "batch", "summarize", "intelligence", "monitor"}
AdminScopes == Scope

(* create-token rejects every other scope. *)
ASSUME ScopesAssumption == ScopeSets \subseteq SUBSET Scope

(* The operator's rows, a first bootstrap row, and one for each revocation
   and each bootstrap without the lock. *)
MaxToken == MaxCreated + 1 + MaxRevoked + MaxUnlocked
Row == [plain : Plain, scopes : SUBSET Scope, live : BOOLEAN]
Boot == {"waiting", "check", "insert", "unlock", "serving"}

TokensTypeOK ==
    /\ token \in Seq(Row)
    /\ Len(token) <= MaxToken
    /\ boot \in [Worker -> Boot]
    /\ advisory \in Worker \union {None}
    /\ unlocked \in 0 .. MaxUnlocked
    /\ deaths \in 0 .. MaxDeaths

TokensInit ==
    /\ token = <<>>
    /\ boot = [w \in Worker |-> "waiting"]
    /\ advisory = None
    /\ unlocked = 0
    /\ deaths = 0

(* select(Token).where(revoked_at IS NULL) *)
LiveRows == {i \in DOMAIN token : token[i].live}
NewRow(plain, scopes) == [plain |-> plain, scopes |-> scopes, live |-> TRUE]

BootGoto(w, from, to) ==
    /\ boot[w] = from
    /\ boot' = [boot EXCEPT ![w] = to]

-----------------------------------------------------------------------------
(* bootstrap_admin_token, with YT_BOOTSTRAP_ADMIN_TOKEN set. *)
(* Mutant: the SELECT runs without waiting for the lock. *)
LockUnheld(w) ==
    /\ BootGoto(w, "waiting", "check")
    /\ advisory' = w
    /\ UNCHANGED <<token, unlocked, deaths>>

(* pg_advisory_lock blocks until no other connection holds the key. *)
Lock(w) ==
    /\ advisory = None
    /\ LockUnheld(w)

(* "degrade gracefully if lock unavailable": the SELECT is sent all the same.
   In a transaction that the failed statement aborted it fails too, and lifespan
   logs bootstrap_admin_token_failed.  If there was no connection yet it opens
   one, and the SELECT and the INSERT run without the lock. *)
LockFails(w) ==
    /\ "lock" \in BootFaults
    /\ \/ BootGoto(w, "waiting", "serving") /\ UNCHANGED unlocked
       \/ /\ unlocked < MaxUnlocked
          /\ BootGoto(w, "waiting", "check")
          /\ unlocked' = unlocked + 1
    /\ UNCHANGED <<token, advisory, deaths>>

Check(w) ==
    /\ IF \E i \in LiveRows : "admin" \in token[i].scopes
       THEN BootGoto(w, "check", "unlock")
       ELSE BootGoto(w, "check", "insert")
    /\ UNCHANGED <<token, advisory, unlocked, deaths>>

InsertAdmin(w) ==
    /\ BootGoto(w, "insert", "unlock")
    /\ token' = Append(token, NewRow(EnvToken, AdminScopes))
    /\ UNCHANGED <<advisory, unlocked, deaths>>

(* Mutant: the error leaves the lifespan and the worker exits. *)
InsertFailsFatal(w) ==
    /\ "commit" \in BootFaults
    /\ BootGoto(w, "insert", "waiting")
    /\ advisory' = IF advisory = w THEN None ELSE advisory
    /\ UNCHANGED <<token, unlocked, deaths>>

(* The commit raises; the unlock of the finally clause raises in the session
   that has to be rolled back first and is swallowed.  The connection goes back
   to the pool of the worker with the lock it holds. *)
InsertFails(w) ==
    /\ "commit" \in BootFaults
    /\ BootGoto(w, "insert", "serving")
    /\ UNCHANGED <<token, advisory, unlocked, deaths>>

(* The finally clause; without the lock it sends nothing. *)
Unlock(w) ==
    /\ BootGoto(w, "unlock", "serving")
    /\ advisory' = IF advisory = w THEN None ELSE advisory
    /\ UNCHANGED <<token, unlocked, deaths>>

Proceed(w) ==
    \/ Lock(w)
    \/ Check(w)
    \/ InsertAdmin(w)
    \/ InsertFails(w)
    \/ Unlock(w)

Bootstrap(w) == Proceed(w) \/ LockFails(w)

(* The process dies and is started again; Postgres drops its connections. *)
WorkerDies(w) ==
    /\ deaths < MaxDeaths
    /\ boot' = [boot EXCEPT ![w] = "waiting"]
    /\ advisory' = IF advisory = w THEN None ELSE advisory
    /\ deaths' = deaths + 1
    /\ UNCHANGED <<token, unlocked>>

-----------------------------------------------------------------------------
(* The admin CLI, a process of its own. *)
CreateToken ==
    /\ Cardinality({i \in DOMAIN token : token[i].plain # EnvToken}) < MaxCreated
    /\ \E plain \in Plain \ {EnvToken}, scopes \in ScopeSets :
          /\ ~ \E i \in DOMAIN token : token[i].plain = plain
          /\ token' = Append(token, NewRow(plain, scopes))
    /\ UNCHANGED <<boot, advisory, unlocked, deaths>>

(* Revoking a revoked token changes nothing and reports success. *)
RevokeToken ==
    /\ Cardinality(DOMAIN token \ LiveRows) < MaxRevoked
    /\ \E i \in LiveRows : token' = [token EXCEPT ![i].live = FALSE]
    /\ UNCHANGED <<boot, advisory, unlocked, deaths>>

Admin == CreateToken \/ RevokeToken

-----------------------------------------------------------------------------
(***************************************************************************)
(* Properties.                                                             *)
(***************************************************************************)
(* Only a bootstrap that went on without the lock adds a second live row of the
   environment's token, one each: under the lock, which spans the SELECT and the
   INSERT (auth.py:225-230), nobody does, whoever holds it dies, fails or is
   overtaken, and whatever the operator revokes and creates meanwhile. *)
BootstrapRows == {i \in LiveRows : token[i].plain = EnvToken}
TwinsAreUnlocked == Cardinality(BootstrapRows) <= 1 + unlocked

(* "Never block startup on it" (main.py:110): every worker comes to serve, unless
   it waits for the lock that a failed INSERT left to the pooled connection of a
   worker that serves by now. *)
WorkersServe ==
    []<>(\A w \in Worker :
            \/ boot[w] = "serving"
            \/ boot[w] = "waiting" /\ advisory \in {v \in Worker : boot[v] = "serving"})

-----------------------------------------------------------------------------
(***************************************************************************)
(* What the comments say and the code does not do.                         *)
(***************************************************************************)
(* "two workers starting concurrently cannot both insert an admin row"
   (auth.py:225-226): one of them may go on without the lock. *)
OneBootstrapToken == Cardinality(BootstrapRows) <= 1

(* "The bootstrap path runs exactly once over the lifetime of the database"
   (auth.py:218-219): the environment's token is inserted once. *)
BootstrapOnce == Cardinality({i \in DOMAIN token : token[i].plain = EnvToken}) <= 1

(* "never block startup on it" (main.py:110), without the exemption. *)
StartupNeverBlocks == []<>(\A w \in Worker : boot[w] = "serving")
=============================================================================
