---------------------------- MODULE GatewayProofs ---------------------------
(***************************************************************************)
(* Proofs about Tokens and Gateway for every set of workers, tokens,       *)
(* routes, limits and requests, any deaths and any failures of Postgres    *)
(* and Redis: only a bootstrap without the lock doubles the token, no      *)
(* counter lets more through than its limit, and each comes to an expiry.  *)
(***************************************************************************)
EXTENDS Gateway, FiniteLemmas

(***************************************************************************)
(* The tokens.                                                             *)
(***************************************************************************)
(* Bootstraps on their way to an INSERT that do not hold the advisory lock. *)
Unguarded == {w \in Worker : boot[w] \in {"check", "insert"} /\ advisory # w}

(* The live rows of the environment's token, with those that may still come    *)
(* from an unguarded bootstrap.                                                *)
RowsToCome == Cardinality(BootstrapRows) + Cardinality(Unguarded)

(* Each bootstrap that went on without the lock may add a row of its own; one  *)
(* that holds the lock inserts only where it leaves room for the row it adds.  *)
UnlockedCounted ==
    /\ Cardinality(Unguarded) <= unlocked
    /\ RowsToCome <= 1 + unlocked
    /\ \A w \in Worker : boot[w] = "insert" /\ advisory = w => RowsToCome <= unlocked

EnvRowsAreAdmin ==
    \A i \in DOMAIN token : token[i].plain = EnvToken => "admin" \in token[i].scopes

CreatedRows == {i \in DOMAIN token : token[i].plain # EnvToken}
RevokedRows == DOMAIN token \ LiveRows

(* What the bounds of the operator's actions say of the rows. *)
OperatorBounded ==
    Cardinality(CreatedRows) <= MaxCreated /\ Cardinality(RevokedRows) <= MaxRevoked

TokenInv ==
    /\ TokensTypeOK
    /\ UnlockedCounted
    /\ EnvRowsAreAdmin
    /\ OperatorBounded

-----------------------------------------------------------------------------
(***************************************************************************)
(* The requests.                                                           *)
(***************************************************************************)
(* A request has a token row exactly from its authentication on. *)
RowsFollowCalls ==
    \A r \in Request :
        /\ row[r] = 0 => \A k \in 0 .. MaxVideos : call[r][k].stage \in {"idle", "401"}
        /\ row[r] # 0 => call[r][0].stage # "idle"

(* One INCR at a time finds a fresh counter, and until its EXPIRE the counter *)
(* stays.                                                                   *)
OneExpires ==
    \A r, s \in Request : \A j, k \in 0 .. MaxVideos :
        /\ At(r, j, "expire") => count[KeyOf(r, j)] > 0 /\ ttl[KeyOf(r, j)] = 0
        /\ At(r, j, "expire") /\ At(s, k, "expire") /\ KeyOf(r, j) = KeyOf(s, k)
              => r = s /\ j = k

(* An INCR that found 1 will pass, unless the limit lets nothing through: it *)
(* is counted with those that have passed.                                  *)
Passing(key) ==
    {"work", "200", "202", "queued"}
        \union (IF Limit[key[1]] > 0 THEN {"expire"} ELSE {})

Admitted(key, n) ==
    {rk \in Request \X (0 .. MaxVideos) :
        /\ row[rk[1]] # 0
        /\ KeyOf(rk[1], rk[2]) = key
        /\ call[rk[1]][rk[2]].window = n
        /\ call[rk[1]][rk[2]].stage \in Passing(key)}

Counted ==
    \A key \in Key : \A n \in Nat :
        /\ Cardinality(Admitted(key, n)) <= Limit[key[1]]
        /\ n = window[key] => Cardinality(Admitted(key, n)) <= count[key]
        /\ n > window[key] => Admitted(key, n) = {}

GateInv ==
    /\ TypeOK
    /\ TokenInv
    /\ RowsFollowCalls
    /\ OneExpires
    /\ Counted
    /\ CountersExpire

-----------------------------------------------------------------------------
(***************************************************************************)
(* The calls of the requests.                                              *)
(***************************************************************************)
LEMMA VideoFacts ==
    /\ MaxVideos \in Nat
    /\ \A r \in Request : VideosOf[r] \in 0 .. MaxVideos
    /\ \A r \in Request : Video(r) \subseteq 1 .. MaxVideos
    /\ 0 \in 0 .. MaxVideos
<1> DEFINE V == {VideosOf[r] : r \in Request}
<1>1. V \subseteq Nat /\ V # {}
    BY RequestAssumption, RouteAssumption
<1>2. IsFiniteSet(V)
    <2>1. VideosOf \in Surjection(Request, V)
        BY RouteAssumption DEF Surjection
    <2>. QED
        BY <2>1, RequestAssumption, FS_Surjection
<1>3. MaxVideos \in V /\ \A n \in V : n <= MaxVideos
    BY <1>1, <1>2, MaxFacts DEF MaxVideos
<1>4. MaxVideos \in Nat /\ \A r \in Request : VideosOf[r] \in Nat /\ VideosOf[r] <= MaxVideos
    BY <1>1, <1>3
<1>. QED
    BY <1>4 DEF Video

LEMMA FewRequests == IsFiniteSet(Request \X (0 .. MaxVideos))
<1>1. IsFiniteSet(0 .. MaxVideos)
    BY VideoFacts, FS_Interval
<1>. QED
    BY <1>1, RequestAssumption, FS_Product

-----------------------------------------------------------------------------
(***************************************************************************)
(* The tokens table and the start of the workers.                          *)
(***************************************************************************)
(* The rows are the operator's, the revoked ones and the live rows of the  *)
(* environment's token.                                                    *)
LEMMA RowCount ==
    ASSUME NEW t \in Seq(Row),
           Cardinality({i \in DOMAIN t : t[i].plain # EnvToken}) <= MaxCreated,
           Cardinality(DOMAIN t \ {i \in DOMAIN t : t[i].live}) <= MaxRevoked,
           Cardinality({i \in {j \in DOMAIN t : t[j].live} : t[i].plain = EnvToken})
               <= 1 + MaxUnlocked
    PROVE  Len(t) <= MaxToken
<1> DEFINE A == {i \in DOMAIN t : t[i].plain # EnvToken}
           B == DOMAIN t \ {i \in DOMAIN t : t[i].live}
           C == {i \in {j \in DOMAIN t : t[j].live} : t[i].plain = EnvToken}
<1>1. Len(t) \in Nat /\ DOMAIN t = 1 .. Len(t)
    OBVIOUS
<1>2. IsFiniteSet(DOMAIN t) /\ Cardinality(DOMAIN t) = Len(t)
    BY <1>1, FS_Interval
<1>3. IsFiniteSet(A) /\ IsFiniteSet(B) /\ IsFiniteSet(C)
    BY <1>2, FS_Subset
<1>4. DOMAIN t = (A \union B) \union C
    OBVIOUS
<1>5. /\ Cardinality(A) <= MaxCreated /\ Cardinality(B) <= MaxRevoked
      /\ Cardinality(C) <= 1 + MaxUnlocked
    OBVIOUS
<1>. HIDE DEF A, B, C
<1>6. /\ Cardinality(A) \in Nat /\ Cardinality(B) \in Nat /\ Cardinality(C) \in Nat
      /\ IsFiniteSet(A \union B) /\ Cardinality(A \union B) <= Cardinality(A) + Cardinality(B)
      /\ Cardinality(A \union B) \in Nat
    BY <1>3, UnionBound
<1>7. Cardinality(DOMAIN t) <= Cardinality(A \union B) + Cardinality(C)
    BY <1>3, <1>4, <1>6, UnionBound
<1>. QED
    BY <1>1, <1>2, <1>5, <1>6, <1>7, TokenBounds DEF MaxToken

LEMMA FewWorkers ==
    ASSUME NEW S, S \subseteq Worker
    PROVE  IsFiniteSet(S) /\ Cardinality(S) \in Nat
BY WorkersAssumption, FS_Subset, FS_CardinalityType

LEMMA InitTokenInv == TokensInit => TokenInv
<1> SUFFICES ASSUME TokensInit PROVE TokenInv
    OBVIOUS
<1>1. /\ DOMAIN token = {} /\ LiveRows = {} /\ CreatedRows = {} /\ RevokedRows = {}
      /\ BootstrapRows = {} /\ Unguarded = {}
    BY DEF TokensInit, LiveRows, CreatedRows, RevokedRows, BootstrapRows, Unguarded
<1>2. OperatorBounded
    BY <1>1, FS_EmptySet, TokenBounds DEF OperatorBounded
<1>3. TokensTypeOK
    BY TokenBounds DEF TokensInit, TokensTypeOK, Boot, MaxToken
<1>4. UnlockedCounted
    <2>1. Cardinality(BootstrapRows) = 0 /\ Cardinality(Unguarded) = 0 /\ unlocked = 0
        BY <1>1, FS_EmptySet DEF TokensInit
    <2>2. \A w \in Worker : boot[w] # "insert"
        BY DEF TokensInit
    <2>. QED
        BY <2>1, <2>2 DEF UnlockedCounted, RowsToCome
<1>. QED
    BY <1>1, <1>2, <1>3, <1>4 DEF TokenInv, EnvRowsAreAdmin

(* A step of the workers that leaves the rows alone. *)
LEMMA RowsStay ==
    ASSUME TokenInv, UNCHANGED token,
           boot' \in [Worker -> Boot], advisory' \in Worker \union {None},
           deaths' \in 0 .. MaxDeaths, unlocked' \in 0 .. MaxUnlocked, UnlockedCounted'
    PROVE  TokenInv'
BY DEF TokenInv, TokensTypeOK, EnvRowsAreAdmin, OperatorBounded,
       CreatedRows, RevokedRows, LiveRows

LEMMA FiniteRows ==
    ASSUME token \in Seq(Row)
    PROVE  /\ IsFiniteSet(CreatedRows) /\ Cardinality(CreatedRows) \in Nat
           /\ IsFiniteSet(RevokedRows) /\ Cardinality(RevokedRows) \in Nat
           /\ IsFiniteSet(BootstrapRows) /\ Cardinality(BootstrapRows) \in Nat
<1>1. IsFiniteSet(DOMAIN token)
    <2>1. DOMAIN token = 1 .. Len(token) /\ Len(token) \in Nat
        OBVIOUS
    <2>. QED
        BY <2>1, FS_Interval
<1>. QED
    BY <1>1, FS_Subset, FS_CardinalityType
       DEF CreatedRows, RevokedRows, BootstrapRows, LiveRows

(* A step that adds no row of the environment's token and no bootstrap on its  *)
(* way to one.                                                                 *)
LEMMA CountKept ==
    ASSUME TokenInv, UNCHANGED unlocked, Unguarded' \subseteq Unguarded,
           BootstrapRows' \subseteq BootstrapRows,
           \A v \in Worker : boot'[v] = "insert" /\ advisory' = v =>
               boot[v] = "insert" /\ advisory = v
    PROVE  UnlockedCounted'
<1>1. /\ IsFiniteSet(Unguarded) /\ Cardinality(Unguarded) \in Nat
      /\ IsFiniteSet(BootstrapRows) /\ Cardinality(BootstrapRows) \in Nat
    BY FewWorkers, FiniteRows DEF Unguarded, TokenInv, TokensTypeOK
<1>2. /\ Cardinality(Unguarded') <= Cardinality(Unguarded)
      /\ Cardinality(Unguarded') \in Nat
    BY <1>1, FS_Subset, FS_CardinalityType
<1>3. /\ Cardinality(BootstrapRows') <= Cardinality(BootstrapRows)
      /\ Cardinality(BootstrapRows') \in Nat
    BY <1>1, FS_Subset, FS_CardinalityType
<1>4. unlocked \in Nat
    BY TokenBounds DEF TokenInv, TokensTypeOK
<1>5. RowsToCome' <= RowsToCome /\ RowsToCome' \in Nat /\ RowsToCome \in Nat
    BY <1>1, <1>2, <1>3 DEF RowsToCome
<1>. QED
    BY <1>1, <1>2, <1>4, <1>5 DEF TokenInv, UnlockedCounted

(* What is appended is live and the last row. *)
LEMMA NewRowFacts ==
    ASSUME token \in Seq(Row), NEW e \in Row, e.live, token' = Append(token, e)
    PROVE  /\ token' \in Seq(Row)
           /\ Len(token) + 1 \notin DOMAIN token
           /\ DOMAIN token' = DOMAIN token \union {Len(token) + 1}
           /\ \A i \in DOMAIN token : token'[i] = token[i]
           /\ token'[Len(token) + 1] = e
           /\ LiveRows' = LiveRows \union {Len(token) + 1}
           /\ RevokedRows' = RevokedRows
           /\ e.plain = EnvToken => CreatedRows' = CreatedRows
           /\ CreatedRows' \subseteq CreatedRows \union {Len(token) + 1}
           /\ BootstrapRows' \subseteq BootstrapRows \union {Len(token) + 1}
           /\ e.plain # EnvToken => BootstrapRows' = BootstrapRows
<1>1. /\ token' \in Seq(Row)
      /\ Len(token) + 1 \notin DOMAIN token
      /\ DOMAIN token' = DOMAIN token \union {Len(token) + 1}
      /\ \A i \in DOMAIN token : token'[i] = token[i]
      /\ token'[Len(token) + 1] = e
    OBVIOUS
<1>2. LiveRows' = LiveRows \union {Len(token) + 1}
    BY <1>1 DEF LiveRows
<1>3. /\ e.plain = EnvToken => CreatedRows' = CreatedRows
      /\ CreatedRows' \subseteq CreatedRows \union {Len(token) + 1}
    BY <1>1 DEF CreatedRows
<1>4. RevokedRows' = RevokedRows
    BY <1>1, <1>2 DEF RevokedRows
<1>5. /\ BootstrapRows' \subseteq BootstrapRows \union {Len(token) + 1}
      /\ e.plain # EnvToken => BootstrapRows' = BootstrapRows
    BY <1>1, <1>2 DEF BootstrapRows, LiveRows
<1>. QED
    BY <1>1, <1>2, <1>3, <1>4, <1>5

(* The table keeps within its bound when the counts do. *)
LEMMA WithinBound ==
    ASSUME token' \in Seq(Row), OperatorBounded', UnlockedCounted',
           unlocked' \in 0 .. MaxUnlocked
    PROVE  Len(token') <= MaxToken
<1>1. /\ Cardinality(BootstrapRows') \in Nat /\ Cardinality(Unguarded') \in Nat
    <2>1. Unguarded' \subseteq Worker
        BY DEF Unguarded
    <2>2. IsFiniteSet(BootstrapRows')
        <3>1. PICK D : D = DOMAIN token'
            OBVIOUS
        <3>2. D = 1 .. Len(token') /\ Len(token') \in Nat
            BY <3>1
        <3>3. IsFiniteSet(D)
            BY <3>2, FS_Interval
        <3>4. BootstrapRows' \subseteq D
            BY <3>1 DEF BootstrapRows, LiveRows
        <3>. QED
            BY <3>3, <3>4, FS_Subset
    <2>. QED
        BY <2>1, <2>2, FewWorkers, FS_CardinalityType
<1>2. Cardinality(BootstrapRows') <= 1 + MaxUnlocked
    BY <1>1, TokenBounds DEF UnlockedCounted, RowsToCome
<1>3. BootstrapRows' = {i \in {j \in DOMAIN token' : token'[j].live} :
                            token'[i].plain = EnvToken}
    BY DEF BootstrapRows, LiveRows
<1>. QED
    BY <1>2, <1>3, RowCount DEF OperatorBounded, CreatedRows, RevokedRows, LiveRows

LEMMA TokensStay ==
    ASSUME TokenInv, UNCHANGED tokenVars
    PROVE  TokenInv' /\ TokensTypeOK'
<1>1. BootstrapRows' = BootstrapRows /\ Unguarded' = Unguarded
    BY DEF BootstrapRows, LiveRows, Unguarded, tokenVars
<1>2. UnlockedCounted'
    BY <1>1 DEF TokenInv, UnlockedCounted, RowsToCome, tokenVars
<1>. QED
    BY <1>2, RowsStay DEF TokenInv, TokensTypeOK, tokenVars

LEMMA BootstrapTokenInv ==
    ASSUME TokenInv, NEW w \in Worker, Bootstrap(w)
    PROVE  TokenInv'
<1> USE DEF TokenInv, TokensTypeOK, BootGoto
<1>0. /\ IsFiniteSet(Unguarded) /\ Cardinality(Unguarded) \in Nat
      /\ IsFiniteSet(BootstrapRows) /\ Cardinality(BootstrapRows) \in Nat
      /\ unlocked \in Nat
    BY FewWorkers, FiniteRows, TokenBounds DEF Unguarded
<1>1. CASE Lock(w) \/ Unlock(w) \/ InsertFails(w)
    <2>1. boot' \in [Worker -> Boot] /\ advisory' \in Worker \union {None}
        BY <1>1 DEF Lock, LockUnheld, Unlock, InsertFails, Boot
    <2>2. BootstrapRows' = BootstrapRows /\ UNCHANGED <<token, unlocked, deaths>>
        BY <1>1 DEF Lock, LockUnheld, Unlock, InsertFails, BootstrapRows, LiveRows
    <2>3. /\ Unguarded' \subseteq Unguarded
          /\ \A v \in Worker : boot'[v] = "insert" /\ advisory' = v =>
                 boot[v] = "insert" /\ advisory = v
        BY <1>1, WorkersAssumption
           DEF Lock, LockUnheld, Unlock, InsertFails, Unguarded
    <2>4. UnlockedCounted'
        BY <2>2, <2>3, CountKept
    <2>. QED
        BY <2>1, <2>2, <2>4, RowsStay
<1>2. CASE LockFails(w)
    <2>1. boot' \in [Worker -> Boot] /\ UNCHANGED <<token, advisory, deaths>>
        BY <1>2 DEF LockFails, Boot
    <2>2. BootstrapRows' = BootstrapRows
        BY <2>1 DEF BootstrapRows, LiveRows
    <2>3. \A v \in Worker : boot'[v] = "insert" => boot[v] = "insert"
        BY <1>2 DEF LockFails
    <2>4. CASE UNCHANGED unlocked
        <3>1. Unguarded' \subseteq Unguarded
            BY <1>2, <2>1, <2>4, <1>0 DEF LockFails, Unguarded
        <3>2. UnlockedCounted'
            BY <2>1, <2>2, <2>3, <2>4, <3>1, CountKept
        <3>. QED
            BY <2>1, <2>4, <3>2, RowsStay
    <2>5. CASE unlocked < MaxUnlocked /\ unlocked' = unlocked + 1
        <3>1. Unguarded' \subseteq Unguarded \union {w}
            BY <1>2, <2>1 DEF LockFails, Unguarded
        <3>2. /\ Cardinality(Unguarded') \in Nat
              /\ Cardinality(Unguarded') <= Cardinality(Unguarded) + 1
            BY <1>0, <3>1, AddOne
        <3>3. /\ RowsToCome' \in Nat /\ RowsToCome \in Nat
              /\ RowsToCome' <= RowsToCome + 1
            BY <1>0, <2>2, <3>2 DEF RowsToCome
        <3>4. UnlockedCounted'
            BY <1>0, <2>1, <2>3, <2>5, <3>2, <3>3 DEF UnlockedCounted
        <3>5. unlocked' \in 0 .. MaxUnlocked
            BY <1>0, <2>5, TokenBounds
        <3>. QED
            BY <2>1, <3>4, <3>5, RowsStay
    <2>. QED
        BY <1>2, <2>4, <2>5 DEF LockFails
<1>3. CASE Check(w)
    <2>1. /\ boot' \in [Worker -> Boot]
          /\ UNCHANGED <<token, advisory, unlocked, deaths>>
        BY <1>3 DEF Check, Boot
    <2>2. BootstrapRows' = BootstrapRows
        BY <2>1 DEF BootstrapRows, LiveRows
    <2>3. Unguarded' \subseteq Unguarded
        BY <1>3 DEF Check, Unguarded
    <2>4. CASE \A v \in Worker : boot'[v] = "insert" /\ advisory' = v => boot[v] = "insert"
        <3>1. UnlockedCounted'
            BY <2>1, <2>2, <2>3, <2>4, CountKept
        <3>. QED
            BY <2>1, <3>1, RowsStay
    <2>5. CASE boot'[w] = "insert"
        <3>1. ~ \E i \in LiveRows : "admin" \in token[i].scopes
            BY <1>3, <2>5 DEF Check
        <3>2. BootstrapRows = {}
            BY <3>1 DEF BootstrapRows, LiveRows, EnvRowsAreAdmin
        <3>3. Cardinality(BootstrapRows') = 0
            BY <2>2, <3>2, FS_EmptySet
        <3>4. /\ Cardinality(Unguarded') <= Cardinality(Unguarded)
              /\ Cardinality(Unguarded') \in Nat
            BY <1>0, <2>3, FS_Subset, FS_CardinalityType
        <3>5. UnlockedCounted'
            BY <1>0, <2>1, <3>3, <3>4 DEF UnlockedCounted, RowsToCome
        <3>. QED
            BY <2>1, <3>5, RowsStay
    <2>. QED
        BY <1>3, <2>4, <2>5 DEF Check
<1>4. CASE InsertAdmin(w)
    <2> DEFINE e == NewRow(EnvToken, AdminScopes)
    <2>1. e \in Row /\ e.live /\ e.plain = EnvToken /\ "admin" \in e.scopes
        BY EnvAssumption DEF NewRow, Row, AdminScopes, Scope
    <2>. HIDE DEF e
    <2>2. token' = Append(token, e) /\ UNCHANGED <<advisory, unlocked, deaths>>
        BY <1>4 DEF InsertAdmin, e
    <2>3. boot[w] = "insert" /\ boot' = [boot EXCEPT ![w] = "unlock"]
        BY <1>4 DEF InsertAdmin
    <2>4. boot' \in [Worker -> Boot]
        BY <2>3 DEF Boot
    <2>5. EnvRowsAreAdmin'
        BY <2>1, <2>2, NewRowFacts DEF EnvRowsAreAdmin
    <2>6. OperatorBounded'
        BY <2>1, <2>2, NewRowFacts DEF OperatorBounded
    <2>7. /\ Cardinality(BootstrapRows') \in Nat
          /\ Cardinality(BootstrapRows') <= Cardinality(BootstrapRows) + 1
        <3>1. BootstrapRows' \subseteq BootstrapRows \union {Len(token) + 1}
            BY <2>1, <2>2, NewRowFacts
        <3>. QED
            BY <1>0, <3>1, AddOne
    <2>8. UnlockedCounted'
        <3>1. CASE advisory = w
            <4>1. Unguarded' = Unguarded
                BY <2>2, <2>3, <3>1 DEF Unguarded
            <4>2. RowsToCome <= unlocked
                BY <2>3, <3>1 DEF UnlockedCounted
            <4>3. RowsToCome' <= 1 + unlocked
                BY <1>0, <2>7, <4>1, <4>2 DEF RowsToCome
            <4>4. \A v \in Worker : ~(boot'[v] = "insert" /\ advisory' = v)
                BY <2>2, <2>3, <3>1
            <4>. QED
                BY <2>2, <4>1, <4>3, <4>4 DEF UnlockedCounted
        <3>2. CASE advisory # w
            <4>1. w \in Unguarded /\ Unguarded' = Unguarded \ {w}
                BY <2>2, <2>3, <3>2 DEF Unguarded
            <4>2. /\ Cardinality(Unguarded') = Cardinality(Unguarded) - 1
                  /\ Cardinality(Unguarded') \in Nat
                <5>1. IsFiniteSet(Unguarded')
                    BY <1>0, <4>1, FS_Subset
                <5>. QED
                    BY <1>0, <4>1, <5>1, FS_RemoveElement, FS_CardinalityType
            <4>3. /\ RowsToCome' \in Nat /\ RowsToCome \in Nat
                  /\ RowsToCome' <= RowsToCome
                BY <1>0, <2>7, <4>2 DEF RowsToCome
            <4>4. \A v \in Worker : boot'[v] = "insert" => boot[v] = "insert"
                BY <2>3
            <4>. QED
                BY <1>0, <2>2, <4>2, <4>3, <4>4 DEF UnlockedCounted
        <3>. QED
            BY <3>1, <3>2
    <2>9. token' \in Seq(Row)
        BY <2>1, <2>2, NewRowFacts
    <2>10. Len(token') <= MaxToken
        BY <2>2, <2>6, <2>8, <2>9, WithinBound
    <2>. QED
        BY <2>2, <2>4, <2>5, <2>6, <2>8, <2>9, <2>10
<1>. QED
    BY <1>1, <1>2, <1>3, <1>4 DEF Bootstrap, Proceed

LEMMA DeathTokenInv ==
    ASSUME TokenInv, NEW w \in Worker, WorkerDies(w)
    PROVE  TokenInv'
<1> USE DEF TokenInv, TokensTypeOK, WorkerDies
<1>1. boot' \in [Worker -> Boot] /\ advisory' \in Worker \union {None}
    BY DEF Boot
<1>2. deaths' \in 0 .. MaxDeaths
    BY TokenBounds
<1>3. UnlockedCounted'
    <2>1. BootstrapRows' = BootstrapRows
        BY DEF BootstrapRows, LiveRows
    <2>2. /\ Unguarded' \subseteq Unguarded
          /\ \A v \in Worker : boot'[v] = "insert" /\ advisory' = v =>
                 boot[v] = "insert" /\ advisory = v
        BY WorkersAssumption DEF Unguarded
    <2>. QED
        BY <2>1, <2>2, CountKept
<1>. QED
    BY <1>1, <1>2, <1>3, RowsStay

LEMMA AdminTokenInv ==
    ASSUME TokenInv, Admin
    PROVE  TokenInv'
<1> USE DEF TokenInv, TokensTypeOK
<1>1. CASE CreateToken
    <2>1. PICK plain \in Plain \ {EnvToken}, scopes \in ScopeSets :
              token' = Append(token, NewRow(plain, scopes))
        BY <1>1 DEF CreateToken
    <2> DEFINE e == NewRow(plain, scopes)
    <2>2. e \in Row /\ e.live /\ e.plain # EnvToken
        BY ScopesAssumption DEF NewRow, Row
    <2>. HIDE DEF e
    <2>3. token' = Append(token, e) /\ UNCHANGED <<boot, advisory, unlocked, deaths>>
        BY <1>1, <2>1 DEF CreateToken, e
    <2>4. BootstrapRows' = BootstrapRows /\ Unguarded' = Unguarded
        BY <2>2, <2>3, NewRowFacts DEF Unguarded
    <2>5. UnlockedCounted'
        BY <2>3, <2>4, CountKept
    <2>6. EnvRowsAreAdmin'
        BY <2>2, <2>3, NewRowFacts DEF EnvRowsAreAdmin
    <2>7. OperatorBounded'
        <3>1. Cardinality(CreatedRows) < MaxCreated
            BY <1>1 DEF CreateToken, CreatedRows
        <3>2. CreatedRows' \subseteq CreatedRows \union {Len(token) + 1}
            BY <2>2, <2>3, NewRowFacts
        <3>3. IsFiniteSet(CreatedRows) /\ Cardinality(CreatedRows) \in Nat
            BY FiniteRows
        <3>4. /\ Cardinality(CreatedRows') \in Nat
              /\ Cardinality(CreatedRows') <= Cardinality(CreatedRows) + 1
            BY <3>2, <3>3, AddOne
        <3>5. Cardinality(CreatedRows') <= MaxCreated
            BY <3>1, <3>3, <3>4, TokenBounds
        <3>. QED
            BY <2>2, <2>3, <3>5, NewRowFacts DEF OperatorBounded
    <2>8. Len(token') <= MaxToken
        BY <2>2, <2>3, <2>5, <2>7, NewRowFacts, WithinBound
    <2>. QED
        BY <2>2, <2>3, <2>5, <2>6, <2>7, <2>8, NewRowFacts
<1>2. CASE RevokeToken
    <2>1. PICK i \in LiveRows : token' = [token EXCEPT ![i].live = FALSE]
        BY <1>2 DEF RevokeToken
    <2>2. i \in DOMAIN token /\ token[i] \in Row
        BY DEF LiveRows
    <2>3. /\ token' \in Seq(Row) /\ DOMAIN token' = DOMAIN token /\ Len(token') = Len(token)
          /\ \A j \in DOMAIN token : token'[j].plain = token[j].plain
                                     /\ token'[j].scopes = token[j].scopes
                                     /\ (j # i => token'[j] = token[j])
          /\ ~token'[i].live
        <3> DEFINE e == [token[i] EXCEPT !.live = FALSE]
        <3>1. e \in Row /\ e.plain = token[i].plain /\ e.scopes = token[i].scopes /\ ~e.live
            BY <2>2 DEF Row
        <3>2. token' = [token EXCEPT ![i] = e]
            BY <2>1
        <3>. HIDE DEF e
        <3>3. /\ token' \in Seq(Row) /\ DOMAIN token' = DOMAIN token /\ Len(token') = Len(token)
              /\ token'[i] = e /\ \A j \in DOMAIN token : j # i => token'[j] = token[j]
            BY <2>2, <3>1, <3>2
        <3>. QED
            BY <3>1, <3>3
    <2>4. LiveRows' = LiveRows \ {i} /\ CreatedRows' = CreatedRows
        BY <2>3 DEF LiveRows, CreatedRows
    <2>5. UNCHANGED <<boot, advisory, unlocked, deaths>>
        BY <1>2 DEF RevokeToken
    <2>6. EnvRowsAreAdmin'
        BY <2>3 DEF EnvRowsAreAdmin
    <2>7. UnlockedCounted'
        <3>1. BootstrapRows' \subseteq BootstrapRows /\ Unguarded' = Unguarded
            BY <2>3, <2>4, <2>5 DEF BootstrapRows, LiveRows, Unguarded
        <3>. QED
            BY <2>5, <3>1, CountKept
    <2>8. OperatorBounded'
        <3>1. Cardinality(RevokedRows) < MaxRevoked
            BY <1>2 DEF RevokeToken, RevokedRows
        <3>2. RevokedRows' \subseteq RevokedRows \union {i}
            BY <2>3, <2>4 DEF RevokedRows
        <3>3. IsFiniteSet(RevokedRows) /\ Cardinality(RevokedRows) \in Nat
            BY FiniteRows
        <3>4. /\ Cardinality(RevokedRows') \in Nat
              /\ Cardinality(RevokedRows') <= Cardinality(RevokedRows) + 1
            BY <3>2, <3>3, AddOne
        <3>5. Cardinality(RevokedRows') <= MaxRevoked
            BY <3>1, <3>3, <3>4, TokenBounds
        <3>. QED
            BY <2>4, <3>5 DEF OperatorBounded
    <2>. QED
        BY <2>3, <2>5, <2>6, <2>7, <2>8
<1>. QED
    BY <1>1, <1>2 DEF Admin

(* What is counted bounds the live rows of the environment's token. *)
LEMMA TwinsCounted == TokenInv => TwinsAreUnlocked
<1> SUFFICES ASSUME TokenInv PROVE TwinsAreUnlocked
    OBVIOUS
<1>1. /\ Cardinality(Unguarded) \in Nat /\ Cardinality(BootstrapRows) \in Nat
      /\ unlocked \in Nat
    BY FewWorkers, FiniteRows, TokenBounds DEF Unguarded, TokenInv, TokensTypeOK
<1>. QED
    BY <1>1 DEF TokenInv, UnlockedCounted, RowsToCome, TwinsAreUnlocked

-----------------------------------------------------------------------------
(***************************************************************************)
(* The requests and their counters.                                        *)
(***************************************************************************)
LEMMA KeyFacts ==
    ASSUME TypeOK, NEW r \in Request, NEW k \in 0 .. MaxVideos, row[r] # 0
    PROVE  /\ KeyOf(r, k) \in Key
           /\ KeyOf(r, k)[1] \in Category
           /\ KeyOf(r, k)[2] = row[r]
           /\ Limit[KeyOf(r, k)[1]] \in Nat
<1>1. row[r] \in 1 .. MaxToken
    BY DEF TypeOK
<1>2. (IF k = 0 THEN ScopeOf(r) ELSE "whisper") \in Category
    BY DEF ScopeOf, Category
<1>. QED
    BY <1>1, <1>2, LimitAssumption DEF KeyOf, Key

LEMMA MovedFacts ==
    ASSUME TypeOK, NEW r \in Request, NEW k \in 0 .. MaxVideos, NEW to \in Stage,
           call' = Moved(r, k, to)
    PROVE  /\ call' \in [Request -> [0 .. MaxVideos -> Call]]
           /\ \A s \in Request : \A j \in 0 .. MaxVideos :
                 /\ call'[s][j].stage = IF s = r /\ j = k THEN to ELSE call[s][j].stage
                 /\ call'[s][j].window = call[s][j].window
<1>1. call[r][k] \in Call
    BY DEF TypeOK
<1>2. PICK c : c = [call[r][k] EXCEPT !.stage = to]
    OBVIOUS
<1>3. c \in Call /\ c.stage = to /\ c.window = call[r][k].window
    BY <1>1, <1>2 DEF Call
<1>4. /\ call' \in [Request -> [0 .. MaxVideos -> Call]]
      /\ \A s \in Request : \A j \in 0 .. MaxVideos :
            call'[s][j] = IF s = r /\ j = k THEN c ELSE call[s][j]
    <2>1. call \in [Request -> [0 .. MaxVideos -> Call]]
        BY DEF TypeOK
    <2>2. PICK g : g = [call[r] EXCEPT ![k] = c]
        OBVIOUS
    <2>3. /\ g \in [0 .. MaxVideos -> Call]
          /\ \A j \in 0 .. MaxVideos : g[j] = IF j = k THEN c ELSE call[r][j]
        BY <1>3, <2>1, <2>2
    <2>4. call' = [call EXCEPT ![r] = g]
        BY <1>2, <2>2 DEF Moved
    <2>5. /\ call' \in [Request -> [0 .. MaxVideos -> Call]]
          /\ \A s \in Request : call'[s] = IF s = r THEN g ELSE call[s]
        BY <2>1, <2>3, <2>4
    <2>. QED
        BY <2>3, <2>5
<1>5. ASSUME NEW s \in Request, NEW j \in 0 .. MaxVideos
      PROVE  /\ call'[s][j].stage = IF s = r /\ j = k THEN to ELSE call[s][j].stage
             /\ call'[s][j].window = call[s][j].window
    <2>1. CASE s = r /\ j = k
        BY <1>3, <1>4, <2>1
    <2>2. CASE ~(s = r /\ j = k)
        BY <1>4, <2>2
    <2>. QED
        BY <2>1, <2>2
<1>. QED
    BY <1>4, <1>5

(* A step of a request that was authenticated. *)
LEMMA RowsFollow ==
    ASSUME RowsFollowCalls, UNCHANGED row, NEW r \in Request, NEW k \in 0 .. MaxVideos,
           row[r] # 0,
           \A s \in Request : \A j \in 0 .. MaxVideos :
               ~(s = r /\ j = k) => call'[s][j].stage = call[s][j].stage,
           k = 0 => call'[r][k].stage # "idle"
    PROVE  RowsFollowCalls'
BY VideoFacts DEF RowsFollowCalls

(* A request that was authenticated has a row. *)
LEMMA Authenticated ==
    ASSUME RowsFollowCalls, NEW r \in Request, NEW k \in 0 .. MaxVideos,
           call[r][k].stage \notin {"idle", "401"}
    PROVE  row[r] # 0
BY DEF RowsFollowCalls

LEMMA FiniteAdmitted ==
    ASSUME NEW key, NEW n
    PROVE  IsFiniteSet(Admitted(key, n)) /\ Cardinality(Admitted(key, n)) \in Nat
<1>1. Admitted(key, n) \subseteq Request \X (0 .. MaxVideos)
    BY DEF Admitted
<1>. QED
    BY <1>1, FewRequests, FS_Subset, FS_CardinalityType

LEMMA StaysAdmitted ==
    ASSUME UNCHANGED row, NEW key, NEW n, NEW s \in Request, NEW j \in 0 .. MaxVideos,
           call'[s][j] = call[s][j], <<s, j>> \in Admitted(key, n)'
    PROVE  <<s, j>> \in Admitted(key, n)
BY DEF Admitted, KeyOf, ScopeOf

(* Where a step admits nobody, what was counted stays counted. *)
LEMMA FewerAdmitted ==
    ASSUME Counted, TypeOK, NEW key \in Key, NEW n \in Nat,
           Admitted(key, n)' \subseteq Admitted(key, n)
    PROVE  /\ Cardinality(Admitted(key, n)') \in Nat
           /\ Cardinality(Admitted(key, n)') <= Limit[key[1]]
           /\ n = window[key] => Cardinality(Admitted(key, n)') <= count[key]
           /\ n > window[key] => Admitted(key, n)' = {}
<1> DEFINE A == Admitted(key, n)
<1>1. /\ IsFiniteSet(A) /\ Cardinality(A) \in Nat
      /\ Cardinality(A) <= Limit[key[1]] /\ Limit[key[1]] \in Nat
      /\ n = window[key] => Cardinality(A) <= count[key]
      /\ n > window[key] => A = {}
      /\ count[key] \in Nat
    BY FiniteAdmitted, LimitAssumption DEF Counted, Key, TypeOK
<1>2. PICK B : B = Admitted(key, n)'
    OBVIOUS
<1>3. B \subseteq A
    BY <1>2
<1>. HIDE DEF A
<1>4. IsFiniteSet(B) /\ Cardinality(B) <= Cardinality(A)
    BY <1>1, <1>3, FS_Subset
<1>5. Cardinality(B) \in Nat
    BY <1>4, FS_CardinalityType
<1>. QED
    BY <1>1, <1>2, <1>3, <1>4, <1>5

LEMMA NoMoreAdmitted ==
    ASSUME TypeOK, Counted, UNCHANGED window,
           \A key \in Key : count'[key] \in Nat /\ count'[key] >= count[key],
           \A key \in Key : \A n \in Nat : Admitted(key, n)' \subseteq Admitted(key, n)
    PROVE  Counted'
<1> SUFFICES ASSUME NEW key \in Key, NEW n \in Nat
             PROVE  /\ Cardinality(Admitted(key, n)') <= Limit[key[1]]
                    /\ n = window[key] => Cardinality(Admitted(key, n)') <= count'[key]
                    /\ n > window[key] => Admitted(key, n)' = {}
    BY DEF Counted
<1>1. count[key] \in Nat
    BY DEF TypeOK
<1>2. /\ Cardinality(Admitted(key, n)') \in Nat
      /\ Cardinality(Admitted(key, n)') <= Limit[key[1]]
      /\ n = window[key] => Cardinality(Admitted(key, n)') <= count[key]
      /\ n > window[key] => Admitted(key, n)' = {}
    BY FewerAdmitted
<1>. QED
    BY <1>1, <1>2

(* Nobody is admitted when no call comes to a stage that passes. *)
LEMMA NobodyAdmitted ==
    ASSUME UNCHANGED row, NEW key, NEW n,
           \A s \in Request : \A j \in 0 .. MaxVideos :
               row[s] # 0 /\ call'[s][j].stage \in Passing(KeyOf(s, j)) =>
                   /\ call[s][j].stage \in Passing(KeyOf(s, j))
                   /\ call'[s][j].window = call[s][j].window
    PROVE  Admitted(key, n)' \subseteq Admitted(key, n)
BY DEF Admitted, KeyOf, ScopeOf, Passing

(* A step after which no other call has to set an expiry, and those that have *)
(* still find their counter.                                                *)
LEMMA NoMoreExpires ==
    ASSUME OneExpires, UNCHANGED row,
           \A s \in Request : \A j \in 0 .. MaxVideos : At(s, j, "expire")' =>
               /\ At(s, j, "expire")
               /\ count'[KeyOf(s, j)] > 0 /\ ttl'[KeyOf(s, j)] = 0
    PROVE  OneExpires'
BY DEF OneExpires, At, KeyOf, ScopeOf

LEMMA InitGateInv == Init => GateInv
<1> SUFFICES ASSUME Init PROVE GateInv
    OBVIOUS
<1>1. TokenInv
    BY InitTokenInv DEF Init
<1>2. TypeOK
    <2>1. [stage |-> "idle", window |-> 0] \in Call
        BY DEF Call, Stage
    <2>2. 0 \in 0 .. MaxToken /\ 0 \in 0 .. Window
        BY TokenBounds, LimitAssumption DEF MaxToken
    <2>. QED
        BY <1>1, <2>1, <2>2 DEF Init, TypeOK, TokenInv
<1>3. RowsFollowCalls /\ OneExpires
    BY VideoFacts DEF Init, RowsFollowCalls, OneExpires, At
<1>4. Counted
    <2>1. \A key, n : Admitted(key, n) = {}
        BY DEF Init, Admitted
    <2>. QED
        <3> SUFFICES ASSUME NEW key \in Key, NEW n \in Nat
                     PROVE  /\ Cardinality(Admitted(key, n)) <= Limit[key[1]]
                            /\ n = window[key] => Cardinality(Admitted(key, n)) <= count[key]
                            /\ n > window[key] => Admitted(key, n) = {}
            BY DEF Counted
        <3>1. Limit[key[1]] \in Nat /\ count[key] = 0
            BY LimitAssumption DEF Key, Init
        <3>2. Cardinality(Admitted(key, n)) = 0
            BY <2>1, FS_EmptySet
        <3>. QED
            BY <2>1, <3>1, <3>2
<1>5. CountersExpire
    BY DEF Init, CountersExpire
<1>. QED
    BY <1>1, <1>2, <1>3, <1>4, <1>5 DEF GateInv

(* Authentication gives the request its row; none of its videos has started. *)
LEMMA AuthenticateGateInv ==
    ASSUME GateInv, NEW r \in Request, Authenticate(r)
    PROVE  GateInv'
<1> USE DEF GateInv
<1>1. row[r] = 0 /\ \A k \in 0 .. MaxVideos : call[r][k].stage \in {"idle", "401"}
    BY DEF Authenticate, At, RowsFollowCalls, TypeOK
<1>2. UNCHANGED <<token, boot, advisory, unlocked, deaths, count, ttl, window, orphan>>
    BY DEF Authenticate, tokenVars
<1>3. PICK i \in 0 .. MaxToken, to \in {"401", "403", "incr", "400"} :
          /\ call' = Moved(r, 0, to)
          /\ row' = [row EXCEPT ![r] = i]
          /\ i = 0 <=> to = "401"
    <2>1. \A i \in LiveRows : i \in 1 .. MaxToken
        <3>1. DOMAIN token = 1 .. Len(token) /\ Len(token) \in Nat /\ Len(token) <= MaxToken
            BY DEF TypeOK, TokensTypeOK
        <3>. QED
            BY <3>1, TokenBounds DEF LiveRows, MaxToken
    <2>2. row = [row EXCEPT ![r] = 0]
        BY <1>1 DEF TypeOK
    <2>3. 0 \in 0 .. MaxToken
        BY TokenBounds DEF MaxToken
    <2>4. PICK plain \in Plain :
              \/ call' = Moved(r, 0, "401") /\ UNCHANGED row
              \/ \E i \in LiveRows :
                    /\ row' = [row EXCEPT ![r] = i]
                    /\ \E to \in Authorized(r, token[i].scopes) : call' = Moved(r, 0, to)
        BY DEF Authenticate
    <2>5. \A scopes : Authorized(r, scopes) \subseteq {"403", "incr", "400"}
        BY DEF Authorized
    <2>. QED
        BY <2>1, <2>2, <2>3, <2>4, <2>5
<1>4. /\ call' \in [Request -> [0 .. MaxVideos -> Call]]
      /\ \A s \in Request : \A j \in 0 .. MaxVideos :
            /\ call'[s][j].stage = IF s = r /\ j = 0 THEN to ELSE call[s][j].stage
            /\ call'[s][j].window = call[s][j].window
    BY <1>3, VideoFacts, MovedFacts DEF Stage, Answered
<1>5. \A s \in Request : s # r => row'[s] = row[s] /\ \A j : KeyOf(s, j)' = KeyOf(s, j)
    BY <1>3 DEF TypeOK, KeyOf, ScopeOf
<1>6. \A k \in 0 .. MaxVideos : call'[r][k].stage \in {"idle", "401", "403", "incr", "400"}
    BY <1>1, <1>3, <1>4
<1>7. TypeOK' /\ TokenInv'
    <2>1. row' \in [Request -> 0 .. MaxToken]
        BY <1>3 DEF TypeOK
    <2>2. TokensTypeOK' /\ TokenInv'
        BY <1>2, TokensStay DEF tokenVars
    <2>. QED
        BY <1>2, <1>4, <2>1, <2>2 DEF TypeOK
<1>8. RowsFollowCalls'
    <2>1. row'[r] = i
        BY <1>3 DEF TypeOK
    <2>2. \A k \in 0 .. MaxVideos : row'[r] = 0 => call'[r][k].stage \in {"idle", "401"}
        BY <1>1, <1>3, <1>4, <2>1
    <2>3. row'[r] # 0 => call'[r][0].stage # "idle"
        BY <1>3, <1>4, <2>1, VideoFacts
    <2>. QED
        BY <1>4, <1>5, <2>2, <2>3, VideoFacts, ZenonT(40) DEF RowsFollowCalls
<1>9. OneExpires'
    <2>1. \A s \in Request : \A j \in 0 .. MaxVideos :
              At(s, j, "expire")' => s # r /\ At(s, j, "expire")
        BY <1>4, <1>6 DEF At
    <2>. QED
        BY <1>2, <1>5, <2>1 DEF OneExpires
<1>10. Counted'
    <2>1. ASSUME NEW key, NEW n
          PROVE  Admitted(key, n)' \subseteq Admitted(key, n)
        <3>1. ASSUME NEW s \in Request, NEW j \in 0 .. MaxVideos,
                     <<s, j>> \in Admitted(key, n)'
              PROVE  <<s, j>> \in Admitted(key, n)
            <4>1. s # r
                BY <1>6, <3>1 DEF Admitted, Passing
            <4>. QED
                BY <1>4, <1>5, <3>1, <4>1 DEF Admitted, Passing
        <3>. QED
            BY <3>1 DEF Admitted
    <2>2. \A key \in Key : count'[key] \in Nat /\ count'[key] >= count[key]
        BY <1>2 DEF TypeOK
    <2>. QED
        BY <1>2, <2>1, <2>2, NoMoreAdmitted
<1>11. CountersExpire'
    <2>1. \A s \in Request : \A j \in 0 .. MaxVideos :
              At(s, j, "expire") => s # r /\ At(s, j, "expire")'
        BY <1>1, <1>4 DEF At
    <2>. QED
        BY <1>2, <1>5, <2>1 DEF CountersExpire
<1>. QED
    BY <1>7, <1>8, <1>9, <1>10, <1>11

(* Steps that leave the tokens, the rows and the counters alone and bring a  *)
(* call neither to a counter nor past its limit.                            *)
LEMMA QuietGateInv ==
    ASSUME GateInv, NEW r \in Request, NEW k \in 0 .. MaxVideos, NEW to \in Stage,
           row[r] # 0, call' = Moved(r, k, to),
           UNCHANGED <<tokenVars, row, count, ttl, window, orphan>>,
           call[r][k].stage # "expire", to # "expire", k = 0 => to # "idle",
           to \in {"work", "200", "202", "queued"} =>
               call[r][k].stage \in {"work", "200", "202", "queued"}
    PROVE  GateInv'
<1> USE DEF GateInv, tokenVars
<1>1. /\ call' \in [Request -> [0 .. MaxVideos -> Call]]
      /\ \A s \in Request : \A j \in 0 .. MaxVideos :
            /\ call'[s][j].stage = IF s = r /\ j = k THEN to ELSE call[s][j].stage
            /\ call'[s][j].window = call[s][j].window
    BY MovedFacts
<1>2. TypeOK' /\ TokenInv'
    BY <1>1, TokensStay DEF TypeOK
<1>3. RowsFollowCalls'
    BY <1>1, RowsFollow
<1>4. \A s \in Request : \A j \in 0 .. MaxVideos : At(s, j, "expire")' <=> At(s, j, "expire")
    BY <1>1 DEF At
<1>5. OneExpires'
    BY <1>4, NoMoreExpires DEF OneExpires
<1>6. Counted'
    <2>1. \A key, n : Admitted(key, n)' \subseteq Admitted(key, n)
        BY <1>1, NobodyAdmitted DEF Passing
    <2>. QED
        BY <2>1, NoMoreAdmitted DEF TypeOK
<1>7. CountersExpire'
    BY <1>4 DEF CountersExpire, KeyOf, ScopeOf
<1>. QED
    BY <1>2, <1>3, <1>5, <1>6, <1>7

LEMMA DispatchGateInv ==
    ASSUME GateInv, NEW r \in Request, NEW k \in Video(r), Dispatch(r, k)
    PROVE  GateInv'
<1>1. k \in 0 .. MaxVideos /\ k # 0 /\ 0 \in 0 .. MaxVideos
    BY VideoFacts
<1>2. row[r] # 0
    BY <1>1, Authenticated DEF GateInv, Dispatch, At
<1>3. PICK to \in {"cached", "failed", "incr"} : call' = Moved(r, k, to)
    BY DEF Dispatch
<1>4. to \in Stage
    BY DEF Stage, Outcome
<1>. QED
    BY <1>1, <1>2, <1>3, <1>4, QuietGateInv DEF Dispatch, At

LEMMA AnswerGateInv ==
    ASSUME GateInv, NEW r \in Request, Answer(r)
    PROVE  GateInv'
<1>1. 0 \in 0 .. MaxVideos /\ At(r, 0, "work")
    BY VideoFacts DEF Answer
<1>2. row[r] # 0
    BY <1>1, Authenticated DEF GateInv, At
<1>3. Response(r) \in {"200", "202", "429", "500"}
    <2>1. CASE RouteOf[r] # "transcript"
        BY <2>1 DEF Response
    <2>2. CASE RouteOf[r] = "transcript"
        <3>1. 1 \in Video(r)
            BY <2>2, RouteAssumption DEF Video
        <3>2. call[r][1].stage \in Outcome
            BY <3>1 DEF Answer
        <3>. QED
            BY <2>2, <3>2 DEF Response, Outcome
    <2>. QED
        BY <2>1, <2>2
<1>4. Response(r) \in Stage
    BY <1>3 DEF Stage, Answered
<1>5. call' = Moved(r, 0, Response(r))
      /\ UNCHANGED <<tokenVars, row, count, ttl, window, orphan>>
    BY DEF Answer
<1>. QED
    BY <1>1, <1>2, <1>3, <1>4, <1>5, QuietGateInv DEF At

(* INCR counts the call that it admits; one beyond the limit is not admitted. *)
LEMMA IncrGateInv ==
    ASSUME GateInv, NEW r \in Request, NEW k \in 0 .. MaxVideos, Incr(r, k)
    PROVE  GateInv'
<1> USE DEF GateInv, tokenVars
<1>0. PICK key : key = KeyOf(r, k)
    OBVIOUS
<1>1. At(r, k, "incr") /\ UNCHANGED <<tokenVars, row, ttl, window, orphan>>
    BY DEF Incr
<1>2. row[r] # 0 /\ key \in Key /\ Limit[key[1]] \in Nat
    BY <1>0, <1>1, Authenticated, KeyFacts DEF At
<1>3. /\ count' = [count EXCEPT ![key] = @ + 1]
      /\ count' \in [Key -> Nat]
      /\ count[key] \in Nat /\ count'[key] = count[key] + 1
      /\ \A l \in Key : l # key => count'[l] = count[l]
      /\ \A l \in Key : count'[l] >= count[l]
    BY <1>0, <1>2 DEF Incr, TypeOK
<1>4. PICK to : /\ to \in IF count'[key] = 1 THEN {"expire"} ELSE Verdict(r, k, count'[key])
                /\ call' = [call EXCEPT ![r][k] = [stage |-> to, window |-> window[key]]]
    BY <1>0 DEF Incr
<1>5. /\ to \in {"expire", "429", "limited", "queued", "failed", "work", "400"}
      /\ count'[key] = 1 <=> to = "expire"
      /\ to \in {"queued", "work"} => count'[key] <= Limit[key[1]]
    <2>1. \A n : Verdict(r, k, n) \subseteq {"429", "limited", "queued", "failed", "work", "400"}
        BY DEF Verdict, Validated
    <2>2. count'[key] > Limit[key[1]] => Verdict(r, k, count'[key]) \subseteq {"429", "limited"}
        BY <1>0 DEF Verdict
    <2>. QED
        BY <1>2, <1>3, <1>4, <2>1, <2>2
<1>6. window[key] \in Nat
    BY <1>2 DEF TypeOK
<1>7. /\ call' \in [Request -> [0 .. MaxVideos -> Call]]
      /\ \A s \in Request : \A j \in 0 .. MaxVideos :
            call'[s][j] = IF s = r /\ j = k THEN [stage |-> to, window |-> window[key]]
                                            ELSE call[s][j]
    <2> DEFINE c == [stage |-> to, window |-> window[key]]
    <2>1. c \in Call
        BY <1>5, <1>6 DEF Call, Stage, Answered, Outcome
    <2>2. call' = [call EXCEPT ![r][k] = c]
        BY <1>4
    <2>. HIDE DEF c
    <2>3. /\ call' \in [Request -> [0 .. MaxVideos -> Call]]
          /\ \A s \in Request : \A j \in 0 .. MaxVideos :
                call'[s][j] = IF s = r /\ j = k THEN c ELSE call[s][j]
        BY <2>1, <2>2 DEF TypeOK
    <2>. QED
        BY <2>3 DEF c
<1>8. /\ \A s \in Request : \A j \in 0 .. MaxVideos :
            ~(s = r /\ j = k) => call'[s][j] = call[s][j]
      /\ call'[r][k].stage = to /\ call'[r][k].window = window[key]
    BY <1>7
<1>9. TypeOK' /\ TokenInv'
    <2>1. \A l \in Key : count'[l] = 0 => ttl'[l] = 0
        BY <1>1, <1>2, <1>3 DEF TypeOK
    <2>. QED
        BY <1>1, <1>3, <1>7, <2>1, TokensStay DEF TypeOK
<1>10. RowsFollowCalls'
    BY <1>1, <1>2, <1>5, <1>8, RowsFollow
<1>11. OneExpires'
    <2>1. \A s \in Request : \A j \in 0 .. MaxVideos : At(s, j, "expire") =>
              KeyOf(s, j) \in Key /\ count[KeyOf(s, j)] \in Nat /\ count[KeyOf(s, j)] > 0
        BY Authenticated, KeyFacts DEF At, OneExpires, TypeOK
    <2>2. CASE to # "expire"
        <3>1. \A s \in Request : \A j \in 0 .. MaxVideos : At(s, j, "expire")' =>
                  /\ At(s, j, "expire")
                  /\ count'[KeyOf(s, j)] > 0 /\ ttl'[KeyOf(s, j)] = 0
            BY <1>1, <1>3, <1>8, <2>1, <2>2 DEF At, OneExpires
        <3>. QED
            BY <1>1, <3>1, NoMoreExpires
    <2>3. CASE to = "expire"
        <3>1. count[key] = 0 /\ ttl[key] = 0
            BY <1>2, <1>3, <1>5, <2>3 DEF TypeOK
        <3>2. \A s \in Request : \A j \in 0 .. MaxVideos :
                  /\ At(s, j, "expire") => KeyOf(s, j) # key
                  /\ At(s, j, "expire")' => At(s, j, "expire") \/ (s = r /\ j = k)
            BY <1>8, <2>1, <3>1 DEF At
        <3>3. \A s \in Request : \A j \in 0 .. MaxVideos :
                  KeyOf(s, j)' = KeyOf(s, j)
            BY <1>1 DEF KeyOf, ScopeOf
        <3>4. ASSUME NEW s \in Request, NEW j \in 0 .. MaxVideos, At(s, j, "expire")'
              PROVE  count'[KeyOf(s, j)] > 0 /\ ttl'[KeyOf(s, j)] = 0
            <4>1. CASE s = r /\ j = k
                BY <1>0, <1>1, <1>3, <3>1, <4>1
            <4>2. CASE At(s, j, "expire")
                BY <1>1, <1>3, <2>1, <3>2, <4>2 DEF OneExpires
            <4>. QED
                BY <3>2, <3>4, <4>1, <4>2
        <3>5. ASSUME NEW s \in Request, NEW j \in 0 .. MaxVideos, At(s, j, "expire")',
                     NEW t \in Request, NEW i \in 0 .. MaxVideos, At(t, i, "expire")',
                     KeyOf(s, j) = KeyOf(t, i)
              PROVE  s = t /\ j = i
            BY <1>0, <3>2, <3>5 DEF OneExpires
        <3>. QED
            BY <3>3, <3>4, <3>5 DEF OneExpires
    <2>. QED
        BY <2>2, <2>3
<1>12. Counted'
    <2>1. ASSUME NEW l, NEW n, to \notin Passing(l) \/ l # key \/ n # window[key]
          PROVE  Admitted(l, n)' \subseteq Admitted(l, n)
        <3>1. ASSUME NEW s \in Request, NEW j \in 0 .. MaxVideos, <<s, j>> \in Admitted(l, n)'
              PROVE  <<s, j>> \in Admitted(l, n)
            <4>1. ~(s = r /\ j = k)
                BY <1>0, <1>1, <1>8, <2>1, <3>1 DEF Admitted, KeyOf, ScopeOf
            <4>. QED
                BY <1>1, <1>8, <3>1, <4>1 DEF Admitted, KeyOf, ScopeOf
        <3>. QED
            BY <3>1 DEF Admitted
    <2>2. CASE to \notin Passing(key)
        BY <1>1, <1>3, <2>1, <2>2, NoMoreAdmitted
    <2>3. CASE to \in Passing(key)
        <3>1. PICK n : n = window[key]
            OBVIOUS
        <3>2. PICK A : A = Admitted(key, n)
            OBVIOUS
        <3>3. PICK B : B = Admitted(key, n)'
            OBVIOUS
        <3>4. B \subseteq A \union {<<r, k>>}
            <4>1. ASSUME NEW s \in Request, NEW j \in 0 .. MaxVideos, <<s, j>> \in B,
                         ~(s = r /\ j = k)
                  PROVE  <<s, j>> \in A
                <5>1. call'[s][j] = call[s][j]
                    BY <1>8, <4>1
                <5>2. <<s, j>> \in Admitted(key, n)
                    <6>1. row' = row /\ <<s, j>> \in Admitted(key, n)'
                        BY <1>1, <3>3, <4>1
                    <6>. QED
                        BY <4>1, <5>1, <6>1, StaysAdmitted
                <5>. QED
                    BY <3>2, <5>2
            <4>2. B \subseteq Request \X (0 .. MaxVideos)
                BY <3>3 DEF Admitted
            <4>3. ASSUME NEW x \in B PROVE x \in A \union {<<r, k>>}
                <5>1. PICK s \in Request, j \in 0 .. MaxVideos : x = <<s, j>>
                    BY <4>2
                <5>. QED
                    BY <4>1, <4>3, <5>1
            <4>4. \A x \in B : x \in A \union {<<r, k>>}
                BY <4>3
            <4>. QED
                BY <4>4
        <3>5. IsFiniteSet(A) /\ Cardinality(A) \in Nat /\ Cardinality(A) <= count[key]
            <4>1. n \in Nat /\ n = window[key] /\ key \in Key
                BY <1>2, <1>6, <3>1
            <4>2. Cardinality(Admitted(key, n)) <= count[key]
                BY <4>1 DEF Counted
            <4>3. IsFiniteSet(Admitted(key, n)) /\ Cardinality(Admitted(key, n)) \in Nat
                BY FiniteAdmitted
            <4>. QED
                BY <3>2, <4>2, <4>3
        <3>6. Cardinality(B) \in Nat /\ Cardinality(B) <= Cardinality(A) + 1
            BY <3>4, <3>5, AddOne
        <3>7. count'[key] <= Limit[key[1]]
            BY <1>2, <1>3, <1>5, <2>3 DEF Passing
        <3>8. Cardinality(B) <= count'[key] /\ Cardinality(B) <= Limit[key[1]]
            BY <1>2, <1>3, <3>5, <3>6, <3>7
        <3>9. ASSUME NEW l \in Key, NEW m \in Nat, l # key \/ m # n
              PROVE  /\ Cardinality(Admitted(l, m)') <= Limit[l[1]]
                     /\ m = window[l] => Cardinality(Admitted(l, m)') <= count[l]
                     /\ m > window[l] => Admitted(l, m)' = {}
            <4>1. Admitted(l, m)' \subseteq Admitted(l, m)
                BY <2>1, <3>1, <3>9
            <4>. QED
                BY <4>1, FewerAdmitted
        <3>10. ASSUME NEW l \in Key, NEW m \in Nat
               PROVE  /\ Cardinality(Admitted(l, m)') <= Limit[l[1]]
                      /\ m = window[l] => Cardinality(Admitted(l, m)') <= count'[l]
                      /\ m > window[l] => Admitted(l, m)' = {}
            <4>1. CASE l # key
                BY <1>3, <3>9, <4>1
            <4>2. CASE l = key /\ m # n
                BY <3>1, <3>9, <4>2
            <4>3. CASE l = key /\ m = n
                <5>1. Admitted(l, m)' = B
                    BY <3>3, <4>3
                <5>. QED
                    BY <1>6, <3>1, <3>8, <4>3, <5>1
            <4>. QED
                BY <4>1, <4>2, <4>3
        <3>. QED
            BY <1>1, <3>10 DEF Counted
    <2>. QED
        BY <2>2, <2>3
<1>13. CountersExpire'
    <2>1. ASSUME NEW l \in Key, count'[l] > 0, ttl'[l] = 0, l \notin orphan
          PROVE  \E s \in Request : \E j \in 0 .. MaxVideos :
                     row'[s] = l[2] /\ At(s, j, "expire")' /\ KeyOf(s, j)' = l
        <3>1. CASE count[l] > 0
            <4>1. PICK s \in Request, j \in 0 .. MaxVideos :
                      row[s] = l[2] /\ At(s, j, "expire") /\ KeyOf(s, j) = l
                BY <1>1, <2>1, <3>1 DEF CountersExpire
            <4>2. At(s, j, "expire")'
                BY <1>1, <1>8, <4>1 DEF At
            <4>. QED
                BY <1>1, <4>1, <4>2 DEF KeyOf, ScopeOf
        <3>2. CASE count[l] = 0
            <4>1. l = key /\ to = "expire"
                BY <1>3, <1>5, <2>1, <3>2
            <4>2. At(r, k, "expire")' /\ row[r] = l[2]
                BY <1>0, <1>2, <1>8, <4>1, KeyFacts DEF At
            <4>. QED
                BY <1>0, <1>1, <4>1, <4>2 DEF KeyOf, ScopeOf
        <3>. QED
            BY <3>1, <3>2 DEF TypeOK
    <2>. QED
        BY <1>1, <2>1 DEF CountersExpire
<1>. QED
    BY <1>9, <1>10, <1>11, <1>12, <1>13

(* EXPIRE keeps what INCR has admitted and gives the counter its expiry. *)
LEMMA ExpireGateInv ==
    ASSUME GateInv, NEW r \in Request, NEW k \in 0 .. MaxVideos, ExpireKey(r, k)
    PROVE  GateInv'
<1> USE DEF GateInv, tokenVars
<1>0. PICK key : key = KeyOf(r, k)
    OBVIOUS
<1>1. At(r, k, "expire") /\ UNCHANGED <<tokenVars, row, count, window, orphan>>
    BY DEF ExpireKey
<1>2. row[r] # 0 /\ key \in Key /\ Limit[key[1]] \in Nat
    BY <1>0, <1>1, Authenticated, KeyFacts DEF At
<1>3. /\ ttl' \in [Key -> 0 .. Window] /\ ttl'[key] = Window /\ Window > 0
      /\ \A l \in Key : l # key => ttl'[l] = ttl[l]
    BY <1>0, <1>2, LimitAssumption DEF ExpireKey, TypeOK
<1>4. PICK to \in Verdict(r, k, 1) : call' = Moved(r, k, to)
    BY DEF ExpireKey
<1>5. /\ to \in {"429", "limited", "queued", "failed", "work", "400"}
      /\ to \in {"queued", "work"} => 1 <= Limit[key[1]]
    BY <1>0, <1>2 DEF Verdict, Validated
<1>6. /\ call' \in [Request -> [0 .. MaxVideos -> Call]]
      /\ \A s \in Request : \A j \in 0 .. MaxVideos :
            /\ call'[s][j].stage = IF s = r /\ j = k THEN to ELSE call[s][j].stage
            /\ call'[s][j].window = call[s][j].window
    BY <1>4, <1>5, MovedFacts DEF Stage, Answered, Outcome
<1>7. TypeOK' /\ TokenInv'
    <2>1. count[key] > 0
        BY <1>0, <1>1 DEF OneExpires
    <2>2. \A l \in Key : count'[l] = 0 => ttl'[l] = 0
        BY <1>1, <1>3, <2>1 DEF TypeOK
    <2>. QED
        BY <1>1, <1>3, <1>6, <2>2, TokensStay DEF TypeOK
<1>8. RowsFollowCalls'
    BY <1>1, <1>2, <1>5, <1>6, RowsFollow
<1>9. \A s \in Request : \A j \in 0 .. MaxVideos : At(s, j, "expire")' =>
          /\ At(s, j, "expire") /\ ~(s = r /\ j = k)
          /\ KeyOf(s, j) \in Key /\ KeyOf(s, j) # key
    <2>1. \A s \in Request : \A j \in 0 .. MaxVideos : At(s, j, "expire")' =>
              At(s, j, "expire") /\ ~(s = r /\ j = k)
        BY <1>5, <1>6 DEF At
    <2>2. \A s \in Request : \A j \in 0 .. MaxVideos : At(s, j, "expire") =>
              KeyOf(s, j) \in Key
        BY Authenticated, KeyFacts DEF At
    <2>. QED
        BY <1>0, <1>1, <2>1, <2>2 DEF OneExpires
<1>10. OneExpires'
    BY <1>1, <1>3, <1>9, NoMoreExpires DEF OneExpires
<1>11. Counted'
    <2>1. ASSUME NEW s \in Request, NEW j \in 0 .. MaxVideos,
                 call'[s][j].stage \in Passing(KeyOf(s, j))
          PROVE  /\ call[s][j].stage \in Passing(KeyOf(s, j))
                 /\ call'[s][j].window = call[s][j].window
        <3>1. CASE s = r /\ j = k
            BY <1>0, <1>1, <1>2, <1>5, <1>6, <2>1, <3>1 DEF Passing, At
        <3>2. CASE ~(s = r /\ j = k)
            BY <1>6, <2>1, <3>2
        <3>. QED
            BY <3>1, <3>2
    <2>2. \A l, n : Admitted(l, n)' \subseteq Admitted(l, n)
        BY <1>1, <2>1, NobodyAdmitted
    <2>. QED
        BY <1>1, <2>2, NoMoreAdmitted DEF TypeOK
<1>12. CountersExpire'
    <2>1. ASSUME NEW l \in Key, count'[l] > 0, ttl'[l] = 0, l \notin orphan
          PROVE  \E s \in Request : \E j \in 0 .. MaxVideos :
                     row'[s] = l[2] /\ At(s, j, "expire")' /\ KeyOf(s, j)' = l
        <3>1. l # key
            BY <1>3, <2>1
        <3>2. PICK s \in Request, j \in 0 .. MaxVideos :
                  row[s] = l[2] /\ At(s, j, "expire") /\ KeyOf(s, j) = l
            BY <1>1, <1>3, <2>1, <3>1 DEF CountersExpire
        <3>3. At(s, j, "expire")'
            BY <1>0, <1>6, <3>1, <3>2 DEF At
        <3>. QED
            BY <1>1, <3>2, <3>3 DEF KeyOf, ScopeOf
    <2>. QED
        BY <1>1, <2>1 DEF CountersExpire
<1>. QED
    BY <1>7, <1>8, <1>10, <1>11, <1>12

(* A failed command admits nobody; a counter that it leaves without an expiry *)
(* is an orphan.                                                            *)
LEMMA RedisFailsGateInv ==
    ASSUME GateInv, NEW r \in Request, NEW k \in 0 .. MaxVideos, RedisFails(r, k)
    PROVE  GateInv'
<1> USE DEF GateInv, tokenVars
<1>0. PICK key : key = KeyOf(r, k)
    OBVIOUS
<1>1. /\ call[r][k].stage \in {"incr", "expire"}
      /\ UNCHANGED <<tokenVars, row, window>>
    BY DEF RedisFails
<1>2. row[r] # 0 /\ key \in Key
    BY <1>0, <1>1, Authenticated, KeyFacts
<1>3. PICK to \in {"500", "failed"} : call' = Moved(r, k, to)
    BY DEF RedisFails
<1>4. /\ call' \in [Request -> [0 .. MaxVideos -> Call]]
      /\ \A s \in Request : \A j \in 0 .. MaxVideos :
            /\ call'[s][j].stage = IF s = r /\ j = k THEN to ELSE call[s][j].stage
            /\ call'[s][j].window = call[s][j].window
    BY <1>3, MovedFacts DEF Stage, Answered, Outcome
<1>5. /\ count' \in [Key -> Nat] /\ ttl' \in [Key -> 0 .. Window]
      /\ \A l \in Key : count'[l] >= count[l]
      /\ \A l \in Key : l # key => count'[l] = count[l] /\ ttl'[l] = ttl[l]
      /\ At(r, k, "expire") => count' = count
      /\ ~At(r, k, "expire") => ttl' = ttl
      /\ count[key] = 0 => count'[key] \in {0, 1}
    <2>1. count[key] \in Nat /\ Window \in 0 .. Window /\ Window > 0
        BY <1>2, LimitAssumption DEF TypeOK
    <2>2. count' = count \/ (~At(r, k, "expire") /\ count' = [count EXCEPT ![key] = @ + 1])
        BY <1>0, <1>1 DEF RedisFails, At
    <2>3. ttl' = ttl \/ (At(r, k, "expire") /\ ttl' = [ttl EXCEPT ![key] = Window])
        BY <1>0 DEF RedisFails
    <2>4. count \in [Key -> Nat] /\ ttl \in [Key -> 0 .. Window]
        BY DEF TypeOK
    <2>5. /\ count' \in [Key -> Nat] /\ \A l \in Key : count'[l] >= count[l]
          /\ \A l \in Key : l # key => count'[l] = count[l]
          /\ At(r, k, "expire") => count' = count
          /\ count[key] = 0 => count'[key] \in {0, 1}
        <3>1. CASE count' = count
            BY <2>1, <2>4, <3>1
        <3>2. CASE ~At(r, k, "expire") /\ count' = [count EXCEPT ![key] = @ + 1]
            BY <1>2, <2>1, <2>4, <3>2
        <3>. QED
            BY <2>2, <3>1, <3>2
    <2>6. /\ ttl' \in [Key -> 0 .. Window]
          /\ \A l \in Key : l # key => ttl'[l] = ttl[l]
          /\ ~At(r, k, "expire") => ttl' = ttl
        <3>1. CASE ttl' = ttl
            BY <2>4, <3>1
        <3>2. CASE At(r, k, "expire") /\ ttl' = [ttl EXCEPT ![key] = Window]
            BY <1>2, <2>1, <2>4, <3>2
        <3>. QED
            BY <2>3, <3>1, <3>2
    <2>. QED
        BY <2>5, <2>6
<1>6. /\ orphan \subseteq orphan' /\ orphan' \subseteq Key
      /\ ttl'[key] = 0 /\ (At(r, k, "expire") \/ count'[key] = 1) => key \in orphan'
    BY <1>0, <1>2 DEF RedisFails, TypeOK
<1>7. \A s \in Request : \A j \in 0 .. MaxVideos :
          /\ At(s, j, "expire")' <=> At(s, j, "expire") /\ ~(s = r /\ j = k)
          /\ At(s, j, "expire") => KeyOf(s, j) \in Key
    BY <1>4, Authenticated, KeyFacts DEF At
<1>8. TypeOK' /\ TokenInv'
    <2>1. \A l \in Key : count'[l] = 0 => ttl'[l] = 0
        <3>1. At(r, k, "expire") => count[key] > 0
            BY <1>0 DEF OneExpires
        <3>. QED
            BY <1>2, <1>5, <3>1 DEF TypeOK
    <2>. QED
        BY <1>1, <1>4, <1>5, <1>6, <2>1, TokensStay DEF TypeOK
<1>9. RowsFollowCalls'
    BY <1>1, <1>2, <1>4, RowsFollow
<1>10. OneExpires'
    <2>1. ASSUME NEW s \in Request, NEW j \in 0 .. MaxVideos, At(s, j, "expire")'
          PROVE  /\ At(s, j, "expire")
                 /\ count'[KeyOf(s, j)] > 0 /\ ttl'[KeyOf(s, j)] = 0
        <3>1. /\ At(s, j, "expire") /\ KeyOf(s, j) \in Key
              /\ count[KeyOf(s, j)] \in Nat /\ count'[KeyOf(s, j)] \in Nat
              /\ count'[KeyOf(s, j)] >= count[KeyOf(s, j)]
            BY <1>5, <1>7, <2>1 DEF TypeOK
        <3>2. At(r, k, "expire") => KeyOf(s, j) # key
            BY <1>0, <1>7, <2>1, <3>1 DEF OneExpires
        <3>3. ttl'[KeyOf(s, j)] = ttl[KeyOf(s, j)]
            BY <1>5, <3>1, <3>2
        <3>. QED
            BY <3>1, <3>3 DEF OneExpires
    <2>. QED
        BY <1>1, <2>1, NoMoreExpires
<1>11. Counted'
    <2>1. \A l, n : Admitted(l, n)' \subseteq Admitted(l, n)
        BY <1>1, <1>4, NobodyAdmitted DEF Passing
    <2>. QED
        BY <1>1, <1>5, <2>1, NoMoreAdmitted
<1>12. CountersExpire'
    <2>1. ASSUME NEW l \in Key, count'[l] > 0, ttl'[l] = 0, l \notin orphan'
          PROVE  \E s \in Request : \E j \in 0 .. MaxVideos :
                     row'[s] = l[2] /\ At(s, j, "expire")' /\ KeyOf(s, j)' = l
        <3>1. l = key => ~At(r, k, "expire") /\ count[key] > 0
            <4>1. l = key => ~At(r, k, "expire") /\ count'[key] # 1
                BY <1>6, <2>1
            <4>2. count[key] \in Nat
                BY <1>2 DEF TypeOK
            <4>. QED
                BY <1>2, <1>5, <2>1, <4>1, <4>2
        <3>2. count[l] > 0 /\ ttl[l] = 0 /\ l \notin orphan
            BY <1>5, <1>6, <2>1, <3>1
        <3>3. PICK s \in Request, j \in 0 .. MaxVideos :
                  row[s] = l[2] /\ At(s, j, "expire") /\ KeyOf(s, j) = l
            BY <3>2 DEF CountersExpire
        <3>4. At(s, j, "expire")'
            BY <1>0, <1>7, <3>1, <3>3
        <3>. QED
            BY <1>1, <3>3, <3>4 DEF KeyOf, ScopeOf
    <2>. QED
        BY <2>1 DEF CountersExpire
<1>. QED
    BY <1>8, <1>9, <1>10, <1>11, <1>12

(* What expires starts a window in which nobody was counted. *)
LEMMA TickGateInv ==
    ASSUME GateInv, Tick
    PROVE  GateInv'
<1> USE DEF GateInv, tokenVars
<1>1. UNCHANGED <<tokenVars, call, row, orphan>>
    BY DEF Tick
<1>2. \A l \in Key : /\ ttl'[l] = IF ttl[l] = 0 THEN 0 ELSE ttl[l] - 1
                     /\ count'[l] = IF ttl[l] = 1 THEN 0 ELSE count[l]
                     /\ window'[l] = IF ttl[l] = 1 THEN window[l] + 1 ELSE window[l]
    BY DEF Tick
<1>3. /\ ttl' \in [Key -> 0 .. Window] /\ count' \in [Key -> Nat] /\ window' \in [Key -> Nat]
      /\ \A l \in Key : count'[l] = 0 => ttl'[l] = 0
    <2>1. DOMAIN ttl' = Key /\ DOMAIN count' = Key /\ DOMAIN window' = Key
          /\ ttl' = [l \in Key |-> ttl'[l]] /\ count' = [l \in Key |-> count'[l]]
          /\ window' = [l \in Key |-> window'[l]]
        BY DEF Tick
    <2>2. \A l \in Key : /\ ttl[l] \in 0 .. Window /\ count[l] \in Nat /\ window[l] \in Nat
                         /\ count[l] = 0 => ttl[l] = 0
        BY DEF TypeOK
    <2>3. \A l \in Key : /\ ttl'[l] \in 0 .. Window /\ count'[l] \in Nat /\ window'[l] \in Nat
                         /\ count'[l] = 0 => ttl'[l] = 0
        BY <1>2, <2>2, LimitAssumption
    <2>. QED
        BY <2>1, <2>3
<1>4. TypeOK' /\ TokenInv'
    BY <1>1, <1>3, TokensStay DEF TypeOK
<1>5. RowsFollowCalls'
    BY <1>1 DEF RowsFollowCalls
<1>6. OneExpires'
    <2>1. \A s \in Request : \A j \in 0 .. MaxVideos : At(s, j, "expire") =>
              KeyOf(s, j) \in Key
        BY Authenticated, KeyFacts DEF At
    <2>2. \A s \in Request : \A j \in 0 .. MaxVideos : At(s, j, "expire")' =>
              /\ At(s, j, "expire")
              /\ count'[KeyOf(s, j)] > 0 /\ ttl'[KeyOf(s, j)] = 0
        BY <1>1, <1>2, <2>1 DEF At, OneExpires
    <2>. QED
        BY <1>1, <2>2, NoMoreExpires
<1>7. Counted'
    <2> SUFFICES ASSUME NEW l \in Key, NEW n \in Nat
                 PROVE  /\ Cardinality(Admitted(l, n)') <= Limit[l[1]]
                        /\ n = window'[l] => Cardinality(Admitted(l, n)') <= count'[l]
                        /\ n > window'[l] => Admitted(l, n)' = {}
        BY DEF Counted
    <2>1. Admitted(l, n)' = Admitted(l, n)
        BY <1>1 DEF Admitted, KeyOf, ScopeOf, Passing
    <2>2. /\ Cardinality(Admitted(l, n)) <= Limit[l[1]]
          /\ n = window[l] => Cardinality(Admitted(l, n)) <= count[l]
          /\ n > window[l] => Admitted(l, n) = {}
        BY DEF Counted
    <2>3. window[l] \in Nat /\ count[l] \in Nat
        BY DEF TypeOK
    <2>4. Admitted(l, n) = {} => Cardinality(Admitted(l, n)) = 0
        BY FS_EmptySet
    <2>5. CASE ttl[l] = 1
        <3>1. window'[l] = window[l] + 1 /\ count'[l] = 0
            BY <1>2, <2>5
        <3>. QED
            BY <2>1, <2>2, <2>3, <2>4, <3>1
    <2>6. CASE ttl[l] # 1
        <3>1. window'[l] = window[l] /\ count'[l] = count[l]
            BY <1>2, <2>6
        <3>. QED
            BY <2>1, <2>2, <3>1
    <2>. QED
        BY <2>5, <2>6
<1>8. CountersExpire'
    <2>1. \A l \in Key : count'[l] > 0 /\ ttl'[l] = 0 => count[l] > 0 /\ ttl[l] = 0
        BY <1>2 DEF TypeOK
    <2>. QED
        BY <1>1, <2>1 DEF CountersExpire, At, KeyOf, ScopeOf
<1>. QED
    BY <1>4, <1>5, <1>6, <1>7, <1>8

(* The operator, a bootstrap or a death: the requests are not concerned. *)
LEMMA TokenGateInv ==
    ASSUME GateInv, TokenInv', UNCHANGED gateVars
    PROVE  GateInv'
<1> USE DEF gateVars
<1>1. TypeOK' /\ RowsFollowCalls' /\ OneExpires'
    BY DEF GateInv, TypeOK, TokenInv, RowsFollowCalls, OneExpires, At, KeyOf, ScopeOf
<1>2. Counted'
    <2>1. \A key \in Key : \A n \in Nat : Admitted(key, n)' = Admitted(key, n)
        BY DEF Admitted, KeyOf, ScopeOf, Passing
    <2>. QED
        BY <2>1 DEF GateInv, Counted
<1>3. CountersExpire'
    BY DEF GateInv, CountersExpire, At, KeyOf, ScopeOf
<1>. QED
    BY <1>1, <1>2, <1>3 DEF GateInv

LEMMA EnforceGateInv ==
    ASSUME GateInv, NEW r \in Request, NEW k \in 0 .. MaxVideos, Enforce(r, k)
    PROVE  GateInv'
BY IncrGateInv, ExpireGateInv, RedisFailsGateInv DEF Enforce

LEMMA NextGateInv ==
    ASSUME GateInv, [Next]_vars
    PROVE  GateInv'
<1> USE DEF GateInv
<1>1. ASSUME NEW r \in Request, Handle(r)
      PROVE  GateInv'
    <2>1. 0 \in 0 .. MaxVideos /\ Video(r) \subseteq 0 .. MaxVideos
        BY VideoFacts DEF Video
    <2>2. CASE Authenticate(r)
        BY <2>2, AuthenticateGateInv
    <2>3. CASE Enforce(r, 0)
        BY <2>1, <2>3, EnforceGateInv
    <2>4. CASE Answer(r)
        BY <2>4, AnswerGateInv
    <2>5. CASE \E k \in Video(r) : Dispatch(r, k) \/ Enforce(r, k)
        <3>1. PICK k \in Video(r) : Dispatch(r, k) \/ Enforce(r, k)
            BY <2>5
        <3>2. k \in 0 .. MaxVideos
            BY <2>1
        <3>. QED
            BY <3>1, <3>2, DispatchGateInv, EnforceGateInv
    <2>. QED
        BY <1>1, <2>2, <2>3, <2>4, <2>5 DEF Handle, Serve
<1>2. ASSUME NEW w \in Worker, Die(w)
      PROVE  GateInv'
    BY <1>2, DeathTokenInv, TokenGateInv DEF Die
<1>3. CASE Tick
    BY <1>3, TickGateInv
<1>4. CASE TokenStep
    BY <1>4, BootstrapTokenInv, AdminTokenInv, TokenGateInv DEF TokenStep
<1>5. CASE UNCHANGED vars
    <2>1. TokenInv'
        BY <1>5, TokensStay DEF vars
    <2>. QED
        BY <1>5, <2>1, TokenGateInv DEF vars
<1>. QED
    BY <1>1, <1>2, <1>3, <1>4, <1>5 DEF Next

(* Every reachable state satisfies the invariant, whatever dies or fails. *)
THEOREM GatewayInvariant == Spec => []GateInv
<1>1. Init => GateInv
    BY InitGateInv
<1>2. GateInv /\ [Next]_vars => GateInv'
    BY NextGateInv
<1>. QED
    BY <1>1, <1>2, PTL DEF Spec

(* Workers that start together, die and are started again, with the operator   *)
(* at work beside them: only a bootstrap that went on without the advisory     *)
(* lock leaves a second live row of the environment's token, one each.  The    *)
(* lock of bootstrap_admin_token spans its SELECT and its INSERT.              *)
THEOREM OneBootstrap == Spec => []TwinsAreUnlocked
<1>1. GateInv => TwinsAreUnlocked
    BY TwinsCounted DEF GateInv
<1>. QED
    BY <1>1, GatewayInvariant, PTL

(* For any limits, tokens and mixture of routes: between two expiries of a     *)
(* counter no more requests and Whisper enqueues of a token pass it than       *)
(* enforce_rate_limit allows.                                                  *)
THEOREM Limits == Spec => []LimitHolds
<1>1. GateInv => LimitHolds
    <2> SUFFICES ASSUME GateInv, NEW key \in Key, NEW n \in 0 .. window[key]
                 PROVE  Cardinality(Passed(key, n)) <= Limit[key[1]]
        BY DEF LimitHolds
    <2>1. window[key] \in Nat /\ n \in Nat /\ Limit[key[1]] \in Nat
        BY LimitAssumption DEF GateInv, TypeOK, Key
    <2>2. PICK P, A : P = Passed(key, n) /\ A = Admitted(key, n)
        OBVIOUS
    <2>3. P \subseteq A
        BY <2>2 DEF Passed, Admitted, Passing, KeyOf
    <2>4. IsFiniteSet(A) /\ Cardinality(A) <= Limit[key[1]]
        BY <2>1, <2>2, FiniteAdmitted DEF GateInv, Counted
    <2>5. /\ IsFiniteSet(P) /\ Cardinality(P) <= Cardinality(A)
          /\ Cardinality(P) \in Nat /\ Cardinality(A) \in Nat
        BY <2>3, <2>4, FS_Subset, FS_CardinalityType
    <2>. QED
        BY <2>1, <2>2, <2>4, <2>5
<1>. QED
    BY <1>1, GatewayInvariant, PTL

(* The rows, counters and calls keep their types; the table of tokens stays    *)
(* within the rows that its bounded actions can insert.                        *)
THEOREM GatewayTypes == Spec => []TypeOK
<1>1. GateInv => TypeOK
    BY DEF GateInv
<1>. QED
    BY <1>1, GatewayInvariant, PTL

(* A counter without an expiry has a request on its way to set one, unless     *)
(* that EXPIRE was lost: only then does the token stay locked out.             *)
THEOREM Expiry == Spec => []CountersExpire
<1>1. GateInv => CountersExpire
    BY DEF GateInv
<1>. QED
    BY <1>1, GatewayInvariant, PTL

=============================================================================
