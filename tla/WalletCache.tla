------------------------------- MODULE WalletCache -------------------------------
(* The cached wallets of one user: cacheGet, cacheSet and cacheDel of
   server/lib/redis.ts on the key wallet:<user>.  The rows are stood for by their
   version, the number of changes committed so far.                              *)
EXTENDS Integers

VARIABLES
    committed,  \* the version of the wallet rows
    redis,      \* isConnected
    cache,      \* the cached version, or Missing
    cause       \* history: why the cached version may be an old one

cacheVars == <<committed, redis, cache, cause>>

Missing == -1

CacheInit == committed = 0 /\ redis = TRUE /\ cache = Missing /\ cause = {}

(* cacheGet: without a connection every look-up misses. *)
Hit == redis /\ cache # Missing

(* cacheSet with its ten seconds; early tells whether a writer has deleted the
   entry already and will only now commit.                                       *)
CacheSet(version, early) ==
    IF redis
    THEN /\ cache' = version
         /\ cause' = (IF version < committed THEN {"old read"} ELSE {})
                         \cup (IF early THEN {"early delete"} ELSE {})
    ELSE UNCHANGED <<cache, cause>>

(* cacheDel: an error is swallowed, so the entry may stay. *)
CacheDel ==
    IF redis
    THEN cache' = Missing /\ cause' = {}
    ELSE cache' = cache /\ cause' = cause \cup {"lost delete"}

Expire == cache # Missing /\ cache' = Missing /\ cause' = {} /\ UNCHANGED <<committed, redis>>

(* The connection to Redis comes and goes; what it stores survives. *)
RedisToggles == redis' = ~redis /\ UNCHANGED <<committed, cache, cause>>
================================================================================
