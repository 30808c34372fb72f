------------------------------ MODULE WalletRequests ------------------------------
(* Requests about one user's wallets over the connection pool and the cache
   (server/wallet/wallet-service.ts, server/trade/trade-service.ts).  What they do
   to the amounts is in WalletLedger and LimitOrders; here a change is a new version
   of the rows, and what matters is the order of the change, the deletion of the
   cached rows and the release of the connection.                                 *)
EXTENDS ConnectionPool, WalletCache

CONSTANT Kind   \* the operation each request performs

ASSUME KindAssumption ==
    Kind \in [Requests -> {"read",          \* getWallets
                           "move",          \* credit, debit, transfer by user id
                           "move by email", \* the same, for a user named by an address
                           "convert",       \* executeConvert
                           "create",        \* createDefaultWallets
                           "statement"}]    \* lockFunds, unlockFunds, updateBalance

VARIABLES
    pc,         \* where each request is
    got,        \* the version a reader read
    lock        \* the transaction that holds the row locks, if any

requestVars == <<poolVars, cacheVars, pc, got, lock>>

Ended == {"answered", "failed"}
InTransaction(r) == Kind[r] \in {"move", "move by email", "convert", "create"}

(* executeConvert and createDefaultWallets do not know the cache. *)
Deletes(r) == Kind[r] \notin {"convert", "create"}

(* A user whose wallets are still to be created has none at the start. *)
HasRows == committed > 0 \/ \A r \in Requests : Kind[r] # "create"
MayWrite(r) == HasRows <=> Kind[r] # "create"

Goes(r, step) == pc' = [pc EXCEPT ![r] = step]

RequestsInit ==
    /\ PoolInit /\ CacheInit
    /\ pc = [r \in Requests |-> IF Kind[r] = "read" THEN "look up" ELSE "connect"]
    /\ got = [r \in Requests |-> Missing]
    /\ lock = {}

(* getWallets: the cached rows are the answer if there are any. *)
LookUp(r) ==
    /\ server # "down"
    /\ pc[r] = "look up"
    /\ IF Hit
       THEN got' = [got EXCEPT ![r] = cache] /\ Goes(r, "answered")
       ELSE Goes(r, "connect") /\ UNCHANGED got
    /\ UNCHANGED <<poolVars, cacheVars, lock>>

(* The step after the connection was granted: BEGIN, then executeConvert's
   getWallet and resolveUserId of an address ask for a second one.              *)
Needs(r) == IF Kind[r] \in {"convert", "move by email"} THEN 2 ELSE 1

Asks(r) ==
    /\ pc[r] = "connect"
    /\ Connect(r)
    /\ Goes(r, "waiting")
    /\ UNCHANGED <<cacheVars, got, lock>>

Granted(r) ==
    /\ pc[r] = "waiting"
    /\ Serve(r)
    /\ Goes(r, IF held[r] + 1 < Needs(r) THEN "connect"
               ELSE IF Needs(r) = 2 THEN "resolve"
               ELSE "query")
    /\ UNCHANGED <<cacheVars, got, lock>>

(* The inner query is over and its connection goes back. *)
Resolve(r) ==
    /\ pc[r] = "resolve"
    /\ Release(r, 1) /\ UNCHANGED <<queue, server>>
    /\ Goes(r, "query")
    /\ UNCHANGED <<cacheVars, got, lock>>

(* SELECT * FROM wallets, on a connection of its own. *)
Select(r) ==
    /\ pc[r] = "query" /\ Kind[r] = "read"
    /\ got' = [got EXCEPT ![r] = committed]
    /\ Release(r, held[r]) /\ UNCHANGED <<queue, server>>
    /\ Goes(r, "fill")
    /\ UNCHANGED <<cacheVars, lock>>

(* A writer of a transaction that has deleted the entry and not committed yet. *)
DeletedEarly == \E w \in Requests : InTransaction(w) /\ Deletes(w) /\ pc[w] = "commit"

Fill(r) ==
    /\ server # "down"
    /\ pc[r] = "fill"
    /\ CacheSet(got[r], DeletedEarly)
    /\ Goes(r, "answered")
    /\ UNCHANGED <<poolVars, committed, redis, got, lock>>

(* The UPDATEs of a transaction, behind the row locks of the others, or the INSERTs
   of createDefaultWallets, which the index on (user_id, asset) allows once.        *)
Write(r) ==
    /\ pc[r] = "query" /\ InTransaction(r)
    /\ MayWrite(r) /\ lock = {}
    /\ lock' = {r}
    /\ Goes(r, IF Deletes(r) THEN "delete" ELSE "commit")
    /\ UNCHANGED <<poolVars, cacheVars, got>>

(* A write that nothing deletes the entry for, if there is one. *)
Behind(what) == IF cache # Missing THEN cause \cup {what} ELSE cause

(* One UPDATE that commits by itself; the entry is deleted afterwards, unless the
   answer of the database is lost: db.query then throws although the rows changed. *)
Update(r) ==
    /\ pc[r] = "query" /\ Kind[r] = "statement"
    /\ lock = {}
    /\ committed' = committed + 1
    /\ Release(r, held[r]) /\ UNCHANGED <<queue, server>>
    /\ \/ Goes(r, "delete") /\ UNCHANGED cause
       \/ Goes(r, "failed") /\ cause' = Behind("lost answer")
    /\ UNCHANGED <<redis, cache, got, lock>>

AfterDelete(r) == IF InTransaction(r) THEN "commit" ELSE "answered"

\* Mutant: the cached rows are not deleted.
Delete_skipped(r) ==
    /\ server # "down"
    /\ pc[r] = "delete"
    /\ UNCHANGED <<cache, cause>>
    /\ Goes(r, AfterDelete(r))
    /\ UNCHANGED <<poolVars, committed, redis, got, lock>>

Delete(r) ==
    /\ server # "down"
    /\ pc[r] = "delete"
    /\ CacheDel
    /\ Goes(r, AfterDelete(r))
    /\ UNCHANGED <<poolVars, committed, redis, got, lock>>

(* COMMIT, and the connection is released; the request fails when the answer is lost. *)
Commit(r) ==
    /\ pc[r] = "commit"
    /\ committed' = committed + 1
    /\ lock' = {}
    /\ Release(r, held[r]) /\ UNCHANGED <<queue, server>>
    /\ cause' = IF Deletes(r) THEN cause ELSE Behind(Kind[r])
    /\ \E end \in Ended : Goes(r, end)
    /\ UNCHANGED <<redis, cache, got>>

(* A check or a query fails: ROLLBACK, release, and the error is the answer. *)
Fails(r) ==
    /\ pc[r] \in {"query", "resolve", "commit"}
    /\ lock' = lock \ {r}
    /\ Release(r, held[r]) /\ UNCHANGED <<queue, server>>
    /\ Goes(r, "failed")
    /\ UNCHANGED <<cacheVars, got>>

(* The wallet is not found, or the wallets to be created are there already. *)
Rejected(r) == pc[r] = "query" /\ InTransaction(r) /\ ~MayWrite(r) /\ Fails(r)

TimesOut(r) ==
    /\ pc[r] = "waiting" /\ server # "down"
    /\ MayTimeOut(r)
    /\ GiveUp(r)
    /\ Goes(r, "failed")
    /\ UNCHANGED <<cacheVars, got, lock>>

IsRefused(r) ==
    /\ pc[r] = "connect" /\ Refused
    /\ Release(r, held[r]) /\ UNCHANGED <<queue, server>>
    /\ Goes(r, "failed")
    /\ UNCHANGED <<cacheVars, got, lock>>

(* The process exits; the answers it still owed are never sent. *)
ShutDown == EndPool /\ UNCHANGED <<cacheVars, pc, got, lock>>
ProcessExits ==
    /\ Exit
    /\ pc' = [r \in Requests |-> IF pc[r] \in Ended THEN pc[r] ELSE "failed"]
    /\ cause' = IF \E r \in Requests : Kind[r] = "statement" /\ pc[r] = "delete"
                THEN cause \cup {"lost delete"} ELSE cause
    /\ UNCHANGED <<committed, redis, cache, got, lock>>

Step(r) ==
    \/ LookUp(r) \/ Asks(r) \/ Granted(r) \/ Resolve(r)
    \/ Select(r) \/ Fill(r)
    \/ Write(r) \/ Update(r) \/ Delete(r) \/ Commit(r)
    \/ Rejected(r) \/ IsRefused(r)

RequestsNext ==
    \/ \E r \in Requests : Step(r) \/ Fails(r) \/ TimesOut(r)
    \/ Expire /\ UNCHANGED <<poolVars, pc, got, lock>>
    \/ RedisToggles /\ UNCHANGED <<poolVars, pc, got, lock>>
    \/ ShutDown \/ ProcessExits

(* The event loop runs every continuation and every timer. *)
Fairness ==
    /\ \A r \in Requests : WF_requestVars(Step(r)) /\ WF_requestVars(TimesOut(r))
    /\ WF_requestVars(ProcessExits)

RequestsSpec == RequestsInit /\ [][RequestsNext]_requestVars
FairRequestsSpec == RequestsSpec /\ Fairness

--------------------------------------------------------------------------------
Causes == {"old read", "early delete", "lost delete", "lost answer", "convert", "create"}

(* Every connection is in the pool or with a request in progress, and a request
   that ended holds neither a connection nor a row lock (server/db/index.ts:78-96). *)
RequestsTypeOK ==
    /\ PoolSound
    /\ pc \in [Requests -> Ended \cup {"look up", "connect", "waiting", "resolve", "query",
                                       "fill", "delete", "commit"}]
    /\ \A r \in Requests : pc[r] \in Ended => held[r] = 0 /\ r \notin lock
    /\ committed \in Nat /\ cache \in {Missing} \cup 0..committed
    /\ got \in [Requests -> {Missing} \cup 0..committed]
    /\ lock \in SUBSET Requests /\ redis \in BOOLEAN
    /\ cause \subseteq Causes

(* The cached wallets are the committed ones unless the entry was filled from rows
   read before a commit, filled between a transaction's deletion and its commit, left
   behind by a deletion Redis did not get, by an UPDATE whose answer was lost, by a
   conversion or by the creation of the wallets, or is about to be deleted
   (wallet-service.ts:82-112, 164-181, 274, 336, 356, 373, 509, 603).              *)
FreshUnlessRaced ==
    cache \notin {Missing, committed} =>
        \/ cause # {}
        \/ \E r \in Requests : Kind[r] = "statement" /\ pc[r] = "delete"

(* Every request is answered, also when all connections are held by transactions
   that wait for a second one (trade-service.ts:113-115).                          *)
EveryRequestEnds == \A r \in Requests : <>(pc[r] \in Ended)
================================================================================
