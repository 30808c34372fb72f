------------------------------ MODULE ConnectionPool ------------------------------
(* The pool of database connections of one replica (server/db/index.ts over the
   library pg): a limited number of connections, first come, first served, and an
   error for whoever waits longer than connectionTimeoutMillis.  A transaction
   keeps its connection to the end; a helper that runs a single query asks the
   pool for a connection of its own, also when it is called inside a transaction. *)
EXTENDS Integers, Sequences, FiniteSets, SequencesExt

CONSTANTS
    Requests,
    MaxConnections      \* config.database.maxConnections

ASSUME PoolAssumption == MaxConnections \in Nat \ {0} /\ IsFiniteSet(Requests)

VARIABLES
    free,       \* connections the pool can still hand out
    held,       \* connections each request holds
    queue,      \* requests waiting for one, oldest first
    server      \* "up", "ending" once pool.end() was called, "down"

poolVars == <<free, held, queue, server>>

PoolInit ==
    /\ free = MaxConnections
    /\ held = [r \in Requests |-> 0]
    /\ queue = <<>>
    /\ server = "up"

(* pool.connect(): the request waits its turn, also when a connection is idle. *)
Connect(r) ==
    /\ server = "up"
    /\ queue' = Append(queue, r)
    /\ UNCHANGED <<free, held, server>>

(* pool.connect() after pool.end() throws. *)
Refused == server = "ending"

(* The oldest request in the queue gets a connection; an ending pool serves nobody. *)
Serve(r) ==
    /\ server = "up" /\ free > 0
    /\ queue # <<>> /\ r = Head(queue)
    /\ free' = free - 1
    /\ held' = [held EXCEPT ![r] = @ + 1]
    /\ queue' = Tail(queue)
    /\ UNCHANGED server

(* client.release(), of n connections. *)
Release(r, n) ==
    /\ free' = free + n
    /\ held' = [held EXCEPT ![r] = @ - n]

(* A request in the queue gives up after connectionTimeoutMillis; the catch of the
   transaction it may be in rolls back, and its finally releases the connection.   *)
\* Mutant: the pool has no connectionTimeoutMillis.
MayTimeOut_never(r) == FALSE
MayTimeOut(r) == \E i \in DOMAIN queue : queue[i] = r

Leaves(r) == \E i \in DOMAIN queue : queue[i] = r /\ queue' = RemoveAt(queue, i)

\* Mutant: the connection the transaction holds is not released.
GiveUp_leaks(r) == Leaves(r) /\ UNCHANGED <<free, held, server>>
GiveUp(r) ==
    /\ Release(r, held[r])
    /\ Leaves(r)
    /\ UNCHANGED server

(* shutdown() of server/index.ts: the listening socket is closed without waiting
   for the requests in progress, and pool.end() resolves once every connection is
   back; then the process exits.                                                  *)
EndPool == server = "up" /\ server' = "ending" /\ UNCHANGED <<free, held, queue>>
Exit ==
    /\ server = "ending" /\ free = MaxConnections
    /\ server' = "down" /\ queue' = <<>>
    /\ UNCHANGED <<free, held>>

(* No connection is lost or handed out twice, and whoever waits is in the queue
   once: a path that ends a request releases what it holds.                       *)
PoolSound ==
    /\ free \in 0..MaxConnections
    /\ held \in [Requests -> 0..2]
    /\ free + SumFunction(held) = MaxConnections
    /\ IsInjective(queue)
================================================================================
