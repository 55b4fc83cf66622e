-------------------------------- MODULE Pool --------------------------------
(***************************************************************************)
(* One uvicorn worker process under load: every sync dependency, endpoint  *)
(* and response serialisation takes a thread of the server's pool, and the *)
(* request's session keeps a database connection from the authentication   *)
(* to the commit, or to the end of the request, across those threads.      *)
(***************************************************************************)
EXTENDS Naturals, Sequences, FiniteSets

CONSTANTS
    Request,      \* requests one process has accepted
    Kind,         \* what each request asks for: a function into DOMAIN Plan
    Threads,      \* anyio's default thread limiter
    PoolSize,     \* settings.db_pool_size
    MaxOverflow   \* settings.db_max_overflow

\* The sync functions a request runs in order, each in a thread of its own.
\* "bare" requests answer with a Response (a file, a 204), "stranger"s carry
\* no valid token, "public" is register, login and readyz, "health" healthz.
Plan == [user     |-> <<"open", "current_user", "endpoint", "serialize">>,
         bare     |-> <<"open", "current_user", "endpoint">>,
         admin    |-> <<"open", "current_user", "current_admin", "endpoint",
                        "serialize">>,
         stranger |-> <<"open", "current_user">>,
         public   |-> <<"open", "endpoint", "serialize">>,
         health   |-> <<"endpoint", "serialize">>]

Connections == PoolSize + MaxOverflow

ASSUME PoolAssumption ==
    /\ IsFiniteSet(Request)
    /\ Kind \in [Request -> DOMAIN Plan]
    /\ Threads \in Nat \ {0}
    /\ PoolSize \in Nat \ {0} /\ MaxOverflow \in Nat

VARIABLES
    at,        \* how many functions of its plan each request has finished
    running,   \* the requests that have a thread
    holding,   \* the requests whose session has a connection
    committed, \* requests whose endpoint has committed
    outcome    \* "open", "closing" (the session still has to close), "ended"

vars == <<at, running, holding, committed, outcome>>

Step(r)      == Plan[Kind[r]][at[r] + 1]
Started(r)   == outcome[r] = "open" /\ at[r] < Len(Plan[Kind[r]])
Queries(r)   == /\ Kind[r] \notin {"health", "stranger"}
                /\ Step(r) \in {"current_user", "endpoint"}

WaitsForThread(r)     == Started(r) /\ r \notin running
WaitsForConnection(r) == r \in running /\ Queries(r) /\ r \notin holding
ThreadFree     == Cardinality(running) < Threads
ConnectionFree == Cardinality(holding) < Connections

Init ==
    /\ at = [r \in Request |-> 0]
    /\ running = {} /\ holding = {} /\ committed = {}
    /\ outcome = [r \in Request |-> "open"]

TakeThread(r) ==
    /\ WaitsForThread(r) /\ ThreadFree
    /\ running' = running \cup {r}
    /\ UNCHANGED <<at, holding, committed, outcome>>

(* The first statement after a begin or a commit checks a connection out.  *)
Checkout(r) ==
    /\ WaitsForConnection(r) /\ ConnectionFree
    /\ holding' = holding \cup {r}
    /\ UNCHANGED <<at, running, committed, outcome>>

(* Mutant: a checkout that times out is tried again. *)
CheckoutAgain(r) ==
    WaitsForConnection(r) /\ ~ConnectionFree /\ UNCHANGED vars

(* QueuePool.pool_timeout: the checkout raises TimeoutError, a 500.        *)
CheckoutTimeout(r) ==
    /\ WaitsForConnection(r) /\ ~ConnectionFree
    /\ running' = running \ {r}
    /\ outcome' = [outcome EXCEPT ![r] = "closing"]
    /\ UNCHANGED <<at, holding, committed>>

(* Session.commit gives the connection back before db.refresh, still in    *)
(* the same thread, asks for one again.                                    *)
Commit(r) ==
    /\ r \in running \cap holding
    /\ Step(r) = "endpoint" /\ r \notin committed
    /\ holding' = holding \ {r}
    /\ committed' = committed \cup {r}
    /\ UNCHANGED <<at, running, outcome>>

(* The function returns; a delete returns right after its commit. *)
Return(r) ==
    /\ r \in running
    /\ ~WaitsForConnection(r) \/ r \in committed
    /\ at' = [at EXCEPT ![r] = @ + 1]
    /\ running' = running \ {r}
    /\ outcome' = [outcome EXCEPT ![r] =
                     IF at[r] + 1 = Len(Plan[Kind[r]]) THEN "closing" ELSE @]
    /\ UNCHANGED <<holding, committed>>

(* It raises instead: 401, 403, 404, 409, a serialisation error. *)
Raise(r) ==
    /\ r \in running /\ Step(r) # "open" /\ ~WaitsForConnection(r)
    /\ running' = running \ {r}
    /\ outcome' = [outcome EXCEPT ![r] = "closing"]
    /\ UNCHANGED <<at, holding, committed>>

(* Mutant: get_db forgets its finally. *)
CloseLeaks(r) ==
    /\ outcome[r] = "closing"
    /\ outcome' = [outcome EXCEPT ![r] = "ended"]
    /\ UNCHANGED <<at, running, holding, committed>>

(* get_db's finally runs in a thread outside the limiter, so that giving a *)
(* connection back never waits for a thread.                               *)
Close(r) ==
    /\ outcome[r] = "closing"
    /\ outcome' = [outcome EXCEPT ![r] = "ended"]
    /\ holding' = holding \ {r}
    /\ UNCHANGED <<at, running, committed>>

RequestStep(r) ==
    TakeThread(r) \/ Checkout(r) \/ Commit(r) \/ Return(r) \/ Raise(r)
        \/ Close(r)

Turn(r) == RequestStep(r) \/ CheckoutTimeout(r)

Done == (\A r \in Request : outcome[r] = "ended") /\ UNCHANGED vars

Next == (\E r \in Request : Turn(r)) \/ Done

Spec == Init /\ [][Next]_vars

(* A free thread or connection goes to a waiting request, a thread runs on, *)
(* and pool_timeout ends every wait for a connection.                      *)
FairSpec == Spec /\ \A r \in Request : WF_vars(Turn(r))

---------------------------------------------------------------------------
TypeOK ==
    /\ at \in [Request -> Nat]
    /\ running \subseteq Request /\ holding \subseteq Request
    /\ committed \subseteq Request
    /\ outcome \in [Request -> {"open", "closing", "ended"}]

(* The limits hold, an open request has a function still to run, a thread  *)
(* serves only an open request, and an ended request keeps nothing: get_db *)
(* returns the connection on every path out, 401s, 403s and timeouts too.  *)
Accounted ==
    /\ Cardinality(running) <= Threads
    /\ Cardinality(holding) <= Connections
    /\ \A r \in running : outcome[r] = "open"
    /\ \A r \in Request : outcome[r] = "open" => at[r] < Len(Plan[Kind[r]])
    /\ \A r \in Request : outcome[r] = "ended" => r \notin holding

(* A request that can go on without waiting for any other. *)
CanProceed(r) ==
    \/ outcome[r] = "closing"
    \/ WaitsForThread(r) /\ ThreadFree
    \/ WaitsForConnection(r) /\ ConnectionFree
    \/ r \in running /\ ~WaitsForConnection(r)

InFlight == {r \in Request : outcome[r] # "ended"}

(* Whenever a process has fewer requests in flight than threads and        *)
(* connections together, they do not all wait for one another in a circle: *)
(* some request goes on without a checkout timing out. (50 at the default  *)
(* sizes; the 200 clients of the load test over 6 processes make 34.)      *)
NoStall ==
    InFlight # {} /\ Cardinality(InFlight) < Threads + Connections =>
        \E r \in Request : CanProceed(r)

(* Whatever the load, every request ends: pool_timeout breaks the circle   *)
(* in which those with a thread wait for a connection and those with a     *)
(* connection wait for a thread.                                           *)
EveryRequestEnds == \A r \in Request : <>(outcome[r] = "ended")
=============================================================================
