------------------------------ MODULE Accounts ------------------------------
(***************************************************************************)
(* Registration, login and the authentication of every other request:      *)
(* app/api/routes/auth.py, app/api/deps.py and app/core/security.py over   *)
(* the users table. Accounts are disabled, promoted and removed by an      *)
(* operator, directly in the database, at any moment.                      *)
(***************************************************************************)
EXTENDS Naturals, FiniteSets, Functions

CONSTANTS
    Address,    \* e-mail addresses as people type them
    Lower,      \* the lower-case form of each
    Password,
    Request,
    Calls,      \* the calls clients may make
    None,       \* no row
    MaxUsers,   \* bound: how far the users.id sequence runs
    MaxChanges  \* bound: how many changes the operator makes

UserId == 1..MaxUsers
Row    == [email : Address, password : Password, active : BOOLEAN,
           admin : BOOLEAN]
Call   == [op : {"register", "login"}, address : Address, password : Password]
            \cup [op : {"me", "moderate"}, user : UserId]

ASSUME AccountAssumption ==
    /\ Lower \in [Address -> Address]
    /\ \A a \in Address : Lower[Lower[a]] = Lower[a]
    /\ MaxUsers \in Nat /\ MaxChanges \in Nat
    /\ Calls \subseteq Call

VARIABLES
    users,    \* the users table, by id
    lastId,   \* the users.id sequence
    tokens,   \* tokens handed out: <<subject, still before "exp">>
    changes,  \* how often the operator has acted
    call,     \* what each request asks for
    req,      \* what each request holds between its steps
    since     \* history: the rows its account has had since it arrived

vars == <<users, lastId, tokens, changes, call, req, since>>

ReqState == [pc : {"new", "insert", "refresh", "select", "verify", "decode",
                   "load", "act", "done"},
             user : UserId \cup {0}, row : Row \cup {None},
             reply : {0, 200, 201, 401, 403, 409, 500}]

Init ==
    /\ users = <<>> /\ lastId = 0 /\ tokens = {} /\ changes = 0
    /\ call \in [Request -> Calls]
    /\ req = [r \in Request |-> [pc |-> "new", user |-> 0, row |-> None,
                                 reply |-> 0]]
    /\ since = [r \in Request |-> {}]

Goto(r, step) == req' = [req EXCEPT ![r].pc = step]
Answer(r, code) == req' = [req EXCEPT ![r].pc = "done", ![r].reply = code]

WithEmail(a) == {u \in DOMAIN users : users[u].email = a}

FirstStep == [register |-> "insert", login |-> "select", me |-> "decode",
              moderate |-> "decode"]

Arrive(r) ==
    /\ req[r].pc = "new"
    /\ Goto(r, FirstStep[call[r].op])
    /\ UNCHANGED <<users, lastId, tokens, changes, call>>

---------------------------------------------------------------------------
(* POST /auth/register.                                                    *)

(* Mutant: the address is stored as typed. *)
InsertAsTyped(r) ==
    /\ req[r].pc = "insert"
    /\ lastId < MaxUsers
    /\ lastId' = lastId + 1
    /\ LET c == call[r] IN
       IF WithEmail(c.address) = {}
       THEN /\ users' = [u \in DOMAIN users \cup {lastId'} |->
                           IF u = lastId' THEN [email |-> c.address,
                                                password |-> c.password,
                                                active |-> TRUE, admin |-> FALSE]
                           ELSE users[u]]
            /\ req' = [req EXCEPT ![r].pc = "refresh", ![r].user = lastId']
       ELSE UNCHANGED users /\ Answer(r, 409)
    /\ UNCHANGED <<tokens, changes, call>>

(* Mutant: an id given back by a removal is used again. *)
InsertReusingIds(r) ==
    /\ req[r].pc = "insert"
    /\ DOMAIN users # UserId
    /\ LET c == call[r]
           new == CHOOSE u \in UserId : /\ u \notin DOMAIN users
                                        /\ \A v \in UserId \ DOMAIN users : u <= v
       IN  IF WithEmail(Lower[c.address]) = {}
           THEN /\ users' = [u \in DOMAIN users \cup {new} |->
                               IF u = new THEN [email |-> Lower[c.address],
                                                password |-> c.password,
                                                active |-> TRUE, admin |-> FALSE]
                               ELSE users[u]]
                /\ req' = [req EXCEPT ![r].pc = "refresh", ![r].user = new]
           ELSE UNCHANGED users /\ Answer(r, 409)
    /\ UNCHANGED <<lastId, tokens, changes, call>>

(* INSERT and COMMIT: the unique index on email lets one of two concurrent *)
(* inserts through and makes the other an IntegrityError, whose id is lost.*)
Insert(r) ==
    /\ req[r].pc = "insert"
    /\ lastId < MaxUsers
    /\ lastId' = lastId + 1
    /\ LET c == call[r] IN
       IF WithEmail(Lower[c.address]) = {}
       THEN /\ users' = [u \in DOMAIN users \cup {lastId'} |->
                           IF u = lastId' THEN [email |-> Lower[c.address],
                                                password |-> c.password,
                                                active |-> TRUE, admin |-> FALSE]
                           ELSE users[u]]
            /\ req' = [req EXCEPT ![r].pc = "refresh", ![r].user = lastId']
       ELSE UNCHANGED users /\ Answer(r, 409)
    /\ UNCHANGED <<tokens, changes, call>>

Refresh(r) ==
    /\ req[r].pc = "refresh"
    /\ Answer(r, IF req[r].user \in DOMAIN users THEN 201 ELSE 500)
    /\ UNCHANGED <<users, lastId, tokens, changes, call>>

---------------------------------------------------------------------------
(* POST /auth/login.                                                       *)

Select(r) ==
    /\ req[r].pc = "select"
    /\ LET found == WithEmail(Lower[call[r].address]) IN
       IF found = {} THEN Answer(r, 401)
       ELSE \E u \in found :
               req' = [req EXCEPT ![r].pc = "verify", ![r].user = u,
                                  ![r].row = users[u]]
    /\ UNCHANGED <<users, lastId, tokens, changes, call>>

(* Checks what was selected, while the account may change: a token handed  *)
(* out to an account disabled meanwhile has to be useless.                 *)
Verify(r) ==
    /\ req[r].pc = "verify"
    /\ \/ req[r].row.password # call[r].password
             /\ Answer(r, 401) /\ UNCHANGED tokens
       \/ req[r].row.password = call[r].password /\ ~req[r].row.active
             /\ Answer(r, 403) /\ UNCHANGED tokens
       \/ req[r].row.password = call[r].password /\ req[r].row.active
             /\ Answer(r, 200) /\ tokens' = tokens \cup {<<req[r].user, TRUE>>}
    /\ UNCHANGED <<users, lastId, changes, call>>

(* Every token of the user handed out so far reaches its "exp". *)
Expire(u) ==
    /\ <<u, TRUE>> \in tokens
    /\ tokens' = (tokens \ {<<u, TRUE>>}) \cup {<<u, FALSE>>}
    /\ UNCHANGED <<users, lastId, changes, call, req>>

---------------------------------------------------------------------------
(* get_current_user and get_current_admin in front of every other request. *)

Decode(r) ==
    /\ req[r].pc = "decode"
    /\ \/ <<call[r].user, TRUE>> \in tokens /\ Goto(r, "load")
       \/ Answer(r, 401)    \* no token, an expired one, or none valid
    /\ UNCHANGED <<users, lastId, tokens, changes, call>>

(* Mutant: the token is believed, the row not looked at. *)
LoadWithoutCheck(r) ==
    /\ req[r].pc = "load"
    /\ IF call[r].user \in DOMAIN users
       THEN req' = [req EXCEPT ![r].pc = "act", ![r].user = call[r].user,
                               ![r].row = users[call[r].user]]
       ELSE Answer(r, 401)
    /\ UNCHANGED <<users, lastId, tokens, changes, call>>

Load(r) ==
    /\ req[r].pc = "load"
    /\ LET u == call[r].user IN
       IF u \in DOMAIN users /\ users[u].active
       THEN req' = [req EXCEPT ![r].pc = "act", ![r].user = u,
                               ![r].row = users[u]]
       ELSE Answer(r, 401)
    /\ UNCHANGED <<users, lastId, tokens, changes, call>>

(* get_current_admin looks at the row get_current_user loaded. *)
Act(r) ==
    /\ req[r].pc = "act"
    /\ Answer(r, IF call[r].op = "moderate" /\ ~req[r].row.admin
                 THEN 403 ELSE 200)
    /\ UNCHANGED <<users, lastId, tokens, changes, call>>

---------------------------------------------------------------------------
(* The operator.                                                           *)

Change(u, active, admin) ==
    /\ changes < MaxChanges
    /\ changes' = changes + 1
    /\ u \in DOMAIN users
    /\ users' = [users EXCEPT ![u].active = active, ![u].admin = admin]
    /\ UNCHANGED <<lastId, tokens, call, req>>

Remove(u) ==
    /\ changes < MaxChanges
    /\ changes' = changes + 1
    /\ u \in DOMAIN users
    /\ users' = Restrict(users, DOMAIN users \ {u})
    /\ UNCHANGED <<lastId, tokens, call, req>>

Turn(r) ==
    Arrive(r) \/ Insert(r) \/ Refresh(r) \/ Select(r) \/ Verify(r)
        \/ Decode(r) \/ Load(r) \/ Act(r)

Done == (\A r \in Request : req[r].pc = "done") /\ UNCHANGED vars

Operation ==
    \/ \E r \in Request : Turn(r)
    \/ \E u \in UserId : \/ Expire(u) \/ Remove(u)
                         \/ \E active, admin \in BOOLEAN : Change(u, active, admin)

(* The history follows every step. *)
Witness ==
    since' = [r \in Request |->
                IF /\ call[r].op \in {"me", "moderate"}
                   /\ req'[r].pc # "new" /\ call[r].user \in DOMAIN users'
                THEN since[r] \cup {users'[call[r].user]} ELSE since[r]]

Next == (Operation /\ Witness) \/ Done

Spec == Init /\ [][Next]_vars

---------------------------------------------------------------------------
TypeOK ==
    /\ DOMAIN users \subseteq 1..lastId /\ lastId \in 0..MaxUsers
    /\ \A u \in DOMAIN users : users[u] \in Row
    /\ tokens \subseteq UserId \X BOOLEAN
    /\ changes \in 0..MaxChanges
    /\ call \in [Request -> Calls]
    /\ req \in [Request -> ReqState]
    /\ since \in [Request -> SUBSET Row]

(* However two people spell an address and however their registrations     *)
(* race, one of them gets the account: addresses that differ only in case  *)
(* never have two accounts, nor two 201s while the first account exists.   *)
OneAccountPerAddress ==
    /\ \A u, v \in DOMAIN users :
          Lower[users[u].email] = Lower[users[v].email] => u = v
    /\ \A r, s \in Request :
          /\ call[r].op = "register" /\ req[r].reply = 201
          /\ call[s].op = "register" /\ req[s].reply = 201
          /\ Lower[call[r].address] = Lower[call[s].address]
          /\ req[r].user \in DOMAIN users /\ req[s].user \in DOMAIN users
          => r = s

(* A request acts only for an account that was active, and an admin where  *)
(* that is asked, at some moment since the request arrived: disabling or   *)
(* demoting an account works at once on every token it holds, the one a    *)
(* login racing with the change still hands out included.                  *)
ActsOnlyIfEntitled ==
    \A r \in Request :
        call[r].op \in {"me", "moderate"} /\ req[r].reply = 200 =>
            \E row \in since[r] :
                row.active /\ (call[r].op = "moderate" => row.admin)

(* A token never works for another account than the one whose password     *)
(* bought it, not even after that account was removed and its address      *)
(* registered again: whoever acts as a user holds a token some login with  *)
(* that user's address and password obtained.                              *)
TokenStaysWithHolder ==
    \A r \in Request :
        call[r].op \in {"me", "moderate"} /\ req[r].reply = 200 =>
            \E s \in Request :
                /\ call[s].op = "login" /\ req[s].reply = 200
                /\ Lower[call[s].address] = req[r].row.email
                /\ call[s].password = req[r].row.password
=============================================================================
