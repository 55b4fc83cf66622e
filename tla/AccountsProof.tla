--------------------------- MODULE AccountsProof ---------------------------
(***************************************************************************)
(* Accounts, tokens and what they allow, for every number of users,        *)
(* addresses, requests and changes by the operator.                        *)
(***************************************************************************)
EXTENDS Accounts, TLAPS

---------------------------------------------------------------------------
(* The inductive invariant. An id, once given, never stands for another    *)
(* account: whatever a request has selected or inserted keeps its address  *)
(* and password as long as the account is there.                           *)

Acting == {"me", "moderate"}

\* An insert that went through, a login past its SELECT, a login answered
\* with a token.
Registered(r) == call[r].op = "register" /\ (req[r].pc = "refresh" \/ req[r].reply = 201)
Selected(r)   == call[r].op = "login" /\ (req[r].pc = "verify" \/ req[r].reply = 200)
LoggedIn(r)   == call[r].op = "login" /\ req[r].reply = 200

(* Which call is at which step. *)
AtStep(r) ==
    /\ req[r].pc # "done" => req[r].reply = 0
    /\ req[r].pc \in {"insert", "refresh"} => call[r].op = "register"
    /\ req[r].pc \in {"select", "verify"} => call[r].op = "login"
    /\ req[r].pc \in {"decode", "load", "act"} => call[r].op \in Acting

AddressesDistinct ==
    /\ \A u \in DOMAIN users : Lower[users[u].email] = users[u].email
    /\ \A u, v \in DOMAIN users : users[u].email = users[v].email => u = v

Registrations ==
    /\ \A r \in Request : Registered(r) =>
          /\ req[r].user \in 1..lastId
          /\ req[r].user \in DOMAIN users =>
                users[req[r].user].email = Lower[call[r].address]
    /\ \A r, s \in Request :
          Registered(r) /\ Registered(s) /\ req[r].user = req[s].user => r = s

(* Every token was bought with the password of the account it names. *)
Tokens ==
    /\ \A r \in Request : Selected(r) =>
          /\ req[r].row \in Row /\ req[r].user \in 1..lastId
          /\ req[r].row.email = Lower[call[r].address]
          /\ req[r].reply = 200 => req[r].row.password = call[r].password
          /\ req[r].user \in DOMAIN users =>
                /\ users[req[r].user].email = req[r].row.email
                /\ users[req[r].user].password = req[r].row.password
    /\ \A t \in tokens : \E s \in Request : LoggedIn(s) /\ req[s].user = t[1]

Holder(row) ==
    \E s \in Request : /\ LoggedIn(s) /\ Lower[call[s].address] = row.email
                       /\ call[s].password = row.password

Entitled(r) ==
    call[r].op \in Acting =>
        /\ req[r].pc = "load" => \E t \in tokens : t[1] = call[r].user
        /\ req[r].pc = "act" \/ req[r].reply = 200 =>
              /\ req[r].row \in since[r] /\ req[r].row.active
              /\ req[r].reply = 200 /\ call[r].op = "moderate" => req[r].row.admin
              /\ Holder(req[r].row)

AccountInv ==
    /\ TypeOK /\ AddressesDistinct /\ Registrations /\ Tokens
    /\ \A r \in Request : AtStep(r) /\ Entitled(r)

---------------------------------------------------------------------------
(* Types.                                                                  *)

LEMMA CallTypes ==
    ASSUME TypeOK, NEW r \in Request
    PROVE  /\ call[r].op \in {"register", "login", "me", "moderate"}
           /\ call[r].op \in {"register", "login"} =>
                 call[r].address \in Address /\ call[r].password \in Password
           /\ call[r].op \in Acting => call[r].user \in UserId
           /\ Lower \in [Address -> Address]
           /\ \A a \in Address : Lower[Lower[a]] = Lower[a]
<1>1. call[r] \in Call
  BY AccountAssumption DEF TypeOK
<1> QED
  BY <1>1, AccountAssumption DEF Call, Acting

(* Updating fields of a request within their types. *)
Steps   == {"new", "insert", "refresh", "select", "verify", "decode", "load", "act",
            "done"}
Replies == {0, 200, 201, 401, 403, 409, 500}

LEMMA StepSet ==
    ASSUME NEW q \in ReqState, NEW step \in Steps
    PROVE  /\ [q EXCEPT !.pc = step] \in ReqState
           /\ [q EXCEPT !.pc = step].pc = step
           /\ [q EXCEPT !.pc = step].user = q.user
           /\ [q EXCEPT !.pc = step].row = q.row
           /\ [q EXCEPT !.pc = step].reply = q.reply
  BY DEF ReqState, Steps

LEMMA ReplySet ==
    ASSUME NEW q \in ReqState, NEW code \in Replies
    PROVE  /\ [q EXCEPT !.reply = code] \in ReqState
           /\ [q EXCEPT !.reply = code].reply = code
           /\ [q EXCEPT !.reply = code].user = q.user
           /\ [q EXCEPT !.reply = code].row = q.row
           /\ [q EXCEPT !.reply = code].pc = q.pc
  BY DEF ReqState, Replies

LEMMA UserSet ==
    ASSUME NEW q \in ReqState, NEW u \in UserId
    PROVE  /\ [q EXCEPT !.user = u] \in ReqState
           /\ [q EXCEPT !.user = u].user = u
           /\ [q EXCEPT !.user = u].pc = q.pc
           /\ [q EXCEPT !.user = u].row = q.row
           /\ [q EXCEPT !.user = u].reply = q.reply
  BY DEF ReqState

LEMMA RowSet ==
    ASSUME NEW q \in ReqState, NEW row \in Row
    PROVE  /\ [q EXCEPT !.row = row] \in ReqState
           /\ [q EXCEPT !.row = row].row = row
           /\ [q EXCEPT !.row = row].pc = q.pc
           /\ [q EXCEPT !.row = row].user = q.user
           /\ [q EXCEPT !.row = row].reply = q.reply
  BY DEF ReqState

(* What each step of a request does to it, field by field; the others stay *)
(* where they are.                                                         *)
Others(r) ==
    /\ req' \in [Request -> ReqState] /\ call' = call
    /\ \A s \in Request : s # r => req'[s] = req[s]

Answered(r, codes) ==
    /\ req'[r].pc = "done" /\ req'[r].reply \in codes
    /\ req'[r].user = req[r].user /\ req'[r].row = req[r].row

LEMMA Answers ==
    ASSUME TypeOK, NEW r \in Request, NEW code \in Replies, Answer(r, code),
           call' = call
    PROVE  Others(r) /\ Answered(r, {code})
<1>1. req[r] \in ReqState /\ req \in [Request -> ReqState]
  BY DEF TypeOK
<1>0. "done" \in Steps
  BY DEF Steps
<1> DEFINE p == [req[r] EXCEPT !.pc = "done"]
           q == [p EXCEPT !.reply = code]
<1>2. p \in ReqState /\ p.pc = "done" /\ p.user = req[r].user /\ p.row = req[r].row
  BY <1>0, <1>1, StepSet
<1>2a. req' = [req EXCEPT ![r].pc = "done", ![r].reply = code]
  BY DEF Answer
<1>3. req' = [req EXCEPT ![r] = q]
  BY <1>1, <1>2a
<1> HIDE DEF p
<1>4. q \in ReqState /\ q.pc = "done" /\ q.reply = code /\ q.user = req[r].user
         /\ q.row = req[r].row
  BY <1>0, <1>2, ReplySet
<1> HIDE DEF q
<1> QED
  BY <1>1, <1>3, <1>4 DEF Others, Answered

LEMMA Goes ==
    ASSUME TypeOK, NEW r \in Request,
           NEW step \in {"insert", "select", "decode", "load"},
           Goto(r, step), call' = call
    PROVE  /\ Others(r)
           /\ req'[r].pc = step /\ req'[r].reply = req[r].reply
           /\ req'[r].user = req[r].user /\ req'[r].row = req[r].row
<1>1. req[r] \in ReqState /\ req \in [Request -> ReqState]
  BY DEF TypeOK
<1>0. step \in Steps
  BY DEF Steps
<1> DEFINE q == [req[r] EXCEPT !.pc = step]
<1>2. q \in ReqState /\ q.pc = step /\ q.reply = req[r].reply /\ q.user = req[r].user
         /\ q.row = req[r].row
  BY <1>0, <1>1, StepSet
<1>3. req' = [req EXCEPT ![r] = q]
  BY <1>1 DEF Goto
<1> HIDE DEF q
<1> QED
  BY <1>1, <1>2, <1>3 DEF Others

(* A step that takes a row of the table with it. *)
TakesRow(r, step, u) ==
    req' = [req EXCEPT ![r].pc = step, ![r].user = u, ![r].row = users[u]]

LEMMA Takes ==
    ASSUME TypeOK, NEW r \in Request, NEW step \in {"verify", "act"},
           NEW u \in DOMAIN users, call' = call, TakesRow(r, step, u)
    PROVE  /\ Others(r)
           /\ req'[r].pc = step /\ req'[r].reply = req[r].reply
           /\ req'[r].user = u /\ req'[r].row = users[u]
<1>1. req[r] \in ReqState /\ req \in [Request -> ReqState]
  BY DEF TypeOK
<1>2. u \in UserId /\ users[u] \in Row
  BY AccountAssumption DEF TypeOK, UserId
<1> DEFINE row == users[u]
           p == [req[r] EXCEPT !.pc = step]
           w == [p EXCEPT !.user = u]
           q == [w EXCEPT !.row = row]
<1>3. req' = [req EXCEPT ![r] = q]
  BY <1>1 DEF TakesRow
<1>4. row \in Row
  BY <1>2
<1>0. step \in Steps
  BY DEF Steps
<1>5. p \in ReqState /\ p.pc = step /\ p.reply = req[r].reply
  BY <1>0, <1>1, StepSet
<1> HIDE DEF row, p
<1>6. w \in ReqState /\ w.pc = step /\ w.reply = req[r].reply /\ w.user = u
  BY <1>2, <1>5, UserSet
<1> HIDE DEF w
<1>7. q \in ReqState /\ q.pc = step /\ q.reply = req[r].reply /\ q.user = u /\ q.row = row
  BY <1>4, <1>6, RowSet
<1> HIDE DEF q
<1>8. Others(r) /\ req'[r] = q
  BY <1>1, <1>3, <1>7 DEF Others
<1> QED
  BY <1>7, <1>8 DEF row

LEMMA ArriveStep ==
    ASSUME TypeOK, NEW r \in Request, Arrive(r)
    PROVE  /\ Others(r) /\ UNCHANGED <<users, lastId, tokens, changes>>
           /\ req[r].pc = "new" /\ req'[r].reply = req[r].reply
           /\ \/ req'[r].pc = "insert" /\ call[r].op = "register"
              \/ req'[r].pc = "select" /\ call[r].op = "login"
              \/ req'[r].pc = "decode" /\ call[r].op \in Acting
<1> DEFINE step == FirstStep[call[r].op]
<1>1. \/ step = "insert" /\ call[r].op = "register"
      \/ step = "select" /\ call[r].op = "login"
      \/ step = "decode" /\ call[r].op \in Acting
  BY CallTypes DEF FirstStep, Acting
<1>2. Goto(r, step) /\ call' = call /\ req[r].pc = "new"
         /\ UNCHANGED <<users, lastId, tokens, changes>>
  BY DEF Arrive
<1> HIDE DEF step
<1>3. step \in {"insert", "select", "decode", "load"}
  BY <1>1
<1>4. Others(r) /\ req'[r].pc = step /\ req'[r].reply = req[r].reply
  BY <1>2, <1>3, Goes
<1> QED
  BY <1>1, <1>2, <1>4

(* An insert either finds the address taken or adds a row under a new id.  *)
LEMMA InsertStep ==
    ASSUME TypeOK, NEW r \in Request, Insert(r), call[r].op = "register"
    PROVE  /\ Others(r) /\ UNCHANGED <<tokens, changes>>
           /\ req[r].pc = "insert"
           /\ lastId \in Nat /\ lastId' = lastId + 1 /\ lastId' \in 0..MaxUsers
           /\ \/ UNCHANGED users /\ Answered(r, {409})
              \/ /\ DOMAIN users' = DOMAIN users \cup {lastId'}
                 /\ \A u \in DOMAIN users : users'[u] = users[u]
                 /\ users'[lastId'] \in Row
                 /\ users'[lastId'].email = Lower[call[r].address]
                 /\ \A u \in DOMAIN users : users[u].email # Lower[call[r].address]
                 /\ req'[r].pc = "refresh" /\ req'[r].user = lastId'
                 /\ req'[r].reply = req[r].reply
<1>1. req[r] \in ReqState /\ req \in [Request -> ReqState]
  BY DEF TypeOK
<1>2. /\ UNCHANGED <<tokens, changes>> /\ call' = call /\ req[r].pc = "insert"
      /\ lastId \in Nat /\ lastId' = lastId + 1 /\ lastId' \in 0..MaxUsers
      /\ lastId' \in UserId
  BY AccountAssumption DEF Insert, TypeOK, UserId
<1>3. /\ call[r].address \in Address /\ call[r].password \in Password
      /\ Lower[call[r].address] \in Address
  BY CallTypes
<1>4. CASE WithEmail(Lower[call[r].address]) = {}
  <2> DEFINE row == [email |-> Lower[call[r].address], password |-> call[r].password,
                     active |-> TRUE, admin |-> FALSE]
             p == [req[r] EXCEPT !.pc = "refresh"]
             q == [p EXCEPT !.user = lastId']
  <2>1. row \in Row /\ row.email = Lower[call[r].address]
    BY <1>3 DEF Row
  <2>2. /\ users' = [u \in DOMAIN users \cup {lastId'} |->
                       IF u = lastId' THEN row ELSE users[u]]
        /\ req' = [req EXCEPT ![r].pc = "refresh", ![r].user = lastId']
    BY <1>4 DEF Insert
  <2>3. req' = [req EXCEPT ![r] = q]
    BY <1>1, <2>2
  <2>9. p \in ReqState /\ p.pc = "refresh" /\ p.reply = req[r].reply
    BY <1>1, StepSet DEF Steps
  <2> HIDE DEF row, p
  <2>4. /\ q.pc = "refresh" /\ q.user = lastId' /\ q.reply = req[r].reply
        /\ q \in ReqState
    BY <1>2, <2>9, UserSet
  <2> HIDE DEF q
  <2>5. lastId' \notin DOMAIN users
    BY <1>2 DEF TypeOK
  <2>6. \A u \in DOMAIN users : users[u].email # Lower[call[r].address]
    BY <1>4 DEF WithEmail
  <2>7. /\ DOMAIN users' = DOMAIN users \cup {lastId'}
        /\ \A u \in DOMAIN users : users'[u] = users[u]
        /\ users'[lastId'] = row
    BY <2>2, <2>5
  <2>8. Others(r) /\ req'[r] = q
    BY <1>1, <1>2, <2>3, <2>4 DEF Others
  <2> QED
    BY <1>2, <2>1, <2>4, <2>6, <2>7, <2>8
<1>5. CASE WithEmail(Lower[call[r].address]) # {}
  <2>1. UNCHANGED users /\ Answer(r, 409)
    BY <1>5 DEF Insert
  <2> QED
    BY <1>2, <2>1, Answers DEF Replies
<1> QED
  BY <1>4, <1>5

LEMMA RefreshStep ==
    ASSUME TypeOK, NEW r \in Request, Refresh(r)
    PROVE  /\ Others(r) /\ UNCHANGED <<users, lastId, tokens, changes>>
           /\ req[r].pc = "refresh" /\ Answered(r, {201, 500})
<1>1. PICK code \in {201, 500} : Answer(r, code)
  BY DEF Refresh
<1>2. call' = call /\ UNCHANGED <<users, lastId, tokens, changes>>
         /\ req[r].pc = "refresh"
  BY DEF Refresh
<1>3. Others(r) /\ Answered(r, {code})
  BY <1>1, <1>2, Answers DEF Replies
<1> QED
  BY <1>2, <1>3 DEF Answered

LEMMA SelectStep ==
    ASSUME TypeOK, NEW r \in Request, Select(r)
    PROVE  /\ Others(r) /\ UNCHANGED <<users, lastId, tokens, changes>>
           /\ req[r].pc = "select"
           /\ \/ Answered(r, {401})
              \/ /\ req'[r].pc = "verify" /\ req'[r].reply = req[r].reply
                 /\ req'[r].user \in DOMAIN users
                 /\ req'[r].row = users[req'[r].user]
                 /\ req'[r].row.email = Lower[call[r].address]
<1>1. call' = call /\ UNCHANGED <<users, lastId, tokens, changes>>
         /\ req[r].pc = "select"
  BY DEF Select
<1>2. CASE Answer(r, 401)
  BY <1>1, <1>2, Answers DEF Replies
<1>3. CASE \E u \in WithEmail(Lower[call[r].address]) :
              req' = [req EXCEPT ![r].pc = "verify", ![r].user = u, ![r].row = users[u]]
  <2>1. PICK u \in WithEmail(Lower[call[r].address]) :
           req' = [req EXCEPT ![r].pc = "verify", ![r].user = u, ![r].row = users[u]]
    BY <1>3
  <2>2. u \in DOMAIN users /\ users[u].email = Lower[call[r].address]
    BY DEF WithEmail
  <2> QED
    BY <1>1, <2>1, <2>2, Takes DEF TakesRow
<1> QED
  BY <1>2, <1>3 DEF Select

LEMMA VerifyStep ==
    ASSUME TypeOK, NEW r \in Request, Verify(r)
    PROVE  /\ Others(r) /\ UNCHANGED <<users, lastId, changes>>
           /\ req[r].pc = "verify"
           /\ \/ UNCHANGED tokens /\ Answered(r, {401, 403})
              \/ /\ req[r].row.password = call[r].password
                 /\ Answered(r, {200}) /\ tokens' = tokens \cup {<<req[r].user, TRUE>>}
<1>1. call' = call /\ UNCHANGED <<users, lastId, changes>> /\ req[r].pc = "verify"
  BY DEF Verify
<1>2. CASE UNCHANGED tokens /\ \E code \in {401, 403} : Answer(r, code)
  <2>1. PICK code \in {401, 403} : Answer(r, code)
    BY <1>2
  <2>2. Others(r) /\ Answered(r, {code})
    BY <1>1, <2>1, Answers DEF Replies
  <2>3. Answered(r, {401, 403})
    BY <2>2 DEF Answered
  <2> QED
    BY <1>1, <1>2, <2>2, <2>3
<1>3. CASE /\ req[r].row.password = call[r].password /\ Answer(r, 200)
           /\ tokens' = tokens \cup {<<req[r].user, TRUE>>}
  <2>1. Others(r) /\ Answered(r, {200})
    BY <1>1, <1>3, Answers DEF Replies
  <2> QED
    BY <1>1, <1>3, <2>1
<1>4. \/ UNCHANGED tokens /\ (Answer(r, 401) \/ Answer(r, 403))
      \/ /\ req[r].row.password = call[r].password /\ Answer(r, 200)
         /\ tokens' = tokens \cup {<<req[r].user, TRUE>>}
  BY DEF Verify
<1>5. CASE UNCHANGED tokens /\ (Answer(r, 401) \/ Answer(r, 403))
  <2>1. \E code \in {401, 403} : Answer(r, code)
    BY <1>5
  <2> QED
    BY <1>2, <1>5, <2>1
<1> QED
  BY <1>3, <1>4, <1>5

LEMMA DecodeStep ==
    ASSUME TypeOK, NEW r \in Request, Decode(r)
    PROVE  /\ Others(r) /\ UNCHANGED <<users, lastId, tokens, changes>>
           /\ req[r].pc = "decode"
           /\ \/ Answered(r, {401})
              \/ /\ req'[r].pc = "load" /\ req'[r].reply = req[r].reply
                 /\ <<call[r].user, TRUE>> \in tokens
<1>1. call' = call /\ UNCHANGED <<users, lastId, tokens, changes>>
         /\ req[r].pc = "decode"
  BY DEF Decode
<1>2. CASE Answer(r, 401)
  BY <1>1, <1>2, Answers DEF Replies
<1>3. CASE <<call[r].user, TRUE>> \in tokens /\ Goto(r, "load")
  BY <1>1, <1>3, Goes
<1> QED
  BY <1>2, <1>3 DEF Decode

LEMMA LoadStep ==
    ASSUME TypeOK, NEW r \in Request, Load(r)
    PROVE  /\ Others(r) /\ UNCHANGED <<users, lastId, tokens, changes>>
           /\ req[r].pc = "load"
           /\ \/ Answered(r, {401})
              \/ /\ req'[r].pc = "act" /\ req'[r].reply = req[r].reply
                 /\ call[r].user \in DOMAIN users
                 /\ req'[r].row = users[call[r].user] /\ req'[r].row.active
<1>1. call' = call /\ UNCHANGED <<users, lastId, tokens, changes>> /\ req[r].pc = "load"
  BY DEF Load
<1>2. CASE Answer(r, 401)
  BY <1>1, <1>2, Answers DEF Replies
<1>3. CASE /\ call[r].user \in DOMAIN users /\ users[call[r].user].active
           /\ req' = [req EXCEPT ![r].pc = "act", ![r].user = call[r].user,
                                 ![r].row = users[call[r].user]]
  <2>1. /\ Others(r) /\ req'[r].pc = "act" /\ req'[r].reply = req[r].reply
        /\ req'[r].row = users[call[r].user]
    BY <1>1, <1>3, Takes DEF TakesRow
  <2> QED
    BY <1>1, <1>3, <2>1
<1> QED
  BY <1>2, <1>3 DEF Load

LEMMA ActStep ==
    ASSUME TypeOK, NEW r \in Request, Act(r)
    PROVE  /\ Others(r) /\ UNCHANGED <<users, lastId, tokens, changes>>
           /\ req[r].pc = "act" /\ Answered(r, {200, 403})
           /\ req'[r].reply = 200 /\ call[r].op = "moderate" => req[r].row.admin
<1>1. PICK code \in {200, 403} :
         /\ Answer(r, code)
         /\ code = 200 /\ call[r].op = "moderate" => req[r].row.admin
  BY DEF Act
<1>2. call' = call /\ UNCHANGED <<users, lastId, tokens, changes>> /\ req[r].pc = "act"
  BY DEF Act
<1>3. Others(r) /\ Answered(r, {code})
  BY <1>1, <1>2, Answers DEF Replies
<1> QED
  BY <1>1, <1>2, <1>3 DEF Answered

(* The operator changes no address and no password, and adds no row.       *)
Kept ==
    \A u \in DOMAIN users' :
        /\ u \in DOMAIN users /\ users'[u] \in Row
        /\ users'[u].email = users[u].email
        /\ users'[u].password = users[u].password

LEMMA OperatorStep ==
    ASSUME TypeOK, NEW u \in UserId,
           Remove(u) \/ \E active, admin \in BOOLEAN : Change(u, active, admin)
    PROVE  Kept /\ UNCHANGED <<lastId, tokens, call, req>> /\ changes' \in 0..MaxChanges
<1>1. CASE Remove(u)
  BY <1>1, AccountAssumption DEF Remove, Restrict, Kept, TypeOK
<1>2. CASE \E active, admin \in BOOLEAN : Change(u, active, admin)
  <2>1. PICK active \in BOOLEAN, admin \in BOOLEAN : Change(u, active, admin)
    BY <1>2
  <2>2. /\ UNCHANGED <<lastId, tokens, call, req>> /\ changes' \in 0..MaxChanges
        /\ users' = [users EXCEPT ![u].active = active, ![u].admin = admin]
        /\ u \in DOMAIN users
    <3>1. changes' = changes + 1 /\ changes < MaxChanges /\ changes \in 0..MaxChanges
      BY <2>1 DEF Change, TypeOK
    <3>2. changes' \in 0..MaxChanges
      BY <3>1, AccountAssumption
    <3> QED
      BY <2>1, <3>2 DEF Change
  <2>3. users[u] \in Row /\ \A v \in DOMAIN users : users[v] \in Row
    BY <2>2 DEF TypeOK
  <2> DEFINE p == [users[u] EXCEPT !.active = active]
             q == [p EXCEPT !.admin = admin]
  <2>4. users' = [users EXCEPT ![u] = q]
    BY <2>2
  <2>5. p \in Row /\ p.email = users[u].email /\ p.password = users[u].password
    BY <2>3 DEF Row
  <2> HIDE DEF p
  <2>6. q \in Row /\ q.email = users[u].email /\ q.password = users[u].password
    BY <2>5 DEF Row
  <2> HIDE DEF q
  <2> QED
    BY <2>2, <2>3, <2>4, <2>6 DEF Kept
<1> QED
  BY <1>1, <1>2

LEMMA TypesKept ==
    ASSUME TypeOK, NEW r \in Request, \A s \in Request : AtStep(s), Turn(r),
           Tokens
    PROVE  /\ Others(r) /\ changes' = changes
           /\ DOMAIN users' \subseteq 1..lastId' /\ lastId' \in 0..MaxUsers
           /\ \A u \in DOMAIN users' : users'[u] \in Row
           /\ tokens' \subseteq UserId \X BOOLEAN
<1> USE DEF TypeOK
<1>1. CASE Arrive(r)
  BY <1>1, ArriveStep
<1>2. CASE Insert(r)
  <2>1. call[r].op = "register"
    BY <1>2 DEF Insert, AtStep
  <2> QED
    BY <1>2, <2>1, InsertStep
<1>3. CASE Refresh(r)
  BY <1>3, RefreshStep
<1>4. CASE Select(r)
  BY <1>4, SelectStep
<1>5. CASE Verify(r)
  <2>1. req[r].pc = "verify" /\ call[r].op = "login"
    BY <1>5 DEF Verify, AtStep
  <2>2. req[r].user \in UserId
    BY <2>1, AccountAssumption DEF Tokens, Selected, UserId
  <2>3. <<req[r].user, TRUE>> \in UserId \X BOOLEAN
    BY <2>2
  <2>4. tokens' \subseteq UserId \X BOOLEAN
    <3>1. tokens' = tokens \/ tokens' = tokens \cup {<<req[r].user, TRUE>>}
      BY <1>5, VerifyStep
    <3> QED
      BY <2>3, <3>1
  <2> QED
    BY <1>5, <2>4, VerifyStep
<1>6. CASE Decode(r)
  BY <1>6, DecodeStep
<1>7. CASE Load(r)
  BY <1>7, LoadStep
<1>8. CASE Act(r)
  BY <1>8, ActStep
<1> QED
  BY <1>1, <1>2, <1>3, <1>4, <1>5, <1>6, <1>7, <1>8 DEF Turn

LEMMA TypeStep ==
    ASSUME AccountInv, Operation, Witness
    PROVE  TypeOK'
<1>0. TypeOK /\ Tokens /\ \A s \in Request : AtStep(s)
  BY DEF AccountInv
<1>1. /\ DOMAIN users' \subseteq 1..lastId' /\ lastId' \in 0..MaxUsers
      /\ \A u \in DOMAIN users' : users'[u] \in Row
      /\ tokens' \subseteq UserId \X BOOLEAN
      /\ changes' \in 0..MaxChanges
      /\ call' = call /\ req' \in [Request -> ReqState]
  <2>1. ASSUME NEW r \in Request, Turn(r) PROVE <1>1!:
    BY <1>0, <2>1, TypesKept DEF TypeOK, Others
  <2>2. ASSUME NEW u \in UserId, Expire(u) PROVE <1>1!:
    <3>1. /\ tokens' = (tokens \ {<<u, TRUE>>}) \cup {<<u, FALSE>>}
          /\ UNCHANGED <<users, lastId, changes, call, req>>
      BY <2>2 DEF Expire
    <3>2. <<u, FALSE>> \in UserId \X BOOLEAN
      OBVIOUS
    <3>3. tokens' \subseteq UserId \X BOOLEAN
      BY <1>0, <3>1, <3>2 DEF TypeOK
    <3> QED
      BY <1>0, <3>1, <3>3 DEF TypeOK
  <2>3. ASSUME NEW u \in UserId,
               Remove(u) \/ \E active, admin \in BOOLEAN : Change(u, active, admin)
        PROVE <1>1!:
    <3>1. Kept /\ UNCHANGED <<lastId, tokens, call, req>> /\ changes' \in 0..MaxChanges
      BY <1>0, <2>3, OperatorStep
    <3> QED
      BY <1>0, <3>1 DEF TypeOK, Kept
  <2> QED
    BY <2>1, <2>2, <2>3 DEF Operation
<1>2. since' \in [Request -> SUBSET Row]
  BY <1>0, <1>1 DEF Witness, TypeOK
<1> QED
  BY <1>0, <1>1, <1>2 DEF TypeOK

---------------------------------------------------------------------------
(* Addresses and ids.                                                      *)

(* An address has one account, whoever changes the table. *)
LEMMA AddressesStep ==
    ASSUME AccountInv, Operation
    PROVE  AddressesDistinct'
<1>0. TypeOK /\ \A s \in Request : AtStep(s)
  BY DEF AccountInv
<1>1. AddressesDistinct
  BY DEF AccountInv
<1>2. CASE UNCHANGED users
  BY <1>1, <1>2 DEF AddressesDistinct
<1>3. CASE Kept
  BY <1>1, <1>3 DEF AddressesDistinct, Kept
<1>4. ASSUME NEW r \in Request, Insert(r) PROVE AddressesDistinct'
  <2>1. call[r].op = "register"
    BY <1>0, <1>4 DEF Insert, AtStep
  <2>2. CASE UNCHANGED users
    BY <1>2, <2>2
  <2>3. CASE ~UNCHANGED users
    <3> DEFINE new == lastId'
    <3>1. /\ DOMAIN users' = DOMAIN users \cup {new}
          /\ \A u \in DOMAIN users : users'[u] = users[u]
          /\ users'[new].email = Lower[call[r].address]
          /\ \A u \in DOMAIN users : users[u].email # Lower[call[r].address]
      BY <1>0, <1>4, <2>1, <2>3, InsertStep
    <3>2. Lower[users'[new].email] = users'[new].email
      BY <1>0, <2>1, <3>1, CallTypes
    <3> HIDE DEF new
    <3> QED
      BY <1>1, <3>1, <3>2 DEF AddressesDistinct
  <2> QED
    BY <2>2, <2>3
<1>5. ASSUME NEW r \in Request, Turn(r), ~Insert(r) PROVE UNCHANGED users
  BY <1>5 DEF Turn, Arrive, Refresh, Select, Verify, Decode, Load, Act
<1>6. ASSUME NEW u \in UserId, Expire(u) PROVE UNCHANGED users
  BY <1>6 DEF Expire
<1> QED
  BY <1>0, <1>2, <1>3, <1>4, <1>5, <1>6, OperatorStep DEF Operation

(* A request that has its answer takes no further step. *)
LEMMA AnsweredStays ==
    ASSUME NEW r \in Request, Turn(r)
    PROVE  req[r].pc # "done"
  BY DEF Turn, Arrive, Insert, Refresh, Select, Verify, Decode, Load, Act

LEMMA NoTurn ==
    ASSUME TypeOK, Operation, ~\E r \in Request : Turn(r)
    PROVE  /\ UNCHANGED <<lastId, call, req>>
           /\ \/ Kept /\ UNCHANGED tokens
              \/ /\ UNCHANGED users
                 /\ \E u \in UserId : /\ <<u, TRUE>> \in tokens
                                      /\ tokens' = (tokens \ {<<u, TRUE>>}) \cup {<<u, FALSE>>}
<1>1. ASSUME NEW u \in UserId, Expire(u)
      PROVE  /\ UNCHANGED <<lastId, call, req, users>> /\ <<u, TRUE>> \in tokens
             /\ tokens' = (tokens \ {<<u, TRUE>>}) \cup {<<u, FALSE>>}
  BY <1>1 DEF Expire
<1>2. ASSUME NEW u \in UserId,
             Remove(u) \/ \E active, admin \in BOOLEAN : Change(u, active, admin)
      PROVE  Kept /\ UNCHANGED <<lastId, tokens, call, req>>
  BY <1>2, OperatorStep
<1> QED
  BY <1>1, <1>2 DEF Operation

LEMMA AtStepStep ==
    ASSUME AccountInv, Operation, NEW q \in Request
    PROVE  AtStep(q)'
<1>0. TypeOK /\ \A s \in Request : AtStep(s)
  BY DEF AccountInv
<1>1. CASE UNCHANGED <<call, req>>
  BY <1>0, <1>1 DEF AtStep
<1>2. ASSUME NEW r \in Request, Turn(r) PROVE AtStep(q)'
  <2>0. AtStep(r) /\ AtStep(q) /\ (Insert(r) => call[r].op = "register")
    BY <1>0 DEF AtStep, Insert
  <2>1. CASE q # r
    <3>1. Others(r)
      BY <1>2, <1>0, TypesKept DEF AccountInv
    <3> QED
      BY <2>0, <2>1, <3>1 DEF Others, AtStep
  <2>2. CASE q = r
    <3>1. CASE Arrive(r)
      BY <1>0, <2>0, <2>2, <3>1, ArriveStep DEF AtStep, Others
    <3>2. CASE Insert(r)
      BY <1>0, <2>0, <2>2, <3>2, InsertStep DEF AtStep, Answered, Others
    <3>3. CASE Refresh(r)
      BY <1>0, <2>0, <2>2, <3>3, RefreshStep DEF AtStep, Answered, Others
    <3>4. CASE Select(r)
      BY <1>0, <2>0, <2>2, <3>4, SelectStep DEF AtStep, Answered, Others
    <3>5. CASE Verify(r)
      <4>1. Others(r) /\ req'[r].pc = "done"
        BY <1>0, <3>5, VerifyStep DEF Answered
      <4> QED
        BY <2>2, <4>1 DEF AtStep
    <3>6. CASE Decode(r)
      BY <1>0, <2>0, <2>2, <3>6, DecodeStep DEF AtStep, Answered, Others
    <3>7. CASE Load(r)
      BY <1>0, <2>0, <2>2, <3>7, LoadStep DEF AtStep, Answered, Others
    <3>8. CASE Act(r)
      BY <1>0, <2>0, <2>2, <3>8, ActStep DEF AtStep, Answered, Others
    <3> QED
      BY <1>2, <3>1, <3>2, <3>3, <3>4, <3>5, <3>6, <3>7, <3>8 DEF Turn
  <2> QED
    BY <2>1, <2>2
<1> QED
  BY <1>0, <1>1, <1>2, NoTurn

(* No id is given to two registrations: the sequence only moves forward.   *)
LEMMA RegistrationsStep ==
    ASSUME AccountInv, Operation
    PROVE  Registrations'
<1>0. TypeOK /\ Tokens /\ \A s \in Request : AtStep(s)
  BY DEF AccountInv
<1>1. Registrations
  BY DEF AccountInv
<1>2. lastId \in Nat /\ DOMAIN users \subseteq 1..lastId
  BY <1>0 DEF TypeOK
<1>3. ASSUME UNCHANGED <<lastId, call>>,
             \A u \in DOMAIN users' : u \in DOMAIN users /\ users'[u].email = users[u].email,
             \A s \in Request :
                Registered(s)' => Registered(s) /\ req'[s].user = req[s].user
      PROVE  Registrations'
  BY <1>1, <1>3 DEF Registrations
<1>4. ASSUME NEW r \in Request, Turn(r), ~Insert(r) PROVE Registrations'
  <2>1. Others(r) /\ UNCHANGED <<users, lastId>>
    <3>1. Others(r)
      BY <1>0, <1>4, TypesKept
    <3> QED
      BY <3>1, <1>4 DEF Turn, Arrive, Refresh, Select, Verify, Decode, Load, Act
  <2>2. AtStep(r)
    BY <1>0
  <2>3. Registered(r)' => Registered(r) /\ req'[r].user = req[r].user
    <3>1. CASE Arrive(r)
      BY <1>0, <2>2, <3>1, ArriveStep DEF AtStep, Registered, Others
    <3>2. CASE Refresh(r)
      BY <1>0, <2>2, <3>2, RefreshStep DEF AtStep, Registered, Answered, Others
    <3>3. CASE req[r].pc \in {"select", "verify", "decode", "load", "act"}
      <4>1. call[r].op # "register"
        BY <2>2, <3>3 DEF AtStep, Acting
      <4> QED
        BY <2>1, <4>1 DEF Registered, Others
    <3> QED
      BY <1>4, <3>1, <3>2, <3>3 DEF Turn, Select, Verify, Decode, Load, Act
  <2>4. \A s \in Request : Registered(s)' => Registered(s) /\ req'[s].user = req[s].user
    BY <2>1, <2>3 DEF Registered, Others
  <2> QED
    BY <1>3, <2>1, <2>4 DEF Others
<1>5. ASSUME NEW r \in Request, Insert(r) PROVE Registrations'
  <2>1. call[r].op = "register" /\ AtStep(r)
    BY <1>0, <1>5 DEF Insert, AtStep
  <2>2. Others(r) /\ lastId' = lastId + 1
    BY <1>0, <1>5, <2>1, InsertStep
  <2>3. \A s \in Request : s # r =>
           (Registered(s)' <=> Registered(s)) /\ req'[s].user = req[s].user
    BY <2>2 DEF Others, Registered
  <2>4. CASE UNCHANGED users /\ Answered(r, {409})
    <3>1. ~Registered(r)'
      BY <2>4 DEF Registered, Answered
    <3> QED
      BY <1>1, <1>2, <2>2, <2>3, <2>4, <3>1 DEF Registrations, Others
  <2>5. CASE /\ DOMAIN users' = DOMAIN users \cup {lastId'}
             /\ \A u \in DOMAIN users : users'[u] = users[u]
             /\ users'[lastId'].email = Lower[call[r].address]
             /\ req'[r].user = lastId'
    <3>1. ASSUME NEW s \in Request, Registered(s)'
          PROVE  /\ req'[s].user \in 1..lastId'
                 /\ req'[s].user \in DOMAIN users' =>
                       users'[req'[s].user].email = Lower[call'[s].address]
                 /\ s # r => req'[s].user # lastId'
      <4>1. CASE s = r
        BY <1>2, <2>2, <2>5, <4>1 DEF Others
      <4>2. CASE s # r
        <5>1. Registered(s) /\ req'[s].user = req[s].user
          BY <2>3, <3>1, <4>2
        <5>2. /\ req[s].user \in 1..lastId
              /\ req[s].user \in DOMAIN users =>
                    users[req[s].user].email = Lower[call[s].address]
          BY <1>1, <5>1 DEF Registrations
        <5> QED
          BY <1>2, <2>2, <2>5, <5>1, <5>2 DEF Others
      <4> QED
        BY <4>1, <4>2
    <3>2. ASSUME NEW s \in Request, NEW t \in Request, Registered(s)', Registered(t)',
                 req'[s].user = req'[t].user
          PROVE  s = t
      <4>1. CASE s = r \/ t = r
        BY <2>5, <3>1, <3>2, <4>1
      <4>2. CASE s # r /\ t # r
        BY <1>1, <2>3, <3>2, <4>2 DEF Registrations
      <4> QED
        BY <4>1, <4>2
    <3> QED
      BY <3>1, <3>2 DEF Registrations
  <2> QED
    BY <1>0, <1>5, <2>1, <2>4, <2>5, InsertStep
<1>6. CASE ~\E r \in Request : Turn(r)
  <2>1. /\ UNCHANGED <<lastId, call, req>>
        /\ \A u \in DOMAIN users' : u \in DOMAIN users /\ users'[u].email = users[u].email
    BY <1>0, <1>6, NoTurn DEF Kept
  <2> QED
    BY <1>3, <2>1 DEF Registered
<1> QED
  BY <1>4, <1>5, <1>6 DEF Turn

---------------------------------------------------------------------------
(* Tokens.                                                                 *)

(* What a login holds is the account's address and password, for as long   *)
(* as the account is there.                                                *)
Matches(r) ==
    Selected(r) =>
        /\ req[r].row \in Row /\ req[r].user \in 1..lastId
        /\ req[r].row.email = Lower[call[r].address]
        /\ req[r].reply = 200 => req[r].row.password = call[r].password
        /\ req[r].user \in DOMAIN users =>
              /\ users[req[r].user].email = req[r].row.email
              /\ users[req[r].user].password = req[r].row.password

LEMMA RowsKept ==
    ASSUME TypeOK, \A s \in Request : AtStep(s), Operation
    PROVE  /\ lastId \in Nat /\ lastId' \in {lastId, lastId + 1}
           /\ DOMAIN users \subseteq 1..lastId
           /\ \A u \in DOMAIN users' :
                 \/ u = lastId + 1
                 \/ /\ u \in DOMAIN users /\ users'[u].email = users[u].email
                    /\ users'[u].password = users[u].password
<1> DEFINE Goal ==
       /\ lastId \in Nat /\ lastId' \in {lastId, lastId + 1}
       /\ DOMAIN users \subseteq 1..lastId
       /\ \A u \in DOMAIN users' :
             \/ u = lastId + 1
             \/ /\ u \in DOMAIN users /\ users'[u].email = users[u].email
                /\ users'[u].password = users[u].password
<1>1. lastId \in Nat /\ DOMAIN users \subseteq 1..lastId
  BY DEF TypeOK
<1>2. ASSUME NEW r \in Request, Insert(r) PROVE Goal
  <2>1. call[r].op = "register"
    BY <1>2 DEF Insert, AtStep
  <2> QED
    BY <1>1, <1>2, <2>1, InsertStep
<1>3. ASSUME NEW r \in Request, Turn(r), ~Insert(r) PROVE Goal
  <2>1. UNCHANGED <<users, lastId>>
    BY <1>3 DEF Turn, Arrive, Refresh, Select, Verify, Decode, Load, Act
  <2> QED
    BY <1>1, <2>1
<1>4. CASE ~\E r \in Request : Turn(r)
  BY <1>1, <1>4, NoTurn DEF Kept
<1> QED
  BY <1>2, <1>3, <1>4 DEF Turn

LEMMA MatchesStep ==
    ASSUME AccountInv, Operation, NEW q \in Request
    PROVE  Matches(q)'
<1>0. TypeOK /\ (\A s \in Request : AtStep(s)) /\ AtStep(q) /\ Tokens
  BY DEF AccountInv
<1>1. Matches(q)
  BY <1>0 DEF Tokens, Matches
<1>2. CASE req'[q] = req[q] /\ call' = call
  <2>1. /\ lastId \in Nat /\ lastId' \in {lastId, lastId + 1}
        /\ DOMAIN users \subseteq 1..lastId
        /\ \A u \in DOMAIN users' :
              \/ u = lastId + 1
              \/ /\ u \in DOMAIN users /\ users'[u].email = users[u].email
                 /\ users'[u].password = users[u].password
    BY <1>0, RowsKept
  <2> QED
    BY <1>1, <1>2, <2>1 DEF Matches, Selected
<1>3. CASE Turn(q)
  <2>0. Others(q)
    BY <1>0, <1>3, TypesKept
  <2>1. CASE Select(q)
    <3>1. /\ UNCHANGED <<users, lastId>> /\ req[q].reply = 0
      BY <1>0, <2>1, SelectStep DEF AtStep, Select
    <3>2. CASE Answered(q, {401})
      BY <3>2 DEF Matches, Selected, Answered
    <3>3. CASE /\ req'[q].pc = "verify" /\ req'[q].reply = req[q].reply
               /\ req'[q].user \in DOMAIN users
               /\ req'[q].row = users[req'[q].user]
               /\ req'[q].row.email = Lower[call[q].address]
      <4>1. users[req'[q].user] \in Row /\ req'[q].user \in 1..lastId
        BY <1>0, <3>3 DEF TypeOK
      <4> QED
        BY <2>0, <3>1, <3>3, <4>1 DEF Matches, Others
    <3> QED
      BY <1>0, <2>1, <3>2, <3>3, SelectStep
  <2>2. CASE Verify(q)
    <3>1. UNCHANGED <<users, lastId>> /\ req[q].pc = "verify" /\ call[q].op = "login"
      BY <1>0, <2>2 DEF Verify, AtStep
    <3>2. CASE Answered(q, {401, 403})
      BY <3>2 DEF Matches, Selected, Answered
    <3>3. CASE req[q].row.password = call[q].password /\ Answered(q, {200})
      BY <1>1, <2>0, <3>1, <3>3 DEF Matches, Selected, Answered, Others
    <3> QED
      BY <1>0, <2>2, <3>2, <3>3, VerifyStep
  <2>3. CASE Arrive(q)
    BY <1>0, <2>0, <2>3, ArriveStep DEF Matches, Selected, AtStep, Others
  <2>4. CASE req[q].pc \in {"insert", "refresh", "decode", "load", "act"}
    <3>1. call[q].op # "login"
      BY <1>0, <2>4 DEF AtStep, Acting
    <3> QED
      BY <2>0, <3>1 DEF Matches, Selected, Others
  <2> QED
    BY <1>3, <2>1, <2>2, <2>3, <2>4 DEF Turn, Insert, Refresh, Decode, Load, Act
<1>4. ASSUME NEW r \in Request, Turn(r), r # q PROVE req'[q] = req[q] /\ call' = call
  BY <1>0, <1>4, TypesKept DEF Others
<1>5. CASE ~\E r \in Request : Turn(r)
  BY <1>0, <1>2, <1>5, NoTurn
<1> QED
  BY <1>2, <1>3, <1>4, <1>5

(* A login keeps what it was answered with. *)
LEMMA LoginsKept ==
    ASSUME AccountInv, Operation, NEW s \in Request, LoggedIn(s)
    PROVE  LoggedIn(s)' /\ req'[s] = req[s] /\ call' = call
<1>0. TypeOK /\ Tokens /\ AtStep(s) /\ \A q \in Request : AtStep(q)
  BY DEF AccountInv
<1>1. req[s].pc = "done"
  BY <1>0 DEF AtStep, LoggedIn
<1>2. ASSUME NEW r \in Request, Turn(r) PROVE req'[s] = req[s] /\ call' = call
  <2>1. r # s
    BY <1>1, <1>2, AnsweredStays
  <2> QED
    BY <1>0, <1>2, <2>1, TypesKept DEF Others
<1>3. ASSUME ~\E r \in Request : Turn(r) PROVE req'[s] = req[s] /\ call' = call
  <2>1. req' = req /\ call' = call
    BY <1>0, <1>3, NoTurn
  <2> QED
    BY <2>1
<1>4. req'[s] = req[s] /\ call' = call
  BY <1>2, <1>3
<1> QED
  BY <1>4 DEF LoggedIn

LEMMA HolderKept ==
    ASSUME AccountInv, Operation, NEW row, Holder(row)
    PROVE  Holder(row)'
  BY LoginsKept DEF Holder

LEMMA TokensStep ==
    ASSUME AccountInv, Operation
    PROVE  Tokens'
<1>0. TypeOK /\ \A s \in Request : AtStep(s)
  BY DEF AccountInv
<1>1. \A r \in Request : Matches(r)'
  BY MatchesStep
<1>2. Tokens
  BY DEF AccountInv
<1>3. ASSUME NEW t \in tokens
      PROVE  \E s \in Request : LoggedIn(s)' /\ req'[s].user = t[1]
  <2>1. PICK s \in Request : LoggedIn(s) /\ req[s].user = t[1]
    BY <1>2 DEF Tokens
  <2> QED
    BY <2>1, LoginsKept
<1>4. \A t \in tokens' : \E s \in Request : LoggedIn(s)' /\ req'[s].user = t[1]
  <2>1. CASE tokens' = tokens
    BY <1>3, <2>1
  <2>2. ASSUME NEW u \in UserId, <<u, TRUE>> \in tokens,
               tokens' = (tokens \ {<<u, TRUE>>}) \cup {<<u, FALSE>>}
        PROVE  <1>4!:
    <3>1. \E s \in Request : LoggedIn(s)' /\ req'[s].user = <<u, TRUE>>[1]
      BY <1>3, <2>2
    <3>2. <<u, TRUE>>[1] = u /\ <<u, FALSE>>[1] = u
      OBVIOUS
    <3> QED
      BY <1>3, <2>2, <3>1, <3>2
  <2>3. ASSUME NEW r \in Request, Verify(r) PROVE <1>4!:
    <3>1. CASE tokens' = tokens
      BY <2>1, <3>1
    <3>2. CASE Answered(r, {200}) /\ tokens' = tokens \cup {<<req[r].user, TRUE>>}
      <4>1. call[r].op = "login" /\ call' = call
        BY <1>0, <2>3 DEF Verify, AtStep
      <4>2. LoggedIn(r)' /\ req'[r].user = <<req[r].user, TRUE>>[1]
        BY <3>2, <4>1 DEF LoggedIn, Answered
      <4> QED
        BY <1>3, <3>2, <4>2
    <3> QED
      BY <1>0, <2>3, <3>1, <3>2, VerifyStep
  <2>4. ASSUME NEW r \in Request, Turn(r), ~Verify(r) PROVE tokens' = tokens
    BY <2>4 DEF Turn, Arrive, Insert, Refresh, Select, Decode, Load, Act
  <2> QED
    BY <1>0, <2>1, <2>2, <2>3, <2>4, NoTurn
<1> QED
  BY <1>1, <1>4 DEF Tokens, Matches

---------------------------------------------------------------------------
(* What a token allows.                                                    *)

LEMMA EntitledStep ==
    ASSUME AccountInv, Operation, Witness, NEW q \in Request
    PROVE  Entitled(q)'
<1>0. TypeOK /\ Tokens /\ (\A s \in Request : AtStep(s)) /\ AtStep(q)
  BY DEF AccountInv
<1>1. Entitled(q)
  BY DEF AccountInv
<1>2. call' = call
  <2>1. ASSUME NEW r \in Request, Turn(r) PROVE call' = call
    BY <1>0, <2>1, TypesKept DEF Others
  <2> QED
    BY <1>0, <2>1, NoTurn
<1>3. call[q].op \in Acting =>
         /\ since[q] \subseteq since'[q]
         /\ req'[q].pc # "new" /\ call[q].user \in DOMAIN users' =>
               users'[call[q].user] \in since'[q]
  BY DEF Witness, Acting
<1>4. \A u : (\E t \in tokens : t[1] = u) => \E t \in tokens' : t[1] = u
  <2>1. CASE tokens \subseteq tokens'
    BY <2>1
  <2>2. ASSUME NEW v \in UserId, <<v, TRUE>> \in tokens,
               tokens' = (tokens \ {<<v, TRUE>>}) \cup {<<v, FALSE>>}
        PROVE  <1>4!:
    <3>1. <<v, TRUE>>[1] = v /\ <<v, FALSE>>[1] = v
      OBVIOUS
    <3> QED
      BY <2>2, <3>1
  <2>3. ASSUME NEW r \in Request, Turn(r) PROVE tokens \subseteq tokens'
    <3>1. CASE Verify(r)
      BY <1>0, <3>1, VerifyStep
    <3> QED
      BY <2>3, <3>1 DEF Turn, Arrive, Insert, Refresh, Select, Decode, Load, Act
  <2> QED
    BY <1>0, <2>1, <2>2, <2>3, NoTurn
<1>5. \A row : Holder(row) => Holder(row)'
  BY HolderKept
<1>6. CASE req'[q] = req[q]
  BY <1>1, <1>2, <1>3, <1>4, <1>5, <1>6 DEF Entitled
<1>7. CASE Turn(q) /\ call[q].op \in Acting
  <2>0. Others(q) /\ (req[q].pc # "done" => req[q].reply = 0)
    BY <1>0, <1>7, TypesKept DEF AtStep
  <2>1. CASE Arrive(q)
    BY <1>0, <1>7, <2>0, <2>1, ArriveStep DEF Entitled, Acting
  <2>2. CASE Decode(q)
    <3>1. CASE Answered(q, {401})
      BY <3>1 DEF Entitled, Answered
    <3>2. CASE req'[q].pc = "load" /\ req'[q].reply = 0 /\ <<call[q].user, TRUE>> \in tokens
      <4>1. <<call[q].user, TRUE>>[1] = call[q].user
        OBVIOUS
      <4>2. \E t \in tokens' : t[1] = call[q].user
        BY <1>4, <3>2, <4>1
      <4> QED
        BY <1>2, <3>2, <4>2 DEF Entitled
    <3> QED
      BY <1>0, <2>0, <2>2, <3>1, <3>2, DecodeStep
  <2>3. CASE Load(q)
    <3>1. CASE Answered(q, {401})
      BY <3>1 DEF Entitled, Answered
    <3>2. CASE /\ req'[q].pc = "act" /\ req'[q].reply = 0
               /\ call[q].user \in DOMAIN users /\ UNCHANGED users
               /\ req'[q].row = users[call[q].user] /\ req'[q].row.active
      <4>1. PICK t \in tokens : t[1] = call[q].user
        BY <1>1, <1>7, <2>3 DEF Entitled, Load
      <4>2. PICK s \in Request : LoggedIn(s) /\ req[s].user = t[1]
        BY <1>0, <4>1 DEF Tokens
      <4>3. Matches(s) /\ Selected(s)
        BY <1>0, <4>2 DEF Tokens, Matches, LoggedIn, Selected
      <4> DEFINE row == users[call[q].user]
      <4>4. Lower[call[s].address] = row.email /\ call[s].password = row.password
        BY <3>2, <4>1, <4>2, <4>3 DEF Matches, LoggedIn
      <4>5. Holder(row)
        BY <4>2, <4>4 DEF Holder
      <4>6. PICK held : held = row
        OBVIOUS
      <4>7. Holder(held)'
        BY <1>5, <4>5, <4>6
      <4>8. held \in since'[q] /\ req'[q].row = held /\ held.active
        BY <1>3, <1>7, <3>2, <4>6
      <4>9. Holder(req[q].row)'
        BY <4>7, <4>8 DEF Holder
      <4> QED
        BY <3>2, <4>8, <4>9 DEF Entitled
    <3> QED
      BY <1>0, <2>0, <2>3, <3>1, <3>2, LoadStep
  <2>4. CASE Act(q)
    <3>1. /\ req[q].pc = "act" /\ Answered(q, {200, 403})
          /\ req'[q].reply = 200 /\ call[q].op = "moderate" => req[q].row.admin
      BY <1>0, <2>4, ActStep
    <3>2. req[q].row \in since[q] /\ req[q].row.active /\ Holder(req[q].row)
      BY <1>1, <1>7, <3>1 DEF Entitled
    <3>3. PICK held : held = req[q].row
      OBVIOUS
    <3>4. Holder(held)'
      BY <1>5, <3>2, <3>3
    <3>5. req'[q].row = held /\ held \in since'[q] /\ req'[q].pc = "done"
      BY <1>3, <1>7, <3>1, <3>2, <3>3 DEF Answered
    <3>6. Holder(req[q].row)'
      BY <3>4, <3>5 DEF Holder
    <3> QED
      BY <1>2, <3>1, <3>2, <3>3, <3>5, <3>6 DEF Entitled
  <2>5. CASE req[q].pc \in {"insert", "refresh", "select", "verify"}
    BY <1>0, <1>7, <2>5 DEF AtStep, Acting
  <2> QED
    BY <1>7, <2>1, <2>2, <2>3, <2>4, <2>5 DEF Turn, Insert, Refresh, Select, Verify
<1>8. CASE call[q].op \notin Acting
  BY <1>2, <1>8 DEF Entitled
<1>9. ASSUME NEW r \in Request, Turn(r), r # q PROVE req'[q] = req[q]
  BY <1>0, <1>9, TypesKept DEF Others
<1>10. ASSUME ~\E r \in Request : Turn(r) PROVE req'[q] = req[q]
  <2>1. req' = req
    BY <1>0, <1>10, NoTurn
  <2> QED
    BY <2>1
<1> QED
  BY <1>6, <1>7, <1>8, <1>9, <1>10

---------------------------------------------------------------------------
(* The theorems.                                                           *)

(* The invariant holds in every state. *)
THEOREM AccountInvCorrect == Spec => []AccountInv
<1>1. Init => AccountInv
  <2> SUFFICES ASSUME Init PROVE AccountInv
    OBVIOUS
  <2>1. TypeOK
    <3>1. [pc |-> "new", user |-> 0, row |-> None, reply |-> 0] \in ReqState
      BY DEF ReqState
    <3>2. users = <<>> /\ DOMAIN users = {} /\ 0 \in 0..MaxUsers /\ 0 \in 0..MaxChanges
      BY AccountAssumption DEF Init
    <3> QED
      BY <3>1, <3>2, AccountAssumption DEF Init, TypeOK
  <2>2. DOMAIN users = {}
    BY DEF Init
  <2>3. \A r \in Request : req[r].pc = "new" /\ req[r].reply = 0
    BY DEF Init
  <2>4. AddressesDistinct
    BY <2>2 DEF AddressesDistinct
  <2>5. Registrations
    BY <2>3 DEF Registrations, Registered
  <2>6. Tokens
    <3>1. tokens = {}
      BY DEF Init
    <3> QED
      BY <2>3, <3>1 DEF Tokens, Selected
  <2>7. \A r \in Request : AtStep(r) /\ Entitled(r)
    BY <2>3 DEF AtStep, Entitled
  <2> QED
    BY <2>1, <2>4, <2>5, <2>6, <2>7 DEF AccountInv
<1>2. AccountInv /\ [Next]_vars => AccountInv'
  <2> SUFFICES ASSUME AccountInv, [Next]_vars PROVE AccountInv'
    OBVIOUS
  <2>1. CASE Operation /\ Witness
    BY <2>1, TypeStep, AddressesStep, RegistrationsStep, TokensStep, AtStepStep,
       EntitledStep DEF AccountInv
  <2>2. CASE UNCHANGED vars
    BY <2>2 DEF vars, AccountInv, TypeOK, AddressesDistinct, Registrations, Registered,
       Tokens, Selected, LoggedIn, AtStep, Entitled, Holder
  <2> QED
    BY <2>1, <2>2 DEF Next, Done
<1> QED
  BY <1>1, <1>2, PTL DEF Spec

(* However addresses are spelt and registrations race, one address has one *)
(* account (POST /auth/register and the unique index on users.email).      *)
THEOREM AddressHasOneAccount == Spec => []OneAccountPerAddress
<1>1. AccountInv => OneAccountPerAddress
  <2> SUFFICES ASSUME AccountInv PROVE OneAccountPerAddress
    OBVIOUS
  <2>1. AddressesDistinct /\ Registrations
    BY DEF AccountInv
  <2> QED
    BY <2>1 DEF OneAccountPerAddress, AddressesDistinct, Registrations, Registered
<1> QED
  BY <1>1, AccountInvCorrect, PTL

(* A request acts only for an account active, and an administrator where   *)
(* that is asked, since it arrived (get_current_user, get_current_admin).  *)
THEOREM ActingIsEntitled == Spec => []ActsOnlyIfEntitled
<1>1. AccountInv => ActsOnlyIfEntitled
  BY DEF AccountInv, Entitled, ActsOnlyIfEntitled, Acting
<1> QED
  BY <1>1, AccountInvCorrect, PTL

(* Whoever acts as a user holds a token bought with that user's address    *)
(* and password, also after removals and new registrations.                *)
THEOREM TokenHasHolder == Spec => []TokenStaysWithHolder
<1>1. AccountInv => TokenStaysWithHolder
  BY DEF AccountInv, Entitled, TokenStaysWithHolder, Acting, Holder, LoggedIn
<1> QED
  BY <1>1, AccountInvCorrect, PTL
=============================================================================
