--------------------------- MODULE SdkClientProof ---------------------------
(***************************************************************************)
(* The client objects of the generated package, for every number of        *)
(* clients, of httpx clients, of tokens and of modes.                      *)
(***************************************************************************)
EXTENDS SdkClient, TLAPS

---------------------------------------------------------------------------
(* The inductive invariant.                                                *)

Token   == Tokens \cup {None}
States  == {"unopened", "opened", "closed"}
Dict    == [authorization : Token, extra : Values]
Object  == [token : Token, headers : Clients, option : Values,
            live : [Modes -> Https \cup {None}]]
Httpx   == [owner : Clients, token : Token, headers : Dict, option : Values,
            state : States]
Setting == [extra : Values, option : Values]
Blocks  == [Modes -> BOOLEAN]

Types ==
    /\ clients \in Clients
    /\ object \in Seq(Object) /\ Len(object) = clients
    /\ dict \in Seq(Dict) /\ Len(dict) \in 1..clients
    /\ http \in Seq(Httpx) /\ Len(http) \in 0..MaxHttp
    /\ inside \in Seq(Blocks) /\ Len(inside) = clients
    /\ asked \in Seq(Setting) /\ Len(asked) = clients

References ==
    /\ \A c \in 1..clients :
          /\ object[c].headers \in 1..Len(dict)
          /\ \A m \in Modes : object[c].live[m] \in 1..Len(http) \cup {None}
    /\ \A h \in 1..Len(http) : http[h].owner \in 1..clients

(* An httpx client nobody handed on is used by one object in one mode, so  *)
(* that no other object closes it under a with block.                      *)
OneUser ==
    \A c, d \in 1..clients, m, n \in Modes :
        object[c].live[m] # None /\ object[c].live[m] = object[d].live[n]
            => object[c].live[m] \in handed \/ (c = d /\ m = n)

(* The dictionary and the option an object has now hold every setting      *)
(* asked of it, so the httpx client it builds next will have them too.     *)
SettingsKept ==
    /\ \A c \in 1..clients :
          /\ dict[object[c].headers].extra >= asked[c].extra
          /\ object[c].option >= asked[c].option
    /\ \A h \in 1..Len(http) :
          /\ http[h].token # None => http[h].headers.authorization = http[h].token
          /\ http[h].headers.extra >= asked[http[h].owner].extra
          /\ http[h].option >= asked[http[h].owner].option

SdkInv == Types /\ References /\ OneUser /\ SettingsKept /\ BlocksStayOpen

---------------------------------------------------------------------------
(* Sequences.                                                              *)

LEMMA Elements ==
    ASSUME NEW S, NEW s \in Seq(S)
    PROVE  Len(s) \in Nat /\ DOMAIN s = 1..Len(s) /\ \A i \in 1..Len(s) : s[i] \in S
  OBVIOUS

LEMMA Appended ==
    ASSUME NEW S, NEW s \in Seq(S), NEW e \in S
    PROVE  /\ Append(s, e) \in Seq(S) /\ Len(Append(s, e)) = Len(s) + 1
           /\ Append(s, e)[Len(s) + 1] = e
           /\ \A i \in 1..Len(s) : Append(s, e)[i] = s[i]
  OBVIOUS

LEMMA Mapped ==
    ASSUME NEW S, NEW n \in Nat, NEW t \in [1..n -> S]
    PROVE  t \in Seq(S) /\ Len(t) = n
  OBVIOUS

LEMMA Changed ==
    ASSUME NEW S, NEW s \in Seq(S), NEW i \in 1..Len(s), NEW e \in S
    PROVE  /\ [s EXCEPT ![i] = e] \in Seq(S) /\ Len([s EXCEPT ![i] = e]) = Len(s)
           /\ [s EXCEPT ![i] = e][i] = e
           /\ \A j \in 1..Len(s) : j # i => [s EXCEPT ![i] = e][j] = s[j]
<1> DEFINE t == [s EXCEPT ![i] = e]
<1>1. t \in [1..Len(s) -> S] /\ Len(s) \in Nat
  OBVIOUS
<1>2. t[i] = e /\ \A j \in 1..Len(s) : j # i => t[j] = s[j]
  OBVIOUS
<1> HIDE DEF t
<1> QED
  BY <1>1, <1>2, Mapped DEF t

(* The records one by one. *)
LEMMA TypeFacts ==
    ASSUME Types
    PROVE  /\ clients \in Nat \ {0} /\ Len(http) \in Nat /\ Len(dict) \in Nat
           /\ Built = 1..Len(http) /\ DOMAIN dict = 1..Len(dict)
           /\ DOMAIN object = 1..clients
           /\ \A c \in 1..clients :
                 /\ object[c] \in Object /\ inside[c] \in Blocks
                 /\ asked[c] \in Setting
           /\ \A d \in 1..Len(dict) : dict[d] \in Dict
           /\ \A h \in 1..Len(http) : http[h] \in Httpx
<1>1. clients \in Nat \ {0}
  BY SdkClientAssumption DEF Types, Clients
<1> QED
  BY <1>1, Elements DEF Types, Built

LEMMA LiveSet ==
    ASSUME NEW o \in Object, NEW mode \in Modes, NEW h \in Https
    PROVE  /\ [o EXCEPT !.live[mode] = h] \in Object
           /\ [o EXCEPT !.live[mode] = h].token = o.token
           /\ [o EXCEPT !.live[mode] = h].headers = o.headers
           /\ [o EXCEPT !.live[mode] = h].option = o.option
           /\ [o EXCEPT !.live[mode] = h].live[mode] = h
           /\ \A m \in Modes : m # mode => [o EXCEPT !.live[mode] = h].live[m] = o.live[m]
<1> DEFINE live == [o.live EXCEPT ![mode] = h]
<1>1. live \in [Modes -> Https \cup {None}] /\ o.live \in [Modes -> Https \cup {None}]
  BY DEF Object
<1>2. [o EXCEPT !.live[mode] = h] = [o EXCEPT !.live = live]
  OBVIOUS
<1>3. live[mode] = h /\ \A m \in Modes : m # mode => live[m] = o.live[m]
  BY <1>1
<1> HIDE DEF live
<1>4. /\ [o EXCEPT !.live = live] \in Object
      /\ [o EXCEPT !.live = live].token = o.token
      /\ [o EXCEPT !.live = live].headers = o.headers
      /\ [o EXCEPT !.live = live].option = o.option
      /\ [o EXCEPT !.live = live].live = live
  BY <1>1 DEF Object
<1> QED
  BY <1>2, <1>3, <1>4

LEMMA StateSet ==
    ASSUME NEW x \in Httpx, NEW state \in States
    PROVE  /\ [x EXCEPT !.state = state] \in Httpx
           /\ [x EXCEPT !.state = state].state = state
           /\ [x EXCEPT !.state = state].owner = x.owner
           /\ [x EXCEPT !.state = state].token = x.token
           /\ [x EXCEPT !.state = state].headers = x.headers
           /\ [x EXCEPT !.state = state].option = x.option
  BY DEF Httpx

(* Both writes of a header: the Authorization, and what with_headers adds. *)
LEMMA AuthorizationSet ==
    ASSUME NEW d \in Dict, NEW token \in Token
    PROVE  /\ [d EXCEPT !.authorization = token] \in Dict
           /\ [d EXCEPT !.authorization = token].authorization = token
           /\ [d EXCEPT !.authorization = token].extra = d.extra
  BY DEF Dict

LEMMA ExtraSet ==
    ASSUME NEW d \in Dict
    PROVE  /\ [d EXCEPT !.extra = 1] \in Dict
           /\ [d EXCEPT !.extra = 1].authorization = d.authorization
           /\ [d EXCEPT !.extra = 1].extra = 1
  BY DEF Dict, Values

---------------------------------------------------------------------------
(* get_httpx_client: the object's httpx client is used again, or a new one *)
(* is built.                                                               *)

Same(h) ==
    /\ http'[h].owner = http[h].owner /\ http'[h].token = http[h].token
    /\ http'[h].headers = http[h].headers /\ http'[h].option = http[h].option

Reused(c, mode, state) ==
    /\ object[c].live[mode] # None /\ UNCHANGED <<object, dict>>
    /\ http' \in Seq(Httpx) /\ Len(http') = Len(http)
    /\ \A h \in 1..Len(http) :
          /\ Same(h)
          /\ h = object[c].live[mode] => http'[h].state = state
          /\ h # object[c].live[mode] => http'[h].state = http[h].state

NewHttpx(c, mode, state) ==
    /\ object[c].live[mode] = None
    /\ http' \in Seq(Httpx) /\ Len(http') = Len(http) + 1 /\ Len(http) < MaxHttp
    /\ \A h \in 1..Len(http) : http'[h] = http[h]
    /\ LET new == http'[Len(http) + 1]
       IN  /\ new.owner = c /\ new.state = state /\ new.option = object[c].option
           /\ new.token # None => new.headers.authorization = new.token
           /\ new.headers.extra = dict[object[c].headers].extra
    /\ dict' \in Seq(Dict) /\ Len(dict') = Len(dict)
    /\ \A d \in 1..Len(dict) : dict'[d].extra = dict[d].extra
    /\ object' \in Seq(Object) /\ Len(object') = clients
    /\ \A d \in 1..clients :
          /\ object'[d].headers = object[d].headers
          /\ object'[d].option = object[d].option
          /\ \A m \in Modes : d # c \/ m # mode =>
                object'[d].live[m] = object[d].live[m]
    /\ object'[c].live[mode] = Len(http) + 1

LEMMA GetEffect ==
    ASSUME Types, References, NEW c \in 1..clients, NEW mode \in Modes,
           NEW state \in States, GetHttpxClient(c, mode, state)
    PROVE  Reused(c, mode, state) \/ NewHttpx(c, mode, state)
<1>0. /\ Len(http) \in Nat /\ Len(dict) \in Nat /\ clients \in Nat
      /\ object[c] \in Object /\ object \in Seq(Object) /\ Len(object) = clients
      /\ http \in Seq(Httpx) /\ dict \in Seq(Dict) /\ c \in Clients
  BY TypeFacts, SdkClientAssumption DEF Types, Clients
<1> DEFINE h == object[c].live[mode]
<1>1. CASE h # None
  <2>1. h \in 1..Len(http)
    BY <1>1 DEF References
  <2>2. http' = [http EXCEPT ![h].state = state] /\ UNCHANGED <<object, dict>>
    BY <1>1 DEF GetHttpxClient
  <2> DEFINE x == [http[h] EXCEPT !.state = state]
  <2>3. http' = [http EXCEPT ![h] = x]
    BY <2>2
  <2>4. http[h] \in Httpx
    BY <2>1, TypeFacts
  <2>5. /\ x \in Httpx /\ x.state = state /\ x.owner = http[h].owner
        /\ x.token = http[h].token /\ x.headers = http[h].headers
        /\ x.option = http[h].option
    BY <2>4, StateSet
  <2> HIDE DEF x
  <2>6. /\ http' \in Seq(Httpx) /\ Len(http') = Len(http) /\ http'[h] = x
        /\ \A j \in 1..Len(http) : j # h => http'[j] = http[j]
    BY <1>0, <2>1, <2>3, <2>5, Changed
  <2> HIDE DEF h
  <2>7. \A j \in 1..Len(http) : Same(j)
    BY <2>5, <2>6 DEF Same
  <2> QED
    BY <1>1, <2>2, <2>5, <2>6, <2>7 DEF Reused, h
<1>2. CASE h = None
  <2> DEFINE o == object[c]
             d == o.headers
             headers == Header(c, o.token)
             new == [owner |-> c, token |-> o.token, headers |-> headers,
                     option |-> o.option, state |-> state]
             q == [o EXCEPT !.live[mode] = Len(http) + 1]
  <2>1. /\ Len(http) < MaxHttp /\ http' = Append(http, new)
        /\ dict' = [dict EXCEPT ![d] = headers]
        /\ object' = [object EXCEPT ![c].live[mode] = Len(http) + 1]
    BY <1>2 DEF GetHttpxClient
  <2>2. d \in 1..Len(dict) /\ dict[d] \in Dict
    BY TypeFacts DEF References
  <2>3. o.token \in Token /\ o.option \in Values
    BY <1>0 DEF Object
  <2>4. /\ headers \in Dict /\ headers.extra = dict[d].extra
        /\ o.token # None => headers.authorization = o.token
    <3>1. CASE o.token = None
      BY <2>2, <3>1 DEF Header
    <3>2. CASE o.token # None
      <4>1. headers = [dict[d] EXCEPT !.authorization = o.token]
        BY <3>2 DEF Header
      <4> QED
        BY <2>2, <2>3, <4>1, AuthorizationSet
    <3> QED
      BY <3>1, <3>2
  <2> HIDE DEF headers
  <2>5. new \in Httpx
    BY <1>0, <2>3, <2>4 DEF Httpx
  <2>6. new.owner = c /\ new.token = o.token /\ new.headers = headers
           /\ new.option = o.option /\ new.state = state
    OBVIOUS
  <2> HIDE DEF new
  <2>7. /\ http' \in Seq(Httpx) /\ Len(http') = Len(http) + 1
        /\ http'[Len(http) + 1] = new
        /\ \A i \in 1..Len(http) : http'[i] = http[i]
    BY <1>0, <2>1, <2>5, Appended
  <2>8. /\ dict' \in Seq(Dict) /\ Len(dict') = Len(dict)
        /\ \A i \in 1..Len(dict) : dict'[i].extra = dict[i].extra
    <3>1. /\ dict' \in Seq(Dict) /\ Len(dict') = Len(dict) /\ dict'[d] = headers
          /\ \A i \in 1..Len(dict) : i # d => dict'[i] = dict[i]
      BY <1>0, <2>1, <2>2, <2>4, Changed
    <3> QED
      BY <2>4, <3>1
  <2>9. Len(http) + 1 \in Https
    BY <1>0, <2>1, SdkClientAssumption DEF Https
  <2>10. /\ q \in Object /\ q.headers = o.headers /\ q.option = o.option
         /\ q.live[mode] = Len(http) + 1
         /\ \A m \in Modes : m # mode => q.live[m] = o.live[m]
    BY <1>0, <2>9, LiveSet
  <2>11. object' = [object EXCEPT ![c] = q]
    BY <2>1
  <2> HIDE DEF q
  <2>12. /\ object' \in Seq(Object) /\ Len(object') = clients /\ object'[c] = q
         /\ \A i \in 1..clients : i # c => object'[i] = object[i]
    BY <1>0, <2>10, <2>11, Changed
  <2>13. /\ object'[c].live[mode] = Len(http) + 1
         /\ \A i \in 1..clients :
               /\ object'[i].headers = object[i].headers
               /\ object'[i].option = object[i].option
               /\ \A m \in Modes : i # c \/ m # mode =>
                     object'[i].live[m] = object[i].live[m]
    BY <2>10, <2>12
  <2> QED
    BY <1>2, <2>1, <2>4, <2>6, <2>7, <2>8, <2>12, <2>13 DEF NewHttpx
<1> QED
  BY <1>1, <1>2

(* What a use of an httpx client keeps, whichever it is. *)
LEMMA GetKeeps ==
    ASSUME SdkInv, NEW c \in 1..clients, NEW mode \in Modes, NEW state \in States,
           GetHttpxClient(c, mode, state), UNCHANGED <<clients, handed, asked>>,
           inside' \in Seq(Blocks), Len(inside') = clients
    PROVE  Types' /\ References' /\ OneUser' /\ SettingsKept'
<1>0. Types /\ References /\ OneUser /\ SettingsKept
  BY DEF SdkInv
<1>1. /\ Len(http) \in Nat /\ Len(dict) \in Nat /\ clients \in Nat
      /\ \A i \in 1..clients : asked[i] \in Setting /\ object[i] \in Object
      /\ \A h \in 1..Len(http) : http[h] \in Httpx
  BY <1>0, TypeFacts
<1>2. CASE Reused(c, mode, state)
  <2>1. UNCHANGED <<object, dict>> /\ http' \in Seq(Httpx) /\ Len(http') = Len(http)
    BY <1>2 DEF Reused
  <2>2. \A h \in 1..Len(http) : Same(h)
    BY <1>2 DEF Reused
  <2>3. Types'
    BY <1>0, <2>1 DEF Types
  <2>4. References'
    BY <1>0, <2>1, <2>2 DEF References, Same
  <2>5. OneUser'
    BY <1>0, <2>1 DEF OneUser
  <2>6. SettingsKept'
    BY <1>0, <2>1, <2>2 DEF SettingsKept, Same
  <2> QED
    BY <2>3, <2>4, <2>5, <2>6
<1>3. CASE NewHttpx(c, mode, state)
  <2>1. /\ object[c].live[mode] = None
        /\ http' \in Seq(Httpx) /\ Len(http') = Len(http) + 1 /\ Len(http) < MaxHttp
        /\ \A h \in 1..Len(http) : http'[h] = http[h]
        /\ dict' \in Seq(Dict) /\ Len(dict') = Len(dict)
        /\ \A d \in 1..Len(dict) : dict'[d].extra = dict[d].extra
        /\ object' \in Seq(Object) /\ Len(object') = clients
        /\ object'[c].live[mode] = Len(http) + 1
    BY <1>3 DEF NewHttpx
  <2>2. \A d \in 1..clients :
           /\ object'[d].headers = object[d].headers
           /\ object'[d].option = object[d].option
           /\ \A m \in Modes : d # c \/ m # mode =>
                 object'[d].live[m] = object[d].live[m]
    BY <1>3 DEF NewHttpx
  <2>3. /\ http'[Len(http) + 1].owner = c
        /\ http'[Len(http) + 1].option = object[c].option
        /\ http'[Len(http) + 1].token # None =>
              http'[Len(http) + 1].headers.authorization = http'[Len(http) + 1].token
        /\ http'[Len(http) + 1].headers.extra = dict[object[c].headers].extra
    BY <1>3 DEF NewHttpx
  <2>4. Types'
    BY <1>0, <1>1, <2>1, SdkClientAssumption DEF Types
  <2>5. References'
    <3>1. \A h \in 1..Len(http') : http'[h].owner \in 1..clients
      BY <1>0, <1>1, <2>1, <2>3 DEF References
    <3>2. ASSUME NEW d \in 1..clients
          PROVE  /\ object'[d].headers \in 1..Len(dict')
                 /\ \A m \in Modes : object'[d].live[m] \in 1..Len(http') \cup {None}
      <4>1. object'[d].headers \in 1..Len(dict')
        BY <1>0, <2>1, <2>2 DEF References
      <4>2. ASSUME NEW m \in Modes
            PROVE  object'[d].live[m] \in 1..Len(http') \cup {None}
        <5>1. CASE d = c /\ m = mode
          BY <1>1, <2>1, <5>1
        <5>2. CASE d # c \/ m # mode
          <6>1. object[d].live[m] \in 1..Len(http) \cup {None}
            BY <1>0 DEF References
          <6>2. object'[d].live[m] = object[d].live[m]
            BY <2>2, <5>2
          <6> QED
            BY <1>1, <2>1, <6>1, <6>2
        <5> QED
          BY <5>1, <5>2
      <4> QED
        BY <4>1, <4>2
    <3> QED
      BY <3>1, <3>2 DEF References
  <2>6. OneUser'
    <3> SUFFICES ASSUME NEW d \in 1..clients, NEW e \in 1..clients,
                        NEW m \in Modes, NEW n \in Modes,
                        object'[d].live[m] # None,
                        object'[d].live[m] = object'[e].live[n]
                 PROVE  object'[d].live[m] \in handed \/ (d = e /\ m = n)
      BY DEF OneUser
    <3>1. ASSUME NEW i \in 1..clients, NEW k \in Modes, i # c \/ k # mode
          PROVE  object'[i].live[k] # Len(http) + 1
      <4>1. object'[i].live[k] \in 1..Len(http) \cup {None}
        BY <1>0, <2>2, <3>1 DEF References
      <4>2. Len(http) + 1 \in 1..MaxHttp
        BY <1>1, <2>1, SdkClientAssumption
      <4>3. Len(http) + 1 # None
        BY <4>2, SdkClientAssumption
      <4> QED
        BY <1>1, <4>1, <4>3
    <3>2. CASE (d = c /\ m = mode) \/ (e = c /\ n = mode)
      BY <2>1, <3>1, <3>2
    <3>3. CASE (d # c \/ m # mode) /\ (e # c \/ n # mode)
      BY <1>0, <2>2, <3>3 DEF OneUser
    <3> QED
      BY <3>2, <3>3
  <2>7. SettingsKept'
    <3>1. ASSUME NEW d \in 1..clients
          PROVE  /\ dict'[object'[d].headers].extra >= asked[d].extra
                 /\ object'[d].option >= asked[d].option
      <4>1. object[d].headers \in 1..Len(dict)
        BY <1>0 DEF References
      <4> QED
        BY <1>0, <2>1, <2>2, <4>1 DEF SettingsKept
    <3>2. ASSUME NEW h \in 1..Len(http')
          PROVE  /\ http'[h].token # None => http'[h].headers.authorization = http'[h].token
                 /\ http'[h].headers.extra >= asked[http'[h].owner].extra
                 /\ http'[h].option >= asked[http'[h].owner].option
      <4>1. CASE h \in 1..Len(http)
        BY <1>0, <2>1, <4>1 DEF SettingsKept
      <4>2. CASE h = Len(http) + 1
        BY <1>0, <2>3, <4>2 DEF SettingsKept
      <4> QED
        BY <1>1, <2>1, <4>1, <4>2
    <3> QED
      BY <3>1, <3>2 DEF SettingsKept
  <2> QED
    BY <2>4, <2>5, <2>6, <2>7
<1> QED
  BY <1>0, <1>2, <1>3, GetEffect

---------------------------------------------------------------------------
(* The four uses of an httpx client.                                       *)

BlockOpen(c, m) ==
    inside[c][m] =>
        /\ object[c].live[m] # None
        /\ http[object[c].live[m]].state = "opened" \/ object[c].live[m] \in handed

LEMMA BlocksOpen == BlocksStayOpen <=> \A c \in 1..clients, m \in Modes : BlockOpen(c, m)
  BY DEF BlocksStayOpen, BlockOpen

(* A with block survives a use of an httpx client, but for the block that  *)
(* the use ends or begins.                                                 *)
LEMMA OthersOpen ==
    ASSUME SdkInv, NEW c \in 1..clients, NEW mode \in Modes, NEW state \in States,
           GetHttpxClient(c, mode, state), UNCHANGED <<clients, handed>>,
           \/ state = "opened"
           \/ state = "unopened" /\ State(c, mode) = "unopened"
           \/ state = "closed" /\ inside[c][mode],
           NEW d \in 1..clients, NEW m \in Modes,
           inside'[d][m] = inside[d][m], d # c \/ m # mode \/ state # "closed"
    PROVE  BlockOpen(d, m)'
<1>0. Types /\ References /\ OneUser /\ BlockOpen(c, mode) /\ BlockOpen(d, m)
  BY BlocksOpen DEF SdkInv
<1>1. CASE Reused(c, mode, state)
  <2> DEFINE h == object[c].live[mode]
             g == object[d].live[m]
  <2>1. object' = object /\ h # None
    BY <1>1 DEF Reused
  <2> SUFFICES ASSUME inside[d][m]
               PROVE  g # None /\ (http'[g].state = "opened" \/ g \in handed)
    BY <2>1 DEF BlockOpen
  <2>2. g # None /\ (http[g].state = "opened" \/ g \in handed) /\ g \in 1..Len(http)
    BY <1>0 DEF BlockOpen, References
  <2>3. CASE g # h
    BY <1>1, <2>2, <2>3 DEF Reused
  <2>4. CASE g = h
    <3>1. CASE state = "opened"
      BY <1>1, <2>2, <2>4, <3>1 DEF Reused
    <3>2. CASE state = "unopened" /\ State(c, mode) = "unopened"
      BY <2>1, <2>2, <2>4, <3>2 DEF State
    <3>3. CASE state = "closed"
      BY <1>0, <2>1, <2>2, <2>4, <3>3 DEF OneUser
    <3> QED
      BY <3>1, <3>2, <3>3
  <2> QED
    BY <2>3, <2>4
<1>2. CASE NewHttpx(c, mode, state)
  <2>1. object[c].live[mode] = None /\ \A h \in 1..Len(http) : http'[h] = http[h]
    BY <1>2 DEF NewHttpx
  <2>2. CASE d = c /\ m = mode
    BY <1>0, <2>1, <2>2 DEF BlockOpen
  <2>3. CASE d # c \/ m # mode
    <3>1. object'[d].live[m] = object[d].live[m]
      BY <1>2, <2>3 DEF NewHttpx
    <3>2. object[d].live[m] \in 1..Len(http) \cup {None}
      BY <1>0 DEF References
    <3> QED
      BY <1>0, <2>1, <3>1, <3>2 DEF BlockOpen
  <2> QED
    BY <2>2, <2>3
<1> QED
  BY <1>0, <1>1, <1>2, GetEffect

(* The httpx client used is in the state the use leaves it in. *)
LEMMA UsedState ==
    ASSUME Types, References, NEW c \in 1..clients, NEW mode \in Modes,
           NEW state \in States, GetHttpxClient(c, mode, state)
    PROVE  object'[c].live[mode] # None /\ http'[object'[c].live[mode]].state = state
<1>1. CASE Reused(c, mode, state)
  <2>1. object[c].live[mode] \in 1..Len(http)
    BY <1>1 DEF Reused, References
  <2> QED
    BY <1>1, <2>1 DEF Reused
<1>2. CASE NewHttpx(c, mode, state)
  <2>1. Len(http) + 1 \in 1..MaxHttp
    BY <1>2, TypeFacts, SdkClientAssumption DEF NewHttpx
  <2> QED
    BY <1>2, <2>1, SdkClientAssumption DEF NewHttpx
<1> QED
  BY <1>1, <1>2, GetEffect

LEMMA GetStep ==
    ASSUME SdkInv, NEW c \in 1..clients, NEW mode \in Modes,
           Get(c, mode) \/ Request(c, mode)
    PROVE  SdkInv'
<1>1. PICK state \in States :
         /\ GetHttpxClient(c, mode, state)
         /\ state = "opened" \/ (state = "unopened" /\ State(c, mode) = "unopened")
  BY DEF Get, Request, States
<1>2. UNCHANGED <<clients, inside, handed, asked>>
  BY DEF Get, Request
<1>3. inside \in Seq(Blocks) /\ Len(inside) = clients
  BY DEF SdkInv, Types
<1>4. Types' /\ References' /\ OneUser' /\ SettingsKept'
  BY <1>1, <1>2, <1>3, GetKeeps
<1>5. \A d \in 1..clients, m \in Modes : BlockOpen(d, m)'
  BY <1>1, <1>2, OthersOpen
<1>6. BlocksStayOpen'
  BY <1>2, <1>5 DEF BlocksStayOpen, BlockOpen
<1> QED
  BY <1>4, <1>6 DEF SdkInv

SetBlock(c, mode, b) == inside' = [inside EXCEPT ![c][mode] = b]

LEMMA BlockSet ==
    ASSUME Types, NEW c \in 1..clients, NEW mode \in Modes, NEW b \in BOOLEAN,
           SetBlock(c, mode, b)
    PROVE  /\ inside' \in Seq(Blocks) /\ Len(inside') = clients /\ inside'[c][mode] = b
           /\ \A d \in 1..clients, m \in Modes :
                 d # c \/ m # mode => inside'[d][m] = inside[d][m]
<1>1. inside \in Seq(Blocks) /\ Len(inside) = clients /\ inside[c] \in Blocks
  BY TypeFacts DEF Types
<1> DEFINE blocks == [inside[c] EXCEPT ![mode] = b]
<1>2. inside' = [inside EXCEPT ![c] = blocks]
  BY DEF SetBlock
<1>3. /\ blocks \in Blocks /\ blocks[mode] = b
      /\ \A m \in Modes : m # mode => blocks[m] = inside[c][m]
  BY <1>1 DEF Blocks
<1> HIDE DEF blocks
<1>4. /\ inside' \in Seq(Blocks) /\ Len(inside') = clients /\ inside'[c] = blocks
      /\ \A d \in 1..clients : d # c => inside'[d] = inside[d]
  BY <1>1, <1>2, <1>3, Changed
<1> QED
  BY <1>3, <1>4

LEMMA EnterStep ==
    ASSUME SdkInv, NEW c \in 1..clients, NEW mode \in Modes, Enter(c, mode)
    PROVE  SdkInv'
<1>0. Types /\ References
  BY DEF SdkInv
<1>1. /\ GetHttpxClient(c, mode, "opened") /\ "opened" \in States
      /\ UNCHANGED <<clients, handed, asked>>
  BY DEF Enter, States
<1>2. /\ inside' \in Seq(Blocks) /\ Len(inside') = clients
      /\ \A d \in 1..clients, m \in Modes :
            d # c \/ m # mode => inside'[d][m] = inside[d][m]
  BY <1>0, BlockSet DEF Enter, SetBlock
<1>3. Types' /\ References' /\ OneUser' /\ SettingsKept'
  BY <1>1, <1>2, GetKeeps
<1>4. ASSUME NEW d \in 1..clients, NEW m \in Modes PROVE BlockOpen(d, m)'
  <2>1. CASE d = c /\ m = mode
    BY <1>0, <1>1, <2>1, UsedState DEF BlockOpen
  <2>2. CASE d # c \/ m # mode
    BY <1>1, <1>2, <2>2, OthersOpen
  <2> QED
    BY <2>1, <2>2
<1>5. BlocksStayOpen'
  BY <1>1, <1>4 DEF BlocksStayOpen, BlockOpen
<1> QED
  BY <1>3, <1>5 DEF SdkInv

LEMMA ExitStep ==
    ASSUME SdkInv, NEW c \in 1..clients, NEW mode \in Modes, Exit(c, mode)
    PROVE  SdkInv'
<1>0. Types /\ References
  BY DEF SdkInv
<1>1. /\ GetHttpxClient(c, mode, "closed") /\ "closed" \in States
      /\ inside[c][mode] /\ UNCHANGED <<clients, handed, asked>>
  BY DEF Exit, States
<1>2. /\ inside' \in Seq(Blocks) /\ Len(inside') = clients /\ inside'[c][mode] = FALSE
      /\ \A d \in 1..clients, m \in Modes :
            d # c \/ m # mode => inside'[d][m] = inside[d][m]
  BY <1>0, BlockSet DEF Exit, SetBlock
<1>3. Types' /\ References' /\ OneUser' /\ SettingsKept'
  BY <1>1, <1>2, GetKeeps
<1>4. ASSUME NEW d \in 1..clients, NEW m \in Modes PROVE BlockOpen(d, m)'
  <2>1. CASE d = c /\ m = mode
    BY <1>2, <2>1 DEF BlockOpen
  <2>2. CASE d # c \/ m # mode
    BY <1>1, <1>2, <2>2, OthersOpen
  <2> QED
    BY <2>1, <2>2
<1>5. BlocksStayOpen'
  BY <1>1, <1>4 DEF BlocksStayOpen, BlockOpen
<1> QED
  BY <1>3, <1>5 DEF SdkInv

---------------------------------------------------------------------------
(* Copies: with_headers, with_cookies, with_timeout.                       *)

(* The live httpx clients of the original have a setting added. *)
Widened ==
    /\ http' \in Seq(Httpx) /\ Len(http') = Len(http)
    /\ \A h \in 1..Len(http) :
          /\ http'[h].owner = http[h].owner /\ http'[h].token = http[h].token
          /\ http'[h].state = http[h].state
          /\ http'[h].headers.authorization = http[h].headers.authorization
          /\ http'[h].headers.extra >= http[h].headers.extra
          /\ http'[h].option >= http[h].option

(* The copy has the settings asked of it, and no httpx client yet. *)
LEMMA CopyKeeps ==
    ASSUME SdkInv, Widened, NEW c \in 1..clients, NEW o \in Object,
           NEW settings \in Setting, Copies(c, o, settings),
           dict' \in Seq(Dict), Len(dict') \in {Len(dict), Len(dict) + 1},
           \A d \in 1..Len(dict) : dict'[d] = dict[d],
           o.headers \in 1..Len(dict'),
           dict'[o.headers].extra >= settings.extra, o.option >= settings.option
    PROVE  SdkInv'
<1> DEFINE copy == Evolve(o)
           n == clients + 1
<1>0. Types /\ References /\ OneUser /\ SettingsKept /\ BlocksStayOpen
  BY DEF SdkInv
<1>1. /\ Len(http) \in Nat /\ Len(dict) \in Nat /\ clients \in Nat
      /\ object \in Seq(Object) /\ Len(object) = clients
      /\ inside \in Seq(Blocks) /\ Len(inside) = clients
      /\ asked \in Seq(Setting) /\ Len(asked) = clients
      /\ \A h \in 1..Len(http) : http[h] \in Httpx
  BY <1>0, TypeFacts DEF Types
<1>2. /\ clients < MaxClients /\ clients' = n /\ UNCHANGED handed
      /\ object' = Append(object, copy) /\ inside' = Append(inside, Outside)
      /\ asked' = Append(asked, settings)
  BY DEF Copies
<1>3. /\ copy \in Object /\ copy.headers = o.headers /\ copy.option = o.option
      /\ \A m \in Modes : copy.live[m] = None
  BY DEF Evolve, Object, NoHttp
<1>4. Outside \in Blocks /\ \A m \in Modes : Outside[m] = FALSE
  BY DEF Outside, Blocks
<1>3a. copy \in Object
  BY <1>3
<1>4a. Outside \in Blocks
  BY <1>4
<1>2a. clients' = n /\ handed' = handed
  BY <1>2
<1> HIDE DEF copy, n
<1>n. n = clients + 1
  BY DEF n
<1>5. /\ object' \in Seq(Object) /\ Len(object') = n /\ object'[n] = copy
      /\ \A d \in 1..clients : object'[d] = object[d]
  <2>1. /\ object \in Seq(Object) /\ object' = Append(object, copy)
        /\ Len(object) = clients
    BY <1>1, <1>2
  <2>2. /\ Append(object, copy) \in Seq(Object)
        /\ Len(Append(object, copy)) = Len(object) + 1
        /\ Append(object, copy)[Len(object) + 1] = copy
        /\ \A d \in 1..Len(object) : Append(object, copy)[d] = object[d]
    BY <1>3a, <2>1, Appended
  <2> QED
    BY <2>1, <2>2, <1>n
<1>6. /\ inside' \in Seq(Blocks) /\ Len(inside') = n /\ inside'[n] = Outside
      /\ \A d \in 1..clients : inside'[d] = inside[d]
  <2>1. /\ inside \in Seq(Blocks) /\ inside' = Append(inside, Outside)
        /\ Len(inside) = clients
    BY <1>1, <1>2
  <2>2. /\ Append(inside, Outside) \in Seq(Blocks)
        /\ Len(Append(inside, Outside)) = Len(inside) + 1
        /\ Append(inside, Outside)[Len(inside) + 1] = Outside
        /\ \A d \in 1..Len(inside) : Append(inside, Outside)[d] = inside[d]
    BY <1>4a, <2>1, Appended
  <2> QED
    BY <2>1, <2>2, <1>n
<1>7. /\ asked' \in Seq(Setting) /\ Len(asked') = n /\ asked'[n] = settings
      /\ \A d \in 1..clients : asked'[d] = asked[d]
  <2>1. /\ asked \in Seq(Setting) /\ asked' = Append(asked, settings)
        /\ Len(asked) = clients
    BY <1>1, <1>2
  <2>2. /\ Append(asked, settings) \in Seq(Setting)
        /\ Len(Append(asked, settings)) = Len(asked) + 1
        /\ Append(asked, settings)[Len(asked) + 1] = settings
        /\ \A d \in 1..Len(asked) : Append(asked, settings)[d] = asked[d]
    BY <2>1, Appended
  <2> QED
    BY <2>1, <2>2, <1>n
<1>8. n \in Nat /\ 1..n = (1..clients) \cup {n} /\ n \notin 1..clients
  <2>1. clients \in Nat
    BY <1>1
  <2>2. n \in Nat /\ n \notin 1..clients
    BY <2>1, <1>n
  <2>3. 1..(clients + 1) = (1..clients) \cup {clients + 1}
    BY <2>1
  <2> QED
    BY <2>2, <2>3, <1>n
<1>9. Types'
  <2>1. n \in Clients
    BY <1>1, <1>2, <1>n, SdkClientAssumption DEF Clients
  <2>2. Len(dict') \in 1..n
    BY <1>0, <1>1, <1>n DEF Types
  <2>3. http' \in Seq(Httpx) /\ Len(http') \in 0..MaxHttp
    BY <1>0 DEF Types, Widened
  <2> QED
    BY <1>2, <1>5, <1>6, <1>7, <2>1, <2>2, <2>3 DEF Types
<1>10. References'
  <2>1. \A h \in 1..Len(http') : http'[h].owner \in 1..n
    BY <1>0, <1>8 DEF References, Widened
  <2>2. ASSUME NEW d \in 1..n
        PROVE  /\ object'[d].headers \in 1..Len(dict')
               /\ \A m \in Modes : object'[d].live[m] \in 1..Len(http') \cup {None}
    <3>1. CASE d \in 1..clients
      <4>1. object'[d].headers \in 1..Len(dict')
        BY <1>0, <1>1, <1>5, <3>1 DEF References
      <4>2. \A m \in Modes : object'[d].live[m] \in 1..Len(http') \cup {None}
        BY <1>0, <1>5, <3>1 DEF References, Widened
      <4> QED
        BY <4>1, <4>2
    <3>2. CASE d = n
      BY <1>3, <1>5, <3>2
    <3> QED
      BY <1>8, <3>1, <3>2
  <2> QED
    BY <1>2, <2>1, <2>2 DEF References
<1>11. OneUser'
  <2> SUFFICES ASSUME NEW d \in 1..n, NEW e \in 1..n, NEW m \in Modes, NEW k \in Modes,
                      object'[d].live[m] # None,
                      object'[d].live[m] = object'[e].live[k]
               PROVE  object'[d].live[m] \in handed \/ (d = e /\ m = k)
    BY <1>2a DEF OneUser
  <2>1. d # n /\ e # n
    BY <1>3, <1>5
  <2>2. d \in 1..clients /\ e \in 1..clients
    BY <1>8, <2>1
  <2> QED
    BY <1>0, <1>5, <2>2 DEF OneUser
<1>12. SettingsKept'
  <2>1. ASSUME NEW d \in 1..n
        PROVE  /\ dict'[object'[d].headers].extra >= asked'[d].extra
               /\ object'[d].option >= asked'[d].option
    <3>1. CASE d \in 1..clients
      <4>1. object[d].headers \in 1..Len(dict)
        BY <1>0, <3>1 DEF References
      <4> QED
        BY <1>0, <1>5, <1>7, <3>1, <4>1 DEF SettingsKept
    <3>2. CASE d = n
      BY <1>3, <1>5, <1>7, <3>2
    <3> QED
      BY <1>8, <3>1, <3>2
  <2>2. ASSUME NEW h \in 1..Len(http)
        PROVE  /\ http'[h].token # None => http'[h].headers.authorization = http'[h].token
               /\ http'[h].headers.extra >= asked'[http'[h].owner].extra
               /\ http'[h].option >= asked'[http'[h].owner].option
    <3>1. /\ http'[h].owner = http[h].owner /\ http'[h].token = http[h].token
          /\ http'[h].headers.authorization = http[h].headers.authorization
          /\ http'[h].headers.extra >= http[h].headers.extra
          /\ http'[h].option >= http[h].option
      BY DEF Widened
    <3> DEFINE c0 == http[h].owner
    <3>2. c0 \in 1..clients /\ asked'[c0] = asked[c0] /\ asked[c0] \in Setting
      BY <1>0, <1>7, TypeFacts DEF References
    <3>3. /\ http[h].token # None => http[h].headers.authorization = http[h].token
          /\ http[h].headers.extra >= asked[c0].extra /\ http[h].option >= asked[c0].option
      BY <1>0 DEF SettingsKept
    <3>4. /\ http[h].headers.extra \in 0..1 /\ http[h].option \in 0..1
          /\ asked[c0].extra \in 0..1 /\ asked[c0].option \in 0..1
      BY <1>1, <3>2 DEF Httpx, Dict, Setting, Values
    <3>5. http'[h].headers.extra \in 0..1 /\ http'[h].option \in 0..1
      <4>1. http'[h] \in Httpx
        BY Elements DEF Widened
      <4> QED
        BY <4>1 DEF Httpx, Dict, Values
    <3>6. \A x, y, z \in 0..1 : x >= y /\ y >= z => x >= z
      OBVIOUS
    <3>7. /\ http'[h].headers.extra >= asked[c0].extra
          /\ http'[h].option >= asked[c0].option
      BY <3>1, <3>3, <3>4, <3>5, <3>6
    <3> QED
      BY <3>1, <3>2, <3>3, <3>7
  <2> QED
    BY <1>2, <2>1, <2>2 DEF SettingsKept, Widened
<1>13. BlocksStayOpen'
  <2>1. ASSUME NEW d \in 1..n, NEW m \in Modes, inside'[d][m]
        PROVE  /\ object'[d].live[m] # None
               /\ \/ http'[object'[d].live[m]].state = "opened"
                  \/ object'[d].live[m] \in handed
    <3>1. d \in 1..clients
      BY <1>4, <1>6, <1>8, <2>1
    <3>2. /\ object'[d] = object[d] /\ inside[d][m]
          /\ object[d].live[m] \in 1..Len(http) \cup {None}
      BY <1>0, <1>5, <1>6, <2>1, <3>1 DEF References
    <3>3. /\ object[d].live[m] # None
          /\ http[object[d].live[m]].state = "opened" \/ object[d].live[m] \in handed
      BY <1>0, <3>1, <3>2 DEF BlocksStayOpen
    <3> QED
      BY <3>2, <3>3 DEF Widened
  <2> QED
    BY <1>2, <2>1 DEF BlocksStayOpen
<1> QED
  BY <1>9, <1>10, <1>11, <1>12, <1>13 DEF SdkInv

LEMMA WithHeadersStep ==
    ASSUME SdkInv, NEW c \in 1..clients, WithHeaders(c)
    PROVE  SdkInv'
<1> DEFINE d == Len(dict) + 1
           more == dict[object[c].headers]
           extra == [more EXCEPT !.extra = 1]
           o == [object[c] EXCEPT !.headers = d]
           settings == [asked[c] EXCEPT !.extra = 1]
<1>0. Types /\ References /\ SettingsKept
  BY DEF SdkInv
<1>1. /\ Len(http) \in Nat /\ Len(dict) \in Nat /\ clients \in Nat /\ dict \in Seq(Dict)
      /\ object[c] \in Object /\ asked[c] \in Setting /\ Built = 1..Len(http)
      /\ \A h \in 1..Len(http) : http[h] \in Httpx
  BY <1>0, TypeFacts DEF Types
<1>2. /\ http' = [h \in Built |-> IF h \in Live(c)
                                 THEN [http[h] EXCEPT !.headers.extra = 1] ELSE http[h]]
      /\ dict' = Append(dict, extra) /\ Copies(c, o, settings) /\ clients < MaxClients
  BY DEF WithHeaders, Copies
<1>3. more \in Dict
  BY <1>0, TypeFacts DEF References
<1>4. extra \in Dict /\ extra.extra = 1
  BY <1>3, ExtraSet
<1>5. d \in Clients
  BY <1>0, <1>1, <1>2, SdkClientAssumption DEF Types, Clients
<1>6. o \in Object /\ o.headers = d /\ o.option = object[c].option
  BY <1>1, <1>5 DEF Object
<1>7. settings \in Setting /\ settings.extra = 1 /\ settings.option = asked[c].option
  BY <1>1 DEF Setting, Values
<1>8. Widened
  <2>1. ASSUME NEW h \in 1..Len(http)
        PROVE  /\ http'[h] \in Httpx
               /\ http'[h].owner = http[h].owner /\ http'[h].token = http[h].token
               /\ http'[h].state = http[h].state
               /\ http'[h].headers.authorization = http[h].headers.authorization
               /\ http'[h].headers.extra >= http[h].headers.extra
               /\ http'[h].option >= http[h].option
    <3>1. /\ http[h] \in Httpx /\ http[h].headers \in Dict
          /\ http[h].headers.extra \in 0..1 /\ http[h].option \in 0..1
      BY <1>1 DEF Httpx, Dict, Values
    <3>2. CASE h \in Live(c)
      <4> DEFINE headers == [http[h].headers EXCEPT !.extra = 1]
                 x == [http[h] EXCEPT !.headers = headers]
      <4>1. http'[h] = x
        BY <1>1, <1>2, <3>2
      <4>2. /\ headers \in Dict /\ headers.extra = 1
            /\ headers.authorization = http[h].headers.authorization
        BY <3>1, ExtraSet
      <4> HIDE DEF headers
      <4>3. /\ x \in Httpx /\ x.headers = headers /\ x.owner = http[h].owner
            /\ x.token = http[h].token /\ x.state = http[h].state
            /\ x.option = http[h].option
        BY <3>1, <4>2 DEF Httpx
      <4> HIDE DEF x
      <4> QED
        BY <3>1, <4>1, <4>2, <4>3
    <3>3. CASE h \notin Live(c)
      <4>1. http'[h] = http[h]
        BY <1>1, <1>2, <3>3
      <4> QED
        BY <3>1, <4>1
    <3> QED
      BY <3>2, <3>3
  <2>2. http' \in [1..Len(http) -> Httpx]
    BY <1>1, <1>2, <2>1
  <2>3. http' \in Seq(Httpx) /\ Len(http') = Len(http)
    BY <1>1, <2>2, Mapped
  <2> QED
    BY <2>1, <2>3 DEF Widened
<1> HIDE DEF extra, o, settings
<1>9. /\ dict' \in Seq(Dict) /\ Len(dict') = d /\ dict'[d] = extra
      /\ \A i \in 1..Len(dict) : dict'[i] = dict[i]
  BY <1>1, <1>2, <1>4, Appended
<1>10. dict'[o.headers].extra >= settings.extra /\ o.headers \in 1..Len(dict')
  BY <1>1, <1>4, <1>6, <1>7, <1>9
<1>11. o.option >= settings.option
  BY <1>0, <1>6, <1>7 DEF SettingsKept
<1> QED
  BY <1>2, <1>6, <1>7, <1>8, <1>9, <1>10, <1>11, CopyKeeps

LEMMA WithOptionStep ==
    ASSUME SdkInv, NEW c \in 1..clients, WithOption(c)
    PROVE  SdkInv'
<1> DEFINE o == [object[c] EXCEPT !.option = 1]
           settings == [asked[c] EXCEPT !.option = 1]
<1>0. Types /\ References /\ SettingsKept
  BY DEF SdkInv
<1>1. /\ Len(http) \in Nat /\ Len(dict) \in Nat /\ dict \in Seq(Dict)
      /\ object[c] \in Object /\ asked[c] \in Setting /\ Built = 1..Len(http)
      /\ \A h \in 1..Len(http) : http[h] \in Httpx
  BY <1>0, TypeFacts DEF Types
<1>2. /\ http' = [h \in Built |-> IF h \in Live(c)
                                 THEN [http[h] EXCEPT !.option = 1] ELSE http[h]]
      /\ dict' = dict /\ Copies(c, o, settings)
  BY DEF WithOption
<1>3. o \in Object /\ o.headers = object[c].headers /\ o.option = 1
  BY <1>1 DEF Object, Values
<1>4. settings \in Setting /\ settings.extra = asked[c].extra /\ settings.option = 1
  BY <1>1 DEF Setting, Values
<1>5. Widened
  <2>1. ASSUME NEW h \in 1..Len(http)
        PROVE  /\ http'[h] \in Httpx
               /\ http'[h].owner = http[h].owner /\ http'[h].token = http[h].token
               /\ http'[h].state = http[h].state /\ http'[h].headers = http[h].headers
               /\ http[h].headers.extra \in 0..1
               /\ http'[h].option >= http[h].option
    <3>1. /\ http[h] \in Httpx /\ http[h].headers.extra \in 0..1
          /\ http[h].option \in 0..1
      BY <1>1 DEF Httpx, Dict, Values
    <3>2. CASE h \in Live(c)
      <4> DEFINE x == [http[h] EXCEPT !.option = 1]
      <4>1. http'[h] = x
        BY <1>1, <1>2, <3>2
      <4>2. /\ x \in Httpx /\ x.headers = http[h].headers /\ x.owner = http[h].owner
            /\ x.token = http[h].token /\ x.state = http[h].state /\ x.option = 1
        BY <3>1 DEF Httpx, Values
      <4> HIDE DEF x
      <4> QED
        BY <3>1, <4>1, <4>2
    <3>3. CASE h \notin Live(c)
      <4>1. http'[h] = http[h]
        BY <1>1, <1>2, <3>3
      <4> QED
        BY <3>1, <4>1
    <3> QED
      BY <3>2, <3>3
  <2>2. http' \in [1..Len(http) -> Httpx]
    BY <1>1, <1>2, <2>1
  <2>3. http' \in Seq(Httpx) /\ Len(http') = Len(http)
    BY <1>1, <2>2, Mapped
  <2> QED
    BY <2>1, <2>3 DEF Widened
<1> HIDE DEF o, settings
<1>6. /\ dict' \in Seq(Dict) /\ Len(dict') = Len(dict)
      /\ \A d \in 1..Len(dict) : dict'[d] = dict[d]
  BY <1>1, <1>2
<1>7. /\ dict'[o.headers].extra >= settings.extra /\ o.headers \in 1..Len(dict')
      /\ o.option >= settings.option
  BY <1>0, <1>2, <1>3, <1>4 DEF SettingsKept, References
<1> QED
  BY <1>2, <1>3, <1>4, <1>5, <1>6, <1>7, CopyKeeps

---------------------------------------------------------------------------
(* set_httpx_client and a new token.                                       *)

LEMMA SetHttpxClientStep ==
    ASSUME SdkInv, NEW c \in 1..clients, NEW other \in 1..clients, NEW mode \in Modes,
           SetHttpxClient(c, other, mode)
    PROVE  SdkInv'
<1> DEFINE h == object[other].live[mode]
           q == [object[c] EXCEPT !.live[mode] = h]
<1>0. Types /\ References /\ OneUser /\ SettingsKept /\ BlocksStayOpen
  BY DEF SdkInv
<1>1. /\ Len(http) \in Nat /\ Len(http) \in 0..MaxHttp /\ object[c] \in Object
      /\ object \in Seq(Object) /\ Len(object) = clients
  BY <1>0, TypeFacts DEF Types
<1>2. /\ h # None /\ ~inside[c][mode]
      /\ object' = [object EXCEPT ![c].live[mode] = h]
      /\ handed' = handed \cup {h}
      /\ UNCHANGED <<clients, dict, http, inside, asked>>
  BY DEF SetHttpxClient
<1>3. h \in 1..Len(http) /\ h \in Https
  BY <1>0, <1>1, <1>2, SdkClientAssumption DEF References, Https
<1>4. object' = [object EXCEPT ![c] = q]
  BY <1>2
<1> HIDE DEF h
<1>5. /\ q \in Object /\ q.headers = object[c].headers /\ q.option = object[c].option
      /\ q.live[mode] = h
      /\ \A m \in Modes : m # mode => q.live[m] = object[c].live[m]
  BY <1>1, <1>3, LiveSet
<1> HIDE DEF q
<1>6. /\ object' \in Seq(Object) /\ Len(object') = clients /\ object'[c] = q
      /\ \A d \in 1..clients : d # c => object'[d] = object[d]
  BY <1>1, <1>4, <1>5, Changed
<1>7. \A d \in 1..clients :
         /\ object'[d].headers = object[d].headers
         /\ object'[d].option = object[d].option
  BY <1>5, <1>6
<1>8. \A d \in 1..clients, m \in Modes :
         \/ d = c /\ m = mode /\ object'[d].live[m] = h
         \/ (d # c \/ m # mode) /\ object'[d].live[m] = object[d].live[m]
  BY <1>5, <1>6
<1>9. Types'
  BY <1>0, <1>2, <1>6 DEF Types
<1>10. References'
  BY <1>0, <1>2, <1>3, <1>7, <1>8 DEF References
<1>11. OneUser'
  <2> SUFFICES ASSUME NEW d \in 1..clients, NEW e \in 1..clients,
                      NEW m \in Modes, NEW k \in Modes, object'[d].live[m] # None,
                      object'[d].live[m] = object'[e].live[k]
               PROVE  object'[d].live[m] \in handed' \/ (d = e /\ m = k)
    BY <1>2 DEF OneUser
  <2>1. CASE object'[d].live[m] = h
    BY <1>2, <2>1
  <2>2. CASE object'[d].live[m] # h
    <3>1. object'[d].live[m] = object[d].live[m] /\ object'[e].live[k] = object[e].live[k]
      BY <1>8, <2>2
    <3> QED
      BY <1>0, <1>2, <3>1 DEF OneUser
  <2> QED
    BY <2>1, <2>2
<1>12. SettingsKept'
  BY <1>0, <1>2, <1>7 DEF SettingsKept
<1>13. BlocksStayOpen'
  <2>1. ASSUME NEW d \in 1..clients, NEW m \in Modes, inside[d][m]
        PROVE  /\ object'[d].live[m] # None
               /\ \/ http[object'[d].live[m]].state = "opened"
                  \/ object'[d].live[m] \in handed'
    <3>1. d # c \/ m # mode
      BY <1>2, <2>1
    <3>2. object'[d].live[m] = object[d].live[m]
      BY <1>8, <3>1
    <3>3. /\ object[d].live[m] # None
          /\ http[object[d].live[m]].state = "opened" \/ object[d].live[m] \in handed
      BY <1>0, <2>1 DEF BlocksStayOpen
    <3> QED
      BY <1>2, <3>2, <3>3
  <2> QED
    BY <1>2, <2>1 DEF BlocksStayOpen
<1> QED
  BY <1>9, <1>10, <1>11, <1>12, <1>13 DEF SdkInv

LEMMA RenewStep ==
    ASSUME SdkInv, NEW c \in 1..clients, NEW token \in Tokens, Renew(c, token)
    PROVE  SdkInv'
<1> DEFINE q == [object[c] EXCEPT !.token = token]
<1>0. Types /\ References /\ OneUser /\ SettingsKept /\ BlocksStayOpen
  BY DEF SdkInv
<1>1. object[c] \in Object /\ object \in Seq(Object) /\ Len(object) = clients
  BY <1>0, TypeFacts DEF Types
<1>2. /\ object' = [object EXCEPT ![c].token = token]
      /\ UNCHANGED <<clients, dict, http, inside, handed, asked>>
  BY DEF Renew
<1>3. object' = [object EXCEPT ![c] = q]
  BY <1>2
<1>4. /\ q \in Object /\ q.headers = object[c].headers /\ q.option = object[c].option
      /\ q.live = object[c].live
  BY <1>1 DEF Object, Token
<1> HIDE DEF q
<1>5. /\ object' \in Seq(Object) /\ Len(object') = clients /\ object'[c] = q
      /\ \A d \in 1..clients : d # c => object'[d] = object[d]
  BY <1>1, <1>3, <1>4, Changed
<1>6. \A d \in 1..clients :
         /\ object'[d].headers = object[d].headers
         /\ object'[d].option = object[d].option /\ object'[d].live = object[d].live
  BY <1>4, <1>5
<1>7. Types'
  BY <1>0, <1>2, <1>5 DEF Types
<1>8. References' /\ SettingsKept'
  BY <1>0, <1>2, <1>6 DEF References, SettingsKept
<1>9. OneUser'
  BY <1>0, <1>2, <1>6 DEF OneUser
<1>10. BlocksStayOpen'
  BY <1>0, <1>2, <1>6 DEF BlocksStayOpen
<1> QED
  BY <1>7, <1>8, <1>9, <1>10 DEF SdkInv

---------------------------------------------------------------------------
(* The theorems.                                                           *)

LEMMA SdkInit == Init => SdkInv
<1> SUFFICES ASSUME Init PROVE SdkInv
  OBVIOUS
<1>1. PICK token \in Tokens \cup {None} :
         object = <<[token |-> token, headers |-> 1, option |-> 0, live |-> NoHttp]>>
  BY DEF Init
<1> DEFINE o == [token |-> token, headers |-> 1, option |-> 0, live |-> NoHttp]
           d == [authorization |-> None, extra |-> 0]
           s == [extra |-> 0, option |-> 0]
<1>2. /\ clients = 1 /\ object = <<o>> /\ dict = <<d>> /\ http = <<>>
      /\ inside = <<Outside>> /\ asked = <<s>>
  BY <1>1 DEF Init
<1>3. o \in Object /\ o.headers = 1 /\ o.option = 0 /\ \A m \in Modes : o.live[m] = None
  BY SdkClientAssumption DEF Object, Token, Clients, Values, NoHttp
<1>4. d \in Dict /\ d.extra = 0 /\ s \in Setting /\ s.extra = 0 /\ s.option = 0
  BY DEF Dict, Setting, Token, Values
<1>5. Outside \in Blocks /\ \A m \in Modes : ~Outside[m]
  BY DEF Outside, Blocks
<1> HIDE DEF o, d, s
<1>6. /\ object \in Seq(Object) /\ Len(object) = 1 /\ object[1] = o
      /\ dict \in Seq(Dict) /\ Len(dict) = 1 /\ dict[1] = d
      /\ asked \in Seq(Setting) /\ Len(asked) = 1 /\ asked[1] = s
  BY <1>2, <1>3, <1>4
<1>7. inside \in Seq(Blocks) /\ Len(inside) = 1 /\ inside[1] = Outside
  BY <1>2, <1>5
<1>8. http \in Seq(Httpx) /\ Len(http) = 0
  BY <1>2
<1>9. Types
  BY <1>2, <1>6, <1>7, <1>8, SdkClientAssumption DEF Types, Clients
<1>10. \A c \in 1..clients : c = 1
  BY <1>2
<1>11. References
  BY <1>3, <1>6, <1>8, <1>10 DEF References
<1>12. OneUser
  BY <1>3, <1>6, <1>10 DEF OneUser
<1>13. SettingsKept
  BY <1>3, <1>4, <1>6, <1>8, <1>10 DEF SettingsKept
<1>14. BlocksStayOpen
  BY <1>5, <1>7, <1>10 DEF BlocksStayOpen
<1> QED
  BY <1>9, <1>11, <1>12, <1>13, <1>14 DEF SdkInv

(* The invariant holds in every state. *)
THEOREM SdkInvCorrect == Spec => []SdkInv
<1>1. SdkInv /\ [Next]_vars => SdkInv'
  <2> SUFFICES ASSUME SdkInv, [Next]_vars PROVE SdkInv'
    OBVIOUS
  <2>1. CASE Next
    <3>1. PICK c \in 1..clients :
             \/ \E mode \in Modes : \/ Get(c, mode) \/ Request(c, mode) \/ Enter(c, mode)
                                    \/ Exit(c, mode)
                                    \/ \E other \in 1..clients :
                                          SetHttpxClient(c, other, mode)
             \/ WithHeaders(c) \/ WithOption(c)
             \/ \E token \in Tokens : Renew(c, token)
      BY <2>1 DEF Next
    <3>2. ASSUME NEW mode \in Modes, Get(c, mode) \/ Request(c, mode) PROVE SdkInv'
      BY <3>2, GetStep
    <3>3. ASSUME NEW mode \in Modes, Enter(c, mode) PROVE SdkInv'
      BY <3>3, EnterStep
    <3>4. ASSUME NEW mode \in Modes, Exit(c, mode) PROVE SdkInv'
      BY <3>4, ExitStep
    <3>5. ASSUME NEW mode \in Modes, NEW other \in 1..clients,
                 SetHttpxClient(c, other, mode)
          PROVE  SdkInv'
      BY <3>5, SetHttpxClientStep
    <3>6. CASE WithHeaders(c)
      BY <3>6, WithHeadersStep
    <3>7. CASE WithOption(c)
      BY <3>7, WithOptionStep
    <3>8. ASSUME NEW token \in Tokens, Renew(c, token) PROVE SdkInv'
      BY <3>8, RenewStep
    <3> QED
      BY <3>1, <3>2, <3>3, <3>4, <3>5, <3>6, <3>7, <3>8
  <2>2. CASE UNCHANGED vars
    BY <2>2 DEF vars, SdkInv, Types, References, OneUser, SettingsKept, BlocksStayOpen
  <2> QED
    BY <2>1, <2>2
<1> QED
  BY <1>1, SdkInit, PTL DEF Spec

(* The httpx client of a with block is open to its end, unless it was      *)
(* handed to another object (__enter__, __exit__ and their async forms).   *)
THEOREM OpenInBlocks == Spec => []BlocksStayOpen
<1>1. SdkInv => BlocksStayOpen
  BY DEF SdkInv
<1> QED
  BY <1>1, SdkInvCorrect, PTL

(* Every httpx client carries its own object's token and every setting     *)
(* asked of it, though copies share dictionaries (get_httpx_client,        *)
(* with_headers, with_cookies, with_timeout).                              *)
THEOREM HttpxClientsBuiltRight == Spec => []BuiltForItsOwner
<1>1. SdkInv => BuiltForItsOwner
  <2> SUFFICES ASSUME SdkInv PROVE BuiltForItsOwner
    OBVIOUS
  <2>1. SettingsKept /\ Built = 1..Len(http)
    BY TypeFacts DEF SdkInv
  <2> QED
    BY <2>1 DEF SettingsKept, BuiltForItsOwner
<1> QED
  BY <1>1, SdkInvCorrect, PTL
=============================================================================
