----------------------------- MODULE SdkClient ------------------------------
(***************************************************************************)
(* snap_track_api_client/client.py: Client and AuthenticatedClient.        *)
(*                                                                         *)
(* A client is a mutable object: settings, and at most one live httpx      *)
(* client for blocking calls and one for asynchronous calls, built at the  *)
(* first use from the settings of that moment and kept.  with_headers,     *)
(* with_cookies and with_timeout update the live httpx clients of the      *)
(* object they are called on and return a copy without any; the copy of    *)
(* with_cookies and with_timeout holds the very headers dictionary of the  *)
(* original, into which an AuthenticatedClient writes its Authorization.   *)
(* An httpx client copies the settings it is built from, is entered at     *)
(* most once, and raises once it is closed.                                *)
(***************************************************************************)
EXTENDS Naturals, Sequences, FiniteSets

CONSTANTS Tokens,           \* bearer tokens
          Modes,            \* blocking and asynchronous: the two httpx clients
          MaxClients,       \* bound: client objects
          MaxHttp,          \* bound: httpx clients
          None
ASSUME SdkClientAssumption ==
    /\ IsFiniteSet(Modes) /\ MaxClients \in Nat \ {0}
    /\ MaxHttp \in Nat /\ None \notin Tokens /\ None \notin 1..MaxHttp

Clients == 1..MaxClients
Https == 1..MaxHttp
Values == 0..1      \* a setting: 0 as constructed, 1 as a with_ call added it

VARIABLES
    clients,    \* the objects made so far: 1..clients
    object,     \* object[c]: its attributes
    dict,       \* dict[d]: the headers dictionaries, one per object at most
    http,       \* http[h]: the httpx clients, in the order they were built
    inside,     \* inside[c][mode]: c is in a with block it entered
    handed,     \* the httpx clients passed to a set_httpx_client
    asked       \* the settings the caller has asked of c so far
vars == <<clients, object, dict, http, inside, handed, asked>>

Built == DOMAIN http
NoHttp == [m \in Modes |-> None]
Outside == [m \in Modes |-> FALSE]

(* A plain Client has no token; `headers` is the identity of its           *)
(* dictionary, not a copy of it.                                           *)
Init ==
    /\ clients = 1
    /\ \E token \in Tokens \union {None} :
         object = <<[token |-> token, headers |-> 1, option |-> 0,
                     live |-> NoHttp]>>
    /\ dict = <<[authorization |-> None, extra |-> 0]>>
    /\ http = <<>>
    /\ inside = <<Outside>>
    /\ handed = {}
    /\ asked = <<[extra |-> 0, option |-> 0]>>

-----------------------------------------------------------------------------
(* Mutant of Header: an Authorization that is there already is kept.       *)
HeaderUnlessSet(c, token) ==
    IF token = None \/ dict[object[c].headers].authorization # None
    THEN dict[object[c].headers]
    ELSE [dict[object[c].headers] EXCEPT !.authorization = token]

(* get_httpx_client and get_async_httpx_client: the authenticated ones     *)
(* write the header into their dictionary first.                           *)
Header(c, token) ==
    IF token = None THEN dict[object[c].headers]
    ELSE [dict[object[c].headers] EXCEPT !.authorization = token]

GetHttpxClient(c, mode, state) ==
    LET o == object[c]
        headers == Header(c, o.token)
    IN  IF o.live[mode] # None
        THEN /\ http' = [http EXCEPT ![o.live[mode]].state = state]
             /\ UNCHANGED <<object, dict>>
        ELSE /\ Len(http) < MaxHttp
             /\ dict' = [dict EXCEPT ![o.headers] = headers]
             /\ http' = Append(http,
                    [owner |-> c, token |-> o.token, headers |-> headers,
                     option |-> o.option, state |-> state])
             /\ object' = [object EXCEPT ![c].live[mode] = Len(http) + 1]

(* The state of the httpx client that c would use now.                     *)
State(c, mode) == IF object[c].live[mode] = None THEN "unopened"
                  ELSE http[object[c].live[mode]].state

(* The httpx client taken to be modified directly, before any request.     *)
Get(c, mode) ==
    /\ State(c, mode) = "unopened"
    /\ GetHttpxClient(c, mode, "unopened")
    /\ UNCHANGED <<clients, inside, handed, asked>>

(* client.get_httpx_client().request(...), from an endpoint's sync or      *)
(* asyncio functions: the first request opens the httpx client; a closed   *)
(* one raises.                                                             *)
Request(c, mode) ==
    /\ State(c, mode) # "closed"
    /\ GetHttpxClient(c, mode, "opened")
    /\ UNCHANGED <<clients, inside, handed, asked>>

(* __enter__ and __aenter__ raise for one that is open or closed already.  *)
Enter(c, mode) ==
    /\ State(c, mode) = "unopened"
    /\ GetHttpxClient(c, mode, "opened")
    /\ inside' = [inside EXCEPT ![c][mode] = TRUE]
    /\ UNCHANGED <<clients, handed, asked>>

(* Mutant of Exit: leaving one of the blocks closes both httpx clients.    *)
ExitBoth(c, mode) ==
    /\ inside[c][mode]
    /\ http' = [h \in Built |-> IF h \in {object[c].live[m] : m \in Modes}
                               THEN [http[h] EXCEPT !.state = "closed"]
                               ELSE http[h]]
    /\ inside' = [inside EXCEPT ![c][mode] = FALSE]
    /\ UNCHANGED <<clients, object, dict, handed, asked>>

(* __exit__ and __aexit__                                                  *)
Exit(c, mode) ==
    /\ inside[c][mode]
    /\ GetHttpxClient(c, mode, "closed")
    /\ inside' = [inside EXCEPT ![c][mode] = FALSE]
    /\ UNCHANGED <<clients, handed, asked>>

-----------------------------------------------------------------------------
(* evolve(self, ...): a copy with the given attributes and without the     *)
(* httpx clients, which are no arguments of the constructor.               *)
Evolve(o) == [o EXCEPT !.live = NoHttp]

Copies(c, o, settings) ==
    /\ clients < MaxClients
    /\ clients' = clients + 1
    /\ object' = Append(object, Evolve(o))
    /\ inside' = Append(inside, Outside)
    /\ UNCHANGED handed
    /\ asked' = Append(asked, settings)

(* The live httpx clients of c, both updated by the three methods.         *)
Live(c) == {object[c].live[m] : m \in Modes} \ {None}

WithHeaders(c) ==
    LET d == Len(dict) + 1
        more == dict[object[c].headers]
    IN  /\ http' = [h \in Built |->
              IF h \in Live(c)
              THEN [http[h] EXCEPT !.headers.extra = 1] ELSE http[h]]
        /\ dict' = Append(dict, [more EXCEPT !.extra = 1])
        /\ Copies(c, [object[c] EXCEPT !.headers = d],
                  [asked[c] EXCEPT !.extra = 1])

(* with_cookies and with_timeout, which treat their setting alike.         *)
WithOption(c) ==
    /\ http' = [h \in Built |->
          IF h \in Live(c) THEN [http[h] EXCEPT !.option = 1] ELSE http[h]]
    /\ Copies(c, [object[c] EXCEPT !.option = 1], [asked[c] EXCEPT !.option = 1])
    /\ UNCHANGED dict

(* set_httpx_client(other.get_httpx_client()): two objects over one httpx  *)
(* client, whose settings then override those of the object.               *)
SetHttpxClient(c, other, mode) ==
    /\ other # c /\ object[other].live[mode] # None
    /\ ~inside[c][mode]
    /\ object' = [object EXCEPT ![c].live[mode] = object[other].live[mode]]
    /\ handed' = handed \union {object[other].live[mode]}
    /\ UNCHANGED <<clients, dict, http, inside, asked>>

(* client.token = token, after the caller has logged in again.             *)
Renew(c, token) ==
    /\ object[c].token \notin {None, token}
    /\ object' = [object EXCEPT ![c].token = token]
    /\ UNCHANGED <<clients, dict, http, inside, handed, asked>>

Next ==
    \E c \in 1..clients :
      \/ \E mode \in Modes : \/ Get(c, mode) \/ Request(c, mode) \/ Enter(c, mode)
                             \/ Exit(c, mode)
                             \/ \E other \in 1..clients :
                                  SetHttpxClient(c, other, mode)
      \/ WithHeaders(c) \/ WithOption(c)
      \/ \E token \in Tokens : Renew(c, token)

Spec == Init /\ [][Next]_vars

-----------------------------------------------------------------------------
(* Every reference is to an object that exists, and the two kinds of a     *)
(* client never mix: a plain Client has no token, whoever it was copied    *)
(* from.                                                                   *)
TypeOK ==
    /\ clients \in Clients /\ Built \subseteq Https
    /\ DOMAIN object = 1..clients /\ DOMAIN dict \subseteq Clients
    /\ \A c \in 1..clients :
         /\ object[c].headers \in DOMAIN dict
         /\ object[c].option \in Values
         /\ \A m \in Modes : object[c].live[m] \in Built \union {None}
    /\ \A h \in Built : http[h].state \in {"unopened", "opened", "closed"}

(* get_httpx_client writes the Authorization of this object into a         *)
(* dictionary that other objects may hold too, with another token: still,  *)
(* every httpx client carries the token its own object had when it was     *)
(* built. And whatever the order of the with_ calls and of first uses, it  *)
(* has every setting asked of its object: none of the additions to the     *)
(* original it was copied from is lost.                                    *)
BuiltForItsOwner ==
    \A h \in Built :
      LET want == asked[http[h].owner]
      IN  /\ http[h].token # None => http[h].headers.authorization = http[h].token
          /\ http[h].headers.extra >= want.extra
          /\ http[h].option >= want.option

(* What goes on in a with block goes through an open httpx client, the     *)
(* same to the end, whatever copies are made, used and closed meanwhile -  *)
(* unless the block's httpx client was handed to another object, which may *)
(* close it.                                                               *)
BlocksStayOpen ==
    \A c \in 1..clients, m \in Modes :
      inside[c][m] => LET h == object[c].live[m]
                      IN  h # None /\ (http[h].state = "opened" \/ h \in handed)

(* with_headers: "Get a new client matching this one with additional       *)
(* headers".  The object it is called on does not change what it sends.    *)
OriginalUntouched ==
    \A h \in Built : http[h].headers.extra = asked[http[h].owner].extra
=============================================================================
