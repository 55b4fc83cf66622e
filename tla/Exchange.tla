------------------------------ MODULE Exchange ------------------------------
(***************************************************************************)
(* One HTTP exchange after another between a client and the API.  The      *)
(* client calls the API through a function of the SDK, with arguments of   *)
(* the annotated types, or sends a request of its own making, as curl, the *)
(* Postman collection and Schemathesis do.  The API answers as Api says,   *)
(* with a document of the answer's class, and the SDK parses what comes    *)
(* back from its own calls.                                                *)
(***************************************************************************)
EXTENDS Wire

CONSTANTS NullSets,     \* bound: the sets of fields the server leaves null
          Variants,     \* bound: the variants of a document, 1..Variants
          RawRequests   \* TRUE: also requests that do not come from the SDK
ASSUME ExchangeAssumption ==
    /\ RawRequests \in BOOLEAN
    /\ NullSets \subseteq SUBSET STRING /\ Variants \in Nat \ {0}

Server == INSTANCE Api
Sdk == INSTANCE SdkCalls

VARIABLES
    stage,      \* "idle" -> "asked" -> "answered" (-> "parsed") -> "idle"
    call,       \* the SDK call: its operation, body object, paging, raise flag
    request,    \* what went over the wire
    answer,     \* what the API answered, with its document
    result      \* what the SDK made of it
vars == <<stage, call, request, answer, result>>

None == [is |-> "none"]

Init ==
    /\ stage = "idle"
    /\ call = None /\ request = None /\ answer = None /\ result = None

-----------------------------------------------------------------------------
(* The bodies a type-checked caller can build: every field takes values of *)
(* its annotation, and one key may have been set through the mapping.      *)
Texts == {Str("text"), Str("long")}
OrNone == Texts \union {Null, Unset}
Bodies(cls) ==
    CASE cls \in {"UserCreate", "UserLogin"} ->
           {[email |-> e, password |-> p] :
                e \in {Str("text"), Str("bad")}, p \in Texts}
      [] cls = "DecisionCreate" ->
           {[decision |-> Enum(w), note |-> n] :
                w \in Sdk!ModerationDecision, n \in OrNone}
      [] cls = "FlagCreate" ->
           {[reason |-> Enum(w), note |-> n] : w \in Sdk!FlagReason, n \in OrNone}
      [] OTHER -> {[caption |-> c] : c \in OrNone}
Extended(object) ==
    {object, Sdk!SetItem(object, "hue", Str("text"))}
        \union IF "caption" \in DOMAIN object.at
               THEN {Sdk!SetItem(object, "caption", Str("text"))} ELSE {}
Arguments(op) ==
    IF op \in DOMAIN Sdk!BodyClass
    THEN UNION {Extended(Model(Sdk!BodyClass[op], at, NoFields)) :
                    at \in Bodies(Sdk!BodyClass[op])}
    ELSE {Null}
Pagings == [limit : {Unset, Num("1"), Num("101")},
            offset : {Unset, Num("20"), Num("1000001")}]

CallSdk ==
    /\ stage = "idle"
    /\ \E op \in DOMAIN Sdk!Endpoint :
       \E body \in Arguments(op), raises \in BOOLEAN,
          caller \in {"nobody", "user", "admin"},
          params \in IF Sdk!Endpoint[op].paged THEN Pagings ELSE {NoFields} :
         /\ call' = [op |-> op, body |-> body, params |-> params,
                     raises |-> raises]
         /\ request' = Sdk!GetKwargs(op, body, params) @@ [caller |-> caller]
    /\ stage' = "asked"
    /\ UNCHANGED <<answer, result>>

(* Any method on any path of the API or off it, with or without a body     *)
(* that parses.                                                            *)
Paths == {<<"nowhere">>, <<"photos", "x">>, <<"photos", "x", "flag">>}
    \union {[i \in DOMAIN r.path |->
                IF r.path[i] = Server!Param THEN "7" ELSE r.path[i]] :
            r \in {Server!create_app[i] : i \in DOMAIN Server!create_app}}
SendRaw ==
    /\ RawRequests
    /\ stage = "idle"
    /\ \E method \in Server!Methods, path \in Paths,
          caller \in {"nobody", "user", "admin"},
          format \in {"none", "json", "multipart", "broken", "undecodable"} :
         request' = [method |-> method, path |-> path, format |-> format,
                     content |-> Obj(NoFields), query |-> NoFields,
                     caller |-> caller]
    /\ call' = None
    /\ stage' = "asked"
    /\ UNCHANGED <<answer, result>>

(* FastAPI's error bodies and the answers without a JSON body.             *)
Content(cls, nulls, n) ==
    IF cls \in DOMAIN Server!Class THEN Server!Document(cls, nulls, n)
    ELSE [is |-> cls]

Reply ==
    /\ stage = "asked"
    /\ \E a \in Server!Serve(request), nulls \in NullSets, n \in 1..Variants :
         answer' = a @@ [doc |-> Content(a.cls, nulls, n)]
    /\ stage' = "answered"
    /\ UNCHANGED <<call, request, result>>

Parse ==
    /\ stage = "answered" /\ call # None
    /\ result' = Sdk!ParseResponse(call.op, call.raises, answer)
    /\ stage' = "parsed"
    /\ UNCHANGED <<call, request, answer>>

Finish ==
    /\ \/ stage = "parsed"
       \/ stage = "answered" /\ call = None
    /\ stage' = "idle"
    /\ call' = None /\ request' = None /\ answer' = None /\ result' = None

Next == \/ CallSdk \/ SendRaw \/ Reply \/ Parse \/ Finish

Spec == Init /\ [][Next]_vars

-----------------------------------------------------------------------------
(* The exchange goes through its stages and each holds what it should.     *)
TypeOK ==
    /\ stage \in {"idle", "asked", "answered", "parsed"}
    /\ (stage = "idle") = (request = None)
    /\ (stage \in {"answered", "parsed"}) = (answer # None)
    /\ (stage = "parsed") = (result # None)
    /\ result # None => result.raised \in {"nothing", "ParseError", "UnexpectedStatus"}

(* Whatever the client sends, by whatever method, parsed or not and with   *)
(* or without a token, the code of the answer is one the schema lists for  *)
(* the operation that ran (responses.py: the spec lists every status code  *)
(* the API returns), unless the handler crashed; and the health routes     *)
(* never crash.                                                            *)
UndocumentedIsCrash ==
    answer # None /\ answer.op \in DOMAIN Server!Op
        /\ answer.code \notin Server!Documented(answer.op) =>
      answer.cls = "Crash" /\ answer.op \notin {"healthz", "readyz"}

(* A path answers 405 to exactly the methods that the Allow header of such *)
(* an answer leaves out, besides OPTIONS, which AllowHeaderMiddleware adds *)
(* to every one: the header is the union over the routes of the path and   *)
(* not the methods of the one route that matched.                          *)
AllowIsExact ==
    answer # None /\ Server!OnPath(request.path) # {} =>
      LET allow == Server!AllowHeader(request.path) IN
      /\ (answer.code = 405) = (request.method \notin allow \ {"OPTIONS"})
      /\ answer.code = 405 => answer.allow = allow

(* A call of the SDK runs the operation it is named for, on what the       *)
(* caller passed: a field the caller set arrives as set, one left unset    *)
(* takes the value put under its key or the server's default, which for    *)
(* the paging is the one the SDK's signature promises.  Only None as the   *)
(* caption of an upload arrives as something else.                         *)
Passed(object) ==
    LET Given(f) ==
            IF object.at[f] = Unset
            THEN IF f \in DOMAIN object.more THEN object.more[f] ELSE Null
            ELSE IF object.at[f].is = "enum" THEN Str(object.at[f].word)
            ELSE object.at[f]
    IN  [f \in DOMAIN object.at |-> Given(f)]
Duplicated ==    \* the caption of an upload is sent twice: the last one counts
    call.op = "upload_photo" /\ "caption" \in DOMAIN call.body.more
Ran == stage \in {"answered", "parsed"} /\ call # None
       /\ answer.code \notin {400, 401, 403, 422, 500}
ArgumentsArrive ==
    Ran =>
      /\ answer.op = call.op
      /\ call.body # Null /\ ~Duplicated =>
           \A f \in DOMAIN call.body.at :
             \/ answer.got[f] = Passed(call.body)[f]
             \/ call.op = "upload_photo" /\ call.body.at[f] = Null
      /\ \A f \in DOMAIN call.params :
           answer.got[f] = IF call.params[f] # Unset THEN call.params[f]
                           ELSE Num(IF f = "limit" THEN "20" ELSE "0")

(* Whatever the server writes - any of its enumeration words, any field it *)
(* may leave null, lists of any length - the SDK makes of it an object     *)
(* that says the same: of the class of the answer, with every field the    *)
(* server wrote, and writing it back gives the document again (timestamps  *)
(* in the other notation of the same instant).  In particular a moderation *)
(* action is never taken for a flag, and no field holds the raw JSON of a  *)
(* timestamp, an enumeration or a nested model, which the cast at the end  *)
(* of each _parse_ function would let through.                             *)
SameWith(Nested(_, _), v, w) ==
    /\ v.is = w.is
    /\ v.is = "str" => IF v.word \in DOMAIN Instant
                       THEN /\ w.word \in DOMAIN Instant
                            /\ Instant[v.word] = Instant[w.word]
                       ELSE v = w
    /\ v.is = "num" => v = w
    /\ v.is = "obj" => /\ DOMAIN v.at = DOMAIN w.at
                       /\ \A f \in DOMAIN v.at : Nested(v.at[f], w.at[f])
    /\ v.is = "list" => /\ Len(v.items) = Len(w.items)
                        /\ \A i \in DOMAIN v.items :
                             Nested(v.items[i], w.items[i])
(* An object of a list of objects of objects of values.                    *)
Differ(v, w) == FALSE
SameValue(v, w) == SameWith(Differ, v, w)
SamePart(v, w) == SameWith(SameValue, v, w)
SameRow(v, w) == SameWith(SamePart, v, w)
SameRows(v, w) == SameWith(SameRow, v, w)
SameDoc(v, w) == SameWith(SameRows, v, w)
Parses == stage = "parsed" /\ answer.code \in DOMAIN Sdk!Endpoint[call.op].answers
          /\ Sdk!Endpoint[call.op].answers[answer.code] # "None"
AnswersParsed ==
    Parses =>
      /\ result.raised = "nothing"
      /\ result.parsed.cls = answer.cls
      /\ SameDoc(Sdk!ToDict(result.parsed), answer.doc)
      /\ \A f \in DOMAIN result.parsed.at :
           LET kind == Sdk!Class[result.parsed.cls][f].kind
           IN  kind.of \in {"time", "enum", "model", "list"} =>
                 result.parsed.at[f] = Null \/ result.parsed.at[f].is = kind.of

(* errors.py: UnexpectedStatus is raised when the status is undocumented.  *)
UnexpectedOnlyIfUndocumented ==
    stage = "parsed" /\ result.raised = "UnexpectedStatus" =>
        answer.code \notin Server!Documented(call.op)

(* The SDK's README: sync returns parsed data (if successful) or None.     *)
SyncOnlyIfSuccessful ==
    stage = "parsed" /\ answer.code >= 400 => result.parsed = Null

(* BodyUploadPhotoPhotosPost: caption (None | str | Unset); a caption of   *)
(* None is no caption.                                                     *)
NoCaptionIsNone ==
    Ran /\ call.op = "upload_photo" /\ ~Duplicated /\ call.body.at.caption = Null
        => answer.got.caption = Null
=============================================================================
