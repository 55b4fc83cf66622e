------------------------------ MODULE SdkCalls ------------------------------
(***************************************************************************)
(* snap_track_api_client/api: one module per endpoint.  _get_kwargs makes  *)
(* the request, _parse_response turns the answer into a model by its       *)
(* status code, and _build_response wraps both into a Response.  Each      *)
(* endpoint is a record of what its module says: method, url, the body it  *)
(* serialises ("json", "multipart", "none"), whether it has the paging     *)
(* parameters, and the class of each status code it parses; the value      *)
(* "None" parses to None whatever the body, "Either" tries FlagOut first   *)
(* and ModerationActionOut if that raises.                                 *)
(***************************************************************************)
EXTENDS SdkModels

Id == "7"                              \* quote(str(photo_id), safe="")

Codes(codes, cls) == [c \in codes |-> cls]
Errors(codes) == Codes(codes, "ErrorResponse")
Invalid == 422 :> "HTTPValidationError"

Call(method, url, body, paged, answers) ==
    [method |-> method, url |-> url, body |-> body, paged |-> paged,
     answers |-> answers]

login == Call("POST", <<"auth", "login">>, "json", FALSE,
    200 :> "Token" @@ Errors({400, 401, 403, 405}) @@ Invalid)
me == Call("GET", <<"auth", "me">>, "none", FALSE,
    200 :> "UserOut" @@ Errors({401, 405}))
register == Call("POST", <<"auth", "register">>, "json", FALSE,
    201 :> "UserOut" @@ Errors({400, 405, 409}) @@ Invalid)
healthz == Call("GET", <<"healthz">>, "none", FALSE, 200 :> "Healthz")
readyz == Call("GET", <<"readyz">>, "none", FALSE,
    200 :> "Readyz" @@ 503 :> "None")
decide == Call("POST", <<"moderation", Id, "decision">>, "json", FALSE,
    200 :> "Either" @@ Errors({400, 401, 403, 404, 405, 409}) @@ Invalid)
moderation_queue == Call("GET", <<"moderation", "queue">>, "none", TRUE,
    200 :> "ModerationQueue" @@ Errors({401, 403, 405}) @@ Invalid)
delete_photo == Call("DELETE", <<"photos", Id>>, "none", FALSE,
    204 :> "None" @@ Errors({401, 404, 405}) @@ Invalid)
flag_photo == Call("POST", <<"photos", Id, "flag">>, "json", FALSE,
    201 :> "FlagOut" @@ Errors({400, 401, 404, 405, 409}) @@ Invalid)
get_photo_file == Call("GET", <<"photos", Id, "file">>, "none", FALSE,
    Errors({401, 404, 405}) @@ Invalid)
get_photo == Call("GET", <<"photos", Id>>, "none", FALSE,
    200 :> "PhotoOut" @@ Errors({401, 404, 405}) @@ Invalid)
get_thumbnail_file ==
    Call("GET", <<"photos", Id, "thumbnail", "file">>, "none", FALSE,
         Errors({401, 404, 405, 409}) @@ Invalid)
get_thumbnail_status == Call("GET", <<"photos", Id, "thumbnail">>, "none", FALSE,
    200 :> "ThumbnailOut" @@ Errors({401, 404, 405}) @@ Invalid)
list_photos == Call("GET", <<"photos">>, "none", TRUE,
    200 :> "PhotoList" @@ Errors({401, 405}) @@ Invalid)
update_photo == Call("PATCH", <<"photos", Id>>, "json", FALSE,
    200 :> "PhotoOut" @@ Errors({400, 401, 404, 405}) @@ Invalid)
upload_photo == Call("POST", <<"photos">>, "multipart", FALSE,
    201 :> "PhotoOut" @@ Errors({400, 401, 405, 413}) @@ Invalid)

Endpoint ==
    [login |-> login, me |-> me, register |-> register, healthz |-> healthz,
     readyz |-> readyz, decide |-> decide,
     moderation_queue |-> moderation_queue, delete_photo |-> delete_photo,
     flag_photo |-> flag_photo, get_photo_file |-> get_photo_file,
     get_photo |-> get_photo, get_thumbnail_file |-> get_thumbnail_file,
     get_thumbnail_status |-> get_thumbnail_status,
     list_photos |-> list_photos, update_photo |-> update_photo,
     upload_photo |-> upload_photo]

-----------------------------------------------------------------------------
(* The class of the object each endpoint takes as its body.                *)
BodyClass == ("login" :> "UserLogin") @@ ("register" :> "UserCreate")
    @@ ("decide" :> "DecisionCreate") @@ ("flag_photo" :> "FlagCreate")
    @@ ("update_photo" :> "PhotoUpdate") @@ ("upload_photo" :> "BodyUpload")

(* _get_kwargs: an unset paging parameter is left out of the query.        *)
GetKwargs(op, body, params) ==
    LET ep == Endpoint[op]
        content == CASE ep.body = "json" -> ToDict(body)
                     [] ep.body = "multipart" -> ToMultipart(body)
                     [] OTHER -> Obj(NoFields)
        query == IF ep.paged
                 THEN Less(params, {p \in DOMAIN params : params[p] = Unset})
                 ELSE NoFields
    IN  [method |-> ep.method, path |-> ep.url, format |-> ep.body,
         content |-> content, query |-> query]

(* _parse_response, for a status code that is listed.                      *)
Parsed(op, answer) ==
    LET cls == Endpoint[op].answers[answer.code]
        first == FromDict("FlagOut", answer.doc)
    IN  CASE cls = "None" -> Null
          [] cls = "Either" -> IF first # Raised THEN first
                               ELSE FromDict("ModerationActionOut", answer.doc)
          [] OTHER -> FromDict(cls, answer.doc)

Outcome(parsed) ==
    [raised |-> IF parsed = Raised THEN "ParseError" ELSE "nothing",
     parsed |-> parsed]

(* _parse_response and _build_response: `raised` is the exception that the *)
(* caller sees.                                                            *)
ParseResponse(op, raise_on_unexpected_status, answer) ==
    IF answer.code \in DOMAIN Endpoint[op].answers
    THEN Outcome(Parsed(op, answer))
    ELSE [raised |-> IF raise_on_unexpected_status
                     THEN "UnexpectedStatus" ELSE "nothing",
          parsed |-> Null]
=============================================================================
