-------------------------------- MODULE Api ---------------------------------
(***************************************************************************)
(* The HTTP surface of app: the routes create_app registers, in order, the *)
(* responses each documents, and what a request is answered.  What a       *)
(* handler does to the state is the business of the other modules; here it *)
(* is the set of answers it can give.                                      *)
(*                                                                         *)
(* A request is [method, path, caller, format, content, query]: caller is  *)
(* "nobody" (no valid bearer token of an active user), "user" or "admin";  *)
(* format is the kind of body, "broken" when it does not parse as what its *)
(* content type says and "undecodable" when it is not even text; content   *)
(* is the JSON object or the form; query the parameters that are present.  *)
(***************************************************************************)
EXTENDS Schemas

Methods == {"GET", "POST", "PATCH", "DELETE", "PUT", "HEAD", "OPTIONS"}

(* responses.py: the fragments, as the classes of the codes they document. *)
Fragment(code) == code :> "ErrorResponse"
UNAUTHORIZED == Fragment(401)
FORBIDDEN == Fragment(403)
NOT_FOUND == Fragment(404)
CONFLICT == Fragment(409)
BAD_REQUEST == Fragment(400)
TOO_LARGE == Fragment(413)
METHOD_NOT_ALLOWED == Fragment(405)
COMMON == METHOD_NOT_ALLOWED
(* Mutant of AUTH: the authenticated routes forget their 401.              *)
AuthForgotten == [c \in {} |-> "none"]
AUTH == UNAUTHORIZED
AUTH_RESOURCE == UNAUTHORIZED @@ NOT_FOUND
JSON_BODY == BAD_REQUEST
Nothing == [c \in {} |-> "none"]

(* One decorated function: what its decorator and its signature declare.   *)
(* `success` is its own status code with its response model, `more` its    *)
(* responses=, `raises` the answers its HTTPExceptions give.               *)
Operation(method, path, caller, format, body, paged, success, more, raises) ==
    [method |-> method, path |-> path, caller |-> caller, format |-> format,
     body |-> body, paged |-> paged, success |-> success, more |-> more,
     raises |-> raises]
Reads(path, caller, success, more, raises) ==
    Operation("GET", path, caller, "none", "none", FALSE, success, more, raises)
Pages(path, caller, success, more) ==
    Operation("GET", path, caller, "none", "none", TRUE, success, more, {})
Posts(path, caller, body, success, more, raises) ==
    Operation("POST", path, caller, "json", body, FALSE, success, more, raises)

Param == "param"
PHOTO == <<"photos", Param>>
healthz == Reads(<<"healthz">>, "nobody", 200 :> "Healthz", Nothing, {})
readyz == Reads(<<"readyz">>, "nobody", 200 :> "Readyz", 503 :> "Readyz", {503})
register == Posts(<<"auth", "register">>, "nobody", "UserCreate",
    201 :> "UserOut", CONFLICT @@ JSON_BODY, {409})
login == Posts(<<"auth", "login">>, "nobody", "UserLogin",
    200 :> "Token", UNAUTHORIZED @@ FORBIDDEN @@ JSON_BODY, {401, 403})
me == Reads(<<"auth", "me">>, "user", 200 :> "UserOut", AUTH, {})
upload_photo == Operation("POST", <<"photos">>, "user", "multipart", "Upload",
    FALSE, 201 :> "PhotoOut", AUTH @@ BAD_REQUEST @@ TOO_LARGE, {400, 413})
list_photos == Pages(<<"photos">>, "user", 200 :> "PhotoList", AUTH)
get_photo == Reads(PHOTO, "user", 200 :> "PhotoOut", AUTH_RESOURCE, {404})
update_photo == Operation("PATCH", PHOTO, "user", "json", "PhotoUpdate", FALSE,
    200 :> "PhotoOut", AUTH_RESOURCE @@ JSON_BODY, {404})
delete_photo == Operation("DELETE", PHOTO, "user", "none", "none", FALSE,
    204 :> "Empty", AUTH_RESOURCE, {404})
get_thumbnail_status == Reads(PHOTO \o <<"thumbnail">>, "user",
    200 :> "ThumbnailOut", AUTH_RESOURCE, {404})
get_photo_file == Reads(PHOTO \o <<"file">>, "user",
    200 :> "Image", AUTH_RESOURCE, {404})
get_thumbnail_file == Reads(PHOTO \o <<"thumbnail", "file">>, "user",
    200 :> "Image", AUTH_RESOURCE @@ CONFLICT, {404, 409})
flag_photo == Posts(PHOTO \o <<"flag">>, "user", "FlagCreate",
    201 :> "FlagOut", AUTH_RESOURCE @@ CONFLICT @@ JSON_BODY, {404, 409})
moderation_queue == Pages(<<"moderation", "queue">>, "admin",
    200 :> "ModerationQueue", AUTH @@ FORBIDDEN)
decide == Posts(<<"moderation", Param, "decision">>, "admin", "DecisionCreate",
    200 :> "FlagOutOrAction",
    AUTH @@ FORBIDDEN @@ NOT_FOUND @@ CONFLICT @@ JSON_BODY, {404, 409})

Op == [healthz |-> healthz, readyz |-> readyz, register |-> register,
       login |-> login, me |-> me, upload_photo |-> upload_photo,
       list_photos |-> list_photos, get_photo |-> get_photo,
       update_photo |-> update_photo, delete_photo |-> delete_photo,
       get_thumbnail_status |-> get_thumbnail_status,
       get_photo_file |-> get_photo_file,
       get_thumbnail_file |-> get_thumbnail_file, flag_photo |-> flag_photo,
       moderation_queue |-> moderation_queue, decide |-> decide]

(* app.routes.  The interactive docs come first and take GET and HEAD; the *)
(* metrics and "/" come last.  None of the three is in the schema.         *)
Route(name) == [name |-> name, path |-> Op[name].path,
                methods |-> {Op[name].method}]
Hidden(name, path, methods) == [name |-> name, path |-> path, methods |-> methods]
create_app ==
    <<Hidden("docs", <<"docs">>, {"GET", "HEAD"}),
      Route("healthz"), Route("readyz"),
      Route("register"), Route("login"), Route("me"),
      Route("upload_photo"), Route("list_photos"), Route("get_photo"),
      Route("update_photo"), Route("delete_photo"),
      Route("get_thumbnail_status"), Route("get_photo_file"),
      Route("get_thumbnail_file"), Route("flag_photo"),
      Route("moderation_queue"), Route("decide"),
      Hidden("metrics", <<"metrics">>, {"GET"}), Hidden("root", <<>>, {"GET"})>>

-----------------------------------------------------------------------------
(* Starlette's router: the first route that matches path and method takes  *)
(* the request; failing that the first that matches the path answers 405.  *)
SamePath(template, path) ==
    /\ Len(template) = Len(path)
    /\ \A i \in DOMAIN path : template[i] \in {path[i], Param}
OnPath(path) == {i \in DOMAIN create_app : SamePath(create_app[i].path, path)}
Takes(method, path) ==
    {i \in OnPath(path) : method \in create_app[i].methods}
First(is) == CHOOSE i \in is : \A j \in is : i <= j

(* Mutant of AllowHeader: Starlette's own header, of the route that matched *)
AllowOfOneRoute(path) ==
    {"OPTIONS"} \union create_app[First(OnPath(path))].methods

(* AllowHeaderMiddleware, on the way out of a 405.                         *)
AllowHeader(path) ==
    {"OPTIONS"} \union UNION {create_app[i].methods : i \in OnPath(path)}

(* The codes the schema documents for an operation: FastAPI adds 422 to    *)
(* one with parameters or a body, create_app 405 to all but the health     *)
(* routes, and a file response documents its 200.                          *)
Documented(name) ==
    LET op == Op[name]
        validates == op.paged \/ op.format # "none"
                     \/ \E i \in DOMAIN op.path : op.path[i] = Param
    IN  DOMAIN op.success \union DOMAIN op.more
        \union (IF validates THEN {422} ELSE {})
        \union (IF name \in {"healthz", "readyz"} THEN {} ELSE DOMAIN COMMON)

-----------------------------------------------------------------------------
(* An answer: the operation that ran, the payload it ended with or none if *)
(* it crashed, and the code and class of what it said.                     *)
Answer(name, code, cls, got) ==
    [op |-> name, code |-> code, cls |-> cls, got |-> got, allow |-> {}]
NotAllowed(path) ==
    [Answer("none", 405, "ErrorResponse", NoFields)
        EXCEPT !.allow = AllowHeader(path)]

(* Query(ge=1, le=100) and Query(ge=0, le=1_000_000), with their defaults. *)
Limits == {"1", "20", "100"}
Offsets == {"0", "20", "1000000"}
Paging(query) ==
    LET limit == IF "limit" \in DOMAIN query THEN query.limit ELSE Num("20")
        offset == IF "offset" \in DOMAIN query THEN query.offset ELSE Num("0")
    IN  IF limit.word \in Limits /\ offset.word \in Offsets
        THEN Obj([limit |-> limit, offset |-> offset]) ELSE Raised

(* What a request's parameters and body validate to.                       *)
Payload(op, r) ==
    IF \E i \in DOMAIN op.path : op.path[i] = Param /\ r.path[i] # "7"
    THEN Raised
    ELSE IF op.paged THEN Paging(r.query)
    ELSE IF op.format = "none" THEN Obj(NoFields)
    ELSE IF r.format # op.format THEN Raised
    ELSE Validate(op.body, r.content.at)

(* An exception nothing catches: the database, the broker or the disk      *)
(* fails, a file is gone by the time it is sent, a text does not fit its   *)
(* column or holds a NUL, Pillow raises what the handler does not expect.  *)
(* Only the health routes catch them all.                                  *)
Crash(name) ==
    IF name \in {"healthz", "readyz"} THEN {}
    ELSE {Answer(name, 500, "Crash", NoFields)}

(* What the handler itself can answer.  An upload does not check that its  *)
(* caption fits the column, so the insert of a longer one always fails.    *)
Handler(name, got) ==
    LET op == Op[name]
        long == name = "upload_photo" /\ got.caption = Str("long")
        succeeds == IF long THEN {} ELSE
            {Answer(name, c, cls, got) : c \in DOMAIN op.success,
                cls \in IF name = "decide" THEN {"FlagOut", "ModerationActionOut"}
                        ELSE {op.success[c] : c \in DOMAIN op.success}}
    IN  succeeds
        \union {Answer(name, c, op.more[c], got) : c \in op.raises}
        \union Crash(name)

(* FastAPI's order: the body is parsed, then the caller is authenticated   *)
(* and authorised, which reads the database, then parameters and body are  *)
(* validated.                                                              *)
Handle(r, name, op, payload) ==
    LET says(code) == {Answer(name, code, "ErrorResponse", NoFields)}
        invalid == {Answer(name, 422, "HTTPValidationError", NoFields)}
    IN  IF op.format = "json" /\ r.format = "undecodable" THEN says(400)
        ELSE IF op.format = "json" /\ r.format = "broken" THEN invalid
        ELSE IF op.format = "multipart" /\ r.format = "broken" THEN says(400)
        ELSE (IF op.caller = "nobody" THEN {} ELSE Crash(name)) \union
             (IF op.caller # "nobody" /\ r.caller = "nobody" THEN says(401)
              ELSE IF op.caller = "admin" /\ r.caller # "admin" THEN says(403)
              ELSE IF payload = Raised THEN invalid
              ELSE Handler(name, payload.at))

(* The route that takes the request: a hidden one, or an operation.        *)
Dispatch(r, name) ==
    IF name \notin DOMAIN Op THEN {Answer(name, 200, "Hidden", NoFields)}
    ELSE Handle(r, name, Op[name], Payload(Op[name], r))

Serve(r) ==
    LET takers == Takes(r.method, r.path)
    IN  IF OnPath(r.path) = {} THEN {Answer("none", 404, "ErrorResponse", NoFields)}
        ELSE IF takers = {} THEN {NotAllowed(r.path)}
        ELSE Dispatch(r, create_app[First(takers)].name)
=============================================================================
