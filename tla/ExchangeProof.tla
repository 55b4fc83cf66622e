---------------------------- MODULE ExchangeProof ----------------------------
(***************************************************************************)
(* Whatever a client sends, the API's answer is a documented one or its    *)
(* cause is known; what a call of the SDK passes arrives at the operation  *)
(* it is named for; and what the API writes is what the SDK reads.         *)
(***************************************************************************)
EXTENDS Exchange, SequenceTheorems, TLAPS

-----------------------------------------------------------------------------
(* The operations of the API: what each takes and what it answers.         *)

LEMMA Path3 ==
  ASSUME NEW a, NEW b, NEW c
  PROVE  <<a, b>> \o <<c>> = <<a, b, c>>
<1> DEFINE S == {a, b, c}
<1>1. <<a, b>> \in Seq(S) /\ <<c>> \in Seq(S) /\ <<a, b, c>> \in Seq(S)
  OBVIOUS
<1>2. <<a, b>> \o <<c>> \in Seq(S) /\ Len(<<a, b>> \o <<c>>) = 3
  BY <1>1
<1>3. \A i \in 1 .. 3 : (<<a, b>> \o <<c>>)[i] = <<a, b, c>>[i]
  <2>1. \A i \in 1 .. 3 : i = 1 \/ i = 2 \/ i = 3
    OBVIOUS
  <2>2. (<<a, b>> \o <<c>>)[1] = a /\ (<<a, b>> \o <<c>>)[2] = b /\ (<<a,
        b>> \o <<c>>)[3] = c
    BY <1>1
  <2> QED
    BY <2>1, <2>2
<1> QED
  BY <1>1, <1>2, <1>3, SeqEqual

(* Two more segments on a path of two.                                     *)
LEMMA Path4 ==
  ASSUME NEW a, NEW b, NEW c, NEW d
  PROVE  <<a, b>> \o <<c, d>> = <<a, b, c, d>>
<1> DEFINE S == {a, b, c, d}
<1>1. <<a, b>> \in Seq(S) /\ <<c, d>> \in Seq(S) /\ <<a, b, c, d>> \in Seq(S)
  OBVIOUS
<1>2. <<a, b>> \o <<c, d>> \in Seq(S) /\ Len(<<a, b>> \o <<c, d>>) = 4
  BY <1>1
<1>3. \A i \in 1 .. 4 : (<<a, b>> \o <<c, d>>)[i] = <<a, b, c, d>>[i]
  <2>1. \A i \in 1 .. 4 : i = 1 \/ i = 2 \/ i = 3 \/ i = 4
    OBVIOUS
  <2>2. /\ (<<a, b>> \o <<c, d>>)[1] = a /\ (<<a, b>> \o <<c, d>>)[2] = b
        /\ (<<a, b>> \o <<c, d>>)[3] = c /\ (<<a, b>> \o <<c, d>>)[4] = d
    BY <1>1
  <2> QED
    BY <2>1, <2>2
<1> QED
  BY <1>1, <1>2, <1>3, SeqEqual

(* The operations of the API, by what their decorators and signatures say. *)
Operations == {"healthz", "readyz", "register", "login", "me", "upload_photo",
    "list_photos", "get_photo", "update_photo", "delete_photo", "get_thumbnail_status",
    "get_photo_file", "get_thumbnail_file", "flag_photo", "moderation_queue", "decide"}
LEMMA Named == DOMAIN Server!Op = Operations
  BY DEF Server!Op, Operations

(* What the decorator and the signature of an operation say.               *)
Declares(name, method, path, caller, format, body, paged) ==
  LET op == Server!Op[name] IN
  /\ op.method = method /\ op.path = path /\ op.caller = caller
  /\ op.format = format /\ op.body = body /\ op.paged = paged

(* The answers of an operation: successes, documented errors, raised ones. *)
Says(name, success, errors, raises) ==
  LET op == Server!Op[name] IN
  /\ op.success = success /\ op.raises = raises
  /\ DOMAIN op.more = errors
  /\ \A c \in errors : op.more[c] = IF name = "readyz" THEN "Readyz" ELSE "ErrorResponse"

(* What each of them takes. *)
LEMMA Taken ==
  /\ Declares("healthz", "GET", <<"healthz">>, "nobody", "none", "none", FALSE)
  /\ Declares("readyz", "GET", <<"readyz">>, "nobody", "none", "none", FALSE)
  /\ Declares("register", "POST", <<"auth", "register">>, "nobody", "json", "UserCreate",
      FALSE)
  /\ Declares("login", "POST", <<"auth", "login">>, "nobody", "json", "UserLogin", FALSE)
  /\ Declares("me", "GET", <<"auth", "me">>, "user", "none", "none", FALSE)
  /\ Declares("upload_photo", "POST", <<"photos">>, "user", "multipart", "Upload", FALSE)
  /\ Declares("list_photos", "GET", <<"photos">>, "user", "none", "none", TRUE)
  /\ Declares("get_photo", "GET", <<"photos", "param">>, "user", "none", "none", FALSE)
  /\ Declares("update_photo", "PATCH", <<"photos", "param">>, "user", "json",
      "PhotoUpdate", FALSE)
  /\ Declares("delete_photo", "DELETE", <<"photos", "param">>, "user", "none", "none",
      FALSE)
  /\ Declares("get_thumbnail_status", "GET", <<"photos", "param", "thumbnail">>, "user",
      "none", "none", FALSE)
  /\ Declares("get_photo_file", "GET", <<"photos", "param", "file">>, "user", "none",
      "none", FALSE)
  /\ Declares("get_thumbnail_file", "GET", <<"photos", "param", "thumbnail", "file">>,
      "user", "none", "none", FALSE)
  /\ Declares("flag_photo", "POST", <<"photos", "param", "flag">>, "user", "json",
      "FlagCreate", FALSE)
  /\ Declares("moderation_queue", "GET", <<"moderation", "queue">>, "admin", "none",
      "none", TRUE)
  /\ Declares("decide", "POST", <<"moderation", "param", "decision">>, "admin", "json",
      "DecisionCreate", FALSE)
<1>1. Declares("healthz", "GET", <<"healthz">>, "nobody", "none", "none", FALSE)
  BY DEF Declares, Server!Op, Server!healthz, Server!Operation, Server!Reads
<1>2. Declares("readyz", "GET", <<"readyz">>, "nobody", "none", "none", FALSE)
  BY DEF Declares, Server!Op, Server!readyz, Server!Operation, Server!Reads
<1>3. Declares("register", "POST", <<"auth", "register">>, "nobody", "json", "UserCreate",
      FALSE)
  BY DEF Declares, Server!Op, Server!register, Server!Operation, Server!Posts
<1>4. Declares("login", "POST", <<"auth", "login">>, "nobody", "json", "UserLogin", FALSE)
  BY DEF Declares, Server!Op, Server!login, Server!Operation, Server!Posts
<1>5. Declares("me", "GET", <<"auth", "me">>, "user", "none", "none", FALSE)
  BY DEF Declares, Server!Op, Server!me, Server!Operation, Server!Reads
<1>6. Declares("upload_photo", "POST", <<"photos">>, "user", "multipart", "Upload", FALSE)
  BY DEF Declares, Server!Op, Server!upload_photo, Server!Operation
<1>7. Declares("list_photos", "GET", <<"photos">>, "user", "none", "none", TRUE)
  BY DEF Declares, Server!Op, Server!list_photos, Server!Operation, Server!Pages
<1>8. Declares("get_photo", "GET", <<"photos", "param">>, "user", "none", "none", FALSE)
  BY DEF Declares, Server!Op, Server!get_photo, Server!Operation, Server!Reads,
      Server!PHOTO, Server!Param
<1>9. Declares("update_photo", "PATCH", <<"photos", "param">>, "user", "json",
      "PhotoUpdate", FALSE)
  BY DEF Declares, Server!Op, Server!update_photo, Server!Operation, Server!PHOTO,
      Server!Param
<1>10. Declares("delete_photo", "DELETE", <<"photos", "param">>, "user", "none", "none",
       FALSE)
  BY DEF Declares, Server!Op, Server!delete_photo, Server!Operation, Server!PHOTO,
      Server!Param
<1>11. Declares("get_thumbnail_status", "GET", <<"photos", "param", "thumbnail">>, "user",
       "none", "none", FALSE)
  BY Path3 DEF Declares, Server!Op, Server!get_thumbnail_status, Server!Operation,
      Server!Reads, Server!PHOTO, Server!Param
<1>12. Declares("get_photo_file", "GET", <<"photos", "param", "file">>, "user", "none",
       "none", FALSE)
  BY Path3 DEF Declares, Server!Op, Server!get_photo_file, Server!Operation,
      Server!Reads, Server!PHOTO, Server!Param
<1>13. Declares("get_thumbnail_file", "GET", <<"photos", "param", "thumbnail", "file">>,
       "user", "none", "none", FALSE)
  BY Path4 DEF Declares, Server!Op, Server!get_thumbnail_file, Server!Operation,
      Server!Reads, Server!PHOTO, Server!Param
<1>14. Declares("flag_photo", "POST", <<"photos", "param", "flag">>, "user", "json",
       "FlagCreate", FALSE)
  BY Path3 DEF Declares, Server!Op, Server!flag_photo, Server!Operation, Server!Posts,
      Server!PHOTO, Server!Param
<1>15. Declares("moderation_queue", "GET", <<"moderation", "queue">>, "admin", "none",
       "none", TRUE)
  BY DEF Declares, Server!Op, Server!moderation_queue, Server!Operation, Server!Pages
<1>16. Declares("decide", "POST", <<"moderation", "param", "decision">>, "admin", "json",
       "DecisionCreate", FALSE)
  BY DEF Declares, Server!Op, Server!decide, Server!Operation, Server!Posts,
      Server!Param
<1> QED
  BY <1>1, <1>2, <1>3, <1>4, <1>5, <1>6, <1>7, <1>8, <1>9, <1>10, <1>11, <1>12, <1>13,
      <1>14, <1>15, <1>16

(* The documented errors, fragment by fragment. *)
ErrorsFor(codes) == [c \in codes |-> "ErrorResponse"]
LEMMA Fragments ==
  /\ Server!UNAUTHORIZED = ErrorsFor({401})
  /\ Server!FORBIDDEN = ErrorsFor({403})
  /\ Server!NOT_FOUND = ErrorsFor({404})
  /\ Server!CONFLICT = ErrorsFor({409})
  /\ Server!BAD_REQUEST = ErrorsFor({400})
  /\ Server!TOO_LARGE = ErrorsFor({413})
  /\ Server!AUTH = ErrorsFor({401})
  /\ Server!JSON_BODY = ErrorsFor({400})
  /\ Server!AUTH_RESOURCE = ErrorsFor({401, 404})
  BY DEF ErrorsFor, Server!Fragment, Server!:>, Server!@@, Server!AUTH_RESOURCE,
      Server!UNAUTHORIZED, Server!FORBIDDEN, Server!NOT_FOUND, Server!CONFLICT,
      Server!BAD_REQUEST, Server!TOO_LARGE, Server!AUTH, Server!JSON_BODY

(* The operations, by name.                                                *)
LEMMA Called ==
  /\ Server!Op["healthz"] = Server!healthz
  /\ Server!Op["readyz"] = Server!readyz
  /\ Server!Op["register"] = Server!register
  /\ Server!Op["login"] = Server!login
  /\ Server!Op["me"] = Server!me
  /\ Server!Op["upload_photo"] = Server!upload_photo
  /\ Server!Op["list_photos"] = Server!list_photos
  /\ Server!Op["get_photo"] = Server!get_photo
  /\ Server!Op["update_photo"] = Server!update_photo
  /\ Server!Op["delete_photo"] = Server!delete_photo
  /\ Server!Op["get_thumbnail_status"] = Server!get_thumbnail_status
  /\ Server!Op["get_photo_file"] = Server!get_photo_file
  /\ Server!Op["get_thumbnail_file"] = Server!get_thumbnail_file
  /\ Server!Op["flag_photo"] = Server!flag_photo
  /\ Server!Op["moderation_queue"] = Server!moderation_queue
  /\ Server!Op["decide"] = Server!decide
  BY DEF Server!Op

(* What each of them answers. *)
LEMMA Said ==
  /\ Says("healthz", [c \in {200} |-> "Healthz"], {}, {})
  /\ Says("readyz", [c \in {200} |-> "Readyz"], {503}, {503})
  /\ Says("register", [c \in {201} |-> "UserOut"], {400, 409}, {409})
  /\ Says("login", [c \in {200} |-> "Token"], {400, 401, 403}, {401, 403})
  /\ Says("me", [c \in {200} |-> "UserOut"], {401}, {})
  /\ Says("upload_photo", [c \in {201} |-> "PhotoOut"], {400, 401, 413}, {400, 413})
  /\ Says("list_photos", [c \in {200} |-> "PhotoList"], {401}, {})
  /\ Says("get_photo", [c \in {200} |-> "PhotoOut"], {401, 404}, {404})
  /\ Says("update_photo", [c \in {200} |-> "PhotoOut"], {400, 401, 404}, {404})
  /\ Says("delete_photo", [c \in {204} |-> "Empty"], {401, 404}, {404})
  /\ Says("get_thumbnail_status", [c \in {200} |-> "ThumbnailOut"], {401, 404}, {404})
  /\ Says("get_photo_file", [c \in {200} |-> "Image"], {401, 404}, {404})
  /\ Says("get_thumbnail_file", [c \in {200} |-> "Image"], {401, 404, 409}, {404, 409})
  /\ Says("flag_photo", [c \in {201} |-> "FlagOut"], {400, 401, 404, 409}, {404, 409})
  /\ Says("moderation_queue", [c \in {200} |-> "ModerationQueue"], {401, 403}, {})
  /\ Says("decide", [c \in {200} |-> "FlagOutOrAction"], {400, 401, 403, 404, 409},
      {404, 409})
<1>1. Says("healthz", [c \in {200} |-> "Healthz"], {}, {})
  <2>1. Server!healthz.success = [c \in {200} |-> "Healthz"]
        /\ Server!healthz.raises = {}
    BY DEF Server!healthz, Server!Operation, Server!Reads, Server!:>
  <2>2. DOMAIN Server!healthz.more = {}
        /\ \A c \in {} : Server!healthz.more[c] = "ErrorResponse"
    BY DEF Server!healthz, Server!Operation, Server!Reads, Server!Nothing
  <2> QED
    BY <2>1, <2>2, Called DEF Says
<1>2. Says("readyz", [c \in {200} |-> "Readyz"], {503}, {503})
  <2>1. Server!readyz.success = [c \in {200} |-> "Readyz"]
        /\ Server!readyz.raises = {503}
    BY DEF Server!readyz, Server!Operation, Server!Reads, Server!:>
  <2>2. DOMAIN Server!readyz.more = {503}
        /\ \A c \in {503} : Server!readyz.more[c] = "Readyz"
    BY DEF Server!readyz, Server!Operation, Server!Reads, Server!:>
  <2> QED
    BY <2>1, <2>2, Called DEF Says
<1>3. Says("register", [c \in {201} |-> "UserOut"], {400, 409}, {409})
  <2>1. Server!register.success = [c \in {201} |-> "UserOut"]
        /\ Server!register.raises = {409}
    BY DEF Server!register, Server!Operation, Server!Posts, Server!:>
  <2>2. DOMAIN Server!register.more = {400, 409} /\ \A c \in {400,
        409} : Server!register.more[c] = "ErrorResponse"
    BY Fragments DEF Server!register, Server!Operation, Server!Posts, Server!@@,
        ErrorsFor
  <2> QED
    BY <2>1, <2>2, Called DEF Says
<1>4. Says("login", [c \in {200} |-> "Token"], {400, 401, 403}, {401, 403})
  <2>1. Server!login.success = [c \in {200} |-> "Token"] /\ Server!login.raises = {401, 403}
    BY DEF Server!login, Server!Operation, Server!Posts, Server!:>
  <2>2. DOMAIN Server!login.more = {400, 401, 403} /\ \A c \in {400, 401,
        403} : Server!login.more[c] = "ErrorResponse"
    BY Fragments DEF Server!login, Server!Operation, Server!Posts, Server!@@, ErrorsFor
  <2> QED
    BY <2>1, <2>2, Called DEF Says
<1>5. Says("me", [c \in {200} |-> "UserOut"], {401}, {})
  <2>1. Server!me.success = [c \in {200} |-> "UserOut"] /\ Server!me.raises = {}
    BY DEF Server!me, Server!Operation, Server!Reads, Server!:>
  <2>2. DOMAIN Server!me.more = {401}
        /\ \A c \in {401} : Server!me.more[c] = "ErrorResponse"
    BY Fragments DEF Server!me, Server!Operation, Server!Reads, Server!@@, ErrorsFor
  <2> QED
    BY <2>1, <2>2, Called DEF Says
<1>6. Says("upload_photo", [c \in {201} |-> "PhotoOut"], {400, 401, 413}, {400, 413})
  <2>1. Server!upload_photo.success = [c \in {201} |-> "PhotoOut"]
        /\ Server!upload_photo.raises = {400, 413}
    BY DEF Server!upload_photo, Server!Operation, Server!:>
  <2>2. DOMAIN Server!upload_photo.more = {400, 401, 413}
        /\ \A c \in {400, 401, 413} : Server!upload_photo.more[c] = "ErrorResponse"
    BY Fragments DEF Server!upload_photo, Server!Operation, Server!@@, ErrorsFor
  <2> QED
    BY <2>1, <2>2, Called DEF Says
<1>7. Says("list_photos", [c \in {200} |-> "PhotoList"], {401}, {})
  <2>1. Server!list_photos.success = [c \in {200} |-> "PhotoList"]
        /\ Server!list_photos.raises = {}
    BY DEF Server!list_photos, Server!Operation, Server!Pages, Server!:>
  <2>2. DOMAIN Server!list_photos.more = {401}
        /\ \A c \in {401} : Server!list_photos.more[c] = "ErrorResponse"
    BY Fragments DEF Server!list_photos, Server!Operation, Server!Pages, Server!@@,
        ErrorsFor
  <2> QED
    BY <2>1, <2>2, Called DEF Says
<1>8. Says("get_photo", [c \in {200} |-> "PhotoOut"], {401, 404}, {404})
  <2>1. Server!get_photo.success = [c \in {200} |-> "PhotoOut"]
        /\ Server!get_photo.raises = {404}
    BY DEF Server!get_photo, Server!Operation, Server!Reads, Server!:>
  <2>2. DOMAIN Server!get_photo.more = {401, 404} /\ \A c \in {401,
        404} : Server!get_photo.more[c] = "ErrorResponse"
    BY Fragments DEF Server!get_photo, Server!Operation, Server!Reads, Server!@@,
        ErrorsFor
  <2> QED
    BY <2>1, <2>2, Called DEF Says
<1>9. Says("update_photo", [c \in {200} |-> "PhotoOut"], {400, 401, 404}, {404})
  <2>1. Server!update_photo.success = [c \in {200} |-> "PhotoOut"]
        /\ Server!update_photo.raises = {404}
    BY DEF Server!update_photo, Server!Operation, Server!:>
  <2>2. DOMAIN Server!update_photo.more = {400, 401, 404}
        /\ \A c \in {400, 401, 404} : Server!update_photo.more[c] = "ErrorResponse"
    BY Fragments DEF Server!update_photo, Server!Operation, Server!@@, ErrorsFor
  <2> QED
    BY <2>1, <2>2, Called DEF Says
<1>10. Says("delete_photo", [c \in {204} |-> "Empty"], {401, 404}, {404})
  <2>1. Server!delete_photo.success = [c \in {204} |-> "Empty"]
        /\ Server!delete_photo.raises = {404}
    BY DEF Server!delete_photo, Server!Operation, Server!:>
  <2>2. DOMAIN Server!delete_photo.more = {401, 404} /\ \A c \in {401,
        404} : Server!delete_photo.more[c] = "ErrorResponse"
    BY Fragments DEF Server!delete_photo, Server!Operation, Server!@@, ErrorsFor
  <2> QED
    BY <2>1, <2>2, Called DEF Says
<1>11. Says("get_thumbnail_status", [c \in {200} |-> "ThumbnailOut"], {401, 404}, {404})
  <2>1. Server!get_thumbnail_status.success = [c \in {200} |-> "ThumbnailOut"]
        /\ Server!get_thumbnail_status.raises = {404}
    BY DEF Server!get_thumbnail_status, Server!Operation, Server!Reads, Server!:>
  <2>2. DOMAIN Server!get_thumbnail_status.more = {401, 404} /\ \A c \in {401,
        404} : Server!get_thumbnail_status.more[c] = "ErrorResponse"
    BY Fragments DEF Server!get_thumbnail_status, Server!Operation, Server!Reads,
        Server!@@, ErrorsFor
  <2> QED
    BY <2>1, <2>2, Called DEF Says
<1>12. Says("get_photo_file", [c \in {200} |-> "Image"], {401, 404}, {404})
  <2>1. Server!get_photo_file.success = [c \in {200} |-> "Image"]
        /\ Server!get_photo_file.raises = {404}
    BY DEF Server!get_photo_file, Server!Operation, Server!Reads, Server!:>
  <2>2. DOMAIN Server!get_photo_file.more = {401, 404} /\ \A c \in {401,
        404} : Server!get_photo_file.more[c] = "ErrorResponse"
    BY Fragments DEF Server!get_photo_file, Server!Operation, Server!Reads, Server!@@,
        ErrorsFor
  <2> QED
    BY <2>1, <2>2, Called DEF Says
<1>13. Says("get_thumbnail_file", [c \in {200} |-> "Image"], {401, 404, 409}, {404, 409})
  <2>1. Server!get_thumbnail_file.success = [c \in {200} |-> "Image"]
        /\ Server!get_thumbnail_file.raises = {404, 409}
    BY DEF Server!get_thumbnail_file, Server!Operation, Server!Reads, Server!:>
  <2>2. DOMAIN Server!get_thumbnail_file.more = {401, 404, 409}
        /\ \A c \in {401, 404, 409} : Server!get_thumbnail_file.more[c] = "ErrorResponse"
    BY Fragments DEF Server!get_thumbnail_file, Server!Operation, Server!Reads,
        Server!@@, ErrorsFor
  <2> QED
    BY <2>1, <2>2, Called DEF Says
<1>14. Says("flag_photo", [c \in {201} |-> "FlagOut"], {400, 401, 404, 409}, {404, 409})
  <2>1. Server!flag_photo.success = [c \in {201} |-> "FlagOut"]
        /\ Server!flag_photo.raises = {404, 409}
    BY DEF Server!flag_photo, Server!Operation, Server!Posts, Server!:>
  <2>2. DOMAIN Server!flag_photo.more = {400, 401, 404, 409}
        /\ \A c \in {400, 401, 404, 409} : Server!flag_photo.more[c] = "ErrorResponse"
    BY Fragments DEF Server!flag_photo, Server!Operation, Server!Posts, Server!@@,
        ErrorsFor
  <2> QED
    BY <2>1, <2>2, Called DEF Says
<1>15. Says("moderation_queue", [c \in {200} |-> "ModerationQueue"], {401, 403}, {})
  <2>1. Server!moderation_queue.success = [c \in {200} |-> "ModerationQueue"]
        /\ Server!moderation_queue.raises = {}
    BY DEF Server!moderation_queue, Server!Operation, Server!Pages, Server!:>
  <2>2. DOMAIN Server!moderation_queue.more = {401, 403} /\ \A c \in {401,
        403} : Server!moderation_queue.more[c] = "ErrorResponse"
    BY Fragments DEF Server!moderation_queue, Server!Operation, Server!Pages,
        Server!@@, ErrorsFor
  <2> QED
    BY <2>1, <2>2, Called DEF Says
<1>16. Says("decide", [c \in {200} |-> "FlagOutOrAction"], {400, 401, 403, 404, 409},
       {404, 409})
  <2>1. Server!decide.success = [c \in {200} |-> "FlagOutOrAction"]
        /\ Server!decide.raises = {404, 409}
    BY DEF Server!decide, Server!Operation, Server!Posts, Server!:>
  <2>2. DOMAIN Server!decide.more = {400, 401, 403, 404, 409}
        /\ \A c \in {400, 401, 403, 404, 409} : Server!decide.more[c] = "ErrorResponse"
    BY Fragments DEF Server!decide, Server!Operation, Server!Posts, Server!@@, ErrorsFor
  <2> QED
    BY <2>1, <2>2, Called DEF Says
<1> QED
  BY <1>1, <1>2, <1>3, <1>4, <1>5, <1>6, <1>7, <1>8, <1>9, <1>10, <1>11, <1>12, <1>13,
      <1>14, <1>15, <1>16

(* What an operation answers before its handler runs is documented, and so *)
(* is what the handler raises; nothing of its own is a 405.                *)
LEMMA DocumentsErrors ==
  ASSUME NEW name \in Operations
  PROVE  LET op == Server!Op[name] IN
         /\ op.raises \subseteq DOMAIN op.more
         /\ op.format \in {"json", "multipart"} => 400 \in DOMAIN op.more
         /\ op.caller # "nobody" => 401 \in DOMAIN op.more
         /\ op.caller = "admin" => 403 \in DOMAIN op.more
         /\ 405 \notin DOMAIN op.success /\ 405 \notin op.raises
<1>1. CASE name = "healthz"
  <2>1. Declares("healthz", "GET", <<"healthz">>, "nobody", "none", "none", FALSE)
    BY Taken
  <2>2. Says("healthz", [c \in {200} |-> "Healthz"], {}, {})
    BY Said
  <2> QED
    BY <1>1, <2>1, <2>2 DEF Declares, Says
<1>2. CASE name = "readyz"
  <2>1. Declares("readyz", "GET", <<"readyz">>, "nobody", "none", "none", FALSE)
    BY Taken
  <2>2. Says("readyz", [c \in {200} |-> "Readyz"], {503}, {503})
    BY Said
  <2> QED
    BY <1>2, <2>1, <2>2 DEF Declares, Says
<1>3. CASE name = "register"
  <2>1. Declares("register", "POST", <<"auth", "register">>, "nobody", "json",
        "UserCreate", FALSE)
    BY Taken
  <2>2. Says("register", [c \in {201} |-> "UserOut"], {400, 409}, {409})
    BY Said
  <2> QED
    BY <1>3, <2>1, <2>2 DEF Declares, Says
<1>4. CASE name = "login"
  <2>1. Declares("login", "POST", <<"auth", "login">>, "nobody", "json", "UserLogin", FALSE)
    BY Taken
  <2>2. Says("login", [c \in {200} |-> "Token"], {400, 401, 403}, {401, 403})
    BY Said
  <2> QED
    BY <1>4, <2>1, <2>2 DEF Declares, Says
<1>5. CASE name = "me"
  <2>1. Declares("me", "GET", <<"auth", "me">>, "user", "none", "none", FALSE)
    BY Taken
  <2>2. Says("me", [c \in {200} |-> "UserOut"], {401}, {})
    BY Said
  <2> QED
    BY <1>5, <2>1, <2>2 DEF Declares, Says
<1>6. CASE name = "upload_photo"
  <2>1. Declares("upload_photo", "POST", <<"photos">>, "user", "multipart", "Upload", FALSE)
    BY Taken
  <2>2. Says("upload_photo", [c \in {201} |-> "PhotoOut"], {400, 401, 413}, {400, 413})
    BY Said
  <2> QED
    BY <1>6, <2>1, <2>2 DEF Declares, Says
<1>7. CASE name = "list_photos"
  <2>1. Declares("list_photos", "GET", <<"photos">>, "user", "none", "none", TRUE)
    BY Taken
  <2>2. Says("list_photos", [c \in {200} |-> "PhotoList"], {401}, {})
    BY Said
  <2> QED
    BY <1>7, <2>1, <2>2 DEF Declares, Says
<1>8. CASE name = "get_photo"
  <2>1. Declares("get_photo", "GET", <<"photos", "param">>, "user", "none", "none", FALSE)
    BY Taken
  <2>2. Says("get_photo", [c \in {200} |-> "PhotoOut"], {401, 404}, {404})
    BY Said
  <2> QED
    BY <1>8, <2>1, <2>2 DEF Declares, Says
<1>9. CASE name = "update_photo"
  <2>1. Declares("update_photo", "PATCH", <<"photos", "param">>, "user", "json",
        "PhotoUpdate", FALSE)
    BY Taken
  <2>2. Says("update_photo", [c \in {200} |-> "PhotoOut"], {400, 401, 404}, {404})
    BY Said
  <2> QED
    BY <1>9, <2>1, <2>2 DEF Declares, Says
<1>10. CASE name = "delete_photo"
  <2>1. Declares("delete_photo", "DELETE", <<"photos", "param">>, "user", "none", "none",
        FALSE)
    BY Taken
  <2>2. Says("delete_photo", [c \in {204} |-> "Empty"], {401, 404}, {404})
    BY Said
  <2> QED
    BY <1>10, <2>1, <2>2 DEF Declares, Says
<1>11. CASE name = "get_thumbnail_status"
  <2>1. Declares("get_thumbnail_status", "GET", <<"photos", "param", "thumbnail">>, "user",
        "none", "none", FALSE)
    BY Taken
  <2>2. Says("get_thumbnail_status", [c \in {200} |-> "ThumbnailOut"], {401, 404}, {404})
    BY Said
  <2> QED
    BY <1>11, <2>1, <2>2 DEF Declares, Says
<1>12. CASE name = "get_photo_file"
  <2>1. Declares("get_photo_file", "GET", <<"photos", "param", "file">>, "user", "none",
        "none", FALSE)
    BY Taken
  <2>2. Says("get_photo_file", [c \in {200} |-> "Image"], {401, 404}, {404})
    BY Said
  <2> QED
    BY <1>12, <2>1, <2>2 DEF Declares, Says
<1>13. CASE name = "get_thumbnail_file"
  <2>1. Declares("get_thumbnail_file", "GET", <<"photos", "param", "thumbnail", "file">>,
        "user", "none", "none", FALSE)
    BY Taken
  <2>2. Says("get_thumbnail_file", [c \in {200} |-> "Image"], {401, 404, 409}, {404, 409})
    BY Said
  <2> QED
    BY <1>13, <2>1, <2>2 DEF Declares, Says
<1>14. CASE name = "flag_photo"
  <2>1. Declares("flag_photo", "POST", <<"photos", "param", "flag">>, "user", "json",
        "FlagCreate", FALSE)
    BY Taken
  <2>2. Says("flag_photo", [c \in {201} |-> "FlagOut"], {400, 401, 404, 409}, {404, 409})
    BY Said
  <2> QED
    BY <1>14, <2>1, <2>2 DEF Declares, Says
<1>15. CASE name = "moderation_queue"
  <2>1. Declares("moderation_queue", "GET", <<"moderation", "queue">>, "admin", "none",
        "none", TRUE)
    BY Taken
  <2>2. Says("moderation_queue", [c \in {200} |-> "ModerationQueue"], {401, 403}, {})
    BY Said
  <2> QED
    BY <1>15, <2>1, <2>2 DEF Declares, Says
<1>16. CASE name = "decide"
  <2>1. Declares("decide", "POST", <<"moderation", "param", "decision">>, "admin", "json",
        "DecisionCreate", FALSE)
    BY Taken
  <2>2. Says("decide", [c \in {200} |-> "FlagOutOrAction"], {400, 401, 403, 404, 409},
        {404, 409})
    BY Said
  <2> QED
    BY <1>16, <2>1, <2>2 DEF Declares, Says
<1> QED
  BY <1>1, <1>2, <1>3, <1>4, <1>5, <1>6, <1>7, <1>8, <1>9, <1>10, <1>11, <1>12, <1>13,
      <1>14, <1>15, <1>16 DEF Operations

(* What a request can be answered.                                         *)
Refusal(name, code) == Server!Answer(name, code, "ErrorResponse", Server!NoFields)
Invalid(name) == Server!Answer(name, 422, "HTTPValidationError", Server!NoFields)
Hidden(name) == Server!Answer(name, 200, "Hidden", Server!NoFields)
Failure(name) == Server!Answer(name, 500, "Crash", Server!NoFields)
Handled(name, r) == Server!Handler(name, Server!Payload(Server!Op[name], r).at)

LEMMA ServeCases ==
  ASSUME NEW r, NEW a \in Server!Serve(r)
  PROVE  LET takers == Server!Takes(r.method, r.path)
             name == Server!create_app[Server!First(takers)].name
             op == Server!Op[name]
         IN  \/ Server!OnPath(r.path) = {} /\ a = Refusal("none", 404)
             \/ Server!OnPath(r.path) # {} /\ takers = {}
                 /\ a = Server!NotAllowed(r.path)
             \/ takers # {} /\ name \notin Operations /\ a = Hidden(name)
             \/ /\ takers # {} /\ name \in Operations
                /\ \/ op.format \in {"json", "multipart"} /\ a = Refusal(name, 400)
                   \/ op.format = "json" /\ a = Invalid(name)
                   \/ op.caller # "nobody" /\ a = Refusal(name, 401)
                   \/ op.caller = "admin" /\ a = Refusal(name, 403)
                   \/ name \notin {"healthz", "readyz"} /\ a = Failure(name)
                   \/ Server!Payload(op, r) = Server!Raised /\ a = Invalid(name)
                   \/ Server!Payload(op, r) # Server!Raised /\ a \in Handled(name, r)
<1> DEFINE takers == Server!Takes(r.method, r.path)
           name == Server!create_app[Server!First(takers)].name
           op == Server!Op[name]
<1>1. Server!OnPath(r.path) = {} => takers = {}
  BY DEF Server!Takes
<1>2. DOMAIN Server!Op = Operations
  BY Named
<1> HIDE DEF takers, name
<1> QED
  BY <1>1, <1>2
  DEF Server!Serve, Server!Dispatch, Server!Handle, Server!Crash, Refusal, Invalid,
      Hidden, Failure, Handled, takers, name

(* What a handler answers.                                                 *)
LEMMA HandlerCases ==
  ASSUME NEW name \in Operations, NEW got, NEW a \in Server!Handler(name, got)
  PROVE  LET op == Server!Op[name]
             long == name = "upload_photo" /\ got.caption = Str("long")
         IN  \/ /\ ~ long
                /\ \E c \in DOMAIN op.success :
                     \E cls \in IF name = "decide" THEN {"FlagOut", "ModerationActionOut"}
                               ELSE {op.success[d] : d \in DOMAIN op.success} :
                        a = Server!Answer(name, c, cls, got)
             \/ \E c \in op.raises : a = Server!Answer(name, c, op.more[c], got)
             \/ name \notin {"healthz", "readyz"} /\ a = Failure(name)
<1> USE DEF Server!Str, Str
<1> QED
  BY DEF Server!Handler, Server!Crash, Failure

(* Every answer has its fields, and only Reply adds the document.          *)
LEMMA Answered ==
  ASSUME NEW r, NEW a \in Server!Serve(r)
  PROVE  DOMAIN a = {"op", "code", "cls", "got", "allow"}
<1> DEFINE fields == {"op", "code", "cls", "got", "allow"}
<1>1. \A o, c, k, g : DOMAIN Server!Answer(o, c, k, g) = fields
  BY DEF Server!Answer
<1>2. DOMAIN Server!NotAllowed(r.path) = fields
  BY DEF Server!NotAllowed, Server!Answer
<1>3. ASSUME NEW name \in Operations, a \in Handled(name, r)
      PROVE  DOMAIN a = fields
  BY <1>1, <1>3, HandlerCases DEF Handled, Failure
<1> HIDE DEF fields
<1>4. \A o, c : /\ DOMAIN Refusal(o, c) = fields /\ DOMAIN Failure(o) = fields
               /\ DOMAIN Invalid(o) = fields /\ DOMAIN Hidden(o) = fields
  BY <1>1 DEF Refusal, Invalid, Hidden, Failure
<1>5. DOMAIN a = fields
  <2> DEFINE name == Server!create_app[Server!First(Server!Takes(r.method, r.path))].name
  <2> HIDE DEF name
  <2> QED
    BY <1>2, <1>3, <1>4, ServeCases DEF name
<1> QED
  BY <1>5 DEF fields

(* Nothing of an answer is lost when the document joins it.                *)
LEMMA OnTheWire ==
  ASSUME NEW a, DOMAIN a = {"op", "code", "cls", "got", "allow"}, NEW doc,
         answer = a @@ [doc |-> doc]
  PROVE  /\ answer.op = a.op /\ answer.code = a.code /\ answer.cls = a.cls
         /\ answer.got = a.got /\ answer.allow = a.allow /\ answer.doc = doc
         /\ answer # None
  BY DEF @@, None

(* What is not documented is a crash.                                      *)
LEMMA UndocumentedServed ==
  ASSUME NEW r, NEW a \in Server!Serve(r), a.op \in Operations,
         a.code \notin Server!Documented(a.op)
  PROVE  a.cls = "Crash" /\ a.op \notin {"healthz", "readyz"}
<1> DEFINE takers == Server!Takes(r.method, r.path)
           name == Server!create_app[Server!First(takers)].name
           op == Server!Op[name]
<1>1. \A o, c, k, g : LET b == Server!Answer(o, c, k, g) IN b.op = o /\ b.code = c
      /\ b.cls = k
  BY DEF Server!Answer
<1>2. Server!NotAllowed(r.path).op = "none"
  BY DEF Server!NotAllowed, Server!Answer
<1>3. "none" \notin Operations
  BY DEF Operations
<1> HIDE DEF name
<1>4. /\ name \in Operations /\ a.op = name
      /\ \/ op.format \in {"json", "multipart"} /\ a.code = 400
         \/ op.format = "json" /\ a.code = 422
         \/ op.caller # "nobody" /\ a.code = 401
         \/ op.caller = "admin" /\ a.code = 403
         \/ name \notin {"healthz", "readyz"} /\ a = Failure(name)
         \/ Server!Payload(op, r) = Server!Raised /\ a.code = 422
         \/ a \in Handled(name, r)
  <2>1. \A o, c : Refusal(o, c).op = o /\ Refusal(o, c).code = c
    BY <1>1 DEF Refusal
  <2>2. \A o : Invalid(o).op = o /\ Invalid(o).code = 422 /\ Hidden(o).op = o
    BY <1>1 DEF Invalid, Hidden
  <2>3. /\ name \in Operations /\ a \in Handled(name, r) => a.op = name
        /\ Failure(name).op = name
    BY <1>1, HandlerCases DEF Handled, Failure
  <2> QED
    BY <1>2, <1>3, <2>1, <2>2, <2>3, ServeCases DEF name
<1>5. DOMAIN op.success \union DOMAIN op.more \subseteq Server!Documented(name)
  BY DEF Server!Documented
<1>6. Server!Payload(op, r) = Server!Raised => 422 \in Server!Documented(name)
  <2>1. Server!Obj(Server!NoFields) # Server!Raised
    BY DEF Server!Obj, Server!Raised
  <2> QED
    BY <2>1 DEF Server!Documented, Server!Payload
<1>7. op.format = "json" => 422 \in Server!Documented(name)
  BY DEF Server!Documented
<1>8. \/ a \in Handled(name, r)
      \/ name \notin {"healthz", "readyz"} /\ a = Failure(name)
  BY <1>4, <1>5, <1>6, <1>7, DocumentsErrors
<1>9. name \notin {"healthz", "readyz"} /\ a = Failure(name)
  BY <1>1, <1>4, <1>5, <1>8, HandlerCases, DocumentsErrors DEF Handled
<1> QED
  BY <1>1, <1>9 DEF Failure

(* The routes of the API that take OPTIONS: none.                          *)
LEMMA NoOptions ==
  ASSUME NEW i \in DOMAIN Server!create_app
  PROVE  "OPTIONS" \notin Server!create_app[i].methods
<1>1. \A name \in Operations : Server!Op[name].method # "OPTIONS"
  BY Taken DEF Operations, Declares
<1>2. \A name \in Operations : "OPTIONS" \notin Server!Route(name).methods
  BY <1>1 DEF Server!Route
<1>3. \A name, path : /\ "OPTIONS" \notin Server!Hidden(name, path, {"GET", "HEAD"}).methods
                      /\ "OPTIONS" \notin Server!Hidden(name, path, {"GET"}).methods
  BY DEF Server!Hidden
<1>4. i \in 1 .. 19
  BY DEF Server!create_app
<1>5. \/ \E name \in Operations : Server!create_app[i] = Server!Route(name)
      \/ \E name, path : Server!create_app[i] = Server!Hidden(name, path, {"GET", "HEAD"})
      \/ \E name, path : Server!create_app[i] = Server!Hidden(name, path, {"GET"})
  BY <1>4 DEF Server!create_app, Operations
<1> QED
  BY <1>2, <1>3, <1>5

(* A 405 answers exactly the methods that no route of the path takes, and  *)
(* its header names those that one does.                                   *)
LEMMA AllowServed ==
  ASSUME NEW r, NEW a \in Server!Serve(r), Server!OnPath(r.path) # {}
  PROVE  LET allow == Server!AllowHeader(r.path) IN
         /\ (a.code = 405) <=> (r.method \notin allow \ {"OPTIONS"})
         /\ a.code = 405 => a.allow = allow
<1> DEFINE takers == Server!Takes(r.method, r.path)
           name == Server!create_app[Server!First(takers)].name
<1>1. \A o, c, k, g : Server!Answer(o, c, k, g).code = c
  BY DEF Server!Answer
<1>2. /\ Server!NotAllowed(r.path).code = 405
      /\ Server!NotAllowed(r.path).allow = Server!AllowHeader(r.path)
  BY DEF Server!NotAllowed, Server!Answer
<1>3. takers = {} <=> r.method \notin Server!AllowHeader(r.path) \ {"OPTIONS"}
  BY NoOptions DEF Server!Takes, Server!AllowHeader, Server!OnPath
<1> HIDE DEF takers, name
<1>4. CASE takers = {}
  BY <1>2, <1>3, <1>4, ServeCases DEF takers
<1>5. CASE takers # {}
  <2>1. \A o : /\ Refusal(o, 400).code = 400 /\ Refusal(o, 401).code = 401
               /\ Refusal(o, 403).code = 403 /\ Invalid(o).code = 422
                   /\ Hidden(o).code = 200 /\ Failure(o).code = 500
    BY <1>1 DEF Refusal, Invalid, Hidden, Failure
  <2>2. ASSUME name \in Operations, a \in Handled(name, r)
        PROVE  a.code # 405
    BY <1>1, <2>1, <2>2, HandlerCases, DocumentsErrors DEF Handled
  <2>3. a.code # 405
    BY <1>5, <2>1, <2>2, ServeCases DEF takers, name
  <2> QED
    BY <1>3, <1>5, <2>3
<1> QED
  BY <1>4, <1>5

-----------------------------------------------------------------------------
(* The invariant: what each stage holds is the outcome of the one before.  *)
Resting == stage = "idle" => call = None /\ request = None /\ result = None
Requesting == stage # "idle" => request # None
Unanswered == /\ stage \in {"idle", "asked"} => answer = None
              /\ stage # "parsed" => result = None
Calling ==
  stage # "idle" /\ call # None =>
    /\ call.op \in DOMAIN Sdk!Endpoint /\ call.body \in Arguments(call.op)
    /\ call.params \in IF Sdk!Endpoint[call.op].paged THEN Pagings ELSE {NoFields}
    /\ \E caller \in {"nobody", "user", "admin"} :
         request = Sdk!GetKwargs(call.op, call.body, call.params) @@ [caller |-> caller]
Serving ==
  stage \in {"answered", "parsed"} =>
    \E a \in Server!Serve(request), nulls \in NullSets, n \in 1 .. Variants :
      answer = a @@ [doc |-> Content(a.cls, nulls, n)]
Parsing ==
  stage = "parsed" => call # None /\ result = Sdk!ParseResponse(call.op, call.raises,
      answer)

ExchangeInv ==
  /\ stage \in {"idle", "asked", "answered", "parsed"}
  /\ Resting /\ Requesting /\ Unanswered /\ Calling /\ Serving /\ Parsing

(* It holds at first, and every step keeps it.                             *)
LEMMA ExchangeInit == Init => ExchangeInv
  BY DEF Init, ExchangeInv, Resting, Requesting, Unanswered, Calling, Serving, Parsing

LEMMA ExchangeStep == ExchangeInv /\ [Next]_vars => ExchangeInv'
<1> SUFFICES ASSUME ExchangeInv, [Next]_vars
             PROVE  ExchangeInv'
  OBVIOUS
<1> USE DEF ExchangeInv, Resting, Requesting, Unanswered, Calling, Serving, Parsing
<1>1. CASE CallSdk
  <2>1. PICK op \in DOMAIN Sdk!Endpoint :
        \E body \in Arguments(op), raises \in BOOLEAN,
            caller \in {"nobody", "user", "admin"},
           params \in IF Sdk!Endpoint[op].paged THEN Pagings ELSE {NoFields} :
          /\ call' = [op |-> op, body |-> body, params |-> params, raises |-> raises]
          /\ request' = Sdk!GetKwargs(op, body, params) @@ [caller |-> caller]
    BY <1>1 DEF CallSdk
  <2>2. Calling'
    BY <2>1
  <2>3. request' # None
    <3>1. "method" \in DOMAIN request'
      BY <2>1 DEF Sdk!GetKwargs, @@
    <3> QED
      BY <3>1 DEF None
  <2> QED
    BY <1>1, <2>2, <2>3 DEF CallSdk
<1>2. CASE SendRaw
  <2>1. request' # None
    BY <1>2 DEF SendRaw, None
  <2> QED
    BY <1>2, <2>1 DEF SendRaw
<1>3. CASE Reply
  BY <1>3 DEF Reply
<1>4. CASE Parse
  BY <1>4 DEF Parse
<1>5. CASE Finish
  BY <1>5 DEF Finish
<1>6. CASE UNCHANGED vars
  BY <1>6 DEF vars
<1> QED
  BY <1>1, <1>2, <1>3, <1>4, <1>5, <1>6 DEF Next

(* Every exchange goes through its stages in this order.                   *)
THEOREM ExchangeInvHolds == Spec => []ExchangeInv
  BY ExchangeInit, ExchangeStep, PTL DEF Spec

(* The answer the client holds is one the API gave to its request.         *)
LEMMA Given ==
  ASSUME ExchangeInv, answer # None
  PROVE  /\ stage \in {"answered", "parsed"}
         /\ \E a \in Server!Serve(request), nulls \in NullSets,
             n \in 1 .. Variants :
              /\ answer.op = a.op /\ answer.code = a.code /\ answer.cls = a.cls
              /\ answer.got = a.got /\ answer.allow = a.allow
<1>1. stage \in {"answered", "parsed"}
  BY DEF ExchangeInv, Unanswered
<1>2. PICK a \in Server!Serve(request), nulls \in NullSets,
      n \in 1 .. Variants :
        answer = a @@ [doc |-> Content(a.cls, nulls, n)]
  BY <1>1 DEF ExchangeInv, Serving
<1> QED
  BY <1>1, <1>2, Answered, OnTheWire

(* The exchange goes through its stages and each holds what it should.     *)
THEOREM ExchangeTypeCorrect == Spec => []TypeOK
<1>1. ASSUME ExchangeInv PROVE TypeOK
  <2> USE <1>1 DEF ExchangeInv
  <2>1. (stage = "idle") = (request = None)
    BY DEF Resting, Requesting
  <2>2. stage \in {"answered", "parsed"} => answer # None
    <3> SUFFICES ASSUME stage \in {"answered", "parsed"} PROVE answer # None
      OBVIOUS
    <3>1. PICK a \in Server!Serve(request), nulls \in NullSets, n \in 1 .. Variants :
            answer = a @@ [doc |-> Content(a.cls, nulls, n)]
      BY DEF Serving
    <3> QED
      BY <3>1, Answered, OnTheWire
  <2>3. stage \notin {"answered", "parsed"} => answer = None
    BY DEF Unanswered
  <2>4. stage # "parsed" => result = None
    BY DEF Unanswered, Resting, Parsing
  <2>5. stage = "parsed" =>
          result # None /\ result.raised \in {"nothing", "ParseError", "UnexpectedStatus"}
    BY DEF Parsing, Sdk!ParseResponse, Sdk!Outcome, None
  <2> QED
    BY <2>1, <2>2, <2>3, <2>4, <2>5 DEF TypeOK
<1>2. ExchangeInv => TypeOK
  BY <1>1
<1> QED
  BY <1>2, ExchangeInvHolds, PTL

(* Whatever is sent, an answer that is not documented for its operation is *)
(* a crash, of which the health routes have none (responses.py: the spec   *)
(* lists every status code returned).                                      *)
THEOREM OnlyCrashesUndocumented == Spec => []UndocumentedIsCrash
<1>1. ExchangeInv => UndocumentedIsCrash
  BY Given, UndocumentedServed, Named DEF UndocumentedIsCrash
<1> QED
  BY <1>1, ExchangeInvHolds, PTL

(* The Allow header of a 405 is exact, on every path with a route.         *)
THEOREM AllowHeaderExact == Spec => []AllowIsExact
<1>1. ExchangeInv => AllowIsExact
  BY Given, AllowServed DEF AllowIsExact
<1> QED
  BY <1>1, ExchangeInvHolds, PTL

-----------------------------------------------------------------------------
(* What the endpoint functions of the SDK request.                         *)
Calls(name, method, url, body, paged) ==
  LET ep == Sdk!Endpoint[name] IN
  ep.method = method /\ ep.url = url /\ ep.body = body /\ ep.paged = paged

LEMMA Endpoints == DOMAIN Sdk!Endpoint = Operations
  BY DEF Sdk!Endpoint, Operations

(* The endpoint modules, by name.                                          *)
LEMMA Modules ==
  /\ Sdk!Endpoint["healthz"] = Sdk!healthz
  /\ Sdk!Endpoint["readyz"] = Sdk!readyz
  /\ Sdk!Endpoint["register"] = Sdk!register
  /\ Sdk!Endpoint["login"] = Sdk!login
  /\ Sdk!Endpoint["me"] = Sdk!me
  /\ Sdk!Endpoint["upload_photo"] = Sdk!upload_photo
  /\ Sdk!Endpoint["list_photos"] = Sdk!list_photos
  /\ Sdk!Endpoint["get_photo"] = Sdk!get_photo
  /\ Sdk!Endpoint["update_photo"] = Sdk!update_photo
  /\ Sdk!Endpoint["delete_photo"] = Sdk!delete_photo
  /\ Sdk!Endpoint["get_thumbnail_status"] = Sdk!get_thumbnail_status
  /\ Sdk!Endpoint["get_photo_file"] = Sdk!get_photo_file
  /\ Sdk!Endpoint["get_thumbnail_file"] = Sdk!get_thumbnail_file
  /\ Sdk!Endpoint["flag_photo"] = Sdk!flag_photo
  /\ Sdk!Endpoint["moderation_queue"] = Sdk!moderation_queue
  /\ Sdk!Endpoint["decide"] = Sdk!decide
  BY DEF Sdk!Endpoint

(* What each of them requests.                                             *)
LEMMA Requested ==
  /\ Calls("healthz", "GET", <<"healthz">>, "none", FALSE)
  /\ Calls("readyz", "GET", <<"readyz">>, "none", FALSE)
  /\ Calls("register", "POST", <<"auth", "register">>, "json", FALSE)
  /\ Calls("login", "POST", <<"auth", "login">>, "json", FALSE)
  /\ Calls("me", "GET", <<"auth", "me">>, "none", FALSE)
  /\ Calls("upload_photo", "POST", <<"photos">>, "multipart", FALSE)
  /\ Calls("list_photos", "GET", <<"photos">>, "none", TRUE)
  /\ Calls("get_photo", "GET", <<"photos", "7">>, "none", FALSE)
  /\ Calls("update_photo", "PATCH", <<"photos", "7">>, "json", FALSE)
  /\ Calls("delete_photo", "DELETE", <<"photos", "7">>, "none", FALSE)
  /\ Calls("get_thumbnail_status", "GET", <<"photos", "7", "thumbnail">>, "none", FALSE)
  /\ Calls("get_photo_file", "GET", <<"photos", "7", "file">>, "none", FALSE)
  /\ Calls("get_thumbnail_file", "GET", <<"photos", "7", "thumbnail", "file">>, "none",
      FALSE)
  /\ Calls("flag_photo", "POST", <<"photos", "7", "flag">>, "json", FALSE)
  /\ Calls("moderation_queue", "GET", <<"moderation", "queue">>, "none", TRUE)
  /\ Calls("decide", "POST", <<"moderation", "7", "decision">>, "json", FALSE)
<1>1. Calls("healthz", "GET", <<"healthz">>, "none", FALSE)
  BY Modules DEF Calls, Sdk!healthz, Sdk!Call
<1>2. Calls("readyz", "GET", <<"readyz">>, "none", FALSE)
  BY Modules DEF Calls, Sdk!readyz, Sdk!Call
<1>3. Calls("register", "POST", <<"auth", "register">>, "json", FALSE)
  BY Modules DEF Calls, Sdk!register, Sdk!Call
<1>4. Calls("login", "POST", <<"auth", "login">>, "json", FALSE)
  BY Modules DEF Calls, Sdk!login, Sdk!Call
<1>5. Calls("me", "GET", <<"auth", "me">>, "none", FALSE)
  BY Modules DEF Calls, Sdk!me, Sdk!Call
<1>6. Calls("upload_photo", "POST", <<"photos">>, "multipart", FALSE)
  BY Modules DEF Calls, Sdk!upload_photo, Sdk!Call
<1>7. Calls("list_photos", "GET", <<"photos">>, "none", TRUE)
  BY Modules DEF Calls, Sdk!list_photos, Sdk!Call
<1>8. Calls("get_photo", "GET", <<"photos", "7">>, "none", FALSE)
  BY Modules DEF Calls, Sdk!get_photo, Sdk!Call, Sdk!Id
<1>9. Calls("update_photo", "PATCH", <<"photos", "7">>, "json", FALSE)
  BY Modules DEF Calls, Sdk!update_photo, Sdk!Call, Sdk!Id
<1>10. Calls("delete_photo", "DELETE", <<"photos", "7">>, "none", FALSE)
  BY Modules DEF Calls, Sdk!delete_photo, Sdk!Call, Sdk!Id
<1>11. Calls("get_thumbnail_status", "GET", <<"photos", "7", "thumbnail">>, "none", FALSE)
  BY Modules DEF Calls, Sdk!get_thumbnail_status, Sdk!Call, Sdk!Id
<1>12. Calls("get_photo_file", "GET", <<"photos", "7", "file">>, "none", FALSE)
  BY Modules DEF Calls, Sdk!get_photo_file, Sdk!Call, Sdk!Id
<1>13. Calls("get_thumbnail_file", "GET", <<"photos", "7", "thumbnail", "file">>, "none",
       FALSE)
  BY Modules DEF Calls, Sdk!get_thumbnail_file, Sdk!Call, Sdk!Id
<1>14. Calls("flag_photo", "POST", <<"photos", "7", "flag">>, "json", FALSE)
  BY Modules DEF Calls, Sdk!flag_photo, Sdk!Call, Sdk!Id
<1>15. Calls("moderation_queue", "GET", <<"moderation", "queue">>, "none", TRUE)
  BY Modules DEF Calls, Sdk!moderation_queue, Sdk!Call
<1>16. Calls("decide", "POST", <<"moderation", "7", "decision">>, "json", FALSE)
  BY Modules DEF Calls, Sdk!decide, Sdk!Call, Sdk!Id
<1> QED
  BY <1>1, <1>2, <1>3, <1>4, <1>5, <1>6, <1>7, <1>8, <1>9, <1>10, <1>11, <1>12, <1>13,
      <1>14, <1>15, <1>16

(* The routes, by what distinguishes one from the others: its methods, the *)
(* length of its path and the path's first and last segment.               *)
Leads(i, name, methods, n, first, last) ==
  LET route == Server!create_app[i] IN
  /\ route.name = name /\ route.methods = methods /\ Len(route.path) = n
  /\ n # 0 => route.path[1] = first /\ route.path[n] = last

(* The routes of create_app.                                               *)
LEMMA Routes ==
  /\ Leads(1, "docs", {"GET", "HEAD"}, 1, "docs", "docs")
  /\ Leads(2, "healthz", {"GET"}, 1, "healthz", "healthz")
  /\ Leads(3, "readyz", {"GET"}, 1, "readyz", "readyz")
  /\ Leads(4, "register", {"POST"}, 2, "auth", "register")
  /\ Leads(5, "login", {"POST"}, 2, "auth", "login")
  /\ Leads(6, "me", {"GET"}, 2, "auth", "me")
  /\ Leads(7, "upload_photo", {"POST"}, 1, "photos", "photos")
  /\ Leads(8, "list_photos", {"GET"}, 1, "photos", "photos")
  /\ Leads(9, "get_photo", {"GET"}, 2, "photos", "param")
  /\ Leads(10, "update_photo", {"PATCH"}, 2, "photos", "param")
  /\ Leads(11, "delete_photo", {"DELETE"}, 2, "photos", "param")
  /\ Leads(12, "get_thumbnail_status", {"GET"}, 3, "photos", "thumbnail")
  /\ Leads(13, "get_photo_file", {"GET"}, 3, "photos", "file")
  /\ Leads(14, "get_thumbnail_file", {"GET"}, 4, "photos", "file")
  /\ Leads(15, "flag_photo", {"POST"}, 3, "photos", "flag")
  /\ Leads(16, "moderation_queue", {"GET"}, 2, "moderation", "queue")
  /\ Leads(17, "decide", {"POST"}, 3, "moderation", "decision")
  /\ Leads(18, "metrics", {"GET"}, 1, "metrics", "metrics")
  /\ Leads(19, "root", {"GET"}, 0, "none", "none")
<1>1. Leads(1, "docs", {"GET", "HEAD"}, 1, "docs", "docs")
  BY DEF Leads, Server!create_app, Server!Hidden
<1>2. Leads(2, "healthz", {"GET"}, 1, "healthz", "healthz")
  <2>1. Server!create_app[2] = Server!Route("healthz")
    BY DEF Server!create_app
  <2>2. Declares("healthz", "GET", <<"healthz">>, "nobody", "none", "none", FALSE)
    BY Taken
  <2> QED
    BY <2>1, <2>2 DEF Leads, Server!Route, Declares
<1>3. Leads(3, "readyz", {"GET"}, 1, "readyz", "readyz")
  <2>1. Server!create_app[3] = Server!Route("readyz")
    BY DEF Server!create_app
  <2>2. Declares("readyz", "GET", <<"readyz">>, "nobody", "none", "none", FALSE)
    BY Taken
  <2> QED
    BY <2>1, <2>2 DEF Leads, Server!Route, Declares
<1>4. Leads(4, "register", {"POST"}, 2, "auth", "register")
  <2>1. Server!create_app[4] = Server!Route("register")
    BY DEF Server!create_app
  <2>2. Declares("register", "POST", <<"auth", "register">>, "nobody", "json",
        "UserCreate", FALSE)
    BY Taken
  <2> QED
    BY <2>1, <2>2 DEF Leads, Server!Route, Declares
<1>5. Leads(5, "login", {"POST"}, 2, "auth", "login")
  <2>1. Server!create_app[5] = Server!Route("login")
    BY DEF Server!create_app
  <2>2. Declares("login", "POST", <<"auth", "login">>, "nobody", "json", "UserLogin", FALSE)
    BY Taken
  <2> QED
    BY <2>1, <2>2 DEF Leads, Server!Route, Declares
<1>6. Leads(6, "me", {"GET"}, 2, "auth", "me")
  <2>1. Server!create_app[6] = Server!Route("me")
    BY DEF Server!create_app
  <2>2. Declares("me", "GET", <<"auth", "me">>, "user", "none", "none", FALSE)
    BY Taken
  <2> QED
    BY <2>1, <2>2 DEF Leads, Server!Route, Declares
<1>7. Leads(7, "upload_photo", {"POST"}, 1, "photos", "photos")
  <2>1. Server!create_app[7] = Server!Route("upload_photo")
    BY DEF Server!create_app
  <2>2. Declares("upload_photo", "POST", <<"photos">>, "user", "multipart", "Upload", FALSE)
    BY Taken
  <2> QED
    BY <2>1, <2>2 DEF Leads, Server!Route, Declares
<1>8. Leads(8, "list_photos", {"GET"}, 1, "photos", "photos")
  <2>1. Server!create_app[8] = Server!Route("list_photos")
    BY DEF Server!create_app
  <2>2. Declares("list_photos", "GET", <<"photos">>, "user", "none", "none", TRUE)
    BY Taken
  <2> QED
    BY <2>1, <2>2 DEF Leads, Server!Route, Declares
<1>9. Leads(9, "get_photo", {"GET"}, 2, "photos", "param")
  <2>1. Server!create_app[9] = Server!Route("get_photo")
    BY DEF Server!create_app
  <2>2. Declares("get_photo", "GET", <<"photos", "param">>, "user", "none", "none", FALSE)
    BY Taken
  <2> QED
    BY <2>1, <2>2 DEF Leads, Server!Route, Declares
<1>10. Leads(10, "update_photo", {"PATCH"}, 2, "photos", "param")
  <2>1. Server!create_app[10] = Server!Route("update_photo")
    BY DEF Server!create_app
  <2>2. Declares("update_photo", "PATCH", <<"photos", "param">>, "user", "json",
        "PhotoUpdate", FALSE)
    BY Taken
  <2> QED
    BY <2>1, <2>2 DEF Leads, Server!Route, Declares
<1>11. Leads(11, "delete_photo", {"DELETE"}, 2, "photos", "param")
  <2>1. Server!create_app[11] = Server!Route("delete_photo")
    BY DEF Server!create_app
  <2>2. Declares("delete_photo", "DELETE", <<"photos", "param">>, "user", "none", "none",
        FALSE)
    BY Taken
  <2> QED
    BY <2>1, <2>2 DEF Leads, Server!Route, Declares
<1>12. Leads(12, "get_thumbnail_status", {"GET"}, 3, "photos", "thumbnail")
  <2>1. Server!create_app[12] = Server!Route("get_thumbnail_status")
    BY DEF Server!create_app
  <2>2. Declares("get_thumbnail_status", "GET", <<"photos", "param", "thumbnail">>, "user",
        "none", "none", FALSE)
    BY Taken
  <2> QED
    BY <2>1, <2>2 DEF Leads, Server!Route, Declares
<1>13. Leads(13, "get_photo_file", {"GET"}, 3, "photos", "file")
  <2>1. Server!create_app[13] = Server!Route("get_photo_file")
    BY DEF Server!create_app
  <2>2. Declares("get_photo_file", "GET", <<"photos", "param", "file">>, "user", "none",
        "none", FALSE)
    BY Taken
  <2> QED
    BY <2>1, <2>2 DEF Leads, Server!Route, Declares
<1>14. Leads(14, "get_thumbnail_file", {"GET"}, 4, "photos", "file")
  <2>1. Server!create_app[14] = Server!Route("get_thumbnail_file")
    BY DEF Server!create_app
  <2>2. Declares("get_thumbnail_file", "GET", <<"photos", "param", "thumbnail", "file">>,
        "user", "none", "none", FALSE)
    BY Taken
  <2> QED
    BY <2>1, <2>2 DEF Leads, Server!Route, Declares
<1>15. Leads(15, "flag_photo", {"POST"}, 3, "photos", "flag")
  <2>1. Server!create_app[15] = Server!Route("flag_photo")
    BY DEF Server!create_app
  <2>2. Declares("flag_photo", "POST", <<"photos", "param", "flag">>, "user", "json",
        "FlagCreate", FALSE)
    BY Taken
  <2> QED
    BY <2>1, <2>2 DEF Leads, Server!Route, Declares
<1>16. Leads(16, "moderation_queue", {"GET"}, 2, "moderation", "queue")
  <2>1. Server!create_app[16] = Server!Route("moderation_queue")
    BY DEF Server!create_app
  <2>2. Declares("moderation_queue", "GET", <<"moderation", "queue">>, "admin", "none",
        "none", TRUE)
    BY Taken
  <2> QED
    BY <2>1, <2>2 DEF Leads, Server!Route, Declares
<1>17. Leads(17, "decide", {"POST"}, 3, "moderation", "decision")
  <2>1. Server!create_app[17] = Server!Route("decide")
    BY DEF Server!create_app
  <2>2. Declares("decide", "POST", <<"moderation", "param", "decision">>, "admin", "json",
        "DecisionCreate", FALSE)
    BY Taken
  <2> QED
    BY <2>1, <2>2 DEF Leads, Server!Route, Declares
<1>18. Leads(18, "metrics", {"GET"}, 1, "metrics", "metrics")
  BY DEF Leads, Server!create_app, Server!Hidden
<1>19. Leads(19, "root", {"GET"}, 0, "none", "none")
  BY DEF Leads, Server!create_app, Server!Hidden
<1> QED
  BY <1>1, <1>2, <1>3, <1>4, <1>5, <1>6, <1>7, <1>8, <1>9, <1>10, <1>11, <1>12, <1>13,
      <1>14, <1>15, <1>16, <1>17, <1>18, <1>19

(* The routes left for a method and a length.                              *)
LEMMA Candidates ==
  ASSUME NEW j \in 1 .. 19
  PROVE  LET route == Server!create_app[j]
             n == Len(route.path)
         IN
         /\ "DELETE" \in route.methods /\ n = 2 => j \in {11}
         /\ "GET" \in route.methods /\ n = 1 => j \in {1, 2, 3, 8, 18}
         /\ "GET" \in route.methods /\ n = 2 => j \in {6, 9, 16}
         /\ "GET" \in route.methods /\ n = 3 => j \in {12, 13}
         /\ "GET" \in route.methods /\ n = 4 => j \in {14}
         /\ "PATCH" \in route.methods /\ n = 2 => j \in {10}
         /\ "POST" \in route.methods /\ n = 1 => j \in {7}
         /\ "POST" \in route.methods /\ n = 2 => j \in {4, 5}
         /\ "POST" \in route.methods /\ n = 3 => j \in {15, 17}
<1>1. CASE j = 1
  <2>1. Leads(1, "docs", {"GET", "HEAD"}, 1, "docs", "docs")
    BY Routes
  <2> QED
    BY <1>1, <2>1 DEF Leads
<1>2. CASE j = 2
  <2>1. Leads(2, "healthz", {"GET"}, 1, "healthz", "healthz")
    BY Routes
  <2> QED
    BY <1>2, <2>1 DEF Leads
<1>3. CASE j = 3
  <2>1. Leads(3, "readyz", {"GET"}, 1, "readyz", "readyz")
    BY Routes
  <2> QED
    BY <1>3, <2>1 DEF Leads
<1>4. CASE j = 4
  <2>1. Leads(4, "register", {"POST"}, 2, "auth", "register")
    BY Routes
  <2> QED
    BY <1>4, <2>1 DEF Leads
<1>5. CASE j = 5
  <2>1. Leads(5, "login", {"POST"}, 2, "auth", "login")
    BY Routes
  <2> QED
    BY <1>5, <2>1 DEF Leads
<1>6. CASE j = 6
  <2>1. Leads(6, "me", {"GET"}, 2, "auth", "me")
    BY Routes
  <2> QED
    BY <1>6, <2>1 DEF Leads
<1>7. CASE j = 7
  <2>1. Leads(7, "upload_photo", {"POST"}, 1, "photos", "photos")
    BY Routes
  <2> QED
    BY <1>7, <2>1 DEF Leads
<1>8. CASE j = 8
  <2>1. Leads(8, "list_photos", {"GET"}, 1, "photos", "photos")
    BY Routes
  <2> QED
    BY <1>8, <2>1 DEF Leads
<1>9. CASE j = 9
  <2>1. Leads(9, "get_photo", {"GET"}, 2, "photos", "param")
    BY Routes
  <2> QED
    BY <1>9, <2>1 DEF Leads
<1>10. CASE j = 10
  <2>1. Leads(10, "update_photo", {"PATCH"}, 2, "photos", "param")
    BY Routes
  <2> QED
    BY <1>10, <2>1 DEF Leads
<1>11. CASE j = 11
  <2>1. Leads(11, "delete_photo", {"DELETE"}, 2, "photos", "param")
    BY Routes
  <2> QED
    BY <1>11, <2>1 DEF Leads
<1>12. CASE j = 12
  <2>1. Leads(12, "get_thumbnail_status", {"GET"}, 3, "photos", "thumbnail")
    BY Routes
  <2> QED
    BY <1>12, <2>1 DEF Leads
<1>13. CASE j = 13
  <2>1. Leads(13, "get_photo_file", {"GET"}, 3, "photos", "file")
    BY Routes
  <2> QED
    BY <1>13, <2>1 DEF Leads
<1>14. CASE j = 14
  <2>1. Leads(14, "get_thumbnail_file", {"GET"}, 4, "photos", "file")
    BY Routes
  <2> QED
    BY <1>14, <2>1 DEF Leads
<1>15. CASE j = 15
  <2>1. Leads(15, "flag_photo", {"POST"}, 3, "photos", "flag")
    BY Routes
  <2> QED
    BY <1>15, <2>1 DEF Leads
<1>16. CASE j = 16
  <2>1. Leads(16, "moderation_queue", {"GET"}, 2, "moderation", "queue")
    BY Routes
  <2> QED
    BY <1>16, <2>1 DEF Leads
<1>17. CASE j = 17
  <2>1. Leads(17, "decide", {"POST"}, 3, "moderation", "decision")
    BY Routes
  <2> QED
    BY <1>17, <2>1 DEF Leads
<1>18. CASE j = 18
  <2>1. Leads(18, "metrics", {"GET"}, 1, "metrics", "metrics")
    BY Routes
  <2> QED
    BY <1>18, <2>1 DEF Leads
<1>19. CASE j = 19
  <2>1. Leads(19, "root", {"GET"}, 0, "none", "none")
    BY Routes
  <2> QED
    BY <1>19, <2>1 DEF Leads
<1>20. j = 1 \/ j = 2 \/ j = 3 \/ j = 4 \/ j = 5 \/ j = 6 \/ j = 7 \/ j = 8 \/ j = 9
       \/ j = 10
       \/ j = 11 \/ j = 12 \/ j = 13 \/ j = 14 \/ j = 15 \/ j = 16 \/ j = 17
           \/ j = 18 \/ j = 19
  OBVIOUS
<1> QED
  BY <1>1, <1>2, <1>3, <1>4, <1>5, <1>6, <1>7, <1>8, <1>9, <1>10, <1>11, <1>12, <1>13,
      <1>14, <1>15, <1>16, <1>17, <1>18, <1>19, <1>20

(* One route takes what an endpoint function requests.                     *)
TakenBy(name, k) == Server!Takes(Sdk!Endpoint[name].method,
    Sdk!Endpoint[name].url) = {k}

(* The route of each call.                                                 *)
LEMMA Routed ==
  /\ TakenBy("healthz", 2)
  /\ TakenBy("readyz", 3)
  /\ TakenBy("register", 4)
  /\ TakenBy("login", 5)
  /\ TakenBy("me", 6)
  /\ TakenBy("upload_photo", 7)
  /\ TakenBy("list_photos", 8)
  /\ TakenBy("get_photo", 9)
  /\ TakenBy("update_photo", 10)
  /\ TakenBy("delete_photo", 11)
  /\ TakenBy("get_thumbnail_status", 12)
  /\ TakenBy("get_photo_file", 13)
  /\ TakenBy("get_thumbnail_file", 14)
  /\ TakenBy("flag_photo", 15)
  /\ TakenBy("moderation_queue", 16)
  /\ TakenBy("decide", 17)
<1>1. TakenBy("healthz", 2)
  <2> DEFINE p == <<"healthz">>
  <2>1. Len(p) = 1 /\ {1, 1} \subseteq DOMAIN p /\ p[1] = "healthz" /\ p[1] = "healthz"
    OBVIOUS
  <2>2. Server!SamePath(Server!create_app[2].path, p)
    <3>1. Declares("healthz", "GET", <<"healthz">>, "nobody", "none", "none", FALSE)
      BY Taken
    <3>2. Server!create_app[2].path = Server!Op["healthz"].path
      BY DEF Server!create_app, Server!Route
    <3> QED
      BY <3>1, <3>2 DEF Declares, Server!SamePath, Server!Param
  <2>3. /\ Leads(1, "docs", {"GET", "HEAD"}, 1, "docs", "docs")
        /\ Leads(2, "healthz", {"GET"}, 1, "healthz", "healthz")
        /\ Leads(3, "readyz", {"GET"}, 1, "readyz", "readyz")
        /\ Leads(8, "list_photos", {"GET"}, 1, "photos", "photos")
        /\ Leads(18, "metrics", {"GET"}, 1, "metrics", "metrics")
    BY Routes
  <2> HIDE DEF p
  <2>4. ASSUME NEW j \in 1 .. 19, "GET" \in Server!create_app[j].methods,
               Server!SamePath(Server!create_app[j].path, p)
        PROVE  j = 2
    <3>1. LET t == Server!create_app[j].path IN
          Len(t) = 1 /\ t[1] \in {p[1], "param"} /\ t[1] \in {p[1], "param"}
      BY <2>1, <2>4 DEF Server!SamePath, Server!Param
    <3>2. j \in {1, 2, 3, 8, 18}
      BY <2>4, <3>1, Candidates
    <3> QED
      BY <2>1, <2>3, <2>4, <3>1, <3>2 DEF Leads
  <2>5. DOMAIN Server!create_app = 1 .. 19
    BY DEF Server!create_app
  <2>6. Server!Takes("GET", p) = {2}
    BY <2>2, <2>3, <2>4, <2>5 DEF Server!Takes, Server!OnPath, Leads
  <2> QED
    <3>1. Calls("healthz", "GET", p, "none", FALSE)
      BY Requested DEF p
    <3> QED
      BY <2>6, <3>1 DEF TakenBy, Calls
<1>2. TakenBy("readyz", 3)
  <2> DEFINE p == <<"readyz">>
  <2>1. Len(p) = 1 /\ {1, 1} \subseteq DOMAIN p /\ p[1] = "readyz" /\ p[1] = "readyz"
    OBVIOUS
  <2>2. Server!SamePath(Server!create_app[3].path, p)
    <3>1. Declares("readyz", "GET", <<"readyz">>, "nobody", "none", "none", FALSE)
      BY Taken
    <3>2. Server!create_app[3].path = Server!Op["readyz"].path
      BY DEF Server!create_app, Server!Route
    <3> QED
      BY <3>1, <3>2 DEF Declares, Server!SamePath, Server!Param
  <2>3. /\ Leads(1, "docs", {"GET", "HEAD"}, 1, "docs", "docs")
        /\ Leads(2, "healthz", {"GET"}, 1, "healthz", "healthz")
        /\ Leads(3, "readyz", {"GET"}, 1, "readyz", "readyz")
        /\ Leads(8, "list_photos", {"GET"}, 1, "photos", "photos")
        /\ Leads(18, "metrics", {"GET"}, 1, "metrics", "metrics")
    BY Routes
  <2> HIDE DEF p
  <2>4. ASSUME NEW j \in 1 .. 19, "GET" \in Server!create_app[j].methods,
               Server!SamePath(Server!create_app[j].path, p)
        PROVE  j = 3
    <3>1. LET t == Server!create_app[j].path IN
          Len(t) = 1 /\ t[1] \in {p[1], "param"} /\ t[1] \in {p[1], "param"}
      BY <2>1, <2>4 DEF Server!SamePath, Server!Param
    <3>2. j \in {1, 2, 3, 8, 18}
      BY <2>4, <3>1, Candidates
    <3> QED
      BY <2>1, <2>3, <2>4, <3>1, <3>2 DEF Leads
  <2>5. DOMAIN Server!create_app = 1 .. 19
    BY DEF Server!create_app
  <2>6. Server!Takes("GET", p) = {3}
    BY <2>2, <2>3, <2>4, <2>5 DEF Server!Takes, Server!OnPath, Leads
  <2> QED
    <3>1. Calls("readyz", "GET", p, "none", FALSE)
      BY Requested DEF p
    <3> QED
      BY <2>6, <3>1 DEF TakenBy, Calls
<1>3. TakenBy("register", 4)
  <2> DEFINE p == <<"auth", "register">>
  <2>1. Len(p) = 2 /\ {1, 2} \subseteq DOMAIN p /\ p[1] = "auth" /\ p[2] = "register"
    OBVIOUS
  <2>2. Server!SamePath(Server!create_app[4].path, p)
    <3>1. Declares("register", "POST", <<"auth", "register">>, "nobody", "json",
          "UserCreate", FALSE)
      BY Taken
    <3>2. Server!create_app[4].path = Server!Op["register"].path
      BY DEF Server!create_app, Server!Route
    <3> QED
      BY <3>1, <3>2 DEF Declares, Server!SamePath, Server!Param
  <2>3. /\ Leads(4, "register", {"POST"}, 2, "auth", "register")
        /\ Leads(5, "login", {"POST"}, 2, "auth", "login")
    BY Routes
  <2> HIDE DEF p
  <2>4. ASSUME NEW j \in 1 .. 19, "POST" \in Server!create_app[j].methods,
               Server!SamePath(Server!create_app[j].path, p)
        PROVE  j = 4
    <3>1. LET t == Server!create_app[j].path IN
          Len(t) = 2 /\ t[1] \in {p[1], "param"} /\ t[2] \in {p[2], "param"}
      BY <2>1, <2>4 DEF Server!SamePath, Server!Param
    <3>2. j \in {4, 5}
      BY <2>4, <3>1, Candidates
    <3> QED
      BY <2>1, <2>3, <2>4, <3>1, <3>2 DEF Leads
  <2>5. DOMAIN Server!create_app = 1 .. 19
    BY DEF Server!create_app
  <2>6. Server!Takes("POST", p) = {4}
    BY <2>2, <2>3, <2>4, <2>5 DEF Server!Takes, Server!OnPath, Leads
  <2> QED
    <3>1. Calls("register", "POST", p, "json", FALSE)
      BY Requested DEF p
    <3> QED
      BY <2>6, <3>1 DEF TakenBy, Calls
<1>4. TakenBy("login", 5)
  <2> DEFINE p == <<"auth", "login">>
  <2>1. Len(p) = 2 /\ {1, 2} \subseteq DOMAIN p /\ p[1] = "auth" /\ p[2] = "login"
    OBVIOUS
  <2>2. Server!SamePath(Server!create_app[5].path, p)
    <3>1. Declares("login", "POST", <<"auth", "login">>, "nobody", "json", "UserLogin",
          FALSE)
      BY Taken
    <3>2. Server!create_app[5].path = Server!Op["login"].path
      BY DEF Server!create_app, Server!Route
    <3> QED
      BY <3>1, <3>2 DEF Declares, Server!SamePath, Server!Param
  <2>3. /\ Leads(4, "register", {"POST"}, 2, "auth", "register")
        /\ Leads(5, "login", {"POST"}, 2, "auth", "login")
    BY Routes
  <2> HIDE DEF p
  <2>4. ASSUME NEW j \in 1 .. 19, "POST" \in Server!create_app[j].methods,
               Server!SamePath(Server!create_app[j].path, p)
        PROVE  j = 5
    <3>1. LET t == Server!create_app[j].path IN
          Len(t) = 2 /\ t[1] \in {p[1], "param"} /\ t[2] \in {p[2], "param"}
      BY <2>1, <2>4 DEF Server!SamePath, Server!Param
    <3>2. j \in {4, 5}
      BY <2>4, <3>1, Candidates
    <3> QED
      BY <2>1, <2>3, <2>4, <3>1, <3>2 DEF Leads
  <2>5. DOMAIN Server!create_app = 1 .. 19
    BY DEF Server!create_app
  <2>6. Server!Takes("POST", p) = {5}
    BY <2>2, <2>3, <2>4, <2>5 DEF Server!Takes, Server!OnPath, Leads
  <2> QED
    <3>1. Calls("login", "POST", p, "json", FALSE)
      BY Requested DEF p
    <3> QED
      BY <2>6, <3>1 DEF TakenBy, Calls
<1>5. TakenBy("me", 6)
  <2> DEFINE p == <<"auth", "me">>
  <2>1. Len(p) = 2 /\ {1, 2} \subseteq DOMAIN p /\ p[1] = "auth" /\ p[2] = "me"
    OBVIOUS
  <2>2. Server!SamePath(Server!create_app[6].path, p)
    <3>1. Declares("me", "GET", <<"auth", "me">>, "user", "none", "none", FALSE)
      BY Taken
    <3>2. Server!create_app[6].path = Server!Op["me"].path
      BY DEF Server!create_app, Server!Route
    <3> QED
      BY <3>1, <3>2 DEF Declares, Server!SamePath, Server!Param
  <2>3. /\ Leads(6, "me", {"GET"}, 2, "auth", "me")
        /\ Leads(9, "get_photo", {"GET"}, 2, "photos", "param")
        /\ Leads(16, "moderation_queue", {"GET"}, 2, "moderation", "queue")
    BY Routes
  <2> HIDE DEF p
  <2>4. ASSUME NEW j \in 1 .. 19, "GET" \in Server!create_app[j].methods,
               Server!SamePath(Server!create_app[j].path, p)
        PROVE  j = 6
    <3>1. LET t == Server!create_app[j].path IN
          Len(t) = 2 /\ t[1] \in {p[1], "param"} /\ t[2] \in {p[2], "param"}
      BY <2>1, <2>4 DEF Server!SamePath, Server!Param
    <3>2. j \in {6, 9, 16}
      BY <2>4, <3>1, Candidates
    <3> QED
      BY <2>1, <2>3, <2>4, <3>1, <3>2 DEF Leads
  <2>5. DOMAIN Server!create_app = 1 .. 19
    BY DEF Server!create_app
  <2>6. Server!Takes("GET", p) = {6}
    BY <2>2, <2>3, <2>4, <2>5 DEF Server!Takes, Server!OnPath, Leads
  <2> QED
    <3>1. Calls("me", "GET", p, "none", FALSE)
      BY Requested DEF p
    <3> QED
      BY <2>6, <3>1 DEF TakenBy, Calls
<1>6. TakenBy("upload_photo", 7)
  <2> DEFINE p == <<"photos">>
  <2>1. Len(p) = 1 /\ {1, 1} \subseteq DOMAIN p /\ p[1] = "photos" /\ p[1] = "photos"
    OBVIOUS
  <2>2. Server!SamePath(Server!create_app[7].path, p)
    <3>1. Declares("upload_photo", "POST", <<"photos">>, "user", "multipart", "Upload",
          FALSE)
      BY Taken
    <3>2. Server!create_app[7].path = Server!Op["upload_photo"].path
      BY DEF Server!create_app, Server!Route
    <3> QED
      BY <3>1, <3>2 DEF Declares, Server!SamePath, Server!Param
  <2>3. /\ Leads(7, "upload_photo", {"POST"}, 1, "photos", "photos")
    BY Routes
  <2> HIDE DEF p
  <2>4. ASSUME NEW j \in 1 .. 19, "POST" \in Server!create_app[j].methods,
               Server!SamePath(Server!create_app[j].path, p)
        PROVE  j = 7
    <3>1. LET t == Server!create_app[j].path IN
          Len(t) = 1 /\ t[1] \in {p[1], "param"} /\ t[1] \in {p[1], "param"}
      BY <2>1, <2>4 DEF Server!SamePath, Server!Param
    <3>2. j \in {7}
      BY <2>4, <3>1, Candidates
    <3> QED
      BY <2>1, <2>3, <2>4, <3>1, <3>2 DEF Leads
  <2>5. DOMAIN Server!create_app = 1 .. 19
    BY DEF Server!create_app
  <2>6. Server!Takes("POST", p) = {7}
    BY <2>2, <2>3, <2>4, <2>5 DEF Server!Takes, Server!OnPath, Leads
  <2> QED
    <3>1. Calls("upload_photo", "POST", p, "multipart", FALSE)
      BY Requested DEF p
    <3> QED
      BY <2>6, <3>1 DEF TakenBy, Calls
<1>7. TakenBy("list_photos", 8)
  <2> DEFINE p == <<"photos">>
  <2>1. Len(p) = 1 /\ {1, 1} \subseteq DOMAIN p /\ p[1] = "photos" /\ p[1] = "photos"
    OBVIOUS
  <2>2. Server!SamePath(Server!create_app[8].path, p)
    <3>1. Declares("list_photos", "GET", <<"photos">>, "user", "none", "none", TRUE)
      BY Taken
    <3>2. Server!create_app[8].path = Server!Op["list_photos"].path
      BY DEF Server!create_app, Server!Route
    <3> QED
      BY <3>1, <3>2 DEF Declares, Server!SamePath, Server!Param
  <2>3. /\ Leads(1, "docs", {"GET", "HEAD"}, 1, "docs", "docs")
        /\ Leads(2, "healthz", {"GET"}, 1, "healthz", "healthz")
        /\ Leads(3, "readyz", {"GET"}, 1, "readyz", "readyz")
        /\ Leads(8, "list_photos", {"GET"}, 1, "photos", "photos")
        /\ Leads(18, "metrics", {"GET"}, 1, "metrics", "metrics")
    BY Routes
  <2> HIDE DEF p
  <2>4. ASSUME NEW j \in 1 .. 19, "GET" \in Server!create_app[j].methods,
               Server!SamePath(Server!create_app[j].path, p)
        PROVE  j = 8
    <3>1. LET t == Server!create_app[j].path IN
          Len(t) = 1 /\ t[1] \in {p[1], "param"} /\ t[1] \in {p[1], "param"}
      BY <2>1, <2>4 DEF Server!SamePath, Server!Param
    <3>2. j \in {1, 2, 3, 8, 18}
      BY <2>4, <3>1, Candidates
    <3> QED
      BY <2>1, <2>3, <2>4, <3>1, <3>2 DEF Leads
  <2>5. DOMAIN Server!create_app = 1 .. 19
    BY DEF Server!create_app
  <2>6. Server!Takes("GET", p) = {8}
    BY <2>2, <2>3, <2>4, <2>5 DEF Server!Takes, Server!OnPath, Leads
  <2> QED
    <3>1. Calls("list_photos", "GET", p, "none", TRUE)
      BY Requested DEF p
    <3> QED
      BY <2>6, <3>1 DEF TakenBy, Calls
<1>8. TakenBy("get_photo", 9)
  <2> DEFINE p == <<"photos", "7">>
  <2>1. Len(p) = 2 /\ {1, 2} \subseteq DOMAIN p /\ p[1] = "photos" /\ p[2] = "7"
    OBVIOUS
  <2>2. Server!SamePath(Server!create_app[9].path, p)
    <3>1. Declares("get_photo", "GET", <<"photos", "param">>, "user", "none", "none", FALSE)
      BY Taken
    <3>2. Server!create_app[9].path = Server!Op["get_photo"].path
      BY DEF Server!create_app, Server!Route
    <3> QED
      BY <3>1, <3>2 DEF Declares, Server!SamePath, Server!Param
  <2>3. /\ Leads(6, "me", {"GET"}, 2, "auth", "me")
        /\ Leads(9, "get_photo", {"GET"}, 2, "photos", "param")
        /\ Leads(16, "moderation_queue", {"GET"}, 2, "moderation", "queue")
    BY Routes
  <2> HIDE DEF p
  <2>4. ASSUME NEW j \in 1 .. 19, "GET" \in Server!create_app[j].methods,
               Server!SamePath(Server!create_app[j].path, p)
        PROVE  j = 9
    <3>1. LET t == Server!create_app[j].path IN
          Len(t) = 2 /\ t[1] \in {p[1], "param"} /\ t[2] \in {p[2], "param"}
      BY <2>1, <2>4 DEF Server!SamePath, Server!Param
    <3>2. j \in {6, 9, 16}
      BY <2>4, <3>1, Candidates
    <3> QED
      BY <2>1, <2>3, <2>4, <3>1, <3>2 DEF Leads
  <2>5. DOMAIN Server!create_app = 1 .. 19
    BY DEF Server!create_app
  <2>6. Server!Takes("GET", p) = {9}
    BY <2>2, <2>3, <2>4, <2>5 DEF Server!Takes, Server!OnPath, Leads
  <2> QED
    <3>1. Calls("get_photo", "GET", p, "none", FALSE)
      BY Requested DEF p
    <3> QED
      BY <2>6, <3>1 DEF TakenBy, Calls
<1>9. TakenBy("update_photo", 10)
  <2> DEFINE p == <<"photos", "7">>
  <2>1. Len(p) = 2 /\ {1, 2} \subseteq DOMAIN p /\ p[1] = "photos" /\ p[2] = "7"
    OBVIOUS
  <2>2. Server!SamePath(Server!create_app[10].path, p)
    <3>1. Declares("update_photo", "PATCH", <<"photos", "param">>, "user", "json",
          "PhotoUpdate", FALSE)
      BY Taken
    <3>2. Server!create_app[10].path = Server!Op["update_photo"].path
      BY DEF Server!create_app, Server!Route
    <3> QED
      BY <3>1, <3>2 DEF Declares, Server!SamePath, Server!Param
  <2>3. /\ Leads(10, "update_photo", {"PATCH"}, 2, "photos", "param")
    BY Routes
  <2> HIDE DEF p
  <2>4. ASSUME NEW j \in 1 .. 19, "PATCH" \in Server!create_app[j].methods,
               Server!SamePath(Server!create_app[j].path, p)
        PROVE  j = 10
    <3>1. LET t == Server!create_app[j].path IN
          Len(t) = 2 /\ t[1] \in {p[1], "param"} /\ t[2] \in {p[2], "param"}
      BY <2>1, <2>4 DEF Server!SamePath, Server!Param
    <3>2. j \in {10}
      BY <2>4, <3>1, Candidates
    <3> QED
      BY <2>1, <2>3, <2>4, <3>1, <3>2 DEF Leads
  <2>5. DOMAIN Server!create_app = 1 .. 19
    BY DEF Server!create_app
  <2>6. Server!Takes("PATCH", p) = {10}
    BY <2>2, <2>3, <2>4, <2>5 DEF Server!Takes, Server!OnPath, Leads
  <2> QED
    <3>1. Calls("update_photo", "PATCH", p, "json", FALSE)
      BY Requested DEF p
    <3> QED
      BY <2>6, <3>1 DEF TakenBy, Calls
<1>10. TakenBy("delete_photo", 11)
  <2> DEFINE p == <<"photos", "7">>
  <2>1. Len(p) = 2 /\ {1, 2} \subseteq DOMAIN p /\ p[1] = "photos" /\ p[2] = "7"
    OBVIOUS
  <2>2. Server!SamePath(Server!create_app[11].path, p)
    <3>1. Declares("delete_photo", "DELETE", <<"photos", "param">>, "user", "none", "none",
          FALSE)
      BY Taken
    <3>2. Server!create_app[11].path = Server!Op["delete_photo"].path
      BY DEF Server!create_app, Server!Route
    <3> QED
      BY <3>1, <3>2 DEF Declares, Server!SamePath, Server!Param
  <2>3. /\ Leads(11, "delete_photo", {"DELETE"}, 2, "photos", "param")
    BY Routes
  <2> HIDE DEF p
  <2>4. ASSUME NEW j \in 1 .. 19, "DELETE" \in Server!create_app[j].methods,
               Server!SamePath(Server!create_app[j].path, p)
        PROVE  j = 11
    <3>1. LET t == Server!create_app[j].path IN
          Len(t) = 2 /\ t[1] \in {p[1], "param"} /\ t[2] \in {p[2], "param"}
      BY <2>1, <2>4 DEF Server!SamePath, Server!Param
    <3>2. j \in {11}
      BY <2>4, <3>1, Candidates
    <3> QED
      BY <2>1, <2>3, <2>4, <3>1, <3>2 DEF Leads
  <2>5. DOMAIN Server!create_app = 1 .. 19
    BY DEF Server!create_app
  <2>6. Server!Takes("DELETE", p) = {11}
    BY <2>2, <2>3, <2>4, <2>5 DEF Server!Takes, Server!OnPath, Leads
  <2> QED
    <3>1. Calls("delete_photo", "DELETE", p, "none", FALSE)
      BY Requested DEF p
    <3> QED
      BY <2>6, <3>1 DEF TakenBy, Calls
<1>11. TakenBy("get_thumbnail_status", 12)
  <2> DEFINE p == <<"photos", "7", "thumbnail">>
  <2>1. Len(p) = 3 /\ {1, 3} \subseteq DOMAIN p /\ p[1] = "photos" /\ p[3] = "thumbnail"
    OBVIOUS
  <2>2. Server!SamePath(Server!create_app[12].path, p)
    <3>1. Declares("get_thumbnail_status", "GET", <<"photos", "param", "thumbnail">>,
          "user", "none", "none", FALSE)
      BY Taken
    <3>2. Server!create_app[12].path = Server!Op["get_thumbnail_status"].path
      BY DEF Server!create_app, Server!Route
    <3> QED
      BY <3>1, <3>2 DEF Declares, Server!SamePath, Server!Param
  <2>3. /\ Leads(12, "get_thumbnail_status", {"GET"}, 3, "photos", "thumbnail")
        /\ Leads(13, "get_photo_file", {"GET"}, 3, "photos", "file")
    BY Routes
  <2> HIDE DEF p
  <2>4. ASSUME NEW j \in 1 .. 19, "GET" \in Server!create_app[j].methods,
               Server!SamePath(Server!create_app[j].path, p)
        PROVE  j = 12
    <3>1. LET t == Server!create_app[j].path IN
          Len(t) = 3 /\ t[1] \in {p[1], "param"} /\ t[3] \in {p[3], "param"}
      BY <2>1, <2>4 DEF Server!SamePath, Server!Param
    <3>2. j \in {12, 13}
      BY <2>4, <3>1, Candidates
    <3> QED
      BY <2>1, <2>3, <2>4, <3>1, <3>2 DEF Leads
  <2>5. DOMAIN Server!create_app = 1 .. 19
    BY DEF Server!create_app
  <2>6. Server!Takes("GET", p) = {12}
    BY <2>2, <2>3, <2>4, <2>5 DEF Server!Takes, Server!OnPath, Leads
  <2> QED
    <3>1. Calls("get_thumbnail_status", "GET", p, "none", FALSE)
      BY Requested DEF p
    <3> QED
      BY <2>6, <3>1 DEF TakenBy, Calls
<1>12. TakenBy("get_photo_file", 13)
  <2> DEFINE p == <<"photos", "7", "file">>
  <2>1. Len(p) = 3 /\ {1, 3} \subseteq DOMAIN p /\ p[1] = "photos" /\ p[3] = "file"
    OBVIOUS
  <2>2. Server!SamePath(Server!create_app[13].path, p)
    <3>1. Declares("get_photo_file", "GET", <<"photos", "param", "file">>, "user", "none",
          "none", FALSE)
      BY Taken
    <3>2. Server!create_app[13].path = Server!Op["get_photo_file"].path
      BY DEF Server!create_app, Server!Route
    <3> QED
      BY <3>1, <3>2 DEF Declares, Server!SamePath, Server!Param
  <2>3. /\ Leads(12, "get_thumbnail_status", {"GET"}, 3, "photos", "thumbnail")
        /\ Leads(13, "get_photo_file", {"GET"}, 3, "photos", "file")
    BY Routes
  <2> HIDE DEF p
  <2>4. ASSUME NEW j \in 1 .. 19, "GET" \in Server!create_app[j].methods,
               Server!SamePath(Server!create_app[j].path, p)
        PROVE  j = 13
    <3>1. LET t == Server!create_app[j].path IN
          Len(t) = 3 /\ t[1] \in {p[1], "param"} /\ t[3] \in {p[3], "param"}
      BY <2>1, <2>4 DEF Server!SamePath, Server!Param
    <3>2. j \in {12, 13}
      BY <2>4, <3>1, Candidates
    <3> QED
      BY <2>1, <2>3, <2>4, <3>1, <3>2 DEF Leads
  <2>5. DOMAIN Server!create_app = 1 .. 19
    BY DEF Server!create_app
  <2>6. Server!Takes("GET", p) = {13}
    BY <2>2, <2>3, <2>4, <2>5 DEF Server!Takes, Server!OnPath, Leads
  <2> QED
    <3>1. Calls("get_photo_file", "GET", p, "none", FALSE)
      BY Requested DEF p
    <3> QED
      BY <2>6, <3>1 DEF TakenBy, Calls
<1>13. TakenBy("get_thumbnail_file", 14)
  <2> DEFINE p == <<"photos", "7", "thumbnail", "file">>
  <2>1. Len(p) = 4 /\ {1, 4} \subseteq DOMAIN p /\ p[1] = "photos" /\ p[4] = "file"
    OBVIOUS
  <2>2. Server!SamePath(Server!create_app[14].path, p)
    <3>1. Declares("get_thumbnail_file", "GET", <<"photos", "param", "thumbnail", "file">>,
          "user", "none", "none", FALSE)
      BY Taken
    <3>2. Server!create_app[14].path = Server!Op["get_thumbnail_file"].path
      BY DEF Server!create_app, Server!Route
    <3> QED
      BY <3>1, <3>2 DEF Declares, Server!SamePath, Server!Param
  <2>3. /\ Leads(14, "get_thumbnail_file", {"GET"}, 4, "photos", "file")
    BY Routes
  <2> HIDE DEF p
  <2>4. ASSUME NEW j \in 1 .. 19, "GET" \in Server!create_app[j].methods,
               Server!SamePath(Server!create_app[j].path, p)
        PROVE  j = 14
    <3>1. LET t == Server!create_app[j].path IN
          Len(t) = 4 /\ t[1] \in {p[1], "param"} /\ t[4] \in {p[4], "param"}
      BY <2>1, <2>4 DEF Server!SamePath, Server!Param
    <3>2. j \in {14}
      BY <2>4, <3>1, Candidates
    <3> QED
      BY <2>1, <2>3, <2>4, <3>1, <3>2 DEF Leads
  <2>5. DOMAIN Server!create_app = 1 .. 19
    BY DEF Server!create_app
  <2>6. Server!Takes("GET", p) = {14}
    BY <2>2, <2>3, <2>4, <2>5 DEF Server!Takes, Server!OnPath, Leads
  <2> QED
    <3>1. Calls("get_thumbnail_file", "GET", p, "none", FALSE)
      BY Requested DEF p
    <3> QED
      BY <2>6, <3>1 DEF TakenBy, Calls
<1>14. TakenBy("flag_photo", 15)
  <2> DEFINE p == <<"photos", "7", "flag">>
  <2>1. Len(p) = 3 /\ {1, 3} \subseteq DOMAIN p /\ p[1] = "photos" /\ p[3] = "flag"
    OBVIOUS
  <2>2. Server!SamePath(Server!create_app[15].path, p)
    <3>1. Declares("flag_photo", "POST", <<"photos", "param", "flag">>, "user", "json",
          "FlagCreate", FALSE)
      BY Taken
    <3>2. Server!create_app[15].path = Server!Op["flag_photo"].path
      BY DEF Server!create_app, Server!Route
    <3> QED
      BY <3>1, <3>2 DEF Declares, Server!SamePath, Server!Param
  <2>3. /\ Leads(15, "flag_photo", {"POST"}, 3, "photos", "flag")
        /\ Leads(17, "decide", {"POST"}, 3, "moderation", "decision")
    BY Routes
  <2> HIDE DEF p
  <2>4. ASSUME NEW j \in 1 .. 19, "POST" \in Server!create_app[j].methods,
               Server!SamePath(Server!create_app[j].path, p)
        PROVE  j = 15
    <3>1. LET t == Server!create_app[j].path IN
          Len(t) = 3 /\ t[1] \in {p[1], "param"} /\ t[3] \in {p[3], "param"}
      BY <2>1, <2>4 DEF Server!SamePath, Server!Param
    <3>2. j \in {15, 17}
      BY <2>4, <3>1, Candidates
    <3> QED
      BY <2>1, <2>3, <2>4, <3>1, <3>2 DEF Leads
  <2>5. DOMAIN Server!create_app = 1 .. 19
    BY DEF Server!create_app
  <2>6. Server!Takes("POST", p) = {15}
    BY <2>2, <2>3, <2>4, <2>5 DEF Server!Takes, Server!OnPath, Leads
  <2> QED
    <3>1. Calls("flag_photo", "POST", p, "json", FALSE)
      BY Requested DEF p
    <3> QED
      BY <2>6, <3>1 DEF TakenBy, Calls
<1>15. TakenBy("moderation_queue", 16)
  <2> DEFINE p == <<"moderation", "queue">>
  <2>1. Len(p) = 2 /\ {1, 2} \subseteq DOMAIN p /\ p[1] = "moderation" /\ p[2] = "queue"
    OBVIOUS
  <2>2. Server!SamePath(Server!create_app[16].path, p)
    <3>1. Declares("moderation_queue", "GET", <<"moderation", "queue">>, "admin", "none",
          "none", TRUE)
      BY Taken
    <3>2. Server!create_app[16].path = Server!Op["moderation_queue"].path
      BY DEF Server!create_app, Server!Route
    <3> QED
      BY <3>1, <3>2 DEF Declares, Server!SamePath, Server!Param
  <2>3. /\ Leads(6, "me", {"GET"}, 2, "auth", "me")
        /\ Leads(9, "get_photo", {"GET"}, 2, "photos", "param")
        /\ Leads(16, "moderation_queue", {"GET"}, 2, "moderation", "queue")
    BY Routes
  <2> HIDE DEF p
  <2>4. ASSUME NEW j \in 1 .. 19, "GET" \in Server!create_app[j].methods,
               Server!SamePath(Server!create_app[j].path, p)
        PROVE  j = 16
    <3>1. LET t == Server!create_app[j].path IN
          Len(t) = 2 /\ t[1] \in {p[1], "param"} /\ t[2] \in {p[2], "param"}
      BY <2>1, <2>4 DEF Server!SamePath, Server!Param
    <3>2. j \in {6, 9, 16}
      BY <2>4, <3>1, Candidates
    <3> QED
      BY <2>1, <2>3, <2>4, <3>1, <3>2 DEF Leads
  <2>5. DOMAIN Server!create_app = 1 .. 19
    BY DEF Server!create_app
  <2>6. Server!Takes("GET", p) = {16}
    BY <2>2, <2>3, <2>4, <2>5 DEF Server!Takes, Server!OnPath, Leads
  <2> QED
    <3>1. Calls("moderation_queue", "GET", p, "none", TRUE)
      BY Requested DEF p
    <3> QED
      BY <2>6, <3>1 DEF TakenBy, Calls
<1>16. TakenBy("decide", 17)
  <2> DEFINE p == <<"moderation", "7", "decision">>
  <2>1. Len(p) = 3 /\ {1, 3} \subseteq DOMAIN p /\ p[1] = "moderation"
        /\ p[3] = "decision"
    OBVIOUS
  <2>2. Server!SamePath(Server!create_app[17].path, p)
    <3>1. Declares("decide", "POST", <<"moderation", "param", "decision">>, "admin",
          "json", "DecisionCreate", FALSE)
      BY Taken
    <3>2. Server!create_app[17].path = Server!Op["decide"].path
      BY DEF Server!create_app, Server!Route
    <3> QED
      BY <3>1, <3>2 DEF Declares, Server!SamePath, Server!Param
  <2>3. /\ Leads(15, "flag_photo", {"POST"}, 3, "photos", "flag")
        /\ Leads(17, "decide", {"POST"}, 3, "moderation", "decision")
    BY Routes
  <2> HIDE DEF p
  <2>4. ASSUME NEW j \in 1 .. 19, "POST" \in Server!create_app[j].methods,
               Server!SamePath(Server!create_app[j].path, p)
        PROVE  j = 17
    <3>1. LET t == Server!create_app[j].path IN
          Len(t) = 3 /\ t[1] \in {p[1], "param"} /\ t[3] \in {p[3], "param"}
      BY <2>1, <2>4 DEF Server!SamePath, Server!Param
    <3>2. j \in {15, 17}
      BY <2>4, <3>1, Candidates
    <3> QED
      BY <2>1, <2>3, <2>4, <3>1, <3>2 DEF Leads
  <2>5. DOMAIN Server!create_app = 1 .. 19
    BY DEF Server!create_app
  <2>6. Server!Takes("POST", p) = {17}
    BY <2>2, <2>3, <2>4, <2>5 DEF Server!Takes, Server!OnPath, Leads
  <2> QED
    <3>1. Calls("decide", "POST", p, "json", FALSE)
      BY Requested DEF p
    <3> QED
      BY <2>6, <3>1 DEF TakenBy, Calls
<1> QED
  BY <1>1, <1>2, <1>3, <1>4, <1>5, <1>6, <1>7, <1>8, <1>9, <1>10, <1>11, <1>12, <1>13,
      <1>14, <1>15, <1>16

(* The first of one route is that route.                                   *)
LEMMA FirstOfOne == ASSUME NEW k \in 1 .. 19 PROVE Server!First({k}) = k
<1>1. k \in {k} /\ \A j \in {k} : k <= j
  OBVIOUS
<1> QED
  BY <1>1 DEF Server!First

(* The router finds for every call of the SDK the operation of its name.   *)
LEMMA FindsItsRoute ==
  ASSUME NEW name \in Operations
  PROVE  LET takers == Server!Takes(Sdk!Endpoint[name].method, Sdk!Endpoint[name].url) IN
         takers # {} /\ Server!create_app[Server!First(takers)].name = name
<1>0. ASSUME NEW k \in 1 .. 19, TakenBy(name, k), Server!create_app[k].name = name
      PROVE  LET takers == Server!Takes(Sdk!Endpoint[name].method,
             Sdk!Endpoint[name].url) IN
             takers # {} /\ Server!create_app[Server!First(takers)].name = name
  BY <1>0, FirstOfOne DEF TakenBy
<1>1. CASE name = "healthz"
  <2>1. TakenBy("healthz", 2)
    BY Routed
  <2>2. Leads(2, "healthz", {"GET"}, 1, "healthz", "healthz")
    BY Routes
  <2>3. Server!create_app[2].name = "healthz"
    BY <2>2 DEF Leads
  <2> QED
    BY <1>0, <1>1, <2>1, <2>3
<1>2. CASE name = "readyz"
  <2>1. TakenBy("readyz", 3)
    BY Routed
  <2>2. Leads(3, "readyz", {"GET"}, 1, "readyz", "readyz")
    BY Routes
  <2>3. Server!create_app[3].name = "readyz"
    BY <2>2 DEF Leads
  <2> QED
    BY <1>0, <1>2, <2>1, <2>3
<1>3. CASE name = "register"
  <2>1. TakenBy("register", 4)
    BY Routed
  <2>2. Leads(4, "register", {"POST"}, 2, "auth", "register")
    BY Routes
  <2>3. Server!create_app[4].name = "register"
    BY <2>2 DEF Leads
  <2> QED
    BY <1>0, <1>3, <2>1, <2>3
<1>4. CASE name = "login"
  <2>1. TakenBy("login", 5)
    BY Routed
  <2>2. Leads(5, "login", {"POST"}, 2, "auth", "login")
    BY Routes
  <2>3. Server!create_app[5].name = "login"
    BY <2>2 DEF Leads
  <2> QED
    BY <1>0, <1>4, <2>1, <2>3
<1>5. CASE name = "me"
  <2>1. TakenBy("me", 6)
    BY Routed
  <2>2. Leads(6, "me", {"GET"}, 2, "auth", "me")
    BY Routes
  <2>3. Server!create_app[6].name = "me"
    BY <2>2 DEF Leads
  <2> QED
    BY <1>0, <1>5, <2>1, <2>3
<1>6. CASE name = "upload_photo"
  <2>1. TakenBy("upload_photo", 7)
    BY Routed
  <2>2. Leads(7, "upload_photo", {"POST"}, 1, "photos", "photos")
    BY Routes
  <2>3. Server!create_app[7].name = "upload_photo"
    BY <2>2 DEF Leads
  <2> QED
    BY <1>0, <1>6, <2>1, <2>3
<1>7. CASE name = "list_photos"
  <2>1. TakenBy("list_photos", 8)
    BY Routed
  <2>2. Leads(8, "list_photos", {"GET"}, 1, "photos", "photos")
    BY Routes
  <2>3. Server!create_app[8].name = "list_photos"
    BY <2>2 DEF Leads
  <2> QED
    BY <1>0, <1>7, <2>1, <2>3
<1>8. CASE name = "get_photo"
  <2>1. TakenBy("get_photo", 9)
    BY Routed
  <2>2. Leads(9, "get_photo", {"GET"}, 2, "photos", "param")
    BY Routes
  <2>3. Server!create_app[9].name = "get_photo"
    BY <2>2 DEF Leads
  <2> QED
    BY <1>0, <1>8, <2>1, <2>3
<1>9. CASE name = "update_photo"
  <2>1. TakenBy("update_photo", 10)
    BY Routed
  <2>2. Leads(10, "update_photo", {"PATCH"}, 2, "photos", "param")
    BY Routes
  <2>3. Server!create_app[10].name = "update_photo"
    BY <2>2 DEF Leads
  <2> QED
    BY <1>0, <1>9, <2>1, <2>3
<1>10. CASE name = "delete_photo"
  <2>1. TakenBy("delete_photo", 11)
    BY Routed
  <2>2. Leads(11, "delete_photo", {"DELETE"}, 2, "photos", "param")
    BY Routes
  <2>3. Server!create_app[11].name = "delete_photo"
    BY <2>2 DEF Leads
  <2> QED
    BY <1>0, <1>10, <2>1, <2>3
<1>11. CASE name = "get_thumbnail_status"
  <2>1. TakenBy("get_thumbnail_status", 12)
    BY Routed
  <2>2. Leads(12, "get_thumbnail_status", {"GET"}, 3, "photos", "thumbnail")
    BY Routes
  <2>3. Server!create_app[12].name = "get_thumbnail_status"
    BY <2>2 DEF Leads
  <2> QED
    BY <1>0, <1>11, <2>1, <2>3
<1>12. CASE name = "get_photo_file"
  <2>1. TakenBy("get_photo_file", 13)
    BY Routed
  <2>2. Leads(13, "get_photo_file", {"GET"}, 3, "photos", "file")
    BY Routes
  <2>3. Server!create_app[13].name = "get_photo_file"
    BY <2>2 DEF Leads
  <2> QED
    BY <1>0, <1>12, <2>1, <2>3
<1>13. CASE name = "get_thumbnail_file"
  <2>1. TakenBy("get_thumbnail_file", 14)
    BY Routed
  <2>2. Leads(14, "get_thumbnail_file", {"GET"}, 4, "photos", "file")
    BY Routes
  <2>3. Server!create_app[14].name = "get_thumbnail_file"
    BY <2>2 DEF Leads
  <2> QED
    BY <1>0, <1>13, <2>1, <2>3
<1>14. CASE name = "flag_photo"
  <2>1. TakenBy("flag_photo", 15)
    BY Routed
  <2>2. Leads(15, "flag_photo", {"POST"}, 3, "photos", "flag")
    BY Routes
  <2>3. Server!create_app[15].name = "flag_photo"
    BY <2>2 DEF Leads
  <2> QED
    BY <1>0, <1>14, <2>1, <2>3
<1>15. CASE name = "moderation_queue"
  <2>1. TakenBy("moderation_queue", 16)
    BY Routed
  <2>2. Leads(16, "moderation_queue", {"GET"}, 2, "moderation", "queue")
    BY Routes
  <2>3. Server!create_app[16].name = "moderation_queue"
    BY <2>2 DEF Leads
  <2> QED
    BY <1>0, <1>15, <2>1, <2>3
<1>16. CASE name = "decide"
  <2>1. TakenBy("decide", 17)
    BY Routed
  <2>2. Leads(17, "decide", {"POST"}, 3, "moderation", "decision")
    BY Routes
  <2>3. Server!create_app[17].name = "decide"
    BY <2>2 DEF Leads
  <2> QED
    BY <1>0, <1>16, <2>1, <2>3
<1> QED
  BY <1>1, <1>2, <1>3, <1>4, <1>5, <1>6, <1>7, <1>8, <1>9, <1>10, <1>11, <1>12, <1>13,
      <1>14, <1>15, <1>16 DEF Operations

(* What GetKwargs puts into the request.                                   *)
LEMMA Kwargs ==
  ASSUME NEW op, NEW body, NEW params, NEW caller,
         request = Sdk!GetKwargs(op, body, params) @@ [caller |-> caller]
  PROVE  LET ep == Sdk!Endpoint[op] IN
         /\ request.method = ep.method /\ request.path = ep.url
             /\ request.format = ep.body
         /\ request.content = CASE ep.body = "json" -> Sdk!ToDict(body)
                                [] ep.body = "multipart" -> Sdk!ToMultipart(body)
                                [] OTHER -> Sdk!Obj(Sdk!NoFields)
         /\ request.query = IF ep.paged
                            THEN Sdk!Less(params,
                                {p \in DOMAIN params : params[p] = Sdk!Unset})
                            ELSE Sdk!NoFields
  BY DEF Sdk!GetKwargs, @@

(* A call that is not refused runs its operation on the payload it sent.   *)
LEMMA Reached ==
  ASSUME ExchangeInv, Ran
  PROVE  /\ call.op \in Operations /\ answer.op = call.op
         /\ Server!Payload(Server!Op[call.op], request) # Server!Raised
         /\ answer.got = Server!Payload(Server!Op[call.op], request).at
<1> DEFINE op == call.op
           payload == Server!Payload(Server!Op[op], request)
           takers == Server!Takes(request.method, request.path)
           name == Server!create_app[Server!First(takers)].name
<1>1. /\ stage \in {"answered", "parsed"} /\ call # None
         /\ answer.code \notin {400, 401, 403, 422, 500}
      /\ op \in Operations
  BY Endpoints DEF Ran, ExchangeInv, Calling
<1>2. PICK a \in Server!Serve(request) :
        answer.op = a.op /\ answer.code = a.code /\ answer.got = a.got
  <2>1. PICK a \in Server!Serve(request), nulls \in NullSets,
        n \in 1 .. Variants :
          answer = a @@ [doc |-> Content(a.cls, nulls, n)]
    BY <1>1 DEF ExchangeInv, Serving
  <2> QED
    BY <2>1, Answered, OnTheWire
<1>3. request.method = Sdk!Endpoint[op].method /\ request.path = Sdk!Endpoint[op].url
  <2>1. PICK caller \in {"nobody", "user", "admin"} :
          request = Sdk!GetKwargs(op, call.body, call.params) @@ [caller |-> caller]
    BY <1>1 DEF ExchangeInv, Calling
  <2> QED
    BY <2>1, Kwargs
<1>4. takers # {} /\ name = op
  BY <1>1, <1>3, FindsItsRoute
<1>5. \A n, c, k, g : LET b == Server!Answer(n, c, k, g) IN b.op = n /\ b.code = c
      /\ b.got = g
  BY DEF Server!Answer
<1>6. \A n : /\ Refusal(n, 400).code = 400 /\ Refusal(n, 401).code = 401
             /\ Refusal(n, 403).code = 403 /\ Invalid(n).code = 422
             /\ Failure(n).code = 500
  BY <1>5 DEF Refusal, Invalid, Failure
<1>7. Server!OnPath(request.path) = {} => takers = {}
  BY DEF Server!Takes
<1> HIDE DEF takers, name, op
<1>8. a \in Handled(op, request) /\ payload # Server!Raised
  BY <1>1, <1>2, <1>4, <1>6, <1>7, ServeCases DEF takers, name
<1>9. a.op = op /\ a.got = payload.at
  BY <1>1, <1>2, <1>5, <1>6, <1>8, HandlerCases DEF Handled
<1> QED
  BY <1>1, <1>2, <1>8, <1>9 DEF op

(* Words of the vocabulary that each side has its own copy of.             *)
LEMMA Shared ==
  /\ Server!Null = Null /\ Server!Raised = Raised /\ Sdk!Null = Null
  /\ Sdk!Unset = Unset /\ Sdk!Raised = Raised /\ Sdk!NoFields = NoFields
  /\ \A w : Sdk!Str(w) = Str(w) /\ Server!Num(w) = Num(w)
  BY DEF Server!Null, Server!Raised, Sdk!Null, Sdk!Unset, Sdk!Raised, Sdk!NoFields,
      Sdk!Str, Server!Num, Null, Raised, Unset, NoFields, Str, Num

(* What the paging of a call arrives as.                                   *)
LEMMA PagingArrives ==
  ASSUME NEW params \in Pagings,
         LET query == Sdk!Less(params, {p \in DOMAIN params : params[p] = Sdk!Unset})
         IN  Server!Paging(query) # Server!Raised
  PROVE  LET query == Sdk!Less(params, {p \in DOMAIN params : params[p] = Sdk!Unset})
             got == Server!Paging(query).at
         IN  \A f \in DOMAIN params :
               got[f] = IF params[f] # Unset THEN params[f]
                        ELSE Num(IF f = "limit" THEN "20" ELSE "0")
<1> DEFINE query == Sdk!Less(params, {p \in DOMAIN params : params[p] = Sdk!Unset})
<1>1. DOMAIN params = {"limit", "offset"}
  BY DEF Pagings
<1>2. /\ DOMAIN query = {p \in {"limit", "offset"} : params[p] # Unset}
      /\ \A p \in DOMAIN query : query[p] = params[p]
  BY <1>1, Shared DEF Sdk!Less
<1> HIDE DEF query
<1>3. Server!Paging(query).at =
        [limit |-> IF "limit" \in DOMAIN query THEN query.limit ELSE Num("20"),
            offset |-> IF "offset" \in DOMAIN query THEN query.offset ELSE Num("0")]
  BY Shared DEF Server!Paging, Server!Obj, query
<1> QED
  BY <1>1, <1>2, <1>3 DEF query

(* The bodies a caller may pass, and the class of each operation's.        *)
LEMMA BodyClasses ==
  /\ DOMAIN Sdk!BodyClass = {"login", "register", "decide", "flag_photo", "update_photo",
      "upload_photo"}
  /\ Sdk!BodyClass["login"] = "UserLogin" /\ Sdk!BodyClass["register"] = "UserCreate"
  /\ Sdk!BodyClass["decide"] = "DecisionCreate"
      /\ Sdk!BodyClass["flag_photo"] = "FlagCreate"
  /\ Sdk!BodyClass["update_photo"] = "PhotoUpdate"
      /\ Sdk!BodyClass["upload_photo"] = "BodyUpload"
  BY DEF Sdk!BodyClass, Sdk!:>, Sdk!@@

(* A body is an object of its class, with fields a caller can give it.     *)
LEMMA Bodied ==
  ASSUME NEW op \in DOMAIN Sdk!BodyClass, NEW body \in Arguments(op)
  PROVE  /\ body.at \in Bodies(Sdk!BodyClass[op])
         /\ body = Model(Sdk!BodyClass[op], body.at, body.more)
<1>1. PICK at \in Bodies(Sdk!BodyClass[op]) :
        body \in Extended(Model(Sdk!BodyClass[op], at, NoFields))
  BY DEF Arguments
<1>2. \A key, value : LET o == Sdk!SetItem(Model(Sdk!BodyClass[op], at, NoFields), key,
      value)
                      IN  o = Model(Sdk!BodyClass[op], at, o.more)
  BY DEF Sdk!SetItem, Model
<1>3. LET o == Model(Sdk!BodyClass[op], at, NoFields) IN o = Model(Sdk!BodyClass[op], at,
      o.more) /\ o.at = at
  BY DEF Model
<1>4. body = Model(Sdk!BodyClass[op], at, body.more)
  BY <1>1, <1>2, <1>3 DEF Extended
<1>5. body.at = at
  BY <1>4 DEF Model
<1> QED
  BY <1>1, <1>4, <1>5

(* to_dict of a body: the fields that are set, over what was put under a   *)
(* key.                                                                    *)
Simple(at) == \A f \in DOMAIN at : at[f].is \notin {"time", "model", "list"}
LEMMA Written ==
  ASSUME NEW cls, NEW at, NEW more, Simple(at)
  PROVE  LET sent == Sdk!ToDict(Model(cls, at, more)).at IN
         /\ DOMAIN sent = {f \in DOMAIN at : at[f] # Unset} \union DOMAIN more
         /\ \A f \in DOMAIN at : at[f] # Unset =>
              sent[f] = IF at[f].is = "enum" THEN Str(at[f].word) ELSE at[f]
         /\ \A f \in DOMAIN more :
              f \notin {g \in DOMAIN at : at[g] # Unset} => sent[f] = more[f]
  BY Shared DEF Sdk!ToDict, Sdk!ToDictWith, Sdk!Obj, Sdk!@@, Model, Simple

(* The fields a body has, and that its values are of simple kinds.         *)
BodyFields(cls) ==
  CASE cls \in {"UserCreate", "UserLogin"} -> {"email", "password"}
    [] cls = "DecisionCreate" -> {"decision", "note"}
    [] cls = "FlagCreate" -> {"reason", "note"}
    [] OTHER -> {"caption"}
LEMMA BodyOf ==
  ASSUME NEW cls, NEW at \in Bodies(cls)
  PROVE  DOMAIN at = BodyFields(cls) /\ Simple(at)
<1>1. \A w : /\ Str(w).is = "str" /\ Enum(w).is = "enum"
             /\ Null.is = "null" /\ Unset.is = "unset"
  BY DEF Str, Enum, Null, Unset
<1> USE DEF BodyFields, Bodies, Simple
<1>2. CASE cls \in {"UserCreate", "UserLogin"}
  <2>1. PICK e \in {Str("text"), Str("bad")},
        p \in Texts : at = [email |-> e, password |-> p]
    BY <1>2
  <2> QED
    BY <1>1, <1>2, <2>1 DEF Texts
<1>3. CASE cls = "DecisionCreate"
  <2>1. PICK w \in Sdk!ModerationDecision,
        n \in OrNone : at = [decision |-> Enum(w), note |-> n]
    BY <1>3
  <2> QED
    BY <1>1, <1>3, <2>1 DEF Texts, OrNone
<1>4. CASE cls = "FlagCreate"
  <2>1. PICK w \in Sdk!FlagReason, n \in OrNone : at = [reason |-> Enum(w), note |-> n]
    BY <1>4
  <2> QED
    BY <1>1, <1>4, <2>1 DEF Texts, OrNone
<1>5. CASE cls \notin {"UserCreate", "UserLogin", "DecisionCreate", "FlagCreate"}
  <2>1. PICK c \in OrNone : at = [caption |-> c]
    BY <1>5
  <2> QED
    BY <1>1, <1>5, <2>1 DEF Texts, OrNone
<1> QED
  BY <1>2, <1>3, <1>4, <1>5

(* The request and response models of the server, by name.                  *)
LEMMA ServerModels ==
  /\ Server!Class["UserOut"] = Server!UserOut
  /\ Server!Class["Token"] = Server!Token
  /\ Server!Class["ErrorResponse"] = Server!ErrorResponse
  /\ Server!Class["ThumbnailOut"] = Server!ThumbnailOut
  /\ Server!Class["PhotoOut"] = Server!PhotoOut
  /\ Server!Class["PhotoList"] = Server!PhotoList
  /\ Server!Class["FlagOut"] = Server!FlagOut
  /\ Server!Class["QueuePhoto"] = Server!QueuePhoto
  /\ Server!Class["QueueItem"] = Server!QueueItem
  /\ Server!Class["ModerationQueue"] = Server!ModerationQueue
  /\ Server!Class["ModerationActionOut"] = Server!ModerationActionOut
  /\ Server!Class["ValidationError"] = Server!ValidationError
  /\ Server!Class["HTTPValidationError"] = Server!HTTPValidationError
  /\ Server!Class["Healthz"] = Server!Healthz
  /\ Server!Class["Readyz"] = Server!Readyz
  /\ Server!Class["UserCreate"] = Server!UserCreate
  /\ Server!Class["UserLogin"] = Server!UserLogin
  /\ Server!Class["PhotoUpdate"] = Server!PhotoUpdate
  /\ Server!Class["FlagCreate"] = Server!FlagCreate
  /\ Server!Class["DecisionCreate"] = Server!DecisionCreate
  /\ Server!Class["Upload"] = [caption |-> Server!OptionalOrNull(Server!Text)]
  /\ DOMAIN Server!Class =
       {"UserOut", "Token", "ErrorResponse", "ThumbnailOut", "PhotoOut", "PhotoList",
           "FlagOut", "QueuePhoto", "QueueItem", "ModerationQueue", "ModerationActionOut",
           "ValidationError", "HTTPValidationError", "Healthz", "Readyz", "UserCreate",
           "UserLogin", "PhotoUpdate", "FlagCreate", "DecisionCreate", "Upload"}
  BY DEF Server!Class

(* The server's request models have the fields of the SDK's bodies.        *)
Reads(op, cls) == DOMAIN Server!Class[Server!Op[op].body] = BodyFields(cls)
LEMMA SameFields ==
  /\ Reads("login", "UserLogin") /\ Reads("register", "UserCreate")
  /\ Reads("decide", "DecisionCreate") /\ Reads("flag_photo", "FlagCreate")
  /\ Reads("update_photo", "PhotoUpdate") /\ Reads("upload_photo", "BodyUpload")
<1>1. /\ Server!Op["login"].body = "UserLogin"
         /\ Server!Op["register"].body = "UserCreate"
      /\ Server!Op["decide"].body = "DecisionCreate"
          /\ Server!Op["flag_photo"].body = "FlagCreate"
      /\ Server!Op["update_photo"].body = "PhotoUpdate"
          /\ Server!Op["upload_photo"].body = "Upload"
  BY Taken DEF Declares
<1>2. /\ DOMAIN Server!Class["UserLogin"] = {"email", "password"}
      /\ DOMAIN Server!Class["UserCreate"] = {"email", "password"}
      /\ DOMAIN Server!Class["DecisionCreate"] = {"decision", "note"}
      /\ DOMAIN Server!Class["FlagCreate"] = {"reason", "note"}
      /\ DOMAIN Server!Class["PhotoUpdate"] = {"caption"}
      /\ DOMAIN Server!Class["Upload"] = {"caption"}
  BY ServerModels DEF Server!UserLogin, Server!UserCreate, Server!DecisionCreate,
      Server!FlagCreate, Server!PhotoUpdate
<1> QED
  BY <1>1, <1>2 DEF Reads, BodyFields

(* A body that validates is its fields, null for those it does not have.   *)
LEMMA Validated ==
  ASSUME NEW cls, NEW at, Server!Validate(cls, at) # Server!Raised
  PROVE  Server!Validate(cls, at).at =
           [f \in DOMAIN Server!Class[cls] |-> IF f \in DOMAIN at THEN at[f] ELSE Null]
<1> HIDE DEF Server!Class
<1> QED
  BY Shared DEF Server!Validate, Server!Obj

(* What the body of a call arrives as.                                     *)
LEMMA JsonArrives ==
  ASSUME NEW op \in DOMAIN Sdk!BodyClass, NEW body \in Arguments(op),
         Reads(op, Sdk!BodyClass[op]),
         Server!Validate(Server!Op[op].body, Sdk!ToDict(body).at) # Server!Raised
  PROVE  LET got == Server!Validate(Server!Op[op].body, Sdk!ToDict(body).at).at
         IN  \A f \in DOMAIN body.at : got[f] = Passed(body)[f]
<1> DEFINE sent == Sdk!ToDict(body).at
           got == Server!Validate(Server!Op[op].body, sent).at
<1>1. /\ body = Model(Sdk!BodyClass[op], body.at, body.more)
      /\ DOMAIN body.at = BodyFields(Sdk!BodyClass[op]) /\ Simple(body.at)
  BY Bodied, BodyOf
<1>2. /\ DOMAIN sent = {f \in DOMAIN body.at : body.at[f] # Unset} \union DOMAIN body.more
      /\ \A f \in DOMAIN body.at : body.at[f] # Unset =>
           sent[f] = IF body.at[f].is = "enum" THEN Str(body.at[f].word) ELSE body.at[f]
      /\ \A f \in DOMAIN body.more :
           f \notin {g \in DOMAIN body.at : body.at[g] # Unset} => sent[f] = body.more[f]
  BY <1>1, Written
<1> HIDE DEF sent
<1>3. got = [f \in DOMAIN body.at |-> IF f \in DOMAIN sent THEN sent[f] ELSE Null]
  BY <1>1, Validated DEF Reads, sent
<1> HIDE DEF got
<1>4. \A f \in DOMAIN body.at : got[f] = Passed(body)[f]
  BY <1>2, <1>3 DEF Passed
<1> QED
  BY <1>4 DEF got, sent

(* The form of an upload arrives as passed, but for a caption of None.     *)
LEMMA FormArrives ==
  ASSUME NEW body \in Arguments("upload_photo"), "caption" \notin DOMAIN body.more,
         Server!Validate("Upload", Sdk!ToMultipart(body).at) # Server!Raised
  PROVE  LET got == Server!Validate("Upload", Sdk!ToMultipart(body).at).at
         IN  \A f \in DOMAIN body.at : got[f] = Passed(body)[f] \/ body.at[f] = Null
<1> DEFINE sent == Sdk!ToMultipart(body).at
           got == Server!Validate("Upload", sent).at
<1>1. DOMAIN body.at = {"caption"} /\ body.at.caption \in OrNone
  <2>1. body.at \in Bodies("BodyUpload")
    BY Bodied, BodyClasses
  <2>2. PICK c \in OrNone : body.at = [caption |-> c]
    BY <2>1 DEF Bodies
  <2> QED
    BY <2>2
<1>2. /\ "caption" \in DOMAIN sent <=> body.at.caption # Unset
      /\ body.at.caption \notin {Unset, Null} => sent["caption"] = body.at.caption
  <2> DEFINE parts == IF body.at.caption = Unset THEN NoFields
                      ELSE [f \in {"caption"} |->
                              IF body.at.caption = Null THEN Str("None") ELSE body.at.caption]
  <2>1. sent = Sdk!@@(body.more, parts)
    BY Shared DEF Sdk!ToMultipart, Sdk!Obj
  <2>2. /\ "caption" \in DOMAIN parts <=> body.at.caption # Unset
        /\ body.at.caption \notin {Unset, Null} => parts["caption"] = body.at.caption
    BY DEF NoFields
  <2> HIDE DEF parts, sent
  <2> QED
    BY <2>1, <2>2 DEF Sdk!@@
<1> HIDE DEF sent
<1>3. DOMAIN Server!Class["Upload"] = {"caption"}
  BY SameFields, BodyClasses, Taken DEF Reads, BodyFields, Declares
<1>4. got = [f \in {"caption"} |-> IF f \in DOMAIN sent THEN sent[f] ELSE Null]
  BY <1>3, Validated DEF sent
<1> HIDE DEF got
<1>5. body.at.caption.is # "enum"
  BY <1>1 DEF OrNone, Texts, Str, Null, Unset
<1>6. got["caption"] = Passed(body)["caption"] \/ body.at["caption"] = Null
  BY <1>1, <1>2, <1>4, <1>5 DEF Passed
<1> QED
  BY <1>1, <1>6 DEF got, sent

(* The payload of an operation that a call reached, by the kind of its     *)
(* parameters.                                                             *)
LEMMA Payloads ==
  ASSUME NEW op, NEW r, Server!Payload(op, r) # Server!Raised
  PROVE  Server!Payload(op, r) = IF op.paged THEN Server!Paging(r.query)
                                 ELSE IF op.format = "none" THEN Server!Obj(Server!NoFields)
                                 ELSE Server!Validate(op.body, r.content.at)
  BY DEF Server!Payload

(* A call that was not refused got its arguments across.                   *)
LEMMA Arriving == ASSUME ExchangeInv, Ran PROVE ArgumentsArrive
<1> DEFINE op == call.op
           ep == Sdk!Endpoint[op]
           payload == Server!Payload(Server!Op[op], request)
<1>1. /\ op \in Operations /\ answer.op = op
      /\ payload # Server!Raised /\ answer.got = payload.at
  BY Reached
<1>2. /\ call.body \in Arguments(op)
      /\ call.params \in IF ep.paged THEN Pagings ELSE {NoFields}
      /\ \E caller \in {"nobody", "user", "admin"} :
           request = Sdk!GetKwargs(op, call.body, call.params) @@ [caller |-> caller]
  BY DEF Ran, ExchangeInv, Calling
<1>3. /\ request.content = CASE ep.body = "json" -> Sdk!ToDict(call.body)
                              [] ep.body = "multipart" -> Sdk!ToMultipart(call.body)
                              [] OTHER -> Sdk!Obj(Sdk!NoFields)
      /\ request.query = IF ep.paged
                         THEN Sdk!Less(call.params,
                                {p \in DOMAIN call.params : call.params[p] = Sdk!Unset})
                         ELSE Sdk!NoFields
  <2>1. PICK caller \in {"nobody", "user", "admin"} :
          request = Sdk!GetKwargs(op, call.body, call.params) @@ [caller |-> caller]
    BY <1>2
  <2> QED
    BY <2>1, Kwargs
<1>4. payload = IF Server!Op[op].paged THEN Server!Paging(request.query)
                ELSE IF Server!Op[op].format = "none" THEN Server!Obj(Server!NoFields)
                ELSE Server!Validate(Server!Op[op].body, request.content.at)
  BY <1>1, Payloads
<1>5. (ep.paged <=> Server!Op[op].paged) /\ ep.body = Server!Op[op].format
      /\ (op \in DOMAIN Sdk!BodyClass => ~ep.paged /\ ep.body # "none")
  <2>1. \A n \in Operations : Sdk!Endpoint[n].paged <=> n \in {"list_photos",
        "moderation_queue"}
    BY Requested DEF Operations, Calls
  <2>2. \A n \in Operations : Server!Op[n].paged <=> n \in {"list_photos",
        "moderation_queue"}
    BY Taken DEF Operations, Declares
  <2>3. \A n \in Operations :
          Sdk!Endpoint[n].body = IF n = "upload_photo" THEN "multipart"
                                 ELSE IF n \in DOMAIN Sdk!BodyClass THEN "json" ELSE "none"
    BY Requested, BodyClasses DEF Operations, Calls
  <2>4. \A n \in Operations :
          Server!Op[n].format = IF n = "upload_photo" THEN "multipart"
                                ELSE IF n \in DOMAIN Sdk!BodyClass THEN "json" ELSE "none"
    BY Taken, BodyClasses DEF Operations, Declares
  <2>5. DOMAIN Sdk!BodyClass \intersect {"list_photos", "moderation_queue"} = {}
    BY BodyClasses
  <2> QED
    BY <1>1, <2>1, <2>2, <2>3, <2>4, <2>5
<1> HIDE DEF op, ep, payload
<1>6. call.body # Null /\ ~Duplicated =>
        \A f \in DOMAIN call.body.at :
          \/ answer.got[f] = Passed(call.body)[f]
          \/ op = "upload_photo" /\ call.body.at[f] = Null
  <2> SUFFICES ASSUME call.body # Null, ~Duplicated,
                      NEW f \in DOMAIN call.body.at
               PROVE  \/ answer.got[f] = Passed(call.body)[f]
                      \/ op = "upload_photo" /\ call.body.at[f] = Null
    OBVIOUS
  <2>1. op \in DOMAIN Sdk!BodyClass
    BY <1>2 DEF Arguments
  <2>2. payload = Server!Validate(Server!Op[op].body, request.content.at)
    BY <1>4, <1>5, <2>1
  <2>3. CASE op = "upload_photo"
    <3>1. ep.body = "multipart" /\ Server!Op[op].body = "Upload"
      BY <1>5, <2>3, Taken DEF Declares
    <3>2. payload = Server!Validate("Upload", Sdk!ToMultipart(call.body).at)
      BY <1>3, <2>2, <3>1
    <3>3. "caption" \notin DOMAIN call.body.more
      BY <2>3 DEF Duplicated, op
    <3> QED
      BY <1>1, <1>2, <2>3, <3>2, <3>3, FormArrives
  <2>4. CASE op # "upload_photo"
    <3>1. ep.body = "json" /\ Reads(op, Sdk!BodyClass[op])
      BY <1>5, <2>1, <2>4, BodyClasses, SameFields, Taken DEF Declares
    <3>2. payload = Server!Validate(Server!Op[op].body, Sdk!ToDict(call.body).at)
      BY <1>3, <2>2, <3>1
    <3> QED
      BY <1>1, <1>2, <2>1, <3>1, <3>2, JsonArrives
  <2> QED
    BY <2>3, <2>4
<1>7. \A f \in DOMAIN call.params :
        answer.got[f] = IF call.params[f] # Unset THEN call.params[f]
                        ELSE Num(IF f = "limit" THEN "20" ELSE "0")
  <2>1. CASE ep.paged
    BY <1>1, <1>2, <1>3, <1>4, <1>5, <2>1, PagingArrives
  <2>2. CASE ~ep.paged
    BY <1>2, <2>2 DEF NoFields
  <2> QED
    BY <2>1, <2>2
<1> QED
  BY <1>1, <1>6, <1>7 DEF ArgumentsArrive, op

(* A call runs the operation it is named for, on the arguments it was      *)
(* given (the SDK's generated functions and their signatures).             *)
THEOREM ArgumentsReachHandler == Spec => []ArgumentsArrive
<1>1. ExchangeInv => ArgumentsArrive
  BY Arriving DEF ArgumentsArrive
<1> QED
  BY <1>1, ExchangeInvHolds, PTL

-----------------------------------------------------------------------------
(* The depths of documents, objects and comparisons, as numbers.           *)
DocAt(k, cls, nulls, n) ==
  IF k = 1 THEN Server!PartDocument(cls, nulls, n)
  ELSE IF k = 2 THEN Server!RowDocument(cls, nulls, n)
  ELSE IF k = 3 THEN Server!Document(cls, nulls, n) ELSE Server!NoDocument(cls, nulls, n)
FromAt(k, cls, doc) ==
  IF k = 1 THEN Sdk!PartFromDict(cls, doc)
  ELSE IF k = 2 THEN Sdk!RowFromDict(cls, doc)
  ELSE IF k = 3 THEN Sdk!FromDict(cls, doc) ELSE Sdk!NoModel(cls, doc)
ToAt(k, object) ==
  IF k = 1 THEN Sdk!PartToDict(object)
  ELSE IF k = 2 THEN Sdk!RowToDict(object)
  ELSE IF k = 3 THEN Sdk!ToDict(object) ELSE Sdk!AsIs(object)
SameAt(j, v, w) ==
  IF j = 1 THEN SameValue(v, w)
  ELSE IF j = 2 THEN SamePart(v, w)
  ELSE IF j = 3 THEN SameRow(v, w)
  ELSE IF j = 4 THEN SameRows(v, w)
  ELSE IF j = 5 THEN SameDoc(v, w) ELSE Differ(v, w)

(* What the server writes for a field.                                     *)
WrittenFor(k, f, field, nulls, n, v) ==
  IF field.null /\ f \in nulls THEN v = Null
  ELSE /\ field.kind.of = "number" => v = Num(f)
       /\ field.kind.of = "time" => v = Str("noonZ")
       /\ field.kind.of = "enum" => v = Str(Server!Pick(field.kind.words, n))
       /\ field.kind.of = "model" => v = DocAt(k - 1, field.kind.cls, nulls, n)
       /\ field.kind.of = "list" =>
            /\ v.is = "list" /\ DOMAIN v.items = 1 .. (n - 1) /\ Len(v.items) = n - 1
            /\ \A i \in 1 .. (n - 1) : v.items[i] = DocAt(k - 1, field.kind.cls, nulls,
                n + i)
       /\ field.kind.of \notin {"number", "time", "enum", "model", "list"} => v = Str(f)

(* More words of which each side has its own copy.                         *)
LEMMA SharedToo ==
  /\ \A w : /\ Server!Str(w) = Str(w) /\ Sdk!Str(w) = Str(w)
            /\ Sdk!Time(w) = Time(w) /\ Sdk!Enum(w) = Enum(w)
            /\ Server!Obj(w) = Obj(w) /\ Sdk!Obj(w) = Obj(w)
            /\ Server!List(w) = List(w) /\ Sdk!List(w) = List(w)
  /\ \A c, a, m : Sdk!Model(c, a, m) = Model(c, a, m)
  /\ Sdk!Instant = Instant /\ Sdk!IsoFormat = IsoFormat
  BY DEF Server!Str, Sdk!Str, Str, Sdk!Time, Time, Sdk!Enum, Enum, Server!Obj, Sdk!Obj,
      Obj, Server!List, Sdk!List, List, Sdk!Model, Model, Sdk!Instant, Instant,
      Sdk!IsoFormat, IsoFormat, :>, @@, Sdk!:>, Sdk!@@

(* A function on 1..m is a sequence of length m.                           *)
LEMMA ItemsCounted ==
  ASSUME NEW m \in Nat, NEW s, s = [i \in 1 .. m |-> s[i]]
  PROVE  Len(s) = m
<1>1. s \in Seq({s[i] : i \in 1 .. m})
  OBVIOUS
<1> QED
  BY <1>1

(* The server writes each field of a class as its kind says.               *)
LEMMA Documents ==
  ASSUME NEW k \in 1 .. 3, NEW cls, NEW nulls, NEW n \in Nat \ {0}
  PROVE  LET doc == DocAt(k, cls, nulls, n)
             fields == Server!Class[cls]
         IN  /\ doc.is = "obj" /\ DOMAIN doc.at = DOMAIN fields
             /\ \A f \in DOMAIN fields : WrittenFor(k, f, fields[f], nulls, n, doc.at[f])
<1> DEFINE doc == DocAt(k, cls, nulls, n)
           fields == Server!Class[cls]
<1>0. k = 1 \/ k = 2 \/ k = 3
  OBVIOUS
<1> DEFINE Shown(f) == ~(fields[f].null /\ f \in nulls)
           Scalar(f) ==
             LET field == fields[f] IN
             /\ ~Shown(f) => doc.at[f] = Null
             /\ Shown(f) =>
                  /\ field.kind.of = "number" => doc.at[f] = Num(f)
                  /\ field.kind.of = "time" => doc.at[f] = Str("noonZ")
                  /\ field.kind.of = "enum" => doc.at[f] = Str(Server!Pick(field.kind.words, n))
                  /\ field.kind.of \notin {"number", "time", "enum", "model",
                      "list"} => doc.at[f] = Str(f)
           Nests(f) ==
             Shown(f) /\ fields[f].kind.of = "model" =>
               doc.at[f] = DocAt(k - 1, fields[f].kind.cls, nulls, n)
           Lists(f) ==
             LET items == doc.at[f].items IN
             Shown(f) /\ fields[f].kind.of = "list" =>
               /\ doc.at[f].is = "list" /\ items = [i \in 1 .. (n - 1) |-> items[i]]
               /\ \A i \in 1 .. (n - 1) : items[i] = DocAt(k - 1, fields[f].kind.cls,
                   nulls, n + i)
<1>2. /\ doc.is = "obj" /\ DOMAIN doc.at = DOMAIN fields
      /\ \A f \in DOMAIN fields : Scalar(f) /\ Nests(f) /\ Lists(f)
  <2>1. CASE k = 1
    <3>1. doc = Server!DocumentWith(Server!NoDocument, cls, nulls, n)
      BY <2>1 DEF DocAt, Server!PartDocument
    <3>2. \A c, m : DocAt(k - 1, c, nulls, m) = Server!NoDocument(c, nulls, m)
      BY <2>1 DEF DocAt
    <3> HIDE DEF fields, doc
    <3>3. doc.is = "obj" /\ DOMAIN doc.at = DOMAIN fields
      BY <3>1 DEF Server!DocumentWith, Server!Obj, fields
    <3>4. ASSUME NEW f \in DOMAIN fields PROVE Scalar(f)
      BY <3>1, Shared, SharedToo DEF Server!DocumentWith, Server!Obj, fields
    <3>5. ASSUME NEW f \in DOMAIN fields PROVE Nests(f)
      BY <3>1, <3>2 DEF Server!DocumentWith, Server!Obj, fields
    <3>6. ASSUME NEW f \in DOMAIN fields PROVE Lists(f)
      BY <3>1, <3>2 DEF Server!DocumentWith, Server!Obj, Server!List, fields
    <3> QED
      BY <3>3, <3>4, <3>5, <3>6
  <2>2. CASE k = 2
    <3>1. doc = Server!DocumentWith(Server!PartDocument, cls, nulls, n)
      BY <2>2 DEF DocAt, Server!RowDocument
    <3>2. \A c, m : DocAt(k - 1, c, nulls, m) = Server!PartDocument(c, nulls, m)
      BY <2>2 DEF DocAt
    <3> HIDE DEF fields, doc
    <3>3. doc.is = "obj" /\ DOMAIN doc.at = DOMAIN fields
      BY <3>1 DEF Server!DocumentWith, Server!Obj, fields
    <3>4. ASSUME NEW f \in DOMAIN fields PROVE Scalar(f)
      BY <3>1, Shared, SharedToo DEF Server!DocumentWith, Server!Obj, fields
    <3>5. ASSUME NEW f \in DOMAIN fields PROVE Nests(f)
      BY <3>1, <3>2 DEF Server!DocumentWith, Server!Obj, fields
    <3>6. ASSUME NEW f \in DOMAIN fields PROVE Lists(f)
      BY <3>1, <3>2 DEF Server!DocumentWith, Server!Obj, Server!List, fields
    <3> QED
      BY <3>3, <3>4, <3>5, <3>6
  <2>3. CASE k = 3
    <3>1. doc = Server!DocumentWith(Server!RowDocument, cls, nulls, n)
      BY <2>3 DEF DocAt, Server!Document
    <3>2. \A c, m : DocAt(k - 1, c, nulls, m) = Server!RowDocument(c, nulls, m)
      BY <2>3 DEF DocAt
    <3> HIDE DEF fields, doc
    <3>3. doc.is = "obj" /\ DOMAIN doc.at = DOMAIN fields
      BY <3>1 DEF Server!DocumentWith, Server!Obj, fields
    <3>4. ASSUME NEW f \in DOMAIN fields PROVE Scalar(f)
      BY <3>1, Shared, SharedToo DEF Server!DocumentWith, Server!Obj, fields
    <3>5. ASSUME NEW f \in DOMAIN fields PROVE Nests(f)
      BY <3>1, <3>2 DEF Server!DocumentWith, Server!Obj, fields
    <3>6. ASSUME NEW f \in DOMAIN fields PROVE Lists(f)
      BY <3>1, <3>2 DEF Server!DocumentWith, Server!Obj, Server!List, fields
    <3> QED
      BY <3>3, <3>4, <3>5, <3>6
  <2> QED
    BY <1>0, <2>1, <2>2, <2>3
<1> HIDE DEF fields, doc
<1>3. ASSUME NEW f \in DOMAIN fields
      PROVE  WrittenFor(k, f, fields[f], nulls, n, doc.at[f])
  <2> DEFINE items == doc.at[f].items
  <2>1. ASSUME Shown(f), fields[f].kind.of = "list"
        PROVE  DOMAIN items = 1 .. (n - 1) /\ Len(items) = n - 1
    <3>1. items = [i \in 1 .. (n - 1) |-> items[i]] /\ n - 1 \in Nat
      BY <1>2, <2>1
    <3> HIDE DEF items
    <3> QED
      BY <3>1, ItemsCounted
  <2> QED
    BY <1>2, <2>1 DEF WrittenFor
<1> QED
  BY <1>2, <1>3 DEF fields, doc

(* What from_dict makes of the value of a field, and when it makes         *)
(* something of it.                                                        *)
Readable(k, field, v) ==
  /\ v # Raised /\ v # Unset
  /\ \/ field.null /\ v = Null
     \/ /\ field.kind.of = "time" => v.is = "str" /\ v.word \in DOMAIN Instant
        /\ field.kind.of = "enum" => v.is = "str" /\ v.word \in field.kind.words
        /\ field.kind.of = "model" => FromAt(k - 1, field.kind.cls, v) # Raised
        /\ field.kind.of = "list" =>
             /\ v.is = "list"
             /\ \A i \in DOMAIN v.items : FromAt(k - 1, field.kind.cls,
                 v.items[i]) # Raised
ReadAs(k, field, v, w) ==
  IF field.null /\ v = Null THEN w = Null
  ELSE /\ field.kind.of = "time" => w = Time(Instant[v.word])
       /\ field.kind.of = "enum" => w = Enum(v.word)
       /\ field.kind.of = "model" => w = FromAt(k - 1, field.kind.cls, v)
       /\ field.kind.of = "list" =>
            /\ w.is = "list" /\ DOMAIN w.items = DOMAIN v.items
            /\ \A i \in DOMAIN v.items : w.items[i] = FromAt(k - 1, field.kind.cls,
                v.items[i])
       /\ field.kind.of \notin {"time", "enum", "model", "list"} => w = v

(* The conversion of a field, from what it holds nested.                   *)
Converted(field, v, object, objects) ==
  LET kind == field.kind
      got == CASE kind.of = "time" ->
                    IF v.is = "str" /\ v.word \in DOMAIN Sdk!Instant
                    THEN Sdk!Time(Sdk!Instant[v.word]) ELSE Sdk!Raised
               [] kind.of = "enum" ->
                    IF v.is = "str" /\ v.word \in kind.words
                    THEN Sdk!Enum(v.word) ELSE Sdk!Raised
               [] kind.of = "model" -> object
               [] kind.of = "list" ->
                    IF v.is = "list"
                    THEN IF \E i \in DOMAIN v.items : objects[i] = Sdk!Raised
                         THEN Sdk!Raised ELSE Sdk!List(objects)
                    ELSE Sdk!Raised
               [] OTHER -> v
  IN  IF field.null /\ (v = Sdk!Null \/ got = Sdk!Raised) THEN v ELSE got

(* A value that can be read is.                                            *)
LEMMA Conversion ==
  ASSUME NEW k, NEW field, NEW v, Readable(k, field, v), NEW objects,
         DOMAIN objects = DOMAIN v.items,
         \A i \in DOMAIN v.items : objects[i] = FromAt(k - 1, field.kind.cls, v.items[i])
  PROVE  LET w == Converted(field, v, FromAt(k - 1, field.kind.cls, v), objects) IN
         w # Raised /\ ReadAs(k, field, v, w)
<1> DEFINE kind == field.kind
           w == Converted(field, v, FromAt(k - 1, kind.cls, v), objects)
<1>1. CASE field.null /\ v = Null
  <2>1. w = v
    BY <1>1, Shared DEF Converted
  <2> QED
    BY <1>1, <2>1 DEF Readable, ReadAs
<1>2. CASE ~(field.null /\ v = Null)
  <2>1. kind.of = "time" => w = Time(Instant[v.word])
    BY <1>2, Shared, SharedToo DEF Readable, Converted, Raised, Time
  <2>2. kind.of = "enum" => w = Enum(v.word)
    BY <1>2, Shared, SharedToo DEF Readable, Converted, Raised, Enum
  <2>3. kind.of = "model" => w = FromAt(k - 1, kind.cls, v) /\ w # Raised
    BY <1>2, Shared DEF Readable, Converted
  <2>4. kind.of = "list" => w = List(objects)
    BY <1>2, Shared, SharedToo DEF Readable, Converted, Raised, List
  <2>5. kind.of \notin {"time", "enum", "model", "list"} => w = v
    BY <1>2, Shared DEF Readable, Converted
  <2>6. List(objects).is = "list" /\ List(objects).items = objects
    BY DEF List
  <2>7. \A t : Time(t) # Raised /\ Enum(t) # Raised /\ List(t) # Raised
    BY DEF Time, Enum, List, Raised
  <2> HIDE DEF w
  <2>8. kind.of = "list" =>
          /\ w.is = "list" /\ DOMAIN w.items = DOMAIN v.items
          /\ \A i \in DOMAIN v.items : w.items[i] = FromAt(k - 1, kind.cls, v.items[i])
    BY <2>4, <2>6
  <2>9. v # Raised
    BY DEF Readable
  <2> HIDE DEF kind
  <2>10. w # Raised
    BY <2>1, <2>2, <2>3, <2>4, <2>5, <2>7, <2>9
  <2>11. ReadAs(k, field, v, w)
    BY <1>2, <2>1, <2>2, <2>3, <2>5, <2>8 DEF ReadAs, kind
  <2> QED
    BY <2>10, <2>11 DEF w, kind
<1> QED
  BY <1>1, <1>2

(* from_dict makes an object of a document with readable required fields.  *)
LEMMA Built ==
  ASSUME NEW k \in 1 .. 3, NEW cls, NEW doc, doc.is = "obj",
         DOMAIN Sdk!Class[cls] \subseteq DOMAIN doc.at,
         \A f \in DOMAIN Sdk!Class[cls] : Readable(k, Sdk!Class[cls][f], doc.at[f])
  PROVE  LET o == FromAt(k, cls, doc) IN
         /\ o.is = "model" /\ o.cls = cls
         /\ DOMAIN o.at = DOMAIN Sdk!Class[cls]
         /\ \A f \in DOMAIN o.at : ReadAs(k, Sdk!Class[cls][f], doc.at[f], o.at[f])
         /\ o.more = Sdk!Less(doc.at, DOMAIN Sdk!Class[cls])
<1> DEFINE fields == Sdk!Class[cls]
           o == FromAt(k, cls, doc)
<1>0. k = 1 \/ k = 2 \/ k = 3
  OBVIOUS
<1>1. \A c, a, m : LET w == Model(c, a, m) IN
        w.is = "model" /\ w.cls = c /\ w.at = a /\ w.more = m
  BY DEF Model
<1>2. CASE k = 1
  <2> DEFINE Objects(f) == [i \in DOMAIN doc.at[f].items |->
                           Sdk!NoModel(fields[f].kind.cls, doc.at[f].items[i])]
             at == [f \in DOMAIN fields |->
                      IF f \notin DOMAIN doc.at
                      THEN IF fields[f].req THEN Sdk!Raised ELSE Sdk!Unset
                      ELSE Converted(fields[f], doc.at[f],
                          Sdk!NoModel(fields[f].kind.cls, doc.at[f]), Objects(f))]
  <2>1. o = IF doc.is # "obj" THEN Sdk!Raised
            ELSE IF \E f \in DOMAIN at : at[f] = Sdk!Raised THEN Sdk!Raised
            ELSE Sdk!Model(cls, at, Sdk!Less(doc.at, DOMAIN fields))
    BY <1>2 DEF FromAt, Sdk!PartFromDict, Sdk!FromDictWith, Converted
  <2>2. \A c, d : FromAt(k - 1, c, d) = Sdk!NoModel(c, d)
    BY <1>2 DEF FromAt
  <2>3. ASSUME NEW f \in DOMAIN fields
        PROVE  at[f] # Raised /\ ReadAs(k, fields[f], doc.at[f], at[f])
    <3> DEFINE objects == Objects(f)
    <3>1. /\ DOMAIN objects = DOMAIN doc.at[f].items
          /\ \A i \in DOMAIN doc.at[f].items :
               objects[i] = FromAt(k - 1, fields[f].kind.cls, doc.at[f].items[i])
      BY <2>2
    <3>2. at[f] = Converted(fields[f], doc.at[f],
          FromAt(k - 1, fields[f].kind.cls, doc.at[f]), objects)
      BY <2>2
    <3>3. Readable(k, fields[f], doc.at[f])
      OBVIOUS
    <3> HIDE DEF objects, fields, at
    <3> QED
      BY <3>1, <3>2, <3>3, Conversion
  <2>4. DOMAIN at = DOMAIN fields
    OBVIOUS
  <2> HIDE DEF o, fields, at
  <2> QED
    BY <1>1, <2>1, <2>3, <2>4, Shared, SharedToo DEF o, fields
<1>3. CASE k = 2
  <2> DEFINE Objects(f) == [i \in DOMAIN doc.at[f].items |->
                           Sdk!PartFromDict(fields[f].kind.cls, doc.at[f].items[i])]
             at == [f \in DOMAIN fields |->
                      IF f \notin DOMAIN doc.at
                      THEN IF fields[f].req THEN Sdk!Raised ELSE Sdk!Unset
                      ELSE Converted(fields[f], doc.at[f],
                          Sdk!PartFromDict(fields[f].kind.cls, doc.at[f]), Objects(f))]
  <2>1. o = IF doc.is # "obj" THEN Sdk!Raised
            ELSE IF \E f \in DOMAIN at : at[f] = Sdk!Raised THEN Sdk!Raised
            ELSE Sdk!Model(cls, at, Sdk!Less(doc.at, DOMAIN fields))
    BY <1>3 DEF FromAt, Sdk!RowFromDict, Sdk!FromDictWith, Converted
  <2>2. \A c, d : FromAt(k - 1, c, d) = Sdk!PartFromDict(c, d)
    BY <1>3 DEF FromAt
  <2>3. ASSUME NEW f \in DOMAIN fields
        PROVE  at[f] # Raised /\ ReadAs(k, fields[f], doc.at[f], at[f])
    <3> DEFINE objects == Objects(f)
    <3>1. /\ DOMAIN objects = DOMAIN doc.at[f].items
          /\ \A i \in DOMAIN doc.at[f].items :
               objects[i] = FromAt(k - 1, fields[f].kind.cls, doc.at[f].items[i])
      BY <2>2
    <3>2. at[f] = Converted(fields[f], doc.at[f],
          FromAt(k - 1, fields[f].kind.cls, doc.at[f]), objects)
      BY <2>2
    <3>3. Readable(k, fields[f], doc.at[f])
      OBVIOUS
    <3> HIDE DEF objects, fields, at
    <3> QED
      BY <3>1, <3>2, <3>3, Conversion
  <2>4. DOMAIN at = DOMAIN fields
    OBVIOUS
  <2> HIDE DEF o, fields, at
  <2> QED
    BY <1>1, <2>1, <2>3, <2>4, Shared, SharedToo DEF o, fields
<1>4. CASE k = 3
  <2> DEFINE Objects(f) == [i \in DOMAIN doc.at[f].items |->
                           Sdk!RowFromDict(fields[f].kind.cls, doc.at[f].items[i])]
             at == [f \in DOMAIN fields |->
                      IF f \notin DOMAIN doc.at
                      THEN IF fields[f].req THEN Sdk!Raised ELSE Sdk!Unset
                      ELSE Converted(fields[f], doc.at[f],
                          Sdk!RowFromDict(fields[f].kind.cls, doc.at[f]), Objects(f))]
  <2>1. o = IF doc.is # "obj" THEN Sdk!Raised
            ELSE IF \E f \in DOMAIN at : at[f] = Sdk!Raised THEN Sdk!Raised
            ELSE Sdk!Model(cls, at, Sdk!Less(doc.at, DOMAIN fields))
    BY <1>4 DEF FromAt, Sdk!FromDict, Sdk!FromDictWith, Converted
  <2>2. \A c, d : FromAt(k - 1, c, d) = Sdk!RowFromDict(c, d)
    BY <1>4 DEF FromAt
  <2>3. ASSUME NEW f \in DOMAIN fields
        PROVE  at[f] # Raised /\ ReadAs(k, fields[f], doc.at[f], at[f])
    <3> DEFINE objects == Objects(f)
    <3>1. /\ DOMAIN objects = DOMAIN doc.at[f].items
          /\ \A i \in DOMAIN doc.at[f].items :
               objects[i] = FromAt(k - 1, fields[f].kind.cls, doc.at[f].items[i])
      BY <2>2
    <3>2. at[f] = Converted(fields[f], doc.at[f],
          FromAt(k - 1, fields[f].kind.cls, doc.at[f]), objects)
      BY <2>2
    <3>3. Readable(k, fields[f], doc.at[f])
      OBVIOUS
    <3> HIDE DEF objects, fields, at
    <3> QED
      BY <3>1, <3>2, <3>3, Conversion
  <2>4. DOMAIN at = DOMAIN fields
    OBVIOUS
  <2> HIDE DEF o, fields, at
  <2> QED
    BY <1>1, <2>1, <2>3, <2>4, Shared, SharedToo DEF o, fields
<1> QED
  BY <1>0, <1>2, <1>3, <1>4

(* What to_dict writes for the value of a field.                           *)
WrittenAs(k, w, v) ==
  /\ w.is = "time" => v = Str(IsoFormat[w.instant])
  /\ w.is = "enum" => v = Str(w.word)
  /\ w.is = "model" => v = ToAt(k - 1, w)
  /\ w.is = "list" =>
       /\ v.is = "list" /\ v.items = [i \in DOMAIN w.items |-> v.items[i]]
       /\ \A i \in DOMAIN w.items : v.items[i] = ToAt(k - 1, w.items[i])
  /\ w.is \notin {"time", "enum", "model", "list"} => v = w

(* to_dict writes every field that is set, and the additional properties.  *)
LEMMA Dicts ==
  ASSUME NEW k \in 1 .. 3, NEW o, \A f \in DOMAIN o.at : o.at[f] # Unset
  PROVE  LET doc == ToAt(k, o) IN
         /\ doc.is = "obj" /\ DOMAIN doc.at = DOMAIN o.at \union DOMAIN o.more
         /\ \A f \in DOMAIN o.at : WrittenAs(k, o.at[f], doc.at[f])
         /\ \A f \in DOMAIN o.more \ DOMAIN o.at : doc.at[f] = o.more[f]
<1> DEFINE doc == ToAt(k, o)
<1>0. k = 1 \/ k = 2 \/ k = 3
  OBVIOUS
<1>1. CASE k = 1
  <2>1. doc = Sdk!ToDictWith(Sdk!AsIs, o)
    BY <1>1 DEF ToAt, Sdk!PartToDict
  <2>2. \A w : ToAt(k - 1, w) = Sdk!AsIs(w)
    BY <1>1 DEF ToAt
  <2> HIDE DEF doc
  <2>3. /\ doc.is = "obj" /\ DOMAIN doc.at = DOMAIN o.at \union DOMAIN o.more
        /\ \A f \in DOMAIN o.more \ DOMAIN o.at : doc.at[f] = o.more[f]
    BY <2>1, Shared DEF Sdk!ToDictWith, Sdk!Obj, Sdk!@@
  <2>4. ASSUME NEW f \in DOMAIN o.at
        PROVE  WrittenAs(k, o.at[f], doc.at[f])
    BY <2>1, <2>2, Shared, SharedToo DEF Sdk!ToDictWith, Sdk!Obj, Sdk!@@, Sdk!List,
        WrittenAs
  <2> QED
    BY <2>3, <2>4 DEF doc
<1>2. CASE k = 2
  <2>1. doc = Sdk!ToDictWith(Sdk!PartToDict, o)
    BY <1>2 DEF ToAt, Sdk!RowToDict
  <2>2. \A w : ToAt(k - 1, w) = Sdk!PartToDict(w)
    BY <1>2 DEF ToAt
  <2> HIDE DEF doc
  <2>3. /\ doc.is = "obj" /\ DOMAIN doc.at = DOMAIN o.at \union DOMAIN o.more
        /\ \A f \in DOMAIN o.more \ DOMAIN o.at : doc.at[f] = o.more[f]
    BY <2>1, Shared DEF Sdk!ToDictWith, Sdk!Obj, Sdk!@@
  <2>4. ASSUME NEW f \in DOMAIN o.at
        PROVE  WrittenAs(k, o.at[f], doc.at[f])
    BY <2>1, <2>2, Shared, SharedToo DEF Sdk!ToDictWith, Sdk!Obj, Sdk!@@, Sdk!List,
        WrittenAs
  <2> QED
    BY <2>3, <2>4 DEF doc
<1>3. CASE k = 3
  <2>1. doc = Sdk!ToDictWith(Sdk!RowToDict, o)
    BY <1>3 DEF ToAt, Sdk!ToDict
  <2>2. \A w : ToAt(k - 1, w) = Sdk!RowToDict(w)
    BY <1>3 DEF ToAt
  <2> HIDE DEF doc
  <2>3. /\ doc.is = "obj" /\ DOMAIN doc.at = DOMAIN o.at \union DOMAIN o.more
        /\ \A f \in DOMAIN o.more \ DOMAIN o.at : doc.at[f] = o.more[f]
    BY <2>1, Shared DEF Sdk!ToDictWith, Sdk!Obj, Sdk!@@
  <2>4. ASSUME NEW f \in DOMAIN o.at
        PROVE  WrittenAs(k, o.at[f], doc.at[f])
    BY <2>1, <2>2, Shared, SharedToo DEF Sdk!ToDictWith, Sdk!Obj, Sdk!@@, Sdk!List,
        WrittenAs
  <2> QED
    BY <2>3, <2>4 DEF doc
<1> QED
  BY <1>0, <1>1, <1>2, <1>3

(* What two documents have in common that say the same.                    *)
LEMMA Comparisons ==
  ASSUME NEW j \in 1 .. 5, NEW v, NEW w, v.is = w.is
  PROVE  /\ v = w /\ v.is \in {"null", "str", "num"} => SameAt(j, v, w)
         /\ /\ v.is = "str" /\ {v.word, w.word} \subseteq DOMAIN Instant
            /\ Instant[v.word] = Instant[w.word]
            => SameAt(j, v, w)
         /\ /\ v.is = "obj" /\ DOMAIN v.at = DOMAIN w.at
            /\ \A f \in DOMAIN v.at : SameAt(j - 1, v.at[f], w.at[f])
            => SameAt(j, v, w)
         /\ /\ v.is = "list" /\ Len(v.items) = Len(w.items)
            /\ \A i \in DOMAIN v.items : SameAt(j - 1, v.items[i], w.items[i])
            => SameAt(j, v, w)
<1>0. j = 1 \/ j = 2 \/ j = 3 \/ j = 4 \/ j = 5
  OBVIOUS
<1>1. CASE j = 1
  <2>1. \A x, y : SameAt(j - 1, x, y) = Differ(x, y)
    BY <1>1 DEF SameAt
  <2> QED
    BY <1>1, <2>1 DEF SameAt, SameValue, SameWith
<1>2. CASE j = 2
  <2>1. \A x, y : SameAt(j - 1, x, y) = SameValue(x, y)
    BY <1>2 DEF SameAt
  <2> QED
    BY <1>2, <2>1 DEF SameAt, SamePart, SameWith
<1>3. CASE j = 3
  <2>1. \A x, y : SameAt(j - 1, x, y) = SamePart(x, y)
    BY <1>3 DEF SameAt
  <2> QED
    BY <1>3, <2>1 DEF SameAt, SameRow, SameWith
<1>4. CASE j = 4
  <2>1. \A x, y : SameAt(j - 1, x, y) = SameRow(x, y)
    BY <1>4 DEF SameAt
  <2> QED
    BY <1>4, <2>1 DEF SameAt, SameRows, SameWith
<1>5. CASE j = 5
  <2>1. \A x, y : SameAt(j - 1, x, y) = SameRows(x, y)
    BY <1>5 DEF SameAt
  <2> QED
    BY <1>5, <2>1 DEF SameAt, SameDoc, SameWith
<1> QED
  BY <1>0, <1>1, <1>2, <1>3, <1>4, <1>5

-----------------------------------------------------------------------------
(* The classes of the server and of the SDK agree, field by field: a field *)
(* the SDK converts is of the kind it converts to, one it takes as it      *)
(* comes holds no object, and one that may be null may be so on both sides.*)
Nesting == {"model", "list"}
Agree(s, d) ==
  /\ s.null => d.null \/ d.kind.of = "plain"
  /\ d.kind.of \in {"plain", "time", "enum", "model", "list"}
  /\ d.kind.of = "plain" => s.kind.of \notin Nesting
  /\ d.kind.of # "plain" => s.kind.of = d.kind.of
  /\ d.kind.of = "enum" => \A n \in Nat \ {0} : Server!Pick(s.kind.words,
      n) \in d.kind.words
  /\ d.kind.of \in Nesting => s.kind.cls = d.kind.cls
Agrees(server, sdk) ==
  /\ DOMAIN sdk \subseteq DOMAIN server
  /\ \A f \in DOMAIN server :
       IF f \in DOMAIN sdk THEN Agree(server[f],
           sdk[f]) ELSE server[f].kind.of \notin Nesting

(* A class without objects in it, one that holds objects of such a class,  *)
(* and one that holds a list.                                              *)
Leaves == {"Token", "UserOut", "ErrorResponse", "ThumbnailOut", "FlagOut", "QueuePhoto",
    "ModerationActionOut", "ValidationError", "Healthz", "Readyz"}
Level(k) == IF k = 1 THEN Leaves
            ELSE IF k = 2 THEN Leaves \union {"PhotoOut", "QueueItem"}
            ELSE IF k = 3 THEN Leaves \union {"PhotoOut", "QueueItem"}
                                 \union {"PhotoList", "ModerationQueue",
                                     "HTTPValidationError"}
            ELSE {}
Flat(sdk) == \A f \in DOMAIN sdk : sdk[f].kind.of \notin Nesting
Holding(sdk) ==
  \A f \in DOMAIN sdk :
    /\ sdk[f].kind.of # "list"
    /\ sdk[f].kind.of = "model" => sdk[f].kind.cls \in Leaves
Listing(sdk) ==
  \A f \in DOMAIN sdk :
    /\ sdk[f].kind.of # "model"
    /\ sdk[f].kind.of = "list" => sdk[f].kind.cls \in Level(2)

(* Each word the server writes of an enumeration is one the SDK knows.     *)
LEMMA WordsKnown ==
  ASSUME NEW n \in Nat \ {0}
  PROVE  /\ Server!Pick(Server!ThumbnailStatus, n) \in Sdk!ThumbnailStatus
         /\ Server!Pick(Server!FlagReason, n) \in Sdk!FlagReason
         /\ Server!Pick(Server!FlagStatus, n) \in Sdk!FlagStatus
         /\ Server!Pick(Server!FlagResolution, n) \in Sdk!FlagResolution
         /\ Server!Pick(Server!ModerationDecision, n) \in Sdk!ModerationDecision
<1>1. (n - 1) % 2 \in 0 .. 1 /\ (n - 1) % 4 \in 0 .. 3 /\ (n - 1) % 5 \in 0 .. 4
  OBVIOUS
<1> USE DEF Server!Pick
<1>2. Server!Pick(Server!ThumbnailStatus, n) \in Sdk!ThumbnailStatus
  <2>1. Len(Server!ThumbnailStatus) = 4
    BY DEF Server!ThumbnailStatus
  <2>2. Server!Pick(Server!ThumbnailStatus,
        n) = Server!ThumbnailStatus[((n - 1) % 4) + 1]
    BY <2>1
  <2>3. \A i \in 0 .. 3 : Server!ThumbnailStatus[i + 1] \in Sdk!ThumbnailStatus
    BY DEF Server!ThumbnailStatus, Sdk!ThumbnailStatus
  <2> HIDE DEF Server!Pick
  <2> QED
    BY <1>1, <2>2, <2>3
<1>3. Server!Pick(Server!FlagReason, n) \in Sdk!FlagReason
  <2>1. Len(Server!FlagReason) = 5
    BY DEF Server!FlagReason
  <2>2. Server!Pick(Server!FlagReason, n) = Server!FlagReason[((n - 1) % 5) + 1]
    BY <2>1
  <2>3. \A i \in 0 .. 4 : Server!FlagReason[i + 1] \in Sdk!FlagReason
    BY DEF Server!FlagReason, Sdk!FlagReason
  <2> HIDE DEF Server!Pick
  <2> QED
    BY <1>1, <2>2, <2>3
<1>4. Server!Pick(Server!FlagStatus, n) \in Sdk!FlagStatus
  <2>1. Len(Server!FlagStatus) = 2
    BY DEF Server!FlagStatus
  <2>2. Server!Pick(Server!FlagStatus, n) = Server!FlagStatus[((n - 1) % 2) + 1]
    BY <2>1
  <2>3. \A i \in 0 .. 1 : Server!FlagStatus[i + 1] \in Sdk!FlagStatus
    BY DEF Server!FlagStatus, Sdk!FlagStatus
  <2> HIDE DEF Server!Pick
  <2> QED
    BY <1>1, <2>2, <2>3
<1>5. Server!Pick(Server!FlagResolution, n) \in Sdk!FlagResolution
  <2>1. Len(Server!FlagResolution) = 2
    BY DEF Server!FlagResolution
  <2>2. Server!Pick(Server!FlagResolution, n) = Server!FlagResolution[((n - 1) % 2) + 1]
    BY <2>1
  <2>3. \A i \in 0 .. 1 : Server!FlagResolution[i + 1] \in Sdk!FlagResolution
    BY DEF Server!FlagResolution, Sdk!FlagResolution
  <2> HIDE DEF Server!Pick
  <2> QED
    BY <1>1, <2>2, <2>3
<1>6. Server!Pick(Server!ModerationDecision, n) \in Sdk!ModerationDecision
  <2>1. Len(Server!ModerationDecision) = 2
    BY DEF Server!ModerationDecision
  <2>2. Server!Pick(Server!ModerationDecision,
        n) = Server!ModerationDecision[((n - 1) % 2) + 1]
    BY <2>1
  <2>3. \A i \in 0 .. 1 : Server!ModerationDecision[i + 1] \in Sdk!ModerationDecision
    BY DEF Server!ModerationDecision, Sdk!ModerationDecision
  <2> HIDE DEF Server!Pick
  <2> QED
    BY <1>1, <2>2, <2>3
<1> QED
  BY <1>2, <1>3, <1>4, <1>5, <1>6

LEMMA FlagOutAgrees == Agrees(Server!FlagOut, Sdk!FlagOut)
  BY WordsKnown DEF Agrees, Agree, Nesting, Server!FlagOut, Sdk!FlagOut,
      Server!Declared, Server!Required, Server!RequiredOrNull, Sdk!Declared,
      Sdk!Required, Sdk!RequiredOrNull, Server!Number, Server!Text, Server!Stamp,
      Server!Words, Sdk!Plain, Sdk!Stamp, Sdk!Words

(* A queue item is a flag with two more fields, on both sides.             *)
LEMMA QueueItemAgrees == Agrees(Server!QueueItem, Sdk!QueueItem)
<1> DEFINE flag == {"id", "photo_id", "reporter_id", "resolved_by_id", "reason", "note",
    "status", "resolution", "resolved_at", "created_at"}
<1>1. DOMAIN Server!FlagOut = flag /\ DOMAIN Sdk!FlagOut = flag
  BY DEF Server!FlagOut, Sdk!FlagOut
<1>2. /\ DOMAIN Server!QueueItem = flag \union {"photo", "reporter_email"}
      /\ \A f \in flag : Server!QueueItem[f] = Server!FlagOut[f]
      /\ Server!QueueItem["photo"] = Server!OptionalOrNull(Server!One("QueuePhoto"))
      /\ Server!QueueItem["reporter_email"] = Server!OptionalOrNull(Server!Text)
  BY <1>1 DEF Server!QueueItem, Server!@@
<1>3. /\ DOMAIN Sdk!QueueItem = flag \union {"photo", "reporter_email"}
      /\ Sdk!QueueItem["photo"] = Sdk!OptionalOrNull(Sdk!One("QueuePhoto"))
      /\ Sdk!QueueItem["reporter_email"] = Sdk!OptionalOrNull(Sdk!Plain)
  BY DEF Sdk!QueueItem
<1>4. \A f \in flag : Sdk!QueueItem[f] = Sdk!FlagOut[f]
  BY DEF Sdk!QueueItem, Sdk!FlagOut
<1> HIDE DEF flag
<1>5. \A f \in flag : Agree(Server!QueueItem[f], Sdk!QueueItem[f])
  BY <1>1, <1>2, <1>4, FlagOutAgrees DEF Agrees
<1>6. Agree(Server!QueueItem["photo"], Sdk!QueueItem["photo"])
  BY <1>2, <1>3 DEF Agree, Nesting, Server!One, Sdk!One, Server!OptionalOrNull,
      Sdk!OptionalOrNull, Server!Declared, Sdk!Declared
<1>7. Agree(Server!QueueItem["reporter_email"], Sdk!QueueItem["reporter_email"])
  BY <1>2, <1>3 DEF Agree, Nesting, Server!Text, Sdk!Plain, Server!OptionalOrNull,
      Sdk!OptionalOrNull, Server!Declared, Sdk!Declared
<1> QED
  BY <1>2, <1>3, <1>5, <1>6, <1>7 DEF Agrees

(* All response classes agree.                                             *)
LEMMA SchemasAgree ==
  /\ Agrees(Server!Token, Sdk!Token) /\ Flat(Sdk!Token)
  /\ Agrees(Server!UserOut, Sdk!UserOut) /\ Flat(Sdk!UserOut)
  /\ Agrees(Server!ErrorResponse, Sdk!ErrorResponse) /\ Flat(Sdk!ErrorResponse)
  /\ Agrees(Server!ThumbnailOut, Sdk!ThumbnailOut) /\ Flat(Sdk!ThumbnailOut)
  /\ Agrees(Server!FlagOut, Sdk!FlagOut) /\ Flat(Sdk!FlagOut)
  /\ Agrees(Server!QueuePhoto, Sdk!QueuePhoto) /\ Flat(Sdk!QueuePhoto)
  /\ Agrees(Server!ModerationActionOut, Sdk!ModerationActionOut)
      /\ Flat(Sdk!ModerationActionOut)
  /\ Agrees(Server!ValidationError, Sdk!ValidationError) /\ Flat(Sdk!ValidationError)
  /\ Agrees(Server!Healthz, Sdk!Healthz) /\ Flat(Sdk!Healthz)
  /\ Agrees(Server!Readyz, Sdk!Readyz) /\ Flat(Sdk!Readyz)
  /\ Agrees(Server!PhotoOut, Sdk!PhotoOut) /\ Holding(Sdk!PhotoOut)
  /\ Agrees(Server!QueueItem, Sdk!QueueItem) /\ Holding(Sdk!QueueItem)
  /\ Agrees(Server!PhotoList, Sdk!PhotoList) /\ Listing(Sdk!PhotoList)
  /\ Agrees(Server!ModerationQueue, Sdk!ModerationQueue) /\ Listing(Sdk!ModerationQueue)
  /\ Agrees(Server!HTTPValidationError, Sdk!HTTPValidationError)
      /\ Listing(Sdk!HTTPValidationError)
<1> USE DEF Agrees, Agree, Nesting, Flat, Holding, Listing, Leaves, Level,
    Server!Declared, Server!Required, Server!Optional, Server!RequiredOrNull,
    Server!OptionalOrNull, Sdk!Declared, Sdk!Required, Sdk!Optional,
    Sdk!RequiredOrNull, Sdk!OptionalOrNull, Server!Number, Server!Text, Server!Stamp,
    Server!Flagged, Server!Words, Server!One, Server!Many, Sdk!Plain, Sdk!Stamp,
    Sdk!Words, Sdk!One, Sdk!Many
<1>1. Agrees(Server!Token, Sdk!Token) /\ Flat(Sdk!Token)
  BY DEF Server!Token, Sdk!Token
<1>2. Agrees(Server!UserOut, Sdk!UserOut) /\ Flat(Sdk!UserOut)
  BY DEF Server!UserOut, Sdk!UserOut
<1>3. Agrees(Server!ErrorResponse, Sdk!ErrorResponse) /\ Flat(Sdk!ErrorResponse)
  BY DEF Server!ErrorResponse, Sdk!ErrorResponse
<1>4. Agrees(Server!ThumbnailOut, Sdk!ThumbnailOut) /\ Flat(Sdk!ThumbnailOut)
  BY WordsKnown DEF Server!ThumbnailOut, Sdk!ThumbnailOut
<1>5. Agrees(Server!FlagOut, Sdk!FlagOut) /\ Flat(Sdk!FlagOut)
  BY WordsKnown DEF Server!FlagOut, Sdk!FlagOut
<1>6. Agrees(Server!QueuePhoto, Sdk!QueuePhoto) /\ Flat(Sdk!QueuePhoto)
  BY DEF Server!QueuePhoto, Sdk!QueuePhoto
<1>7. Agrees(Server!ModerationActionOut, Sdk!ModerationActionOut)
      /\ Flat(Sdk!ModerationActionOut)
  BY WordsKnown DEF Server!ModerationActionOut, Sdk!ModerationActionOut
<1>8. Agrees(Server!ValidationError, Sdk!ValidationError) /\ Flat(Sdk!ValidationError)
  BY DEF Server!ValidationError, Sdk!ValidationError
<1>9. Agrees(Server!Healthz, Sdk!Healthz) /\ Flat(Sdk!Healthz)
  BY DEF Server!Healthz, Sdk!Healthz, Sdk!NoFields
<1>10. Agrees(Server!Readyz, Sdk!Readyz) /\ Flat(Sdk!Readyz)
  BY DEF Server!Readyz, Sdk!Readyz, Sdk!NoFields
<1>11. Agrees(Server!PhotoOut, Sdk!PhotoOut) /\ Holding(Sdk!PhotoOut)
  BY DEF Server!PhotoOut, Sdk!PhotoOut
<1>12. Agrees(Server!QueueItem, Sdk!QueueItem) /\ Holding(Sdk!QueueItem)
  <2>1. Holding(Sdk!QueueItem)
    BY DEF Sdk!QueueItem
  <2> QED
    BY <2>1, QueueItemAgrees
<1>13. Agrees(Server!PhotoList, Sdk!PhotoList) /\ Listing(Sdk!PhotoList)
  BY DEF Server!PhotoList, Sdk!PhotoList
<1>14. Agrees(Server!ModerationQueue, Sdk!ModerationQueue)
       /\ Listing(Sdk!ModerationQueue)
  BY DEF Server!ModerationQueue, Sdk!ModerationQueue
<1>15. Agrees(Server!HTTPValidationError, Sdk!HTTPValidationError)
       /\ Listing(Sdk!HTTPValidationError)
  BY DEF Server!HTTPValidationError, Sdk!HTTPValidationError
<1> QED
  BY <1>1, <1>2, <1>3, <1>4, <1>5, <1>6, <1>7, <1>8, <1>9, <1>10, <1>11, <1>12, <1>13,
      <1>14, <1>15

(* The models of the SDK, by name.                                         *)
LEMMA SdkModels ==
  /\ Sdk!Class["Token"] = Sdk!Token
  /\ Sdk!Class["UserOut"] = Sdk!UserOut
  /\ Sdk!Class["ErrorResponse"] = Sdk!ErrorResponse
  /\ Sdk!Class["ThumbnailOut"] = Sdk!ThumbnailOut
  /\ Sdk!Class["FlagOut"] = Sdk!FlagOut
  /\ Sdk!Class["QueuePhoto"] = Sdk!QueuePhoto
  /\ Sdk!Class["ModerationActionOut"] = Sdk!ModerationActionOut
  /\ Sdk!Class["ValidationError"] = Sdk!ValidationError
  /\ Sdk!Class["Healthz"] = Sdk!Healthz
  /\ Sdk!Class["Readyz"] = Sdk!Readyz
  /\ Sdk!Class["PhotoOut"] = Sdk!PhotoOut
  /\ Sdk!Class["QueueItem"] = Sdk!QueueItem
  /\ Sdk!Class["PhotoList"] = Sdk!PhotoList
  /\ Sdk!Class["ModerationQueue"] = Sdk!ModerationQueue
  /\ Sdk!Class["HTTPValidationError"] = Sdk!HTTPValidationError
  BY DEF Sdk!Class

(* What a class at a depth may hold.                                       *)
Held(k, sdk) ==
  \A f \in DOMAIN sdk :
    /\ sdk[f].kind.of = "model" => k \in {2, 3} /\ sdk[f].kind.cls \in Level(k - 1)
    /\ sdk[f].kind.of = "list" => k = 3 /\ sdk[f].kind.cls \in Level(k - 1)

(* A class holds only classes of the depth below.                          *)
LEMMA Levels ==
  ASSUME NEW k \in 1 .. 3, NEW cls \in Level(k)
  PROVE  Agrees(Server!Class[cls], Sdk!Class[cls]) /\ Held(k, Sdk!Class[cls])
<1>1. \A c \in Leaves : Agrees(Server!Class[c], Sdk!Class[c]) /\ Flat(Sdk!Class[c])
  BY SchemasAgree, ServerModels, SdkModels DEF Leaves
<1>2. \A c \in {"PhotoOut", "QueueItem"} : Agrees(Server!Class[c], Sdk!Class[c])
      /\ Holding(Sdk!Class[c])
  BY SchemasAgree, ServerModels, SdkModels
<1>3. \A c \in {"PhotoList", "ModerationQueue", "HTTPValidationError"} :
        Agrees(Server!Class[c], Sdk!Class[c]) /\ Listing(Sdk!Class[c])
  BY SchemasAgree, ServerModels, SdkModels
<1>4. k = 1 \/ k = 2 \/ k = 3
  OBVIOUS
<1>5. Level(1) = Leaves /\ Leaves \subseteq Level(2)
  BY DEF Level
<1>6. CASE cls \in Leaves
  BY <1>1, <1>6 DEF Held, Flat, Nesting
<1>7. CASE k \in {2, 3} /\ cls \in {"PhotoOut", "QueueItem"}
  <2>1. Leaves \subseteq Level(k - 1)
    BY <1>5, <1>7
  <2>2. Holding(Sdk!Class[cls]) /\ Agrees(Server!Class[cls], Sdk!Class[cls])
    BY <1>2, <1>7
  <2>3. Held(k, Sdk!Class[cls])
    <3> DEFINE sdk == Sdk!Class[cls]
    <3> HIDE DEF sdk
    <3>1. Holding(sdk)
      BY <2>2 DEF sdk
    <3>2. Held(k, sdk)
      BY <1>7, <2>1, <3>1 DEF Held, Holding
    <3> QED
      BY <3>2 DEF sdk
  <2> QED
    BY <2>2, <2>3
<1>8. CASE k = 3 /\ cls \in {"PhotoList", "ModerationQueue", "HTTPValidationError"}
  <2>1. Level(k - 1) = Level(2)
    BY <1>8
  <2>2. Listing(Sdk!Class[cls]) /\ Agrees(Server!Class[cls], Sdk!Class[cls])
    BY <1>3, <1>8
  <2>3. Held(k, Sdk!Class[cls])
    BY <1>8, <2>1, <2>2 DEF Held, Listing
  <2> QED
    BY <2>2, <2>3
<1> QED
  BY <1>4, <1>6, <1>7, <1>8 DEF Level

(* The round trip: from a document of a class the SDK makes an object of   *)
(* it, with every field converted, and writes the same document again.     *)
Converts == {"time", "enum", "model", "list"}
Depth(k) == IF k = 1 THEN 2 ELSE IF k = 2 THEN 3 ELSE 5
Round(k, cls, nulls, n) ==
  LET doc == DocAt(k, cls, nulls, n)
      o == FromAt(k, cls, doc)
  IN  /\ doc.is = "obj" /\ o.is = "model" /\ o.cls = cls
      /\ \A f \in DOMAIN o.at :
           LET kind == Sdk!Class[cls][f].kind
           IN  kind.of \in Converts => o.at[f] = Null \/ o.at[f].is = kind.of
      /\ \A j \in Depth(k) .. 5 : SameAt(j, ToAt(k, o), doc)

(* The tags of values, and the instant the documents name.                 *)
LEMMA Tags ==
  /\ Null.is = "null" /\ Unset.is = "unset" /\ Raised.is = "raised"
  /\ \A x : /\ Str(x).is = "str" /\ Num(x).is = "num" /\ Enum(x).is = "enum"
      /\ Time(x).is = "time"
            /\ Str(x).word = x /\ Enum(x).word = x /\ Time(x).instant = x
  BY DEF Null, Unset, Raised, Str, Num, Enum, Time

LEMMA Noon ==
  /\ {"noonZ", "noon+00:00"} \subseteq DOMAIN Instant
  /\ Instant["noonZ"] = "noon" /\ Instant["noon+00:00"] = "noon"
      /\ IsoFormat["noon"] = "noon+00:00"
  BY DEF Instant, IsoFormat, :>, @@

(* One field, if the documents nested in it make the round trip.           *)
LEMMA FieldRound ==
  ASSUME NEW k \in 1 .. 3, NEW nulls, NEW n \in Nat \ {0}, NEW f, NEW s, NEW d,
         Agree(s, d),
         d.kind.of = "model" => k \in {2, 3} /\ Round(k - 1, d.kind.cls, nulls, n),
         d.kind.of = "list" => k = 3 /\ \A m \in Nat \ {0} : Round(k - 1, d.kind.cls,
             nulls, m),
         NEW v, WrittenFor(k, f, s, nulls, n, v)
  PROVE  /\ Readable(k, d, v)
         /\ \A w : ReadAs(k, d, v, w) =>
              /\ w # Unset
              /\ d.kind.of \in Converts => w = Null \/ w.is = d.kind.of
              /\ \A u : WrittenAs(k, w, u) => \A j \in Depth(k) - 1 .. 4 : SameAt(j, u, v)
<1> DEFINE Goal(w) == /\ w # Unset
                      /\ d.kind.of \in Converts => w = Null \/ w.is = d.kind.of
                      /\ \A u : WrittenAs(k, w,
                          u) => \A j \in Depth(k) - 1 .. 4 : SameAt(j, u, v)
<1>0. \A j \in Depth(k) - 1 .. 4 : j \in 1 .. 5
  BY DEF Depth
<1>1. ASSUME v.is \in {"null", "str", "num"}
      PROVE  v # Unset /\ v # Raised /\ \A u : WrittenAs(k, v,
             u) => \A j \in Depth(k) - 1 .. 4 : SameAt(j, u, v)
  <2>1. \A u : WrittenAs(k, v, u) => u = v
    BY <1>1 DEF WrittenAs
  <2>2. \A j \in 1 .. 5 : SameAt(j, v, v)
    BY <1>1, Comparisons
  <2> QED
    BY <1>0, <1>1, <2>1, <2>2, Tags
<1>2. CASE s.null /\ f \in nulls
  <2>1. v = Null /\ v.is = "null"
    BY <1>2, Tags DEF WrittenFor
  <2>2. d.null \/ d.kind.of = "plain"
    BY <1>2 DEF Agree
  <2>3. Readable(k, d, v)
    BY <1>1, <2>1, <2>2 DEF Readable
  <2>4. \A w : ReadAs(k, d, v, w) => w = v
    BY <2>1, <2>2 DEF ReadAs
  <2> QED
    BY <1>1, <2>1, <2>2, <2>3, <2>4 DEF Converts
<1>3. CASE ~(s.null /\ f \in nulls) /\ d.kind.of = "plain"
  <2>1. v.is \in {"str", "num"}
    BY <1>3, Tags DEF WrittenFor, Agree, Nesting
  <2>2. Readable(k, d, v)
    BY <1>1, <1>3, <2>1 DEF Readable
  <2>3. \A w : ReadAs(k, d, v, w) => w = v
    BY <1>3, <2>1, Tags DEF ReadAs
  <2> QED
    BY <1>1, <1>3, <2>1, <2>2, <2>3 DEF Converts
<1>4. CASE ~(s.null /\ f \in nulls) /\ d.kind.of = "time"
  <2>1. v = Str("noonZ")
    BY <1>4 DEF WrittenFor, Agree
  <2>2. Readable(k, d, v)
    BY <1>4, <2>1, Tags, Noon DEF Readable
  <2>3. \A w : ReadAs(k, d, v, w) => w = Time("noon")
    BY <1>4, <2>1, Tags, Noon DEF ReadAs
  <2>4. \A u : WrittenAs(k, Time("noon"), u) => u = Str("noon+00:00")
    BY Tags, Noon DEF WrittenAs
  <2>5. \A j \in 1 .. 5 : SameAt(j, Str("noon+00:00"), v)
    BY <2>1, Tags, Noon, Comparisons
  <2> QED
    BY <1>0, <1>4, <2>2, <2>3, <2>4, <2>5, Tags
<1>5. CASE ~(s.null /\ f \in nulls) /\ d.kind.of = "enum"
  <2>1. v = Str(v.word) /\ v.is = "str" /\ v.word \in d.kind.words
    BY <1>5, Tags DEF WrittenFor, Agree
  <2>2. Readable(k, d, v)
    BY <1>5, <2>1, Tags DEF Readable
  <2>3. \A w : ReadAs(k, d, v, w) => w = Enum(v.word)
    BY <1>5, <2>1, Tags DEF ReadAs
  <2>4. \A u : WrittenAs(k, Enum(v.word), u) => u = v
    BY <2>1, Tags DEF WrittenAs
  <2>5. \A j \in 1 .. 5 : SameAt(j, v, v)
    BY <2>1, Comparisons
  <2> QED
    BY <1>0, <1>5, <2>2, <2>3, <2>4, <2>5, Tags
<1>6. CASE ~(s.null /\ f \in nulls) /\ d.kind.of = "model"
  <2> DEFINE object == FromAt(k - 1, d.kind.cls, v)
  <2>1. v = DocAt(k - 1, d.kind.cls, nulls, n) /\ Round(k - 1, d.kind.cls, nulls, n)
        /\ k \in {2, 3}
    BY <1>6 DEF WrittenFor, Agree, Nesting
  <2>2. /\ v.is = "obj" /\ object.is = "model"
        /\ \A j \in Depth(k - 1) .. 5 : SameAt(j, ToAt(k - 1, object), v)
    BY <2>1 DEF Round
  <2> HIDE DEF object
  <2>3. Readable(k, d, v)
    BY <1>6, <2>2, Tags DEF Readable, object
  <2>4. \A w : ReadAs(k, d, v, w) => w = object
    BY <1>6, <2>2, Tags DEF ReadAs, object
  <2>5. \A u : WrittenAs(k, object, u) => u = ToAt(k - 1, object)
    BY <2>2 DEF WrittenAs
  <2>6. \A j \in Depth(k) - 1 .. 4 : j \in Depth(k - 1) .. 5
    BY <2>1 DEF Depth
  <2> QED
    BY <1>6, <2>2, <2>3, <2>4, <2>5, <2>6, Tags
<1>7. CASE ~(s.null /\ f \in nulls) /\ d.kind.of = "list"
  <2> DEFINE Object(i) == FromAt(k - 1, d.kind.cls, v.items[i])
  <2>1. /\ v.is = "list" /\ DOMAIN v.items = 1 .. (n - 1) /\ Len(v.items) = n - 1
        /\ \A i \in 1 .. (n - 1) : v.items[i] = DocAt(k - 1, d.kind.cls, nulls, n + i)
    BY <1>7 DEF WrittenFor, Agree, Nesting
  <2>2. \A i \in 1 .. (n - 1) :
          /\ v.items[i].is = "obj" /\ Object(i).is = "model"
          /\ \A j \in Depth(k - 1) .. 5 : SameAt(j, ToAt(k - 1, Object(i)), v.items[i])
    <3> TAKE i \in 1 .. (n - 1)
    <3>1. n + i \in Nat \ {0}
      OBVIOUS
    <3>2. Round(k - 1, d.kind.cls, nulls, n + i)
      BY <1>7, <3>1
    <3> QED
      BY <2>1, <3>2 DEF Round
  <2> HIDE DEF Object
  <2>3. Readable(k, d, v)
    BY <1>7, <2>1, <2>2, Tags DEF Readable, Object
  <2>4. ASSUME NEW w, ReadAs(k, d, v, w)
        PROVE  Goal(w)
    <3>1. /\ w.is = "list" /\ DOMAIN w.items = 1 .. (n - 1)
          /\ \A i \in 1 .. (n - 1) : w.items[i] = Object(i)
      BY <1>7, <2>1, <2>4, Tags DEF ReadAs, Object
    <3>2. ASSUME NEW u, WrittenAs(k, w, u), NEW j \in Depth(k) - 1 .. 4
          PROVE  SameAt(j, u, v)
      <4>1. /\ u.is = "list" /\ u.items = [i \in 1 .. (n - 1) |-> u.items[i]]
            /\ \A i \in 1 .. (n - 1) : u.items[i] = ToAt(k - 1, Object(i))
        BY <3>1, <3>2 DEF WrittenAs
      <4>2. Len(u.items) = n - 1 /\ DOMAIN u.items = 1 .. (n - 1)
        <5> DEFINE items == u.items
        <5>1. items = [i \in 1 .. (n - 1) |-> items[i]] /\ n - 1 \in Nat
          BY <4>1
        <5> HIDE DEF items
        <5>2. Len(items) = n - 1 /\ DOMAIN items = 1 .. (n - 1)
          BY <5>1, ItemsCounted
        <5> QED
          BY <5>2 DEF items
      <4>3. j = 4 /\ j - 1 \in Depth(k - 1) .. 5 /\ j \in 1 .. 5
        BY <1>7 DEF Depth
      <4>4. \A i \in 1 .. (n - 1) : SameAt(j - 1, u.items[i], v.items[i])
        BY <2>2, <4>1, <4>3
      <4> QED
        BY <2>1, <4>1, <4>2, <4>3, <4>4, Comparisons
    <3> QED
      BY <1>7, <3>1, <3>2, Tags
  <2> QED
    BY <2>3, <2>4
<1> QED
  BY <1>2, <1>3, <1>4, <1>5, <1>6, <1>7 DEF Agree

(* One class, if the classes of the depth below make it.                   *)
LEMMA RoundStep ==
  ASSUME NEW k \in 1 .. 3, NEW nulls, NEW cls \in Level(k), NEW n \in Nat \ {0},
         k # 1 => \A c \in Level(k - 1) : \A m \in Nat \ {0} : Round(k - 1, c, nulls, m)
  PROVE  Round(k, cls, nulls, n)
<1> DEFINE server == Server!Class[cls]
           sdk == Sdk!Class[cls]
           doc == DocAt(k, cls, nulls, n)
           o == FromAt(k, cls, doc)
           back == ToAt(k, o)
<1>1. /\ doc.is = "obj" /\ DOMAIN doc.at = DOMAIN server
      /\ \A f \in DOMAIN server : WrittenFor(k, f, server[f], nulls, n, doc.at[f])
  BY Documents
<1>2. Agrees(server, sdk) /\ Held(k, sdk)
  BY Levels
<1> HIDE DEF server, doc
<1>3. DOMAIN sdk \subseteq DOMAIN server
  BY <1>2 DEF Agrees
<1>4. ASSUME NEW f \in DOMAIN sdk
      PROVE  /\ Readable(k, sdk[f], doc.at[f])
             /\ \A w : ReadAs(k, sdk[f], doc.at[f], w) =>
                  /\ w # Unset
                  /\ sdk[f].kind.of \in Converts => w = Null \/ w.is = sdk[f].kind.of
                  /\ \A u : WrittenAs(k, w, u) =>
                       \A j \in Depth(k) - 1 .. 4 : SameAt(j, u, doc.at[f])
  <2> DEFINE s == server[f]
             d == sdk[f]
             v == doc.at[f]
  <2>1. Agree(s, d) /\ WrittenFor(k, f, s, nulls, n, v)
    BY <1>1, <1>2, <1>3 DEF Agrees
  <2>2. d.kind.of = "model" => k \in {2, 3} /\ Round(k - 1, d.kind.cls, nulls, n)
    BY <1>2 DEF Held
  <2>3. d.kind.of = "list" => k = 3 /\ \A m \in Nat \ {0} : Round(k - 1, d.kind.cls, nulls,
        m)
    BY <1>2 DEF Held
  <2> HIDE DEF s, d, v
  <2>4. /\ Readable(k, d, v)
        /\ \A w : ReadAs(k, d, v, w) =>
             /\ w # Unset
             /\ d.kind.of \in Converts => w = Null \/ w.is = d.kind.of
             /\ \A u : WrittenAs(k, w, u) => \A j \in Depth(k) - 1 .. 4 : SameAt(j, u, v)
    BY <2>1, <2>2, <2>3, FieldRound
  <2> QED
    BY <2>4 DEF s, d, v
<1>5. /\ o.is = "model" /\ o.cls = cls /\ DOMAIN o.at = DOMAIN sdk
      /\ \A f \in DOMAIN o.at : ReadAs(k, sdk[f], doc.at[f], o.at[f])
      /\ o.more = Sdk!Less(doc.at, DOMAIN sdk)
  BY <1>1, <1>3, <1>4, Built
<1> HIDE DEF sdk, o
<1>6. /\ DOMAIN o.more = DOMAIN server \ DOMAIN sdk
      /\ \A f \in DOMAIN o.more : o.more[f] = doc.at[f]
  BY <1>1, <1>5 DEF Sdk!Less
<1>7. \A f \in DOMAIN o.at : o.at[f] # Unset
  BY <1>4, <1>5
<1>8. /\ back.is = "obj" /\ DOMAIN back.at = DOMAIN o.at \union DOMAIN o.more
      /\ \A f \in DOMAIN o.at : WrittenAs(k, o.at[f], back.at[f])
      /\ \A f \in DOMAIN o.more \ DOMAIN o.at : back.at[f] = o.more[f]
  BY <1>7, Dicts
<1> HIDE DEF back
<1>9. ASSUME NEW j \in Depth(k) .. 5
      PROVE  SameAt(j, back, doc)
  <2>1. j \in 1 .. 5 /\ j - 1 \in Depth(k) - 1 .. 4 /\ j - 1 \in 1 .. 5
    BY DEF Depth
  <2>2. DOMAIN back.at = DOMAIN doc.at
    BY <1>1, <1>3, <1>5, <1>6, <1>8
  <2>3. ASSUME NEW f \in DOMAIN sdk
        PROVE  SameAt(j - 1, back.at[f], doc.at[f])
    BY <1>4, <1>5, <1>8, <2>1
  <2>4. ASSUME NEW f \in DOMAIN server \ DOMAIN sdk
        PROVE  SameAt(j - 1, back.at[f], doc.at[f])
    <3>1. back.at[f] = doc.at[f]
      BY <1>5, <1>6, <1>8
    <3>2. server[f].kind.of \notin Nesting
      BY <1>2 DEF Agrees
    <3>3. doc.at[f].is \in {"null", "str", "num"}
      <4>1. WrittenFor(k, f, server[f], nulls, n, doc.at[f])
        BY <1>1
      <4> QED
        BY <3>2, <4>1, Tags DEF WrittenFor, Nesting
    <3> DEFINE v == doc.at[f]
    <3> HIDE DEF v
    <3>4. v.is \in {"null", "str", "num"}
      BY <3>3 DEF v
    <3>5. SameAt(j - 1, v, v)
      BY <2>1, <3>4, Comparisons
    <3> QED
      BY <3>1, <3>5 DEF v
  <2> QED
    BY <1>1, <1>3, <1>8, <2>1, <2>2, <2>3, <2>4, Comparisons
<1>10. \A f \in DOMAIN o.at : sdk[f].kind.of \in Converts => o.at[f] = Null
       \/ o.at[f].is = sdk[f].kind.of
  BY <1>4, <1>5
<1> QED
  BY <1>1, <1>5, <1>9, <1>10 DEF Round, doc, o, back, sdk

(* Every response class makes it.                                          *)
LEMMA RoundTrip ==
  ASSUME NEW nulls, NEW cls \in Level(3), NEW n \in Nat \ {0}
  PROVE  Round(3, cls, nulls, n)
<1>1. \A c \in Level(1) : \A m \in Nat \ {0} : Round(1, c, nulls, m)
  <2> TAKE c \in Level(1)
  <2> TAKE m \in Nat \ {0}
  <2> DEFINE k == 1
  <2>1. k \in 1 .. 3 /\ c \in Level(k) /\ k = 1
    OBVIOUS
  <2> HIDE DEF k
  <2>2. Round(k, c, nulls, m)
    BY <2>1, RoundStep
  <2> QED
    BY <2>1, <2>2
<1>2. \A c \in Level(2) : \A m \in Nat \ {0} : Round(2, c, nulls, m)
  <2> TAKE c \in Level(2)
  <2> TAKE m \in Nat \ {0}
  <2> DEFINE k == 2
  <2>1. k \in 1 .. 3 /\ c \in Level(k) /\ k - 1 = 1 /\ k = 2
    OBVIOUS
  <2> HIDE DEF k
  <2>2. Round(k, c, nulls, m)
    BY <1>1, <2>1, RoundStep
  <2> QED
    BY <2>1, <2>2
<1> DEFINE k == 3
<1>3. k \in 1 .. 3 /\ cls \in Level(k) /\ k - 1 = 2 /\ k = 3
  OBVIOUS
<1> HIDE DEF k
<1>4. Round(k, cls, nulls, n)
  BY <1>2, <1>3, RoundStep
<1> QED
  BY <1>3, <1>4

-----------------------------------------------------------------------------
(* What the SDK makes of each status code of an operation.                 *)
Understands(name, good, cls, errors, invalid) ==
  LET answers == Sdk!Endpoint[name].answers IN
  /\ DOMAIN answers = good \union errors \union invalid
  /\ \A c \in good : answers[c] = cls
  /\ \A c \in errors : answers[c] = "ErrorResponse"
  /\ \A c \in invalid : answers[c] = "HTTPValidationError"

(* The tables of _parse_response.                                          *)
LEMMA Understood ==
  /\ Understands("login", {200}, "Token", {400, 401, 403, 405}, {422})
  /\ Understands("me", {200}, "UserOut", {401, 405}, {})
  /\ Understands("register", {201}, "UserOut", {400, 405, 409}, {422})
  /\ Understands("healthz", {200}, "Healthz", {}, {})
  /\ Understands("decide", {200}, "Either", {400, 401, 403, 404, 405, 409}, {422})
  /\ Understands("moderation_queue", {200}, "ModerationQueue", {401, 403, 405}, {422})
  /\ Understands("delete_photo", {204}, "None", {401, 404, 405}, {422})
  /\ Understands("flag_photo", {201}, "FlagOut", {400, 401, 404, 405, 409}, {422})
  /\ Understands("get_photo_file", {}, "None", {401, 404, 405}, {422})
  /\ Understands("get_photo", {200}, "PhotoOut", {401, 404, 405}, {422})
  /\ Understands("get_thumbnail_file", {}, "None", {401, 404, 405, 409}, {422})
  /\ Understands("get_thumbnail_status", {200}, "ThumbnailOut", {401, 404, 405}, {422})
  /\ Understands("list_photos", {200}, "PhotoList", {401, 405}, {422})
  /\ Understands("update_photo", {200}, "PhotoOut", {400, 401, 404, 405}, {422})
  /\ Understands("upload_photo", {201}, "PhotoOut", {400, 401, 405, 413}, {422})
<1> USE DEF Understands, Sdk!Codes, Sdk!Errors, Sdk!Invalid, Sdk!:>, Sdk!@@, Sdk!Call
<1>1. Understands("login", {200}, "Token", {400, 401, 403, 405}, {422})
  BY Modules DEF Sdk!login
<1>2. Understands("me", {200}, "UserOut", {401, 405}, {})
  BY Modules DEF Sdk!me
<1>3. Understands("register", {201}, "UserOut", {400, 405, 409}, {422})
  BY Modules DEF Sdk!register
<1>4. Understands("healthz", {200}, "Healthz", {}, {})
  BY Modules DEF Sdk!healthz
<1>5. Understands("decide", {200}, "Either", {400, 401, 403, 404, 405, 409}, {422})
  BY Modules DEF Sdk!decide
<1>6. Understands("moderation_queue", {200}, "ModerationQueue", {401, 403, 405}, {422})
  BY Modules DEF Sdk!moderation_queue
<1>7. Understands("delete_photo", {204}, "None", {401, 404, 405}, {422})
  BY Modules DEF Sdk!delete_photo
<1>8. Understands("flag_photo", {201}, "FlagOut", {400, 401, 404, 405, 409}, {422})
  BY Modules DEF Sdk!flag_photo
<1>9. Understands("get_photo_file", {}, "None", {401, 404, 405}, {422})
  BY Modules DEF Sdk!get_photo_file
<1>10. Understands("get_photo", {200}, "PhotoOut", {401, 404, 405}, {422})
  BY Modules DEF Sdk!get_photo
<1>11. Understands("get_thumbnail_file", {}, "None", {401, 404, 405, 409}, {422})
  BY Modules DEF Sdk!get_thumbnail_file
<1>12. Understands("get_thumbnail_status", {200}, "ThumbnailOut", {401, 404, 405}, {422})
  BY Modules DEF Sdk!get_thumbnail_status
<1>13. Understands("list_photos", {200}, "PhotoList", {401, 405}, {422})
  BY Modules DEF Sdk!list_photos
<1>14. Understands("update_photo", {200}, "PhotoOut", {400, 401, 404, 405}, {422})
  BY Modules DEF Sdk!update_photo
<1>15. Understands("upload_photo", {201}, "PhotoOut", {400, 401, 405, 413}, {422})
  BY Modules DEF Sdk!upload_photo
<1> QED
  BY <1>1, <1>2, <1>3, <1>4, <1>5, <1>6, <1>7, <1>8, <1>9, <1>10, <1>11, <1>12, <1>13,
      <1>14, <1>15

(* For /readyz, which has no errors, the 503 is parsed to None.            *)
LEMMA Readiness ==
  LET answers == Sdk!Endpoint["readyz"].answers IN
  DOMAIN answers = {200, 503} /\ answers[200] = "Readyz" /\ answers[503] = "None"
  BY Modules DEF Sdk!readyz, Sdk!Call, Sdk!:>, Sdk!@@

(* What the server answers with a code that the SDK parses for the         *)
(* operation is of the class that it is parsed as.                         *)
Refusals == {400, 401, 403, 404, 405, 409, 413}
LEMMA Matching ==
  ASSUME NEW name \in Operations, NEW code \in DOMAIN Sdk!Endpoint[name].answers,
         Sdk!Endpoint[name].answers[code] # "None"
  PROVE  LET op == Server!Op[name]
             cls == Sdk!Endpoint[name].answers[code]
         IN  /\ code # 500
             /\ code \in Refusals => cls = "ErrorResponse"
             /\ code = 422 => cls = "HTTPValidationError"
             /\ code \in DOMAIN op.success =>
                  IF name = "decide" THEN cls = "Either"
                  ELSE cls \in Level(3)
                      /\ \A d \in DOMAIN op.success : op.success[d] = cls
             /\ code \in op.raises => code \in Refusals
                 /\ op.more[code] = "ErrorResponse"
<1> USE DEF Refusals
<1>1. CASE name = "healthz"
  <2>1. Says("healthz", [c \in {200} |-> "Healthz"], {}, {})
    BY Said
  <2>2. Understands("healthz", {200}, "Healthz", {}, {})
    BY Understood
  <2> QED
    BY <1>1, <2>1, <2>2 DEF Says, Understands, Level, Leaves
<1>2. CASE name = "readyz"
  <2>1. Says("readyz", [c \in {200} |-> "Readyz"], {503}, {503})
    BY Said
  <2> QED
    BY <1>2, <2>1, Readiness DEF Says, Level, Leaves
<1>3. CASE name = "register"
  <2>1. Says("register", [c \in {201} |-> "UserOut"], {400, 409}, {409})
    BY Said
  <2>2. Understands("register", {201}, "UserOut", {400, 405, 409}, {422})
    BY Understood
  <2> QED
    BY <1>3, <2>1, <2>2 DEF Says, Understands, Level, Leaves
<1>4. CASE name = "login"
  <2>1. Says("login", [c \in {200} |-> "Token"], {400, 401, 403}, {401, 403})
    BY Said
  <2>2. Understands("login", {200}, "Token", {400, 401, 403, 405}, {422})
    BY Understood
  <2> QED
    BY <1>4, <2>1, <2>2 DEF Says, Understands, Level, Leaves
<1>5. CASE name = "me"
  <2>1. Says("me", [c \in {200} |-> "UserOut"], {401}, {})
    BY Said
  <2>2. Understands("me", {200}, "UserOut", {401, 405}, {})
    BY Understood
  <2> QED
    BY <1>5, <2>1, <2>2 DEF Says, Understands, Level, Leaves
<1>6. CASE name = "upload_photo"
  <2>1. Says("upload_photo", [c \in {201} |-> "PhotoOut"], {400, 401, 413}, {400, 413})
    BY Said
  <2>2. Understands("upload_photo", {201}, "PhotoOut", {400, 401, 405, 413}, {422})
    BY Understood
  <2> QED
    BY <1>6, <2>1, <2>2 DEF Says, Understands, Level, Leaves
<1>7. CASE name = "list_photos"
  <2>1. Says("list_photos", [c \in {200} |-> "PhotoList"], {401}, {})
    BY Said
  <2>2. Understands("list_photos", {200}, "PhotoList", {401, 405}, {422})
    BY Understood
  <2> QED
    BY <1>7, <2>1, <2>2 DEF Says, Understands, Level, Leaves
<1>8. CASE name = "get_photo"
  <2>1. Says("get_photo", [c \in {200} |-> "PhotoOut"], {401, 404}, {404})
    BY Said
  <2>2. Understands("get_photo", {200}, "PhotoOut", {401, 404, 405}, {422})
    BY Understood
  <2> QED
    BY <1>8, <2>1, <2>2 DEF Says, Understands, Level, Leaves
<1>9. CASE name = "update_photo"
  <2>1. Says("update_photo", [c \in {200} |-> "PhotoOut"], {400, 401, 404}, {404})
    BY Said
  <2>2. Understands("update_photo", {200}, "PhotoOut", {400, 401, 404, 405}, {422})
    BY Understood
  <2> QED
    BY <1>9, <2>1, <2>2 DEF Says, Understands, Level, Leaves
<1>10. CASE name = "delete_photo"
  <2>1. Says("delete_photo", [c \in {204} |-> "Empty"], {401, 404}, {404})
    BY Said
  <2>2. Understands("delete_photo", {204}, "None", {401, 404, 405}, {422})
    BY Understood
  <2> QED
    BY <1>10, <2>1, <2>2 DEF Says, Understands, Level, Leaves
<1>11. CASE name = "get_thumbnail_status"
  <2>1. Says("get_thumbnail_status", [c \in {200} |-> "ThumbnailOut"], {401, 404}, {404})
    BY Said
  <2>2. Understands("get_thumbnail_status", {200}, "ThumbnailOut", {401, 404, 405}, {422})
    BY Understood
  <2> QED
    BY <1>11, <2>1, <2>2 DEF Says, Understands, Level, Leaves
<1>12. CASE name = "get_photo_file"
  <2>1. Says("get_photo_file", [c \in {200} |-> "Image"], {401, 404}, {404})
    BY Said
  <2>2. Understands("get_photo_file", {}, "None", {401, 404, 405}, {422})
    BY Understood
  <2> QED
    BY <1>12, <2>1, <2>2 DEF Says, Understands, Level, Leaves
<1>13. CASE name = "get_thumbnail_file"
  <2>1. Says("get_thumbnail_file", [c \in {200} |-> "Image"], {401, 404, 409}, {404, 409})
    BY Said
  <2>2. Understands("get_thumbnail_file", {}, "None", {401, 404, 405, 409}, {422})
    BY Understood
  <2> QED
    BY <1>13, <2>1, <2>2 DEF Says, Understands, Level, Leaves
<1>14. CASE name = "flag_photo"
  <2>1. Says("flag_photo", [c \in {201} |-> "FlagOut"], {400, 401, 404, 409}, {404, 409})
    BY Said
  <2>2. Understands("flag_photo", {201}, "FlagOut", {400, 401, 404, 405, 409}, {422})
    BY Understood
  <2> QED
    BY <1>14, <2>1, <2>2 DEF Says, Understands, Level, Leaves
<1>15. CASE name = "moderation_queue"
  <2>1. Says("moderation_queue", [c \in {200} |-> "ModerationQueue"], {401, 403}, {})
    BY Said
  <2>2. Understands("moderation_queue", {200}, "ModerationQueue", {401, 403, 405}, {422})
    BY Understood
  <2> QED
    BY <1>15, <2>1, <2>2 DEF Says, Understands, Level, Leaves
<1>16. CASE name = "decide"
  <2>1. Says("decide", [c \in {200} |-> "FlagOutOrAction"], {400, 401, 403, 404, 409},
        {404, 409})
    BY Said
  <2>2. Understands("decide", {200}, "Either", {400, 401, 403, 404, 405, 409}, {422})
    BY Understood
  <2> QED
    BY <1>16, <2>1, <2>2 DEF Says, Understands, Level, Leaves
<1> QED
  BY <1>1, <1>2, <1>3, <1>4, <1>5, <1>6, <1>7, <1>8, <1>9, <1>10, <1>11, <1>12, <1>13,
      <1>14, <1>15, <1>16 DEF Operations

(* An answer to a call of the SDK that the SDK parses.                     *)
LEMMA Answering ==
  ASSUME ExchangeInv, Parses
  PROVE  LET cls == Sdk!Endpoint[call.op].answers[answer.code] IN
         /\ IF cls = "Either" THEN answer.cls \in {"FlagOut", "ModerationActionOut"}
            ELSE answer.cls = cls /\ cls \in Level(3)
         /\ \E nulls \in NullSets,
             n \in 1 .. Variants : answer.doc = Content(answer.cls, nulls, n)
<1> DEFINE op == call.op
           code == answer.code
           cls == Sdk!Endpoint[op].answers[code]
           takers == Server!Takes(request.method, request.path)
           name == Server!create_app[Server!First(takers)].name
<1>1. /\ stage = "parsed" /\ call # None /\ op \in Operations
      /\ code \in DOMAIN Sdk!Endpoint[op].answers /\ cls # "None"
  BY Endpoints DEF Parses, ExchangeInv, Calling, Parsing
<1>2. PICK a \in Server!Serve(request), nulls \in NullSets,
      n \in 1 .. Variants :
        answer = a @@ [doc |-> Content(a.cls, nulls, n)]
  BY <1>1 DEF ExchangeInv, Serving
<1>3. answer.code = a.code /\ answer.cls = a.cls
      /\ answer.doc = Content(answer.cls, nulls, n)
  <2> DEFINE doc == Content(a.cls, nulls, n)
  <2> HIDE DEF doc
  <2>1. answer.code = a.code /\ answer.cls = a.cls /\ answer.doc = doc
    BY <1>2, Answered, OnTheWire DEF doc
  <2> QED
    BY <2>1 DEF doc
<1>5. request.method = Sdk!Endpoint[op].method /\ request.path = Sdk!Endpoint[op].url
  <2>1. PICK caller \in {"nobody", "user", "admin"} :
          request = Sdk!GetKwargs(op, call.body, call.params) @@ [caller |-> caller]
    BY <1>1 DEF ExchangeInv, Calling
  <2> QED
    BY <2>1, Kwargs
<1>6. takers # {} /\ name = op
  BY <1>1, <1>5, FindsItsRoute
<1>7. Server!OnPath(request.path) = {} => takers = {}
  BY DEF Server!Takes
<1>8. \A m, c, k, g : LET b == Server!Answer(m, c, k, g) IN b.code = c /\ b.cls = k
  BY DEF Server!Answer
<1> HIDE DEF takers, name, op, code, cls
<1>9. Refusals \subseteq {400, 401, 403, 404, 405, 409, 413} /\ {400, 401,
      403} \subseteq Refusals
  BY DEF Refusals
<1>10. {"ErrorResponse", "HTTPValidationError"} \subseteq Level(3)
  BY DEF Level, Leaves
<1>11. /\ code # 500
       /\ code \in Refusals => cls = "ErrorResponse"
       /\ code = 422 => cls = "HTTPValidationError"
       /\ code \in DOMAIN Server!Op[op].success =>
            IF op = "decide" THEN cls = "Either"
            ELSE cls \in Level(3)
                /\ \A d \in DOMAIN Server!Op[op].success : Server!Op[op].success[d] = cls
       /\ code \in Server!Op[op].raises => code \in Refusals
           /\ Server!Op[op].more[code] = "ErrorResponse"
  BY <1>1, Matching DEF cls, code
<1>12. ASSUME a \in Handled(op, request)
       PROVE  IF cls = "Either" THEN a.cls \in {"FlagOut", "ModerationActionOut"}
              ELSE a.cls = cls /\ cls \in Level(3)
  <2> DEFINE got == Server!Payload(Server!Op[op], request).at
             long == op = "upload_photo" /\ got.caption = Str("long")
  <2> HIDE DEF got
  <2>1. a \in Server!Handler(op, got)
    BY <1>12 DEF Handled, got
  <2>2. \/ \E c \in DOMAIN Server!Op[op].success :
              \E k \in IF op = "decide" THEN {"FlagOut", "ModerationActionOut"}
                       ELSE {Server!Op[op].success[d] : d \in DOMAIN Server!Op[op].success} :
                 a = Server!Answer(op, c, k, got)
        \/ \E c \in Server!Op[op].raises : a = Server!Answer(op, c, Server!Op[op].more[c],
            got)
        \/ a = Failure(op)
    BY <1>1, <2>1, HandlerCases
  <2>3. code = a.code
    BY <1>3 DEF code
  <2>4. CASE \E c \in DOMAIN Server!Op[op].success :
               \E k \in IF op = "decide" THEN {"FlagOut", "ModerationActionOut"}
                        ELSE {Server!Op[op].success[d] : d \in DOMAIN Server!Op[op].success} :
                  a = Server!Answer(op, c, k, got)
    <3>1. PICK c \in DOMAIN Server!Op[op].success :
               \E k \in IF op = "decide" THEN {"FlagOut", "ModerationActionOut"}
                        ELSE {Server!Op[op].success[d] : d \in DOMAIN Server!Op[op].success} :
                  a = Server!Answer(op, c, k, got)
      BY <2>4
    <3>2. code = c /\ code \in DOMAIN Server!Op[op].success
      BY <1>8, <2>3, <3>1
    <3>3. CASE op = "decide"
      BY <1>8, <1>11, <3>1, <3>2, <3>3
    <3>4. CASE op # "decide"
      <4>1. a.cls \in {Server!Op[op].success[d] : d \in DOMAIN Server!Op[op].success}
        BY <1>8, <3>1, <3>4
      <4>2. a.cls = cls /\ cls \in Level(3)
        BY <1>11, <3>2, <3>4, <4>1
      <4>3. "Either" \notin Level(3)
        BY DEF Level, Leaves
      <4> QED
        BY <4>2, <4>3
    <3> QED
      BY <3>3, <3>4
  <2>5. CASE \E c \in Server!Op[op].raises : a = Server!Answer(op, c,
        Server!Op[op].more[c], got)
    BY <1>8, <1>10, <1>11, <2>3, <2>5
  <2>6. CASE a = Failure(op)
    BY <1>8, <1>11, <2>3, <2>6 DEF Failure
  <2> QED
    BY <2>2, <2>4, <2>5, <2>6
<1>13. IF cls = "Either" THEN answer.cls \in {"FlagOut", "ModerationActionOut"}
       ELSE answer.cls = cls /\ cls \in Level(3)
  <2>1. \A c : Refusal(op, c).code = c /\ Refusal(op, c).cls = "ErrorResponse"
    BY <1>8 DEF Refusal
  <2>2. Invalid(op).code = 422 /\ Invalid(op).cls = "HTTPValidationError"
    BY <1>8 DEF Invalid
  <2>3. \/ a = Refusal(op, 400) \/ a = Refusal(op, 401) \/ a = Refusal(op, 403)
        \/ a = Invalid(op) \/ a \in Handled(op, request) \/ a = Failure(op)
    BY <1>1, <1>2, <1>6, <1>7, ServeCases DEF takers, name
  <2>4. code = a.code /\ answer.cls = a.cls
    BY <1>3 DEF code
  <2> QED
    BY <1>8, <1>9, <1>10, <1>11, <1>12, <2>1, <2>2, <2>3, <2>4 DEF Failure
<1> QED
  BY <1>3, <1>13 DEF cls, code, op

(* A moderation action lacks a field that every flag has.                  *)
LEMMA NotAFlag ==
  ASSUME NEW nulls, NEW n \in Nat \ {0}
  PROVE  Sdk!FromDict("FlagOut", Server!Document("ModerationActionOut", nulls,
         n)) = Sdk!Raised
<1> DEFINE doc == Server!Document("ModerationActionOut", nulls, n)
           k == 3
<1>1. DOMAIN doc.at = DOMAIN Server!Class["ModerationActionOut"]
  <2>1. k \in 1 .. 3 /\ doc = DocAt(k, "ModerationActionOut", nulls, n)
    BY DEF DocAt
  <2> HIDE DEF k, doc
  <2> QED
    BY <2>1, Documents
<1>2. "reporter_id" \notin DOMAIN doc.at
  <2> HIDE DEF doc
  <2> QED
    BY <1>1, ServerModels DEF Server!ModerationActionOut
<1>3. "reporter_id" \in DOMAIN Sdk!Class["FlagOut"]
      /\ Sdk!Class["FlagOut"]["reporter_id"].req
  BY SdkModels DEF Sdk!FlagOut, Sdk!Required, Sdk!Declared
<1> HIDE DEF doc
<1> QED
  BY <1>2, <1>3 DEF Sdk!FromDict, Sdk!FromDictWith, doc

(* An answer that the SDK parses is understood.                            *)
LEMMA Understanding == ASSUME ExchangeInv, Parses PROVE AnswersParsed
<1> DEFINE listed == Sdk!Endpoint[call.op].answers[answer.code]
           cls == answer.cls
<1>1. /\ answer.code \in DOMAIN Sdk!Endpoint[call.op].answers /\ listed # "None"
      /\ result = Sdk!ParseResponse(call.op, call.raises, answer)
  BY DEF Parses, ExchangeInv, Parsing
<1>2. PICK nulls \in NullSets, n \in 1 .. Variants : answer.doc = Content(cls, nulls, n)
  BY Answering
<1>3. IF listed = "Either" THEN cls \in {"FlagOut", "ModerationActionOut"}
      ELSE cls = listed /\ cls \in Level(3)
  BY Answering
<1>4. n \in Nat \ {0}
  BY ExchangeAssumption
<1> HIDE DEF cls, listed
<1>5. cls \in Level(3) /\ cls \in DOMAIN Server!Class
  <2>1. {"FlagOut", "ModerationActionOut"} \subseteq Level(3)
    BY DEF Level, Leaves
  <2>2. Level(3) \subseteq DOMAIN Server!Class
    BY ServerModels DEF Level, Leaves
  <2> QED
    BY <1>3, <2>1, <2>2
<1>6. answer.doc = Server!Document(cls, nulls, n)
  BY <1>2, <1>5 DEF Content
<1> DEFINE doc == answer.doc
           o == Sdk!FromDict(cls, doc)
<1>7. /\ o.is = "model" /\ o.cls = cls /\ SameDoc(Sdk!ToDict(o), doc)
      /\ \A f \in DOMAIN o.at :
           LET kind == Sdk!Class[cls][f].kind
           IN  kind.of \in {"time", "enum", "model", "list"} => o.at[f] = Null
               \/ o.at[f].is = kind.of
  <2>1. Round(3, cls, nulls, n)
    BY <1>4, <1>5, RoundTrip
  <2>2. DocAt(3, cls, nulls, n) = doc
    BY <1>6 DEF DocAt
  <2>3. FromAt(3, cls, doc) = o
    BY DEF FromAt
  <2>4. ToAt(3, o) = Sdk!ToDict(o)
    BY DEF ToAt
  <2>5. Depth(3) = 5
    BY DEF Depth
  <2> HIDE DEF o, doc
  <2>6. SameAt(5, ToAt(3, o), doc)
    BY <2>1, <2>2, <2>3, <2>5 DEF Round
  <2>7. SameAt(5, ToAt(3, o), doc) <=> SameDoc(ToAt(3, o), doc)
    BY DEF SameAt
  <2> QED
    BY <2>1, <2>2, <2>3, <2>4, <2>6, <2>7 DEF Round, Converts
<1>8. o # Raised
  BY <1>7, Tags
<1>9. Sdk!Parsed(call.op, answer) = o
  <2>1. CASE listed = "Either" /\ cls = "FlagOut"
    BY <1>8, <2>1, Shared DEF Sdk!Parsed, listed
  <2>2. CASE listed = "Either" /\ cls = "ModerationActionOut"
    <3>1. Sdk!FromDict("FlagOut", doc) = Sdk!Raised
      BY <1>4, <1>6, <2>2, NotAFlag
    <3> QED
      BY <2>2, <3>1 DEF Sdk!Parsed, listed
  <2>3. CASE listed # "Either"
    BY <1>1, <1>3, <2>3 DEF Sdk!Parsed, listed
  <2> QED
    BY <1>3, <2>1, <2>2, <2>3
<1> HIDE DEF o
<1>10. result.raised = "nothing" /\ result.parsed = o
  BY <1>1, <1>8, <1>9, Shared DEF Sdk!ParseResponse, Sdk!Outcome
<1> QED
  BY <1>7, <1>10 DEF AnswersParsed, cls

(* The objects the SDK makes of the API's answers say what the answers say *)
(* (the from_dict and to_dict of every response class, _parse_response).   *)
THEOREM AnswersSurviveParsing == Spec => []AnswersParsed
<1>1. ExchangeInv => AnswersParsed
  BY Understanding DEF AnswersParsed
<1> QED
  BY <1>1, ExchangeInvHolds, PTL
=============================================================================
