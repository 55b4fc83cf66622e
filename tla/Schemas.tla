------------------------------ MODULE Schemas -------------------------------
(***************************************************************************)
(* app/schemas: the pydantic models of the server.  A response model       *)
(* writes every field it declares; a request model reads a JSON object,    *)
(* fills in the defaults, drops what it does not know and rejects (422)    *)
(* what it cannot accept.                                                  *)
(***************************************************************************)
EXTENDS Wire

FlagReason == <<"spam", "nudity", "violence", "copyright", "other">>
FlagStatus == <<"pending", "resolved">>
FlagResolution == <<"dismissed", "actioned">>
ModerationDecision == <<"dismiss", "action">>
ThumbnailStatus == <<"pending", "processing", "ready", "failed">>

UserCreate == [email |-> Required(Email), password |-> Required(Limited)]
UserLogin == [email |-> Required(Email), password |-> Required(Text)]
UserOut ==
    [id |-> Required(Number), email |-> Required(Text),
     is_active |-> Required(Flagged), is_admin |-> Required(Flagged),
     created_at |-> Required(Stamp)]
Token == [access_token |-> Required(Text), token_type |-> Optional(Text)]
ErrorResponse == [detail |-> Required(Text)]

ThumbnailOut ==
    [status |-> Required(Words(ThumbnailStatus)),
     width |-> OptionalOrNull(Number), height |-> OptionalOrNull(Number),
     error |-> OptionalOrNull(Text), attempts |-> Optional(Number),
     updated_at |-> OptionalOrNull(Stamp)]
PhotoOut ==
    [id |-> Required(Number), owner_id |-> Required(Number),
     size_bytes |-> Required(Number), width |-> Required(Number),
     height |-> Required(Number), original_filename |-> Required(Text),
     content_type |-> Required(Text), caption |-> OptionalOrNull(Text),
     created_at |-> Required(Stamp), updated_at |-> Required(Stamp),
     thumbnail |-> OptionalOrNull(One("ThumbnailOut"))]
PhotoUpdate == [caption |-> OptionalOrNull(Limited)]
PhotoList ==
    [items |-> Required(Many("PhotoOut")), total |-> Required(Number),
     limit |-> Required(Number), offset |-> Required(Number)]

FlagCreate ==
    [reason |-> Required(Words(FlagReason)), note |-> OptionalOrNull(Limited)]
FlagOut ==
    [id |-> Required(Number), photo_id |-> Required(Number),
     reporter_id |-> Required(Number), reason |-> Required(Words(FlagReason)),
     note |-> RequiredOrNull(Text), status |-> Required(Words(FlagStatus)),
     resolution |-> RequiredOrNull(Words(FlagResolution)),
     resolved_by_id |-> RequiredOrNull(Number),
     resolved_at |-> RequiredOrNull(Stamp), created_at |-> Required(Stamp)]
QueuePhoto ==
    [id |-> Required(Number), owner_id |-> Required(Number),
     caption |-> RequiredOrNull(Text), created_at |-> Required(Stamp)]
QueueItem == FlagOut @@
    [photo |-> OptionalOrNull(One("QueuePhoto")),
     reporter_email |-> OptionalOrNull(Text)]
ModerationQueue ==
    [items |-> Required(Many("QueueItem")), total |-> Required(Number),
     limit |-> Required(Number), offset |-> Required(Number)]
DecisionCreate ==
    [decision |-> Required(Words(ModerationDecision)),
     note |-> OptionalOrNull(Limited)]
ModerationActionOut ==
    [id |-> Required(Number), photo_id |-> Required(Number),
     flag_id |-> Required(Number), moderator_id |-> RequiredOrNull(Number),
     decision |-> Required(Words(ModerationDecision)),
     note |-> RequiredOrNull(Text), created_at |-> Required(Stamp)]

(* FastAPI's own 422 body, and the plain dicts of the health routes.       *)
ValidationError ==
    [type |-> Required(Text), msg |-> Required(Text), input |-> Required(Text),
     loc |-> Required(Text)]
HTTPValidationError == [detail |-> Required(Many("ValidationError"))]
Healthz == [status |-> Required(Text)]
Readyz == [status |-> Required(Text), checks |-> Required(Text)]

Class ==
    [UserOut |-> UserOut, Token |-> Token, ErrorResponse |-> ErrorResponse,
     ThumbnailOut |-> ThumbnailOut, PhotoOut |-> PhotoOut,
     PhotoList |-> PhotoList, FlagOut |-> FlagOut, QueuePhoto |-> QueuePhoto,
     QueueItem |-> QueueItem, ModerationQueue |-> ModerationQueue,
     ModerationActionOut |-> ModerationActionOut,
     ValidationError |-> ValidationError,
     HTTPValidationError |-> HTTPValidationError,
     Healthz |-> Healthz, Readyz |-> Readyz,
     UserCreate |-> UserCreate, UserLogin |-> UserLogin,
     PhotoUpdate |-> PhotoUpdate, FlagCreate |-> FlagCreate,
     DecisionCreate |-> DecisionCreate,
     Upload |-> [caption |-> OptionalOrNull(Text)]]

-----------------------------------------------------------------------------
(* What a response model writes for one row: the fields in `nulls` that    *)
(* may be null are, an enumeration has its n-th word, a list n-1 members,  *)
(* and each other field a value of its own, so that no two are confused.   *)
Pick(s, n) == s[((n - 1) % Len(s)) + 1]

DocumentWith(Nested(_, _, _), cls, nulls, n) ==
    LET Value(f, field) ==
            IF field.null /\ f \in nulls THEN Null ELSE
            CASE field.kind.of = "number" -> Num(f)
              [] field.kind.of = "time" -> Str("noonZ")
              [] field.kind.of = "enum" -> Str(Pick(field.kind.words, n))
              [] field.kind.of = "model" -> Nested(field.kind.cls, nulls, n)
              [] field.kind.of = "list" ->
                   List([i \in 1..(n - 1) |->
                            Nested(field.kind.cls, nulls, n + i)])
              [] OTHER -> Str(f)
    IN  Obj([f \in DOMAIN Class[cls] |-> Value(f, Class[cls][f])])

(* A list holds rows, a row may hold an object, and that holds none.       *)
NoDocument(cls, nulls, n) == Null
PartDocument(cls, nulls, n) == DocumentWith(NoDocument, cls, nulls, n)
RowDocument(cls, nulls, n) == DocumentWith(PartDocument, cls, nulls, n)
Document(cls, nulls, n) == DocumentWith(RowDocument, cls, nulls, n)

(* What a request model makes of a JSON object.                            *)
Accepts(kind, v) ==
    CASE kind.of = "enum" ->
           v.is = "str" /\ \E i \in DOMAIN kind.words : v.word = kind.words[i]
      [] kind.of = "email" -> v.is = "str" /\ v.word # "bad"
      [] kind.of = "limited" -> v.is = "str" /\ v.word # "long"
      [] OTHER -> v.is = "str"

Validate(cls, at) ==
    LET fields == Class[cls]
        Ok(f) == IF f \in DOMAIN at
                 THEN \/ at[f] = Null /\ fields[f].null
                      \/ at[f] # Null /\ Accepts(fields[f].kind, at[f])
                 ELSE ~fields[f].req
    IN  IF \A f \in DOMAIN fields : Ok(f)
        THEN Obj([f \in DOMAIN fields |->
                     IF f \in DOMAIN at THEN at[f] ELSE Null])
        ELSE Raised
=============================================================================
