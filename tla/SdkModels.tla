----------------------------- MODULE SdkModels ------------------------------
(***************************************************************************)
(* snap_track_api_client/models: the generated attrs classes.  Every class *)
(* has the same three operations, which differ only in its fields:         *)
(*   from_dict   pops the required keys (KeyError), converts timestamps,   *)
(*               enumerations and nested models (ValueError, TypeError),   *)
(*               and leaves the rest in additional_properties; a nullable  *)
(*               field that does not convert is kept as it came,           *)
(*   to_dict     writes additional_properties first and the fields that    *)
(*               are set over them,                                        *)
(*   the mapping protocol over additional_properties.                      *)
(***************************************************************************)
EXTENDS Wire

FlagReason == {"copyright", "nudity", "other", "spam", "violence"}
FlagResolution == {"actioned", "dismissed"}
FlagStatus == {"pending", "resolved"}
ModerationDecision == {"action", "dismiss"}
ThumbnailStatus == {"failed", "pending", "processing", "ready"}

UserCreate == [email |-> Required(Plain), password |-> Required(Plain)]
UserLogin == [email |-> Required(Plain), password |-> Required(Plain)]
UserOut ==
    [created_at |-> Required(Stamp), email |-> Required(Plain),
     id |-> Required(Plain), is_active |-> Required(Plain),
     is_admin |-> Required(Plain)]
Token == [access_token |-> Required(Plain), token_type |-> Optional(Plain)]
ErrorResponse == [detail |-> Required(Plain)]
ValidationError ==
    [loc |-> Required(Plain), msg |-> Required(Plain), type |-> Required(Plain)]
HTTPValidationError == [detail |-> Optional(Many("ValidationError"))]
Healthz == NoFields
Readyz == NoFields

ThumbnailOut ==
    [status |-> Required(Words(ThumbnailStatus)), attempts |-> Optional(Plain),
     updated_at |-> OptionalOrNull(Stamp), error |-> OptionalOrNull(Plain),
     height |-> OptionalOrNull(Plain), width |-> OptionalOrNull(Plain)]
PhotoOut ==
    [content_type |-> Required(Plain), height |-> Required(Plain),
     id |-> Required(Plain), original_filename |-> Required(Plain),
     owner_id |-> Required(Plain), size_bytes |-> Required(Plain),
     width |-> Required(Plain), created_at |-> Required(Stamp),
     updated_at |-> Required(Stamp), caption |-> OptionalOrNull(Plain),
     thumbnail |-> OptionalOrNull(One("ThumbnailOut"))]
PhotoUpdate == [caption |-> OptionalOrNull(Plain)]
PhotoList ==
    [items |-> Required(Many("PhotoOut")), limit |-> Required(Plain),
     offset |-> Required(Plain), total |-> Required(Plain)]
BodyUpload == [file |-> Required(Plain), caption |-> OptionalOrNull(Plain)]

FlagCreate ==
    [reason |-> Required(Words(FlagReason)), note |-> OptionalOrNull(Plain)]
(* Mutant of FlagOut: generated with every field optional and nullable.    *)
FlagOutLenient ==
    [created_at |-> OptionalOrNull(Stamp),
     resolved_at |-> OptionalOrNull(Stamp), id |-> OptionalOrNull(Plain),
     photo_id |-> OptionalOrNull(Plain), reporter_id |-> OptionalOrNull(Plain),
     reason |-> OptionalOrNull(Plain), status |-> OptionalOrNull(Plain),
     note |-> OptionalOrNull(Plain), resolved_by_id |-> OptionalOrNull(Plain),
     resolution |-> OptionalOrNull(Plain)]
FlagOut ==
    [created_at |-> Required(Stamp), id |-> Required(Plain),
     photo_id |-> Required(Plain), reporter_id |-> Required(Plain),
     reason |-> Required(Words(FlagReason)),
     status |-> Required(Words(FlagStatus)), note |-> RequiredOrNull(Plain),
     resolved_by_id |-> RequiredOrNull(Plain),
     resolution |-> RequiredOrNull(Words(FlagResolution)),
     resolved_at |-> RequiredOrNull(Stamp)]
QueuePhoto ==
    [created_at |-> Required(Stamp), caption |-> RequiredOrNull(Plain),
     id |-> Required(Plain), owner_id |-> Required(Plain)]
QueueItem ==
    [created_at |-> Required(Stamp), id |-> Required(Plain),
     photo_id |-> Required(Plain), reporter_id |-> Required(Plain),
     reason |-> Required(Words(FlagReason)),
     status |-> Required(Words(FlagStatus)), note |-> RequiredOrNull(Plain),
     resolved_by_id |-> RequiredOrNull(Plain),
     resolution |-> RequiredOrNull(Words(FlagResolution)),
     resolved_at |-> RequiredOrNull(Stamp),
     photo |-> OptionalOrNull(One("QueuePhoto")),
     reporter_email |-> OptionalOrNull(Plain)]
ModerationQueue ==
    [items |-> Required(Many("QueueItem")), limit |-> Required(Plain),
     offset |-> Required(Plain), total |-> Required(Plain)]
DecisionCreate ==
    [decision |-> Required(Words(ModerationDecision)),
     note |-> OptionalOrNull(Plain)]
ModerationActionOut ==
    [created_at |-> Required(Stamp),
     decision |-> Required(Words(ModerationDecision)),
     flag_id |-> Required(Plain), id |-> Required(Plain),
     photo_id |-> Required(Plain), moderator_id |-> RequiredOrNull(Plain),
     note |-> RequiredOrNull(Plain)]

Class ==
    [UserCreate |-> UserCreate, UserLogin |-> UserLogin, UserOut |-> UserOut,
     Token |-> Token, ErrorResponse |-> ErrorResponse,
     ValidationError |-> ValidationError,
     HTTPValidationError |-> HTTPValidationError,
     Healthz |-> Healthz, Readyz |-> Readyz, ThumbnailOut |-> ThumbnailOut,
     PhotoOut |-> PhotoOut, PhotoUpdate |-> PhotoUpdate,
     PhotoList |-> PhotoList, BodyUpload |-> BodyUpload,
     FlagCreate |-> FlagCreate, FlagOut |-> FlagOut, QueuePhoto |-> QueuePhoto,
     QueueItem |-> QueueItem, ModerationQueue |-> ModerationQueue,
     DecisionCreate |-> DecisionCreate,
     ModerationActionOut |-> ModerationActionOut]

-----------------------------------------------------------------------------
Less(d, names) == [f \in DOMAIN d \ names |-> d[f]]

FromDictWith(Nested(_, _), cls, doc) ==
    LET fields == Class[cls]
        Items(c, s) ==
            LET each == [i \in DOMAIN s |-> Nested(c, s[i])]
            IN  IF \E i \in DOMAIN s : each[i] = Raised
                THEN Raised ELSE List(each)
        Convert(kind, v) ==
            CASE kind.of = "time" ->
                   IF v.is = "str" /\ v.word \in DOMAIN Instant
                   THEN Time(Instant[v.word]) ELSE Raised
              [] kind.of = "enum" ->
                   IF v.is = "str" /\ v.word \in kind.words
                   THEN Enum(v.word) ELSE Raised
              [] kind.of = "model" -> Nested(kind.cls, v)
              [] kind.of = "list" ->
                   IF v.is = "list" THEN Items(kind.cls, v.items) ELSE Raised
              [] OTHER -> v
        Field(f) ==
            IF f \notin DOMAIN doc.at
            THEN IF fields[f].req THEN Raised ELSE Unset
            ELSE LET v == doc.at[f]
                     got == Convert(fields[f].kind, v)
                 IN  IF fields[f].null /\ (v = Null \/ got = Raised)
                     THEN v ELSE got
        at == [f \in DOMAIN fields |-> Field(f)]
    IN  IF doc.is # "obj" THEN Raised
        ELSE IF \E f \in DOMAIN at : at[f] = Raised THEN Raised
        ELSE Model(cls, at, Less(doc.at, DOMAIN fields))

ToDictWith(Nested(_), object) ==
    LET Plainly(v) ==
            CASE v.is = "time" -> Str(IsoFormat[v.instant])
              [] v.is = "enum" -> Str(v.word)
              [] v.is = "model" -> Nested(v)
              [] v.is = "list" ->
                   List([i \in DOMAIN v.items |-> Nested(v.items[i])])
              [] OTHER -> v
        set == {f \in DOMAIN object.at : object.at[f] # Unset}
    IN  Obj([f \in set |-> Plainly(object.at[f])] @@ object.more)

(* A list holds rows, a row may hold an object, and that holds none.       *)
NoModel(cls, doc) == Raised
PartFromDict(cls, doc) == FromDictWith(NoModel, cls, doc)
RowFromDict(cls, doc) == FromDictWith(PartFromDict, cls, doc)
FromDict(cls, doc) == FromDictWith(RowFromDict, cls, doc)
AsIs(object) == object
PartToDict(object) == ToDictWith(AsIs, object)
RowToDict(object) == ToDictWith(PartToDict, object)
ToDict(object) == ToDictWith(RowToDict, object)

(* Mutant of ToMultipart: only the file and the additional properties.     *)
ToMultipartFileOnly(object) == Obj(object.more)

(* The parts of a multipart upload: str() turns a caption of None into the *)
(* text "None"; an unset caption has no part; of two parts of one name the *)
(* server's form keeps the last.  The file itself is always sent.          *)
ToMultipart(object) ==
    LET caption == object.at.caption
        parts == IF caption = Unset THEN NoFields
                 ELSE [f \in {"caption"} |->
                          IF caption = Null THEN Str("None") ELSE caption]
    IN  Obj(object.more @@ parts)

(* object[key] = value                                                     *)
SetItem(object, key, value) ==
    [object EXCEPT !.more = (key :> value) @@ @]
=============================================================================
