-------------------------------- MODULE Wire --------------------------------
(***************************************************************************)
(* The values that cross the HTTP boundary, and the vocabulary in which    *)
(* the schemas of both sides are written: the pydantic models of           *)
(* app/schemas and the attrs classes of the generated SDK.                 *)
(*                                                                         *)
(* A value is a record tagged by its type.  JSON has null, numbers,        *)
(* strings, objects and lists; Python adds the SDK's UNSET, datetimes,     *)
(* enumeration members and objects of a model class.  A string is a word   *)
(* that stands for what the two sides tell apart: an enumeration value, an *)
(* instant in one of its ISO notations, a text that fits its limit         *)
(* ("text") and one that does not ("long"), an e-mail address that is none *)
(* ("bad").  A number is one too: a limit or an offset inside the bounds   *)
(* of the query ("1", "20") or outside ("1000001").                        *)
(***************************************************************************)
EXTENDS Naturals, Sequences, FiniteSets

(* As in the module TLC, where they are built in: a function on one value, *)
(* and two functions in one, of which the first goes before the second.    *)
d :> e == [x \in {d} |-> e]
f @@ g == [x \in DOMAIN f \union DOMAIN g |-> IF x \in DOMAIN f THEN f[x] ELSE g[x]]

Null == [is |-> "null"]
Unset == [is |-> "unset"]
Raised == [is |-> "raised"]            \* no value: the conversion raised
Str(w) == [is |-> "str", word |-> w]
Num(w) == [is |-> "num", word |-> w]
Enum(w) == [is |-> "enum", word |-> w]
Time(t) == [is |-> "time", instant |-> t]
Obj(at) == [is |-> "obj", at |-> at]
List(s) == [is |-> "list", items |-> s]
Model(cls, at, more) == [is |-> "model", cls |-> cls, at |-> at, more |-> more]

NoFields == [f \in {} |-> Null]

(* The instant a timestamp names.  pydantic writes UTC as "Z", datetime's  *)
(* isoformat() as "+00:00", and fromisoformat() reads both.                *)
Instant == ("noonZ" :> "noon") @@ ("noon+00:00" :> "noon")
IsoFormat == ("noon" :> "noon+00:00")

-----------------------------------------------------------------------------
(* Kinds of fields, and the four ways a class declares a field.            *)
Plain == [of |-> "plain"]               \* taken as it comes
Number == [of |-> "number"]
Text == [of |-> "text"]
Limited == [of |-> "limited"]          \* str with a length constraint
Email == [of |-> "email"]
Stamp == [of |-> "time"]
Flagged == [of |-> "bool"]
Words(s) == [of |-> "enum", words |-> s]
One(cls) == [of |-> "model", cls |-> cls]
Many(cls) == [of |-> "list", cls |-> cls]

Declared(kind, req, null) == [kind |-> kind, req |-> req, null |-> null]
Required(kind) == Declared(kind, TRUE, FALSE)
RequiredOrNull(kind) == Declared(kind, TRUE, TRUE)
Optional(kind) == Declared(kind, FALSE, FALSE)
OptionalOrNull(kind) == Declared(kind, FALSE, TRUE)
=============================================================================
