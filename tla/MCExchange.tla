----------------------------- MODULE MCExchange -----------------------------
(* Small instances of Exchange: no field null, each nullable field null on *)
(* its own or all of them at once.                                         *)
EXTENDS Exchange

Nullable == {"caption", "thumbnail", "width", "height", "error", "updated_at",
             "note", "resolution", "resolved_by_id", "resolved_at", "photo",
             "reporter_email", "moderator_id"}
NullNone == {{}}
NullSome == {{}, Nullable} \union {{f} : f \in Nullable}
=============================================================================
