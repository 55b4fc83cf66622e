------------------------------- MODULE MCPool -------------------------------
(* Values of the constants of Pool for TLC. *)
EXTENDS Pool

CONSTANTS q1, q2, q3, q4

\* Only a moderator's, a public and a file request use the database.
Mixed == [r \in Request |-> CASE r = q1 -> "admin" [] r = q2 -> "public"
                              [] r = q3 -> "stranger" [] OTHER -> "bare"]
=============================================================================
