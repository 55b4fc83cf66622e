----------------------------- MODULE MCAccounts -----------------------------
(* Values of the constants of Accounts for TLC. *)
EXTENDS Accounts, TLC

CONSTANTS q1, q2, q3, q4

\* "Ann" and "ann" are one address to the API.
Addresses == {"Ann", "ann"}
LowerCase == [a \in Addresses |-> IF a = "Ann" THEN "ann" ELSE a]

Credentials(op, addresses, passwords) ==
    {[op |-> op, address |-> a, password |-> p] : a \in addresses, p \in passwords}
As(op, ids) == {[op |-> op, user |-> u] : u \in ids}

\* One address in two spellings and with two passwords; the account with
\* id 1, its tokens and what they allow.
AccountCalls == Credentials("register", {"Ann"}, {"right"})
                  \cup Credentials("register", {"ann"}, {"wrong"})
                  \cup Credentials("login", {"Ann", "ann"}, {"right"})
                  \cup As("me", {1}) \cup As("moderate", {1})

Symmetry == Permutations(Request)
=============================================================================
