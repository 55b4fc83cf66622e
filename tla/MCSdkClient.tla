----------------------------- MODULE MCSdkClient -----------------------------
(* Values of the constants of SdkClient for TLC: exchanging the tokens, or  *)
(* the blocking with the asynchronous httpx clients, changes nothing.       *)
EXTENDS SdkClient, TLC

Symmetry == Permutations(Tokens) \cup Permutations(Modes)
=============================================================================
