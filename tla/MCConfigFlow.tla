----------------------------- MODULE MCConfigFlow -----------------------------
(* ConfigFlow for TLC: entries, flows, accounts and tokens are interchangeable. *)
EXTENDS ConfigFlow, TLC

Symmetry == Permutations(Entries) \cup Permutations(Flows)
            \cup Permutations(Accounts) \cup Permutations(Tokens)
===============================================================================
