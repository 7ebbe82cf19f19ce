----------------------------- MODULE MCAccounts -----------------------------
(* Two merchants, three branches, a single-branch plan and a larger one.     *)
EXTENDS Accounts, TLC
CONSTANTS b1, b2, b3, m1, m2, d1, o1, o2, h1, h2
MCSymmetry == Permutations(Devices) \cup Permutations(Merchants) \cup Permutations(Handlers) \cup Permutations(Owners)
                \cup Permutations(Branches)
=============================================================================
