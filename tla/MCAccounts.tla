----------------------------- MODULE MCAccounts -----------------------------
(* Handlers, invitations and generated identifiers are interchangeable.     *)
EXTENDS Accounts, TLC

MCSymmetry ==
    Permutations(Handlers) \union Permutations(Houses)
        \union Permutations(Profiles) \union Permutations(Links)
        \union Permutations(Invitations)
=============================================================================
