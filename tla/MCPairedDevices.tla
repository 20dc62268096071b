-------------------------- MODULE MCPairedDevices ---------------------------
EXTENDS PairedDevices, TLC

(* Contents of a catalog file: two lists that nothing tells apart. *)
CONSTANTS OldList, NewList
MCCatalogLists == {OldList, NewList}

(* What a parent types: a name, or one that is nothing but dots. *)
MCOwnLists == {{"chat.example"}, {"...."}}

MCLists == MCCatalogLists \union MCOwnLists \union {{}, {"..."}, {".."}, {"."}}

(* One trailing dot is taken away, and no name may be left without any. *)
MCNormalize ==
    [list \in MCLists |->
        CASE list = {"...."} -> {"..."}
          [] list = {"..."} -> {".."}
          [] list = {".."} -> {"."}
          [] list = {"."} -> Refused
          [] OTHER -> list]

MCSymmetry ==
    Permutations(Panels) \union Permutations(Profiles) \union Permutations(MCCatalogLists)
=============================================================================
