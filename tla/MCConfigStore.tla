--------------------------- MODULE MCConfigStore ---------------------------
(* ConfigStore over the layouts its runs consider. *)
EXTENDS ConfigStore

\* Two groups, on a store of two pages: the second begins with the second group.
TwoGroups == <<"system", "trims">>
TwoPages  == {0, 2}

OnePage   == {0}
=============================================================================
