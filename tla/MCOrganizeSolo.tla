--------------------------- MODULE MCOrganizeSolo ---------------------------
(* One process; two rows, one of them a member of an archive, that compete *)
(* for a name and can also take each other's; entries recorded a second    *)
(* apart; nothing fails.                                                   *)
EXTENDS OrganizeEngineRefinement, TLC

MCHome == 1 :> "a" @@ 2 :> "b"
MCDisk0 == [q \in Path |-> IF q = "a" THEN "rom1" ELSE IF q = "b" THEN "rom2" ELSE NoFile]
MCTargets == 1 :> {"b", "c"} @@ 2 :> {"a", "c"}
MCSuffixed == [q \in Path |-> IF q = "c" THEN <<"c_1">> ELSE <<>>]
MCNone == [q \in Path |-> {}]
=============================================================================
