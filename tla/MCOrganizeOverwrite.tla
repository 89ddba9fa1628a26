------------------------- MODULE MCOrganizeOverwrite -------------------------
(* One process that overwrites: two files want one name, by move and by    *)
(* copy; an operation may fail and the process may die.                    *)
EXTENDS OrganizeEngine, TLC

MCHome == 1 :> "a" @@ 2 :> "b"
MCDisk0 == [q \in Path |-> IF q = "a" THEN "rom1" ELSE IF q = "b" THEN "rom2" ELSE NoFile]
MCTargets == 1 :> {"b", "c"} @@ 2 :> {"c"}
MCSwapped == 1 :> {"a", "c"} @@ 2 :> {"a"}
MCSuffixed == [q \in Path |-> <<>>]
MCStash == [q \in Path |-> IF q \in {"a", "b", "c"} THEN {".backup"} ELSE {}]
MCStage == [q \in Path |-> IF q \in {"a", "b", "c"} THEN {".copy"} ELSE {}]
=============================================================================
