------------------------------ MODULE MCLibrary ------------------------------
(* An image and a sheet that belongs to it; the catalog knows the image,   *)
(* the online service knows another content.                               *)
EXTENDS LibraryMatch, TLC

MCParent == [f \in File |-> IF f = "game.cue" THEN "game.bin" ELSE None]
MCContent0 == [f \in File |-> IF f = "game.bin" THEN "d1" ELSE "d2"]
MCCatalog0 == [d \in Digest |-> IF d = "d1" THEN "usa" ELSE None]
MCOnline == [d \in Digest |-> IF d = "d2" THEN "japan" ELSE None]

ProcSymmetry == Permutations(Proc)
=============================================================================
