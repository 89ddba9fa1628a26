------------------------------ MODULE MCBundle ------------------------------
(* A disc that becomes a chd, a Wii disc that becomes a wbfs (and is then  *)
(* zipped), and a cartridge.                                               *)
EXTENDS RomBundler

MCTitleOf == [r \in Rom |-> CASE r = "disc" -> "d" [] r = "wii" -> "w" [] r = "cart" -> "c"]
MCSource == [r \in Rom |-> <<"lib", r, "raw">>]
MCPlanned == [r \in Rom |-> CASE r = "disc" -> "chd" [] r = "wii" -> "wbfs" [] r = "cart" -> "raw"]
MCModes == {TRUE}
MCBothModes == {TRUE, FALSE}
=============================================================================
