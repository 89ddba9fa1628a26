------------------------------ MODULE MCIngest ------------------------------
(* Three DATs in two versions each.  Titles: two discs of A, its USA        *)
(* release, B and C; hashes and keys are numbers, crcs follow 10.           *)
EXTENDS CatalogIngest, TLC

Rec(key, title, serial, sha1, crc) ==
    [key |-> key, title |-> title, serial |-> serial, sha1 |-> sha1, crc |-> crc]

MCDats ==
    (1 :> {<<Rec(21, "A1", "s1", 2, None), Rec(22, "AU", None, 3, None),
                     Rec(23, "C", None, 1, None)>>,
                   <<Rec(21, "A1", "s1", 2, 12), Rec(24, "A2", None, None, 12),
                     Rec(25, "B", None, 2, None)>>})
 @@ (2 :> {<<Rec(26, "B", "s2", 2, None)>>,
                  <<Rec(21, "A1", "s1", None, None), Rec(24, "A2", None, 1, None),
                    Rec(22, "AU", "s1", 3, 13)>>})
 @@ (3 :> {<<Rec(21, "A1", "s1", 3, None), Rec(26, "B", "s2", 1, None)>>,
                 <<Rec(23, "C", None, 3, 12)>>})

MCNorm == ("A1" :> "a" @@ "A2" :> "a" @@ "AU" :> "a usa" @@ "B" :> "b" @@ "C" :> "c")
MCBase == ("A1" :> "a" @@ "A2" :> "a" @@ "AU" :> "a" @@ "B" :> "b" @@ "C" :> "c")
MCLength == ("A1" :> 10 @@ "A2" :> 10 @@ "AU" :> 7 @@ "B" :> 1 @@ "C" :> 1)
MCNormLength == ("A1" :> 1 @@ "A2" :> 1 @@ "AU" :> 5 @@ "B" :> 1 @@ "C" :> 1)

=============================================================================
