-------------------------- MODULE MCOrganizeShared --------------------------
(* Two processes on one library; their files compete for one name, and one *)
(* may take the place the other left.  An operation may fail, a process    *)
(* die, or another program drop a file where one has left.                 *)
EXTENDS OrganizeEngine, TLC

MCHome == 1 :> "a" @@ 2 :> "b"
MCDisk0 == [q \in Path |-> IF q = "a" THEN "rom1" ELSE IF q = "b" THEN "rom2" ELSE NoFile]
MCTargets == 1 :> {"c"} @@ 2 :> {"a", "c"}
MCSuffixed == [q \in Path |-> IF q = "c" THEN <<"c_1">> ELSE <<>>]
MCNone == [q \in Path |-> {}]

(* The bound on a behaviour: a failure, a death or a foreign file.         *)
OneDisturbance ==
    faults + crashes + Cardinality({q \in Path : disk[q] \in Foreign}) <= 1

ProcSymmetry == Permutations(Proc)
=============================================================================
