-------------------------------- MODULE MCRooms --------------------------------
(* Instances of Rooms for TLC.                                             *)
EXTENDS Rooms, TLC

TabSymmetry == Permutations(Tabs)
Symmetry    == TabSymmetry \cup Permutations(Rooms)

=============================================================================
