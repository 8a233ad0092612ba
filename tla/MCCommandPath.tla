--------------------------- MODULE MCCommandPath ---------------------------
(* Instances of CommandPath for TLC. *)
EXTENDS CommandPath, TLC

Narrow == [onThreshold |-> 0, offThreshold |-> 1, outOfWindow |-> TRUE,
           restartDefault |-> FALSE]
Wide   == [onThreshold |-> 0, offThreshold |-> 2, outOfWindow |-> FALSE,
           restartDefault |-> TRUE]

OneConfig  == {Wide}
MCConfigs  == {Narrow, Wide}
MCLevels   == 0 .. 2

Symmetry == Permutations(CommandIds)
=============================================================================
