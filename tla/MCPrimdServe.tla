---------------------------- MODULE MCPrimdServe ----------------------------
(* Three session ids, two of which are sanitised to one file name; a cold  *)
(* tier was provisioned for one file.                                      *)
EXTENDS PrimdServe, TLC

CONSTANTS anna, annaToo, bob, fileA, fileB, oldMemories

\* "anna@x" and "anna_x" are two ids and one file name.
TwoShareAFile == anna :> fileA @@ annaToo :> fileA @@ bob :> fileB

SharedPrior == {[by |-> Indexer, from |-> 1, to |-> 1]}

Memories == fileA :> Absent @@ fileB :> oldMemories

Started(p, s, c) == [predictor |-> p, srStateDir |-> s, coldTierDir |-> c]

SomeConfigs ==
  {Started("markov", TRUE, TRUE), Started("sr", TRUE, TRUE), Started("hybrid", FALSE, FALSE)}

=============================================================================
