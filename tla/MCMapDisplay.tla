---------------------------- MODULE MCMapDisplay ----------------------------
(* Small instance of MapDisplay for TLC: the maps have 4 x 4 cells. *)
EXTENDS MapDisplay

\* As the program's 60 x 60 and 60 x 30 are to its maps of 60 x 30.
MCBuiltIn == <<<<4, 8>>, <<4, 4>>>>

MCServerLayout == <<9, 6>>

\* As large as the first layout, as many characters as it has or as the last one
\* has, narrower, lower, and large in both directions.
MCTerminals == {<<4, 8>>, <<8, 4>>, <<9, 4>>, <<3, 20>>, <<20, 3>>, <<20, 20>>, <<3, 3>>}
MCDisplays == {<<30, 12>>, <<30, 6>>}
=============================================================================
