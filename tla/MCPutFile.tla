------------------------------ MODULE MCPutFile ------------------------------
(* Instances of PutFile: two cells, blocks of two cells, files of up to two *)
(* blocks.                                                                   *)
EXTENDS PutFile

CONSTANTS a, b

\* Two contents that begin with different blocks; a resumed transfer of one
\* over the other keeps a block of the wrong content.
TwoVersions   == {<<a, a, a>>, <<a, b, b, b>>}
\* The third is not longer than MinSize: it is never resumed.
ThreeVersions == TwoVersions \cup {<<b, b>>}
\* The last one is empty: no data frame is sent for it.
WithEmpty     == ThreeVersions \cup {<<>>}
=============================================================================
