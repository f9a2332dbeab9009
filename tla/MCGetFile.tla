------------------------------ MODULE MCGetFile ------------------------------
(* Instances of GetFile: two cells, blocks of two cells, files of up to two *)
(* blocks.                                                                   *)
EXTENDS GetFile

CONSTANTS a, b

\* Two contents that begin with different blocks.
TwoVersions   == {<<a, a, a>>, <<a, b, b, b>>}
\* The third is not longer than MinSize: it is never resumed.
ThreeVersions == TwoVersions \cup {<<b, b>>}
\* The empty file is fetched without any block and without a check.
FourVersions  == ThreeVersions \cup {<<>>}
=============================================================================
