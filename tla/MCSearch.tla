------------------------------ MODULE MCSearch ------------------------------
(* Instances of Search: directories up to three levels deep, one too deep   *)
(* for MaxLevel, and every mask of up to four characters.                    *)
EXTENDS Search

d == <<"d">>
e == <<"e">>
g == <<".", "g">>
a == <<"a">>
b == <<"b", "a">>

AllDirs      == {d, e, g}
AllAdditions == {<<b>>, <<d, b>>}

Places == {<<d>>, <<d, d>>, <<d, d, d>>, <<d, d, a>>, <<e>>, <<e, g>>, <<e, g, a>>,
           <<g>>, <<a>>, <<b>>, <<d, a>>}

AllTrees == {t \in SUBSET Places : \A p \in t : Len(p) > 1 => Front(p) \in t}

UpTo(n, S) == UNION {[1..k -> S] : k \in 0..n}
AllMasks == UpTo(4, {"a", "b", "*", "?"})
ObjMasks == {<<"*">>, <<"*", "a">>, <<"b", "?">>, <<"a">>}
AllNames == UpTo(4, {"a", "b"}) \ {<<>>}
=============================================================================
