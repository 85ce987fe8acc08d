----------------------------- MODULE MCDirCompare -----------------------------
(***************************************************************************)
(* The TLC instances of DirCompare: three names; files that are empty, of  *)
(* one chunk (small) and of two (large), that are the same on both sides,  *)
(* differ in the last chunk or in length, or are on one side only.         *)
(***************************************************************************)
EXTENDS DirCompare, TLC

Empty == <<>>
Small == <<"x">>
Large == <<"x", "x">>
Other == <<"x", "y">>

Pair(a, b) == ("a" :> a) @@ ("b" :> b)

MCTrees == {
    Pair(<<Large, Large, Small>>, <<Large, Large, Small>>),
    Pair(<<Large, Small, Large>>, <<Other, Small, Large>>),
    Pair(<<Large, Large>>,        <<Large, Small>>),
    Pair(<<Small, Empty, Small>>, <<Small, Empty, Small>>),
    Pair(<<Empty, Small>>,        <<Small, Small, Large>>)}
=============================================================================
