-------------------------------- MODULE MCLocal --------------------------------
(***************************************************************************)
(* Two readers of two files of two bytes, in a registry that has room for  *)
(* one of them.  A request is for the whole file and more, starts at its   *)
(* end, or overflows.                                                      *)
(***************************************************************************)
EXTENDS LocalAssetReader, TLC

MCRequests == {<<0, 3>>, <<2, 1>>, <<7, 1>>}

MCSymmetry == Permutations(Thread) \cup Permutations(Reader)
================================================================================
