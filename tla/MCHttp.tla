-------------------------------- MODULE MCHttp --------------------------------
(***************************************************************************)
(* An asset of two bytes with a second revision of the same length and a   *)
(* third that is shorter; the weak validator cannot tell the first two     *)
(* apart.  The origin and its mirror are https, a third host is not, and a *)
(* fourth is one the destination policy refuses.                           *)
(***************************************************************************)
EXTENDS HttpAssetReader

MCSizeOf(r)  == IF r = 3 THEN 1 ELSE 2
MCWeakTag(r) == IF r = 3 THEN 2 ELSE 1
===============================================================================
