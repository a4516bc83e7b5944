----------------------------- MODULE MCResolver -----------------------------
(***************************************************************************)
(* Two identifiers under a wide and a narrow destination policy, tables    *)
(* one entry too small for them, and two stable validators.                *)
(***************************************************************************)
EXTENDS HttpResolver, TLC

CONSTANTS v1, v2, v3

MCCovers(p, q)  == p = "wide" \/ q = "narrow"
\* The first is republished; the second never is and only ages the first out,
\* and its validator is a weak one.
MCCaptures(i, p) == IF i = "b" THEN {v3} ELSE IF p = "wide" THEN {v1, v2} ELSE {}
MCIsStable(v)   == v # v3
MCKey == {<<"a", "wide">>, <<"a", "narrow">>, <<"b", "wide">>}
MCSymmetry == Permutations(Thread) \cup Permutations({v1, v2})
=============================================================================
