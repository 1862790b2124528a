--------------------------- MODULE MCToolPlane ---------------------------
(* Two servers whose tools render one id in common, and two calls of that id. *)
EXTENDS ToolPlane
CONSTANTS a, b, c1, c2, x, y
MCIdOf == (c1 :> x) @@ (c2 :> x)
MCOffers == (a :> {x}) @@ (b :> {x, y})
=============================================================================
