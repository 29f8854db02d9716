--------------------------- MODULE MCIntersection ----------------------------
(* Intersections of up to three lists for TLC.                                  *)
EXTENDS Intersection
==============================================================================
