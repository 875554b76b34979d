------------------------- MODULE MCStatePublication -------------------------
(* StatePublication for TLC: one daily run next to the loop and start-up.  *)
EXTENDS StatePublication
=============================================================================
