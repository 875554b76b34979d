------------------------- MODULE MCAuctionWatermark -------------------------
(* AuctionWatermark for TLC.                                               *)
EXTENDS AuctionWatermark
=============================================================================
