-------------------------------- MODULE MCFeeds --------------------------------
(* A small instance of RankedFeeds for TLC: two feeds with different limits. *)
EXTENDS RankedFeeds, TLC

MCMaxAge == 1 :> 1 @@ 2 :> 2
===============================================================================
