------------------------------- MODULE MCFeed -------------------------------
(* Optional prices for TLC: a bid that can be absent or 0, an ask that can be  *)
(* absent or 1.                                                              *)
EXTENDS Feed

MCBids == {nullopt, <<0>>}
MCAsks == {nullopt, <<1>>}
=============================================================================
