----------------------------- MODULE MCCityTick -----------------------------
(* Instances of CityTick for TLC: the links that have demand.              *)
EXTENDS CityTick

\* Two red approaches of node 1 that turn into the street to node 0, where they
\* meet a red light: the heads ask for one port, and the loser finds no room.
StreetDemand == {<<1, 0>>, <<1, 2>>}
=============================================================================
