------------------------- MODULE MC_Transceiverctl -------------------------
(***************************************************************************)
(* Instances of Transceiverctl for TLC: up to three interfaces, given with *)
(* blanks and repetitions or discovered.                                   *)
(***************************************************************************)
EXTENDS Transceiverctl

CONSTANTS eth0, eth1, eth2

MCInterfaces == {eth0, eth1, eth2}
MCFlagLists ==
  {<<>>, <<BlankName>>, <<eth0, BlankName, eth1>>, <<eth0, eth0>>, <<eth2, eth0, eth1>>}
MCDiscoveries == {<<>>, <<eth1>>, <<eth0, eth1, eth2>>}
=============================================================================
