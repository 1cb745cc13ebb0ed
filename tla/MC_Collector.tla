---------------------------- MODULE MC_Collector ----------------------------
(***************************************************************************)
(* Instances of Collector for TLC.  dsp is a CMIS module with two lanes,   *)
(* dac a passive SFF-8472 cable without diagnostics, lr a 10GBASE-LR       *)
(* module (10 km, in both SFF-8472 units), qsfp an SFF-8636 module with    *)
(* one lane drawn, odd one that sff.Decode refuses, and latin a dac whose  *)
(* vendor name is not UTF-8.                                               *)
(***************************************************************************)
EXTENDS Collector, LinkLengths

CONSTANTS dsp, dac, lr, qsfp, odd, latin, eth0, eth1, eth2

Lane(n) == [index |-> n, bias |-> "positive", tx |-> "zero", rx |-> "none",
            state |-> "activated"]

DspModule ==
  [map |-> "cmis", status |-> "ready", inventory |-> {"module_power_class"},
   lengths |-> MediaOf(CmisLengths(0, <<65, 0, 0, 50, 0>>)),
   gauges |-> {"temperature_celsius"}, lanes |-> <<Lane(1), Lane(2)>>,
   thresholds |-> << [name |-> "tx_bias_high", lane |-> 1],
                     [name |-> "tx_bias_high", lane |-> 2] >>,
   alarms |-> << [name |-> "rx_los", lane |-> 1, active |-> 1],
                 [name |-> "rx_los", lane |-> 2, active |-> 0] >>]

Sff8472Module(lengthBytes) ==
  [map |-> "sff8472", status |-> "none", inventory |-> {"nominal_bitrate_mbd"},
   lengths |-> MediaOf(Sff8472Lengths(lengthBytes)),
   gauges |-> {}, lanes |-> <<>>, thresholds |-> <<>>, alarms |-> <<>>]

QsfpModule ==
  [map |-> "sff8636", status |-> "ready", inventory |-> {"nominal_bitrate_mbd"},
   lengths |-> MediaOf(Sff8636Lengths(<<10, 0, 0, 0, 1>>)),
   gauges |-> {"temperature_celsius"}, lanes |-> <<[Lane(1) EXCEPT !.state = ""]>>,
   thresholds |-> << [name |-> "rx_power_low", lane |-> 1] >>,
   alarms |-> << [name |-> "rx_los", lane |-> 1, active |-> 1] >>]

MCModules == {dsp, odd, latin}
MCUnprintable == {latin}
LRModules == {qsfp, lr}

MCDecoded ==
  [m \in {dsp, dac, lr, qsfp, odd, latin} |->
     CASE m = dsp -> DspModule
       [] m \in {dac, latin} -> Sff8472Module(<<0, 0, 0, 0, 3, 0>>)
       [] m = lr  -> Sff8472Module(<<10, 100, 0, 0, 0, 0>>)
       [] m = qsfp -> QsfpModule
       [] OTHER   -> Undecodable]

MCInterfaces == {eth0, eth1, eth2}
MCPhysical == {eth0, eth1}
\* eth0 is read on both paths, eth1 has no EEPROM access, eth2 is virtual.
MCSupports == [i \in MCInterfaces |-> IF i = eth0 THEN {"ioctl", "netlink"} ELSE {}]
\* The driver of eth0 implements only the netlink path.
NetlinkOnly == [i \in MCInterfaces |-> IF i = eth0 THEN {"netlink"} ELSE {}]
BothPaths == {"ioctl", "netlink"}
IoctlOnly == {"ioctl"}

MCFlagLists == {<<>>, <<eth0, eth1>>, <<eth0, eth0>>}
AutoOnly == {<<>>}
=============================================================================
