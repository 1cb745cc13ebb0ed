---------------------------- MODULE MC_Monitoring ----------------------------
(***************************************************************************)
(* Instances of Monitoring for TLC: one cage that takes a CMIS module of   *)
(* two lanes, a QSFP module, a 10GBASE-LR module and one with a vendor     *)
(* name that is not UTF-8.                                                 *)
(***************************************************************************)
EXTENDS Monitoring

CONSTANTS dsp, qsfp, lr, odd

Sign(label, severity, lane) == [label |-> label, severity |-> severity, lane |-> lane]

MCModules == {dsp, qsfp, lr, odd}
OnlyQsfp == {qsfp}

MCFormat ==
  [m \in Modules |-> CASE m = dsp -> "cmis" [] m = qsfp -> "sff8636" [] OTHER -> "sff8472"]
MCLanes == [m \in Modules |-> IF m = dsp THEN {1, 2} ELSE {1}]
MCSigns ==
  [m \in Modules |->
     CASE m = dsp  -> {Sign("rx_los", "fault", 1)}
       [] m = qsfp -> {Sign("rx_los", "fault", 1), Sign("software", "power", 0)}
       [] OTHER    -> {}]

\* On the fallback, the temperature of the QSFP module is compared with lane flags.
MCMisread ==
  [m \in Modules |-> IF m = qsfp THEN {Sign("temperature_high", "alarm", 0),
                                      Sign("tx_bias_high", "alarm", 1)} ELSE {}]

\* 5, 15 and 30 minutes, in the order of the rules.
MCFor ==
  [r \in Rules |->
     CASE r \in {"AlarmActive", "FaultActive", "ModuleFault"} -> 1
       [] r \in {"ExporterDown", "ScrapeFailed"}              -> 2
       [] OTHER                                               -> 3]
=============================================================================
