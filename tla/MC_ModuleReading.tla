--------------------------- MODULE MC_ModuleReading ---------------------------
(***************************************************************************)
(* Instances of ModuleReading for TLC, with banks of two lanes.  wide has  *)
(* two banks and lists no application, so its lit lanes count; mono has    *)
(* one bank and uses one lane of it (the count 9 is not believed, the one  *)
(* after the end marker not seen); flat has lower memory and page 00h.     *)
(* qsfp is an SFF-8636 module, whose pages read as those of a CMIS module  *)
(* hold arbitrary bytes, sfp an SFF-8472 one with diagnostics.             *)
(***************************************************************************)
EXTENDS ModuleReading

CONSTANTS wide, mono, flat, qsfp, sfp

MCModules == {wide, mono, flat, qsfp, sfp}
MCCMIS == {wide, mono, flat}
MCFlat == {flat}
MCBanks == [m \in MCModules |-> IF m \in {wide, qsfp} THEN 2 ELSE 1]
MCLegacySlots == [m \in MCModules |-> IF m = qsfp THEN 5 ELSE IF m = sfp THEN 4 ELSE 2]
MCMonitors == {"rx_power"}
MCFaults == {"rx_los"}

MCApps == [m \in MCModules |-> IF m = mono THEN <<1, 9, AppEnd, 2>> ELSE <<AppEnd>>]
MCAdvert == [m \in MCModules |-> IF m \in {flat, sfp} THEN {} ELSE MCMonitors]
MCFaultAdvert == [m \in MCModules |-> IF m = mono THEN MCFaults ELSE {}]
MCLimits == [m \in MCModules |-> IF m \in {flat, sfp} THEN {} ELSE {"temperature", "rx_power"}]

MCLowerFlags ==
  [m \in MCModules |-> IF m \notin {wide, flat} THEN {} ELSE {Alarm("temperature", "high", "warning", 0)}]

\* wide runs hot and has a weak lane 3; mono's lane 1 is weak by its own limits
\* only, while its lane 2 would be by those of wide.
MCExceeded ==
  [p \in MCModules |-> [m \in MCModules |->
     CASE p \in {flat, sfp} -> {}
       [] m = wide -> {Alarm("temperature", "high", "warning", 0),
                       Alarm("rx_power", "low", "alarm", 3)}
       [] m = mono -> {Alarm("rx_power", "low", "warning", IF p = mono THEN 1 ELSE 2)}
       [] OTHER    -> {}]]

Unlit == [lit |-> {}, state |-> "", flags |-> {}]
Lit(flags) == [lit |-> {"rx_power"}, state |-> "activated", flags |-> flags]

MCLaneData ==
  [m \in MCModules |-> [b \in 0 .. 3 |-> [i \in 1 .. 2 |->
     CASE m = wide /\ b = 0 -> IF i = 1 THEN Lit({<<"rx_los", "", "fault">>}) ELSE Lit({})
       [] m = wide /\ b = 1 -> IF i = 2 THEN Lit({<<"rx_power", "low", "alarm">>}) ELSE Lit({})
       [] m = mono /\ b = 0 -> IF i = 1 THEN Lit({<<"rx_los", "", "fault">>})
                               ELSE [lit |-> {}, state |-> "deactivated",
                                     flags |-> {<<"rx_los", "", "fault">>}]
       [] m = qsfp -> Lit({<<"rx_power", "high", "alarm">>})
       [] OTHER -> Unlit]]]

MCZeroPages ==
  {x \in MCModules \X (0 .. 3) : \A i \in 1 .. 2 : MCLaneData[x[1]][x[2]][i] = Unlit}

-----------------------------------------------------------------------------
\* qsfp has flags latched on every lane, two of them with the reading back within its
\* limits, and a bit set that flags no alarm; it runs within its own temperature
\* limits, though not within what its other pages would be as limits.  sfp receives
\* too little light.
MCSFF8472 == {sfp}
MCSFF8636 == {qsfp}
MCHasDDM == {sfp}

MCFlagBits ==
  [m \in MCModules |->
     IF m = qsfp THEN {<<3, 1>>, <<3, 7>>, <<4, 2>>, <<6, 0>>, <<6, 5>>, <<7, 6>>, <<9, 6>>, <<9, 0>>,
                       <<10, 7>>, <<10, 2>>, <<11, 1>>, <<12, 5>>, <<13, 4>>, <<14, 3>>}
     ELSE {}]

MCBlocks ==
  [via \in {"ioctl", "netlink"} |-> [m \in MCModules |->
     IF via = "netlink" THEN IF m = sfp THEN {} ELSE {"temperature"}
     ELSE IF m = qsfp THEN {"temperature", "rx_power"} ELSE {"rx_power", "voltage"}]]

MCCrossed ==
  [via \in {"ioctl", "netlink"} |-> [p \in MCModules |-> [m \in MCModules |->
     IF via = "netlink"
       THEN IF p = sfp THEN {} ELSE {Alarm("temperature", "high", "alarm", 0)}
       ELSE CASE p = qsfp /\ m = qsfp -> {Alarm("rx_power", "low", "alarm", 1),
                                          Alarm("rx_power", "low", "warning", 3)}
              [] p = qsfp             -> {Alarm("temperature", "low", "alarm", 0)}
              [] p = sfp /\ m = sfp   -> {Alarm("rx_power", "low", "alarm", 1)}
              [] OTHER                -> {Alarm("voltage", "low", "alarm", 0)}]]]
=============================================================================
