------------------------------ MODULE SffDecoder ------------------------------
(***************************************************************************)
(* sff8472Decoder and sff8636Decoder: the lanes and alarms read off the    *)
(* image of an SFP or QSFP module.  The image is laid out as the legacy    *)
(* ioctl gives it,                                                         *)
(*                                                                         *)
(*    SFF-8472: slots 2 and 3 are the diagnostics at address A2h,          *)
(*    SFF-8636: slots 2, 3 and 4 are the upper pages 01h, 02h and 03h,     *)
(*                                                                         *)
(* and the decoders look for thresholds there, whichever client filled it: *)
(* netlink puts pages 01h and 02h and bank 0 of page 11h into those slots. *)
(***************************************************************************)
EXTENDS ModuleMemory, DiagnosticAlarms, FiniteSets

CONSTANTS
  SFF8472,   \* the modules with identifier 0x03
  SFF8636,   \* the modules with identifier 0x0c, 0x0d or 0x11
  FlagBits,  \* FlagBits[m]: the bits <<byte, bit>> set in bytes 3 to 14 of m
  HasDDM,    \* the SFF-8472 modules whose byte 92 reports diagnostics
  Blocks,    \* Blocks[via][m]: the quantities whose threshold block is not zero in what
             \* m answers on path via
  Crossed    \* Crossed[via][p][m]: the alarms the readings of m raise against the
             \* threshold blocks p answers on path via

ASSUME SffAssumption ==
  /\ SFF8472 \subseteq Modules
  /\ SFF8636 \subseteq Modules
  /\ SFF8472 \cap SFF8636 = {}
  /\ (SFF8472 \cup SFF8636) \cap CMIS = {}
  /\ HasDDM \subseteq SFF8472

ModuleQuantities == {"temperature", "voltage"}
LaneQuantities == {"tx_bias", "tx_power", "rx_power"}
QSFPLanes == 1 .. 4

\* The quantities and lanes a module with these lanes is compared in: a block is for
\* the module or for each of its lanes.
ComparedIn(blocks, lanes) ==
  ((blocks \cap ModuleQuantities) \X {0}) \cup ((blocks \cap LaneQuantities) \X lanes)

\* A block of zeroes is compared with nothing (sff8636.go:275-284, common.go:35-37).
ASSUME CrossedAssumption ==
  \A via \in {"ioctl", "netlink"}, p, m \in Modules :
    /\ m \in SFF8636 =>
         Crossed[via][p][m] \subseteq BoundAlarms(ComparedIn(Blocks[via][p], QSFPLanes))
    /\ m \in SFF8472 =>
         Crossed[via][p][m] \subseteq BoundAlarms(ComparedIn(Blocks[via][p], {1}))

-----------------------------------------------------------------------------
(***************************************************************************)
(* SFF-8636.  Every flag has a bit of its own in the lower memory.         *)
(***************************************************************************)
LaneFaults == {"tx_los", "rx_los", "tx_fault"}

Flags8636 ==
  BoundAlarms((ModuleQuantities \X {0}) \cup (LaneQuantities \X QSFPLanes))
  \cup {Alarm(x[1], "", "fault", x[2]) : x \in LaneFaults \X QSFPLanes}

\* The order of the four bits of a quantity, from the low end of a half byte.
Rank(bound, severity) ==
  (IF severity = "alarm" THEN 2 ELSE 0) + (IF bound = "high" THEN 1 ELSE 0)

FirstFlagByte == [rx_power |-> 9, tx_bias |-> 11, tx_power |-> 13]

\* Mutant: lane 2 looks into the byte of lanes 3 and 4.
LaneMonitorBitOff(of, rank, lane) ==
  <<FirstFlagByte[of] + (IF lane >= 2 THEN 1 ELSE 0), rank + (IF lane % 2 = 1 THEN 4 ELSE 0)>>

\* laneMonitorFlagAlarms: two lanes to a byte, the odd lane in its upper half.
LaneMonitorBit(of, rank, lane) ==
  <<FirstFlagByte[of] + (IF lane > 2 THEN 1 ELSE 0), rank + (IF lane % 2 = 1 THEN 4 ELSE 0)>>

\* The byte and the bit that flag an alarm.
FlagBit(a) ==
  CASE a.of = "temperature" -> <<6, 4 + Rank(a.bound, a.severity)>>
    [] a.of = "voltage"     -> <<7, 4 + Rank(a.bound, a.severity)>>
    [] a.of = "tx_los"      -> <<3, a.lane + 3>>
    [] a.of = "rx_los"      -> <<3, a.lane - 1>>
    [] a.of = "tx_fault"    -> <<4, a.lane - 1>>
    [] OTHER                -> LaneMonitorBit(a.of, Rank(a.bound, a.severity), a.lane)

FlagEntries8636(data) ==
  {Entry(a, FlagBit(a) \in FlagBits[data[Lower]]) : a \in Flags8636}

\* thresholdBlock: the page of the thresholds is there and the block not zero.  The
\* readings, of the module and of four lanes, are always there.
Compared8636(via, data) ==
  LET page == data[Page11(0)]
  IN  ComparedIn(IF page \in Modules THEN Blocks[via][page] ELSE {}, QSFPLanes)

\* Mutant: a zero-filled block is compared with, and every reading exceeds it.
ThresholdEntries8636OfFill(via, data) ==
  IF data[Page11(0)] = Zero
    THEN {Entry(Alarm("temperature", "high", "alarm", 0), TRUE)}
    ELSE ThresholdEntries(Compared8636(via, data),
           IF Compared8636(via, data) = {} THEN {} ELSE Crossed[via][data[Page11(0)]][data[Lower]])

ThresholdEntries8636(via, data) ==
  ThresholdEntries(Compared8636(via, data),
    IF Compared8636(via, data) = {} THEN {} ELSE Crossed[via][data[Page11(0)]][data[Lower]])

Alarms8636(via, data) ==
  MergeAlarms(FlagEntries8636(data) \cup ThresholdEntries8636(via, data))

-----------------------------------------------------------------------------
(***************************************************************************)
(* SFF-8472.  Less than 512 bytes, or no diagnostics reported: nothing.    *)
(* Readings and thresholds both come from A2h and no flag is looked at.    *)
(***************************************************************************)
Diagnosed8472(data) == data[Page02] # Missing /\ data[Lower] \in HasDDM

Compared8472(via, data) ==
  ComparedIn(IF Diagnosed8472(data) /\ data[Page01] \in Modules
               THEN Blocks[via][data[Page01]] ELSE {}, {1})

Alarms8472(via, data) ==
  MergeAlarms(
    ThresholdEntries(Compared8472(via, data),
      IF Compared8472(via, data) = {} THEN {} ELSE Crossed[via][data[Page01]][data[Page01]]))

SffLanes(data) ==
  IF data[Lower] \in SFF8636 THEN QSFPLanes
  ELSE IF Diagnosed8472(data) THEN {1} ELSE {}

SffAlarms(via, data) ==
  IF data[Lower] \in SFF8636 THEN Alarms8636(via, data) ELSE Alarms8472(via, data)
=============================================================================
