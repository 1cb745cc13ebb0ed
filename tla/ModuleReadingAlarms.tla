------------------------- MODULE ModuleReadingAlarms -------------------------
(***************************************************************************)
(* Proofs that what a module raises is told: each latched flag of a QSFP   *)
(* module as one alarm, everything the ioctl gave of an SFF module, and    *)
(* everything of a CMIS module that was read as a whole.                   *)
(***************************************************************************)
EXTENDS ModuleReadingProofs, FiniteSetTheorems, WellFoundedInduction

FaultAlarm(of, lane) == Alarm(of, "", "fault", lane)

-----------------------------------------------------------------------------
(***************************************************************************)
(* The bits of an SFF-8636 module's flags.                                 *)
(***************************************************************************)

\* The four bits of a quantity in half a byte are those of its four bounds
\* (sff8636.go:267-272).
LEMMA RankTells ==
  /\ \A b \in Boundaries : Rank(b[1], b[2]) \in 0 .. 3
  /\ \A b, d \in Boundaries : Rank(b[1], b[2]) = Rank(d[1], d[2]) => b = d
  /\ \A n \in 0 .. 3 : \E b \in Boundaries : Rank(b[1], b[2]) = n
<1>1. \A b \in Boundaries : Rank(b[1], b[2]) \in 0 .. 3
  BY DEF Boundaries, Rank
<1>2. \A b, d \in Boundaries : Rank(b[1], b[2]) = Rank(d[1], d[2]) => b = d
  BY DEF Boundaries, Rank
<1>3. ASSUME NEW n \in 0 .. 3
      PROVE  \E b \in Boundaries : Rank(b[1], b[2]) = n
  <2> DEFINE b == <<IF n \in {1, 3} THEN "high" ELSE "low", IF n \in {2, 3} THEN "alarm" ELSE "warning">>
  <2>1. b \in Boundaries
    BY DEF Boundaries
  <2>2. Rank(b[1], b[2]) = n
    BY DEF Rank
  <2> QED
    BY <2>1, <2>2
<1> QED
  BY <1>1, <1>2, <1>3

\* Bytes 9 to 14 hold each bound of each monitor of each lane once (sff8636.go:255-273).
LEMMA MonitorBitTells ==
  ASSUME NEW of \in LaneQuantities, NEW n \in 0 .. 3, NEW l \in QSFPLanes
  PROVE  /\ LaneMonitorBit(of, n, l) \in (9 .. 14) \X (0 .. 7)
         /\ \A og \in LaneQuantities, q \in 0 .. 3, k \in QSFPLanes :
              LaneMonitorBit(of, n, l) = LaneMonitorBit(og, q, k) => of = og /\ n = q /\ l = k
<1>1. \A k \in QSFPLanes : k \in {1, 2, 3, 4}
  BY DEF QSFPLanes
<1>2. \A k \in QSFPLanes : (k % 2 = 1) = (k \in {1, 3})
  BY <1>1
<1>3. FirstFlagByte["rx_power"] = 9 /\ FirstFlagByte["tx_bias"] = 11 /\ FirstFlagByte["tx_power"] = 13
  BY DEF FirstFlagByte
<1>4. LaneMonitorBit(of, n, l) \in (9 .. 14) \X (0 .. 7)
  BY <1>1, <1>2, <1>3 DEF LaneMonitorBit, LaneQuantities
<1>5. ASSUME NEW og \in LaneQuantities, NEW q \in 0 .. 3, NEW k \in QSFPLanes,
             LaneMonitorBit(of, n, l) = LaneMonitorBit(og, q, k)
      PROVE  of = og /\ n = q /\ l = k
  BY <1>1, <1>2, <1>3, <1>5 DEF LaneMonitorBit, LaneQuantities
<1> QED
  BY <1>4, <1>5

LEMMA MonitorBitHit ==
  ASSUME NEW x \in (9 .. 14) \X (0 .. 7)
  PROVE  \E of \in LaneQuantities, n \in 0 .. 3, l \in QSFPLanes : LaneMonitorBit(of, n, l) = x
<1>1. FirstFlagByte["rx_power"] = 9 /\ FirstFlagByte["tx_bias"] = 11 /\ FirstFlagByte["tx_power"] = 13
  BY DEF FirstFlagByte
<1>2. x = <<x[1], x[2]>> /\ x[1] \in 9 .. 14 /\ x[2] \in 0 .. 7
  OBVIOUS
<1> DEFINE of == IF x[1] < 11 THEN "rx_power" ELSE IF x[1] < 13 THEN "tx_bias" ELSE "tx_power"
           n == IF x[2] < 4 THEN x[2] ELSE x[2] - 4
           l == (IF x[1] \in {10, 12, 14} THEN 2 ELSE 0) + (IF x[2] < 4 THEN 2 ELSE 1)
<1>3. of \in LaneQuantities /\ n \in 0 .. 3 /\ l \in QSFPLanes
  BY <1>2 DEF LaneQuantities, QSFPLanes
<1>4. FirstFlagByte[of] + (IF l > 2 THEN 1 ELSE 0) = x[1]
  BY <1>1, <1>2
<1>5. l % 2 = 1 <=> x[2] >= 4
  BY <1>2
<1>6. n + (IF l % 2 = 1 THEN 4 ELSE 0) = x[2]
  BY <1>2, <1>5
<1>7. LaneMonitorBit(of, n, l) = x
  BY <1>2, <1>4, <1>6, Zenon DEF LaneMonitorBit
<1> QED
  BY <1>3, <1>7

\* The six kinds of flags, each with its bit (sff8636.go:185-222).
Shape(a) ==
  \/ \E b \in Boundaries : a = Alarm("temperature", b[1], b[2], 0)
                           /\ FlagBit(a) = <<6, 4 + Rank(b[1], b[2])>>
  \/ \E b \in Boundaries : a = Alarm("voltage", b[1], b[2], 0)
                           /\ FlagBit(a) = <<7, 4 + Rank(b[1], b[2])>>
  \/ \E of \in LaneQuantities, b \in Boundaries, l \in QSFPLanes :
        a = Alarm(of, b[1], b[2], l) /\ FlagBit(a) = LaneMonitorBit(of, Rank(b[1], b[2]), l)
  \/ \E l \in QSFPLanes : a = FaultAlarm("tx_los", l) /\ FlagBit(a) = <<3, l + 3>>
  \/ \E l \in QSFPLanes : a = FaultAlarm("rx_los", l) /\ FlagBit(a) = <<3, l - 1>>
  \/ \E l \in QSFPLanes : a = FaultAlarm("tx_fault", l) /\ FlagBit(a) = <<4, l - 1>>

\* The bit of an alarm follows from its fields, whatever its bound is.
LEMMA BitOfAlarm ==
  ASSUME NEW bound, NEW severity, NEW l
  PROVE  /\ FlagBit(Alarm("temperature", bound, severity, l)) = <<6, 4 + Rank(bound, severity)>>
         /\ FlagBit(Alarm("voltage", bound, severity, l)) = <<7, 4 + Rank(bound, severity)>>
         /\ FlagBit(Alarm("tx_los", bound, severity, l)) = <<3, l + 3>>
         /\ FlagBit(Alarm("rx_los", bound, severity, l)) = <<3, l - 1>>
         /\ FlagBit(Alarm("tx_fault", bound, severity, l)) = <<4, l - 1>>
<1>1. \A of : /\ Alarm(of, bound, severity, l).of = of
              /\ Alarm(of, bound, severity, l).bound = bound
              /\ Alarm(of, bound, severity, l).severity = severity
              /\ Alarm(of, bound, severity, l).lane = l
  BY DEF Alarm
<1> QED
  BY <1>1 DEF FlagBit

LEMMA BitOfMonitor ==
  ASSUME NEW of \in LaneQuantities, NEW bound, NEW severity, NEW l
  PROVE  FlagBit(Alarm(of, bound, severity, l)) = LaneMonitorBit(of, Rank(bound, severity), l)
<1>1. /\ Alarm(of, bound, severity, l).of = of
      /\ Alarm(of, bound, severity, l).bound = bound
      /\ Alarm(of, bound, severity, l).severity = severity
      /\ Alarm(of, bound, severity, l).lane = l
  BY DEF Alarm
<1>2. of \notin {"temperature", "voltage", "tx_los", "rx_los", "tx_fault"}
  BY DEF LaneQuantities
<1> QED
  BY <1>1, <1>2 DEF FlagBit

LEMMA FlagShape ==
  ASSUME NEW a \in Flags8636
  PROVE  Shape(a)
<1> DEFINE compared == (ModuleQuantities \X {0}) \cup (LaneQuantities \X QSFPLanes)
<1>1. CASE a \in BoundAlarms(compared)
  <2>1. PICK c \in compared, b \in Boundaries : a = Alarm(c[1], b[1], b[2], c[2])
    BY <1>1 DEF BoundAlarms
  <2>2. \/ c[1] = "temperature" /\ c[2] = 0
        \/ c[1] = "voltage" /\ c[2] = 0
        \/ c[1] \in LaneQuantities /\ c[2] \in QSFPLanes
    BY DEF ModuleQuantities
  <2>3. CASE c[1] = "temperature" /\ c[2] = 0
    <3>1. a = Alarm("temperature", b[1], b[2], 0)
      BY <2>1, <2>3
    <3> QED
      BY <3>1, BitOfAlarm DEF Shape
  <2>4. CASE c[1] = "voltage" /\ c[2] = 0
    <3>1. a = Alarm("voltage", b[1], b[2], 0)
      BY <2>1, <2>4
    <3> QED
      BY <3>1, BitOfAlarm DEF Shape
  <2>5. CASE c[1] \in LaneQuantities /\ c[2] \in QSFPLanes
    <3>1. FlagBit(a) = LaneMonitorBit(c[1], Rank(b[1], b[2]), c[2])
      BY <2>1, <2>5, BitOfMonitor
    <3> QED
      BY <2>1, <2>5, <3>1 DEF Shape
  <2> QED
    BY <2>2, <2>3, <2>4, <2>5
<1>2. CASE a \in {Alarm(x[1], "", "fault", x[2]) : x \in LaneFaults \X QSFPLanes}
  <2>1. PICK of \in LaneFaults, l \in QSFPLanes : a = FaultAlarm(of, l)
    <3>1. PICK x \in LaneFaults \X QSFPLanes : a = FaultAlarm(x[1], x[2])
      BY <1>2, Zenon DEF FaultAlarm
    <3> QED
      BY <3>1
  <2>2. of = "tx_los" \/ of = "rx_los" \/ of = "tx_fault"
    BY DEF LaneFaults
  <2>3. /\ FlagBit(FaultAlarm("tx_los", l)) = <<3, l + 3>>
        /\ FlagBit(FaultAlarm("rx_los", l)) = <<3, l - 1>>
        /\ FlagBit(FaultAlarm("tx_fault", l)) = <<4, l - 1>>
    BY BitOfAlarm, Zenon DEF FaultAlarm
  <2>4. CASE of = "tx_los"
    BY <2>1, <2>3, <2>4, Zenon DEF Shape
  <2>5. CASE of = "rx_los"
    BY <2>1, <2>3, <2>5, Zenon DEF Shape
  <2>6. CASE of = "tx_fault"
    BY <2>1, <2>3, <2>6, Zenon DEF Shape
  <2> QED
    BY <2>2, <2>4, <2>5, <2>6
<1> QED
  BY <1>1, <1>2, Zenon DEF Flags8636

\* Two alarms never share a bit.
LEMMA OneAlarmPerBit ==
  ASSUME NEW a \in Flags8636, NEW d \in Flags8636, FlagBit(a) = FlagBit(d)
  PROVE  a = d
<1> DEFINE bit == FlagBit(a)
<1>0. Shape(a) /\ Shape(d) /\ FlagBit(d) = bit
  BY FlagShape
<1> HIDE DEF bit
<1>1. \A b \in Boundaries : Rank(b[1], b[2]) \in 0 .. 3
  BY RankTells, Zenon
<1>2. \A of \in LaneQuantities, b \in Boundaries, l \in QSFPLanes :
        LaneMonitorBit(of, Rank(b[1], b[2]), l) \in (9 .. 14) \X (0 .. 7)
  BY <1>1, MonitorBitTells
<1>3. CASE \E b \in Boundaries : a = Alarm("temperature", b[1], b[2], 0)
                                 /\ bit = <<6, 4 + Rank(b[1], b[2])>>
  <2>1. PICK b \in Boundaries : a = Alarm("temperature", b[1], b[2], 0) /\ bit = <<6, 4 + Rank(b[1], b[2])>>
    BY <1>3
  <2>2. PICK e \in Boundaries : d = Alarm("temperature", e[1], e[2], 0) /\ bit = <<6, 4 + Rank(e[1], e[2])>>
    BY <1>0, <1>2, <2>1 DEF Shape
  <2>3. Rank(b[1], b[2]) = Rank(e[1], e[2])
    BY <1>1, <2>1, <2>2
  <2> QED
    BY <2>1, <2>2, <2>3, RankTells, Zenon
<1>4. CASE \E b \in Boundaries : a = Alarm("voltage", b[1], b[2], 0)
                                 /\ bit = <<7, 4 + Rank(b[1], b[2])>>
  <2>1. PICK b \in Boundaries : a = Alarm("voltage", b[1], b[2], 0) /\ bit = <<7, 4 + Rank(b[1], b[2])>>
    BY <1>4
  <2>2. PICK e \in Boundaries : d = Alarm("voltage", e[1], e[2], 0) /\ bit = <<7, 4 + Rank(e[1], e[2])>>
    BY <1>0, <1>2, <2>1 DEF Shape
  <2>3. Rank(b[1], b[2]) = Rank(e[1], e[2])
    BY <1>1, <2>1, <2>2
  <2> QED
    BY <2>1, <2>2, <2>3, RankTells, Zenon
<1>5. CASE \E of \in LaneQuantities, b \in Boundaries, l \in QSFPLanes :
             a = Alarm(of, b[1], b[2], l) /\ bit = LaneMonitorBit(of, Rank(b[1], b[2]), l)
  <2>1. PICK of \in LaneQuantities, b \in Boundaries, l \in QSFPLanes :
          a = Alarm(of, b[1], b[2], l) /\ bit = LaneMonitorBit(of, Rank(b[1], b[2]), l)
    BY <1>5
  <2>2. bit \in (9 .. 14) \X (0 .. 7)
    BY <1>2, <2>1
  <2>3. PICK og \in LaneQuantities, e \in Boundaries, k \in QSFPLanes :
          d = Alarm(og, e[1], e[2], k) /\ bit = LaneMonitorBit(og, Rank(e[1], e[2]), k)
    BY <1>0, <2>2 DEF Shape
  <2>4. of = og /\ Rank(b[1], b[2]) = Rank(e[1], e[2]) /\ l = k
    <3>1. Rank(b[1], b[2]) \in 0 .. 3 /\ Rank(e[1], e[2]) \in 0 .. 3
      BY <1>1
    <3>2. LaneMonitorBit(of, Rank(b[1], b[2]), l) = LaneMonitorBit(og, Rank(e[1], e[2]), k)
      BY <2>1, <2>3
    <3> QED
      BY <3>1, <3>2, MonitorBitTells
  <2> QED
    BY <2>1, <2>3, <2>4, RankTells, Zenon
<1>6. CASE \E l \in QSFPLanes : a = FaultAlarm("tx_los", l) /\ bit = <<3, l + 3>>
  BY <1>0, <1>2, <1>6 DEF Shape, QSFPLanes
<1>7. CASE \E l \in QSFPLanes : a = FaultAlarm("rx_los", l) /\ bit = <<3, l - 1>>
  BY <1>0, <1>2, <1>7 DEF Shape, QSFPLanes
<1>8. CASE \E l \in QSFPLanes : a = FaultAlarm("tx_fault", l) /\ bit = <<4, l - 1>>
  BY <1>0, <1>2, <1>8 DEF Shape, QSFPLanes
<1> QED
  BY <1>0, <1>3, <1>4, <1>5, <1>6, <1>7, <1>8, Zenon DEF Shape, bit

\* Every bit that flags an alarm has one.
LEMMA OneBitPerAlarm ==
  ASSUME NEW x \in FlagPositions
  PROVE  \E a \in Flags8636 : FlagBit(a) = x
<1> DEFINE compared == (ModuleQuantities \X {0}) \cup (LaneQuantities \X QSFPLanes)
<1>1. \A c \in compared, b \in Boundaries : Alarm(c[1], b[1], b[2], c[2]) \in Flags8636
  <2>1. \A c \in compared, b \in Boundaries :
          Alarm(c[1], b[1], b[2], c[2]) \in BoundAlarms(compared)
    BY DEF BoundAlarms
  <2> QED
    BY <2>1, Zenon DEF Flags8636
<1>2. \A of \in LaneFaults, l \in QSFPLanes : FaultAlarm(of, l) \in Flags8636
  <2> TAKE of \in LaneFaults, l \in QSFPLanes
  <2>1. <<of, l>> \in LaneFaults \X QSFPLanes /\ <<of, l>>[1] = of /\ <<of, l>>[2] = l
    OBVIOUS
  <2> QED
    BY <2>1, Zenon DEF Flags8636, FaultAlarm
<1>3. \A b \in Boundaries : Rank(b[1], b[2]) \in 0 .. 3
  BY RankTells, Zenon
<1>4. CASE x \in {6, 7} \X (4 .. 7)
  <2>1. x = <<x[1], x[2]>> /\ x[1] \in {6, 7} /\ x[2] - 4 \in 0 .. 3
    BY <1>4
  <2>2. PICK b \in Boundaries : Rank(b[1], b[2]) = x[2] - 4
    BY <2>1, RankTells, Zenon
  <2>3. x = <<x[1], 4 + Rank(b[1], b[2])>>
    BY <1>4, <2>2
  <2>4. <<"temperature", 0>> \in compared /\ <<"voltage", 0>> \in compared
    BY DEF ModuleQuantities
  <2>5. Alarm("temperature", b[1], b[2], 0) \in Flags8636 /\ Alarm("voltage", b[1], b[2], 0) \in Flags8636
    BY <1>1, <2>4
  <2> QED
    BY <2>1, <2>3, <2>5, BitOfAlarm
<1>5. CASE x \in (9 .. 14) \X (0 .. 7)
  <2>1. PICK of \in LaneQuantities, n \in 0 .. 3, l \in QSFPLanes : LaneMonitorBit(of, n, l) = x
    BY <1>5, MonitorBitHit
  <2>2. PICK b \in Boundaries : Rank(b[1], b[2]) = n
    BY RankTells, Zenon
  <2>3. <<of, l>> \in compared
    OBVIOUS
  <2>4. Alarm(of, b[1], b[2], l) \in Flags8636
    BY <1>1, <2>3
  <2>5. FlagBit(Alarm(of, b[1], b[2], l)) = LaneMonitorBit(of, Rank(b[1], b[2]), l)
    BY BitOfMonitor
  <2> QED
    BY <2>1, <2>2, <2>4, <2>5
<1>6. CASE x \in {4} \X (0 .. 3)
  <2>1. x[2] + 1 \in QSFPLanes /\ x = <<4, (x[2] + 1) - 1>>
    BY <1>6 DEF QSFPLanes
  <2>2. "tx_fault" \in LaneFaults
    BY DEF LaneFaults
  <2>3. FlagBit(FaultAlarm("tx_fault", x[2] + 1)) = <<4, (x[2] + 1) - 1>>
    BY BitOfAlarm, Zenon DEF FaultAlarm
  <2> QED
    BY <1>2, <2>1, <2>2, <2>3, Zenon
<1>7. CASE x \in {3} \X (0 .. 7)
  <2>1. CASE x[2] < 4
    <3>1. x[2] + 1 \in QSFPLanes /\ x = <<3, (x[2] + 1) - 1>>
      BY <1>7, <2>1 DEF QSFPLanes
    <3>2. "rx_los" \in LaneFaults
      BY DEF LaneFaults
    <3>3. FlagBit(FaultAlarm("rx_los", x[2] + 1)) = <<3, (x[2] + 1) - 1>>
      BY BitOfAlarm, Zenon DEF FaultAlarm
    <3> QED
      BY <1>2, <3>1, <3>2, <3>3, Zenon
  <2>2. CASE ~ x[2] < 4
    <3>1. x[2] - 3 \in QSFPLanes /\ x = <<3, (x[2] - 3) + 3>>
      BY <1>7, <2>2 DEF QSFPLanes
    <3>2. "tx_los" \in LaneFaults
      BY DEF LaneFaults
    <3>3. FlagBit(FaultAlarm("tx_los", x[2] - 3)) = <<3, (x[2] - 3) + 3>>
      BY BitOfAlarm, Zenon DEF FaultAlarm
    <3> QED
      BY <1>2, <3>1, <3>2, <3>3, Zenon
  <2> QED
    BY <2>1, <2>2
<1> QED
  BY <1>4, <1>5, <1>6, <1>7, Zenon DEF FlagPositions

\* mergeAlarms keeps an entry that says so, whatever the others say (cmis.go:665-678).
LEMMA MergeKeeps ==
  ASSUME NEW entries, NEW a, Entry(a, TRUE) \in entries
  PROVE  a \in DOMAIN MergeAlarms(entries) /\ MergeAlarms(entries)[a]
<1>1. Entry(a, TRUE).alarm = a /\ Entry(a, TRUE).active = TRUE
  BY DEF Entry
<1>2. a \in {e.alarm : e \in entries}
  BY <1>1
<1>3. \E e \in entries : e.alarm = a /\ e.active
  BY <1>1
<1> QED
  BY <1>2, <1>3, Zenon DEF MergeAlarms

\* A flag of the lower memory is an active alarm of the image (sff8636.go:183-231).
LEMMA FlagIsActive ==
  ASSUME NEW via, NEW data, data[Lower] \in SFF8636,
         NEW a \in Flags8636, FlagBit(a) \in FlagBits[data[Lower]]
  PROVE  a \in Active(via, data)
<1>1. Entry(a, TRUE) \in FlagEntries8636(data)
  BY Zenon DEF FlagEntries8636
<1>2. Entry(a, TRUE) \in FlagEntries8636(data) \cup ThresholdEntries8636(via, data)
  BY <1>1
<1>3. a \in DOMAIN Alarms8636(via, data) /\ Alarms8636(via, data)[a]
  BY <1>2, MergeKeeps, Zenon DEF Alarms8636
<1>4. Detect(data) # "cmis"
  BY SffAssumption DEF Detect
<1>5. SffAlarms(via, data) = Alarms8636(via, data)
  BY Zenon DEF SffAlarms
<1> QED
  BY <1>3, <1>4, <1>5, Zenon DEF Active

\* Each bit that is set and flags an alarm makes one alarm active, and only one, on
\* either path and whatever else of the image was read (sff8636.go:183-273).
LEMMA FlagsAreAlarms == EachFlagIsOneAlarm
<1> SUFFICES ASSUME NEW c \in AnsweredQSFP,
                    NEW bit \in FlagBits[result[c].data[Lower]] \cap FlagPositions
             PROVE  Cardinality({a \in Active(result[c].via, result[c].data) \cap Flags8636 :
                                   FlagBit(a) = bit}) = 1
  BY Zenon DEF EachFlagIsOneAlarm
<1> DEFINE via == result[c].via
           data == result[c].data
           active == Active(via, data)
<1>1. data[Lower] \in SFF8636
  BY DEF AnsweredQSFP, Detect
<1>2. PICK a \in Flags8636 : FlagBit(a) = bit
  BY OneBitPerAlarm, Zenon
<1>3. a \in active
  BY <1>1, <1>2, FlagIsActive, Zenon
<1> HIDE DEF active
<1>4. {d \in active \cap Flags8636 : FlagBit(d) = bit} = {a}
  BY <1>2, <1>3, OneAlarmPerBit
<1>5. Cardinality({a}) = 1
  BY FS_Singleton, Zenon
<1> QED
  BY <1>4, <1>5, Zenon DEF active

\* The same of every answer a call ever returns (sff8636.go:183-273).
THEOREM FlagsAreTold == Spec => []EachFlagIsOneAlarm
BY FlagsAreAlarms, PTL

-----------------------------------------------------------------------------
(***************************************************************************)
(* What the ioctl gave.  The property speaks of results; inductive is that *)
(* the ioctl's data a call keeps while it tries netlink is one of these.   *)
(***************************************************************************)
LegacyImages == {Blank} \cup {Legacy(m) : m \in Modules}

IoctlImages ==
  \A c \in Callers :
    /\ frame[c].ioctl \in LegacyImages
    /\ result[c].via = "ioctl" => result[c].data \in LegacyImages

LEMMA GotoImages ==
  ASSUME IInv, IoctlImages, NEW c \in Callers, NEW label, NEW f,
         f.ioctl \in LegacyImages, Goto(c, label, f)
  PROVE  IoctlImages'
<1>1. \A d \in Callers : frame'[d].ioctl \in LegacyImages
  BY DEF IInv, TypeOK, IoctlImages, Goto
<1>2. \A d \in Callers : result'[d].via = "ioctl" => result'[d].data \in LegacyImages
  BY DEF IoctlImages, Goto
<1> QED
  BY <1>1, <1>2 DEF IoctlImages

LEMMA ReturnImages ==
  ASSUME IInv, IoctlImages, NEW c \in Callers, NEW via, NEW data, NEW f,
         via = "ioctl" => data \in LegacyImages, Return(c, via, data, f)
  PROVE  IoctlImages'
<1>1. Fresh(NoInterface).ioctl = Blank /\ Blank \in LegacyImages
  BY DEF Fresh, LegacyImages
<1>2. \A d \in Callers : frame'[d].ioctl \in LegacyImages
  BY <1>1 DEF IInv, TypeOK, IoctlImages, Return
<1>3. \A d \in Callers : result'[d].via = "ioctl" => result'[d].data \in LegacyImages
  BY DEF IInv, TypeOK, IoctlImages, Return
<1> QED
  BY <1>2, <1>3 DEF IoctlImages

\* A failed netlink read gives back the ioctl's data as it was, or an error
\* (reader.go:100-133).
LEMMA NetlinkFailedImages ==
  ASSUME IInv, IoctlImages, NEW c \in Callers, NEW e, NetlinkFailed(c, e)
  PROVE  IoctlImages'
<1> DEFINE f == [frame[c] EXCEPT !.nlErr = {e}]
<1>1. frame[c] \in Frames /\ frame[c].ioctl \in LegacyImages
  BY DEF IInv, TypeOK, IoctlImages
<1>2. f.ioctl = frame[c].ioctl
  BY <1>1 DEF Frames
<1>3. f.ioctl \in LegacyImages
  BY <1>1, <1>2
<1> HIDE DEF f
<1>4. CASE Goto(c, "ioctl", f)
  BY <1>3, <1>4, GotoImages
<1>5. CASE Return(c, "ioctl", f.ioctl, f)
  BY <1>3, <1>5, ReturnImages
<1>6. CASE Return(c, "error", Blank, f)
  BY <1>6, ReturnImages
<1> QED
  BY <1>4, <1>5, <1>6, Zenon DEF NetlinkFailed, f

\* Fetching by netlink leaves the ioctl's data alone (netlink_linux.go:63-113).
LEMMA FetchImages ==
  ASSUME IInv, IoctlImages, NEW c \in Callers,
         \/ Identify(c)
         \/ ReadLower(c)
         \/ ReadPage00(c)
         \/ ReadPage01(c)
         \/ ReadPage02(c)
         \/ ReadBank(c)
  PROVE  IoctlImages'
<1>1. frame[c] \in Frames /\ frame[c].ioctl \in LegacyImages
  BY DEF IInv, TypeOK, IoctlImages
<1>2. \A data, bank : /\ [frame[c] EXCEPT !.page = data].ioctl \in LegacyImages
                      /\ [frame[c] EXCEPT !.page = data, !.bank = bank].ioctl \in LegacyImages
  BY <1>1 DEF Frames
<1>3. \A label : Goto(c, label, frame[c]) => IoctlImages'
  BY <1>1, GotoImages
<1>4. \A label, data : Goto(c, label, [frame[c] EXCEPT !.page = data]) => IoctlImages'
  BY <1>2, GotoImages
<1>5. \A data, f : Return(c, "netlink", data, f) => IoctlImages'
  BY ReturnImages
<1>6. ASSUME NEW data, NextBank(c, data)
      PROVE  IoctlImages'
  <2>1. CASE Goto(c, "bank", [frame[c] EXCEPT !.page = data, !.bank = @ + 1])
    BY <1>2, <2>1, GotoImages
  <2> QED
    BY <1>5, <1>6, <2>1, Zenon DEF NextBank
<1>7. CASE Identify(c)
  BY <1>3, <1>7 DEF Identify
<1>8. CASE ReadLower(c)
  BY <1>4, <1>8, NetlinkFailedImages, Zenon DEF ReadLower
<1>9. CASE ReadPage00(c)
  BY <1>4, <1>5, <1>9, Zenon DEF ReadPage00
<1>10. CASE ReadPage01(c)
  BY <1>4, <1>5, <1>10, Zenon DEF ReadPage01
<1>11. CASE ReadPage02(c)
  BY <1>3, <1>4, <1>11, Zenon DEF ReadPage02
<1>12. CASE ReadBank(c)
  BY <1>6, <1>12, Zenon DEF ReadBank
<1> QED
  BY <1>7, <1>8, <1>9, <1>10, <1>11, <1>12

\* The ioctl's answer is what the module gave (reader.go:109-133).
LEMMA IoctlStepImages ==
  ASSUME IInv, IoctlImages, NEW c \in Callers, Ioctl(c)
  PROVE  IoctlImages'
<1>1. frame[c] \in Frames /\ frame[c].ioctl \in LegacyImages
  BY DEF IInv, TypeOK, IoctlImages
<1>2. Answering(c) \subseteq Modules
  <2>1. frame[c].iface \in Interfaces
    BY DEF IInv, LocalOK, Ioctl, Reading, Locked
  <2> QED
    BY <2>1, AnsweringModules DEF IInv
<1>3. CASE \E m \in Answering(c) : \E data \in {Legacy(m), Blank} : IoctlAnswered(c, data)
  <2>1. PICK data \in LegacyImages : IoctlAnswered(c, data)
    BY <1>2, <1>3 DEF LegacyImages
  <2>2. [frame[c] EXCEPT !.site = "upgrade", !.ioctl = data].ioctl = data
    BY <1>1 DEF Frames
  <2>3. CASE Goto(c, "lower", [frame[c] EXCEPT !.site = "upgrade", !.ioctl = data])
    BY <2>2, <2>3, GotoImages
  <2>4. CASE Return(c, "ioctl", data, frame[c])
    BY <2>4, ReturnImages
  <2> QED
    BY <2>1, <2>3, <2>4, Zenon DEF IoctlAnswered
<1>4. CASE \E e \in Errnos : IoctlFailed(c, e)
  <2>1. PICK e \in Errnos : IoctlFailed(c, e)
    BY <1>4
  <2> DEFINE f == [frame[c] EXCEPT !.ioErr = {e}]
  <2>2. [f EXCEPT !.site = "fallback"].ioctl \in LegacyImages
    BY <1>1 DEF Frames
  <2> HIDE DEF f
  <2>3. CASE Goto(c, "lower", [f EXCEPT !.site = "fallback"])
    BY <2>2, <2>3, GotoImages
  <2>4. CASE Return(c, "error", Blank, f)
    BY <2>4, ReturnImages
  <2> QED
    BY <2>1, <2>3, <2>4, Zenon DEF IoctlFailed, f
<1> QED
  BY <1>3, <1>4 DEF Ioctl

\* The inductive step, one case per action of the reader.
LEMMA NextImages == IInv /\ IoctlImages /\ [Next]_vars => IoctlImages'
<1> SUFFICES ASSUME IInv, IoctlImages, [Next]_vars
             PROVE  IoctlImages'
  OBVIOUS
<1>1. CASE UNCHANGED vars
  BY <1>1 DEF vars, IoctlImages
<1>2. ASSUME NEW i \in Interfaces, NEW m \in Modules \cup {NoModule}, Swap(i, m)
      PROVE  IoctlImages'
  BY <1>2 DEF Swap, IoctlImages
<1>3. ASSUME NEW c \in Callers, NEW i \in Interfaces, Call(c, i)
      PROVE  IoctlImages'
  <2>1. Fresh(i).ioctl \in LegacyImages /\ NoResult.via # "ioctl"
    BY DEF Fresh, LegacyImages, NoResult
  <2>2. \A d \in Callers : frame'[d].ioctl \in LegacyImages
    BY <1>3, <2>1 DEF Call, IInv, TypeOK, IoctlImages
  <2>3. \A d \in Callers : result'[d].via = "ioctl" => result'[d].data \in LegacyImages
    BY <1>3, <2>1 DEF Call, IInv, TypeOK, IoctlImages
  <2> QED
    BY <2>2, <2>3 DEF IoctlImages
<1>4. ASSUME NEW c \in Callers, Acquire(c) \/ BeginClose(c) \/ AcquireClose(c) \/ Close(c)
      PROVE  IoctlImages'
  BY <1>4 DEF Acquire, BeginClose, AcquireClose, Close, IoctlImages
<1>5. ASSUME NEW c \in Callers, Transaction(c)
      PROVE  IoctlImages'
  BY <1>5, FetchImages, IoctlStepImages DEF Transaction
<1> QED
  BY <1>1, <1>2, <1>3, <1>4, <1>5 DEF Next

\* Whatever is returned as the ioctl's data, at once or after netlink failed, is what
\* the ioctl gave of one module, or nothing (reader.go:109-133).
THEOREM IoctlImagesInvariance == Spec => []IoctlImages
<1>1. Init => IoctlImages
  BY DEF Init, IoctlImages, LegacyImages, Fresh, NoResult
<1> QED
  BY <1>1, NextImages, Invariance, PTL DEF Spec

-----------------------------------------------------------------------------
(***************************************************************************)
(* The alarms of what the ioctl gave of an SFF module.                     *)
(***************************************************************************)

\* A crossing of a block that is there is an entry, and an active one (common.go:27-45).
LEMMA CrossingIsEntry ==
  ASSUME NEW compared, NEW exceeded, NEW a \in exceeded, a \in BoundAlarms(compared)
  PROVE  /\ compared # {}
         /\ Entry(a, TRUE) \in ThresholdEntries(compared, exceeded)
<1>1. compared # {}
  BY DEF BoundAlarms
<1>2. Entry(a, a \in exceeded) = Entry(a, TRUE)
  BY Zenon DEF Entry
<1>3. Entry(a, a \in exceeded) \in ThresholdEntries(compared, exceeded)
  BY Zenon DEF ThresholdEntries
<1> QED
  BY <1>1, <1>2, <1>3, Zenon

\* What a slot of the ioctl's data holds (reader.go:109-118).
LEMMA LegacySlotsHold ==
  ASSUME NEW data \in LegacyImages, data[Lower] \in Modules
  PROVE  /\ data = Legacy(data[Lower])
         /\ \A s \in Slots : data[s] \in Modules => data[s] = data[Lower]
         /\ data[Page02] # Missing => data[Page01] = data[Lower]
<1>1. Blank[Lower] \notin Modules
  BY MemoryAssumption DEF Blank, Lower, Slots, MaxBanks
<1>2. PICK m \in Modules : data = Legacy(m)
  BY <1>1 DEF LegacyImages
<1>3. LegacySlots[m] \in 2 .. 5
  BY MemoryAssumption
<1>4. data[Lower] = m
  BY <1>2, <1>3 DEF Legacy, Lower, Slots, MaxBanks
<1>5. \A s \in Slots : data[s] \in Modules => data[s] = m
  BY <1>2, MemoryAssumption DEF Legacy
<1>6. data[Page02] # Missing => data[Page01] = m
  BY <1>2, <1>3, MemoryAssumption DEF Legacy, Page01, Page02, Slots, MaxBanks
<1> QED
  BY <1>2, <1>4, <1>5, <1>6

\* Everything an SFF-8636 module raises and nothing else (sff8636.go:183-284).
LEMMA Told8636 ==
  ASSUME NEW data \in LegacyImages, data[Lower] \in SFF8636
  PROVE  /\ Active("ioctl", data) \subseteq RaisedSff(data[Lower])
         /\ data[Page11(0)] = data[Lower] => RaisedSff(data[Lower]) \subseteq Active("ioctl", data)
<1> DEFINE m == data[Lower]
<1>1. m \in Modules /\ Page11(0) \in Slots
  BY SffAssumption DEF Page11, Slots, MaxBanks
<1>2. Detect(data) # "cmis"
  BY SffAssumption DEF Detect
<1>3. SffAlarms("ioctl", data) = Alarms8636("ioctl", data)
  BY Zenon DEF SffAlarms
<1>4. Active("ioctl", data) =
        {a \in DOMAIN Alarms8636("ioctl", data) : Alarms8636("ioctl", data)[a]}
  BY <1>2, <1>3, Zenon DEF Active
<1>5. ASSUME NEW a \in Active("ioctl", data)
      PROVE  a \in RaisedSff(m)
  <2>1. a \in DOMAIN Alarms8636("ioctl", data) /\ Alarms8636("ioctl", data)[a]
    BY <1>4, <1>5, Zenon
  <2>2. \/ a \in Flagged(m)
        \/ data[Page11(0)] \in Modules /\ a \in Crossed["ioctl"][data[Page11(0)]][m]
    BY <2>1, Source8636, Zenon
  <2>3. data[Page11(0)] \in Modules => data[Page11(0)] = m
    BY <1>1, LegacySlotsHold
  <2> QED
    BY <2>2, <2>3 DEF RaisedSff
<1>6. ASSUME data[Page11(0)] = m, NEW a \in RaisedSff(m)
      PROVE  a \in Active("ioctl", data)
  <2>1. CASE a \in Flagged(m)
    BY <2>1, FlagIsActive, Zenon DEF Flagged
  <2>2. CASE a \in Crossed["ioctl"][m][m]
    <3> DEFINE compared == Compared8636("ioctl", data)
    <3>1. compared = ComparedIn(Blocks["ioctl"][m], QSFPLanes)
      BY <1>1, <1>6 DEF Compared8636
    <3>2. a \in BoundAlarms(compared)
      BY <1>1, <2>2, <3>1, CrossedAssumption
    <3> HIDE DEF compared
    <3>3. compared # {} /\ Entry(a, TRUE) \in ThresholdEntries(compared, Crossed["ioctl"][m][m])
      BY <2>2, <3>2, CrossingIsEntry
    <3>4. Entry(a, TRUE) \in ThresholdEntries8636("ioctl", data)
      BY <1>6, <3>3, Zenon DEF ThresholdEntries8636, compared
    <3>5. Entry(a, TRUE) \in FlagEntries8636(data) \cup ThresholdEntries8636("ioctl", data)
      BY <3>4
    <3> QED
      BY <1>4, <3>5, MergeKeeps, Zenon DEF Alarms8636
  <2> QED
    BY <1>6, <2>1, <2>2 DEF RaisedSff
<1> QED
  BY <1>5, <1>6

\* Everything an SFF-8472 module raises and nothing else (sff8472.go:47-73).
LEMMA Told8472 ==
  ASSUME NEW data \in LegacyImages, data[Lower] \in SFF8472
  PROVE  /\ Active("ioctl", data) \subseteq RaisedSff(data[Lower])
         /\ Diagnosed8472(data) => RaisedSff(data[Lower]) \subseteq Active("ioctl", data)
<1> DEFINE m == data[Lower]
<1>1. m \in Modules /\ m \notin SFF8636 /\ Page01 \in Slots
  BY SffAssumption DEF Page01, Slots, MaxBanks
<1>2. Detect(data) # "cmis"
  BY SffAssumption DEF Detect
<1>3. SffAlarms("ioctl", data) = Alarms8472("ioctl", data)
  BY <1>1, Zenon DEF SffAlarms
<1>4. Active("ioctl", data) =
        {a \in DOMAIN Alarms8472("ioctl", data) : Alarms8472("ioctl", data)[a]}
  BY <1>2, <1>3, Zenon DEF Active
<1>5. ASSUME NEW a \in Active("ioctl", data)
      PROVE  a \in RaisedSff(m)
  <2>1. a \in DOMAIN Alarms8472("ioctl", data) /\ Alarms8472("ioctl", data)[a]
    BY <1>4, <1>5, Zenon
  <2>2. data[Page01] \in Modules /\ a \in Crossed["ioctl"][data[Page01]][data[Page01]]
    BY <2>1, Source8472, Zenon
  <2>3. data[Page01] = m
    BY <1>1, <2>2, LegacySlotsHold
  <2> QED
    BY <2>2, <2>3 DEF RaisedSff
<1>6. ASSUME Diagnosed8472(data), NEW a \in RaisedSff(m)
      PROVE  a \in Active("ioctl", data)
  <2>1. a \in Crossed["ioctl"][m][m]
    BY <1>1, <1>6 DEF RaisedSff, Flagged
  <2>2. data[Page01] = m
    BY <1>1, <1>6, LegacySlotsHold DEF Diagnosed8472
  <2> DEFINE compared == Compared8472("ioctl", data)
  <2>3. compared = ComparedIn(Blocks["ioctl"][m], {1})
    BY <1>1, <1>6, <2>2 DEF Compared8472
  <2>4. a \in BoundAlarms(compared)
    BY <1>1, <2>1, <2>3, CrossedAssumption
  <2> HIDE DEF compared
  <2>5. compared # {} /\ Entry(a, TRUE) \in ThresholdEntries(compared, Crossed["ioctl"][m][m])
    BY <2>1, <2>4, CrossingIsEntry
  <2> QED
    BY <1>4, <2>2, <2>5, MergeKeeps, Zenon DEF Alarms8472, compared
<1> QED
  BY <1>5, <1>6

\* An SFF module read by the ioctl is told as it is: no alarm it does not raise, and
\* all it raises once the pages with its thresholds were there (sff8472.go:47-73,
\* sff8636.go:195-206).
THEOREM IoctlIsTold == Spec => []IoctlTellsTheModule
<1>1. IoctlImages => IoctlTellsTheModule
  <2> SUFFICES ASSUME IoctlImages, NEW c \in AnsweredSff, result[c].via = "ioctl"
               PROVE  LET data == result[c].data
                          m == data[Lower]
                          whole == IF m \in SFF8636 THEN data[Page11(0)] = m ELSE Diagnosed8472(data)
                      IN  /\ Active("ioctl", data) \subseteq RaisedSff(m)
                          /\ whole => Active("ioctl", data) = RaisedSff(m)
    BY Zenon DEF IoctlTellsTheModule
  <2> DEFINE data == result[c].data
  <2>1. data \in LegacyImages
    BY DEF AnsweredSff, IoctlImages
  <2>2. data[Lower] \in SFF8636 \cup SFF8472
    BY DEF AnsweredSff, Detect
  <2> HIDE DEF data
  <2>3. CASE data[Lower] \in SFF8636
    BY <2>1, <2>3, Told8636 DEF data
  <2>4. CASE data[Lower] \in SFF8472
    <3>1. data[Lower] \notin SFF8636
      BY <2>4, SffAssumption
    <3> QED
      BY <2>1, <2>4, <3>1, Told8472 DEF data
  <2> QED
    BY <2>2, <2>3, <2>4
<1> QED
  BY <1>1, IoctlImagesInvariance, PTL

-----------------------------------------------------------------------------
(***************************************************************************)
(* The alarms of a CMIS module that was read as a whole.                   *)
(***************************************************************************)

\* A set of naturals that has a bound has a greatest element: the least distance to
\* the bound is its.
LEMMA MaxOfBounded ==
  ASSUME NEW n \in Nat, NEW S, S \subseteq 0 .. n, S # {}
  PROVE  Max(S) \in S
<1> DEFINE T == {k \in 0 .. n : n - k \in S}
<1>1. T \subseteq Nat /\ T # {}
  <2>1. PICK x \in S : TRUE
    OBVIOUS
  <2>2. x \in 0 .. n /\ n - x \in 0 .. n /\ n - (n - x) = x
    BY <2>1
  <2>3. n - x \in T
    BY <2>2
  <2>4. T \subseteq Nat
    OBVIOUS
  <2> HIDE DEF T
  <2> QED
    BY <2>3, <2>4
<1> HIDE DEF T
<1>2. PICK k \in T : \A j \in T : <<j, k>> \notin OpToRel(<, Nat)
  BY <1>1, NatLessThanWellFounded, WFMin, Zenon
<1>3. \A j \in T : ~ (j < k)
  BY <1>1, <1>2 DEF OpToRel
<1>4. n - k \in S /\ k \in 0 .. n
  BY <1>2 DEF T
<1>5. ASSUME NEW y \in S
      PROVE  n - k >= y
  <2>1. y \in 0 .. n /\ n - y \in 0 .. n /\ n - (n - y) = y
    BY <1>5
  <2>2. n - y \in T
    BY <2>1 DEF T
  <2>3. ~ (n - y < k)
    BY <1>3, <2>2
  <2> QED
    BY <1>4, <2>1, <2>3
<1> QED
  BY <1>4, <1>5, Zenon DEF Max

\* Applications use the lanes of the first bank alone (cmis.go:538-554).
LEMMA AdvertisedInBank ==
  ASSUME NEW m \in Modules
  PROVE  AdvertisedLanes(m) \in 0 .. LanesPerBank
<1> DEFINE counts == {Apps[m][k] : k \in {n \in DOMAIN Apps[m] :
                                            \A j \in 1 .. n : Apps[m][j] # AppEnd}}
           believed == {n \in counts : n <= LanesPerBank} \cup {0}
<1>1. LanesPerBank \in Nat /\ Apps[m] \in Seq((0 .. 15) \cup {AppEnd})
  BY DecoderAssumption
<1>2. counts \subseteq Nat
  <2> SUFFICES ASSUME NEW k \in DOMAIN Apps[m], \A j \in 1 .. k : Apps[m][j] # AppEnd
               PROVE  Apps[m][k] \in Nat
    OBVIOUS
  <2>1. k \in 1 .. k /\ Apps[m][k] \in (0 .. 15) \cup {AppEnd}
    BY <1>1
  <2> QED
    BY <2>1
<1> HIDE DEF counts
<1>3. believed \subseteq 0 .. LanesPerBank /\ believed # {}
  <2>1. \A x \in believed : x \in Nat /\ x <= LanesPerBank
    BY <1>1, <1>2
  <2>2. 0 \in believed
    OBVIOUS
  <2> HIDE DEF believed
  <2> QED
    BY <1>1, <2>1, <2>2
<1> HIDE DEF believed
<1>4. Max(believed) \in believed
  BY <1>1, <1>3, MaxOfBounded
<1>5. AdvertisedLanes(m) = Max(believed)
  BY Zenon DEF AdvertisedLanes, believed, counts
<1> QED
  BY <1>3, <1>4, <1>5

\* No page of the image failed, and the module stayed.
Whole(data) ==
  LET m == data[Lower]
  IN  /\ m \notin Flat
      /\ ReadPages(data) = 0 .. Page11(Banks[m] - 1)
      /\ \A s \in ReadPages(data) : data[s] = m

LEMMA WholePages ==
  ASSUME NEW data, Whole(data), data[Lower] \in Modules
  PROVE  /\ data[Page01] = data[Lower] /\ data[Page02] = data[Lower]
         /\ Banks[data[Lower]] \in 1 .. MaxBanks
         /\ \A b \in 0 .. Banks[data[Lower]] - 1 : data[Page11(b)] = data[Lower]
<1> DEFINE m == data[Lower]
<1>1. Banks[m] \in {1, 2, 4}
  BY MemoryAssumption
<1>2. \A s \in 0 .. 4 + (Banks[m] - 1) : data[s] = m
  BY DEF Whole, Page11
<1> HIDE DEF m
<1>3. data[2] = m /\ data[3] = m
  BY <1>1, <1>2
<1>4. \A b \in 0 .. Banks[m] - 1 : data[4 + b] = m
  BY <1>1, <1>2
<1> QED
  BY <1>1, <1>3, <1>4 DEF Page01, Page02, Page11, MaxBanks, m

\* The lanes in reach are decoded, from the pages of the module (cmis.go:166-215).
LEMMA ReachIsDecoded ==
  ASSUME NEW data, Whole(data), data[Lower] \in Modules, NEW l \in LanesInReach(data[Lower])
  PROVE  \E b \in DecodedBanks(data), i \in LaneNumbers :
           /\ l = Index(b, i)
           /\ l \in LaneIndexes(data)
           /\ b \in 0 .. Banks[data[Lower]] - 1
<1> DEFINE m == data[Lower]
<1>1. LanesPerBank \in Nat \ {0} /\ m \in Modules
  BY DecoderAssumption
<1>2. /\ data[Page01] = m
      /\ Banks[m] \in 1 .. MaxBanks
      /\ \A b \in 0 .. Banks[m] - 1 : data[Page11(b)] = m
  BY WholePages
<1>3. /\ l \in LanesInUse(m) /\ Advert[m] # {}
      /\ \A b \in 0 .. (l - 1) \div LanesPerBank : <<m, b>> \notin ZeroPages
  BY Zenon DEF LanesInReach
<1>4. m # Missing /\ m # Zero
  BY <1>1, MemoryAssumption
<1> HIDE DEF m
<1>5. PICK b \in 0 .. Banks[m] - 1, i \in LaneNumbers :
        /\ l = Index(b, i)
        /\ IF AdvertisedLanes(m) > 0 THEN l <= AdvertisedLanes(m)
           ELSE LaneData[m][b][i].lit \cap Advert[m] # {}
  <2>1. CASE AdvertisedLanes(m) > 0
    <3>1. AdvertisedLanes(m) \in 0 .. LanesPerBank
      BY <1>1, AdvertisedInBank
    <3>2. l \in 1 .. AdvertisedLanes(m)
      BY <1>3, <2>1 DEF LanesInUse
    <3>3. 0 \in 0 .. Banks[m] - 1 /\ l \in LaneNumbers /\ l = Index(0, l)
      BY <1>1, <1>2, <3>1, <3>2 DEF LaneNumbers, Index, MaxBanks
    <3> QED
      BY <2>1, <3>1, <3>2, <3>3
  <2>2. CASE ~ (AdvertisedLanes(m) > 0)
    <3>1. PICK y \in (0 .. Banks[m] - 1) \X LaneNumbers :
            LaneData[m][y[1]][y[2]].lit \cap Advert[m] # {} /\ l = Index(y[1], y[2])
      BY <1>3, <2>2 DEF LanesInUse
    <3> QED
      BY <2>2, <3>1
  <2> QED
    BY <2>1, <2>2
<1>6. b \in 0 .. MaxBanks - 1 /\ \A k \in 0 .. b : k \in 0 .. Banks[m] - 1
  BY <1>2 DEF MaxBanks
<1>7. (l - 1) \div LanesPerBank = b
  BY <1>5, <1>6, IndexTellsBank
<1>8. b \in DecodedBanks(data)
  <2>1. \A k \in 0 .. b : HasPage(data, Page11(k)) /\ ~ DarkPage(data[Page11(k)], k)
    BY <1>2, <1>3, <1>4, <1>6, <1>7 DEF HasPage, DarkPage
  <2> QED
    BY <1>6, <2>1 DEF DecodedBanks
<1>9. LaneKept(data, b, i)
  <2>1. data[Page11(b)] = m
    BY <1>2
  <2> QED
    BY <1>2, <1>5, <2>1, Zenon DEF LaneKept, m
<1>10. l \in LaneIndexes(data)
  <2> DEFINE lane == [index |-> Index(b, i), state |-> LaneData[data[Page11(b)]][b][i].state]
  <2>1. lane \in Lanes(data)
    <3>1. <<b, i>> \in {x \in DecodedBanks(data) \X LaneNumbers : LaneKept(data, x[1], x[2])}
      BY <1>8, <1>9
    <3>2. data[Page01] \in Modules /\ Advert[data[Page01]] # {}
      BY <1>1, <1>2, <1>3
    <3> QED
      BY <3>1, <3>2 DEF Lanes
  <2>2. lane.index = l
    BY <1>5
  <2> QED
    BY <2>1, <2>2 DEF LaneIndexes
<1> QED
  BY <1>5, <1>8, <1>10 DEF m

LEMMA KeptByMerge ==
  ASSUME NEW data, NEW a,
         Entry(a, TRUE) \in ModuleFlagAlarms(data) \cup ThresholdAlarms(data) \cup LaneFlagAlarms(data)
  PROVE  a \in DOMAIN Alarms(data) /\ Alarms(data)[a]
BY MergeKeeps, Zenon DEF Alarms

\* A flag of the lower memory is told (cmis.go:284-300).
LEMMA LowerFlagTold ==
  ASSUME NEW data, data[Lower] \in Modules, NEW a \in LowerFlags[data[Lower]]
  PROVE  Entry(a, TRUE) \in ModuleFlagAlarms(data)
<1> DEFINE bounds == BoundAlarms({<<"temperature", 0>>, <<"voltage", 0>>})
<1>1. a \in bounds
  BY ContentAssumption
<1>2. Entry(a, a \in LowerFlags[data[Lower]]) = Entry(a, TRUE)
  BY Zenon DEF Entry
<1>3. Entry(a, a \in LowerFlags[data[Lower]]) \in ModuleFlagAlarms(data)
  BY <1>1, Zenon DEF ModuleFlagAlarms
<1> QED
  BY <1>2, <1>3, Zenon

\* A limit that is exceeded by the module or on a lane in reach is told
\* (cmis.go:217-237).
LEMMA ExceededTold ==
  ASSUME NEW data, Whole(data), data[Lower] \in Modules,
         NEW a \in Exceeded[data[Lower]][data[Lower]],
         a.lane = 0 \/ a.of \in Advert[data[Lower]],
         a.lane \in LanesInReach(data[Lower]) \cup {0}
  PROVE  Entry(a, TRUE) \in ThresholdAlarms(data)
<1> DEFINE m == data[Lower]
<1>1. m \in Modules
  OBVIOUS
<1>2. /\ data[Page01] = m /\ data[Page02] = m
      /\ \A b \in 0 .. Banks[m] - 1 : data[Page11(b)] = m
      /\ Banks[m] \in 1 .. MaxBanks
  BY WholePages
<1> DEFINE own == (Limits[m] \cap {"temperature", "voltage"}) \X {0}
           lanes == (Limits[m] \cap Monitors) \X (1 .. MaxBanks * LanesPerBank)
<1>3. a \in BoundAlarms(own \cup lanes)
  BY <1>1, ContentAssumption
<1> HIDE DEF m, own, lanes
<1>4. PICK x \in own \cup lanes, b \in Boundaries : a = Alarm(x[1], b[1], b[2], x[2])
  BY <1>3 DEF BoundAlarms
<1>5. a.of = x[1] /\ a.lane = x[2]
  BY <1>4 DEF Alarm
<1>6. /\ x \in own => /\ x = <<x[1], 0>> /\ x[2] = 0
                      /\ x[1] \in Limits[m] \cap {"temperature", "voltage"}
      /\ x \in lanes => x = <<x[1], x[2]>> /\ x[1] \in Limits[m] /\ x[2] # 0
  BY DecoderAssumption DEF own, lanes, MaxBanks
<1>7. x \in Compared(data) /\ ReadingOf(data, a.lane) = m
  <2>1. CASE x \in own
    <3>1. x \in {<<of, 0>> : of \in Limits[m] \cap {"temperature", "voltage"}}
      BY <1>6, <2>1, Zenon
    <3>2. x \in Compared(data)
      BY <1>1, <1>2, <3>1 DEF Compared, m
    <3>3. ReadingOf(data, a.lane) = m
      BY <1>5, <1>6, <2>1 DEF ReadingOf, m
    <3> QED
      BY <3>2, <3>3
  <2>2. CASE x \in lanes
    <3>1. a.lane # 0 /\ a.lane \in LanesInReach(m) /\ a.of \in Advert[m]
      BY <1>5, <1>6, <2>2 DEF m
    <3>2. PICK d \in DecodedBanks(data), i \in LaneNumbers :
            a.lane = Index(d, i) /\ a.lane \in LaneIndexes(data) /\ d \in 0 .. Banks[m] - 1
      BY <1>1, <3>1, ReachIsDecoded, Zenon DEF m
    <3>3. x \in Compared(data)
      <4>1. x \in (Limits[m] \cap Advert[m]) \X LaneIndexes(data)
        BY <1>5, <1>6, <2>2, <3>1, <3>2
      <4> QED
        BY <1>1, <1>2, <4>1 DEF Compared
    <3>4. (a.lane - 1) \div LanesPerBank = d
      <4>1. d \in 0 .. MaxBanks - 1
        BY <1>2, <3>2 DEF MaxBanks
      <4> QED
        BY <3>2, <4>1, IndexTellsBank
    <3>5. data[Page11(d)] = m
      BY <1>2, <3>2
    <3> QED
      BY <3>1, <3>3, <3>4, <3>5, Zenon DEF ReadingOf
  <2> QED
    BY <2>1, <2>2
<1>8. a \in BoundAlarms(Compared(data))
  BY <1>4, <1>7 DEF BoundAlarms
<1>9. a \in Exceeded[data[Page02]][ReadingOf(data, a.lane)]
  BY <1>2, <1>7 DEF m
<1> DEFINE exceeded == Exceeded[data[Page02]][ReadingOf(data, a.lane)]
<1>10. Entry(a, a \in exceeded) = Entry(a, TRUE)
  BY <1>9, Zenon DEF Entry
<1>11. Entry(a, a \in exceeded) \in ThresholdAlarms(data)
  BY <1>8, Zenon DEF ThresholdAlarms
<1> QED
  BY <1>10, <1>11, Zenon

\* A flag page 11h can set is among those looked at if its quantity is advertised.
LEMMA AdvertisedTriples ==
  ASSUME NEW m \in Modules, NEW f \in BoundTriples(Monitors) \cup FaultTriples(Faults),
         f[1] \in Advert[m] \cup FaultAdvert[m]
  PROVE  f \in BoundFlags(m) \cup FaultFlags(m)
<1>1. Monitors \cap Faults = {} /\ Advert[m] \subseteq Monitors /\ FaultAdvert[m] \subseteq Faults
  BY DecoderAssumption
<1>2. CASE f \in BoundTriples(Monitors)
  <2>1. PICK of \in Monitors, b \in Boundaries : f = <<of, b[1], b[2]>>
    BY <1>2 DEF BoundTriples
  <2>2. of \in Advert[m]
    BY <1>1, <2>1
  <2> QED
    BY <2>1, <2>2 DEF BoundFlags, BoundTriples
<1>3. CASE f \in FaultTriples(Faults)
  <2>1. \A of, bound, severity : <<of, bound, severity>>[1] = of
    OBVIOUS
  <2>2. PICK of \in Faults : f = <<of, "", "fault">>
    BY <1>3, Zenon DEF FaultTriples
  <2>3. f[1] = of
    BY <2>1, <2>2, Zenon
  <2>4. of \in FaultAdvert[m]
    <3>1. of \in Faults
      OBVIOUS
    <3>2. of \notin Advert[m]
      BY <1>1, <3>1, Zenon
    <3> QED
      BY <2>3, <3>2, Zenon
  <2>5. f \in FaultFlags(m)
    BY <2>2, <2>4, Zenon DEF FaultFlags, FaultTriples
  <2> QED
    BY <2>5
<1> QED
  BY <1>2, <1>3

\* A flag of a lane in reach is told (cmis.go:302-360).
LEMMA LaneFlagTold ==
  ASSUME NEW data, Whole(data), data[Lower] \in Modules,
         NEW a \in LaneFlags(data[Lower], Advert[data[Lower]] \cup FaultAdvert[data[Lower]]),
         a.lane \in LanesInReach(data[Lower]) \cup {0}
  PROVE  Entry(a, TRUE) \in LaneFlagAlarms(data)
<1> DEFINE m == data[Lower]
<1>1. m \in Modules
  OBVIOUS
<1>2. /\ data[Page01] = m
      /\ \A b \in 0 .. Banks[m] - 1 : data[Page11(b)] = m
      /\ Banks[m] \in 1 .. MaxBanks
  BY WholePages
<1> HIDE DEF m
<1> DEFINE sources == Advert[m] \cup FaultAdvert[m]
<1> DEFINE set(y) == {g \in LaneData[m][y[1]][y[2]].flags : g[1] \in sources}
<1>3. PICK x \in (0 .. MaxBanks - 1) \X LaneNumbers :
         a \in {Alarm(g[1], g[2], g[3], Index(x[1], x[2])) : g \in set(x)}
  BY Zenon DEF LaneFlags, m
<1>4. PICK f \in set(x) : a = Alarm(f[1], f[2], f[3], Index(x[1], x[2]))
  BY <1>3, Zenon
<1>5. /\ f \in LaneData[m][x[1]][x[2]].flags
      /\ f[1] \in Advert[m] \cup FaultAdvert[m]
      /\ a = Alarm(f[1], f[2], f[3], Index(x[1], x[2]))
  BY <1>4, Zenon
<1>6. a.lane = Index(x[1], x[2])
  BY <1>5 DEF Alarm
<1>7. a.lane # 0
  BY <1>6, IndexTellsBank
<1>8. PICK b \in DecodedBanks(data), i \in LaneNumbers :
        a.lane = Index(b, i) /\ a.lane \in LaneIndexes(data) /\ b \in 0 .. Banks[m] - 1
  <2>1. a.lane \in LanesInReach(m)
    BY <1>7 DEF m
  <2> QED
    BY <1>1, <2>1, ReachIsDecoded, Zenon DEF m
<1>9. x[1] = b /\ x[2] = i
  <2>1. b \in 0 .. MaxBanks - 1
    BY <1>2, <1>8 DEF MaxBanks
  <2>2. x[1] \in 0 .. MaxBanks - 1 /\ x[2] \in LaneNumbers
    OBVIOUS
  <2>3. Index(x[1], x[2]) = Index(b, i)
    BY <1>6, <1>8
  <2>4. \A d \in 0 .. MaxBanks - 1, j \in LaneNumbers : Index(d, j) = Index(b, i) => d = b /\ j = i
    BY <2>1, IndexInjective
  <2> QED
    BY <2>2, <2>3, <2>4, Zenon
<1>10. x \in {y \in DecodedBanks(data) \X LaneNumbers : Index(y[1], y[2]) \in LaneIndexes(data)}
  BY <1>6, <1>8, <1>9
<1>11. f \in BoundFlags(m) \cup FaultFlags(m)
  <2>1. f \in BoundTriples(Monitors) \cup FaultTriples(Faults)
    BY <1>1, <1>5, ContentAssumption
  <2> QED
    BY <1>1, <1>5, <2>1, AdvertisedTriples, Zenon
<1>12. f \in LaneData[data[Page11(x[1])]][x[1]][x[2]].flags
  BY <1>2, <1>8, <1>9
<1> DEFINE flags == LaneData[data[Page11(x[1])]][x[1]][x[2]].flags
<1>13. Entry(a, f \in flags) = Entry(a, TRUE)
  BY <1>12, Zenon DEF Entry
<1>14. Entry(a, f \in flags) \in LaneFlagAlarms(data)
  BY <1>1, <1>2, <1>5, <1>10, <1>11 DEF LaneFlagAlarms
<1> QED
  BY <1>13, <1>14, Zenon

\* A CMIS module no page of which failed loses nothing it raises, on itself or on a
\* lane in reach, whichever path read it (cmis.go:166-382).
THEOREM FullReadIsTold == Spec => []FullReadLosesNothing
<1>1. FullReadLosesNothing
  <2> SUFFICES ASSUME NEW c \in Answered, Whole(result[c].data),
                      NEW a \in Raised(result[c].data[Lower]),
                      a.lane \in LanesInReach(result[c].data[Lower]) \cup {0}
               PROVE  /\ a \in DOMAIN Alarms(result[c].data)
                      /\ Alarms(result[c].data)[a]
    BY Zenon DEF FullReadLosesNothing, Whole
  <2> DEFINE data == result[c].data
  <2>1. data[Lower] \in Modules
    BY MemoryAssumption DEF Answered, IsCMIS
  <2> HIDE DEF data
  <2>2. Entry(a, TRUE) \in ModuleFlagAlarms(data) \cup ThresholdAlarms(data) \cup LaneFlagAlarms(data)
    <3>1. CASE a \in LowerFlags[data[Lower]]
      BY <2>1, <3>1, LowerFlagTold
    <3>2. CASE a \in Exceeded[data[Lower]][data[Lower]] /\ (a.lane = 0 \/ a.of \in Advert[data[Lower]])
      BY <2>1, <3>2, ExceededTold DEF data
    <3>3. CASE a \in LaneFlags(data[Lower], Advert[data[Lower]] \cup FaultAdvert[data[Lower]])
      BY <2>1, <3>3, LaneFlagTold DEF data
    <3> QED
      BY <3>1, <3>2, <3>3 DEF Raised, data
  <2> QED
    BY <2>2, KeptByMerge DEF data
<1> QED
  BY <1>1, PTL
=============================================================================
