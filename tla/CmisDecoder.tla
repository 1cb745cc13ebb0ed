----------------------------- MODULE CmisDecoder -----------------------------
(***************************************************************************)
(* cmisDecoder (cmis.go): the lanes, alarms and thresholds read off the    *)
(* image of a CMIS module, page by page.  A page that is missing or zero-  *)
(* filled is skipped; what is left must still be consistent.               *)
(***************************************************************************)
EXTENDS ModuleMemory, DiagnosticAlarms, Sequences, FiniteSets, FiniteSetsExt

CONSTANTS
  LanesPerBank,  \* 8 in the code
  Monitors,      \* {"tx_bias", "tx_power", "rx_power"} in the code
  Faults,        \* the flags of page 11h that are not monitor flags
  AppEnd,        \* the descriptor byte 0xff that ends the application list
  Apps,          \* Apps[m]: media lane counts of m's applications (lower memory)
  LowerFlags,    \* LowerFlags[m]: module-level alarms flagged in lower memory
  Advert,        \* Advert[m]: the lane monitors page 01h advertises
  FaultAdvert,   \* FaultAdvert[m]: the fault flags page 01h advertises
  Limits,        \* Limits[m]: the quantities page 02h has thresholds for
  Exceeded,      \* Exceeded[p][m]: the alarms m's readings raise against page 02h of p
  LaneData,      \* LaneData[m][b][i]: what page 11h of bank b says of its lane i:
                 \* lit (monitors neither 0 nor 0xffff), state and flags
  ZeroPages      \* the <<m, b>> of which every byte of page 11h of bank b is zero

ASSUME DecoderAssumption ==
  /\ LanesPerBank \in Nat \ {0}
  /\ Monitors \cap Faults = {}
  /\ Apps \in [Modules -> Seq((0 .. 15) \cup {AppEnd})]
  /\ Advert \in [Modules -> SUBSET Monitors]
  /\ FaultAdvert \in [Modules -> SUBSET Faults]
  /\ Limits \in [Modules -> SUBSET (Monitors \cup {"temperature", "voltage"})]

LaneNumbers == 1 .. LanesPerBank

\* What page 11h can flag of a lane: <<quantity, bound, severity>>.
BoundTriples(monitors) == {<<of, b[1], b[2]>> : of \in monitors, b \in Boundaries}
FaultTriples(faults) == {<<of, "", "fault">> : of \in faults}

\* The constants say of a module what its bytes can: flags have the names of the
\* code's tables (cmis.go:291-298 and 313-332), a reading is compared with the
\* block of its own quantity alone, and a page of zeroes says nothing.
ASSUME ContentAssumption ==
  /\ Monitors \cap {"temperature", "voltage"} = {}
  /\ \A m \in Modules :
       LowerFlags[m] \subseteq BoundAlarms({<<"temperature", 0>>, <<"voltage", 0>>})
  /\ \A p, m \in Modules :
       Exceeded[p][m] \subseteq
         BoundAlarms(((Limits[p] \cap {"temperature", "voltage"}) \X {0})
                     \cup ((Limits[p] \cap Monitors) \X (1 .. MaxBanks * LanesPerBank)))
  /\ \A m \in Modules, b \in 0 .. MaxBanks - 1, i \in LaneNumbers :
       LaneData[m][b][i].flags \subseteq BoundTriples(Monitors) \cup FaultTriples(Faults)
  /\ \A x \in ZeroPages, i \in LaneNumbers :
       LaneData[x[1]][x[2]][i] = [lit |-> {}, state |-> "", flags |-> {}]

\* cmisPage: the page is there in full.
HasPage(data, slot) == data[slot] # Missing

\* allZero of page 11h: filled in, or nothing in it is set.
DarkPage(content, bank) == content = Zero \/ <<content, bank>> \in ZeroPages

\* cmisAdvertisedMediaLaneCount: the largest count before the end marker; a count
\* above LanesPerBank is not believed.
AdvertisedLanes(m) ==
  LET counts == {Apps[m][k] : k \in {n \in DOMAIN Apps[m] : \A j \in 1 .. n : Apps[m][j] # AppEnd}}
  IN  Max({n \in counts : n <= LanesPerBank} \cup {0})

\* Both loops over the banks stop at the first page that is missing or all zero.
DecodedBanks(data) ==
  {b \in 0 .. MaxBanks - 1 :
     \A k \in 0 .. b : HasPage(data, Page11(k)) /\ ~ DarkPage(data[Page11(k)], k)}

Index(bank, i) == bank * LanesPerBank + i

LaneKept(data, b, i) ==
  LET limit == AdvertisedLanes(data[Lower])
  IN  IF limit > 0 THEN Index(b, i) <= limit
      ELSE LaneData[data[Page11(b)]][b][i].lit \cap Advert[data[Page01]] # {}

\* lanes: no page 01h, or one that advertises no monitor, means no lane at all.
Lanes(data) ==
  IF data[Page01] \notin Modules \/ Advert[data[Page01]] = {} THEN {}
  ELSE {[index |-> Index(bi[1], bi[2]), state |-> LaneData[data[Page11(bi[1])]][bi[1]][bi[2]].state] :
          bi \in {x \in DecodedBanks(data) \X LaneNumbers : LaneKept(data, x[1], x[2])}}

LaneIndexes(data) == {lane.index : lane \in Lanes(data)}

-----------------------------------------------------------------------------
ModuleFlagAlarms(data) ==
  {Entry(a, a \in LowerFlags[data[Lower]]) :
     a \in BoundAlarms({<<"temperature", 0>>, <<"voltage", 0>>})}

\* Mutant: the flags of every lane of a decoded bank, kept or not.
LaneFlagAlarmsAll(data) ==
  IF data[Page01] \notin Modules THEN {}
  ELSE {Entry(Alarm(of, "", "fault", Index(x[1], x[2])), FALSE) :
          of \in FaultAdvert[data[Page01]], x \in DecodedBanks(data) \X LaneNumbers}

\* The flags the code looks at are those m advertises.
BoundFlags(m) == BoundTriples(Advert[m])
FaultFlags(m) == FaultTriples(FaultAdvert[m])

\* laneFlagAlarms: the advertised flags of the lanes that were kept.
LaneFlagAlarms(data) ==
  IF data[Page01] \notin Modules THEN {}
  ELSE {Entry(Alarm(f[1], f[2], f[3], Index(x[1], x[2])),
              f \in LaneData[data[Page11(x[1])]][x[1]][x[2]].flags) :
          f \in BoundFlags(data[Page01]) \cup FaultFlags(data[Page01]),
          x \in {y \in DecodedBanks(data) \X LaneNumbers : Index(y[1], y[2]) \in LaneIndexes(data)}}

\* The quantities and lanes page 02h is compared with: page 02h must be there and
\* not all zero, the quantity's block not zero, the lane's reading valid.
Compared(data) ==
  IF data[Page02] \notin Modules THEN {}
  ELSE {<<of, 0>> : of \in Limits[data[Page02]] \cap {"temperature", "voltage"}}
       \cup (IF data[Page01] \notin Modules THEN {}
             ELSE (Limits[data[Page02]] \cap Advert[data[Page01]]) \X LaneIndexes(data))

\* The module whose reading is compared: of lower memory or of a bank's page.
ReadingOf(data, lane) ==
  IF lane = 0 THEN data[Lower] ELSE data[Page11((lane - 1) \div LanesPerBank)]

\* Mutant: a zero-filled page 02h is compared with like any other.
ThresholdAlarmsOfFill(data) ==
  IF data[Page02] = Zero
    THEN {Entry(Alarm("temperature", "high", "alarm", 0), TRUE)}
    ELSE {Entry(a, a \in Exceeded[data[Page02]][ReadingOf(data, a.lane)]) :
            a \in BoundAlarms(Compared(data))}

ThresholdAlarms(data) ==
  {Entry(a, a \in Exceeded[data[Page02]][ReadingOf(data, a.lane)]) :
     a \in BoundAlarms(Compared(data))}

Thresholds(data) == BoundAlarms(Compared(data))

Alarms(data) ==
  MergeAlarms(ModuleFlagAlarms(data) \cup ThresholdAlarms(data) \cup LaneFlagAlarms(data))
=============================================================================
