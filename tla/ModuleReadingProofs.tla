------------------------ MODULE ModuleReadingProofs ------------------------
(***************************************************************************)
(* Proofs about ModuleReading for any modules, any number of lanes in a    *)
(* bank and any image the reader returns.  Each property speaks of what is *)
(* decoded from one image, so the lemmas follow an entry of the merged     *)
(* alarms back to the source that made it, and the reader's contract says  *)
(* which modules the image can hold.                                       *)
(***************************************************************************)
EXTENDS ModuleReading, ModuleReaderContract

-----------------------------------------------------------------------------
(***************************************************************************)
(* Lane numbers.                                                           *)
(***************************************************************************)

\* Numbering the lanes through the banks gives no number twice (cmis.go:176).
LEMMA IndexInjective ==
  ASSUME NEW b \in 0 .. MaxBanks - 1, NEW c \in 0 .. MaxBanks - 1,
         NEW i \in LaneNumbers, NEW j \in LaneNumbers,
         Index(b, i) = Index(c, j)
  PROVE  b = c /\ i = j
<1>1. LanesPerBank \in Nat \ {0}
  BY DecoderAssumption
<1>2. b \in {0, 1, 2, 3} /\ c \in {0, 1, 2, 3}
  BY DEF MaxBanks
<1> QED
  BY <1>1, <1>2, SMT DEF Index, LaneNumbers

\* The number of a lane tells its bank, and no lane is numbered 0 (cmis.go:247).
LEMMA IndexTellsBank ==
  ASSUME NEW b \in 0 .. MaxBanks - 1, NEW i \in LaneNumbers
  PROVE  Index(b, i) # 0 /\ (Index(b, i) - 1) \div LanesPerBank = b
<1>1. LanesPerBank \in Nat \ {0}
  BY DecoderAssumption
<1>2. b \in {0, 1, 2, 3}
  BY DEF MaxBanks
<1> QED
  BY <1>1, <1>2, SMTT(30) DEF Index, LaneNumbers

-----------------------------------------------------------------------------
(***************************************************************************)
(* The sources of a CMIS module's alarms.                                  *)
(***************************************************************************)

\* A decoded lane is lane i of a decoded bank (cmis.go:166-215).
LEMMA LanesAreBanked ==
  ASSUME NEW data, NEW lane \in Lanes(data)
  PROVE  \E b \in DecodedBanks(data), i \in LaneNumbers :
           lane = [index |-> Index(b, i), state |-> LaneData[data[Page11(b)]][b][i].state]
<1>1. PICK bi \in DecodedBanks(data) \X LaneNumbers :
        lane = [index |-> Index(bi[1], bi[2]),
                state |-> LaneData[data[Page11(bi[1])]][bi[1]][bi[2]].state]
  BY DEF Lanes
<1> QED
  BY <1>1

\* A page that is decoded was read from a module (cmis.go:172 and 228).
LEMMA DecodedWasRead ==
  ASSUME NEW data \in Image, NEW b \in DecodedBanks(data)
  PROVE  b \in 0 .. MaxBanks - 1 /\ Page11(b) \in ReadPages(data)
<1>1. b \in 0 .. MaxBanks - 1 /\ b \in 0 .. b
  BY DEF DecodedBanks, MaxBanks
<1>2. HasPage(data, Page11(b)) /\ ~ DarkPage(data[Page11(b)], b)
  BY <1>1 DEF DecodedBanks
<1>3. data[Page11(b)] # Missing /\ data[Page11(b)] # Zero
  BY <1>2, Zenon DEF HasPage, DarkPage
<1>4. Page11(b) \in Slots
  BY <1>1 DEF Page11, Slots, MaxBanks
<1> QED
  BY <1>1, <1>3, <1>4 DEF Image, ReadPages

\* A lane that is reported has its number from a page 11h that was read.
LEMMA OwnPageWasRead ==
  ASSUME NEW data \in Image, NEW a, a.lane \in LaneIndexes(data)
  PROVE  a.lane # 0 /\ OwnPage(a) \in ReadPages(data)
<1>1. PICK lane \in Lanes(data) : a.lane = lane.index
  BY DEF LaneIndexes
<1>2. PICK b \in DecodedBanks(data), i \in LaneNumbers :
        lane = [index |-> Index(b, i), state |-> LaneData[data[Page11(b)]][b][i].state]
  BY LanesAreBanked, Zenon
<1>3. a.lane = Index(b, i)
  BY <1>1, <1>2
<1>4. b \in 0 .. MaxBanks - 1 /\ Page11(b) \in ReadPages(data)
  BY DecodedWasRead, Zenon
<1>5. a.lane # 0 /\ (a.lane - 1) \div LanesPerBank = b
  BY <1>3, <1>4, IndexTellsBank, Zenon
<1> QED
  BY <1>4, <1>5, Zenon DEF OwnPage

\* A threshold alarm belongs to the module or to a decoded lane, and is active only
\* beyond a limit of a page 02h that was read (cmis.go:217-282).
LEMMA ThresholdSource ==
  ASSUME NEW data, NEW a \in Thresholds(data)
  PROVE  /\ a.lane = 0 \/ a.lane \in LaneIndexes(data)
         /\ data[Page02] \in Modules
<1>1. PICK c \in Compared(data), b \in Boundaries : a = Alarm(c[1], b[1], b[2], c[2])
  BY DEF Thresholds, BoundAlarms
<1>2. a.lane = c[2]
  BY <1>1 DEF Alarm
<1>3. data[Page02] \in Modules
  BY DEF Compared
<1>4. c[2] = 0 \/ c[2] \in LaneIndexes(data)
  BY <1>3 DEF Compared
<1> QED
  BY <1>2, <1>3, <1>4

LEMMA ThresholdEntry ==
  ASSUME NEW data, NEW e \in ThresholdAlarms(data)
  PROVE  /\ e.alarm \in Thresholds(data)
         /\ e.active => e.alarm \in Exceeded[data[Page02]][ReadingOf(data, e.alarm.lane)]
<1>1. PICK a \in Thresholds(data) :
        e = Entry(a, a \in Exceeded[data[Page02]][ReadingOf(data, a.lane)])
  BY DEF ThresholdAlarms, Thresholds
<1>2. e.alarm = a
  BY <1>1 DEF Entry
<1>3. e.active = (a \in Exceeded[data[Page02]][ReadingOf(data, a.lane)])
  BY <1>1, Zenon DEF Entry
<1> QED
  BY <1>2, <1>3, Zenon

\* An alarm of the lower memory is the module's own (cmis.go:284-300).
LEMMA ModuleFlagEntry ==
  ASSUME NEW data, NEW e \in ModuleFlagAlarms(data)
  PROVE  e.alarm.lane = 0 /\ (e.active => e.alarm \in LowerFlags[data[Lower]])
<1>1. PICK a \in BoundAlarms({<<"temperature", 0>>, <<"voltage", 0>>}) :
        e = Entry(a, a \in LowerFlags[data[Lower]])
  BY DEF ModuleFlagAlarms
<1>2. a.lane = 0
  BY DEF BoundAlarms, Alarm
<1>3. e.alarm = a
  BY <1>1 DEF Entry
<1>4. e.active = (a \in LowerFlags[data[Lower]])
  BY <1>1, Zenon DEF Entry
<1> QED
  BY <1>2, <1>3, <1>4, Zenon

\* A flag is a triple, and of a quantity the code knows.
LEMMA FlagTriples ==
  ASSUME NEW m \in Modules, NEW f \in BoundFlags(m) \cup FaultFlags(m)
  PROVE  f[1] \in Monitors \cup Faults
<1>1. \A of, bound, severity : <<of, bound, severity>>[1] = of
  OBVIOUS
<1>2. CASE f \in BoundFlags(m)
  BY <1>2, DecoderAssumption DEF BoundFlags, BoundTriples
<1>3. CASE f \in FaultFlags(m)
  <2>1. PICK of \in FaultAdvert[m] : f = <<of, "", "fault">>
    BY <1>3, Zenon DEF FaultFlags, FaultTriples
  <2>2. f[1] = of
    BY <1>1, <2>1, Zenon
  <2>3. of \in Faults
    BY DecoderAssumption
  <2> QED
    BY <2>2, <2>3, Zenon
<1> QED
  BY <1>2, <1>3

\* A flag of page 11h belongs to a decoded lane, and is active only if it is set in
\* the page of that lane's bank (cmis.go:302-360).
LEMMA LaneFlagEntry ==
  ASSUME NEW data \in Image, NEW e \in LaneFlagAlarms(data)
  PROVE  /\ e.alarm.lane \in LaneIndexes(data)
         /\ e.active => e.alarm \in FlaggedBy(data[OwnPage(e.alarm)], e.alarm.lane)
<1>1. data[Page01] \in Modules
  BY DEF LaneFlagAlarms
<1>2. PICK f \in BoundFlags(data[Page01]) \cup FaultFlags(data[Page01]),
           x \in {y \in DecodedBanks(data) \X LaneNumbers :
                    Index(y[1], y[2]) \in LaneIndexes(data)} :
        e = Entry(Alarm(f[1], f[2], f[3], Index(x[1], x[2])),
                  f \in LaneData[data[Page11(x[1])]][x[1]][x[2]].flags)
  BY <1>1 DEF LaneFlagAlarms
<1> DEFINE a == Alarm(f[1], f[2], f[3], Index(x[1], x[2]))
           flags == LaneData[data[Page11(x[1])]][x[1]][x[2]].flags
<1>3. e.alarm = a
  BY <1>2, Zenon DEF Entry
<1>4. e.active = (f \in flags)
  BY <1>2, Zenon DEF Entry
<1>5. a.lane = Index(x[1], x[2])
  BY DEF Alarm
<1>6. Index(x[1], x[2]) \in LaneIndexes(data) /\ x[1] \in DecodedBanks(data) /\ x[2] \in LaneNumbers
  BY <1>2
<1>7. Page11(x[1]) \in ReadPages(data) /\ x[1] \in 0 .. MaxBanks - 1
  BY <1>6, DecodedWasRead
<1>8. f[1] \in Monitors \cup Faults
  BY <1>1, <1>2, FlagTriples
<1>9. ASSUME f \in flags
      PROVE  a \in LaneFlags(data[Page11(x[1])], Monitors \cup Faults)
  <2> DEFINE m == data[Page11(x[1])]
             raised(y) == {Alarm(h[1], h[2], h[3], Index(y[1], y[2])) :
                             h \in {g \in LaneData[m][y[1]][y[2]].flags : g[1] \in Monitors \cup Faults}}
  <2>1. a \in raised(x)
    BY <1>8, <1>9
  <2>2. x \in (0 .. MaxBanks - 1) \X LaneNumbers
    BY <1>2, <1>7
  <2> QED
    BY <2>1, <2>2 DEF LaneFlags
<1>10. a.lane # 0 /\ OwnPage(a) = Page11(x[1])
  <2>1. a.lane # 0 /\ (a.lane - 1) \div LanesPerBank = x[1]
    BY <1>5, <1>6, <1>7, IndexTellsBank, Zenon
  <2> QED
    BY <2>1, Zenon DEF OwnPage
<1> HIDE DEF a, flags
<1>11. f \in flags => a \in FlaggedBy(data[OwnPage(a)], a.lane)
  BY <1>9, <1>10, Zenon DEF FlaggedBy
<1> QED
  BY <1>3, <1>4, <1>5, <1>6, <1>11, Zenon

\* An active alarm has an active entry in one of the three sources (cmis.go:362-382).
LEMMA MergedSource ==
  ASSUME NEW data, NEW a \in DOMAIN Alarms(data)
  PROVE  \E e \in ModuleFlagAlarms(data) \cup ThresholdAlarms(data) \cup LaneFlagAlarms(data) :
           e.alarm = a /\ (Alarms(data)[a] => e.active)
<1> DEFINE entries == ModuleFlagAlarms(data) \cup ThresholdAlarms(data) \cup LaneFlagAlarms(data)
<1>1. Alarms(data) = [b \in {e.alarm : e \in entries} |-> \E e \in entries : e.alarm = b /\ e.active]
  BY Zenon DEF Alarms, MergeAlarms
<1>2. a \in {e.alarm : e \in entries}
  BY <1>1
<1>3. Alarms(data)[a] = (\E e \in entries : e.alarm = a /\ e.active)
  BY <1>1, <1>2, Zenon
<1>4. CASE Alarms(data)[a]
  BY <1>3, <1>4, Zenon
<1>5. CASE ~ Alarms(data)[a]
  BY <1>2, <1>5, Zenon
<1> QED
  BY <1>4, <1>5, Zenon

-----------------------------------------------------------------------------
(***************************************************************************)
(* The properties.                                                         *)
(***************************************************************************)

\* Every reachable answer is an image.
LEMMA AnswersAreImages ==
  TypeOK => \A c \in Answered : result[c].data \in Image
BY DEF TypeOK, Answered, Results

\* What was read was in the cage during the call.
LEMMA ReadInWindow ==
  ASSUME AnswersInWindow, NEW c \in Callers, NEW s \in Slots, result[c].data[s] \in Modules
  PROVE  result[c].data[s] \in Modules \cap window[c]
BY MemoryAssumption DEF AnswersInWindow

\* Lane alarms and thresholds only for lanes that are reported, and no lane reported
\* twice, whatever image is decoded (cmis.go:166-360).
THEOREM LanesCarryAlarms == Spec => []AlarmsFollowLanes
<1>1. TypeOK => AlarmsFollowLanes
  <2> SUFFICES ASSUME TypeOK, NEW c \in Answered
               PROVE  LET data == result[c].data
                          lanes == Lanes(data)
                      IN  /\ \A a \in DOMAIN Alarms(data) \cup Thresholds(data) :
                               a.lane # 0 => a.lane \in {lane.index : lane \in lanes}
                          /\ \A x, y \in lanes : x.index = y.index => x = y
    BY Zenon DEF AlarmsFollowLanes
  <2> DEFINE data == result[c].data
  <2>1. data \in Image
    BY AnswersAreImages
  <2> HIDE DEF data
  <2>2. ASSUME NEW a \in DOMAIN Alarms(data)
        PROVE  a.lane = 0 \/ a.lane \in LaneIndexes(data)
    <3>1. PICK e \in ModuleFlagAlarms(data) \cup ThresholdAlarms(data) \cup LaneFlagAlarms(data) :
            e.alarm = a
      BY MergedSource, Zenon
    <3>2. CASE e \in ModuleFlagAlarms(data)
      BY <3>1, <3>2, ModuleFlagEntry, Zenon
    <3>3. CASE e \in ThresholdAlarms(data)
      BY <3>1, <3>3, ThresholdEntry, ThresholdSource, Zenon
    <3>4. CASE e \in LaneFlagAlarms(data)
      BY <2>1, <3>1, <3>4, LaneFlagEntry, Zenon
    <3> QED
      BY <3>1, <3>2, <3>3, <3>4
  <2>3. \A a \in Thresholds(data) : a.lane = 0 \/ a.lane \in LaneIndexes(data)
    BY ThresholdSource, Zenon
  <2>4. ASSUME NEW x \in Lanes(data), NEW y \in Lanes(data), x.index = y.index
        PROVE  x = y
    <3>1. PICK b \in DecodedBanks(data), i \in LaneNumbers :
            x = [index |-> Index(b, i), state |-> LaneData[data[Page11(b)]][b][i].state]
      BY LanesAreBanked, Zenon
    <3>2. PICK d \in DecodedBanks(data), j \in LaneNumbers :
            y = [index |-> Index(d, j), state |-> LaneData[data[Page11(d)]][d][j].state]
      BY LanesAreBanked, Zenon
    <3>3. b \in 0 .. MaxBanks - 1 /\ d \in 0 .. MaxBanks - 1
      BY <2>1, DecodedWasRead, Zenon
    <3>4. Index(b, i) = Index(d, j)
      BY <2>4, <3>1, <3>2
    <3>5. b = d /\ i = j
      BY <3>3, <3>4, IndexInjective
    <3> QED
      BY <3>1, <3>2, <3>5, Zenon
  <2> QED
    BY <2>2, <2>3, <2>4, Zenon DEF LaneIndexes, data
<1> QED
  BY <1>1, TypeCorrect, PTL

\* Every active alarm of a CMIS image comes from the page it is about, which was read,
\* and from a page 02h that was read if it is not flagged there; both are of modules
\* that sat in the cage during the call (cmis.go:217-360).
THEOREM CmisFillIsSilent == Spec => []NothingRaisedByFill
<1>1. TypeOK /\ AnswersInWindow => NothingRaisedByFill
  <2> SUFFICES ASSUME TypeOK, AnswersInWindow, NEW c \in Answered,
                      NEW a \in DOMAIN Alarms(result[c].data), Alarms(result[c].data)[a]
               PROVE  LET data == result[c].data
                          seen == Modules \cap window[c]
                          own == data[OwnPage(a)]
                      IN  /\ own \in seen
                          /\ \/ a \in FlaggedBy(own, a.lane)
                             \/ data[Page02] \in seen /\ a \in Exceeded[data[Page02]][own]
    BY Zenon DEF NothingRaisedByFill
  <2> DEFINE data == result[c].data
  <2>1. data \in Image
    BY AnswersAreImages
  <2>2. Lower \in ReadPages(data)
    BY MemoryAssumption DEF Answered, IsCMIS, ReadPages, Lower, Slots, MaxBanks
  <2>3. a \in DOMAIN Alarms(data) /\ Alarms(data)[a]
    OBVIOUS
  <2>4. \A s \in Slots : data[s] \in Modules => data[s] \in Modules \cap window[c]
    BY ReadInWindow DEF Answered
  <2> HIDE DEF data
  <2>5. PICK e \in ModuleFlagAlarms(data) \cup ThresholdAlarms(data) \cup LaneFlagAlarms(data) :
          e.alarm = a /\ e.active
    BY <2>3, MergedSource, Zenon
  <2>6. ASSUME OwnPage(a) \in ReadPages(data)
        PROVE  data[OwnPage(a)] \in Modules \cap window[c]
    <3>1. OwnPage(a) \in Slots /\ data[OwnPage(a)] \in Modules
      BY <2>6, Zenon DEF ReadPages
    <3> QED
      BY <2>4, <3>1
  <2>7. CASE e \in ModuleFlagAlarms(data)
    <3>1. a.lane = 0 /\ a \in LowerFlags[data[Lower]]
      BY <2>5, <2>7, ModuleFlagEntry, Zenon
    <3>2. OwnPage(a) = Lower /\ a \in FlaggedBy(data[Lower], a.lane)
      BY <3>1, Zenon DEF OwnPage, FlaggedBy
    <3> QED
      BY <2>2, <2>6, <3>2, Zenon DEF data
  <2>8. CASE e \in ThresholdAlarms(data)
    <3>1. a \in Exceeded[data[Page02]][ReadingOf(data, a.lane)]
      BY <2>5, <2>8, ThresholdEntry, Zenon
    <3>2. data[Page02] \in Modules /\ (a.lane = 0 \/ a.lane \in LaneIndexes(data))
      BY <2>5, <2>8, ThresholdEntry, ThresholdSource, Zenon
    <3>3. ReadingOf(data, a.lane) = data[OwnPage(a)]
      BY Zenon DEF ReadingOf, OwnPage
    <3>4. OwnPage(a) \in ReadPages(data)
      <4>1. CASE a.lane = 0
        BY <2>2, <4>1, Zenon DEF OwnPage
      <4>2. CASE a.lane \in LaneIndexes(data)
        BY <2>1, <4>2, OwnPageWasRead, Zenon
      <4> QED
        BY <3>2, <4>1, <4>2
    <3>5. Page02 \in Slots
      BY DEF Page02, Slots, MaxBanks
    <3>6. data[Page02] \in Modules \cap window[c]
      BY <2>4, <3>2, <3>5
    <3> QED
      BY <2>6, <3>1, <3>3, <3>4, <3>6, Zenon DEF data
  <2>9. CASE e \in LaneFlagAlarms(data)
    <3>1. a.lane \in LaneIndexes(data) /\ a \in FlaggedBy(data[OwnPage(a)], a.lane)
      BY <2>1, <2>5, <2>9, LaneFlagEntry, Zenon
    <3>2. OwnPage(a) \in ReadPages(data)
      BY <2>1, <3>1, OwnPageWasRead, Zenon
    <3> QED
      BY <2>6, <3>1, <3>2, Zenon DEF data
  <2> QED
    BY <2>5, <2>7, <2>8, <2>9
<1> QED
  BY <1>1, TypeCorrect, AnswersFromWindow, PTL

-----------------------------------------------------------------------------
(***************************************************************************)
(* The alarms of an SFF module.                                            *)
(***************************************************************************)

\* An active entry of a compared quantity is a crossing, and there is no entry without
\* a quantity to compare (common.go:24-54).
LEMMA CrossingSource ==
  ASSUME NEW compared, NEW exceeded, NEW e \in ThresholdEntries(compared, exceeded)
  PROVE  compared # {} /\ (e.active => e.alarm \in exceeded)
<1>1. PICK a \in BoundAlarms(compared) : e = Entry(a, a \in exceeded)
  BY DEF ThresholdEntries
<1>2. e.alarm = a
  BY <1>1 DEF Entry
<1>3. e.active = (a \in exceeded)
  BY <1>1, Zenon DEF Entry
<1>4. compared # {}
  BY DEF BoundAlarms
<1> QED
  BY <1>2, <1>3, <1>4, Zenon

LEMMA ActiveEntry ==
  ASSUME NEW entries, NEW a \in DOMAIN MergeAlarms(entries), MergeAlarms(entries)[a]
  PROVE  \E e \in entries : e.alarm = a /\ e.active
BY Zenon DEF MergeAlarms

\* An alarm of a QSFP module is flagged, or crosses thresholds of a page 03h that was
\* read (sff8636.go:183-284).
LEMMA Source8636 ==
  ASSUME NEW via, NEW data, data[Lower] \in SFF8636,
         NEW a \in DOMAIN Alarms8636(via, data), Alarms8636(via, data)[a]
  PROVE  \/ a \in Flagged(data[Lower])
         \/ data[Page11(0)] \in Modules /\ a \in Crossed[via][data[Page11(0)]][data[Lower]]
<1>1. PICK e \in FlagEntries8636(data) \cup ThresholdEntries8636(via, data) :
        e.alarm = a /\ e.active
  BY ActiveEntry, Zenon DEF Alarms8636
<1>2. CASE e \in FlagEntries8636(data)
  <2>1. PICK f \in Flags8636 : e = Entry(f, FlagBit(f) \in FlagBits[data[Lower]])
    BY <1>2, Zenon DEF FlagEntries8636
  <2>2. f = a /\ e.active = (FlagBit(f) \in FlagBits[data[Lower]])
    BY <1>1, <2>1, Zenon DEF Entry
  <2> QED
    BY <1>1, <2>2, Zenon DEF Flagged
<1>3. CASE e \in ThresholdEntries8636(via, data)
  <2> DEFINE compared == Compared8636(via, data)
             exceeded == IF compared = {} THEN {}
                         ELSE Crossed[via][data[Page11(0)]][data[Lower]]
  <2>1. e \in ThresholdEntries(compared, exceeded)
    BY <1>3, Zenon DEF ThresholdEntries8636
  <2>2. compared # {} /\ a \in exceeded
    BY <1>1, <2>1, CrossingSource, Zenon
  <2>3. data[Page11(0)] \in Modules
    BY <2>2 DEF Compared8636, ComparedIn
  <2> QED
    BY <2>2, <2>3
<1> QED
  BY <1>1, <1>2, <1>3

\* An alarm of an SFP module crosses thresholds of the A2h page that was read
\* (sff8472.go:47-73).
LEMMA Source8472 ==
  ASSUME NEW via, NEW data,
         NEW a \in DOMAIN Alarms8472(via, data), Alarms8472(via, data)[a]
  PROVE  data[Page01] \in Modules /\ a \in Crossed[via][data[Page01]][data[Page01]]
<1> DEFINE compared == Compared8472(via, data)
           exceeded == IF compared = {} THEN {} ELSE Crossed[via][data[Page01]][data[Page01]]
<1>1. PICK e \in ThresholdEntries(compared, exceeded) : e.alarm = a /\ e.active
  BY ActiveEntry, Zenon DEF Alarms8472
<1>2. compared # {} /\ a \in exceeded
  BY <1>1, CrossingSource, Zenon
<1>3. data[Page01] \in Modules
  BY <1>2 DEF Compared8472, ComparedIn
<1> QED
  BY <1>2, <1>3

\* Every active alarm of an SFF image comes from pages that were read, of modules that
\* sat in the cage during the call (sff8636.go:275, common.go:35).
LEMMA SffSource ==
  ASSUME AnswersInWindow
  PROVE  SffFillRaisesNothing
<1> SUFFICES ASSUME NEW c \in AnsweredSff, NEW a \in Active(result[c].via, result[c].data)
             PROVE  LET data == result[c].data
                        isQsfp == Detect(data) = "sff8636"
                        limits == data[IF isQsfp THEN Page11(0) ELSE Page01]
                        readings == data[IF isQsfp THEN Lower ELSE Page01]
                        seen == Modules \cap window[c]
                    IN  /\ readings \in seen
                        /\ \/ isQsfp /\ a \in Flagged(readings)
                           \/ limits \in seen /\ a \in Crossed[result[c].via][limits][readings]
  BY Zenon DEF SffFillRaisesNothing
<1> DEFINE via == result[c].via
           data == result[c].data
<1>1. Detect(data) \in {"sff8636", "sff8472"}
  BY DEF AnsweredSff
<1>2. a \in Active(via, data)
  OBVIOUS
<1>3. \A s \in {Lower, Page01, Page11(0)} :
        data[s] \in Modules => data[s] \in Modules \cap window[c]
  <2>1. \A s \in Slots : data[s] \in Modules => data[s] \in Modules \cap window[c]
    BY ReadInWindow DEF AnsweredSff
  <2> QED
    BY <2>1 DEF Lower, Page01, Page11, Slots, MaxBanks
<1> HIDE DEF via, data
<1>4. a \in DOMAIN SffAlarms(via, data) /\ SffAlarms(via, data)[a]
  <2>1. Detect(data) # "cmis"
    BY <1>1
  <2> QED
    BY <1>2, <2>1, Zenon DEF Active
<1>5. CASE Detect(data) = "sff8636"
  <2>1. data[Lower] \in SFF8636 /\ data[Lower] \in Modules
    BY <1>5, SffAssumption DEF Detect
  <2>2. \/ a \in Flagged(data[Lower])
        \/ data[Page11(0)] \in Modules /\ a \in Crossed[via][data[Page11(0)]][data[Lower]]
    BY <1>4, <2>1, Source8636, Zenon DEF SffAlarms
  <2>3. data[Lower] \in Modules \cap window[c]
    BY <1>3, <2>1
  <2>4. data[Page11(0)] \in Modules => data[Page11(0)] \in Modules \cap window[c]
    BY <1>3
  <2> QED
    BY <1>5, <2>2, <2>3, <2>4, Zenon DEF via, data
<1>6. CASE Detect(data) = "sff8472"
  <2>1. data[Lower] \notin SFF8636 /\ Detect(data) # "sff8636"
    BY <1>6, SffAssumption DEF Detect
  <2>2. data[Page01] \in Modules /\ a \in Crossed[via][data[Page01]][data[Page01]]
    BY <1>4, <2>1, Source8472, Zenon DEF SffAlarms
  <2>3. data[Page01] \in Modules \cap window[c]
    BY <1>3, <2>2
  <2> QED
    BY <2>1, <2>2, <2>3, Zenon DEF via, data
<1> QED
  BY <1>1, <1>5, <1>6

\* The same of every answer a call ever returns, on either path and also when it is
\* torn between two modules (sff8636.go:275, common.go:35).
THEOREM SffFillIsSilent == Spec => []SffFillRaisesNothing
BY SffSource, AnswersFromWindow, PTL
=============================================================================
