---------------------------- MODULE CollectorPages ----------------------------
(***************************************************************************)
(* Proofs about the answers of Collector: what a served page says of an    *)
(* interface, when a gather is refused, and that Collect keeps the promise *)
(* of ScrapeVerdicts, for any scrapes, flags, modules and events.  All     *)
(* follow from CollectorProofs' invariant and from what the samples of one *)
(* module look like: their series tell them apart, and what they say does  *)
(* not depend on the place they were sent from.                            *)
(***************************************************************************)
EXTENDS CollectorProofs

-----------------------------------------------------------------------------
(***************************************************************************)
(* The samples of one module.                                              *)
(***************************************************************************)
LEMMA KindsApart ==
  ASSUME NEW m \in Modules, Decoded[m] # Undecodable, NEW x, NEW i, NEW pos
  PROVE  /\ IsSingle(x, Decoded[m], pos) =>
              x.name \notin {"link_length_meters", "diagnostic_threshold", "alarm_status",
                             "scrape_success"} \cup LaneMetrics
         /\ IsLaneSample(x, i, Decoded[m], pos) => x.name \in LaneMetrics
<1>1. SingleMetrics(Decoded[m]) \subseteq
        {"module_info", "module_status", "module_low_power_status"}
        \cup InventoryMetrics \cup GaugeMetrics
  BY DecodedAssumption DEF SingleMetrics
<1>2. IsSingle(x, Decoded[m], pos) =>
        x.name \notin {"link_length_meters", "diagnostic_threshold", "alarm_status",
                       "scrape_success"} \cup LaneMetrics
  BY <1>1 DEF IsSingle, InventoryMetrics, GaugeMetrics, LaneMetrics
<1>3. IsLaneSample(x, i, Decoded[m], pos) => x.name \in LaneMetrics
  BY LaneShape DEF IsLaneSample
<1> QED
  BY <1>2, <1>3

\* Only ScrapeSuccess says scrape_success (collector.go:404-410).
LEMMA EmissionIsNoVerdict ==
  ASSUME NEW i, NEW m \in Modules, Decoded[m] # Undecodable, NEW pos,
         NEW x \in Emission(i, Decoded[m], pos)
  PROVE  x.name # "scrape_success"
<1> DEFINE d == Decoded[m]
<1>1. \/ IsSingle(x, d, pos) \/ IsLength(x, d, pos) \/ IsLaneSample(x, i, d, pos)
      \/ IsThreshold(x, d, pos) \/ IsAlarm(x, d, pos)
  BY EmissionShape
<1>2. /\ IsSingle(x, d, pos) => x.name # "scrape_success"
      /\ IsLaneSample(x, i, d, pos) => x.name \in LaneMetrics
  BY KindsApart
<1>3. "scrape_success" \notin LaneMetrics
  BY DEF LaneMetrics
<1>4. IsLength(x, d, pos) \/ IsThreshold(x, d, pos) \/ IsAlarm(x, d, pos)
        => x.name \in {"link_length_meters", "diagnostic_threshold", "alarm_status"}
  BY DEF IsLength, IsThreshold, IsAlarm
<1> QED
  BY <1>1, <1>2, <1>3, <1>4

LEMMA StandsFields ==
  ASSUME NEW x, NEW i, NEW place, Stands(x, i, place)
  PROVE  x.iface = i /\ x.pos = place
BY SampleFields DEF Stands

\* Samples that stand at one place with one series and value are one sample.
LEMMA SameSample ==
  ASSUME NEW x, NEW y, NEW i, NEW j, Stands(x, i, x.pos), Stands(y, j, y.pos),
         SeriesOf(x) = SeriesOf(y), x.val = y.val, x.pos = y.pos
  PROVE  x = y
<1>1. x.name = y.name /\ x.iface = y.iface /\ x.labels = y.labels
  BY DEF SeriesOf
<1>2. x.iface = i /\ y.iface = j
  BY StandsFields
<1> QED
  BY <1>1, <1>2 DEF Stands

\* A module's samples have series of their own unless it lists a medium twice
\* (collector.go:274-399): the metrics, lanes, thresholds and alarms tell them apart.
LEMMA EmissionIsConsistent ==
  ASSUME NEW i, NEW m \in Modules, Decoded[m] # Undecodable, NEW pos,
         IsInjective(Decoded[m].lengths)
  PROVE  Consistent(Emission(i, Decoded[m], pos))
<1> DEFINE d == Decoded[m]
<1> SUFFICES ASSUME NEW x \in Emission(i, d, pos), NEW y \in Emission(i, d, pos),
                    SeriesOf(x) = SeriesOf(y)
             PROVE  x = y
  BY DEF Consistent
<1>1. x.name = y.name /\ x.labels = y.labels
  BY DEF SeriesOf
<1>2. /\ Stands(x, i, x.pos) /\ Stands(y, i, y.pos)
      /\ \/ IsSingle(x, d, pos) \/ IsLength(x, d, pos) \/ IsLaneSample(x, i, d, pos)
         \/ IsThreshold(x, d, pos) \/ IsAlarm(x, d, pos)
      /\ \/ IsSingle(y, d, pos) \/ IsLength(y, d, pos) \/ IsLaneSample(y, i, d, pos)
         \/ IsThreshold(y, d, pos) \/ IsAlarm(y, d, pos)
  BY EmissionShape
<1>3. \A z : /\ IsSingle(z, d, pos) =>
                  z.name \notin {"link_length_meters", "diagnostic_threshold", "alarm_status",
                                 "scrape_success"} \cup LaneMetrics
             /\ IsLaneSample(z, i, d, pos) => z.name \in LaneMetrics
             /\ IsLength(z, d, pos) => z.name = "link_length_meters"
             /\ IsThreshold(z, d, pos) => z.name = "diagnostic_threshold"
             /\ IsAlarm(z, d, pos) => z.name = "alarm_status"
  BY KindsApart DEF IsLength, IsThreshold, IsAlarm
<1>4. {"link_length_meters", "diagnostic_threshold", "alarm_status"} \cap LaneMetrics = {}
  BY DEF LaneMetrics
<1>5. \A a, b, c, e : <<a, b>> = <<c, e>> => b = e
  OBVIOUS
<1>6. \A a, b, c, e, g, h : <<a, b, c>> = <<e, g, h>> => b = g /\ c = h
  OBVIOUS
<1>7. CASE IsSingle(x, d, pos) /\ IsSingle(y, d, pos)
  BY <1>2, <1>7, SameSample DEF IsSingle
<1>8. CASE IsLength(x, d, pos) /\ IsLength(y, d, pos)
  <2>1. PICK j \in DOMAIN d.lengths :
          x.labels = <<d.map, d.lengths[j]>> /\ x.val = 1 /\ x.pos = <<pos, j>>
    BY <1>8 DEF IsLength
  <2>2. PICK k \in DOMAIN d.lengths :
          y.labels = <<d.map, d.lengths[k]>> /\ y.val = 1 /\ y.pos = <<pos, k>>
    BY <1>8 DEF IsLength
  <2>3. j = k
    <3>1. <<d.map, d.lengths[j]>> = <<d.map, d.lengths[k]>>
      BY <1>1, <2>1, <2>2
    <3>2. d.lengths[j] = d.lengths[k]
      BY <1>5, <3>1, Zenon
    <3> QED
      BY <3>2 DEF IsInjective
  <2>4. x.val = y.val /\ x.pos = y.pos
    BY <2>1, <2>2, <2>3
  <2> QED
    BY <1>2, <2>4, SameSample
<1>9. CASE IsLaneSample(x, i, d, pos) /\ IsLaneSample(y, i, d, pos)
  <2>1. PICK j \in DOMAIN d.lanes :
          x \in LaneSamples(i, d.map, d.lanes[j], <<pos, j>>) /\ x.pos = <<pos, j>>
    BY <1>9 DEF IsLaneSample
  <2>2. PICK k \in DOMAIN d.lanes :
          y \in LaneSamples(i, d.map, d.lanes[k], <<pos, k>>) /\ y.pos = <<pos, k>>
    BY <1>9 DEF IsLaneSample
  <2>3. x.labels[2] = d.lanes[j].index /\ x.val = 1
    BY <2>1, LaneShape
  <2>6. y.labels[2] = d.lanes[k].index /\ y.val = 1
    BY <2>2, LaneShape
  <2>4. j = k
    BY <1>1, <2>3, <2>6, DecodedAssumption
  <2>5. x.val = y.val /\ x.pos = y.pos
    BY <2>1, <2>2, <2>3, <2>4, <2>6
  <2> QED
    BY <1>2, <2>5, SameSample
<1>10. CASE IsThreshold(x, d, pos) /\ IsThreshold(y, d, pos)
  <2>1. PICK j \in DOMAIN d.thresholds :
          /\ x.labels = <<d.map, d.thresholds[j].name, d.thresholds[j].lane>>
          /\ x.val = 1 /\ x.pos = <<pos, j>>
    BY <1>10 DEF IsThreshold
  <2>2. PICK k \in DOMAIN d.thresholds :
          /\ y.labels = <<d.map, d.thresholds[k].name, d.thresholds[k].lane>>
          /\ y.val = 1 /\ y.pos = <<pos, k>>
    BY <1>10 DEF IsThreshold
  <2>3. d.thresholds[j].name = d.thresholds[k].name /\ d.thresholds[j].lane = d.thresholds[k].lane
    <3>1. <<d.map, d.thresholds[j].name, d.thresholds[j].lane>> = <<d.map, d.thresholds[k].name, d.thresholds[k].lane>>
      BY <1>1, <2>1, <2>2
    <3> QED
      BY <1>6, <3>1, Zenon
  <2>4. j = k
    BY <2>3, DecodedAssumption
  <2>5. x.val = y.val /\ x.pos = y.pos
    BY <2>1, <2>2, <2>4
  <2> QED
    BY <1>2, <2>5, SameSample
<1>11. CASE IsAlarm(x, d, pos) /\ IsAlarm(y, d, pos)
  <2>1. PICK j \in DOMAIN d.alarms :
          /\ x.labels = <<d.map, d.alarms[j].name, d.alarms[j].lane>>
          /\ x.val = d.alarms[j].active /\ x.pos = <<pos, j>>
    BY <1>11 DEF IsAlarm
  <2>2. PICK k \in DOMAIN d.alarms :
          /\ y.labels = <<d.map, d.alarms[k].name, d.alarms[k].lane>>
          /\ y.val = d.alarms[k].active /\ y.pos = <<pos, k>>
    BY <1>11 DEF IsAlarm
  <2>3. d.alarms[j].name = d.alarms[k].name /\ d.alarms[j].lane = d.alarms[k].lane
    <3>1. <<d.map, d.alarms[j].name, d.alarms[j].lane>> = <<d.map, d.alarms[k].name, d.alarms[k].lane>>
      BY <1>1, <2>1, <2>2
    <3> QED
      BY <1>6, <3>1, Zenon
  <2>4. j = k
    BY <2>3, DecodedAssumption
  <2>5. x.val = y.val /\ x.pos = y.pos
    BY <2>1, <2>2, <2>4
  <2> QED
    BY <1>2, <2>5, SameSample
<1> QED
  BY <1>1, <1>2, <1>3, <1>4, <1>7, <1>8, <1>9, <1>10, <1>11

\* Where in the loop a module is emitted does not change what is said of it.
LEMMA LaneMoves ==
  ASSUME NEW i, NEW map, NEW lane, NEW here, NEW there, NEW x \in LaneSamples(i, map, lane, here)
  PROVE  \E y \in LaneSamples(i, map, lane, there) :
           y = Sample(x.name, i, x.labels, x.val, there)
<1> DEFINE Plain(name, place) == Sample(name, i, <<map, lane.index>>, 1, place)
           State(place) == Sample("lane_datapath_state", i, <<map, lane.index, lane.state>>, 1, place)
           Others == {"tx_bias_milliamps", "tx_power_milliwatts", "tx_power_dbm",
                      "rx_power_milliwatts", "rx_power_dbm"}
<1>1. \/ x = State(here) /\ State(there) \in LaneSamples(i, map, lane, there)
      \/ \E name \in Others :
           x = Plain(name, here) /\ Plain(name, there) \in LaneSamples(i, map, lane, there)
  BY Zenon DEF LaneSamples, If
<1>2. CASE x = State(here) /\ State(there) \in LaneSamples(i, map, lane, there)
  <2>1. State(there) = Sample(x.name, i, x.labels, x.val, there)
    BY <1>2, SampleFields
  <2> QED
    BY <1>2, <2>1, Zenon
<1>3. CASE \E name \in Others :
             x = Plain(name, here) /\ Plain(name, there) \in LaneSamples(i, map, lane, there)
  <2>1. PICK name \in Others :
          x = Plain(name, here) /\ Plain(name, there) \in LaneSamples(i, map, lane, there)
    BY <1>3, Zenon
  <2>2. Plain(name, there) = Sample(x.name, i, x.labels, x.val, there)
    BY <2>1, SampleFields
  <2> QED
    BY <2>1, <2>2, Zenon
<1> QED
  BY <1>1, <1>2, <1>3, Zenon

LEMMA EmissionMoves ==
  ASSUME NEW i, NEW d, NEW here, NEW there, NEW x \in Emission(i, d, here)
  PROVE  <<SeriesOf(x), x.val>> \in Content(Emission(i, d, there))
<1> DEFINE Info(p) == {Sample("module_info", i, <<d.map>>, 1, <<p, 0>>)}
           Statuses(p) ==
             If(d.status # "none",
                {Sample("module_status", i, <<d.map, d.status>>, 1, <<p, 0>>),
                 Sample("module_low_power_status", i, <<d.map, "hardware">>, 1, <<p, 0>>),
                 Sample("module_low_power_status", i, <<d.map, "software">>, 1, <<p, 0>>)})
           Stock(p) == {Sample(name, i, <<d.map>>, 1, <<p, 0>>) : name \in d.inventory}
           Lengths(p) == {Sample("link_length_meters", i, <<d.map, d.lengths[k]>>, 1, <<p, k>>) :
                            k \in DOMAIN d.lengths}
           Gauges(p) == {Sample(name, i, <<d.map>>, 1, <<p, 0>>) : name \in d.gauges}
           Lanes(p) == UNION {LaneSamples(i, d.map, d.lanes[k], <<p, k>>) : k \in DOMAIN d.lanes}
           Limits(p) == {Sample("diagnostic_threshold", i,
                                <<d.map, d.thresholds[k].name, d.thresholds[k].lane>>, 1, <<p, k>>) :
                           k \in DOMAIN d.thresholds}
           Alarms(p) == {Sample("alarm_status", i, <<d.map, d.alarms[k].name, d.alarms[k].lane>>,
                                d.alarms[k].active, <<p, k>>) : k \in DOMAIN d.alarms}
           Moved(y) == y.name = x.name /\ y.iface = x.iface /\ y.labels = x.labels /\ y.val = x.val
<1>1. ASSUME NEW p
      PROVE  Emission(i, d, p) =
               Info(p) \cup (Statuses(p) \cup Stock(p) \cup Lengths(p)) \cup Gauges(p)
               \cup Lanes(p) \cup Limits(p) \cup Alarms(p)
  <2>1. Inventory(i, d, p) = Statuses(p) \cup Stock(p) \cup Lengths(p)
    BY Zenon DEF Inventory
  <2>2. Emission(i, d, p) =
          UNION {Info(p), Inventory(i, d, p), Gauges(p), Lanes(p), Limits(p), Alarms(p)}
    BY Zenon DEF Emission
  <2> HIDE DEF Info, Statuses, Stock, Lengths, Gauges, Lanes, Limits, Alarms
  <2> QED
    BY <2>1, <2>2, Zenon
<1>2. ASSUME NEW name, NEW labels, NEW val, NEW a, NEW b, x = Sample(name, i, labels, val, a)
      PROVE  Moved(Sample(name, i, labels, val, b))
  BY <1>2, SampleFields
<1>3. x \in Info(here) => \E y \in Info(there) : Moved(y)
  BY <1>2
<1>4. x \in Statuses(here) => \E y \in Statuses(there) : Moved(y)
  BY <1>2 DEF If
<1>5. x \in Stock(here) => \E y \in Stock(there) : Moved(y)
  BY <1>2
<1>6. x \in Lengths(here) => \E y \in Lengths(there) : Moved(y)
  <2> SUFFICES ASSUME NEW k \in DOMAIN d.lengths, x = Sample("link_length_meters", i, <<d.map, d.lengths[k]>>, 1, <<here, k>>)
               PROVE  \E y \in Lengths(there) : Moved(y)
    BY Zenon
  <2>1. Moved(Sample("link_length_meters", i, <<d.map, d.lengths[k]>>, 1, <<there, k>>))
    BY <1>2
  <2> QED
    BY <2>1, Zenon
<1>7. x \in Gauges(here) => \E y \in Gauges(there) : Moved(y)
  BY <1>2
<1>8. x \in Lanes(here) => \E y \in Lanes(there) : Moved(y)
  <2> SUFFICES ASSUME x \in Lanes(here)
               PROVE  \E y \in Lanes(there) : Moved(y)
    OBVIOUS
  <2>1. PICK k \in DOMAIN d.lanes : x \in LaneSamples(i, d.map, d.lanes[k], <<here, k>>)
    OBVIOUS
  <2>2. PICK y \in LaneSamples(i, d.map, d.lanes[k], <<there, k>>) :
          y = Sample(x.name, i, x.labels, x.val, <<there, k>>)
    BY <2>1, LaneMoves
  <2>3. x.iface = i
    BY <2>1, LaneShape, StandsFields
  <2>4. Moved(y)
    BY <2>2, <2>3, SampleFields
  <2> QED
    BY <2>2, <2>4
<1>9. x \in Limits(here) => \E y \in Limits(there) : Moved(y)
  <2> SUFFICES ASSUME NEW k \in DOMAIN d.thresholds, x = Sample("diagnostic_threshold", i, <<d.map, d.thresholds[k].name, d.thresholds[k].lane>>, 1, <<here, k>>)
               PROVE  \E y \in Limits(there) : Moved(y)
    BY Zenon
  <2>1. Moved(Sample("diagnostic_threshold", i, <<d.map, d.thresholds[k].name, d.thresholds[k].lane>>, 1, <<there, k>>))
    BY <1>2
  <2> QED
    BY <2>1, Zenon
<1>10. x \in Alarms(here) => \E y \in Alarms(there) : Moved(y)
  <2> SUFFICES ASSUME NEW k \in DOMAIN d.alarms, x = Sample("alarm_status", i, <<d.map, d.alarms[k].name, d.alarms[k].lane>>, d.alarms[k].active, <<here, k>>)
               PROVE  \E y \in Alarms(there) : Moved(y)
    BY Zenon
  <2>1. Moved(Sample("alarm_status", i, <<d.map, d.alarms[k].name, d.alarms[k].lane>>, d.alarms[k].active, <<there, k>>))
    BY <1>2
  <2> QED
    BY <2>1, Zenon
<1>11. \E y \in Emission(i, d, there) : Moved(y)
  <2> HIDE DEF Info, Statuses, Stock, Lengths, Gauges, Lanes, Limits, Alarms, Moved
  <2> QED
    BY <1>1, <1>3, <1>4, <1>5, <1>6, <1>7, <1>8, <1>9, <1>10
<1> QED
  BY <1>11 DEF Content, SeriesOf

-----------------------------------------------------------------------------
(***************************************************************************)
(* The samples of one visit.                                               *)
(***************************************************************************)
Verdict(i, ok, pos) == Sample("scrape_success", i, <<>>, ok, <<pos, 0>>)

LEMMA DecodedSays ==
  ASSUME NEW f, NEW i, NEW visit, NEW pos, visit.kind = "decoded"
  PROVE  Said(f, i, visit, pos) =
           {Verdict(i, 1, pos)} \cup Emission(i, Decoded[visit.module], pos)
BY DEF Said, ScrapeSuccess, Verdict

LEMMA OtherSays ==
  ASSUME NEW f, NEW i, NEW visit, NEW pos, visit.kind # "decoded"
  PROVE  \/ Said(f, i, visit, pos) = {Verdict(i, 0, pos)}
         \/ f = <<>> /\ Said(f, i, visit, pos) = {}
BY DEF Said, ScrapeSuccess, Verdict

LEMMA VerdictFields ==
  ASSUME NEW i, NEW ok, NEW pos
  PROVE  /\ Verdict(i, ok, pos).name = "scrape_success" /\ Verdict(i, ok, pos).iface = i
         /\ Verdict(i, ok, pos).val = ok /\ Verdict(i, ok, pos).pos = <<pos, 0>>
         /\ SeriesOf(Verdict(i, ok, pos)) = <<"scrape_success", i, <<>>>>
BY SampleFields DEF Verdict, SeriesOf

\* A visit that says anything says first whether it succeeded (collector.go:267-268).
LEMMA SpeakingStartsWithVerdict ==
  ASSUME NEW f, NEW i, NEW visit, NEW pos, Said(f, i, visit, pos) # {}
  PROVE  Verdict(i, IF visit.kind = "decoded" THEN 1 ELSE 0, pos) \in Said(f, i, visit, pos)
BY DecodedSays, OtherSays

\* What a visit says of success is the outcome of that visit, and nothing else.
LEMMA VerdictOfVisit ==
  ASSUME NEW f, NEW i, NEW visit, Sound(visit), NEW pos, NEW x \in Said(f, i, visit, pos),
         x.name = "scrape_success"
  PROVE  x = Verdict(i, IF visit.kind = "decoded" THEN 1 ELSE 0, pos)
<1>1. CASE visit.kind = "decoded"
  <2>1. visit.module \in Modules /\ Decoded[visit.module] # Undecodable
    BY <1>1 DEF Sound
  <2>2. x \notin Emission(i, Decoded[visit.module], pos)
    BY <2>1, EmissionIsNoVerdict
  <2> QED
    BY <1>1, <2>2, DecodedSays
<1>2. CASE visit.kind # "decoded"
  BY <1>2, OtherSays
<1> QED
  BY <1>1, <1>2

LEMMA SaidIsConsistent ==
  ASSUME NEW f, NEW i, NEW visit, Sound(visit), NEW pos,
         visit.kind = "decoded" => IsInjective(Decoded[visit.module].lengths)
  PROVE  Consistent(Said(f, i, visit, pos))
<1>1. CASE visit.kind = "decoded"
  <2> DEFINE E == Emission(i, Decoded[visit.module], pos)
             v == Verdict(i, 1, pos)
  <2>1. visit.module \in Modules /\ Decoded[visit.module] # Undecodable
    BY <1>1 DEF Sound
  <2>2. Consistent(E)
    BY <1>1, <2>1, EmissionIsConsistent
  <2>3. \A x \in E : SeriesOf(x) # SeriesOf(v)
    <3>1. \A x \in E : x.name # "scrape_success"
      BY <2>1, EmissionIsNoVerdict
    <3>2. v.name = "scrape_success"
      BY VerdictFields
    <3>3. \A x, y : SeriesOf(x) = SeriesOf(y) => x.name = y.name
      BY DEF SeriesOf
    <3> QED
      BY <3>1, <3>2, <3>3, Zenon
  <2>4. Said(f, i, visit, pos) = {v} \cup E
    BY <1>1, DecodedSays
  <2> HIDE DEF E, v
  <2> QED
    BY <2>2, <2>3, <2>4 DEF Consistent
<1>2. CASE visit.kind # "decoded"
  BY <1>2, OtherSays DEF Consistent
<1> QED
  BY <1>1, <1>2

-----------------------------------------------------------------------------
(***************************************************************************)
(* The answers.                                                            *)
(***************************************************************************)
\* Two visits of one interface that both say something contradict or repeat each
\* other, and the gather is refused: promhttp serves at most one of them.
LEMMA OneVisitSpeaks ==
  ASSUME NEW f, NEW c, NEW l, NEW n, NEW o, NEW r, NEW v, ScrapeOK(f, c, l, n, o, r, v),
         Consistent(o), NEW p \in 1 .. n - 1, NEW q \in 1 .. n - 1, l[p] = l[q],
         Said(f, l[p], v[p], p) # {}, Said(f, l[q], v[q], q) # {}
  PROVE  p = q
<1> DEFINE a == Verdict(l[p], IF v[p].kind = "decoded" THEN 1 ELSE 0, p)
           b == Verdict(l[q], IF v[q].kind = "decoded" THEN 1 ELSE 0, q)
<1>1. a \in Said(f, l[p], v[p], p) /\ b \in Said(f, l[q], v[q], q)
  BY SpeakingStartsWithVerdict
<1>2. o = UNION {Said(f, l[k], v[k], k) : k \in 1 .. n - 1}
  BY DEF ScrapeOK, SaidSoFar
<1>3. a \in o /\ b \in o
  BY <1>1, <1>2, Zenon
<1>4. SeriesOf(a) = SeriesOf(b) /\ a.pos = <<p, 0>> /\ b.pos = <<q, 0>>
  BY VerdictFields
<1> HIDE DEF a, b
<1>5. a = b
  BY <1>3, <1>4, Zenon DEF Consistent
<1>6. <<p, 0>> = <<q, 0>>
  BY <1>4, <1>5, Zenon
<1> QED
  BY <1>6

\* Every sample sent comes from one visit, of its own interface.
LEMMA SentByVisit ==
  ASSUME NEW f, NEW c, NEW l, NEW n, NEW o, NEW r, NEW v, ScrapeOK(f, c, l, n, o, r, v),
         NEW x \in o
  PROVE  \E p \in 1 .. n - 1 :
           /\ x \in Said(f, l[p], v[p], p) /\ x.iface = l[p] /\ Sound(v[p])
           /\ p \in DOMAIN v /\ p \in DOMAIN l
<1>1. o = UNION {Said(f, l[k], v[k], k) : k \in 1 .. n - 1}
  BY DEF ScrapeOK, SaidSoFar
<1>2. PICK p \in 1 .. n - 1 : x \in Said(f, l[p], v[p], p)
  BY <1>1, Zenon
<1>3. x.iface = l[p]
  BY <1>2, SaidIface
<1>4. p \in DOMAIN v /\ p \in DOMAIN l
  BY DEF ScrapeOK
<1>5. Sound(v[p])
  BY <1>4 DEF ScrapeOK
<1> QED
  BY <1>2, <1>3, <1>4, <1>5

\* A served page never shows half an interface: where it says success, the rest of
\* the interface's series are all those of one decoded module; where it does not,
\* there are no others (collector.go:252-270).
THEOREM PagesAreWhole == Spec => []ServedWhole
<1>1. KInv => ServedWhole
  <2> SUFFICES ASSUME KInv, NEW s \in Scrapes, Served(s), NEW i \in Interfaces
               PROVE  LET samples == {x \in Mine(i, Page(s)) : x.name # "scrape_success"}
                      IN  IF 1 \in Successes(i, Page(s))
                            THEN \E m \in {n \in Modules : Decoded[n] # Undecodable} :
                                   Content(samples) = Content(Emission(i, Decoded[m], 0))
                            ELSE samples = {}
    BY DEF ServedWhole
  <2> DEFINE samples == {x \in Mine(i, Page(s)) : x.name # "scrape_success"}
             l == list[s]
             n == at[s]
             v == saw[s]
  <2>1. ScrapeOK(flags, pc[s], l, n, out[s], status[s], v)
    BY DEF KInv
  <2>2. Page(s) = out[s] /\ Consistent(out[s])
    BY <2>1 DEF Served, Page, ScrapeOK
  <2>3. \A p \in 1 .. n - 1 : \A x \in Said(flags, l[p], v[p], p) : x \in out[s]
    BY <2>1, Zenon DEF ScrapeOK, SaidSoFar
  <2>4. ASSUME NEW x \in samples
        PROVE  \E p \in 1 .. n - 1 :
                 /\ l[p] = i /\ v[p].kind = "decoded" /\ Sound(v[p])
                 /\ x \in Emission(i, Decoded[v[p].module], p)
    <3>1. x \in out[s] /\ x.iface = i /\ x.name # "scrape_success"
      BY <2>2 DEF Mine
    <3>2. PICK p \in 1 .. n - 1 :
            x \in Said(flags, l[p], v[p], p) /\ x.iface = l[p] /\ Sound(v[p])
      BY <2>1, <3>1, SentByVisit
    <3>3. x # Verdict(l[p], 0, p) /\ x # Verdict(l[p], 1, p)
      BY <3>1, VerdictFields
    <3>4. v[p].kind = "decoded"
      BY <3>2, <3>3, OtherSays
    <3> QED
      BY <3>1, <3>2, <3>3, <3>4, DecodedSays
  <2>5. CASE 1 \in Successes(i, Page(s))
    <3>1. PICK w \in out[s] : w.iface = i /\ w.name = "scrape_success" /\ w.val = 1
      BY <2>2, <2>5 DEF Successes, Mine
    <3>2. PICK p \in 1 .. n - 1 :
            w \in Said(flags, l[p], v[p], p) /\ w.iface = l[p] /\ Sound(v[p])
      BY <2>1, SentByVisit
    <3>3. w = Verdict(i, IF v[p].kind = "decoded" THEN 1 ELSE 0, p) /\ l[p] = i
      BY <3>1, <3>2, VerdictOfVisit
    <3>4. v[p].kind = "decoded"
      BY <3>1, <3>3, VerdictFields
    <3> DEFINE m == v[p].module
               E == Emission(i, Decoded[m], p)
    <3>5. m \in Modules /\ Decoded[m] # Undecodable
      BY <3>2, <3>4 DEF Sound
    <3>6. samples \subseteq E
      <4> SUFFICES ASSUME NEW x \in samples
                   PROVE  x \in E
        OBVIOUS
      <4>1. PICK q \in 1 .. n - 1 : /\ l[q] = i /\ v[q].kind = "decoded"
                                    /\ x \in Emission(i, Decoded[v[q].module], q)
        BY <2>4
      <4>2. Said(flags, l[q], v[q], q) # {} /\ Said(flags, l[p], v[p], p) # {}
        BY <3>2, <4>1, DecodedSays
      <4>3. q = p
        BY <2>1, <2>2, <3>3, <4>1, <4>2, OneVisitSpeaks
      <4> QED
        BY <4>1, <4>3
    <3>7. E \subseteq samples
      <4> SUFFICES ASSUME NEW x \in E
                   PROVE  x \in samples
        OBVIOUS
      <4>1. x \in Said(flags, l[p], v[p], p)
        BY <3>3, <3>4, DecodedSays
      <4>2. x \in out[s] /\ x.iface = i
        BY <2>3, <3>3, <4>1, SaidIface
      <4>3. x.name # "scrape_success"
        BY <3>5, EmissionIsNoVerdict
      <4> QED
        BY <2>2, <4>2, <4>3 DEF Mine
    <3>8. Content(E) = Content(Emission(i, Decoded[m], 0))
      <4>1. \A x \in E : <<SeriesOf(x), x.val>> \in Content(Emission(i, Decoded[m], 0))
        BY EmissionMoves
      <4>2. \A x \in Emission(i, Decoded[m], 0) : <<SeriesOf(x), x.val>> \in Content(E)
        BY EmissionMoves
      <4> HIDE DEF E
      <4> QED
        BY <4>1, <4>2 DEF Content
    <3>9. samples = E
      BY <3>6, <3>7
    <3> QED
      BY <2>5, <3>5, <3>8, <3>9
  <2>6. CASE 1 \notin Successes(i, Page(s))
    <3> SUFFICES ASSUME NEW x \in samples
                 PROVE  FALSE
      BY <2>6
    <3>1. PICK p \in 1 .. n - 1 : l[p] = i /\ v[p].kind = "decoded"
      BY <2>4
    <3>2. Verdict(i, 1, p) \in out[s]
      BY <2>3, <3>1, DecodedSays
    <3> QED
      BY <2>2, <2>6, <3>2, VerdictFields DEF Successes, Mine
  <2> QED
    BY <2>5, <2>6
<1> QED
  BY <1>1, CollectorInvariance, PTL

\* Gathering fails only when the flags name an interface twice or a decoded module
\* lists one medium twice (collector.go:274-399).
THEOREM RefusalHasCause == Spec => []RefusedOnlyForRepeats
<1>1. KInv => RefusedOnlyForRepeats
  <2> SUFFICES ASSUME KInv, NEW s \in Scrapes, status[s] = "500", IsInjective(list[s]),
                      \A p \in DOMAIN saw[s] :
                        saw[s][p].kind = "decoded" =>
                          IsInjective(Decoded[saw[s][p].module].lengths)
               PROVE  FALSE
    BY DEF RefusedOnlyForRepeats
  <2> DEFINE l == list[s]
             v == saw[s]
  <2>1. ScrapeOK(flags, pc[s], l, at[s], out[s], status[s], v)
    BY DEF KInv
  <2>2. ~ Consistent(out[s])
    BY <2>1 DEF ScrapeOK
  <2>3. PICK x \in out[s], y \in out[s] : SeriesOf(x) = SeriesOf(y) /\ x # y
    BY <2>2 DEF Consistent
  <2>4. x.iface = y.iface
    BY <2>3 DEF SeriesOf
  <2>5. PICK p \in 1 .. at[s] - 1 :
          /\ x \in Said(flags, l[p], v[p], p) /\ x.iface = l[p] /\ Sound(v[p])
          /\ p \in DOMAIN v /\ p \in DOMAIN l
    BY <2>1, SentByVisit
  <2>6. PICK q \in 1 .. at[s] - 1 :
          /\ y \in Said(flags, l[q], v[q], q) /\ y.iface = l[q] /\ q \in DOMAIN l
    BY <2>1, SentByVisit
  <2>7. p = q
    BY <2>4, <2>5, <2>6 DEF IsInjective
  <2>8. Consistent(Said(flags, l[p], v[p], p))
    BY <2>5, SaidIsConsistent
  <2> QED
    BY <2>3, <2>5, <2>6, <2>7, <2>8 DEF Consistent
<1> QED
  BY <1>1, CollectorInvariance, PTL

-----------------------------------------------------------------------------
(***************************************************************************)
(* The promise of ScrapeVerdicts.                                          *)
(***************************************************************************)
LEMMA BothOrFewer ==
  ASSUME NEW S \in SUBSET {0, 1}
  PROVE  S \in {{}, {0}, {1}, {0, 1}}
<1>1. CASE 0 \in S /\ 1 \in S
  <2>1. S = {0, 1}
    BY <1>1
  <2> QED
    BY <2>1
<1>2. CASE 0 \in S /\ 1 \notin S
  <2>1. S = {0}
    BY <1>2
  <2> QED
    BY <2>1
<1>3. CASE 0 \notin S /\ 1 \in S
  <2>1. S = {1}
    BY <1>3
  <2> QED
    BY <2>1
<1>4. CASE 0 \notin S /\ 1 \notin S
  <2>1. S = {}
    BY <1>4
  <2> QED
    BY <2>1
<1> QED
  BY <1>1, <1>2, <1>3, <1>4

LEMMA VerdictTells ==
  ASSUME NEW l, NEW n, NEW o, NEW i, NEW p \in DOMAIN l, l[p] = i
  PROVE  /\ Successes(i, o) = {0, 1} => VerdictOf(l, n, o, i) = "both"
         /\ Successes(i, o) = {1} => VerdictOf(l, n, o, i) = "ok"
         /\ Successes(i, o) = {0} => VerdictOf(l, n, o, i) = "failed"
         /\ Successes(i, o) = {} /\ (\E q \in DOMAIN l : l[q] = i /\ q < n) =>
              VerdictOf(l, n, o, i) = "absent"
         /\ Successes(i, o) = {} /\ (\A q \in DOMAIN l : l[q] = i => ~ (q < n)) =>
              VerdictOf(l, n, o, i) = "pending"
<1> DEFINE visited == {q \in DOMAIN l : l[q] = i}
           vals == Successes(i, o)
<1>1. /\ 0 \in {0, 1} /\ 1 \in {0, 1} /\ 0 \notin {1} /\ 1 \notin {0} /\ 0 \in {0} /\ 1 \in {1}
  OBVIOUS
<1>2. {0, 1} # {1} /\ {0, 1} # {0} /\ {0} # {1} /\ {} # {0} /\ {} # {1} /\ {} # {0, 1}
  BY <1>1, Zenon
<1>3. visited # {}
  OBVIOUS
<1>4. (\E q \in visited : q < n) <=> (\E q \in DOMAIN l : l[q] = i /\ q < n)
  OBVIOUS
<1>5. VerdictOf(l, n, o, i) =
        IF visited = {} THEN "unlisted"
        ELSE CASE vals = {0, 1} -> "both"
               [] vals = {1}    -> "ok"
               [] vals = {0}    -> "failed"
               [] OTHER -> IF \E q \in visited : q < n THEN "absent" ELSE "pending"
  BY Zenon DEF VerdictOf
<1> HIDE DEF visited, vals
<1>6. /\ vals = {0, 1} => VerdictOf(l, n, o, i) = "both"
      /\ vals = {1} => VerdictOf(l, n, o, i) = "ok"
      /\ vals = {0} => VerdictOf(l, n, o, i) = "failed"
      /\ vals = {} /\ (\E q \in visited : q < n) => VerdictOf(l, n, o, i) = "absent"
      /\ vals = {} /\ ~ (\E q \in visited : q < n) => VerdictOf(l, n, o, i) = "pending"
  BY <1>2, <1>3, <1>5
<1> QED
  BY <1>4, <1>6 DEF vals

LEMMA SuccessesJoin ==
  ASSUME NEW i, NEW a, NEW b
  PROVE  Successes(i, a \cup b) = Successes(i, a) \cup Successes(i, b)
BY DEF Successes, Mine

LEMMA SuccessesOfVisit ==
  ASSUME NEW f, NEW i, NEW visit, Sound(visit), NEW pos
  PROVE  /\ \A j : j # i => Successes(j, Said(f, i, visit, pos)) = {}
         /\ \/ Successes(i, Said(f, i, visit, pos)) = {0}
            \/ Successes(i, Said(f, i, visit, pos)) = {1}
            \/ f = <<>> /\ Said(f, i, visit, pos) = {}
<1> DEFINE S == Said(f, i, visit, pos)
           ok == IF visit.kind = "decoded" THEN 1 ELSE 0
<1>1. \A x \in S : x.iface = i
  BY SaidIface
<1>2. \A x \in S : x.name = "scrape_success" => x = Verdict(i, ok, pos)
  BY VerdictOfVisit
<1>3. \A j : j # i => Successes(j, S) = {}
  BY <1>1 DEF Successes, Mine
<1>4. S # {} => Successes(i, S) = {ok}
  <2>1. S # {} => Verdict(i, ok, pos) \in S
    BY SpeakingStartsWithVerdict
  <2> HIDE DEF S, ok
  <2> QED
    BY <1>2, <2>1, VerdictFields DEF Successes, Mine
<1>5. S = {} => f = <<>>
  BY DecodedSays, OtherSays
<1> QED
  BY <1>3, <1>4, <1>5

\* What the samples sent say of an interface is zeros and ones, and they say something
\* of every interface visited unless the list was discovered.
LEMMA SuccessesSoFar ==
  ASSUME NEW f, NEW c, NEW l, NEW n, NEW o, NEW r, NEW v, ScrapeOK(f, c, l, n, o, r, v), NEW i
  PROVE  /\ Successes(i, o) \subseteq {0, 1}
         /\ Successes(i, o) # {} => \E p \in 1 .. n - 1 : l[p] = i
         /\ f # <<>> /\ Successes(i, o) = {} => \A p \in 1 .. n - 1 : l[p] # i
<1>1. ASSUME NEW x \in o, x.iface = i, x.name = "scrape_success"
      PROVE  x.val \in {0, 1} /\ \E p \in 1 .. n - 1 : l[p] = i
  <2>1. PICK p \in 1 .. n - 1 :
          x \in Said(f, l[p], v[p], p) /\ x.iface = l[p] /\ Sound(v[p])
    BY SentByVisit
  <2>2. x = Verdict(i, IF v[p].kind = "decoded" THEN 1 ELSE 0, p)
    BY <1>1, <2>1, VerdictOfVisit
  <2>3. \A ok : Verdict(i, ok, p).val = ok
    BY VerdictFields
  <2>4. x.val = IF v[p].kind = "decoded" THEN 1 ELSE 0
    BY <2>2, <2>3
  <2> QED
    BY <1>1, <2>1, <2>4
<1>2. ASSUME NEW p \in 1 .. n - 1, l[p] = i, f # <<>>
      PROVE  Successes(i, o) # {}
  <2>1. Said(f, l[p], v[p], p) # {}
    <3>1. CASE v[p].kind = "decoded"
      BY <3>1, DecodedSays
    <3>2. CASE v[p].kind # "decoded"
      BY <1>2, <3>2, OtherSays
    <3> QED
      BY <3>1, <3>2
  <2>2. Verdict(i, IF v[p].kind = "decoded" THEN 1 ELSE 0, p) \in Said(f, l[p], v[p], p)
    BY <1>2, <2>1, SpeakingStartsWithVerdict
  <2>3. Verdict(i, IF v[p].kind = "decoded" THEN 1 ELSE 0, p) \in o
    BY <2>2, Zenon DEF ScrapeOK, SaidSoFar
  <2> QED
    BY <2>3, VerdictFields DEF Successes, Mine
<1> QED
  BY <1>1, <1>2 DEF Successes, Mine

\* A visit settles its interface, contradicts an earlier visit of it, or repeats one;
\* of the others it says nothing.
LEMMA VisitTells ==
  ASSUME NEW f, NEW l, NEW n, NEW o, NEW r, NEW v, NEW visit, Sound(visit),
         ScrapeOK(f, "loop", l, n, o, r, v), n <= Len(l)
  PROVE  LET o2 == o \cup Said(f, l[n], visit, n)
             old == VerdictOf(l, n, o, l[n])
             new == VerdictOf(l, n + 1, o2, l[n])
         IN  /\ \A j : j # l[n] => VerdictOf(l, n + 1, o2, j) = VerdictOf(l, n, o, j)
             /\ \/ new = old
                \/ old = "pending" /\ new \in {"ok", "failed", "absent"}
                \/ old \in {"ok", "failed"} /\ new = "both"
<1> DEFINE i == l[n]
           S == Said(f, i, visit, n)
           o2 == o \cup S
           old == VerdictOf(l, n, o, i)
           new == VerdictOf(l, n + 1, o2, i)
<1>1. n \in DOMAIN l /\ l \in Seq(Interfaces) /\ n \in Nat /\ n < n + 1
  BY DEF ScrapeOK
<1>2. \A j : Successes(j, o2) = Successes(j, o) \cup Successes(j, S)
  BY SuccessesJoin
<1>3. ASSUME NEW j, j # i
      PROVE  VerdictOf(l, n + 1, o2, j) = VerdictOf(l, n, o, j)
  <2>1. Successes(j, o2) = Successes(j, o)
    BY <1>2, <1>3, SuccessesOfVisit
  <2>2. (\E p \in DOMAIN l : l[p] = j /\ p < n + 1) <=> (\E p \in DOMAIN l : l[p] = j /\ p < n)
    BY <1>1, <1>3
  <2> HIDE DEF i, o2
  <2> QED
    BY <2>1, <2>2 DEF VerdictOf
<1>4. Successes(i, o) = {} => old = "pending"
  <2> SUFFICES ASSUME Successes(i, o) = {}
               PROVE  old = "pending"
    OBVIOUS
  <2>1. \A p \in DOMAIN l : p < n => l[p] # i
    <3>1. CASE f = <<>>
      BY <1>1, <3>1 DEF ScrapeOK, IsInjective
    <3>2. CASE f # <<>>
      <4>1. \A p \in 1 .. n - 1 : l[p] # i
        BY <3>2, SuccessesSoFar
      <4> QED
        BY <1>1, <4>1
    <3> QED
      BY <3>1, <3>2
  <2> QED
    BY <1>1, <2>1, VerdictTells
<1>5. Successes(i, o) \in {{}, {0}, {1}, {0, 1}}
  BY SuccessesSoFar, BothOrFewer
<1>6. Successes(i, S) = {0} \/ Successes(i, S) = {1} \/ (f = <<>> /\ S = {})
  BY SuccessesOfVisit
<1>7. /\ Successes(i, o) = {0, 1} => old = "both"
      /\ Successes(i, o) = {1} => old = "ok"
      /\ Successes(i, o) = {0} => old = "failed"
  BY <1>1, VerdictTells
<1>8. /\ Successes(i, o2) = {0, 1} => new = "both"
      /\ Successes(i, o2) = {1} => new = "ok"
      /\ Successes(i, o2) = {0} => new = "failed"
      /\ Successes(i, o2) = {} => new = "absent"
  BY <1>1, VerdictTells
<1>9. \/ new = old
      \/ old = "pending" /\ new \in {"ok", "failed", "absent"}
      \/ old \in {"ok", "failed"} /\ new = "both"
  <2>1. CASE S = {}
    <3>1. Successes(i, o2) = Successes(i, o)
      BY <2>1
    <3> HIDE DEF i, S, o2, old, new
    <3> QED
      BY <1>4, <1>5, <1>7, <1>8, <3>1
  <2>2. CASE Successes(i, S) \in {{0}, {1}}
    <3>1. Successes(i, o2) = Successes(i, o) \cup Successes(i, S)
      BY <1>2
    <3> HIDE DEF i, S, o2, old, new
    <3> QED
      BY <1>4, <1>5, <1>7, <1>8, <2>2, <3>1
  <2> QED
    BY <1>6, <2>1, <2>2
<1> QED
  BY <1>3, <1>9

\* Once the loop has ended no verdict is pending, and a page has none that contradict
\* each other.
LEMMA AnswerTells ==
  ASSUME NEW f, NEW l, NEW n, NEW o, NEW r, NEW v, ScrapeOK(f, "gathered", l, n, o, r, v), NEW i
  PROVE  /\ VerdictOf(l, n, o, i) # "pending"
         /\ Consistent(o) => VerdictOf(l, n, o, i) # "both"
<1>1. \A p \in DOMAIN l : p < n
  BY DEF ScrapeOK
<1>2. Consistent(o) => Successes(i, o) # {0, 1}
  <2> SUFFICES ASSUME Consistent(o), Successes(i, o) = {0, 1}
               PROVE  FALSE
    OBVIOUS
  <2>1. PICK x \in o : x.iface = i /\ x.name = "scrape_success" /\ x.val = 0
    BY DEF Successes, Mine
  <2>2. PICK y \in o : y.iface = i /\ y.name = "scrape_success" /\ y.val = 1
    BY DEF Successes, Mine
  <2>3. SeriesOf(x) = <<"scrape_success", i, <<>>>> /\ SeriesOf(y) = <<"scrape_success", i, <<>>>>
    <3>1. ASSUME NEW z \in o, z.iface = i, z.name = "scrape_success"
          PROVE  SeriesOf(z) = <<"scrape_success", i, <<>>>>
      <4>1. PICK p \in 1 .. n - 1 :
              z \in Said(f, l[p], v[p], p) /\ z.iface = l[p] /\ Sound(v[p])
        BY SentByVisit
      <4>2. z = Verdict(i, IF v[p].kind = "decoded" THEN 1 ELSE 0, p)
        BY <3>1, <4>1, VerdictOfVisit
      <4> QED
        BY <4>2, VerdictFields
    <3> QED
      BY <2>1, <2>2, <3>1
  <2> QED
    BY <2>1, <2>2, <2>3 DEF Consistent
<1>3. VerdictOf(l, n, o, i) \in {"unlisted", "both", "ok", "failed", "absent", "pending"}
  BY DEF VerdictOf
<1>4. Successes(i, o) \in {{}, {0}, {1}, {0, 1}}
  BY SuccessesSoFar, BothOrFewer
<1>5. CASE \A p \in DOMAIN l : l[p] # i
  BY <1>5 DEF VerdictOf
<1>6. CASE \E p \in DOMAIN l : l[p] = i
  <2>1. PICK p \in DOMAIN l : l[p] = i
    BY <1>6
  <2> QED
    BY <1>1, <1>2, <1>4, <2>1, VerdictTells
<1> QED
  BY <1>5, <1>6

-----------------------------------------------------------------------------
(***************************************************************************)
(* Step by step.                                                           *)
(***************************************************************************)
LEMMA PromiseInit == Init => Promise!Init
<1> SUFFICES ASSUME Init PROVE Promise!Init
  OBVIOUS
<1>1. Running = [s \in Scrapes |-> FALSE]
  BY DEF Init, Running
<1>2. VerdictsSoFar = [s \in Scrapes |-> [i \in Interfaces |-> "unlisted"]]
  <2>1. \A s \in Scrapes, i \in Interfaces : VerdictOf(list[s], at[s], out[s], i) = "unlisted"
    BY DEF Init, VerdictOf
  <2> QED
    BY <2>1 DEF VerdictsSoFar
<1>3. Answers = [s \in Scrapes |-> FALSE]
  BY DEF Init, Answers, Served
<1> QED
  BY <1>1, <1>2, <1>3 DEF Promise!Init, Promise!Nothing

\* What the other scrapes promise does not change.
LEMMA OthersPromise ==
  ASSUME NEW s \in Scrapes, OthersKept(s)
  PROVE  /\ Running' = [Running EXCEPT ![s] = (pc'[s] # "idle")]
         /\ VerdictsSoFar' =
              [VerdictsSoFar EXCEPT ![s] =
                 [i \in Interfaces |-> VerdictOf(list'[s], at'[s], out'[s], i)]]
         /\ Answers' = [Answers EXCEPT ![s] = (status'[s] = "200")]
<1>1. Running' = [t \in Scrapes |-> pc'[t] # "idle"]
  BY DEF Running
<1>2. VerdictsSoFar' =
        [t \in Scrapes |-> [i \in Interfaces |-> VerdictOf(list'[t], at'[t], out'[t], i)]]
  BY DEF VerdictsSoFar, VerdictOf, Successes, Mine
<1>3. Answers' = [t \in Scrapes |-> status'[t] = "200"]
  BY DEF Answers, Served
<1>4. [t \in Scrapes |-> pc'[t] # "idle"] = [Running EXCEPT ![s] = (pc'[s] # "idle")]
  BY DEF Running, OthersKept
<1>5. [t \in Scrapes |-> [i \in Interfaces |-> VerdictOf(list'[t], at'[t], out'[t], i)]]
        = [VerdictsSoFar EXCEPT ![s] =
             [i \in Interfaces |-> VerdictOf(list'[s], at'[s], out'[s], i)]]
  BY DEF VerdictsSoFar, OthersKept
<1>6. [t \in Scrapes |-> status'[t] = "200"] = [Answers EXCEPT ![s] = (status'[s] = "200")]
  BY DEF Answers, Served, OthersKept
<1> QED
  BY <1>1, <1>2, <1>3, <1>4, <1>5, <1>6

LEMMA BeginPromise ==
  ASSUME KInv, NEW s \in Scrapes, Begin(s)
  PROVE  Promise!Begin(s)
<1>1. /\ pc[s] = "idle" /\ pc'[s] = "list" /\ list'[s] = <<>> /\ status'[s] = "none"
      /\ OthersKept(s)
  BY DEF KInv, Begin, OthersKept
<1>2. \A i \in Interfaces : VerdictOf(list'[s], at'[s], out'[s], i) = "unlisted"
  BY <1>1 DEF VerdictOf
<1>3. [i \in Interfaces |-> VerdictOf(list'[s], at'[s], out'[s], i)] = Promise!Nothing
  BY <1>2 DEF Promise!Nothing
<1>4. ~ Running[s] /\ (pc'[s] # "idle") = TRUE /\ (status'[s] = "200") = FALSE
  BY <1>1 DEF Running
<1> QED
  BY <1>1, <1>3, <1>4, OthersPromise DEF Promise!Begin

LEMMA ListPromise ==
  ASSUME KInv, KInv', NEW s \in Scrapes, ListInterfaces(s)
  PROVE  (\E listed \in SUBSET Interfaces : Promise!List(s, listed)) \/ UNCHANGED Promise!vars
<1>1. /\ pc[s] = "list" /\ pc'[s] # "idle" /\ at' = at /\ out' = out /\ status' = status
      /\ OthersKept(s)
  BY DEF KInv, ListInterfaces, OthersKept
<1>2. ScrapeOK(flags, pc[s], list[s], at[s], out[s], status[s], saw[s])
  BY DEF KInv
<1>3. ScrapeOK(flags', pc'[s], list'[s], at'[s], out'[s], status'[s], saw'[s])
  BY DEF KInv
<1>4. list[s] = <<>> /\ at[s] = 1 /\ out[s] = {}
  <2>1. list[s] = <<>> /\ at[s] = 1
    BY <1>1, <1>2 DEF ScrapeOK
  <2>2. out[s] = SaidSoFar(flags, <<>>, 1, saw[s])
    BY <1>2, <2>1 DEF ScrapeOK
  <2> QED
    BY <2>1, <2>2 DEF SaidSoFar
<1> DEFINE listed == {list'[s][p] : p \in DOMAIN list'[s]}
<1>5. listed \in SUBSET Interfaces
  BY <1>3 DEF ScrapeOK
<1>6. \A i \in Interfaces : VerdictOf(list[s], at[s], out[s], i) = "unlisted"
  BY <1>4 DEF VerdictOf
<1>7. ASSUME NEW i \in Interfaces
      PROVE  VerdictOf(list'[s], at'[s], out'[s], i) = IF i \in listed THEN "pending" ELSE "unlisted"
  <2>1. CASE i \in listed
    <3>1. PICK p \in DOMAIN list'[s] : list'[s][p] = i
      BY <2>1
    <3>2. \A q \in DOMAIN list'[s] : ~ (q < 1)
      BY <1>3 DEF ScrapeOK
    <3>3. Successes(i, {}) = {}
      BY DEF Successes, Mine
    <3>4. VerdictOf(list'[s], 1, {}, i) = "pending"
      BY <3>1, <3>2, <3>3, VerdictTells
    <3> QED
      BY <1>1, <1>4, <2>1, <3>4
  <2>2. CASE i \notin listed
    BY <2>2 DEF VerdictOf
  <2> QED
    BY <2>1, <2>2
<1>8. /\ [i \in Interfaces |-> VerdictOf(list'[s], at'[s], out'[s], i)]
           = [i \in Interfaces |-> IF i \in listed THEN "pending" ELSE "unlisted"]
      /\ VerdictsSoFar[s] = Promise!Nothing /\ Running[s]
  BY <1>1, <1>6, <1>7 DEF VerdictsSoFar, Running, Promise!Nothing
<1>9. Running' = Running /\ Answers' = Answers
  BY <1>1 DEF OthersKept, Running, Answers, Served
<1>10. Promise!List(s, listed)
  BY <1>1, <1>8, <1>9, OthersPromise DEF Promise!List
<1> QED
  BY <1>5, <1>10

LEMMA VisitPromise ==
  ASSUME KInv, NEW s \in Scrapes, Visit(s)
  PROVE  \/ \E i \in Interfaces, v \in Promise!Verdicts : Promise!Decide(s, i, v)
         \/ UNCHANGED Promise!vars
<1> DEFINE i == list[s][at[s]]
           old(j) == VerdictOf(list[s], at[s], out[s], j)
           new(j) == VerdictOf(list'[s], at'[s], out'[s], j)
<1>1. /\ pc' = pc /\ list' = list /\ status' = status
      /\ pc[s] = "loop" /\ at[s] <= Len(list[s]) /\ at'[s] = at[s] + 1
  BY DEF KInv, Visit
<1>2. PICK visit \in Visits(i) :
        /\ out' = [out EXCEPT ![s] = @ \cup Emitted(i, visit, at[s])]
        /\ saw' = [saw EXCEPT ![s] = Append(@, visit)]
  BY DEF Visit
<1>3. ScrapeOK(flags, "loop", list[s], at[s], out[s], status[s], saw[s])
  BY <1>1 DEF KInv
<1>4. i \in Interfaces
  BY <1>1, <1>3 DEF ScrapeOK
<1>5. Sound(visit)
  BY <1>4, VisitType DEF KInv
<1>6. out'[s] = out[s] \cup Said(flags, i, visit, at[s])
  <2>1. out'[s] = out[s] \cup Emitted(i, visit, at[s])
    BY <1>2 DEF KInv
  <2> QED
    BY <2>1, SaidIsEmitted
<1>7. OthersKept(s)
  BY <1>1, <1>2 DEF KInv, Visit, OthersKept
<1>8. /\ \A j : j # i => new(j) = old(j)
      /\ \/ new(i) = old(i)
         \/ old(i) = "pending" /\ new(i) \in {"ok", "failed", "absent"}
         \/ old(i) \in {"ok", "failed"} /\ new(i) = "both"
  BY <1>1, <1>3, <1>5, <1>6, VisitTells
<1>9. /\ Running' = Running /\ Answers' = Answers /\ Running[s]
      /\ VerdictsSoFar' = [VerdictsSoFar EXCEPT ![s] = [j \in Interfaces |-> new(j)]]
      /\ VerdictsSoFar[s] = [j \in Interfaces |-> old(j)]
      /\ VerdictsSoFar = [t \in Scrapes |-> VerdictsSoFar[t]]
  <2>1. Running' = Running /\ Answers' = Answers /\ Running[s]
    BY <1>1 DEF Running, Answers, Served
  <2>2. VerdictsSoFar' = [VerdictsSoFar EXCEPT ![s] = [j \in Interfaces |-> new(j)]]
    BY <1>7, OthersPromise
  <2> QED
    BY <2>1, <2>2 DEF VerdictsSoFar
<1> HIDE DEF i, old, new
<1>10. CASE new(i) = old(i)
  <2>1. [j \in Interfaces |-> new(j)] = [j \in Interfaces |-> old(j)]
    BY <1>8, <1>10
  <2>2. VerdictsSoFar' = VerdictsSoFar
    BY <1>9, <2>1
  <2> QED
    BY <1>9, <2>2 DEF Promise!vars
<1>11. CASE new(i) # old(i)
  <2>1. [j \in Interfaces |-> new(j)] = [[j \in Interfaces |-> old(j)] EXCEPT ![i] = new(i)]
    BY <1>4, <1>8
  <2>2. VerdictsSoFar' = [VerdictsSoFar EXCEPT ![s][i] = new(i)]
    BY <1>9, <2>1
  <2>3. VerdictsSoFar[s][i] = old(i)
    BY <1>4, <1>9
  <2>4. new(i) \in Promise!Verdicts
    BY <1>8, <1>11 DEF Promise!Verdicts
  <2>5. Promise!Decide(s, i, new(i))
    BY <1>8, <1>9, <1>11, <2>2, <2>3 DEF Promise!Decide
  <2> QED
    BY <1>4, <2>4, <2>5
<1> QED
  BY <1>10, <1>11

LEMMA EndLoopPromise ==
  ASSUME KInv, NEW s \in Scrapes, EndLoop(s)
  PROVE  UNCHANGED Promise!vars
<1>1. /\ list' = list /\ at' = at /\ out' = out /\ status' = status
      /\ pc[s] # "idle" /\ pc'[s] # "idle" /\ \A t \in Scrapes \ {s} : pc'[t] = pc[t]
  BY DEF KInv, EndLoop
<1>2. Running' = Running
  BY <1>1 DEF Running
<1> QED
  BY <1>1, <1>2 DEF Promise!vars, VerdictsSoFar, Answers, Served, VerdictOf, Successes, Mine

LEMMA RespondPromise ==
  ASSUME KInv, NEW s \in Scrapes, Respond(s)
  PROVE  \E page \in BOOLEAN : Promise!Answer(s, page)
<1>1. /\ list' = list /\ at' = at /\ out' = out
      /\ pc[s] = "gathered" /\ pc'[s] = "idle" /\ OthersKept(s)
      /\ status'[s] = IF Consistent(out[s]) THEN "200" ELSE "500"
  BY DEF KInv, Respond, OthersKept
<1>2. ScrapeOK(flags, "gathered", list[s], at[s], out[s], status[s], saw[s])
  BY <1>1 DEF KInv
<1> DEFINE page == (status'[s] = "200")
<1>3. \A i \in Interfaces :
        /\ VerdictsSoFar[s][i] # "pending"
        /\ page => VerdictsSoFar[s][i] # "both"
  BY <1>1, <1>2, AnswerTells DEF VerdictsSoFar
<1>4. VerdictsSoFar' = VerdictsSoFar
  BY <1>1 DEF VerdictsSoFar, VerdictOf, Successes, Mine
<1>5. Running[s] /\ (pc'[s] # "idle") = FALSE
  BY <1>1 DEF Running
<1>6. page \in BOOLEAN
  OBVIOUS
<1>7. Answers' = [Answers EXCEPT ![s] = page]
  BY <1>1, OthersPromise
<1>8. Running' = [Running EXCEPT ![s] = FALSE]
  BY <1>1, <1>5, OthersPromise
<1> HIDE DEF page
<1>9. Promise!Answer(s, page)
  BY <1>3, <1>4, <1>5, <1>7, <1>8 DEF Promise!Answer
<1> QED
  BY <1>6, <1>9

LEMMA PanicPromise ==
  ASSUME KInv, NEW s \in Scrapes, Panic(s)
  PROVE  Promise!Crash
<1>1. /\ pc' = [t \in Scrapes |-> "idle"]
      /\ status' = [t \in Scrapes |-> IF pc[t] = "idle" THEN status[t] ELSE "lost"]
      /\ list' = list /\ at' = at /\ out' = out
  BY DEF Panic
<1>2. Running' = [t \in Scrapes |-> FALSE]
  BY <1>1 DEF Running
<1>3. VerdictsSoFar' = VerdictsSoFar
  BY <1>1 DEF VerdictsSoFar, VerdictOf, Successes, Mine
<1>4. ASSUME NEW t \in Scrapes
      PROVE  status'[t] = "200" <=> status[t] = "200"
  <2>1. ScrapeOK(flags, pc[t], list[t], at[t], out[t], status[t], saw[t])
    BY DEF KInv
  <2>2. pc[t] # "idle" => status[t] = "none"
    BY <2>1 DEF ScrapeOK
  <2> QED
    BY <1>1, <2>2
<1>5. Answers' = Answers
  BY <1>4 DEF Answers, Served
<1> QED
  BY <1>2, <1>3, <1>5 DEF Promise!Crash

LEMMA PromiseStep == KInv /\ KInv' /\ [Next]_vars => [Promise!Next]_(Promise!vars)
<1> SUFFICES ASSUME KInv, KInv', [Next]_vars
             PROVE  Promise!Next \/ UNCHANGED Promise!vars
  OBVIOUS
<1>1. CASE UNCHANGED <<pc, list, at, out, status>>
  BY <1>1 DEF Promise!vars, Running, VerdictsSoFar, Answers, Served, VerdictOf, Successes, Mine
<1>2. CASE \/ UNCHANGED vars
           \/ \E i \in Cages, m \in Modules \cup {NoModule} : Swap(i, m)
           \/ \E i \in Interfaces : DeviceComesOrGoes(i)
  <2>1. UNCHANGED <<pc, list, at, out, status>>
    BY <1>2 DEF vars, Swap, DeviceComesOrGoes
  <2> QED
    BY <1>1, <2>1
<1>3. ASSUME NEW s \in Scrapes, Begin(s) \/ Step(s)
      PROVE  Promise!Next \/ UNCHANGED Promise!vars
  BY <1>3, BeginPromise, ListPromise, VisitPromise, PanicPromise, EndLoopPromise, RespondPromise
     DEF Step, Promise!Next
<1> QED
  BY <1>2, <1>3 DEF Next

\* Collect under promhttp keeps the promise of ScrapeVerdicts: one verdict on each
\* interface it settled on, none taken back, none pending or contradicting another in
\* a page that is served (collector.go:239-272).
THEOREM CollectKeepsPromise == Spec => ImplementsVerdicts
BY PromiseInit, PromiseStep, CollectorInvariance, PTL DEF Spec, ImplementsVerdicts, Promise!Spec
=============================================================================
