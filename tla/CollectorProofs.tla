--------------------------- MODULE CollectorProofs ---------------------------
(***************************************************************************)
(* Proofs about Collector for any scrapes, interfaces, flags, modules and  *)
(* events.  The invariant is that the samples a scrape has sent are those  *)
(* of the visits it made, in the order of its list: what a page says of an *)
(* interface then follows from what each visit got.  A panic leaves the    *)
(* scrapes in flight where they were, without an answer.                   *)
(***************************************************************************)
EXTENDS Collector, FiniteSetTheorems, TLAPS

Errnos == {"ENODEV", "EIO", "EOPNOTSUPP"}
VisitRecords ==
  [kind : {"error", "refused", "decoded"}, errs : SUBSET Errnos, module : Modules \cup {NoModule}]

\* Emitted, with c.interfaces as a parameter.
Said(f, i, visit, pos) ==
  CASE visit.kind = "decoded" ->
         ScrapeSuccess(i, 1, pos) \cup Emission(i, Decoded[visit.module], pos)
    [] visit.kind = "error" /\ f = <<>> /\ IsUnsupportedModuleError(visit.errs) -> {}
    [] OTHER -> ScrapeSuccess(i, 0, pos)

\* A device without EEPROM access gives errors that say so, and only those.
Explained(i, visit) ==
  Supports[i] \cap ReaderPaths = {} =>
    visit.kind = "error" /\ IsUnsupportedModuleError(visit.errs)

\* A visit failed with errors, or got data that the decoder refused or accepted.
Sound(visit) ==
  /\ visit.kind = "error" => visit.errs # {}
  /\ visit.kind # "error" => visit.errs = {}
  /\ visit.kind = "decoded" => visit.module \in Modules /\ Decoded[visit.module] # Undecodable

SaidSoFar(f, l, n, v) == UNION {Said(f, l[p], v[p], p) : p \in 1 .. n - 1}

\* One scrape: its flags f, statement c, list l, position n, samples o, answer r and
\* visits v.
ScrapeOK(f, c, l, n, o, r, v) ==
  /\ c \in Undecided \cup {"idle"}
  /\ l \in Seq(Interfaces)
  /\ n \in 1 .. Len(l) + 1
  /\ v \in Seq(VisitRecords) /\ Len(v) = n - 1
  /\ r \in {"none", "200", "500", "lost"}
  /\ c # "idle" => r = "none"
  /\ c = "list" => l = <<>>
  /\ c = "gathered" \/ r \in {"200", "500"} => n > Len(l)
  /\ f # <<>> /\ (c \in {"loop", "gathered"} \/ r \in {"200", "500"}) => l = f
  /\ f = <<>> => IsInjective(l) /\ l \in Seq(Physical)
  /\ \A p \in DOMAIN v : Explained(l[p], v[p]) /\ Sound(v[p])
  /\ o = SaidSoFar(f, l, n, v)
  /\ r = "200" => Consistent(o)
  /\ r = "500" => ~ Consistent(o)

KInv ==
  /\ flags \in FlagLists
  /\ plugged \in [Cages -> Modules \cup {NoModule}]
  /\ present \subseteq Interfaces
  /\ events \in 0 .. MaxEvents
  /\ DOMAIN pc = Scrapes /\ pc = [s \in Scrapes |-> pc[s]]
  /\ list = [s \in Scrapes |-> list[s]]
  /\ at = [s \in Scrapes |-> at[s]]
  /\ out = [s \in Scrapes |-> out[s]]
  /\ status = [s \in Scrapes |-> status[s]]
  /\ saw = [s \in Scrapes |-> saw[s]]
  /\ \A s \in Scrapes : ScrapeOK(flags, pc[s], list[s], at[s], out[s], status[s], saw[s])

-----------------------------------------------------------------------------
(***************************************************************************)
(* Lists and visits.                                                       *)
(***************************************************************************)
\* A discovery lists each of a set of devices once.
LEMMA ListedOnce ==
  ASSUME NEW S, IsFiniteSet(S)
  PROVE  SetToSeq(S) \in Seq(S) /\ IsInjective(SetToSeq(S))
<1>1. Cardinality(S) \in Nat /\ ExistsBijection(1 .. Cardinality(S), S)
  BY FS_CardinalityType
<1>2. \E f \in [1 .. Cardinality(S) -> S] : IsInjective(f)
  BY <1>1 DEF ExistsBijection, Bijection, Injection, IsInjective
<1>3. SetToSeq(S) \in [1 .. Cardinality(S) -> S] /\ IsInjective(SetToSeq(S))
  BY <1>2 DEF SetToSeq
<1>4. \A n \in Nat : \A f \in [1 .. n -> S] : f \in Seq(S)
  OBVIOUS
<1> DEFINE listed == SetToSeq(S)
<1> HIDE DEF listed
<1>5. listed \in [1 .. Cardinality(S) -> S] /\ IsInjective(listed)
  BY <1>3 DEF listed
<1>6. listed \in Seq(S)
  BY <1>1, <1>4, <1>5
<1> QED
  BY <1>5, <1>6 DEF listed

\* What ModuleEEPROM and sff.Decode can come to, and when a device has no access.
LEMMA VisitType ==
  ASSUME NEW i \in Interfaces, NEW visit \in Visits(i),
         plugged \in [Cages -> Modules \cup {NoModule}], present \subseteq Interfaces
  PROVE  /\ visit \in VisitRecords
         /\ Explained(i, visit)
         /\ Sound(visit)
<1>1. ASSUME NEW errs \in ReadErrors(i)
      PROVE  /\ errs \subseteq Errnos /\ errs # {}
             /\ Supports[i] \cap ReaderPaths = {} => IsUnsupportedModuleError(errs)
  <2>1. CASE i \notin present
    BY <2>1 DEF ReadErrors, Errnos, IsUnsupportedModuleError
  <2>2. CASE i \in present
    <3>1. errs \in {e \in SUBSET UNION {PathErrors(i, p) : p \in ReaderPaths} :
                      \E err \in [ReaderPaths -> e] :
                        /\ e = {err[p] : p \in ReaderPaths}
                        /\ \A p \in ReaderPaths : err[p] \in PathErrors(i, p)}
      BY <2>2, Zenon DEF ReadErrors
    <3>2. PICK err \in [ReaderPaths -> errs] : \A p \in ReaderPaths : err[p] \in PathErrors(i, p)
      BY <3>1
    <3>3. errs \subseteq UNION {PathErrors(i, p) : p \in ReaderPaths}
      BY <3>1
    <3>4. "ioctl" \in ReaderPaths
      BY CollectorAssumption
    <3>5. \A p : PathErrors(i, p) \subseteq Errnos
      BY DEF PathErrors, Errnos
    <3>6. err["ioctl"] \in errs /\ err["ioctl"] \in PathErrors(i, "ioctl")
      BY <3>2, <3>4
    <3>7. "ioctl" \notin Supports[i] => err["ioctl"] = "EOPNOTSUPP"
      BY <3>6 DEF PathErrors
    <3>8. Supports[i] \cap ReaderPaths = {} => IsUnsupportedModuleError(errs)
      BY <3>4, <3>6, <3>7 DEF IsUnsupportedModuleError
    <3>9. errs \subseteq Errnos
      BY <3>3, <3>5
    <3> QED
      BY <3>6, <3>8, <3>9
  <2> QED
    BY <2>1, <2>2
<1>2. CASE visit.kind = "error"
  <2>1. PICK errs \in ReadErrors(i) :
          visit = [kind |-> "error", errs |-> errs, module |-> NoModule]
    BY <1>2 DEF Visits
  <2> QED
    BY <1>1, <2>1 DEF VisitRecords, Explained, Sound
<1>3. CASE visit.kind # "error"
  <2>1. Readable(i) /\ i \in Cages
    BY <1>3 DEF Visits, Readable
  <2>2. Supports[i] \cap ReaderPaths # {}
    BY <2>1 DEF Cages
  <2>3. plugged[i] \in Modules
    BY <2>1 DEF Readable
  <2>4. \/ visit = [kind |-> "refused", errs |-> {}, module |-> plugged[i]]
        \/ /\ visit = [kind |-> "decoded", errs |-> {}, module |-> plugged[i]]
           /\ Decoded[plugged[i]] # Undecodable
    BY <1>3, <2>1 DEF Visits
  <2> QED
    BY <2>2, <2>3, <2>4 DEF VisitRecords, Explained, Sound
<1> QED
  BY <1>2, <1>3

-----------------------------------------------------------------------------
(***************************************************************************)
(* The samples of one interface.                                           *)
(***************************************************************************)
LaneMetrics ==
  {"tx_bias_milliamps", "tx_power_milliwatts", "tx_power_dbm", "rx_power_milliwatts",
   "rx_power_dbm", "lane_datapath_state"}

\* x is a sample of i that stands at place.
Stands(x, i, place) == x = Sample(x.name, i, x.labels, x.val, place)

LEMMA SampleFields ==
  ASSUME NEW name, NEW i, NEW labels, NEW val, NEW pos
  PROVE  /\ Sample(name, i, labels, val, pos).name = name
         /\ Sample(name, i, labels, val, pos).iface = i
         /\ Sample(name, i, labels, val, pos).labels = labels
         /\ Sample(name, i, labels, val, pos).val = val
         /\ Sample(name, i, labels, val, pos).pos = pos
         /\ Stands(Sample(name, i, labels, val, pos), i, pos)
BY DEF Sample, Stands

LEMMA LaneShape ==
  ASSUME NEW i, NEW map, NEW lane, NEW place, NEW x \in LaneSamples(i, map, lane, place)
  PROVE  /\ Stands(x, i, place) /\ x.name \in LaneMetrics /\ x.val = 1
         /\ x.labels[2] = lane.index
<1>1. \/ x = Sample("lane_datapath_state", i, <<map, lane.index, lane.state>>, 1, place)
      \/ \E name \in LaneMetrics \ {"lane_datapath_state"} :
           x = Sample(name, i, <<map, lane.index>>, 1, place)
  <2> DEFINE One(name) == {Sample(name, i, <<map, lane.index>>, 1, place)}
             State == {Sample("lane_datapath_state", i, <<map, lane.index, lane.state>>, 1, place)}
  <2>1. \/ x \in One("tx_bias_milliamps") \/ x \in One("tx_power_milliwatts")
        \/ x \in One("tx_power_dbm") \/ x \in One("rx_power_milliwatts")
        \/ x \in One("rx_power_dbm") \/ x \in State
    BY Zenon DEF LaneSamples, If
  <2> QED
    BY <2>1 DEF LaneMetrics
<1>2. \A a, b, c : <<a, b>>[2] = b /\ <<a, b, c>>[2] = b
  OBVIOUS
<1> QED
  BY <1>1, <1>2, SampleFields DEF LaneMetrics

SingleMetrics(d) ==
  {"module_info", "module_status", "module_low_power_status"} \cup d.inventory \cup d.gauges

\* The kinds of samples a module gives, each with its place (collector.go:274-430).
IsSingle(x, d, pos) == x.name \in SingleMetrics(d) /\ x.val = 1 /\ x.pos = <<pos, 0>>
IsLength(x, d, pos) ==
  \E k \in DOMAIN d.lengths :
    /\ x.name = "link_length_meters" /\ x.labels = <<d.map, d.lengths[k]>>
    /\ x.val = 1 /\ x.pos = <<pos, k>>
IsLaneSample(x, i, d, pos) ==
  \E k \in DOMAIN d.lanes :
    x \in LaneSamples(i, d.map, d.lanes[k], <<pos, k>>) /\ x.pos = <<pos, k>>
IsThreshold(x, d, pos) ==
  \E k \in DOMAIN d.thresholds :
    /\ x.name = "diagnostic_threshold"
    /\ x.labels = <<d.map, d.thresholds[k].name, d.thresholds[k].lane>>
    /\ x.val = 1 /\ x.pos = <<pos, k>>
IsAlarm(x, d, pos) ==
  \E k \in DOMAIN d.alarms :
    /\ x.name = "alarm_status" /\ x.labels = <<d.map, d.alarms[k].name, d.alarms[k].lane>>
    /\ x.val = d.alarms[k].active /\ x.pos = <<pos, k>>

LEMMA InventoryShape ==
  ASSUME NEW i, NEW d, NEW pos, NEW x \in Inventory(i, d, pos)
  PROVE  Stands(x, i, x.pos) /\ (IsSingle(x, d, pos) \/ IsLength(x, d, pos))
<1> DEFINE Status(name, label) == Sample(name, i, <<d.map, label>>, 1, <<pos, 0>>)
           Named == {Sample(name, i, <<d.map>>, 1, <<pos, 0>>) : name \in d.inventory}
           Lengths == {Sample("link_length_meters", i, <<d.map, d.lengths[k]>>, 1, <<pos, k>>) :
                         k \in DOMAIN d.lengths}
<1>1. \/ x = Status("module_status", d.status)
      \/ x = Status("module_low_power_status", "hardware")
      \/ x = Status("module_low_power_status", "software")
      \/ x \in Named
      \/ x \in Lengths
  BY Zenon DEF Inventory, If
<1>2. CASE x \in Named
  <2>1. PICK name \in d.inventory : x = Sample(name, i, <<d.map>>, 1, <<pos, 0>>)
    BY <1>2
  <2> QED
    BY <2>1, SampleFields DEF IsSingle, SingleMetrics
<1>3. CASE x \in Lengths
  <2>1. PICK k \in DOMAIN d.lengths :
          x = Sample("link_length_meters", i, <<d.map, d.lengths[k]>>, 1, <<pos, k>>)
    BY <1>3
  <2> QED
    BY <2>1, SampleFields DEF IsLength
<1>4. ASSUME NEW name \in {"module_status", "module_low_power_status"}, NEW label,
             x = Status(name, label)
      PROVE  Stands(x, i, x.pos) /\ IsSingle(x, d, pos)
  BY <1>4, SampleFields DEF IsSingle, SingleMetrics
<1> HIDE DEF Status, Named, Lengths
<1> QED
  BY <1>1, <1>2, <1>3, <1>4

LEMMA EmissionShape ==
  ASSUME NEW i, NEW d, NEW pos, NEW x \in Emission(i, d, pos)
  PROVE  /\ Stands(x, i, x.pos)
         /\ \/ IsSingle(x, d, pos) \/ IsLength(x, d, pos) \/ IsLaneSample(x, i, d, pos)
            \/ IsThreshold(x, d, pos) \/ IsAlarm(x, d, pos)
<1> DEFINE Info == Sample("module_info", i, <<d.map>>, 1, <<pos, 0>>)
           Gauges == {Sample(name, i, <<d.map>>, 1, <<pos, 0>>) : name \in d.gauges}
           Lanes == UNION {LaneSamples(i, d.map, d.lanes[k], <<pos, k>>) : k \in DOMAIN d.lanes}
           Limits == {Sample("diagnostic_threshold", i,
                             <<d.map, d.thresholds[k].name, d.thresholds[k].lane>>, 1, <<pos, k>>) :
                        k \in DOMAIN d.thresholds}
           Statuses == {Sample("alarm_status", i, <<d.map, d.alarms[k].name, d.alarms[k].lane>>,
                               d.alarms[k].active, <<pos, k>>) : k \in DOMAIN d.alarms}
<1>1. Emission(i, d, pos) =
        UNION {{Info}, Inventory(i, d, pos), Gauges, Lanes, Limits, Statuses}
  BY Zenon DEF Emission
<1>2. CASE x = Info
  BY <1>2, SampleFields DEF IsSingle, SingleMetrics
<1>3. CASE x \in Gauges
  <2>1. PICK name \in d.gauges : x = Sample(name, i, <<d.map>>, 1, <<pos, 0>>)
    BY <1>3
  <2> QED
    BY <2>1, SampleFields DEF IsSingle, SingleMetrics
<1>4. CASE x \in Lanes
  <2>1. PICK k \in DOMAIN d.lanes : x \in LaneSamples(i, d.map, d.lanes[k], <<pos, k>>)
    BY <1>4
  <2>2. Stands(x, i, <<pos, k>>)
    BY <2>1, LaneShape
  <2>3. x.pos = <<pos, k>>
    BY <2>2, SampleFields DEF Stands
  <2> QED
    BY <2>1, <2>2, <2>3, Zenon DEF IsLaneSample
<1>5. CASE x \in Limits
  <2>1. PICK k \in DOMAIN d.thresholds :
          x = Sample("diagnostic_threshold", i,
                     <<d.map, d.thresholds[k].name, d.thresholds[k].lane>>, 1, <<pos, k>>)
    BY <1>5
  <2> QED
    BY <2>1, SampleFields DEF IsThreshold
<1>6. CASE x \in Statuses
  <2>1. PICK k \in DOMAIN d.alarms :
          x = Sample("alarm_status", i, <<d.map, d.alarms[k].name, d.alarms[k].lane>>,
                     d.alarms[k].active, <<pos, k>>)
    BY <1>6
  <2> QED
    BY <2>1, SampleFields DEF IsAlarm
<1> HIDE DEF Info, Gauges, Lanes, Limits, Statuses
<1>7. \/ x = Info \/ x \in Inventory(i, d, pos) \/ x \in Gauges
      \/ x \in Lanes \/ x \in Limits \/ x \in Statuses
  BY <1>1, Zenon
<1> QED
  BY <1>2, <1>3, <1>4, <1>5, <1>6, <1>7, InventoryShape, Zenon

\* Every sample of a visit is of the interface visited.
LEMMA SaidIface ==
  ASSUME NEW f, NEW i, NEW visit, NEW pos, NEW x \in Said(f, i, visit, pos)
  PROVE  x.iface = i
<1>1. \A val : \A y \in ScrapeSuccess(i, val, pos) : y.iface = i
  BY SampleFields DEF ScrapeSuccess
<1>2. ASSUME NEW d, NEW y \in Emission(i, d, pos)
      PROVE  y.iface = i
  <2>1. Stands(y, i, y.pos)
    BY EmissionShape
  <2> QED
    BY <2>1, SampleFields DEF Stands
<1> QED
  BY <1>1, <1>2 DEF Said

\* The parameterised form is the one of the collector.
LEMMA SaidIsEmitted ==
  ASSUME NEW i, NEW visit, NEW pos
  PROVE  Emitted(i, visit, pos) = Said(flags, i, visit, pos)
BY DEF Emitted, Said, AutoDiscovered

-----------------------------------------------------------------------------
(***************************************************************************)
(* What each statement of Collect does to one scrape.                      *)
(***************************************************************************)
LEMMA Begins ==
  ASSUME NEW f
  PROVE  ScrapeOK(f, "list", <<>>, 1, {}, "none", <<>>)
<1>1. SaidSoFar(f, <<>>, 1, <<>>) = {}
  BY DEF SaidSoFar
<1>2. IsInjective(<<>>)
  BY DEF IsInjective
<1> QED
  BY <1>1, <1>2 DEF ScrapeOK, Undecided

LEMMA Lists ==
  ASSUME NEW f \in FlagLists, NEW l, NEW n, NEW o, NEW r, NEW v, NEW found \in Seq(Physical),
         IsInjective(found), ScrapeOK(f, "list", l, n, o, r, v)
  PROVE  ScrapeOK(f, "loop", IF f = <<>> THEN found ELSE f, n, o, r, v)
<1> DEFINE listed == IF f = <<>> THEN found ELSE f
<1>1. l = <<>> /\ n = 1 /\ v = <<>> /\ r = "none"
  BY DEF ScrapeOK
<1>2. listed \in Seq(Interfaces) /\ Len(listed) \in Nat
  BY CollectorAssumption
<1>3. SaidSoFar(f, listed, n, v) = {} /\ SaidSoFar(f, l, n, v) = {}
  BY <1>1 DEF SaidSoFar
<1>4. o = SaidSoFar(f, listed, n, v)
  BY <1>3 DEF ScrapeOK
<1>5. f # <<>> => listed = f
  OBVIOUS
<1>6. f = <<>> => IsInjective(listed) /\ listed \in Seq(Physical)
  OBVIOUS
<1> HIDE DEF listed
<1>7. ScrapeOK(f, "loop", listed, n, o, r, v)
  BY <1>1, <1>2, <1>4, <1>5, <1>6 DEF ScrapeOK, Undecided
<1> QED
  BY <1>7 DEF listed

LEMMA DiscoveryFails ==
  ASSUME NEW l, NEW n, NEW o, NEW r, NEW v, ScrapeOK(<<>>, "list", l, n, o, r, v)
  PROVE  ScrapeOK(<<>>, "gathered", l, n, o, r, v)
BY DEF ScrapeOK, Undecided

LEMMA VisitSaid ==
  ASSUME NEW f, NEW l \in Seq(Interfaces), NEW n \in 1 .. Len(l), NEW v \in Seq(VisitRecords),
         Len(v) = n - 1, NEW visit \in VisitRecords
  PROVE  SaidSoFar(f, l, n + 1, Append(v, visit)) =
           SaidSoFar(f, l, n, v) \cup Said(f, l[n], visit, n)
<1> DEFINE w == Append(v, visit)
<1>1. \A p \in 1 .. n - 1 : w[p] = v[p]
  OBVIOUS
<1>2. w[n] = visit
  OBVIOUS
<1>3. 1 .. (n + 1) - 1 = (1 .. n - 1) \cup {n}
  OBVIOUS
<1> HIDE DEF w
<1> DEFINE Now(p) == Said(f, l[p], w[p], p)
           Before(p) == Said(f, l[p], v[p], p)
<1>4. Now(n) = Said(f, l[n], visit, n)
  BY <1>2
<1>5. ASSUME NEW p \in 1 .. n - 1
      PROVE  Now(p) = Before(p)
  BY <1>1
<1>6. SaidSoFar(f, l, n + 1, w) = UNION {Now(p) : p \in 1 .. (n + 1) - 1}
  BY Zenon DEF SaidSoFar
<1>7. SaidSoFar(f, l, n, v) = UNION {Before(p) : p \in 1 .. n - 1}
  BY Zenon DEF SaidSoFar
<1> HIDE DEF Now, Before
<1>8. UNION {Now(p) : p \in 1 .. (n + 1) - 1} = (UNION {Before(p) : p \in 1 .. n - 1}) \cup Now(n)
  <2>1. \A x : x \in UNION {Now(p) : p \in 1 .. (n + 1) - 1} <=>
                 x \in Now(n) \/ \E p \in 1 .. n - 1 : x \in Now(p)
    BY <1>3, Zenon
  <2>2. \A x : x \in UNION {Before(p) : p \in 1 .. n - 1} <=>
                 \E p \in 1 .. n - 1 : x \in Before(p)
    BY Zenon
  <2>3. \A x : x \in UNION {Now(p) : p \in 1 .. (n + 1) - 1} <=>
                 x \in (UNION {Before(p) : p \in 1 .. n - 1}) \cup Now(n)
    BY <1>5, <2>1, <2>2, Zenon
  <2> QED
    BY <2>3, Zenon
<1>9. SaidSoFar(f, l, n + 1, w) = SaidSoFar(f, l, n, v) \cup Said(f, l[n], visit, n)
  BY <1>4, <1>6, <1>7, <1>8, Zenon
<1> QED
  BY <1>9 DEF w

LEMMA VisitKeeps ==
  ASSUME NEW f, NEW l, NEW n, NEW o, NEW r, NEW v, NEW visit \in VisitRecords,
         ScrapeOK(f, "loop", l, n, o, r, v), n <= Len(l), Explained(l[n], visit), Sound(visit)
  PROVE  ScrapeOK(f, "loop", l, n + 1, o \cup Said(f, l[n], visit, n), r, Append(v, visit))
<1> DEFINE w == Append(v, visit)
<1>1. l \in Seq(Interfaces) /\ v \in Seq(VisitRecords) /\ Len(v) = n - 1 /\ n \in 1 .. Len(l)
  BY DEF ScrapeOK
<1>2. w \in Seq(VisitRecords) /\ Len(w) = (n + 1) - 1 /\ n + 1 \in 1 .. Len(l) + 1
  BY <1>1
<1>3. DOMAIN w = DOMAIN v \cup {n} /\ w[n] = visit /\ \A p \in DOMAIN v : w[p] = v[p]
  BY <1>1
<1>4. o \cup Said(f, l[n], visit, n) = SaidSoFar(f, l, n + 1, w)
  BY <1>1, VisitSaid DEF ScrapeOK
<1> HIDE DEF w
<1>5. \A p \in DOMAIN w : Explained(l[p], w[p]) /\ Sound(w[p])
  <2>1. \A p \in DOMAIN v : Explained(l[p], v[p]) /\ Sound(v[p])
    BY Zenon DEF ScrapeOK
  <2>2. TAKE p \in DOMAIN w
  <2>3. CASE p \in DOMAIN v
    BY <1>3, <2>1, <2>3
  <2>4. CASE p = n
    BY <1>3, <2>4
  <2> QED
    BY <1>3, <2>3, <2>4
<1>6. ScrapeOK(f, "loop", l, n + 1, o \cup Said(f, l[n], visit, n), r, w)
  BY <1>1, <1>2, <1>4, <1>5 DEF ScrapeOK, Undecided
<1> QED
  BY <1>6 DEF w

LEMMA LoopEnds ==
  ASSUME NEW f, NEW l, NEW n, NEW o, NEW r, NEW v,
         ScrapeOK(f, "loop", l, n, o, r, v), n > Len(l)
  PROVE  ScrapeOK(f, "gathered", l, n, o, r, v)
BY DEF ScrapeOK, Undecided

LEMMA Responds ==
  ASSUME NEW f, NEW l, NEW n, NEW o, NEW r, NEW v,
         ScrapeOK(f, "gathered", l, n, o, r, v)
  PROVE  ScrapeOK(f, "idle", l, n, o, IF Consistent(o) THEN "200" ELSE "500", v)
BY DEF ScrapeOK, Undecided

LEMMA Loses ==
  ASSUME NEW f, NEW c, NEW l, NEW n, NEW o, NEW r, NEW v,
         ScrapeOK(f, c, l, n, o, r, v), c # "idle"
  PROVE  ScrapeOK(f, "idle", l, n, o, "lost", v)
BY DEF ScrapeOK, Undecided

-----------------------------------------------------------------------------
(***************************************************************************)
(* The inductive invariant.                                                *)
(***************************************************************************)
\* The scrapes other than s are as they were.
OthersKept(s) ==
  \A t \in Scrapes \ {s} :
    /\ pc'[t] = pc[t] /\ list'[t] = list[t] /\ at'[t] = at[t]
    /\ out'[t] = out[t] /\ status'[t] = status[t] /\ saw'[t] = saw[t]

\* A step of one scrape keeps the invariant if it keeps that scrape's part.
LEMMA OneScrape ==
  ASSUME KInv, NEW s \in Scrapes, UNCHANGED env, OthersKept(s),
         pc' = [t \in Scrapes |-> pc'[t]], list' = [t \in Scrapes |-> list'[t]],
         at' = [t \in Scrapes |-> at'[t]], out' = [t \in Scrapes |-> out'[t]],
         status' = [t \in Scrapes |-> status'[t]], saw' = [t \in Scrapes |-> saw'[t]],
         ScrapeOK(flags, pc'[s], list'[s], at'[s], out'[s], status'[s], saw'[s])
  PROVE  KInv'
<1>1. ASSUME NEW t \in Scrapes
      PROVE  ScrapeOK(flags', pc'[t], list'[t], at'[t], out'[t], status'[t], saw'[t])
  <2>1. flags' = flags
    BY DEF env
  <2>2. CASE t = s
    BY <2>1, <2>2
  <2>3. CASE t # s
    <3>1. ScrapeOK(flags, pc[t], list[t], at[t], out[t], status[t], saw[t])
      BY DEF KInv
    <3> QED
      BY <2>1, <2>3, <3>1 DEF OthersKept
  <2> QED
    BY <2>2, <2>3
<1>2. /\ flags' \in FlagLists
      /\ plugged' \in [Cages -> Modules \cup {NoModule}]
      /\ present' \subseteq Interfaces
      /\ events' \in 0 .. MaxEvents
  BY DEF KInv, env
<1> QED
  BY <1>1, <1>2 DEF KInv

LEMMA KInit == Init => KInv
<1> SUFFICES ASSUME Init PROVE KInv
  OBVIOUS
<1>1. ASSUME NEW s \in Scrapes
      PROVE  ScrapeOK(flags, pc[s], list[s], at[s], out[s], status[s], saw[s])
  <2>1. ScrapeOK(flags, "list", <<>>, 1, {}, "none", <<>>)
    BY Begins
  <2>2. ScrapeOK(flags, "idle", <<>>, 1, {}, "none", <<>>)
    BY <2>1 DEF ScrapeOK
  <2>3. /\ pc[s] = "idle" /\ list[s] = <<>> /\ at[s] = 1
        /\ out[s] = {} /\ status[s] = "none" /\ saw[s] = <<>>
    BY DEF Init
  <2> QED
    BY <2>2, <2>3
<1>2. /\ flags \in FlagLists
      /\ plugged \in [Cages -> Modules \cup {NoModule}]
      /\ present \subseteq Interfaces
      /\ events \in 0 .. MaxEvents
  BY CollectorAssumption DEF Init
<1> QED
  BY <1>1, <1>2 DEF Init, KInv

LEMMA EnvStep ==
  ASSUME KInv,
         \/ \E i \in Cages, m \in Modules \cup {NoModule} : Swap(i, m)
         \/ \E i \in Interfaces : DeviceComesOrGoes(i)
  PROVE  KInv'
<1>1. UNCHANGED <<flags, pc, list, at, out, status, saw>>
  BY DEF Swap, DeviceComesOrGoes
<1>2. /\ plugged' \in [Cages -> Modules \cup {NoModule}]
      /\ present' \subseteq Interfaces
      /\ events' \in 0 .. MaxEvents
  BY CollectorAssumption DEF KInv, Swap, DeviceComesOrGoes
<1> QED
  BY <1>1, <1>2 DEF KInv

LEMMA BeginStep ==
  ASSUME KInv, NEW s \in Scrapes, Begin(s)
  PROVE  KInv'
<1>1. /\ pc'[s] = "list" /\ list'[s] = <<>> /\ at'[s] = 1
      /\ out'[s] = {} /\ status'[s] = "none" /\ saw'[s] = <<>>
  BY DEF KInv, Begin
<1>2. ScrapeOK(flags, pc'[s], list'[s], at'[s], out'[s], status'[s], saw'[s])
  BY <1>1, Begins
<1>3. OthersKept(s)
  BY DEF KInv, Begin, OthersKept
<1>4. /\ pc' = [t \in Scrapes |-> pc'[t]] /\ list' = [t \in Scrapes |-> list'[t]]
      /\ at' = [t \in Scrapes |-> at'[t]] /\ out' = [t \in Scrapes |-> out'[t]]
      /\ status' = [t \in Scrapes |-> status'[t]] /\ saw' = [t \in Scrapes |-> saw'[t]]
  <2>1. \A g, h, x : g = [t \in Scrapes |-> g[t]] /\ h = [g EXCEPT ![s] = x]
                       => h = [t \in Scrapes |-> h[t]]
    OBVIOUS
  <2>2. pc' = [t \in Scrapes |-> pc'[t]] /\ list' = [t \in Scrapes |-> list'[t]]
    BY <2>1, Zenon DEF KInv, Begin
  <2>3. at' = [t \in Scrapes |-> at'[t]] /\ out' = [t \in Scrapes |-> out'[t]]
    BY <2>1, Zenon DEF KInv, Begin
  <2>4. status' = [t \in Scrapes |-> status'[t]] /\ saw' = [t \in Scrapes |-> saw'[t]]
    BY <2>1, Zenon DEF KInv, Begin
  <2> QED
    BY <2>2, <2>3, <2>4
<1>5. UNCHANGED env
  BY DEF Begin
<1> QED
  BY <1>2, <1>3, <1>4, <1>5, OneScrape

LEMMA ListStep ==
  ASSUME KInv, NEW s \in Scrapes, ListInterfaces(s)
  PROVE  KInv'
<1>1. /\ at' = at /\ out' = out /\ status' = status /\ saw' = saw
      /\ pc[s] = "list" /\ UNCHANGED env
  BY DEF ListInterfaces, env
<1>2. ScrapeOK(flags, "list", list[s], at[s], out[s], status[s], saw[s]) /\ flags \in FlagLists
  BY <1>1 DEF KInv
<1>3. ScrapeOK(flags, pc'[s], list'[s], at'[s], out'[s], status'[s], saw'[s])
  <2>1. CASE /\ list' = [list EXCEPT ![s] = IF AutoDiscovered THEN CandidateNames ELSE flags]
             /\ pc' = [pc EXCEPT ![s] = "loop"]
    <3>1. CandidateNames \in Seq(Physical) /\ IsInjective(CandidateNames)
      <4>1. IsFiniteSet(Physical \cap present)
        BY CollectorAssumption, FS_Subset
      <4>2. CandidateNames \in Seq(Physical \cap present) /\ IsInjective(CandidateNames)
        BY <4>1, ListedOnce DEF CandidateNames
      <4>3. Seq(Physical \cap present) \subseteq Seq(Physical)
        OBVIOUS
      <4> QED
        BY <4>2, <4>3
    <3>2. /\ pc'[s] = "loop"
          /\ list'[s] = IF flags = <<>> THEN CandidateNames ELSE flags
      BY <2>1 DEF KInv, AutoDiscovered
    <3> HIDE DEF CandidateNames
    <3>3. ScrapeOK(flags, "loop", IF flags = <<>> THEN CandidateNames ELSE flags,
                   at[s], out[s], status[s], saw[s])
      BY <1>2, <3>1, Lists
    <3> QED
      BY <1>1, <3>2, <3>3
  <2>2. CASE AutoDiscovered /\ pc' = [pc EXCEPT ![s] = "gathered"] /\ UNCHANGED list
    <3>1. pc'[s] = "gathered" /\ flags = <<>>
      BY <2>2 DEF KInv, AutoDiscovered
    <3> QED
      BY <1>1, <1>2, <2>2, <3>1, DiscoveryFails
  <2> QED
    BY <2>1, <2>2 DEF ListInterfaces
<1>4. OthersKept(s)
  BY DEF KInv, ListInterfaces, OthersKept
<1> QED
  BY <1>1, <1>3, <1>4, OneScrape DEF KInv, ListInterfaces

LEMMA VisitStep ==
  ASSUME KInv, NEW s \in Scrapes, Visit(s)
  PROVE  KInv'
<1>1. /\ pc' = pc /\ list' = list /\ status' = status /\ UNCHANGED env
      /\ pc[s] = "loop" /\ at[s] <= Len(list[s]) /\ at' = [at EXCEPT ![s] = @ + 1]
  BY DEF Visit, env
<1>2. PICK visit \in Visits(list[s][at[s]]) :
        /\ out' = [out EXCEPT ![s] = @ \cup Emitted(list[s][at[s]], visit, at[s])]
        /\ saw' = [saw EXCEPT ![s] = Append(@, visit)]
  BY DEF Visit
<1>3. ScrapeOK(flags, "loop", list[s], at[s], out[s], status[s], saw[s])
  BY <1>1 DEF KInv
<1>4. list[s][at[s]] \in Interfaces
  BY <1>1, <1>3 DEF ScrapeOK
<1>5. visit \in VisitRecords /\ Explained(list[s][at[s]], visit) /\ Sound(visit)
  BY <1>4, VisitType DEF KInv
<1>6. /\ at'[s] = at[s] + 1
      /\ out'[s] = out[s] \cup Said(flags, list[s][at[s]], visit, at[s])
      /\ saw'[s] = Append(saw[s], visit)
  <2>1. out'[s] = out[s] \cup Emitted(list[s][at[s]], visit, at[s])
    BY <1>2 DEF KInv
  <2> QED
    BY <1>1, <1>2, <2>1, SaidIsEmitted DEF KInv
<1>7. ScrapeOK(flags, "loop", list[s], at[s] + 1,
               out[s] \cup Said(flags, list[s][at[s]], visit, at[s]), status[s],
               Append(saw[s], visit))
  BY <1>1, <1>3, <1>5, VisitKeeps
<1>8. ScrapeOK(flags, pc'[s], list'[s], at'[s], out'[s], status'[s], saw'[s])
  BY <1>1, <1>6, <1>7
<1>9. OthersKept(s)
  BY <1>1, <1>2 DEF KInv, OthersKept
<1>10. /\ pc' = [t \in Scrapes |-> pc'[t]] /\ list' = [t \in Scrapes |-> list'[t]]
       /\ at' = [t \in Scrapes |-> at'[t]] /\ out' = [t \in Scrapes |-> out'[t]]
       /\ status' = [t \in Scrapes |-> status'[t]] /\ saw' = [t \in Scrapes |-> saw'[t]]
  <2>1. \A g, h, x : g = [t \in Scrapes |-> g[t]] /\ h = [g EXCEPT ![s] = x]
                       => h = [t \in Scrapes |-> h[t]]
    OBVIOUS
  <2>2. at' = [t \in Scrapes |-> at'[t]]
    BY <1>1, <2>1, Zenon DEF KInv
  <2>3. out' = [t \in Scrapes |-> out'[t]] /\ saw' = [t \in Scrapes |-> saw'[t]]
    BY <1>2, <2>1, Zenon DEF KInv
  <2> QED
    BY <1>1, <2>2, <2>3 DEF KInv
<1> QED
  BY <1>1, <1>8, <1>9, <1>10, OneScrape

LEMMA EndStep ==
  ASSUME KInv, NEW s \in Scrapes, EndLoop(s) \/ Respond(s)
  PROVE  KInv'
<1>1. ScrapeOK(flags, pc[s], list[s], at[s], out[s], status[s], saw[s])
  BY DEF KInv
<1>2. ScrapeOK(flags, pc'[s], list'[s], at'[s], out'[s], status'[s], saw'[s])
  <2>1. CASE EndLoop(s)
    <3>1. /\ list' = list /\ at' = at /\ out' = out /\ status' = status /\ saw' = saw
          /\ pc[s] = "loop" /\ at[s] > Len(list[s]) /\ pc'[s] = "gathered"
      BY <2>1 DEF KInv, EndLoop
    <3> QED
      BY <1>1, <3>1, LoopEnds
  <2>2. CASE Respond(s)
    <3>1. /\ list' = list /\ at' = at /\ out' = out /\ saw' = saw
          /\ pc[s] = "gathered" /\ pc'[s] = "idle"
          /\ status'[s] = IF Consistent(out[s]) THEN "200" ELSE "500"
      BY <2>2 DEF KInv, Respond
    <3> QED
      BY <1>1, <3>1, Responds
  <2> QED
    BY <2>1, <2>2
<1>3. OthersKept(s)
  BY DEF KInv, EndLoop, Respond, OthersKept
<1> QED
  BY <1>2, <1>3, OneScrape DEF KInv, EndLoop, Respond, env

LEMMA PanicStep ==
  ASSUME KInv, NEW s \in Scrapes, Panic(s)
  PROVE  KInv'
<1>1. /\ pc' = [t \in Scrapes |-> "idle"]
      /\ status' = [t \in Scrapes |-> IF pc[t] = "idle" THEN status[t] ELSE "lost"]
      /\ UNCHANGED <<flags, plugged, present, events, list, at, out, saw>>
  BY DEF Panic
<1>2. ASSUME NEW t \in Scrapes
      PROVE  ScrapeOK(flags', pc'[t], list'[t], at'[t], out'[t], status'[t], saw'[t])
  <2>1. ScrapeOK(flags, pc[t], list[t], at[t], out[t], status[t], saw[t])
    BY DEF KInv
  <2>2. CASE pc[t] = "idle"
    BY <1>1, <2>1, <2>2
  <2>3. CASE pc[t] # "idle"
    BY <1>1, <2>1, <2>3, Loses
  <2> QED
    BY <2>2, <2>3
<1>3. /\ flags' \in FlagLists
      /\ plugged' \in [Cages -> Modules \cup {NoModule}]
      /\ present' \subseteq Interfaces
      /\ events' \in 0 .. MaxEvents
  BY <1>1 DEF KInv
<1>4. /\ DOMAIN pc' = Scrapes /\ pc' = [t \in Scrapes |-> pc'[t]]
      /\ status' = [t \in Scrapes |-> status'[t]]
  BY <1>1
<1> QED
  BY <1>1, <1>2, <1>3, <1>4 DEF KInv

LEMMA KStep == KInv /\ [Next]_vars => KInv'
<1> SUFFICES ASSUME KInv, [Next]_vars PROVE KInv'
  OBVIOUS
<1>1. CASE UNCHANGED vars
  BY <1>1 DEF KInv, vars
<1>2. CASE \/ \E i \in Cages, m \in Modules \cup {NoModule} : Swap(i, m)
           \/ \E i \in Interfaces : DeviceComesOrGoes(i)
  BY <1>2, EnvStep
<1>3. CASE \E s \in Scrapes : Begin(s) \/ Step(s)
  BY <1>3, BeginStep, ListStep, VisitStep, PanicStep, EndStep DEF Step
<1> QED
  BY <1>1, <1>2, <1>3 DEF Next

\* Whatever a scrape has sent is what its visits so far say, in the order of its list,
\* and the list is that of the flags or of one discovery (Collect, collector.go:239-272).
THEOREM CollectorInvariance == Spec => []KInv
BY KInit, KStep, PTL DEF Spec

-----------------------------------------------------------------------------
(***************************************************************************)
(* What follows for the pages served.                                      *)
(***************************************************************************)
\* A loop position stays within one of the end of its list, and every visit made has
\* left its record (collector.go:251).
THEOREM TypeCorrect == Spec => []TypeOK
<1>1. KInv => TypeOK
  <2> SUFFICES ASSUME KInv PROVE TypeOK
    OBVIOUS
  <2>1. ASSUME NEW s \in Scrapes
        PROVE  /\ pc[s] \in Undecided \cup {"idle"}
               /\ list[s] \in Seq(Interfaces)
               /\ at[s] \in 1 .. Len(list[s]) + 1
               /\ Len(saw[s]) = at[s] - 1
               /\ status[s] \in {"none", "200", "500", "lost"}
    BY DEF KInv, ScrapeOK
  <2> QED
    BY <2>1 DEF KInv, TypeOK
<1> QED
  BY <1>1, CollectorInvariance, PTL

\* Every visit of a scrape over --interface flags leaves a verdict.
LEMMA ExplicitSays ==
  ASSUME NEW f, NEW i, NEW visit, NEW pos, f # <<>>
  PROVE  \E x \in Said(f, i, visit, pos) : x.iface = i /\ x.name = "scrape_success"
<1>1. \A ok : \E x \in ScrapeSuccess(i, ok, pos) : x.iface = i /\ x.name = "scrape_success"
  BY DEF ScrapeSuccess, Sample
<1> QED
  BY <1>1 DEF Said

\* A served page has a verdict on every interface named by a flag, whatever became of
\* the device (collector.go:254).
THEOREM FlagsAreJudged == Spec => []ExplicitAlwaysJudged
<1>1. KInv => ExplicitAlwaysJudged
  <2> SUFFICES ASSUME KInv, NEW s \in Scrapes, Served(s), NEW p \in DOMAIN flags
               PROVE  Successes(flags[p], Page(s)) # {}
    BY DEF ExplicitAlwaysJudged
  <2>1. ScrapeOK(flags, pc[s], list[s], at[s], out[s], status[s], saw[s])
    BY DEF KInv
  <2>2. flags \in Seq(Interfaces) /\ flags # <<>>
    BY CollectorAssumption DEF KInv
  <2>3. list[s] = flags /\ at[s] > Len(flags) /\ at[s] \in Nat
    BY <2>1, <2>2 DEF ScrapeOK, Served
  <2>4. p \in 1 .. at[s] - 1
    BY <2>2, <2>3
  <2>5. PICK x \in Said(flags, flags[p], saw[s][p], p) :
          x.iface = flags[p] /\ x.name = "scrape_success"
    BY <2>2, ExplicitSays
  <2>6. out[s] = SaidSoFar(flags, flags, at[s], saw[s])
    BY <2>1, <2>3 DEF ScrapeOK
  <2>7. x \in Page(s)
    BY <2>4, <2>5, <2>6, Zenon DEF SaidSoFar, Page
  <2> QED
    BY <2>5, <2>7 DEF Successes, Mine
<1> QED
  BY <1>1, CollectorInvariance, PTL

\* Auto-discovery says nothing of a device without module access, of a virtual device
\* or of one that was gone when its turn came (collector.go:54, 254).
THEOREM UnsupportedIsSilent == Spec => []UnsupportedStaysSilent
<1>1. KInv => UnsupportedStaysSilent
  <2> SUFFICES ASSUME KInv, NEW s \in Scrapes, Served(s), AutoDiscovered, NEW i \in Interfaces,
                      \/ Supports[i] \cap ReaderPaths = {}
                      \/ i \notin Physical
                      \/ \E q \in DOMAIN saw[s] : list[s][q] = i /\ saw[s][q].errs = {"ENODEV"},
                      NEW x \in Mine(i, Page(s))
               PROVE  FALSE
    BY DEF UnsupportedStaysSilent
  <2>1. ScrapeOK(<<>>, pc[s], list[s], at[s], out[s], status[s], saw[s])
    BY DEF KInv, AutoDiscovered
  <2>2. x \in SaidSoFar(<<>>, list[s], at[s], saw[s]) /\ x.iface = i
    BY <2>1 DEF ScrapeOK, Mine, Page, Served
  <2>3. PICK p \in 1 .. at[s] - 1 : x \in Said(<<>>, list[s][p], saw[s][p], p)
    BY <2>2 DEF SaidSoFar
  <2>4. list[s][p] = i
    BY <2>2, <2>3, SaidIface
  <2>5. DOMAIN saw[s] = 1 .. at[s] - 1 /\ p \in DOMAIN saw[s] /\ p \in DOMAIN list[s]
    BY <2>1, <2>3 DEF ScrapeOK
  <2>6. saw[s][p].kind # "error" \/ ~ IsUnsupportedModuleError(saw[s][p].errs)
    BY <2>3 DEF Said
  <2>7. CASE Supports[i] \cap ReaderPaths = {}
    BY <2>1, <2>4, <2>5, <2>6, <2>7 DEF ScrapeOK, Explained
  <2>8. CASE i \notin Physical
    BY <2>1, <2>4, <2>5, <2>8 DEF ScrapeOK
  <2>9. CASE \E q \in DOMAIN saw[s] : list[s][q] = i /\ saw[s][q].errs = {"ENODEV"}
    <3>1. PICK q \in DOMAIN saw[s] : list[s][q] = i /\ saw[s][q].errs = {"ENODEV"}
      BY <2>9
    <3>2. q \in DOMAIN list[s]
      BY <2>1, <3>1 DEF ScrapeOK
    <3>3. q = p
      BY <2>1, <2>4, <2>5, <3>1, <3>2 DEF ScrapeOK, IsInjective
    <3> QED
      BY <2>1, <2>5, <2>6, <3>1, <3>3 DEF ScrapeOK, Sound, IsUnsupportedModuleError
  <2> QED
    BY <2>7, <2>8, <2>9
<1> QED
  BY <1>1, CollectorInvariance, PTL
=============================================================================
