-------------------------- MODULE MonitoringProofs --------------------------
(***************************************************************************)
(* Proofs about Monitoring for any interfaces, modules, signs and times:   *)
(* the alerts that fire are those there is cause for.  The argument is     *)
(* that the results of the rules over the last scrape lie between what the *)
(* scrape had to tell and what there was a ground for, so the evaluations  *)
(* an alert is held for lie between the two counts.                        *)
(***************************************************************************)
EXTENDS Monitoring, TLAPS

MInv ==
  /\ TypeOK
  /\ Results(samples) \subseteq grounds
  /\ told \subseteq Results(samples)
  /\ \A a \in grounds \cup DOMAIN just : a.rule \in Rules
  /\ \A a \in DOMAIN held : a \in DOMAIN just /\ just[a] > held[a]
  /\ \A a \in DOMAIN due : a \in DOMAIN held /\ held[a] + 1 >= due[a]

\* The interfaces whose module is described on a page, the names they go by, the page
\* and its grounds.
Described(outcome) == {i \in Interfaces : outcome[i] \in Read}
NameOn(i, outcome) == IF outcome[i] = "blank" THEN Unknown ELSE plugged[i]
GroundsOf(outcome) == Grounds \cup UNION {GroundsOfRead(i, outcome[i]) : i \in Interfaces}
PageOf(outcome) == Up(1) \cup UNION {Visited(i, outcome[i]) : i \in Interfaces}

-----------------------------------------------------------------------------
(***************************************************************************)
(* What is on a page.                                                      *)
(***************************************************************************)
\* Each set of samples the collector emits is of its own metrics.
LEMMA MetricNames ==
  ASSUME NEW i, NEW m, NEW outcome
  PROVE  /\ \A x \in AlarmSamples(i, m, outcome) : x.name = "alarm_status"
         /\ \A x \in LaneSamples(i, m, outcome) : x.name = "lane_datapath_state"
         /\ \A x \in StatusSamples(i, m) :
               x.name \in {"module_status", "module_low_power_status"}
         /\ \A val : ScrapeSuccess(i, val).name = "scrape_success"
         /\ \A val : \A x \in Up(val) : x.name = "up"
<1>1. \A x \in AlarmSamples(i, m, outcome) : x.name = "alarm_status"
  BY DEF AlarmSamples, Sample
<1>2. ASSUME NEW x \in LaneSamples(i, m, outcome)
      PROVE  x.name = "lane_datapath_state"
  <2>1. PICK label, lane : x = Sample("lane_datapath_state", i, Format[m], label, "", lane, 1)
    BY <1>2 DEF LaneSamples
  <2> QED
    BY <2>1 DEF Sample
<1>3. ASSUME NEW x \in StatusSamples(i, m)
      PROVE  x.name \in {"module_status", "module_low_power_status"}
  <2>1. PICK label, val :
          \/ x = Sample("module_status", i, Format[m], label, "", 0, val)
          \/ x = Sample("module_low_power_status", i, Format[m], label, "", 0, val)
    BY <1>3 DEF StatusSamples
  <2>2. CASE x = Sample("module_status", i, Format[m], label, "", 0, val)
    BY <2>2 DEF Sample
  <2>3. CASE x = Sample("module_low_power_status", i, Format[m], label, "", 0, val)
    BY <2>3 DEF Sample
  <2> QED
    BY <2>1, <2>2, <2>3
<1>4. \A val : ScrapeSuccess(i, val).name = "scrape_success"
  BY DEF ScrapeSuccess, Sample
<1>5. ASSUME NEW val, NEW x \in Up(val)
      PROVE  x.name = "up"
  <2>1. x = Sample("up", Target, "", "", "", 0, val)
    BY DEF Up
  <2> QED
    BY <2>1 DEF Sample
<1> QED
  BY <1>1, <1>2, <1>3, <1>4, <1>5

\* What a scrape says of one interface, metric by metric.
LEMMA VisitedNames ==
  ASSUME NEW i, NEW outcome \in Outcomes, NEW x
  PROVE  /\ x \in Visited(i, outcome) => x.name # "up"
         /\ x \in Visited(i, outcome) /\ x.name = "scrape_success" /\ outcome \in Read =>
              x = ScrapeSuccess(i, 1)
         /\ outcome = "failed" => ScrapeSuccess(i, 0) \in Visited(i, outcome)
         /\ x \in Visited(i, outcome) /\ x.name = "module_info" <=>
              /\ outcome \in Read
              /\ x = Sample("module_info", i, Format[plugged[i]],
                            IF outcome = "blank" THEN Unknown ELSE plugged[i], "", 0, 1)
         /\ x \in Visited(i, outcome) /\ x.name = "alarm_status" <=>
              outcome \in Read /\ x \in AlarmSamples(i, plugged[i], outcome)
         /\ x \in Visited(i, outcome) /\ x.name = "lane_datapath_state" <=>
              outcome \in Read /\ x \in LaneSamples(i, plugged[i], outcome)
         /\ x \in Visited(i, outcome) /\ x.name \in {"module_status", "module_low_power_status"}
              <=> outcome \in Read /\ x \in StatusSamples(i, plugged[i])
<1> DEFINE info == Sample("module_info", i, Format[plugged[i]],
                          IF outcome = "blank" THEN Unknown ELSE plugged[i], "", 0, 1)
<1>1. info.name = "module_info"
  BY DEF Sample
<1>2. CASE outcome = "absent"
  BY <1>2 DEF Visited, Read
<1>3. CASE outcome = "failed"
  <2>1. Visited(i, outcome) = {ScrapeSuccess(i, 0)} /\ outcome \notin Read
    BY <1>3 DEF Visited, Read
  <2> QED
    BY <1>1, <1>3, <2>1, MetricNames
<1>4. CASE outcome \in Read
  <2>1. /\ outcome # "failed" /\ outcome # "absent"
        /\ Visited(i, outcome) =
             {ScrapeSuccess(i, 1)} \cup {info} \cup AlarmSamples(i, plugged[i], outcome)
             \cup LaneSamples(i, plugged[i], outcome) \cup StatusSamples(i, plugged[i])
    BY <1>4 DEF Visited, Observed, Read
  <2> HIDE DEF info
  <2>2. /\ \A y \in AlarmSamples(i, plugged[i], outcome) : y.name = "alarm_status"
        /\ \A y \in LaneSamples(i, plugged[i], outcome) : y.name = "lane_datapath_state"
        /\ \A y \in StatusSamples(i, plugged[i]) :
             y.name \in {"module_status", "module_low_power_status"}
        /\ ScrapeSuccess(i, 1).name = "scrape_success"
    BY MetricNames
  <2> QED
    BY <1>1, <1>4, <2>1, <2>2 DEF info
<1> QED
  BY <1>2, <1>3, <1>4 DEF Outcomes

\* A sample of a page is of the target, or of one interface.
LEMMA PageSamples ==
  ASSUME NEW outcome, NEW name, NEW x \in Named(PageOf(outcome), name), name # "up"
  PROVE  \E i \in Interfaces : x \in Visited(i, outcome[i]) /\ x.name = name
BY MetricNames DEF Named, PageOf

\* A module_info is of a described module, under its name, or Unknown if that was
\* not read.
LEMMA PageInfo ==
  ASSUME NEW outcome \in [Interfaces -> Outcomes],
         NEW x \in Named(PageOf(outcome), "module_info")
  PROVE  \E i \in Described(outcome) :
           /\ x.iface = i /\ x.format = Format[plugged[i]]
           /\ x.label = NameOn(i, outcome)
<1>1. PICK i \in Interfaces : x \in Visited(i, outcome[i]) /\ x.name = "module_info"
  BY PageSamples
<1>2. /\ outcome[i] \in Read
      /\ x = Sample("module_info", i, Format[plugged[i]],
                    NameOn(i, outcome), "", 0, 1)
  BY <1>1, VisitedNames DEF NameOn
<1> QED
  BY <1>2 DEF Described, Sample

\* An alarm_status of 1 is of a sign its module shows, or is misread.
LEMMA PageAlarm ==
  ASSUME NEW outcome \in [Interfaces -> Outcomes],
         NEW x \in Named(PageOf(outcome), "alarm_status"), x.val = 1
  PROVE  \E i \in Described(outcome) :
           \E s \in raised[i] \cup MisreadBy(plugged[i], outcome[i]) :
             /\ x.iface = i /\ x.format = Format[plugged[i]] /\ x.label = s.label
             /\ x.severity = s.severity /\ x.lane = s.lane
<1>1. PICK i \in Interfaces : x \in Visited(i, outcome[i]) /\ x.name = "alarm_status"
  BY PageSamples
<1>2. outcome[i] \in Read /\ x \in AlarmSamples(i, plugged[i], outcome[i])
  BY <1>1, VisitedNames
<1> DEFINE active1 == raised[i] \cup MisreadBy(plugged[i], outcome[i])
<1>3. PICK s \in Listed(plugged[i], outcome[i]) :
        x = Sample("alarm_status", i, Format[plugged[i]], s.label, s.severity, s.lane,
                   IF s \in active1 THEN 1 ELSE 0)
  BY <1>2 DEF AlarmSamples
<1>4. s \in active1
  <2>1. x.val = IF s \in active1 THEN 1 ELSE 0
    BY <1>3 DEF Sample
  <2> HIDE DEF active1
  <2> QED
    BY <2>1
<1> HIDE DEF active1
<1>5. /\ x.iface = i /\ x.format = Format[plugged[i]] /\ x.label = s.label
      /\ x.severity = s.severity /\ x.lane = s.lane
  BY <1>3 DEF Sample
<1> QED
  BY <1>2, <1>4, <1>5 DEF Described, active1

\* An activated lane_datapath_state is of a CMIS lane that is activated.
LEMMA PageLane ==
  ASSUME NEW outcome \in [Interfaces -> Outcomes],
         NEW x \in Named(PageOf(outcome), "lane_datapath_state"), x.label = "activated"
  PROVE  /\ Format[plugged[x.iface]] = "cmis"
         /\ x.lane \in active[x.iface] \cap Lanes[plugged[x.iface]]
<1>1. PICK i \in Interfaces : x \in Visited(i, outcome[i]) /\ x.name = "lane_datapath_state"
  BY PageSamples
<1>2. x \in LaneSamples(i, plugged[i], outcome[i])
  BY <1>1, VisitedNames
<1>3. Format[plugged[i]] = "cmis"
  BY <1>2 DEF LaneSamples
<1>4. PICK lane \in Lanes[plugged[i]] :
        x = Sample("lane_datapath_state", i, Format[plugged[i]],
                   IF lane \in active[i] THEN "activated" ELSE "deactivated", "", lane, 1)
  BY <1>2, <1>3 DEF LaneSamples
<1>5. x.iface = i /\ x.lane = lane /\ (x.label = "activated" => lane \in active[i])
  BY <1>4 DEF Sample
<1> QED
  BY <1>3, <1>5

\* A module_status of fault, and a low power request, is a sign the module shows.
LEMMA PageStatus ==
  ASSUME NEW outcome \in [Interfaces -> Outcomes],
         NEW x \in Named(PageOf(outcome), "module_status")
                   \cup Named(PageOf(outcome), "module_low_power_status")
  PROVE  \E i \in Described(outcome) :
           /\ x.iface = i /\ x.format = Format[plugged[i]] /\ x.lane = 0
           /\ x.name = "module_status" /\ x.label = "fault" =>
                [label |-> "fault", severity |-> "state", lane |-> 0] \in raised[i]
           /\ x.name = "module_low_power_status" /\ x.val = 1 =>
                [label |-> x.label, severity |-> "power", lane |-> 0] \in raised[i]
<1>1. PICK i \in Interfaces : /\ x \in Visited(i, outcome[i])
                             /\ x.name \in {"module_status", "module_low_power_status"}
  BY PageSamples
<1>2. outcome[i] \in Read /\ x \in StatusSamples(i, plugged[i])
  BY <1>1, VisitedNames
<1> DEFINE has(label, severity) ==
             [label |-> label, severity |-> severity, lane |-> 0] \in raised[i]
<1>3. \/ x = Sample("module_status", i, Format[plugged[i]],
                    IF has("fault", "state") THEN "fault" ELSE "ready", "", 0, 1)
      \/ \E source \in {"hardware", "software"} :
           x = Sample("module_low_power_status", i, Format[plugged[i]], source, "", 0,
                      IF has(source, "power") THEN 1 ELSE 0)
  BY <1>2 DEF StatusSamples
<1>4. CASE x = Sample("module_status", i, Format[plugged[i]],
                      IF has("fault", "state") THEN "fault" ELSE "ready", "", 0, 1)
  BY <1>2, <1>4 DEF Described, Sample
<1>5. ASSUME NEW source \in {"hardware", "software"},
             x = Sample("module_low_power_status", i, Format[plugged[i]], source, "", 0,
                        IF has(source, "power") THEN 1 ELSE 0)
      PROVE  /\ x.name = "module_low_power_status" /\ x.label = source
             /\ x.iface = i /\ x.format = Format[plugged[i]] /\ x.lane = 0
             /\ x.val = 1 => has(source, "power")
  <2> DEFINE val == IF has(source, "power") THEN 1 ELSE 0
  <2>1. x = Sample("module_low_power_status", i, Format[plugged[i]], source, "", 0, val)
    BY <1>5
  <2> HIDE DEF has
  <2>2. val = 1 => has(source, "power")
    OBVIOUS
  <2> HIDE DEF val
  <2> QED
    BY <2>1, <2>2 DEF Sample
<1> QED
  BY <1>2, <1>3, <1>4, <1>5 DEF Described

-----------------------------------------------------------------------------
(***************************************************************************)
(* The rules over a page.                                                  *)
(***************************************************************************)
\* What each rule makes an alert of.
LEMMA ResultKinds ==
  ASSUME NEW page, NEW a
  PROVE  a \in Results(page) <=>
           \/ \E x \in Named(page, "up") :
                x.val = 0 /\ a = Alert("ExporterDown", x.iface, "", "", 0, "")
           \/ \E x \in Named(page, "scrape_success") :
                x.val = 0 /\ a = Alert("ScrapeFailed", x.iface, "", "", 0, "")
           \/ \E severity \in Severities :
                a \in WithModuleInfo(Watching[severity], ActiveAlarms(page, severity), page)
           \/ a \in WithModuleInfo("ModuleFault",
                      {x \in Named(page, "module_status") : x.label = "fault"}, page)
           \/ a \in WithModuleInfo("ModuleLowPower",
                      {x \in Named(page, "module_low_power_status") : x.val = 1}, page)
<1>1. /\ Watching["warning"] = "WarningActive" /\ Watching["alarm"] = "AlarmActive"
      /\ Watching["fault"] = "FaultActive" /\ {"warning", "alarm", "fault"} = Severities
  BY DEF Watching, Severities
<1> DEFINE down == {Alert("ExporterDown", x.iface, "", "", 0, "") :
                      x \in {y \in Named(page, "up") : y.val = 0}}
           failed == {Alert("ScrapeFailed", x.iface, "", "", 0, "") :
                        x \in {y \in Named(page, "scrape_success") : y.val = 0}}
           of(severity) == WithModuleInfo(Watching[severity], ActiveAlarms(page, severity), page)
           fault == WithModuleInfo("ModuleFault",
                      {x \in Named(page, "module_status") : x.label = "fault"}, page)
           power == WithModuleInfo("ModuleLowPower",
                      {x \in Named(page, "module_low_power_status") : x.val = 1}, page)
<1>2. Results(page) = UNION {down, failed, of("warning"), of("alarm"), of("fault"), fault, power}
  BY <1>1 DEF Results, ExporterDown
<1>3. a \in down <=> \E x \in Named(page, "up") :
                       x.val = 0 /\ a = Alert("ExporterDown", x.iface, "", "", 0, "")
  OBVIOUS
<1>4. a \in failed <=> \E x \in Named(page, "scrape_success") :
                         x.val = 0 /\ a = Alert("ScrapeFailed", x.iface, "", "", 0, "")
  OBVIOUS
<1>5. (\E severity \in Severities : a \in of(severity)) <=>
        a \in of("warning") \/ a \in of("alarm") \/ a \in of("fault")
  BY <1>1
<1> HIDE DEF down, failed, of, fault, power
<1>6. a \in Results(page) <=>
        \/ a \in down \/ a \in failed \/ a \in of("warning") \/ a \in of("alarm")
        \/ a \in of("fault") \/ a \in fault \/ a \in power
  BY <1>2
<1> QED
  BY <1>3, <1>4, <1>5, <1>6 DEF of, fault, power

\* Every alert is of one of the rules.
LEMMA RuleOfResult ==
  ASSUME NEW page, NEW a \in Results(page)
  PROVE  a.rule \in Rules
<1>1. ASSUME NEW rule, NEW xs, NEW b \in WithModuleInfo(rule, xs, page)
      PROVE  b.rule = rule
  BY <1>1 DEF WithModuleInfo, Alert
<1>2. ASSUME NEW rule, NEW iface, a = Alert(rule, iface, "", "", 0, "")
      PROVE  a.rule = rule
  BY <1>2 DEF Alert
<1>3. \A severity \in Severities : Watching[severity] \in Rules
  BY DEF Watching, Severities, Rules
<1>4. {"ExporterDown", "ScrapeFailed", "ModuleFault", "ModuleLowPower"} \subseteq Rules
  BY DEF Rules
<1> QED
  BY <1>1, <1>2, <1>3, <1>4, ResultKinds

\* A sign that counts is a ground under the name its module goes by on the page.
LEMMA SignIsGround ==
  ASSUME NEW outcome, NEW i \in Interfaces, plugged[i] # NoModule,
         NEW s \in raised[i], Counts(i, s)
  PROVE  Alert(Watching[s.severity], i, Format[plugged[i]], s.label, s.lane, NameOn(i, outcome))
           \in GroundsOf(outcome)
<1>1. \A identity :
        Alert(Watching[s.severity], i, Format[plugged[i]], s.label, s.lane, identity)
          \in Shown(i, identity)
  BY DEF Shown, AlertsFor
<1>2. CASE outcome[i] = "blank"
  <2>1. GroundsOfRead(i, outcome[i]) = Shown(i, Unknown) /\ NameOn(i, outcome) = Unknown
    BY <1>2 DEF GroundsOfRead, NameOn
  <2> QED
    BY <1>1, <2>1 DEF GroundsOf
<1>3. CASE outcome[i] # "blank"
  <2>1. NameOn(i, outcome) = plugged[i] /\ Shown(i, plugged[i]) \subseteq Grounds
    BY <1>3 DEF NameOn, Grounds
  <2> QED
    BY <1>1, <2>1 DEF GroundsOf
<1> QED
  BY <1>2, <1>3

\* So is what is misread of the module itself.
LEMMA MisreadIsGround ==
  ASSUME NEW outcome, NEW i \in Interfaces,
         NEW s \in MisreadBy(plugged[i], outcome[i]), s.lane = 0
  PROVE  Alert(Watching[s.severity], i, Format[plugged[i]], s.label, s.lane, NameOn(i, outcome))
           \in GroundsOf(outcome)
<1>1. outcome[i] = "foreign" /\ s \in Misread[plugged[i]]
  BY DEF MisreadBy
<1>2. /\ NameOn(i, outcome) = plugged[i]
      /\ GroundsOfRead(i, outcome[i]) =
           AlertsFor(i, {t \in Misread[plugged[i]] : t.lane = 0}, plugged[i])
  BY <1>1 DEF NameOn, GroundsOfRead
<1>3. Alert(Watching[s.severity], i, Format[plugged[i]], s.label, s.lane, plugged[i])
        \in AlertsFor(i, {t \in Misread[plugged[i]] : t.lane = 0}, plugged[i])
  BY <1>1 DEF AlertsFor
<1> QED
  BY <1>2, <1>3 DEF GroundsOf

\* Adding the identity labels keeps an alert with its interface, and gives it the name
\* its module goes by.
LEMMA WithInfoOfPage ==
  ASSUME NEW outcome \in [Interfaces -> Outcomes], NEW rule, NEW xs,
         NEW a \in WithModuleInfo(rule, xs, PageOf(outcome))
  PROVE  \E x \in xs : \E i \in Described(outcome) :
           /\ x.iface = i
           /\ a = Alert(rule, i, x.format, x.label, x.lane, NameOn(i, outcome))
<1>1. PICK x \in xs, y \in Named(PageOf(outcome), "module_info") :
        /\ <<x.iface, x.format>> = <<y.iface, y.format>>
        /\ a = Alert(rule, x.iface, x.format, x.label, x.lane, y.label)
  BY DEF WithModuleInfo
<1>2. PICK i \in Described(outcome) : y.iface = i /\ y.label = NameOn(i, outcome)
  BY PageInfo
<1> QED
  BY <1>1, <1>2

\* An alarm rule finds only signs that count, and what is misread of a module itself:
\* a lane's passes the gate only if its own data path is activated.
LEMMA AlarmRuleGrounds ==
  ASSUME TypeOK, NEW outcome \in [Interfaces -> Outcomes],
         \A i \in Interfaces : outcome[i] \in Outcome(i),
         NEW severity \in Severities,
         NEW a \in WithModuleInfo(Watching[severity],
                                  ActiveAlarms(PageOf(outcome), severity), PageOf(outcome))
  PROVE  a \in GroundsOf(outcome)
<1>1. PICK x \in ActiveAlarms(PageOf(outcome), severity), i \in Described(outcome) :
        /\ x.iface = i
        /\ a = Alert(Watching[severity], i, x.format, x.label, x.lane, NameOn(i, outcome))
  BY WithInfoOfPage
<1>2. /\ x \in Named(PageOf(outcome), "alarm_status") /\ x.severity = severity /\ x.val = 1
      /\ x.lane = 0 \/ Gated(PageOf(outcome), x)
  BY DEF ActiveAlarms
<1>3. PICK s \in raised[i] \cup MisreadBy(plugged[i], outcome[i]) :
        /\ x.format = Format[plugged[i]] /\ x.label = s.label /\ x.severity = s.severity
        /\ x.lane = s.lane
  BY <1>1, <1>2, PageAlarm
<1>4. i \in Interfaces /\ outcome[i] \in ReadsOf(plugged[i])
  BY DEF Described, Outcome, Read
<1>5. plugged[i] # NoModule /\ (Format[plugged[i]] = "cmis" => outcome[i] # "foreign")
  BY <1>4 DEF ReadsOf, Read
<1>6. x.lane # 0 => Format[plugged[i]] = "cmis" /\ x.lane \in active[i] \cap Lanes[plugged[i]]
  <2>1. SUFFICES ASSUME Gated(PageOf(outcome), x)
                 PROVE  Format[plugged[i]] = "cmis" /\ x.lane \in active[i] \cap Lanes[plugged[i]]
    BY <1>2
  <2>2. PICK y \in Named(PageOf(outcome), "lane_datapath_state") :
          y.label = "activated" /\ y.iface = x.iface /\ y.lane = x.lane
    BY <2>1 DEF Gated
  <2> QED
    BY <1>1, <2>2, PageLane
<1>7. Counts(i, s)
  BY <1>3, <1>6 DEF Counts
<1>8. s \in MisreadBy(plugged[i], outcome[i]) => s.lane = 0
  BY <1>3, <1>5, <1>6 DEF MisreadBy
<1>9. Alert(Watching[s.severity], i, Format[plugged[i]], s.label, s.lane, NameOn(i, outcome))
        \in GroundsOf(outcome)
  BY <1>3, <1>4, <1>5, <1>7, <1>8, SignIsGround, MisreadIsGround
<1> QED
  BY <1>1, <1>2, <1>3, <1>9

\* The results of the rules over a page all have a ground.
LEMMA PageResultsAreGrounds ==
  ASSUME TypeOK, NEW outcome \in [Interfaces -> Outcomes],
         \A i \in Interfaces : outcome[i] \in Outcome(i),
         NEW a \in Results(PageOf(outcome))
  PROVE  a \in GroundsOf(outcome)
<1> DEFINE page == PageOf(outcome)
<1>1. ASSUME NEW x \in Named(page, "up"), x.val = 0 PROVE FALSE
  <2>1. x \in PageOf(outcome) /\ x.name = "up"
    BY DEF Named
  <2>2. ASSUME NEW i \in Interfaces PROVE x \notin Visited(i, outcome[i])
    <3>1. outcome[i] \in Outcomes
      OBVIOUS
    <3> QED
      BY <2>1, <3>1, VisitedNames
  <2>3. x = Sample("up", Target, "", "", "", 0, 1)
    BY <2>1, <2>2 DEF PageOf, Up
  <2>4. Sample("up", Target, "", "", "", 0, 1).val = 1
    BY DEF Sample
  <2>5. x.val # 1
    BY <1>1
  <2> QED
    BY <2>3, <2>4, <2>5, Zenon
<1>2. ASSUME NEW x \in Named(page, "scrape_success"), x.val = 0,
             a = Alert("ScrapeFailed", x.iface, "", "", 0, "")
      PROVE  a \in GroundsOf(outcome)
  <2>1. PICK i \in Interfaces : x \in Visited(i, outcome[i]) /\ x.name = "scrape_success"
    BY PageSamples
  <2>2. outcome[i] \in Outcomes
    OBVIOUS
  <2>3. \/ outcome[i] = "failed" /\ x = ScrapeSuccess(i, 0)
        \/ x = ScrapeSuccess(i, 1)
    <3>1. outcome[i] # "absent"
      BY <2>1 DEF Visited
    <3>2. CASE outcome[i] = "failed"
      BY <2>1, <3>2 DEF Visited
    <3>3. CASE outcome[i] \in Read
      BY <2>1, <2>2, <3>3, VisitedNames
    <3> QED
      BY <2>2, <3>1, <3>2, <3>3 DEF Outcomes
  <2>4. x # ScrapeSuccess(i, 1)
    <3>1. ScrapeSuccess(i, 1).val = 1
      BY DEF ScrapeSuccess, Sample
    <3>2. x.val = 0
      BY <1>2
    <3>3. x.val # 1
      BY <3>2
    <3> QED
      BY <3>1, <3>3, Zenon
  <2>5. ScrapeSuccess(i, 0).iface = i
    BY DEF ScrapeSuccess, Sample
  <2>6. outcome[i] = "failed" /\ a = FailedAlert(i)
    BY <1>2, <2>3, <2>4, <2>5 DEF FailedAlert
  <2>7. FailedAlert(i) \in GroundsOfRead(i, outcome[i])
    BY <2>6 DEF GroundsOfRead
  <2> QED
    BY <2>6, <2>7 DEF GroundsOf
<1>3. ASSUME NEW severity \in Severities,
             a \in WithModuleInfo(Watching[severity], ActiveAlarms(page, severity), page)
      PROVE  a \in GroundsOf(outcome)
  BY <1>3, AlarmRuleGrounds
<1>4. ASSUME NEW rule, NEW xs, a \in WithModuleInfo(rule, xs, page),
             \/ /\ rule = "ModuleFault"
                /\ xs = {x \in Named(page, "module_status") : x.label = "fault"}
             \/ /\ rule = "ModuleLowPower"
                /\ xs = {x \in Named(page, "module_low_power_status") : x.val = 1}
      PROVE  a \in GroundsOf(outcome)
  <2>1. PICK x \in xs, i \in Described(outcome) :
          x.iface = i /\ a = Alert(rule, i, x.format, x.label, x.lane, NameOn(i, outcome))
    BY <1>4, WithInfoOfPage
  <2> DEFINE s == [label |-> x.label, severity |-> IF rule = "ModuleFault" THEN "state" ELSE "power",
                   lane |-> 0]
  <2>2. /\ x \in Named(page, "module_status") \cup Named(page, "module_low_power_status")
        /\ rule = "ModuleFault" => x.name = "module_status" /\ x.label = "fault"
        /\ rule = "ModuleLowPower" => x.name = "module_low_power_status" /\ x.val = 1
    BY <1>4 DEF Named
  <2>3. x.format = Format[plugged[i]] /\ x.lane = 0 /\ s \in raised[i]
    BY <1>4, <2>1, <2>2, PageStatus
  <2>4. plugged[i] # NoModule /\ i \in Interfaces
    BY DEF Described, Outcome, ReadsOf, Read
  <2>5. Watching[s.severity] = rule /\ s.label = x.label /\ s.lane = 0
    BY <1>4 DEF Watching
  <2> HIDE DEF s
  <2>6. Counts(i, s)
    BY <2>5 DEF Counts
  <2>7. Alert(Watching[s.severity], i, Format[plugged[i]], s.label, s.lane, NameOn(i, outcome))
          \in GroundsOf(outcome)
    BY <2>3, <2>4, <2>6, SignIsGround
  <2> QED
    BY <2>1, <2>3, <2>5, <2>7
<1>5. CASE a \in WithModuleInfo("ModuleFault",
                 {x \in Named(page, "module_status") : x.label = "fault"}, page)
  BY <1>4, <1>5
<1>6. CASE a \in WithModuleInfo("ModuleLowPower",
                 {x \in Named(page, "module_low_power_status") : x.val = 1}, page)
  BY <1>4, <1>6
<1> HIDE DEF page
<1> QED
  BY <1>1, <1>2, <1>3, <1>5, <1>6, ResultKinds DEF page

\* A sample emitted for an interface is on the page, under its name.
LEMMA OnPage ==
  ASSUME NEW outcome, NEW i \in Interfaces, NEW x \in Visited(i, outcome[i])
  PROVE  x \in Named(PageOf(outcome), x.name)
BY DEF Named, PageOf

\* An alert for a sample of a module that was read as a whole carries its name.
LEMMA WithInfoOfWhole ==
  ASSUME NEW outcome \in [Interfaces -> Outcomes], NEW i \in Interfaces, outcome[i] = "whole",
         NEW rule, NEW xs, NEW x \in xs, x.iface = i, x.format = Format[plugged[i]]
  PROVE  Alert(rule, i, Format[plugged[i]], x.label, x.lane, plugged[i])
           \in WithModuleInfo(rule, xs, PageOf(outcome))
<1> DEFINE info == Sample("module_info", i, Format[plugged[i]], plugged[i], "", 0, 1)
<1>1. /\ info.name = "module_info" /\ info.iface = i /\ info.format = Format[plugged[i]]
      /\ info.label = plugged[i]
  BY DEF Sample
<1>2. info \in Visited(i, outcome[i])
  BY DEF Visited, Observed
<1> HIDE DEF info
<1>3. info \in Named(PageOf(outcome), "module_info")
  BY <1>1, <1>2, OnPage
<1>4. <<x, info>> \in {p \in xs \X Named(PageOf(outcome), "module_info") :
                        <<p[1].iface, p[1].format>> = <<p[2].iface, p[2].format>>}
  BY <1>1, <1>3
<1>5. Alert(rule, i, Format[plugged[i]], x.label, x.lane, plugged[i]) =
        Alert(rule, <<x, info>>[1].iface, <<x, info>>[1].format, <<x, info>>[1].label,
              <<x, info>>[1].lane, <<x, info>>[2].label)
  BY <1>1
<1> QED
  BY <1>4, <1>5 DEF WithModuleInfo

\* An alarm sign that counts is a result of its rule: the gate lets it pass.
LEMMA AlarmIsResult ==
  ASSUME NEW outcome \in [Interfaces -> Outcomes], NEW i \in Interfaces, outcome[i] = "whole",
         NEW s \in raised[i], s \in Signs[plugged[i]], s.severity \in Severities, Counts(i, s)
  PROVE  Alert(Watching[s.severity], i, Format[plugged[i]], s.label, s.lane, plugged[i])
           \in Results(PageOf(outcome))
<1> DEFINE x == Sample("alarm_status", i, Format[plugged[i]], s.label, s.severity, s.lane, 1)
           y == Sample("lane_datapath_state", i, Format[plugged[i]], "activated", "", s.lane, 1)
<1>1. /\ x.name = "alarm_status" /\ x.iface = i /\ x.format = Format[plugged[i]]
      /\ x.label = s.label /\ x.severity = s.severity /\ x.lane = s.lane /\ x.val = 1
  BY DEF Sample
<1>2. /\ y.name = "lane_datapath_state" /\ y.iface = i /\ y.format = Format[plugged[i]]
      /\ y.label = "activated" /\ y.lane = s.lane
  BY DEF Sample
<1>3. x \in Visited(i, outcome[i])
  <2>1. x \in AlarmSamples(i, plugged[i], "whole")
    BY DEF AlarmSamples, Listed, Decoded
  <2> QED
    BY <2>1 DEF Visited, Observed
<1>4. s.lane # 0 => y \in Visited(i, outcome[i])
  <2>1. SUFFICES ASSUME s.lane # 0 PROVE y \in LaneSamples(i, plugged[i], "whole")
    BY DEF Visited, Observed
  <2>2. Format[plugged[i]] = "cmis" /\ s.lane \in active[i] \cap Lanes[plugged[i]]
    BY <2>1 DEF Counts
  <2> QED
    BY <2>2 DEF LaneSamples
<1> HIDE DEF x, y
<1>5. x.lane = 0 \/ Gated(PageOf(outcome), x)
  <2>1. SUFFICES ASSUME s.lane # 0 PROVE Gated(PageOf(outcome), x)
    BY <1>1
  <2>2. y \in Named(PageOf(outcome), "lane_datapath_state")
    BY <1>2, <1>4, <2>1, OnPage
  <2> QED
    BY <1>1, <1>2, <2>2 DEF Gated
<1>6. x \in ActiveAlarms(PageOf(outcome), s.severity)
  <2>1. x \in Named(PageOf(outcome), "alarm_status")
    BY <1>1, <1>3, OnPage
  <2> QED
    BY <1>1, <1>5, <2>1 DEF ActiveAlarms
<1>7. Alert(Watching[s.severity], i, Format[plugged[i]], s.label, s.lane, plugged[i]) \in
        WithModuleInfo(Watching[s.severity], ActiveAlarms(PageOf(outcome), s.severity),
                       PageOf(outcome))
  BY <1>1, <1>6, WithInfoOfWhole
<1> QED
  BY <1>7, ResultKinds

\* A module's state and its low power requests are results of theirs.
LEMMA StatusIsResult ==
  ASSUME NEW outcome \in [Interfaces -> Outcomes], NEW i \in Interfaces, outcome[i] = "whole",
         plugged[i] \in Modules,
         NEW s \in raised[i], s \in Signs[plugged[i]], s.severity \notin Severities
  PROVE  Alert(Watching[s.severity], i, Format[plugged[i]], s.label, s.lane, plugged[i])
           \in Results(PageOf(outcome))
<1>1. /\ s = [label |-> s.label, severity |-> s.severity, lane |-> s.lane]
      /\ s.severity \in DOMAIN Watching
  BY MonitoringAssumption
<1>2. /\ s.label \in IF s.severity = "state" THEN {"fault"} ELSE {"hardware", "software"}
      /\ s.lane = 0 /\ Format[plugged[i]] # "sff8472"
  BY MonitoringAssumption
<1>3. CASE s.severity = "state"
  <2> DEFINE x == Sample("module_status", i, Format[plugged[i]], "fault", "", 0, 1)
  <2>1. [label |-> "fault", severity |-> "state", lane |-> 0] \in raised[i] /\ s.label = "fault"
    BY <1>1, <1>2, <1>3
  <2>2. x \in StatusSamples(i, plugged[i])
    BY <1>2, <2>1 DEF StatusSamples
  <2>3. x \in Visited(i, outcome[i])
    BY <2>2 DEF Visited, Observed
  <2>4. /\ x.name = "module_status" /\ x.iface = i /\ x.format = Format[plugged[i]]
        /\ x.label = "fault" /\ x.lane = 0
    BY DEF Sample
  <2> HIDE DEF x
  <2>5. x \in {y \in Named(PageOf(outcome), "module_status") : y.label = "fault"}
    BY <2>3, <2>4, OnPage
  <2>6. Alert("ModuleFault", i, Format[plugged[i]], s.label, s.lane, plugged[i]) \in
          WithModuleInfo("ModuleFault",
            {y \in Named(PageOf(outcome), "module_status") : y.label = "fault"}, PageOf(outcome))
    BY <1>2, <2>1, <2>4, <2>5, WithInfoOfWhole
  <2>7. Watching[s.severity] = "ModuleFault"
    BY <1>3 DEF Watching
  <2> QED
    BY <2>6, <2>7, ResultKinds
<1>4. CASE s.severity = "power"
  <2> DEFINE x == Sample("module_low_power_status", i, Format[plugged[i]], s.label, "", 0, 1)
  <2>1. [label |-> s.label, severity |-> "power", lane |-> 0] \in raised[i]
        /\ s.label \in {"hardware", "software"}
    BY <1>1, <1>2, <1>4
  <2>2. x \in StatusSamples(i, plugged[i])
    BY <1>2, <2>1 DEF StatusSamples
  <2>3. x \in Visited(i, outcome[i])
    BY <2>2 DEF Visited, Observed
  <2>4. /\ x.name = "module_low_power_status" /\ x.iface = i /\ x.format = Format[plugged[i]]
        /\ x.label = s.label /\ x.lane = 0 /\ x.val = 1
    BY DEF Sample
  <2> HIDE DEF x
  <2>5. x \in {y \in Named(PageOf(outcome), "module_low_power_status") : y.val = 1}
    BY <2>3, <2>4, OnPage
  <2>6. Alert("ModuleLowPower", i, Format[plugged[i]], s.label, s.lane, plugged[i]) \in
          WithModuleInfo("ModuleLowPower",
            {y \in Named(PageOf(outcome), "module_low_power_status") : y.val = 1}, PageOf(outcome))
    BY <1>2, <2>4, <2>5, WithInfoOfWhole
  <2>7. Watching[s.severity] = "ModuleLowPower"
    BY <1>4 DEF Watching
  <2> QED
    BY <2>6, <2>7, ResultKinds
<1> QED
  BY <1>1, <1>3, <1>4 DEF Watching, Severities

\* What a page has to tell, its alerts tell.
LEMMA ToldAreResults ==
  ASSUME TypeOK, NEW outcome \in [Interfaces -> Outcomes], NEW i \in Interfaces
  PROVE  /\ outcome[i] = "failed" => FailedAlert(i) \in Results(PageOf(outcome))
         /\ outcome[i] = "whole" => Shown(i, plugged[i]) \subseteq Results(PageOf(outcome))
<1>1. ASSUME outcome[i] = "failed"
      PROVE  FailedAlert(i) \in Results(PageOf(outcome))
  <2> DEFINE x == ScrapeSuccess(i, 0)
  <2>1. x.name = "scrape_success" /\ x.iface = i /\ x.val = 0
    BY DEF ScrapeSuccess, Sample
  <2>2. x \in Visited(i, outcome[i])
    BY <1>1 DEF Visited
  <2> HIDE DEF x
  <2>3. x \in Named(PageOf(outcome), "scrape_success")
    BY <2>1, <2>2, OnPage
  <2>4. FailedAlert(i) = Alert("ScrapeFailed", x.iface, "", "", 0, "")
    BY <2>1 DEF FailedAlert
  <2> QED
    BY <2>1, <2>3, <2>4, ResultKinds
<1>2. ASSUME outcome[i] = "whole", NEW a \in Shown(i, plugged[i])
      PROVE  a \in Results(PageOf(outcome))
  <2>1. plugged[i] # NoModule
    BY <1>2 DEF Shown
  <2>2. PICK s \in raised[i] :
          /\ Counts(i, s)
          /\ a = Alert(Watching[s.severity], i, Format[plugged[i]], s.label, s.lane, plugged[i])
    BY <1>2, <2>1 DEF Shown, AlertsFor
  <2>3. s \in Signs[plugged[i]] /\ plugged[i] \in Modules
    BY <2>1 DEF TypeOK
  <2> QED
    BY <1>2, <2>2, <2>3, AlarmIsResult, StatusIsResult
<1> QED
  BY <1>1, <1>2

-----------------------------------------------------------------------------
(***************************************************************************)
(* Every step preserves the invariant.                                     *)
(***************************************************************************)
\* What the host shows, and what a read gives rise to, is the ground of alerts the
\* rules can make.
LEMMA GroundRules ==
  ASSUME TypeOK
  PROVE  /\ \A a \in Grounds : a.rule \in Rules
         /\ Down.rule \in Rules
         /\ \A outcome : (\A i \in Interfaces : outcome[i] \in Outcome(i)) =>
              \A a \in GroundsOf(outcome) : a.rule \in Rules
<1>1. ASSUME NEW i \in Interfaces, NEW signs, NEW identity, NEW a \in AlertsFor(i, signs, identity),
             \A s \in signs : s.severity \in DOMAIN Watching
      PROVE  a.rule \in Rules
  <2>1. PICK s \in signs :
          a = Alert(Watching[s.severity], i, Format[plugged[i]], s.label, s.lane, identity)
    BY <1>1 DEF AlertsFor
  <2>2. s.severity \in DOMAIN Watching
    BY <1>1
  <2>3. Watching[s.severity] \in Rules
    BY <2>2 DEF Watching, Rules
  <2>4. a.rule = Watching[s.severity]
    BY <2>1 DEF Alert
  <2> QED
    BY <2>3, <2>4
<1>2. ASSUME NEW i \in Interfaces, NEW identity, NEW a \in Shown(i, identity)
      PROVE  a.rule \in Rules
  <2> DEFINE signs == {s \in raised[i] : Counts(i, s)}
  <2>1. plugged[i] # NoModule /\ a \in AlertsFor(i, signs, identity)
    BY DEF Shown
  <2>2. plugged[i] \in Modules /\ raised[i] \subseteq Signs[plugged[i]]
    BY <2>1 DEF TypeOK
  <2>3. \A s \in signs : s.severity \in DOMAIN Watching
    BY <2>2, MonitoringAssumption
  <2> HIDE DEF signs
  <2> QED
    BY <1>1, <2>1, <2>3
<1>3. Down.rule \in Rules /\ \A i : FailedAlert(i).rule \in Rules
  BY DEF Down, FailedAlert, Alert, Rules
<1>4. ASSUME NEW outcome, NEW i \in Interfaces, outcome[i] \in Outcome(i),
             NEW a \in GroundsOfRead(i, outcome[i])
      PROVE  a.rule \in Rules
  <2> DEFINE signs == {s \in Misread[plugged[i]] : s.lane = 0}
  <2>1. CASE outcome[i] = "failed"
    BY <1>3, <1>4, <2>1 DEF GroundsOfRead
  <2>2. CASE outcome[i] = "blank"
    BY <1>2, <1>4, <2>2 DEF GroundsOfRead
  <2>3. CASE outcome[i] = "foreign"
    <3>1. plugged[i] \in Modules
      BY <1>4, <2>3 DEF Outcome, ReadsOf, TypeOK
    <3>2. \A s \in signs : s.severity \in DOMAIN Watching
      BY <3>1, MonitoringAssumption DEF Severities, Watching
    <3>3. a \in AlertsFor(i, signs, plugged[i])
      BY <1>4, <2>3 DEF GroundsOfRead
    <3> HIDE DEF signs
    <3> QED
      BY <1>1, <3>2, <3>3
  <2> QED
    BY <1>4, <2>1, <2>2, <2>3 DEF GroundsOfRead
<1> QED
  BY <1>2, <1>3, <1>4 DEF Grounds, GroundsOf

\* The results are those of the samples, whatever step is taken.
LEMMA ResultsFollowSamples ==
  Results(samples)' = Results(samples')
BY DEF Results, ExporterDown, WithModuleInfo, ActiveAlarms, Gated, Named

\* Modules, drivers and the process itself leave the alerts alone.
LEMMA HostInvariant ==
  ASSUME MInv,
         \/ \E i \in Interfaces : Change(i)
         \/ \E i \in Interfaces : \E m \in Modules \cup {NoModule} : Swap(i, m)
         \/ Hang
         \/ Start
         \/ Stop
         \/ UNCHANGED vars
  PROVE  MInv'
<1> USE DEF MInv
<1>1. UNCHANGED <<samples, fresh, answered, grounds, told, omitted, held, just, due>>
  BY DEF Change, Swap, Hang, Start, Stop, vars, alerting
<1>2. ASSUME NEW i \in Interfaces, NEW m \in Modules \cup {NoModule}, Swap(i, m)
      PROVE  TypeOK'
  <2>1. /\ UNCHANGED <<process, hung>> /\ plugged' = [plugged EXCEPT ![i] = m]
        /\ raised' = [raised EXCEPT ![i] = {}] /\ active' = [active EXCEPT ![i] = {}]
    BY <1>2 DEF Swap
  <2> QED
    BY <1>1, <2>1 DEF TypeOK
<1>3. ASSUME NEW i \in Interfaces, Change(i)
      PROVE  TypeOK'
  <2>1. plugged[i] \in Modules /\ UNCHANGED <<process, hung, plugged>>
    BY <1>3 DEF Change, TypeOK
  <2>2. plugged[i] # NoModule
    BY <2>1, MonitoringAssumption
  <2>3. CASE /\ \E s \in Signs[plugged[i]] :
                  raised' = [raised EXCEPT ![i] = IF s \in @ THEN @ \ {s} ELSE @ \cup {s}]
             /\ UNCHANGED active
    <3>1. PICK new \in SUBSET Signs[plugged[i]] : raised' = [raised EXCEPT ![i] = new]
      BY <2>2, <2>3 DEF TypeOK
    <3>2. raised' \in [Interfaces -> SUBSET UNION {Signs[m] : m \in Modules}]
      BY <2>1, <3>1 DEF TypeOK
    <3>3. \A j \in Interfaces : raised'[j] = IF j = i THEN new ELSE raised[j]
      BY <3>1 DEF TypeOK
    <3> QED
      BY <1>1, <2>1, <2>2, <2>3, <3>2, <3>3 DEF TypeOK
  <2>4. CASE /\ \E lane \in Lanes[plugged[i]] :
                  active' = [active EXCEPT ![i] = IF lane \in @ THEN @ \ {lane} ELSE @ \cup {lane}]
             /\ UNCHANGED raised
    <3>1. PICK new \in SUBSET Lanes[plugged[i]] : active' = [active EXCEPT ![i] = new]
      BY <2>2, <2>4 DEF TypeOK
    <3>2. active' \in [Interfaces -> SUBSET UNION {Lanes[m] : m \in Modules}]
      BY <2>1, <3>1 DEF TypeOK
    <3>3. \A j \in Interfaces : active'[j] = IF j = i THEN new ELSE active[j]
      BY <3>1 DEF TypeOK
    <3> QED
      BY <1>1, <2>1, <2>2, <2>4, <3>2, <3>3 DEF TypeOK
  <2> QED
    BY <1>3, <2>3, <2>4 DEF Change
<1>4. CASE Hang
  BY <1>1, <1>4 DEF Hang, TypeOK
<1>5. CASE Start
  BY <1>1, <1>5 DEF Start, host, TypeOK
<1>6. CASE Stop
  BY <1>1, <1>6 DEF Stop, TypeOK
<1>7. CASE UNCHANGED vars
  BY <1>1, <1>7 DEF vars, host, TypeOK
<1>8. TypeOK'
  BY <1>2, <1>3, <1>4, <1>5, <1>6, <1>7
<1> QED
  BY <1>1, <1>8, ResultsFollowSamples

\* The sample Prometheus itself writes.
LEMMA OnlyUp ==
  ASSUME NEW val, NEW x \in Up(val)
  PROVE  x.name = "up" /\ x.iface = Target /\ x.val = val
<1>1. x = Sample("up", Target, "", "", "", 0, val)
  BY DEF Up
<1> QED
  BY <1>1 DEF Sample

\* However a scrape ends, the results over what it left have a ground, and what it
\* had to tell is among them.
LEMMA ScrapeInvariant ==
  ASSUME MInv, Scrape
  PROVE  MInv'
<1>1. /\ UNCHANGED <<plugged, raised, active, held, just, due>>
      /\ fresh' = TRUE /\ answered' \in BOOLEAN /\ omitted' \subseteq Interfaces
      /\ process' \in {"up", "down"} /\ hung' = hung /\ (hung' => process' = "up")
  <2>1. ASSUME NEW page, NEW got \in BOOLEAN, NEW to, Scraped(page, got, to)
        PROVE  /\ UNCHANGED <<plugged, raised, active, held, just, due>>
               /\ fresh' = TRUE /\ answered' \in BOOLEAN /\ omitted' \subseteq Interfaces
    BY <2>1 DEF Scraped, alerting
  <2>2. CASE Unanswered
    BY <2>1, <2>2 DEF Unanswered, MInv, TypeOK
  <2>3. CASE EmptyPage
    BY <2>1, <2>3 DEF EmptyPage, MInv, TypeOK
  <2>4. ASSUME NEW outcome, Panic(outcome)
        PROVE  <1>1
    BY <2>1, <2>4 DEF Panic, MInv, TypeOK
  <2>5. ASSUME NEW outcome, Refused(outcome)
        PROVE  <1>1
    BY <2>1, <2>5 DEF Refused, MInv, TypeOK
  <2>6. ASSUME NEW outcome, Page(outcome)
        PROVE  <1>1
    BY <2>1, <2>6 DEF Page, MInv, TypeOK
  <2> QED
    BY <2>2, <2>3, <2>4, <2>5, <2>6 DEF Scrape
<1>2. TypeOK'
  BY <1>1 DEF MInv, TypeOK
<1>3. /\ Results(samples') \subseteq grounds'
      /\ told' \subseteq Results(samples')
      /\ \A a \in grounds' : a.rule \in Rules
  <2>1. ASSUME samples' = Up(0), told' = {Down}, grounds' = Grounds \cup {Down}
        PROVE  <1>3
    <3>1. \A x \in Up(0) : x.name = "up" /\ x.iface = Target /\ x.val = 0
      BY OnlyUp
    <3>2. \A name : name # "up" => Named(Up(0), name) = {}
      BY <3>1 DEF Named
    <3>3. \A rule, xs : WithModuleInfo(rule, xs, Up(0)) = {}
      BY <3>2 DEF WithModuleInfo
    <3>4. \A a \in Results(Up(0)) : a = Down
      BY <3>1, <3>2, <3>3, ResultKinds DEF Named, Down
    <3>5. Down \in Results(Up(0))
      <4>1. \E x \in Named(Up(0), "up") : x.val = 0 /\ x.iface = Target
        BY <3>1 DEF Named, Up
      <4> QED
        BY <4>1, ResultKinds DEF Down
    <3> QED
      BY <2>1, <3>4, <3>5, GroundRules DEF MInv
  <2>2. CASE EmptyPage
    <3>1. samples' = Up(1) /\ told' = {} /\ grounds' = Grounds
      BY <2>2 DEF EmptyPage, Scraped
    <3>2. \A x \in Up(1) : x.name = "up" /\ x.val = 1
      BY OnlyUp
    <3>3. \A name : name # "up" => Named(Up(1), name) = {}
      BY <3>2 DEF Named
    <3>4. \A rule, xs : WithModuleInfo(rule, xs, Up(1)) = {}
      BY <3>3 DEF WithModuleInfo
    <3>5. \A x \in Named(Up(1), "up") : x.val # 0
      BY <3>2 DEF Named
    <3>6. Results(Up(1)) = {}
      BY <3>3, <3>4, <3>5, ResultKinds, "scrape_success" # "up"
    <3> QED
      BY <3>1, <3>6, GroundRules DEF MInv
  <2>3. ASSUME NEW outcome \in [Interfaces -> Outcomes],
               \A i \in Interfaces : outcome[i] \in Outcome(i), Page(outcome)
        PROVE  <1>3
    <3> DEFINE failed == {i \in Interfaces : outcome[i] = "failed"}
               whole == {i \in Interfaces : outcome[i] = "whole"}
    <3>1. /\ samples' = PageOf(outcome)
          /\ told' = {FailedAlert(i) : i \in failed} \cup UNION {Shown(i, plugged[i]) : i \in whole}
          /\ grounds' = GroundsOf(outcome)
      BY <2>3 DEF Page, Scraped, PageOf, GroundsOf
    <3>2. Results(PageOf(outcome)) \subseteq GroundsOf(outcome)
      BY <2>3, PageResultsAreGrounds DEF MInv
    <3>3. told' \subseteq Results(PageOf(outcome))
      BY <3>1, ToldAreResults DEF MInv
    <3>4. \A a \in GroundsOf(outcome) : a.rule \in Rules
      BY <2>3, GroundRules DEF MInv
    <3> QED
      BY <3>1, <3>2, <3>3, <3>4
  <2>4. CASE Unanswered
    BY <2>1, <2>4 DEF Unanswered, Scraped
  <2>5. ASSUME NEW outcome, Panic(outcome) \/ Refused(outcome)
        PROVE  <1>3
    BY <2>1, <2>5 DEF Panic, Refused, Scraped
  <2> QED
    BY <2>2, <2>3, <2>4, <2>5 DEF Scrape
<1> QED
  BY <1>1, <1>2, <1>3, ResultsFollowSamples DEF MInv

\* An evaluation counts what is told, what is found and what has a ground together.
LEMMA EvaluateInvariant ==
  ASSUME MInv, Evaluate
  PROVE  MInv'
<1>1. /\ UNCHANGED <<process, hung, plugged, raised, active, samples, answered, grounds, told, omitted>>
      /\ fresh' = FALSE
      /\ held' = Age(held, Results(samples))
      /\ just' = Count(just, grounds)
      /\ due' = Count(due, told)
  BY DEF Evaluate, host
<1>2. /\ DOMAIN held' = Results(samples) /\ DOMAIN just' = grounds /\ DOMAIN due' = told
      /\ told \subseteq Results(samples) /\ Results(samples) \subseteq grounds
  BY <1>1 DEF Age, Count, MInv
<1>3. ASSUME NEW a \in grounds
      PROVE  /\ a.rule \in Rules /\ For[a.rule] \in Nat
             /\ just'[a] = IF a \in DOMAIN just THEN Saturated(just[a], a.rule) ELSE 1
             /\ just'[a] \in 1 .. For[a.rule] + 1
  <2>1. a.rule \in Rules /\ For[a.rule] \in Nat
    BY ForAssumption DEF MInv
  <2>2. just'[a] = IF a \in DOMAIN just THEN Saturated(just[a], a.rule) ELSE 1
    BY <1>1 DEF Count
  <2>3. a \in DOMAIN just => just[a] \in 1 .. For[a.rule] + 1
    BY DEF MInv, TypeOK
  <2> QED
    BY <2>1, <2>2, <2>3 DEF Saturated
<1>4. ASSUME NEW a \in Results(samples)
      PROVE  /\ held'[a] = IF a \notin DOMAIN held THEN 0
                           ELSE IF held[a] < For[a.rule] THEN held[a] + 1 ELSE held[a]
             /\ held'[a] \in 0 .. For[a.rule]
             /\ just'[a] > held'[a]
  <2>1. a \in grounds /\ For[a.rule] \in Nat /\ just'[a] \in 1 .. For[a.rule] + 1
        /\ just'[a] = IF a \in DOMAIN just THEN Saturated(just[a], a.rule) ELSE 1
    BY <1>2, <1>3
  <2>2. held'[a] = IF a \notin DOMAIN held THEN 0
                   ELSE IF held[a] < For[a.rule] THEN held[a] + 1 ELSE held[a]
    BY <1>1 DEF Age
  <2>3. a \in DOMAIN held =>
          /\ held[a] \in 0 .. For[a.rule]
          /\ a \in DOMAIN just /\ just[a] > held[a] /\ just[a] \in 1 .. For[a.rule] + 1
    BY DEF MInv, TypeOK
  <2> QED
    BY <2>1, <2>2, <2>3 DEF Saturated
<1>5. ASSUME NEW a \in told
      PROVE  due'[a] \in 1 .. For[a.rule] + 1 /\ held'[a] + 1 >= due'[a]
  <2>1. a \in Results(samples) /\ For[a.rule] \in Nat
    BY <1>2, <1>3
  <2>2. due'[a] = IF a \in DOMAIN due THEN Saturated(due[a], a.rule) ELSE 1
    BY <1>1 DEF Count
  <2>3. a \in DOMAIN due =>
          /\ due[a] \in 1 .. For[a.rule] + 1
          /\ a \in DOMAIN held /\ held[a] \in 0 .. For[a.rule] /\ held[a] + 1 >= due[a]
    BY DEF MInv, TypeOK
  <2> QED
    BY <1>4, <2>1, <2>2, <2>3 DEF Saturated
<1>6. TypeOK'
  BY <1>1, <1>2, <1>3, <1>4, <1>5 DEF MInv, TypeOK
<1> QED
  BY <1>1, <1>2, <1>3, <1>4, <1>5, <1>6, ResultsFollowSamples DEF MInv

-----------------------------------------------------------------------------
(***************************************************************************)
(* The theorems.                                                           *)
(***************************************************************************)
LEMMA InitInvariant == Init => MInv
<1> SUFFICES ASSUME Init
             PROVE  MInv
  OBVIOUS
<1>1. Results({}) = {}
  <2>1. \A name : Named({}, name) = {}
    BY DEF Named
  <2>2. \A rule, xs : WithModuleInfo(rule, xs, {}) = {}
    BY <2>1 DEF WithModuleInfo
  <2> QED
    BY <2>1, <2>2, ResultKinds
<1>2. DOMAIN held = {} /\ DOMAIN just = {} /\ DOMAIN due = {}
  BY DEF Init
<1>3. /\ raised \in [Interfaces -> SUBSET UNION {Signs[m] : m \in Modules}]
      /\ active \in [Interfaces -> SUBSET UNION {Lanes[m] : m \in Modules}]
      /\ \A i \in Interfaces : raised[i] = {} /\ active[i] = {}
  BY DEF Init
<1>4. TypeOK
  BY <1>2, <1>3 DEF Init, TypeOK
<1> QED
  BY <1>1, <1>2, <1>4 DEF Init, MInv

LEMMA NextInvariant == MInv /\ [Next]_vars => MInv'
BY HostInvariant, ScrapeInvariant, EvaluateInvariant DEF Next

\* What the rules find lies between what a scrape had to tell and its grounds.
THEOREM MonitoringInvariance == Spec => []MInv
BY InitInvariant, NextInvariant, PTL DEF Spec

\* The variables keep their types and the counts their limits, for any For.
THEOREM TypeCorrect == Spec => []TypeOK
<1>1. MInv => TypeOK
  BY DEF MInv
<1> QED
  BY <1>1, MonitoringInvariance, PTL

\* No alert fires without its cause: every scrape before the evaluations of its
\* pending time and of now had a ground for it, a sign of the host's module under the
\* name that page gave it, or misread the alarm from an image in the foreign layout.
THEOREM FiringHasCause == Spec => []FiresOnlyForCause
<1>1. MInv => FiresOnlyForCause
  <2> SUFFICES ASSUME MInv, NEW a \in DOMAIN held, held[a] >= For[a.rule]
               PROVE  a \in DOMAIN just /\ just[a] > For[a.rule]
    BY DEF FiresOnlyForCause, Firing, FiringIn
  <2>1. a \in DOMAIN just /\ just[a] > held[a]
    BY DEF MInv
  <2>2. For[a.rule] \in Nat
    BY <2>1, ForAssumption DEF MInv
  <2>3. held[a] \in 0 .. For[a.rule] /\ just[a] \in 1 .. For[a.rule] + 1
    BY <2>1 DEF MInv, TypeOK
  <2> QED
    BY <2>1, <2>2, <2>3
<1> QED
  BY <1>1, MonitoringInvariance, PTL

\* What every scrape of the pending time had to tell of is firing.
THEOREM StandingFires == Spec => []StandingIsFiring
<1>1. MInv => StandingIsFiring
  <2> SUFFICES ASSUME MInv, NEW a \in DOMAIN due, due[a] > For[a.rule]
               PROVE  a \in DOMAIN held /\ held[a] >= For[a.rule]
    BY DEF StandingIsFiring, Firing, FiringIn
  <2>1. a \in DOMAIN held /\ held[a] + 1 >= due[a]
    BY DEF MInv
  <2>2. For[a.rule] \in Nat
    BY <2>1, ForAssumption DEF MInv
  <2>3. held[a] \in 0 .. For[a.rule] /\ due[a] \in 1 .. For[a.rule] + 1
    BY <2>1 DEF MInv, TypeOK
  <2> QED
    BY <2>1, <2>2, <2>3
<1> QED
  BY <1>1, MonitoringInvariance, PTL
=============================================================================
