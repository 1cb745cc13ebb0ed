------------------------------ MODULE Monitoring ------------------------------
(***************************************************************************)
(* The exporter process (main.go), the host it runs on and the Prometheus  *)
(* that scrapes it and evaluates the mixin's rules.  Modules are swapped,  *)
(* raise and clear alarms, drivers hang, reads fail, the process dies and  *)
(* is restarted; the question is which alerts fire.                        *)
(*                                                                         *)
(* A scrape is one step: Collector shows what concurrent scrapes can put   *)
(* on a page, CmisReading and ModuleReading which alarms an image has, of  *)
(* two modules if a swap fell into its read; here no swap falls into one.  *)
(* Here a read of an interface comes to one of its outcomes:               *)
(*                                                                         *)
(*    failed   no data, or data sff.Decode refuses                         *)
(*    absent   an error auto-discovery takes for an unsupported device     *)
(*    blank    the lower memory of a module that has its name elsewhere    *)
(*    partial  the module has its name, but a page it needs is missing     *)
(*    foreign  an SFF module laid out by the netlink fallback, whose pages *)
(*             its decoder compares as if the ioctl had given them         *)
(*    whole    everything                                                  *)
(***************************************************************************)
EXTENDS AlertRules, FiniteSets

CONSTANTS
  Interfaces, Modules, NoModule,
  Format,       \* Format[m]: the memory map of module m
  Lanes,        \* Lanes[m]: the lanes m is decoded with
  Signs,        \* Signs[m]: what m can show, [label, severity, lane]
  Misread,      \* Misread[m]: the alarms a foreign image of m has active without cause
  Unprintable,  \* modules with a vendor string that is not valid UTF-8
  Repeating,    \* modules that give one link length twice
  Hidden,       \* interfaces whose read errors contain an unsupported errno
  AutoDiscovery,
  Unknown,      \* the identity labels of a zero-filled page 00h
  Target        \* the exporter as a scrape target

Severities == {"warning", "alarm", "fault"}

\* The rule that watches a sign: three rules watch alarms, one each the module state
\* and the low power requests.
Watching == [warning |-> "WarningActive", alarm |-> "AlarmActive", fault |-> "FaultActive",
             state |-> "ModuleFault", power |-> "ModuleLowPower"]

ASSUME MonitoringAssumption ==
  /\ NoModule \notin Modules
  /\ Unknown \notin Modules
  /\ AutoDiscovery \in BOOLEAN
  /\ Hidden \subseteq Interfaces
  /\ Signs \in [Modules -> SUBSET [label : STRING, severity : DOMAIN Watching, lane : Nat]]
  /\ \A m \in Modules : \A s \in {t \in Signs[m] : t.severity \notin Severities} :
       /\ s.label \in IF s.severity = "state" THEN {"fault"} ELSE {"hardware", "software"}
       /\ s.lane = 0
       /\ Format[m] = "cmis" \/ (Format[m] = "sff8636" /\ s.label = "software")
  /\ Misread \in [Modules -> SUBSET [label : STRING, severity : Severities, lane : Nat]]

VARIABLES
  process,  \* "up", or "down" while nothing listens
  hung,     \* a driver does not return, and the reader's mutex is held
  plugged,  \* plugged[i]: the module in interface i, or NoModule
  raised,   \* raised[i]: the signs that module shows
  active,   \* active[i]: its lanes with an activated data path
  samples,  \* what Prometheus has of the last scrape
  fresh,    \* a scrape has ended since the last evaluation
  held,     \* the pending and firing alerts
  answered, \* history: the last scrape got a page
  grounds,  \* history: the alerts there was a ground for at the last scrape
  told,     \* history: those of them the scrape had to tell of
  omitted,  \* history: the interfaces with a module the last page said nothing of
  just,     \* history: how many evaluations in a row an alert had its ground
  due       \* history: how many evaluations in a row an alert was to be told

host == <<hung, plugged, raised, active>>
alerting == <<held, just, due>>
vars == <<process, hung, plugged, raised, active, samples, fresh, held, answered, grounds,
          told, omitted, just, due>>

Down == Alert("ExporterDown", Target, "", "", 0, "")
FailedAlert(i) == Alert("ScrapeFailed", i, "", "", 0, "")
Up(val) == {Sample("up", Target, "", "", "", 0, val)}

-----------------------------------------------------------------------------
(***************************************************************************)
(* What the collector emits for an interface (emitObservation).            *)
(***************************************************************************)
Read == {"blank", "partial", "whole", "foreign"}
Outcomes == {"failed", "absent"} \cup Read

\* SFF-8472 has the vendor strings in the lower memory, the others in page 00h.  Only
\* CMIS has its pages where netlink puts them.
ReadsOf(m) ==
  IF m = NoModule THEN {}
  ELSE {read \in Read : /\ read = "blank" => Format[m] # "sff8472"
                        /\ read = "foreign" => Format[m] # "cmis"}

Outcome(i) ==
  {"failed"} \cup (IF AutoDiscovery /\ i \in Hidden THEN {"absent"} ELSE {})
             \cup ReadsOf(plugged[i])

\* Alarms of CMIS lanes come with the lanes (AlarmsFollowLanes), SFF-8636 flags all
\* its lanes in the lower memory, SFF-8472 alarms need the diagnostics.
Decoded(m, outcome, s) ==
  \/ outcome = "whole"
  \/ Format[m] = "sff8636"
  \/ Format[m] = "cmis" /\ s.lane = 0

ScrapeSuccess(i, val) == Sample("scrape_success", i, "", "", "", 0, val)

\* The alarms an image has active without cause (ActiveMeansOutside): it is compared
\* with what the fallback put where the thresholds would be.
MisreadBy(m, outcome) == IF outcome = "foreign" THEN Misread[m] ELSE {}

\* The alarms that come out of an image of m, active or not.
Listed(m, outcome) ==
  {s \in Signs[m] : s.severity \in Severities /\ Decoded(m, outcome, s)} \cup MisreadBy(m, outcome)

\* Mutant: the alarms of a module's lanes carry no lane label.
AlarmSamplesNoLane(i, m, outcome) ==
  {Sample("alarm_status", i, Format[m], s.label, s.severity, 0,
          IF s \in raised[i] \cup MisreadBy(m, outcome) THEN 1 ELSE 0) : s \in Listed(m, outcome)}

AlarmSamples(i, m, outcome) ==
  {Sample("alarm_status", i, Format[m], s.label, s.severity, s.lane,
          IF s \in raised[i] \cup MisreadBy(m, outcome) THEN 1 ELSE 0) : s \in Listed(m, outcome)}

\* Only CMIS lanes have a data path state.
LaneSamples(i, m, outcome) ==
  {Sample("lane_datapath_state", i, Format[m],
          IF lane \in active[i] THEN "activated" ELSE "deactivated", "", lane, 1) :
     lane \in IF Format[m] = "cmis" /\ outcome = "whole" THEN Lanes[m] ELSE {}}

\* SFF-8472 modules have no status.
StatusSamples(i, m) ==
  IF Format[m] = "sff8472" THEN {}
  ELSE LET has(label, severity) == [label |-> label, severity |-> severity, lane |-> 0] \in raised[i]
       IN  {Sample("module_status", i, Format[m],
                   IF has("fault", "state") THEN "fault" ELSE "ready", "", 0, 1)}
           \cup {Sample("module_low_power_status", i, Format[m], source, "", 0,
                        IF has(source, "power") THEN 1 ELSE 0) :
                   source \in {"hardware", "software"}}

Observed(i, m, outcome) ==
  {Sample("module_info", i, Format[m], IF outcome = "blank" THEN Unknown ELSE m, "", 0, 1)}
  \cup AlarmSamples(i, m, outcome) \cup LaneSamples(i, m, outcome) \cup StatusSamples(i, m)

Visited(i, outcome) ==
  CASE outcome = "absent" -> {}
    [] outcome = "failed" -> {ScrapeSuccess(i, 0)}
    [] OTHER -> {ScrapeSuccess(i, 1)} \cup Observed(i, plugged[i], outcome)

-----------------------------------------------------------------------------
(***************************************************************************)
(* The grounds for alerts: what the host shows, under the name of its      *)
(* module, and what a read of an interface itself gives rise to.           *)
(***************************************************************************)
\* A lane counts when its data path is activated, which only CMIS lanes tell.
Counts(i, s) ==
  s.lane = 0 \/ (Format[plugged[i]] = "cmis" /\ s.lane \in active[i] \cap Lanes[plugged[i]])

AlertsFor(i, signs, identity) ==
  {Alert(Watching[s.severity], i, Format[plugged[i]], s.label, s.lane, identity) : s \in signs}

\* The alerts the signs of i are grounds for.
Shown(i, identity) ==
  IF plugged[i] = NoModule THEN {}
  ELSE AlertsFor(i, {s \in raised[i] : Counts(i, s)}, identity)

Grounds == UNION {Shown(i, plugged[i]) : i \in Interfaces}

\* A failed read; a module without its name on this page; and, the one ground that is
\* not on the host, an alarm misread from a foreign image.  Of those only the
\* module's own count: SFF lanes pass no gate.
GroundsOfRead(i, outcome) ==
  CASE outcome = "failed"  -> {FailedAlert(i)}
    [] outcome = "blank"   -> Shown(i, Unknown)
    [] outcome = "foreign" -> AlertsFor(i, {s \in Misread[plugged[i]] : s.lane = 0}, plugged[i])
    [] OTHER               -> {}

-----------------------------------------------------------------------------
Init ==
  /\ process = "down"
  /\ hung = FALSE
  /\ plugged \in [Interfaces -> Modules \cup {NoModule}]
  /\ raised = [i \in Interfaces |-> {}]
  /\ active = [i \in Interfaces |-> {}]
  /\ samples = {}
  /\ fresh = FALSE
  /\ held = <<>>
  /\ answered = TRUE
  /\ grounds = {}
  /\ told = {}
  /\ omitted = {}
  /\ just = <<>>
  /\ due = <<>>

Swap(i, m) ==
  /\ plugged[i] # m
  /\ plugged' = [plugged EXCEPT ![i] = m]
  /\ raised' = [raised EXCEPT ![i] = {}]
  /\ active' = [active EXCEPT ![i] = {}]
  /\ UNCHANGED <<process, hung, samples, fresh, answered, grounds, told, omitted, alerting>>

\* A sign appears or clears; the data path of a CMIS lane is activated or deactivated.
Change(i) ==
  /\ plugged[i] # NoModule
  /\ \/ /\ \E s \in Signs[plugged[i]] :
              raised' = [raised EXCEPT ![i] = IF s \in @ THEN @ \ {s} ELSE @ \cup {s}]
        /\ UNCHANGED active
     \/ /\ Format[plugged[i]] = "cmis"
        /\ \E lane \in Lanes[plugged[i]] :
              active' = [active EXCEPT ![i] = IF lane \in @ THEN @ \ {lane} ELSE @ \cup {lane}]
        /\ UNCHANGED raised
  /\ UNCHANGED <<process, hung, plugged, samples, fresh, answered, grounds, told, omitted, alerting>>

\* A transaction of the reader hangs, or ends after all.
Hang ==
  /\ process = "up"
  /\ hung' = ~ hung
  /\ UNCHANGED <<process, plugged, raised, active, samples, fresh, answered, grounds, told, omitted, alerting>>

\* main, up to its server; a process that cannot open the ethtool client or its
\* address exits, and is started again.
Start ==
  /\ process = "down"
  /\ process' = "up"
  /\ UNCHANGED <<host, samples, fresh, answered, grounds, told, omitted, alerting>>

Stop ==
  /\ process = "up"
  /\ process' = "down"
  /\ hung' = FALSE
  /\ UNCHANGED <<plugged, raised, active, samples, fresh, answered, grounds, told, omitted, alerting>>

-----------------------------------------------------------------------------
(***************************************************************************)
(* A scrape ends in one of these ways.                                     *)
(***************************************************************************)
Scraped(page, got, to) ==
  /\ samples' = page
  /\ answered' = got
  /\ fresh' = TRUE
  /\ told' = to
  /\ omitted' = {i \in Interfaces : /\ got
                                   /\ plugged[i] # NoModule /\ i \notin Hidden
                                   /\ \A x \in page : x.iface # i}
  /\ UNCHANGED <<plugged, raised, active, alerting>>

\* Nothing listens, or the gather waits for the reader's mutex past the timeout.
Unanswered ==
  /\ process = "down" \/ hung
  /\ Scraped(Up(0), FALSE, {Down})
  /\ grounds' = Grounds \cup {Down}
  /\ UNCHANGED <<process, hung>>

\* The modules the gather comes to name, for outcomes.
NamedModules(outcome) == {plugged[i] : i \in {j \in Interfaces : outcome[j] \in Read \ {"blank"}}}

\* MustNewConstMetric panics on a label that is not valid UTF-8, in a goroutine of
\* its own: the process ends.
Panic(outcome) ==
  /\ process = "up" /\ ~ hung
  /\ NamedModules(outcome) \cap Unprintable # {}
  /\ process' = "down"
  /\ Scraped(Up(0), FALSE, {Down})
  /\ grounds' = Grounds \cup {Down}
  /\ UNCHANGED hung

\* One series twice: promhttp answers 500.
Refused(outcome) ==
  /\ process = "up" /\ ~ hung
  /\ NamedModules(outcome) \cap Unprintable = {}
  /\ NamedModules(outcome) \cap Repeating # {}
  /\ Scraped(Up(0), FALSE, {Down})
  /\ grounds' = Grounds \cup {Down}
  /\ UNCHANGED <<process, hung>>

\* A page tells of what failed and of the signs of what was read as a whole.
Page(outcome) ==
  LET failed == {i \in Interfaces : outcome[i] = "failed"}
      whole == {i \in Interfaces : outcome[i] = "whole"}
  IN  /\ process = "up" /\ ~ hung
      /\ NamedModules(outcome) \cap (Unprintable \cup Repeating) = {}
      /\ Scraped(Up(1) \cup UNION {Visited(i, outcome[i]) : i \in Interfaces}, TRUE,
                 {FailedAlert(i) : i \in failed} \cup UNION {Shown(i, plugged[i]) : i \in whole})
      /\ grounds' = Grounds \cup UNION {GroundsOfRead(i, outcome[i]) : i \in Interfaces}
      /\ UNCHANGED <<process, hung>>

\* CandidateNames failed, before the reader is asked anything: an empty page, and a
\* successful scrape.
EmptyPage ==
  /\ process = "up"
  /\ AutoDiscovery
  /\ Scraped(Up(1), TRUE, {})
  /\ grounds' = Grounds
  /\ UNCHANGED <<process, hung>>

Scrape ==
  \/ Unanswered
  \/ EmptyPage
  \/ \E outcome \in [Interfaces -> Outcomes] :
        /\ \A i \in Interfaces : outcome[i] \in Outcome(i)
        /\ Panic(outcome) \/ Refused(outcome) \/ Page(outcome)

-----------------------------------------------------------------------------
Saturated(n, r) == IF n <= For[r] THEN n + 1 ELSE n

Count(counts, alerts) ==
  [a \in alerts |-> IF a \in DOMAIN counts THEN Saturated(counts[a], a.rule) ELSE 1]

\* The rules are evaluated, at least one scrape after the last time.
Evaluate ==
  /\ fresh
  /\ fresh' = FALSE
  /\ held' = Age(held, Results(samples))
  /\ just' = Count(just, grounds)
  /\ due' = Count(due, told)
  /\ UNCHANGED <<process, host, samples, answered, grounds, told, omitted>>

Next ==
  \/ \E i \in Interfaces :
        \/ \E m \in Modules \cup {NoModule} : Swap(i, m)
        \/ Change(i)
  \/ Hang \/ Start \/ Stop
  \/ Scrape
  \/ Evaluate

Spec == Init /\ [][Next]_vars

\* Prometheus keeps scraping and evaluating; nothing is assumed of the exporter.
FairSpec == Spec /\ WF_vars(Scrape) /\ WF_vars(Evaluate)

-----------------------------------------------------------------------------
(***************************************************************************)
(* Properties.                                                             *)
(***************************************************************************)
Firing == FiringIn(held)

\* The variables hold values of their types, a module shows only what it can, and no
\* count of evaluations passes its limit.
TypeOK ==
  /\ process \in {"up", "down"}
  /\ hung \in BOOLEAN /\ (hung => process = "up")
  /\ plugged \in [Interfaces -> Modules \cup {NoModule}]
  /\ raised \in [Interfaces -> SUBSET UNION {Signs[m] : m \in Modules}]
  /\ active \in [Interfaces -> SUBSET UNION {Lanes[m] : m \in Modules}]
  /\ \A i \in Interfaces :
       IF plugged[i] = NoModule THEN raised[i] = {} /\ active[i] = {}
       ELSE raised[i] \subseteq Signs[plugged[i]] /\ active[i] \subseteq Lanes[plugged[i]]
  /\ fresh \in BOOLEAN /\ answered \in BOOLEAN
  /\ omitted \subseteq Interfaces
  /\ \A a \in DOMAIN held : held[a] \in 0 .. For[a.rule]
  /\ \A a \in DOMAIN just : just[a] \in 1 .. For[a.rule] + 1
  /\ \A a \in DOMAIN due : due[a] \in 1 .. For[a.rule] + 1

\* No alert fires without its cause: when the rules are evaluated, a firing alert
\* had its ground at the scrape before each of the last For evaluations and the one
\* now.  That is a sign the module shows, for a lane with its data path activated
\* each time, under the name of that module, or under no name while each of the
\* scrapes left its page 00h unread; or an alarm each of them misread from an image
\* the netlink fallback laid out, which is how an alert fires that its module gives no
\* cause for (ActiveMeansOutside; alerts.libsonnet:3-20, README.md:51-53).
FiresOnlyForCause ==
  \A a \in Firing : a \in DOMAIN just /\ just[a] > For[a.rule]

\* What stands is told: a sign that each of those scrapes read as a whole, an
\* interface that failed in each, and an exporter that answered none of them, for
\* whatever changing reason, has its alert firing (alerts.libsonnet:27-118).
StandingIsFiring ==
  \A a \in DOMAIN due : due[a] > For[a.rule] => a \in Firing

\* Once every ground is gone for good, every alert ends, and no alert comes back.  A
\* misread alarm is such a ground: a QSFP module that is always read by the fallback
\* keeps its alert, however healthy it is.
AlertsClear == <>[](grounds = {}) => <>[](Firing = {})

\* An exporter that never answers again is noticed, even if it is restarted and
\* killed by its next scrape for ever, or listens while its reader hangs.
OutageIsNoticed == <>[](~ answered) => <>[](Down \in Firing)

\* Warning alerts are "signals for missing telemetry" (runbook.md:4-5): when pages
\* never again say anything of the module in a supported cage, a telemetry alert
\* fires in the end.
SilenceIsTicketed ==
  \A i \in Interfaces :
    <>[](i \in omitted) => <>({Down, FailedAlert(i)} \cap Firing # {})
=============================================================================
