------------------------------ MODULE AlertRules ------------------------------
(***************************************************************************)
(* The alert rules of the mixin (alerts.libsonnet) over the samples of one *)
(* scrape.  A sample is a record of its metric's name, its value and the   *)
(* labels the rules match on, "" or 0 where a metric does not have them;   *)
(* identity stands for vendor, part_number, serial_number and form_factor. *)
(* The labels cluster, job and instance are those of the one target.       *)
(***************************************************************************)
EXTENDS Naturals

CONSTANT For  \* For[r]: how many evaluations after its first an alert of rule r fires

Rules == {"ExporterDown", "ScrapeFailed", "WarningActive", "AlarmActive", "FaultActive",
          "ModuleFault", "ModuleLowPower"}

ASSUME ForAssumption == For \in [Rules -> Nat]

Sample(name, iface, format, label, severity, lane, val) ==
  [name |-> name, iface |-> iface, format |-> format, label |-> label,
   severity |-> severity, lane |-> lane, val |-> val]

\* What identifies an alert instance: its rule and the labels of its result.
Alert(rule, iface, format, label, lane, identity) ==
  [rule |-> rule, iface |-> iface, format |-> format, label |-> label, lane |-> lane,
   identity |-> identity]

Named(samples, name) == {x \in samples : x.name = name}

\* Mutant: any activated lane of the module opens the gate.
GatedLoose(samples, x) ==
  \E y \in Named(samples, "lane_datapath_state") :
    /\ y.label = "activated"
    /\ <<y.iface, y.format>> = <<x.iface, x.format>>

\* and on(cluster, job, instance, interface, format, lane)
Gated(samples, x) ==
  \E y \in Named(samples, "lane_datapath_state") :
    /\ y.label = "activated"
    /\ <<y.iface, y.format, y.lane>> = <<x.iface, x.format, x.lane>>

\* activeAlarmExpr: of the module itself, or of a lane whose data path is activated.
ActiveAlarms(samples, severity) ==
  {x \in Named(samples, "alarm_status") :
     x.severity = severity /\ x.val = 1 /\ (x.lane = 0 \/ Gated(samples, x))}

\* withModuleInfo: what has a module_info of the same interface and format, with
\* the identity labels that one has.
WithModuleInfo(rule, xs, samples) ==
  {Alert(rule, xi[1].iface, xi[1].format, xi[1].label, xi[1].lane, xi[2].label) :
     xi \in {p \in xs \X Named(samples, "module_info") :
              <<p[1].iface, p[1].format>> = <<p[2].iface, p[2].format>>}}

\* Mutant: the target, too, is joined with what it says of its modules.
ExporterDownJoined(samples) ==
  WithModuleInfo("ExporterDown", {y \in Named(samples, "up") : y.val = 0}, samples)

ExporterDown(samples) ==
  {Alert("ExporterDown", x.iface, "", "", 0, "") : x \in {y \in Named(samples, "up") : y.val = 0}}

\* expr of each rule, as the alerts its results make.
Results(samples) ==
  UNION {
    ExporterDown(samples),
    {Alert("ScrapeFailed", x.iface, "", "", 0, "") :
       x \in {y \in Named(samples, "scrape_success") : y.val = 0}},
    WithModuleInfo("WarningActive", ActiveAlarms(samples, "warning"), samples),
    WithModuleInfo("AlarmActive", ActiveAlarms(samples, "alarm"), samples),
    WithModuleInfo("FaultActive", ActiveAlarms(samples, "fault"), samples),
    WithModuleInfo("ModuleFault",
      {x \in Named(samples, "module_status") : x.label = "fault"}, samples),
    WithModuleInfo("ModuleLowPower",
      {x \in Named(samples, "module_low_power_status") : x.val = 1}, samples)}

-----------------------------------------------------------------------------
(***************************************************************************)
(* held[a] counts the evaluations alert a has been active for after the    *)
(* first, up to For; an evaluation that does not find it forgets it.       *)
(***************************************************************************)
\* Mutant: an alert that is firing stays.
AgeSticky(held, results) ==
  LET kept == results \cup {a \in DOMAIN held : held[a] >= For[a.rule]}
  IN  [a \in kept |-> IF a \notin DOMAIN held THEN 0
                      ELSE IF held[a] < For[a.rule] THEN held[a] + 1 ELSE held[a]]

\* Mutant: the pending time runs one evaluation too long.
AgeTooLong(held, results) ==
  [a \in results |-> IF a \notin DOMAIN held THEN 0
                     ELSE IF held[a] <= For[a.rule] THEN held[a] + 1 ELSE held[a]]

Age(held, results) ==
  [a \in results |-> IF a \notin DOMAIN held THEN 0
                     ELSE IF held[a] < For[a.rule] THEN held[a] + 1 ELSE held[a]]

FiringIn(held) == {a \in DOMAIN held : held[a] >= For[a.rule]}
=============================================================================
