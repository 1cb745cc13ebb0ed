--------------------------- MODULE DiagnosticAlarms ---------------------------
(***************************************************************************)
(* The alarms the decoders report (common.go and the end of cmis.go).  An  *)
(* alarm is a record [of, bound, severity, lane]: of a quantity the "high" *)
(* or "low" bound is crossed at "alarm" or "warning" level, or a "fault"   *)
(* is flagged; lane 0 is the module itself.  A source of alarms gives      *)
(* entries, each an alarm that is active or not.                           *)
(***************************************************************************)
EXTENDS Naturals

Boundaries == {"high", "low"} \X {"alarm", "warning"}

Alarm(of, bound, severity, lane) ==
  [of |-> of, bound |-> bound, severity |-> severity, lane |-> lane]

Entry(alarm, active) == [alarm |-> alarm, active |-> active]

\* The four alarms each quantity and lane in compared can have.
BoundAlarms(compared) ==
  {Alarm(c[1], b[1], b[2], c[2]) : c \in compared, b \in Boundaries}

\* thresholdAlarmsWithLane: four entries for every quantity and lane compared.
ThresholdEntries(compared, exceeded) ==
  {Entry(a, a \in exceeded) : a \in BoundAlarms(compared)}

\* Mutant: a later source overrules an earlier one.
MergeAlarmsAll(entries) ==
  [a \in {e.alarm : e \in entries} |-> \A e \in entries : e.alarm = a => e.active]

\* mergeAlarms: one alarm per key, active if any source says so.
MergeAlarms(entries) ==
  [a \in {e.alarm : e \in entries} |-> \E e \in entries : e.alarm = a /\ e.active]
=============================================================================
