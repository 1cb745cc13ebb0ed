------------------------------ MODULE Collector ------------------------------
(***************************************************************************)
(* transceiverCollector.Collect (collector.go) under concurrent scrapes:   *)
(* each HTTP request gathers the registry, which runs Collect in its own   *)
(* goroutine; Collect lists interfaces, reads, decodes and emits one after *)
(* another while modules are swapped and devices come and go.  A visit of  *)
(* an interface is one step: the shared reader serializes reads and the    *)
(* rest of the visit is local to the goroutine.  A goroutine that panics   *)
(* takes the process, and every scrape in flight, with it.                 *)
(***************************************************************************)
EXTENDS Naturals, Sequences, FiniteSets, SequencesExt

CONSTANTS
  Scrapes,      \* concurrent HTTP requests
  Interfaces,
  FlagLists,    \* the --interface flags, in order; <<>> means auto-discovery
  Physical,     \* non-loopback interfaces with a device in sysfs
  Supports,     \* Supports[i]: the paths on which i's driver reads modules
  ReaderPaths,  \* the paths the reader has: ioctl, and netlink if it opened
  Modules, NoModule,
  Decoded,      \* Decoded[m]: what sff.Decode makes of module m
  Undecodable,  \* sff.Decode failed
  Unprintable,  \* the modules that name themselves in bytes that are no UTF-8
  MaxEvents     \* bound on swaps and devices coming and going

ASSUME CollectorAssumption ==
  /\ IsFiniteSet(Interfaces)
  /\ FlagLists \subseteq Seq(Interfaces)
  /\ Physical \subseteq Interfaces
  /\ Supports \in [Interfaces -> SUBSET {"ioctl", "netlink"}]
  /\ ReaderPaths \in {{"ioctl"}, {"ioctl", "netlink"}}
  /\ NoModule \notin Modules
  /\ Unprintable \subseteq Modules
  /\ MaxEvents \in Nat

InventoryMetrics ==
  {"wavelength_nanometers", "wavelength_tolerance_nanometers", "module_power_class",
   "module_power_max_watts", "nominal_bitrate_mbd"}
GaugeMetrics == {"temperature_celsius", "voltage_volts"}

\* A decoder numbers its lanes (cmis.go:182, sff8636.go:111, sff8472.go:63), appends
\* the thresholds of one monitor and lane once (common.go:51-62), and merges alarms
\* by name, severity and lane (cmis.go:665) or raises each once (sff8472.go:68-73).
ASSUME DecodedAssumption ==
  \A m \in Modules : Decoded[m] # Undecodable =>
    /\ Decoded[m].inventory \subseteq InventoryMetrics
    /\ Decoded[m].gauges \subseteq GaugeMetrics
    /\ \A j, k \in DOMAIN Decoded[m].lanes :
          Decoded[m].lanes[j].index = Decoded[m].lanes[k].index => j = k
    /\ \A j, k \in DOMAIN Decoded[m].thresholds :
          /\ Decoded[m].thresholds[j].name = Decoded[m].thresholds[k].name
          /\ Decoded[m].thresholds[j].lane = Decoded[m].thresholds[k].lane
          => j = k
    /\ \A j, k \in DOMAIN Decoded[m].alarms :
          /\ Decoded[m].alarms[j].name = Decoded[m].alarms[k].name
          /\ Decoded[m].alarms[j].lane = Decoded[m].alarms[k].lane
          => j = k

VARIABLES
  flags,     \* c.interfaces, fixed when the exporter starts
  plugged,   \* plugged[i]: the module in cage i, or NoModule
  present,   \* the network devices the kernel lists
  events,    \* bounded by MaxEvents
  pc,        \* pc[s]: the next statement of Collect in scrape s
  list,      \* list[s]: the interfaces Collect iterates over
  at,        \* at[s]: the position of the loop in list[s]
  out,       \* out[s]: the samples sent on the channel so far
  status,    \* status[s]: of the HTTP answer, a "200" page carrying out[s]; or "lost"
  saw        \* history: what each visit got from the reader and the decoder

env == <<flags, plugged, present, events>>
vars == <<flags, plugged, present, events, pc, list, at, out, status, saw>>

AutoDiscovered == flags = <<>>

\* The interfaces a module can be read from; what sits elsewhere is not seen.
Cages == {i \in Interfaces : Supports[i] \cap ReaderPaths # {}}

-----------------------------------------------------------------------------
(***************************************************************************)
(* Emission.  A sample is a series, its value and the place in the code's  *)
(* iteration that sent it, so that two samples of one series are two.      *)
(***************************************************************************)
Sample(name, i, labels, val, pos) ==
  [name |-> name, iface |-> i, labels |-> labels, val |-> val, pos |-> pos]

SeriesOf(x) == <<x.name, x.iface, x.labels>>

ScrapeSuccess(i, ok, pos) == {Sample("scrape_success", i, <<>>, ok, <<pos, 0>>)}

If(cond, samples) == IF cond THEN samples ELSE {}

\* Mutant: the lane label is left out.
LaneSamplesNoLabel(i, map, lane, pos) ==
  {Sample(name, i, <<map>>, 1, pos) : name \in {"tx_bias_milliamps", "tx_power_milliwatts"}}

\* Readings are "none", "zero" (or less) or "positive": dBm needs a positive one.
LaneSamples(i, map, lane, pos) ==
  LET One(name) == {Sample(name, i, <<map, lane.index>>, 1, pos)}
  IN  UNION {
        If(lane.bias # "none", One("tx_bias_milliamps")),
        If(lane.tx # "none", One("tx_power_milliwatts")),
        If(lane.tx = "positive", One("tx_power_dbm")),
        If(lane.rx # "none", One("rx_power_milliwatts")),
        If(lane.rx = "positive", One("rx_power_dbm")),
        If(lane.state # "",
           {Sample("lane_datapath_state", i, <<map, lane.index, lane.state>>, 1, pos)})}

\* emitModuleInventory: what is zero or nil is left out, lengths are a list.
Inventory(i, d, pos) ==
  LET Status(name, label) == Sample(name, i, <<d.map, label>>, 1, <<pos, 0>>)
  IN  UNION {
        If(d.status # "none", {Status("module_status", d.status),
                               Status("module_low_power_status", "hardware"),
                               Status("module_low_power_status", "software")}),
        {Sample(name, i, <<d.map>>, 1, <<pos, 0>>) : name \in d.inventory},
        {Sample("link_length_meters", i, <<d.map, d.lengths[k]>>, 1, <<pos, k>>) :
           k \in DOMAIN d.lengths}}

Emission(i, d, pos) ==
  UNION {
    {Sample("module_info", i, <<d.map>>, 1, <<pos, 0>>)},
    Inventory(i, d, pos),
    {Sample(name, i, <<d.map>>, 1, <<pos, 0>>) : name \in d.gauges},
    UNION {LaneSamples(i, d.map, d.lanes[k], <<pos, k>>) : k \in DOMAIN d.lanes},
    {Sample("diagnostic_threshold", i,
            <<d.map, d.thresholds[k].name, d.thresholds[k].lane>>, 1, <<pos, k>>) :
       k \in DOMAIN d.thresholds},
    {Sample("alarm_status", i, <<d.map, d.alarms[k].name, d.alarms[k].lane>>,
            d.alarms[k].active, <<pos, k>>) : k \in DOMAIN d.alarms}}

-----------------------------------------------------------------------------
(***************************************************************************)
(* The reader and the network devices, as the collector uses them.         *)
(***************************************************************************)

\* A path the driver of i supports fails with any of these (an empty cage has its
\* own), a path it lacks with EOPNOTSUPP only.
PathErrors(i, p) ==
  IF p \in Supports[i] THEN {"EIO", "EOPNOTSUPP", "ENODEV"} ELSE {"EOPNOTSUPP"}

\* The errnos errors.Join can have collected when no path of the reader read i.
ReadErrors(i) ==
  IF i \notin present THEN {{"ENODEV"}}
  ELSE {errs \in SUBSET UNION {PathErrors(i, p) : p \in ReaderPaths} :
          \E err \in [ReaderPaths -> errs] :
            /\ errs = {err[p] : p \in ReaderPaths}
            /\ \A p \in ReaderPaths : err[p] \in PathErrors(i, p)}

\* Mutant: a driver without the operation is not recognised.
IsUnsupportedModuleErrorNoOp(errs) == errs \cap {"ENODEV", "ENOTTY"} # {}

\* errors.Is looks through errors.Join: one such errno among them is enough.
IsUnsupportedModuleError(errs) ==
  errs \cap {"EOPNOTSUPP", "ENODEV", "ENOTTY"} # {}

Readable(i) == i \in Cages \cap present /\ plugged[i] # NoModule

\* What ModuleEEPROM(i) can come to: an error, or data that sff.Decode accepts
\* or (empty, torn or foreign data) refuses.
Visits(i) ==
  {[kind |-> "error", errs |-> errs, module |-> NoModule] : errs \in ReadErrors(i)}
  \cup (IF Readable(i)
          THEN {[kind |-> "refused", errs |-> {}, module |-> plugged[i]]}
               \cup {[kind |-> "decoded", errs |-> {}, module |-> m] :
                       m \in {plugged[i]} \cap {n \in Modules : Decoded[n] # Undecodable}}
          ELSE {})

\* MustNewConstMetric panics on a label value that is no UTF-8 (collector.go:279),
\* and nothing recovers in the goroutine that gathers.
Panics(visit) == visit.kind = "decoded" /\ visit.module \in Unprintable

Swap(i, m) ==
  /\ events < MaxEvents
  /\ plugged[i] # m
  /\ plugged' = [plugged EXCEPT ![i] = m]
  /\ events' = events + 1
  /\ UNCHANGED <<flags, present, pc, list, at, out, status, saw>>

DeviceComesOrGoes(i) ==
  /\ events < MaxEvents
  /\ present' = IF i \in present THEN present \ {i} ELSE present \cup {i}
  /\ events' = events + 1
  /\ UNCHANGED <<flags, plugged, pc, list, at, out, status, saw>>

-----------------------------------------------------------------------------
(***************************************************************************)
(* One scrape.                                                             *)
(***************************************************************************)
Init ==
  /\ flags \in FlagLists
  /\ plugged \in [Cages -> Modules \cup {NoModule}]
  /\ present = Interfaces
  /\ events = 0
  /\ pc = [s \in Scrapes |-> "idle"]
  /\ list = [s \in Scrapes |-> <<>>]
  /\ at = [s \in Scrapes |-> 1]
  /\ out = [s \in Scrapes |-> {}]
  /\ status = [s \in Scrapes |-> "none"]
  /\ saw = [s \in Scrapes |-> <<>>]

\* Mutant: the loop goes on where the last scrape left it.
BeginNoReset(s) ==
  /\ pc[s] = "idle"
  /\ pc' = [pc EXCEPT ![s] = "list"]
  /\ list' = [list EXCEPT ![s] = <<>>]
  /\ out' = [out EXCEPT ![s] = {}]
  /\ status' = [status EXCEPT ![s] = "none"]
  /\ saw' = [saw EXCEPT ![s] = <<>>]
  /\ UNCHANGED <<flags, plugged, present, events, at>>

Begin(s) ==
  /\ pc[s] = "idle"
  /\ pc' = [pc EXCEPT ![s] = "list"]
  /\ list' = [list EXCEPT ![s] = <<>>]
  /\ at' = [at EXCEPT ![s] = 1]
  /\ out' = [out EXCEPT ![s] = {}]
  /\ status' = [status EXCEPT ![s] = "none"]
  /\ saw' = [saw EXCEPT ![s] = <<>>]
  /\ UNCHANGED env

\* CandidateNames keeps the physical non-loopback devices of this moment.
CandidateNames == SetToSeq(Physical \cap present)

\* The explicit names, or a fresh discovery; if that fails Collect returns.
ListInterfaces(s) ==
  /\ pc[s] = "list"
  /\ \/ /\ list' = [list EXCEPT ![s] = IF AutoDiscovered THEN CandidateNames ELSE flags]
        /\ pc' = [pc EXCEPT ![s] = "loop"]
     \/ /\ AutoDiscovered
        /\ pc' = [pc EXCEPT ![s] = "gathered"]
        /\ UNCHANGED list
  /\ UNCHANGED <<flags, plugged, present, events, at, out, status, saw>>

\* Mutant: what could not be decoded is still described.
EmittedAnyway(i, visit, pos) ==
  IF visit.kind = "decoded"
    THEN ScrapeSuccess(i, 1, pos) \cup Emission(i, Decoded[visit.module], pos)
    ELSE ScrapeSuccess(i, 0, pos) \cup {Sample("module_info", i, <<"cmis">>, 1, <<pos, 0>>)}

\* Mutant: explicit interfaces are skipped like discovered ones.
EmittedSkipAll(i, visit, pos) ==
  CASE visit.kind = "decoded" ->
         ScrapeSuccess(i, 1, pos) \cup Emission(i, Decoded[visit.module], pos)
    [] visit.kind = "error" /\ IsUnsupportedModuleError(visit.errs) -> {}
    [] OTHER -> ScrapeSuccess(i, 0, pos)

Emitted(i, visit, pos) ==
  CASE visit.kind = "decoded" ->
         ScrapeSuccess(i, 1, pos) \cup Emission(i, Decoded[visit.module], pos)
    [] visit.kind = "error" /\ AutoDiscovered /\ IsUnsupportedModuleError(visit.errs) -> {}
    [] OTHER -> ScrapeSuccess(i, 0, pos)

\* Mutant: a failed visit is repeated until it succeeds.
VisitRetry(s) ==
  /\ pc[s] = "loop"
  /\ at[s] <= Len(list[s])
  /\ LET i == list[s][at[s]]
     IN  \E visit \in Visits(i) :
           /\ ~ Panics(visit)
           /\ out' = [out EXCEPT ![s] = @ \cup Emitted(i, visit, at[s])]
           /\ at' = [at EXCEPT ![s] = IF visit.kind = "decoded" THEN @ + 1 ELSE @]
  /\ UNCHANGED <<flags, plugged, present, events, pc, list, status, saw>>

Visit(s) ==
  /\ pc[s] = "loop"
  /\ at[s] <= Len(list[s])
  /\ LET i == list[s][at[s]]
     IN  \E visit \in Visits(i) :
           /\ ~ Panics(visit)
           /\ out' = [out EXCEPT ![s] = @ \cup Emitted(i, visit, at[s])]
           /\ saw' = [saw EXCEPT ![s] = Append(@, visit)]
  /\ at' = [at EXCEPT ![s] = @ + 1]
  /\ UNCHANGED <<flags, plugged, present, events, pc, list, status>>

\* The process ends, and with it every scrape in flight; it is started again with
\* the flags it had, and remembers nothing.
Panic(s) ==
  /\ pc[s] = "loop"
  /\ at[s] <= Len(list[s])
  /\ \E visit \in Visits(list[s][at[s]]) : Panics(visit)
  /\ pc' = [t \in Scrapes |-> "idle"]
  /\ status' = [t \in Scrapes |-> IF pc[t] = "idle" THEN status[t] ELSE "lost"]
  /\ UNCHANGED <<flags, plugged, present, events, list, at, out, saw>>

\* Mutant: the loop ends one interface early.
EndLoopEarly(s) ==
  /\ pc[s] = "loop"
  /\ at[s] >= Len(list[s])
  /\ pc' = [pc EXCEPT ![s] = "gathered"]
  /\ UNCHANGED <<flags, plugged, present, events, list, at, out, status, saw>>

EndLoop(s) ==
  /\ pc[s] = "loop"
  /\ at[s] > Len(list[s])
  /\ pc' = [pc EXCEPT ![s] = "gathered"]
  /\ UNCHANGED <<flags, plugged, present, events, list, at, out, status, saw>>

\* Registry.Gather refuses two samples of one series, and promhttp then answers
\* the whole request with an error (HTTPErrorOnError, the default).
Consistent(samples) ==
  \A x, y \in samples : SeriesOf(x) = SeriesOf(y) => x = y

Respond(s) ==
  /\ pc[s] = "gathered"
  /\ status' = [status EXCEPT ![s] = IF Consistent(out[s]) THEN "200" ELSE "500"]
  /\ pc' = [pc EXCEPT ![s] = "idle"]
  /\ UNCHANGED <<flags, plugged, present, events, list, at, out, saw>>

Step(s) == ListInterfaces(s) \/ Visit(s) \/ Panic(s) \/ EndLoop(s) \/ Respond(s)

Next ==
  \/ \E i \in Cages, m \in Modules \cup {NoModule} : Swap(i, m)
  \/ \E i \in Interfaces : DeviceComesOrGoes(i)
  \/ \E s \in Scrapes : Begin(s) \/ Step(s)

Spec == Init /\ [][Next]_vars

\* Every request has a goroutine of its own, and its reads end (CallsReturn of
\* ModuleReader), so a scrape that can go on goes on.
FairSpec == Spec /\ \A s \in Scrapes : WF_vars(Step(s))

-----------------------------------------------------------------------------
(***************************************************************************)
(* Properties.                                                             *)
(***************************************************************************)
Undecided == {"list", "loop", "gathered"}
Served(s) == status[s] = "200"
Answered(s) == status[s] \in {"200", "500"}
Page(s) == IF Served(s) THEN out[s] ELSE {}
Mine(i, samples) == {x \in samples : x.iface = i}
Successes(i, samples) == {x.val : x \in {y \in Mine(i, samples) : y.name = "scrape_success"}}
Content(samples) == {<<SeriesOf(x), x.val>> : x \in samples}

\* The variables hold values of their types: a loop position stays within one of
\* the end of its list, and every visit made has left its record.
TypeOK ==
  /\ flags \in FlagLists
  /\ plugged \in [Cages -> Modules \cup {NoModule}]
  /\ present \subseteq Interfaces
  /\ events \in 0 .. MaxEvents
  /\ \A s \in Scrapes :
       /\ pc[s] \in Undecided \cup {"idle"}
       /\ list[s] \in Seq(Interfaces)
       /\ at[s] \in 1 .. Len(list[s]) + 1
       /\ Len(saw[s]) = at[s] - 1
       /\ status[s] \in {"none", "200", "500", "lost"}

\* A page never shows half an interface: where it says success, the rest of the
\* interface's series are all those of one decoded module and of no other, and
\* where it does not, the interface has no other series (collector.go:252-270).
ServedWhole ==
  \A s \in Scrapes : Served(s) =>
    \A i \in Interfaces :
      LET samples == {x \in Mine(i, Page(s)) : x.name # "scrape_success"}
      IN  IF 1 \in Successes(i, Page(s))
            THEN \E m \in {n \in Modules : Decoded[n] # Undecodable} :
                   Content(samples) = Content(Emission(i, Decoded[m], 0))
            ELSE samples = {}

\* Gathering fails, and every interface's telemetry with it, only when the flags
\* name an interface twice or a decoded module lists one medium twice: no two
\* other samples share a series, lanes and thresholds included (collector.go:274-399).
RefusedOnlyForRepeats ==
  \A s \in Scrapes : status[s] = "500" =>
    \/ ~ IsInjective(list[s])
    \/ \E p \in DOMAIN saw[s] :
          saw[s][p].kind = "decoded" /\ ~ IsInjective(Decoded[saw[s][p].module].lengths)

\* With --interface flags a served page has a verdict on every one of them, even
\* if its device is gone or unsupported (collector.go:55-56 and 254).
ExplicitAlwaysJudged ==
  \A s \in Scrapes : Served(s) =>
    \A p \in DOMAIN flags : Successes(flags[p], Page(s)) # {}

\* Auto-discovery "ignores devices that do not support module EEPROM access"
\* (collector.go:54): a device none of whose paths can read modules, virtual
\* devices and devices that vanish before their visit get no series at all.
UnsupportedStaysSilent ==
  \A s \in Scrapes : Served(s) /\ AutoDiscovered =>
    \A i \in Interfaces :
      \/ Supports[i] \cap ReaderPaths = {}
      \/ i \notin Physical
      \/ \E p \in DOMAIN saw[s] : list[s][p] = i /\ saw[s][p].errs = {"ENODEV"}
      => Mine(i, Page(s)) = {}

\* "Whether the exporter successfully read and decoded the interface during this
\* scrape" (collector.go:95): an interface that was read and decoded says so in
\* the answer of that scrape.
DecodedIsExported ==
  \A s \in Scrapes : Answered(s) /\ IsInjective(list[s]) =>
    \A p \in DOMAIN saw[s] :
      saw[s][p].kind = "decoded" => 1 \in Successes(list[s][p], Page(s))

\* Only "devices that do not support module EEPROM access" are ignored
\* (collector.go:54-55): a device whose module read failed on a path it supports
\* is reported as failed.
SupportedIsReported ==
  \A s \in Scrapes : Served(s) =>
    \A p \in DOMAIN saw[s] :
      "EIO" \in saw[s][p].errs => 0 \in Successes(list[s][p], Page(s))

\* However modules and devices change under it, every request ends, and it ends
\* without its answer only at a moment when a module with an unprintable name is
\* plugged: nothing else can take the process down (collector.go:251, 279).
ScrapesEnd ==
  /\ \A s \in Scrapes : pc[s] = "list" ~> pc[s] = "idle" /\ status[s] # "none"
  /\ [][\A s \in Scrapes : status'[s] = "lost" /\ status[s] # "lost" =>
          \E i \in Cages : plugged[i] \in Unprintable]_vars

(***************************************************************************)
(* Collect keeps the promise of ScrapeVerdicts: the verdict on an          *)
(* interface is what the samples sent so far say of it.                    *)
(***************************************************************************)
VerdictOf(names, next, samples, i) ==
  LET visited == {p \in DOMAIN names : names[p] = i}
      vals == Successes(i, samples)
  IN  IF visited = {} THEN "unlisted"
      ELSE CASE vals = {0, 1} -> "both"
             [] vals = {1}    -> "ok"
             [] vals = {0}    -> "failed"
             [] OTHER -> IF \E p \in visited : p < next THEN "absent" ELSE "pending"

Running == [s \in Scrapes |-> pc[s] # "idle"]
VerdictsSoFar ==
  [s \in Scrapes |-> [i \in Interfaces |-> VerdictOf(list[s], at[s], out[s], i)]]
Answers == [s \in Scrapes |-> Served(s)]

Promise == INSTANCE ScrapeVerdicts WITH
  running <- Running, verdict <- VerdictsSoFar, served <- Answers

\* One verdict per interface, none taken back, none pending or contradicting
\* another in a page that is served (collector.go:239-272, promhttp's default).
ImplementsVerdicts == Promise!Spec
=============================================================================
