# Verification of transceiver_exporter

TLA+ models of transceiver_exporter, the Prometheus exporter for optical module
EEPROM telemetry, checked with TLC on small instances and, where it matters
most, proved with TLAPS for every instance. Paths and line numbers below are
relative to the repository root.

## The system

| Part | State it keeps | Operations | Talks to |
|---|---|---|---|
| Module EEPROM reader (`pkg/moduleeeprom`) | one mutex, one ioctl descriptor, one netlink connection | `New`, `ModuleEEPROM`, `Close` | kernel drivers and, through them, the modules |
| Collector (`collector`) | the `--interface` list, metric descriptors | `Describe`, `Collect`, once per scrape | reader, decoder, discovery; the registry gathers what it sends |
| Discovery (`pkg/netdev`) | none | `CandidateNames`, `IsUnsupportedModuleError` | the kernel's device list, sysfs |
| Decoders (`pkg/sff`) | none | `Decode` to SFF-8472, SFF-8636 or CMIS | - |
| Module model (`pkg/transceiver`) | none | record types and names | - |
| Exporter (`cmd/transceiver_exporter`) | the shared reader, the registry; whether it is running | start, one gather per HTTP request, exit | collector |
| CLI (`pkg/transceiverctl`) | one run | parse, read, decode, print, exit | reader, decoders, discovery |
| Alert rules and dashboards (`mixin`, `grafana`) | pending timers, in Prometheus | PromQL over the exported series | the page a scrape serves |
| Helm chart, build files | none | - | - |

### What is hard about it

* **One reader, many scrapes.** Every HTTP request runs `Collect` in a goroutine
  of its own; all of them share one reader. A call is up to ten device
  transactions on three paths (preferred netlink, upgrade from ioctl data to
  netlink, fallback after an ioctl failure), and any of them can fail.
* **Modules are hot-swappable.** Identifier, flat bit, bank count, pages and
  lanes of one answer can come from two modules.
* **Errors are partial.** A page that cannot be read is skipped and leaves a
  zero-filled gap; an interface that cannot be read is skipped or judged
  depending on joined errnos; one duplicate series refuses the page of the host.
* **Absence is information.** Alerts fire on series; what is silently missing
  cannot fire. What may be missing, and when, is most of what is specified here.
* **The process dies.** A label that is not valid UTF-8 panics in a gather, a
  wedged driver keeps the mutex; the alerts are all that is left to tell.

`PROJECT.json` lists every hazard at its line with the properties that cover it.

## The modules

```
ModuleMemory        the image of a module, in 128-byte pages
 |-- ModuleReads        abstract: what a call of the reader promises
 |-- ModuleReader       the reader, transaction by transaction (implements ModuleReads)
 |-- CmisDecoder        lanes, alarms and thresholds of a CMIS image
 `-- SffDecoder         lanes and alarms of SFF-8472 and SFF-8636 images
DiagnosticAlarms    alarms, threshold comparison and merge, shared by the decoders
CmisReading         = ModuleReader + CmisDecoder: what becomes of a torn or short read
ModuleReading       = CmisReading + SffDecoder + the dispatch of sff.Decode
LinkLengths         the lengths the three decoders report, as the collector labels them
ScrapeVerdicts      abstract: what a scrape promises about each interface
Collector           concurrent scrapes (implements ScrapeVerdicts)
AlertRules          the rules of the mixin over the samples of a scrape, and their timers
Monitoring          = exporter process + host + Prometheus + AlertRules
Transceiverctl      one run of the command
MC_*                instances for TLC
*Proofs, ModuleReaderContract, ModuleReadingAlarms, CollectorPages
                    theorems, see "What is proved"
```

**ModuleMemory.** `pkg/moduleeeprom` and `pkg/sff` address the byte image in
pages of 128 bytes; the models do the same. A slot holds the module its bytes
were read from, `Zero` for a fill, or `Missing` past the end of the slice. This
is all the properties need: which module, which page, real or filled.
`AppendPage` is `appendPage` with its zero fill; `Legacy` is what an ioctl gives,
two to five pages as the driver reports. A reply shorter than a page is
not modelled; a transaction gives a page or fails.

**ModuleReader.** `lock` is `r.mu`, `pc[c]` the next statement of goroutine c in
`ModuleEEPROM` or `Close`, `frame[c]` its locals. Each action is one transaction
with the code that handles its answer: `Identify` (reader.go:98-107), `ReadLower`
to `ReadBank` (netlink_linux.go:74-113), `Ioctl` (reader.go:109-133). `site`
says from which of its three call sites the netlink read was started, hence what
its failure does (`NetlinkFailed`). `triedNetlink` is `nlErr # {}`: a netlink
read that succeeded has returned. `Swap` changes the module in a cage between
any two steps. `window` is a history variable: what sat in a call's interface
since it began.

**CmisDecoder** gives the operators of cmis.go over such images: which banks and
lanes are decoded (`Lanes`), the flag and threshold alarms and their merge.
What a module's bytes say is a constant of the module (`Apps`, `Advert`,
`LaneData`, `Limits`, `Exceeded`); in a torn image each is taken from the module
whose page is there. Numbers are abstracted to what is compared: a reading is
beyond a limit or not, a monitor is lit (neither 0 nor 0xffff) or not.
`ZeroPages` are the pages 11h a module has with no bit set, which the decoder
cannot tell from a fill. `ContentAssumption` ties these constants to what bytes
can say: flags have the names of the code's tables, a reading is compared only
with the block of its own quantity, and a page of zeroes has nothing in it.

**SffDecoder** is the same for sff8472.go and sff8636.go. The two decoders look
for thresholds at fixed byte offsets, which are slots of the image: A2h for
SFF-8472, page 03h for SFF-8636, if the ioctl filled the image. Netlink puts
other pages into the same slots, so what a page says as thresholds is a constant
of the page *and the path* (`Blocks`, `Crossed`). The latched flags of an
SFF-8636 module are modelled bit by bit (`FlagBit`), because the layout is what
can be wrong there. `CrossedAssumption` says that a block of zeroes is compared
with nothing.

**ModuleReading** composes all of this: the steps are those of the reader, and
`Detect` picks the decoder that is applied to what a call returned. Its
properties speak of the lanes the code can come to (`LanesInReach`) and of the
bits that flag an alarm (`FlagPositions`, of bytes 3, 4, 6, 7 and 9 to 14): a
module may set others.

**Collector.** A visit of an interface (read, decode, emit) is one step, because
the reader serializes reads (proved, below) and the rest of the visit is local.
A sample has the name and labels that make its series, and the place in the
loops that sent it, so that two sends of one series remain two. An image torn
between two modules is, here, one more decoded module: what it decodes to is the
subject of `ModuleReading`. `saw` records what each visit got. A failed read is the set of errnos `errors.Join` can have
collected (`ReadErrors`): one per path, and a driver that has a path may answer
there, of an empty cage, what `IsUnsupportedModuleError` takes for a missing
operation. A vendor string that is not UTF-8 panics in `MustNewConstMetric`
(`collector.go:279`): `Panic` ends the process with every scrape in flight, which
are then `lost`, and the process is started again with its flags. The registry
and promhttp are external: a gather with two samples of one series is refused and
the request is answered with an error, the default of `promhttp.HandlerOpts`,
which main.go does not change.
`DecodedAssumption` is what the collector gets from the decoders: lanes are
numbered apart, and thresholds and alarms come once for each name and lane.

**AlertRules** translates each expression of `alerts.libsonnet` to an operator on
the samples of one scrape: the severity filter, the data path gate
(`and on(..., lane)`), the join with `transceiver_module_info` that attaches the
identity labels. An alert is identified by its rule and those labels, so a module
that is swapped, or whose page 00h could not be read, is another alert. `Age` is
one evaluation of the `for` clauses: a result that is missing once is forgotten.

**Monitoring** puts the exporter between a host and Prometheus. A scrape is one
step, because what concurrent scrapes can put on a page is the subject of
`Collector`; each read comes to one of six outcomes, and what each outcome puts
on the page follows `emitObservation`. One of them is `foreign`: an SFF module
the netlink fallback has laid out, whose image has alarms active that the module
does not raise (`Misread[m]`, the finding `sff_fallback`). The process exits or
panics (`Panic`, the labels of collector.go:415-435 in the goroutine of the
gather) and is started again; a wedged driver (`Hang`) holds the mutex so that no gather ends
before the timeout (`Unanswered`). A discovery that fails ends before it asks the
reader for anything, hung or not (`EmptyPage`). The history variables keep the
reality the alerts are about. `grounds` are the alerts there was a ground for at
the last scrape: what the host shows under the name of its module, read or not
(`Grounds`), and what a read itself gives rise to (`GroundsOfRead`): its failure,
the same signs without a name if and only if page 00h went unread on this page,
and the misread alarms of a foreign image. The last are the one ground that is
not on the host; the model counts them openly rather than leave the image out.
`told` are those the scrape had to tell of.
Prometheus and promhttp are external.

**Transceiverctl.** One sequential run in which every call may fail. A write
that fails is modelled as writing nothing.

## What is checked

| Run | Instance | Shows |
|---|---|---|
| `reader` | 2 goroutines, 1 interface, an SFF, a flat CMIS and a banked CMIS module, 1 swap, `Close` at any time | types, `Serialized`, `NoPrematureFailure`, `CMISPrefersNetlink`, `OthersStayOnIoctl`, `UpperPagesWellFounded`, `ClosedReaderFails`, and that the reader implements `ModuleReads` |
| `reader_ioctl` | no netlink; 2 goroutines, 2 interfaces, 2 errnos | the contract and `NoPrematureFailure` on the legacy path; no answer mixes interfaces |
| `reader_live` | 2 goroutines, 1 banked module that comes or goes | `CallsReturn` |
| `collector` | 2 scrapes, 3 interfaces (readable, without EEPROM access, virtual), flags none / distinct / repeated, a CMIS module, one that is refused and one with a name that is not UTF-8, no netlink, 1 event | `ServedWhole`, `RefusedOnlyForRepeats`, `ExplicitAlwaysJudged`, `UnsupportedStaysSilent`, that scrapes implement `ScrapeVerdicts`, and that each ends, with an answer unless the process ended under it, which takes a module whose name is not UTF-8 (`ScrapesEnd`) |
| `module_reading` | 1 goroutine, a two-bank, a one-bank and a flat CMIS module, an SFF-8636 and an SFF-8472 one, 1 swap, any page may fail | `AlarmsFollowLanes`, `NothingRaisedByFill`, `FullReadLosesNothing` for CMIS; `EachFlagIsOneAlarm`, `IoctlTellsTheModule`, `SffFillRaisesNothing` for SFF |
| `monitoring` | 1 interface, a CMIS, a QSFP with a misread alarm of its own and one of a lane, a 10GBASE-LR module and one with an unprintable name; rules that wait 1, 2 or 3 evaluations | `FiresOnlyForCause`, `StandingIsFiring`, `AlertsClear`, `OutageIsNoticed` |
| `transceiverctl` | up to 3 interfaces, given with blanks and repeats or discovered | `ExitTellsTheTruth`, `ReaderIsReleased`, `SilenceIsExplained`, `NamedAreAccountedFor`, `CommandEnds` |

Five runs show where the code does not do what the repository says of it:

* `collector_lr`, `DecodedIsExported`. A 10GBASE-LR module states its reach in
  both single-mode units of SFF-8472; `sff8472.go:91-92` reports both under one
  medium, the collector sends two samples of one series, and the registry
  refuses the gather of the whole host. `scrape_success` is documented as
  "Whether the exporter successfully read and decoded the interface during this
  scrape" (`collector.go:95`).
* `collector_netlinkonly`, `SupportedIsReported`. If a driver has no ioctl
  operation and its netlink read fails, the joined error still matches
  `EOPNOTSUPP` and discovery skips the interface, although only "devices that do
  not support module EEPROM access" are to be ignored (`collector.go:53-55`).
* `cmis_banks`, `ReadBanksAreDecoded`. The reader skips a bank that fails and
  reads the next (`netlink_linux.go:106-108`); the decoder takes the zero fill
  for the end (`cmis.go:177`) and drops the lanes of the banks that were read.
* `sff_fallback`, `ActiveMeansOutside`. When the ioctl fails, the reader reads an
  SFF module through netlink, too (`reader.go:124`), in the page layout of CMIS.
  Page 11h then lies where the SFF-8636 decoder looks for thresholds
  (`sff8636.go:56`), and alarms are active that the module does not have, while
  an active alarm says that "the module is outside vendor operating thresholds"
  (`alerts.libsonnet:75`).
* `silence`, `SilenceIsTicketed`. If discovery fails, `Collect` sends nothing and
  the page is served empty with status 200 (`collector.go:243-247`): `up` is 1 and
  no `scrape_success` is 0, so neither of the warnings that are "signals for
  missing telemetry" (`runbook.md:4-5`) fires, however long it lasts.

### Bounds, and why they are enough

* *Two callers or scrapes*: the reader's state is one owner and one set of
  clients; a third goroutine only waits like the second. The proofs hold for any
  number.
* *One swap or device event*: a window then holds two modules, so an image can
  be torn at any page; every property compares at most two of them. The proofs
  hold for any number of swaps.
* *Two banks of up to four*: the first, a middle and a skipped bank occur;
  `MaxBanks` itself is the code's. Lanes per bank are 2 instead of 8 in
  `MC_ModuleReading`: one lane below and one above an application's limit.
* *One or two errnos*: the reader never looks at them. The collector does, and
  its model has those it distinguishes. The `collector` run has the ioctl alone,
  as where netlink could not be opened; `collector_netlinkonly` has both, and the
  proofs hold for any set of paths.
* *The flags of one QSFP module*: thirteen bits, at least one of each kind and of
  every byte, on all four lanes, and one more that flags no alarm. The proof holds
  for any set of bits.
* *Rules that wait 1, 2 or 3 evaluations* for 5, 15 and 30 minutes: alerts that
  are pending, that just fire and that go on firing, in the order of the real
  ones. At least one scrape lies between two evaluations, as with Prometheus'
  scrape and evaluation intervals of one minute; more are possible.
* *One interface* in `monitoring`: an alert has the interface in its labels, and
  its rules look at the samples of one interface; only a panic or a refused
  gather reaches from one interface to another, and both are there with a module
  that causes them. The proofs hold for any number.
* Every finished call, scrape or evaluation can be followed by another, without a
  bound; the counts of evaluations stop one past the duration of their rule,
  where nothing tells them apart any more.

### Fairness

`reader_live` assumes that a device transaction that was started ends
(`WF` of `Transaction` and `Close`), which the code itself cannot enforce, it
sets no deadline, and that a goroutine waiting for the mutex gets it (`SF` of
`Acquire` and `AcquireClose`): `sync.Mutex` hands over to a waiter after at
most a millisecond in its starvation mode. Calls, swaps and `BeginClose` are not
fair. `collector` assumes only that a scrape's goroutine goes on (which rests on
`CallsReturn`: the mutex is the reader's, and a hang is not a behaviour of this
module) or that the process ends under it. `monitoring` and `silence` assume that Prometheus goes on
scraping and evaluating, and nothing of the exporter: it need not be restarted,
answer, or succeed in any read, and a hung driver need not return. `transceiverctl` is a sequential program: `WF` of its
next step. `CHECK_DEADLOCK FALSE` is set there alone, because the process exits.

## What is proved

Each theorem holds for every value of the constants that satisfies the named
assumptions of its module: any number of goroutines, scrapes, interfaces,
modules, swaps, signs and rule durations. Every safety property of a passing run,
and both refinements, are proved.

**The reader (`ModuleReaderProofs`).** `TypeOK`, `Serialized`,
`NoPrematureFailure`, `CMISPrefersNetlink` and `UpperPagesWellFounded`. These
speak of results, and are not inductive: the step that returns a result knows of
earlier failures only what its locals record. `IInv` therefore adds `LocalOK`,
which says of the locals at each statement what the result they may become will
need:

* a read on the fallback site has an ioctl error recorded, so that its own
  failure makes both errors present;
* `PagesOK`: before page s is placed nothing at or above s is in the image; past
  page 00h the image has a real page 00h and is not flat, past page 01h a real
  page 01h; the bank counter is below the count that very page 01h advertises.
  The last conjunct is also what keeps the counter in its type.

`Serialized` is inductive with the types: the steps under the mutex keep their
owner (`GotoInvariant`) or free it (`ReturnInvariant`), and each action is then
shown to satisfy what those two lemmas ask of its locals or its result.

**The contract (`ModuleReaderContract`).** That the reader implements
`ModuleReads`, that a closed reader's calls fail, and `OthersStayOnIoctl`. `CInv`
adds to `IInv` what a call in flight knows of its window: every page it holds was
read in the window (`ReadIn`), the module now in its interface is in the window,
and a netlink read that did not start as a fallback has seen a CMIS module there
(so a module that is not CMIS in the end means two in the window). Once the
reader is closed a call is only where an error is still ahead of it (`Failing`).
Under the mapping that forgets the mutex, locals and paths, every action is a
`Swap`, `Call` or `Return` of the contract or a stutter. `AnswersFromWindow` reads
off what the decoders need: no page of an answer is of a module that was not in
the interface during the call.

**The decoders (`ModuleReadingProofs`).** `AlarmsFollowLanes`,
`NothingRaisedByFill` and `SffFillRaisesNothing`, for any image the reader can
return and any number of lanes in a bank. Each lemma follows an entry of the
merged alarms back to its source: a decoded bank is a page that was read
(`DecodedWasRead`), a compared quantity has a page 02h, or an SFF threshold page,
that was read (`ThresholdSource`, `CrossingSource`). The flags an alarm may come
from are those of its own page, lower memory or the page 11h of its bank
(`OwnPage`, `OwnPageWasRead`), not of any page of that module, and each page read is
of a module in the window of the call (`ReadInWindow`): a torn image compares two
modules only if both sat in the cage meanwhile. `IndexInjective` and
`IndexTellsBank` give the arithmetic of lane numbers: no number is used for two
lanes, and the number alone tells the bank whose page holds the reading. Of the
reader they use that what it returns is an image, from its `TypeCorrect`, and
`AnswersFromWindow`.

**What a module raises is told (`ModuleReadingAlarms`).** `EachFlagIsOneAlarm`,
`IoctlTellsTheModule` and `FullReadLosesNothing`: the other direction, that nothing
is lost. They rest on `ContentAssumption` and `CrossedAssumption`.

* The flags of a QSFP module: the alarms and the bits of `FlagPositions` are in
  bijection. `MonitorBitTells` and `RankTells` invert the shifts and offsets of
  `laneMonitorFlagAlarms`, `OneAlarmPerBit` and `OneBitPerAlarm` extend that to
  all bytes, and `FlagIsActive` carries a flag through the merge, which keeps an
  active entry whatever the comparison with the thresholds says later.
* The ioctl: the property speaks of results and is not inductive, for a call keeps
  the ioctl's data in its locals while it tries netlink. `IoctlImages` adds that
  these, too, are what the ioctl gave of one module; `IoctlIsTold` then compares
  the decoded alarms with the module's, one decoder at a time.
* A whole CMIS read: all pages are of one module (`WholePages`), every lane in
  reach is a lane that is decoded (`ReachIsDecoded`, which needs that the
  application list's limit fits in the first bank, `AdvertisedInBank`), and what
  is raised comes in by one of three ways, each with its lemma: `LowerFlagTold`,
  `ExceededTold`, `LaneFlagTold`.

**The collector (`CollectorProofs`).** `TypeOK`, `ExplicitAlwaysJudged` and
`UnsupportedStaysSilent`. `KInv` says that the samples a scrape has sent are
exactly those of the visits it has made, in the order of its list (`SaidSoFar`),
that the list is that of the flags, or one discovery without repetitions, and that
a device without module access was only ever answered by errors that say so. Each
statement of `Collect` has a lemma on one scrape; `OneScrape` lifts it to all. A
panic (`PanicStep`) touches every scrape at once and sends nothing.

**The pages (`CollectorPages`).** `ServedWhole`, `RefusedOnlyForRepeats`, and that
the collector implements `ScrapeVerdicts`. From `KInv` a page is the union of what
its visits say, so all three come down to the samples of one module. Under
`DecodedAssumption` two of them share a series only if the module lists one medium
twice (`EmissionIsConsistent`), and what they say does not depend on the place in
the loops they are sent from (`EmissionMoves`). A page that is served has no
repetition, so a verdict has its visit (`VerdictOfVisit`) and every sample the
visit of its interface (`OneVisitSpeaks`). For the refinement, the verdicts a
scrape has given are those its visits tell (`SuccessesSoFar`, `VisitTells`): a
visit is a `Promise` step, and so is each statement between visits, or a stutter.
A panic is its `Crash` (`PanicPromise`): the scrapes in flight end unserved.

**The alerts (`MonitoringProofs`).** `TypeOK`, `FiresOnlyForCause` and
`StandingIsFiring`. The results of the rules over the last scrape lie between
what the scrape had to tell and what there was a ground for:
`told` is in `Results(samples)` is in `grounds` (`ToldAreResults`,
`PageResultsAreGrounds`). A result has the name its page gave the module
(`WithInfoOfPage`), and an alarm of 1 is a sign of the module or misread
(`PageAlarm`); what is misread of a lane never passes the gate, for a foreign image
is never of a CMIS module (`AlarmRuleGrounds`). The three ways to count evaluations are then ordered
likewise, `due[a] <= held[a] + 1 <= just[a]`, and both theorems read that off.

**The command (`TransceiverctlProofs`).** `TypeOK`, `ExitTellsTheTruth`,
`ReaderIsReleased`, `SilenceIsExplained` and `NamedAreAccountedFor`. `TInv` says
which error flags, outputs and diagnostics go together at each stage: past its
reads a run has read the whole list, and past its output it has a code that fits
what was written. What was decoded, and what was printed, is a selection of
positions of the list in its order (`Selects`) rather than a `SelectSeq`, which is
recursive and which the provers cannot unfold; `SelectsNext` adds one position.

Model-checked only:

* liveness (`CallsReturn`, `ScrapesEnd`, `CommandEnds`, `AlertsClear`,
  `OutageIsNoticed`): out of the prover's reach;
* the five disagreements above, which are counterexamples of an instance;
* that the decoders deliver what `DecodedAssumption` says. The models of the
  decoders have alarms as a function of alarm and lane, so there it holds by the
  shape of the model; the lines of the code that justify it are cited at the
  assumption.

## What is not modelled

* Short replies, malformed netlink messages beyond "a failure", and interface
  renames.
* An ioctl that gives more than 256 bytes of a CMIS module: the proofs about the
  reader allow it, the instance of `ModuleReading` does not have one.
* Metric values other than success and alarm flags, names of vendors and media,
  units, and the status, media, power class and compliance fields of the three
  decoders: values looked up in a table or copied, with no control that a
  property here would see. One consequence is listed as a hazard, the power
  class of a zero-filled page (`sff8636.go:166`).
* In `Monitoring` a read gives one module's data; images torn by a swap are the
  subject of `ModuleReading`, and an alarm one of them has active lasts for one
  scrape. What a foreign image misreads is a constant of the module, where the code
  compares its changing readings. Prometheus takes a series as gone with the first
  scrape that lacks it, which is what it does for a target it scrapes; its
  lookback delta for targets that disappear from service discovery is left out,
  and so are scrapes still queued behind a mutex when the driver returns.
* Dashboards, Helm chart, build files: no behaviour of their own.
* The name tables of `pkg/transceiver/model.go`.

## Where to go on

* `IndexInjective` gives the part of `DecodedAssumption` about lanes; a composition
  of `Collector` with the decoders would give the rest of it as a theorem, at the
  price of modelling the alarm list before the merge as a sequence.
* `OutageIsNoticed` and `AlertsClear` have a safety half each (an outage that was
  seen for the rule's duration is firing; a firing alert has a ground), which
  `StandingIsFiring` and `FiresOnlyForCause` already prove; what remains is
  fairness.
* A reader with a deadline, or a discovery failure that is reported, would change
  `Hang` and `EmptyPage`; `OutageIsNoticed` and `SilenceIsTicketed` are then the
  properties to check first.
