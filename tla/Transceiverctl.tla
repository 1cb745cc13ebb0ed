---------------------------- MODULE Transceiverctl ----------------------------
(***************************************************************************)
(* One run of the transceiverctl command (transceiverctl.go): parse the    *)
(* flags, open a reader, read and decode every interface, write what was   *)
(* decoded, close the reader, exit.  Opening, discovery, each read, each   *)
(* write and Close may fail; what a script sees is standard output, the    *)
(* diagnostics and the exit code.                                          *)
(***************************************************************************)
EXTENDS Naturals, Sequences, SequencesExt

CONSTANTS
  Interfaces,
  BlankName,    \* an -interface value that is empty once trimmed
  FlagLists,    \* the -interface values given, in order
  Discoveries   \* what CandidateNames may find

Stages == {"flags", "open", "discover", "none found", "none readable", "write", "close"}

ASSUME CommandAssumption ==
  /\ BlankName \notin Interfaces
  /\ Interfaces \cap Stages = {}
  /\ FlagLists \subseteq Seq(Interfaces \cup {BlankName})
  /\ Discoveries \subseteq Seq(Interfaces)

VARIABLES
  args,      \* [json, names], or malformed
  pc,
  parsed,    \* how many of the -interface values ParseFlags has seen
  reader,    \* "none", "open" or "closed"
  auto,      \* autoDiscovered
  list,      \* interfaces
  outcomes,  \* what each read and decode so far came to, one for each interface visited
  observations,
  hadError,
  written,   \* the observations on standard output
  stderr,    \* the diagnostics written, each about an interface or a stage
  code       \* exitCode

vars == <<args, pc, parsed, reader, auto, list, outcomes, observations, hadError, written,
          stderr, code>>

Outcomes == {"decoded", "refused", "failed", "unsupported"}

Args == [malformed : BOOLEAN, json : BOOLEAN, names : FlagLists]

Init ==
  /\ args \in Args
  /\ pc = "flags"
  /\ parsed = 0
  /\ reader = "none"
  /\ auto = FALSE
  /\ list = <<>>
  /\ outcomes = <<>>
  /\ observations = <<>>
  /\ hadError = FALSE
  /\ written = <<>>
  /\ stderr = {}
  /\ code = 0

\* Mutant: blank values are kept.
ParseFlagBlanks ==
  /\ pc = "flags"
  /\ parsed < Len(args.names)
  /\ list' = Append(list, args.names[parsed + 1])
  /\ parsed' = parsed + 1
  /\ UNCHANGED <<args, pc, reader, auto, outcomes, observations, hadError, written, stderr, code>>

\* One -interface value: a blank one is dropped, not refused.
ParseFlag ==
  /\ pc = "flags"
  /\ parsed < Len(args.names)
  /\ LET value == args.names[parsed + 1]
     IN  list' = IF value = BlankName THEN list ELSE Append(list, value)
  /\ parsed' = parsed + 1
  /\ UNCHANGED <<args, pc, reader, auto, outcomes, observations, hadError, written, stderr, code>>

\* A malformed flag, wherever it stands among the others, ends the run.
FlagsParsed ==
  /\ pc = "flags"
  /\ \/ /\ args.malformed
        /\ pc' = "exit" /\ code' = 2 /\ stderr' = {"flags"}
     \/ /\ ~ args.malformed /\ parsed = Len(args.names)
        /\ pc' = "open"
        /\ UNCHANGED <<code, stderr>>
  /\ UNCHANGED <<args, parsed, reader, auto, list, outcomes, observations, hadError, written>>

NewReader ==
  /\ pc = "open"
  /\ \/ /\ reader' = "open" /\ pc' = "discover" /\ auto' = (list = <<>>)
        /\ UNCHANGED <<code, stderr>>
     \/ /\ pc' = "exit" /\ code' = 1 /\ stderr' = stderr \cup {"open"}
        /\ UNCHANGED <<reader, auto>>
  /\ UNCHANGED <<args, parsed, list, outcomes, observations, hadError, written>>

\* Explicit interfaces need no discovery; a failed one leaves Close to be done.
Discover ==
  /\ pc = "discover"
  /\ \/ /\ ~ auto /\ pc' = "read"
        /\ UNCHANGED <<list, code, stderr>>
     \/ /\ auto /\ pc' = "read"
        /\ \E found \in Discoveries :
             /\ list' = found
             /\ stderr' = IF found = <<>> THEN stderr \cup {"none found"} ELSE stderr
        /\ UNCHANGED code
     \/ /\ auto /\ pc' = "close" /\ code' = 1 /\ stderr' = stderr \cup {"discover"}
        /\ UNCHANGED list
  /\ UNCHANGED <<args, parsed, reader, auto, outcomes, observations, hadError, written>>

\* Mutant: an unsupported explicit interface is skipped in silence.
DiagnosedSkipAll(outcome) == outcome \in {"failed", "refused"}

Diagnosed(outcome) ==
  \/ outcome \in {"failed", "refused"}
  \/ outcome = "unsupported" /\ ~ auto

\* What the visit of an interface adds to the output and the diagnostics.
Visited(name, outcome) ==
  /\ observations' = IF outcome = "decoded" THEN Append(observations, name) ELSE observations
  /\ hadError' = (hadError \/ Diagnosed(outcome))
  /\ stderr' = IF Diagnosed(outcome) THEN stderr \cup {name} ELSE stderr

\* Mutant: a failed read starts the loop over.
ReadOver ==
  /\ pc = "read"
  /\ Len(outcomes) < Len(list)
  /\ \E outcome \in Outcomes :
       /\ outcomes' = IF outcome = "failed" THEN <<>> ELSE Append(outcomes, outcome)
       /\ Visited(list[Len(outcomes) + 1], outcome)
  /\ UNCHANGED <<args, pc, parsed, reader, auto, list, written, code>>

Read ==
  /\ pc = "read"
  /\ Len(outcomes) < Len(list)
  /\ \E outcome \in Outcomes :
       /\ outcomes' = Append(outcomes, outcome)
       /\ Visited(list[Len(outcomes) + 1], outcome)
  /\ UNCHANGED <<args, pc, parsed, reader, auto, list, written, code>>

\* Mutant: that nothing was readable is left unsaid.
EndReadsSilently ==
  /\ pc = "read"
  /\ Len(outcomes) = Len(list)
  /\ pc' = "write"
  /\ UNCHANGED <<args, parsed, reader, auto, list, outcomes, observations, hadError, written,
                 stderr, code>>

EndReads ==
  /\ pc = "read"
  /\ Len(outcomes) = Len(list)
  /\ stderr' = IF auto /\ observations = <<>> /\ ~ hadError /\ list # <<>>
                 THEN stderr \cup {"none readable"} ELSE stderr
  /\ pc' = "write"
  /\ UNCHANGED <<args, parsed, reader, auto, list, outcomes, observations, hadError, written, code>>

\* JSON is one write of all observations; text is written one by one.
Write ==
  /\ pc = "write"
  /\ written # observations
  /\ written' = IF args.json THEN observations
                ELSE Append(written, observations[Len(written) + 1])
  /\ UNCHANGED <<args, pc, parsed, reader, auto, list, outcomes, observations, hadError, stderr,
                 code>>

\* Mutant: the process ends where the write failed.
WriteFailsExits ==
  /\ pc = "write"
  /\ args.json \/ written # observations
  /\ pc' = "exit" /\ code' = 1 /\ stderr' = stderr \cup {"write"}
  /\ UNCHANGED <<args, parsed, reader, auto, list, outcomes, observations, hadError, written>>

\* The JSON of no observation is a write too; the text of none is not.
WriteFails ==
  /\ pc = "write"
  /\ (args.json /\ written = <<>>) \/ written # observations
  /\ pc' = "close" /\ code' = 1 /\ stderr' = stderr \cup {"write"}
  /\ UNCHANGED <<args, parsed, reader, auto, list, outcomes, observations, hadError, written>>

\* Mutant: a run in which every interface failed exits with 0.
EndWriteAlwaysZero ==
  /\ pc = "write"
  /\ written = observations
  /\ code' = 0
  /\ pc' = "close"
  /\ UNCHANGED <<args, parsed, reader, auto, list, outcomes, observations, hadError, written,
                 stderr>>

EndWrite ==
  /\ pc = "write"
  /\ written = observations
  /\ code' = IF hadError /\ observations = <<>> THEN 1 ELSE 0
  /\ pc' = "close"
  /\ UNCHANGED <<args, parsed, reader, auto, list, outcomes, observations, hadError, written,
                 stderr>>

Close ==
  /\ pc = "close"
  /\ pc' = "exit"
  /\ reader' = "closed"
  /\ \/ UNCHANGED <<stderr, code>>
     \/ stderr' = stderr \cup {"close"} /\ code' = IF code = 0 THEN 1 ELSE code
  /\ UNCHANGED <<args, parsed, auto, list, outcomes, observations, hadError, written>>

\* A process that exited takes no step.
Next ==
  \/ ParseFlag \/ FlagsParsed \/ NewReader \/ Discover \/ Read \/ EndReads
  \/ Write \/ WriteFails \/ EndWrite \/ Close

Spec == Init /\ [][Next]_vars

\* Every step of a sequential program is taken, once its reads and writes end.
FairSpec == Spec /\ WF_vars(Next)

-----------------------------------------------------------------------------
(***************************************************************************)
(* Properties.                                                             *)
(***************************************************************************)

\* The variables hold values of their types, and the outcomes of a run are those
\* of a prefix of its list.
TypeOK ==
  /\ args \in Args
  /\ pc \in {"flags", "open", "discover", "read", "write", "close", "exit"}
  /\ reader \in {"none", "open", "closed"}
  /\ auto \in BOOLEAN
  /\ parsed \in 0 .. Len(args.names)
  /\ list \in Seq(Interfaces)
  /\ outcomes \in Seq(Outcomes)
  /\ Len(outcomes) <= Len(list)
  /\ observations \in Seq(Interfaces)
  /\ hadError \in BOOLEAN
  /\ written \in Seq(Interfaces)
  /\ stderr \subseteq Interfaces \cup Stages
  /\ code \in {0, 1, 2}

\* selected is what names has at the positions chosen, in their order.
Selects(selected, names, chosen) ==
  \E from \in [DOMAIN selected -> chosen] :
    /\ \A k \in DOMAIN selected : selected[k] = names[from[k]]
    /\ \A j, k \in DOMAIN selected : j < k => from[j] < from[k]
    /\ \A p \in chosen : \E k \in DOMAIN selected : from[k] = p

DecodedAt == {p \in DOMAIN outcomes : outcomes[p] = "decoded"}

\* Exit code 0 means that every interface was visited, that all that was decoded is
\* on standard output in the order it was read, that the reader was closed, and
\* that interfaces failed only beside ones that did not; every other code has a
\* diagnostic of its own (transceiverctl.go:76-97 and 150-171).
ExitTellsTheTruth ==
  pc = "exit" =>
    IF code = 0
      THEN /\ Len(outcomes) = Len(list)
           /\ Selects(written, list, DecodedAt)
           /\ reader = "closed"
           /\ stderr \cap Interfaces # {} => written # <<>>
      ELSE stderr # {}

\* A reader that was opened is closed on every way out, and nothing is read from
\* it afterwards (transceiverctl.go:89-95).
ReaderIsReleased ==
  /\ pc = "exit" => reader # "open"
  /\ pc \in {"discover", "read", "write", "close"} => reader = "open"

\* Nobody is left with an empty terminal: a run that printed no module says why,
\* even if every discovered device merely had no EEPROM access
\* (transceiverctl.go:124-126 and 150-152).
SilenceIsExplained == pc = "exit" /\ written = <<>> => stderr # {}

\* Every interface given on the command line ends up in the output or in a
\* diagnostic that names it, unless the output itself failed
\* (transceiverctl.go:131-149 and 160-165).
NamedAreAccountedFor ==
  pc = "exit" /\ reader # "none" /\ "write" \notin stderr =>
    ToSet(args.names) \ {BlankName} \subseteq ToSet(written) \cup stderr

\* The command ends, whatever fails on its way.
CommandEnds == <>(pc = "exit")
=============================================================================
