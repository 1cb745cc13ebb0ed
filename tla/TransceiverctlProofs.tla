------------------------- MODULE TransceiverctlProofs -------------------------
(***************************************************************************)
(* Proofs about Transceiverctl for any interfaces, flags and discoveries:  *)
(* what the exit code, standard output and the diagnostics say together.   *)
(* The invariant TInv has one part for each thing a run keeps account of;  *)
(* a lemma says which variables a part depends on, so that a step has to   *)
(* show only the parts it disturbs.                                        *)
(***************************************************************************)
EXTENDS Transceiverctl, TLAPS

Given == ToSet(args.names) \ {BlankName}

\* What has not happened yet at each stage.
Early ==
  /\ pc \in {"flags", "open"} => reader = "none" /\ ~ auto
  /\ pc \in {"flags", "open", "discover", "read"} => written = <<>>
  /\ pc \in {"flags", "open", "discover"} =>
       outcomes = <<>> /\ observations = <<>> /\ ~ hadError
  /\ pc \in {"flags", "open", "discover", "read", "write"} =>
       code = 0 /\ "write" \notin stderr /\ "discover" \notin stderr
  /\ pc = "write" => Len(outcomes) = Len(list)

\* hadError, and the diagnostics that name an interface, are those of the outcomes.
Judged ==
  /\ hadError <=> \E p \in DOMAIN outcomes : Diagnosed(outcomes[p])
  /\ \A p \in DOMAIN outcomes : Diagnosed(outcomes[p]) => list[p] \in stderr
  /\ stderr \cap Interfaces # {} => hadError

\* What was decoded so far, and what of it was written.
Output ==
  /\ Selects(observations, list, DecodedAt)
  /\ Len(written) <= Len(observations)
  /\ \A k \in DOMAIN written : written[k] = observations[k]

\* The list of a run that discovers nothing is the values it was given.
Parsed ==
  /\ pc = "flags" => ToSet(list) = {args.names[p] : p \in 1 .. parsed} \ {BlankName}
  /\ pc = "open" => ToSet(list) = Given
  /\ reader # "none" => Given = IF auto THEN {} ELSE ToSet(list)
  /\ "discover" \in stderr => auto
  /\ ~ auto /\ reader # "none" => list # <<>>

\* What the end of a run has told.
Late ==
  /\ code # 0 => stderr # {}
  /\ pc = "read" /\ auto /\ list = <<>> => stderr # {}
  /\ pc = "write" /\ observations = <<>> => stderr # {}
  /\ pc \in {"close", "exit"} /\ code = 0 =>
       /\ reader # "none" /\ "write" \notin stderr /\ "discover" \notin stderr
       /\ observations = <<>> => stderr # {}
       /\ hadError => observations # <<>>
  /\ pc \in {"close", "exit"} /\ reader # "none" /\ "write" \notin stderr
     /\ "discover" \notin stderr =>
       Len(outcomes) = Len(list) /\ written = observations
  /\ pc = "exit" /\ code = 0 => reader = "closed"

TInv == TypeOK /\ ReaderIsReleased /\ Early /\ Judged /\ Output /\ Parsed /\ Late

-----------------------------------------------------------------------------
(***************************************************************************)
(* Selections.                                                             *)
(***************************************************************************)

\* Nothing is selected where nothing was chosen.
LEMMA SelectsNothing ==
  ASSUME NEW names
  PROVE  Selects(<<>>, names, {})
<1>1. <<>> \in [DOMAIN <<>> -> {}]
  OBVIOUS
<1> QED
  BY <1>1 DEF Selects

\* The next position is selected after all before it (transceiverctl.go:148).
LEMMA SelectsNext ==
  ASSUME NEW T, NEW selected \in Seq(T), NEW names \in Seq(T), NEW n \in Nat,
         NEW chosen \in SUBSET (1 .. n), n + 1 \in DOMAIN names,
         Selects(selected, names, chosen)
  PROVE  Selects(Append(selected, names[n + 1]), names, chosen \cup {n + 1})
<1> DEFINE more == Append(selected, names[n + 1])
           last == Len(selected) + 1
<1>1. PICK from \in [DOMAIN selected -> chosen] :
        /\ \A k \in DOMAIN selected : selected[k] = names[from[k]]
        /\ \A j, k \in DOMAIN selected : j < k => from[j] < from[k]
        /\ \A p \in chosen : \E k \in DOMAIN selected : from[k] = p
  BY DEF Selects
<1> DEFINE then == [k \in DOMAIN more |-> IF k = last THEN n + 1 ELSE from[k]]
<1>2. /\ DOMAIN more = DOMAIN selected \cup {last} /\ last \notin DOMAIN selected
      /\ more[last] = names[n + 1]
      /\ \A k \in DOMAIN selected : more[k] = selected[k] /\ k \in Nat /\ k < last
      /\ last \in Nat
  OBVIOUS
<1> HIDE DEF more, last
<1>3. then[last] = n + 1 /\ \A k \in DOMAIN selected : then[k] = from[k]
  BY <1>2
<1>4. then \in [DOMAIN more -> chosen \cup {n + 1}]
  BY <1>2
<1> HIDE DEF then
<1>5. \A k \in DOMAIN more : more[k] = names[then[k]]
  BY <1>1, <1>2, <1>3
<1>6. \A j, k \in DOMAIN more : j < k => then[j] < then[k]
  <2>1. \A k \in DOMAIN selected : from[k] \in 1 .. n
    BY <1>1
  <2> QED
    BY <1>1, <1>2, <1>3, <2>1
<1>7. \A p \in chosen \cup {n + 1} : \E k \in DOMAIN more : then[k] = p
  BY <1>1, <1>2, <1>3
<1>8. Selects(more, names, chosen \cup {n + 1})
  BY <1>4, <1>5, <1>6, <1>7 DEF Selects
<1> QED
  BY <1>8 DEF more

-----------------------------------------------------------------------------
(***************************************************************************)
(* What each part of the invariant depends on.                             *)
(***************************************************************************)
LEMMA JudgedStays ==
  ASSUME Judged, UNCHANGED <<outcomes, hadError>>,
         stderr' \cap Interfaces = stderr \cap Interfaces, list \in Seq(Interfaces),
         Len(outcomes) <= Len(list), outcomes \in Seq(Outcomes),
         outcomes = <<>> \/ UNCHANGED <<auto, list>>
  PROVE  Judged'
<1>1. CASE outcomes = <<>>
  BY <1>1 DEF Judged
<1>2. CASE UNCHANGED <<auto, list>>
  <2>1. \A outcome : Diagnosed(outcome)' = Diagnosed(outcome)
    BY <1>2 DEF Diagnosed
  <2>2. \A p \in DOMAIN outcomes : list[p] \in Interfaces
    OBVIOUS
  <2> QED
    BY <1>2, <2>1, <2>2 DEF Judged
<1> QED
  BY <1>1, <1>2

LEMMA OutputStays ==
  ASSUME Output, UNCHANGED <<outcomes, observations, written>>,
         UNCHANGED list \/ (outcomes = <<>> /\ observations = <<>>)
  PROVE  Output'
<1>1. CASE UNCHANGED list
  BY <1>1 DEF Output, DecodedAt
<1>2. CASE outcomes = <<>> /\ observations = <<>>
  <2>1. DecodedAt' = {} /\ observations' = <<>>
    BY <1>2 DEF DecodedAt
  <2>2. Selects(observations, list, DecodedAt)'
    BY <2>1, SelectsNothing DEF Selects
  <2> QED
    BY <2>2 DEF Output
<1> QED
  BY <1>1, <1>2

\* Diagnostics about a stage name no interface.
LEMMA StageDiagnostics ==
  ASSUME NEW stage \in Stages, NEW errs
  PROVE  (errs \cup {stage}) \cap Interfaces = errs \cap Interfaces
BY CommandAssumption

\* What is appended to a list joins its values.
LEMMA ToSetAppend ==
  ASSUME NEW T, NEW seq \in Seq(T), NEW e \in T
  PROVE  ToSet(Append(seq, e)) = ToSet(seq) \cup {e}
<1> DEFINE more == Append(seq, e)
<1>1. /\ DOMAIN more = DOMAIN seq \cup {Len(seq) + 1}
      /\ more[Len(seq) + 1] = e
      /\ \A i \in DOMAIN seq : more[i] = seq[i]
  OBVIOUS
<1> HIDE DEF more
<1>2. {more[i] : i \in DOMAIN more} = {seq[i] : i \in DOMAIN seq} \cup {e}
  BY <1>1
<1> QED
  BY <1>2 DEF ToSet, more

-----------------------------------------------------------------------------
(***************************************************************************)
(* The steps.                                                              *)
(***************************************************************************)
LEMMA InitCommand == Init => TInv
<1> SUFFICES ASSUME Init
             PROVE  TInv
  OBVIOUS
<1>1. TypeOK
  <2>1. args.names \in Seq(Interfaces \cup {BlankName})
    BY CommandAssumption DEF Init, Args
  <2>2. parsed \in 0 .. Len(args.names)
    BY <2>1 DEF Init
  <2>4. hadError \in BOOLEAN /\ auto \in BOOLEAN
    BY Zenon DEF Init
  <2>3. list \in Seq(Interfaces) /\ outcomes \in Seq(Outcomes) /\ Len(outcomes) <= Len(list)
        /\ observations \in Seq(Interfaces) /\ written \in Seq(Interfaces)
    BY DEF Init
  <2> QED
    BY <2>2, <2>3, <2>4 DEF Init, TypeOK
<1>2. Judged
  BY DEF Init, Judged
<1>3. Output
  <2>1. DecodedAt = {}
    BY DEF Init, DecodedAt
  <2> QED
    BY <2>1, SelectsNothing DEF Init, Output
<1>4. Parsed
  BY DEF Init, Parsed, ToSet
<1> QED
  BY <1>1, <1>2, <1>3, <1>4 DEF Init, TInv, Early, Late, ReaderIsReleased

LEMMA ParseFlagStep ==
  ASSUME TInv, ParseFlag
  PROVE  TInv'
<1> DEFINE value == args.names[parsed + 1]
<1>1. /\ pc = "flags" /\ parsed < Len(args.names) /\ parsed' = parsed + 1
      /\ list' = IF value = BlankName THEN list ELSE Append(list, value)
      /\ UNCHANGED <<args, pc, reader, auto, outcomes, observations, hadError, written,
                     stderr, code>>
  BY DEF ParseFlag
<1>2. args.names \in Seq(Interfaces \cup {BlankName})
  BY CommandAssumption DEF TInv, TypeOK, Args
<1>3. TypeOK /\ list \in Seq(Interfaces) /\ outcomes = <<>> /\ observations = <<>> /\ parsed \in Nat
  BY <1>1, <1>2 DEF TInv, TypeOK, Early
<1>4. value \in Interfaces \cup {BlankName}
  BY <1>1, <1>2, <1>3
<1>5. TypeOK'
  <2>1. list' \in Seq(Interfaces) /\ parsed' \in 0 .. Len(args.names)
    BY <1>1, <1>2, <1>3, <1>4
  <2> QED
    BY <1>1, <1>3, <2>1 DEF TypeOK
<1>6. Judged' /\ Output'
  BY <1>1, <1>3, JudgedStays, OutputStays DEF TInv, TypeOK
<1>7. Parsed'
  <2>1. ToSet(list) = {args.names[p] : p \in 1 .. parsed} \ {BlankName}
    BY <1>1 DEF TInv, Parsed
  <2>2. 1 .. parsed + 1 = (1 .. parsed) \cup {parsed + 1}
    BY <1>3
  <2>3. {args.names[p] : p \in 1 .. parsed + 1} = {args.names[p] : p \in 1 .. parsed} \cup {value}
    BY <2>2
  <2>4. ToSet(list') = (ToSet(list) \cup {value}) \ {BlankName}
    <3>1. CASE value = BlankName
      <4>1. BlankName \notin ToSet(list)
        BY <2>1
      <4> QED
        BY <1>1, <3>1, <4>1
    <3>2. CASE value # BlankName
      <4>1. ToSet(Append(list, value)) = ToSet(list) \cup {value}
        BY <1>3, <1>4, <3>2, ToSetAppend
      <4> QED
        BY <1>1, <2>1, <3>2, <4>1
    <3> QED
      BY <3>1, <3>2
  <2>5. ToSet(list)' = {args.names[p] : p \in 1 .. parsed + 1} \ {BlankName}
    BY <2>1, <2>3, <2>4 DEF ToSet
  <2> QED
    BY <1>1, <2>5 DEF TInv, Parsed, Early, Given
<1> QED
  BY <1>1, <1>5, <1>6, <1>7 DEF TInv, Early, Late, ReaderIsReleased

LEMMA FlagsParsedStep ==
  ASSUME TInv, FlagsParsed
  PROVE  TInv'
<1>1. /\ pc = "flags"
      /\ UNCHANGED <<args, parsed, reader, auto, list, outcomes, observations, hadError, written>>
  BY DEF FlagsParsed
<1>2. TypeOK /\ outcomes = <<>> /\ observations = <<>> /\ ~ hadError /\ stderr \cap Interfaces = {}
  BY <1>1 DEF TInv, Early, Judged
<1>3. TypeOK' /\ stderr' \cap Interfaces = {}
  BY <1>1, <1>2, CommandAssumption DEF FlagsParsed, TypeOK, Stages
<1>4. Judged' /\ Output'
  BY <1>1, <1>2, <1>3, JudgedStays, OutputStays DEF TInv, TypeOK
<1>5. Parsed'
  <2>1. CASE args.malformed /\ pc' = "exit" /\ stderr' = {"flags"}
    BY <1>1, <2>1 DEF TInv, Parsed, Early, Given
  <2>2. CASE parsed = Len(args.names) /\ pc' = "open" /\ UNCHANGED <<code, stderr>>
    <3>1. args.names \in Seq(Interfaces \cup {BlankName})
      BY <1>2, CommandAssumption DEF TypeOK, Args
    <3>2. {args.names[p] : p \in 1 .. parsed} = ToSet(args.names)
      BY <2>2, <3>1 DEF ToSet
    <3> QED
      BY <1>1, <2>2, <3>2 DEF TInv, Parsed, Early, Given
  <2> QED
    BY <2>1, <2>2 DEF FlagsParsed
<1>6. Early' /\ Late' /\ ReaderIsReleased'
  BY <1>1 DEF FlagsParsed, TInv, Early, Late, ReaderIsReleased
<1> QED
  BY <1>3, <1>4, <1>5, <1>6 DEF TInv

LEMMA NewReaderStep ==
  ASSUME TInv, NewReader
  PROVE  TInv'
<1>1. /\ pc = "open"
      /\ UNCHANGED <<args, parsed, list, outcomes, observations, hadError, written>>
  BY DEF NewReader
<1>2. TypeOK /\ outcomes = <<>> /\ observations = <<>>
  BY <1>1 DEF TInv, Early
<1>3. TypeOK'
  <2>1. CASE reader' = "open" /\ pc' = "discover" /\ auto' = (list = <<>>) /\ UNCHANGED <<code, stderr>>
    BY <1>1, <1>2, <2>1, Zenon DEF TypeOK
  <2>2. CASE /\ pc' = "exit" /\ code' = 1 /\ stderr' = stderr \cup {"open"}
             /\ UNCHANGED <<reader, auto>>
    BY <1>1, <1>2, <2>2 DEF TypeOK, Stages
  <2> QED
    BY <2>1, <2>2 DEF NewReader
<1>4. stderr' \cap Interfaces = stderr \cap Interfaces
  BY StageDiagnostics DEF NewReader, Stages
<1>5. Judged' /\ Output'
  BY <1>1, <1>2, <1>4, JudgedStays, OutputStays DEF TInv, TypeOK
<1>6. Parsed'
  <2>1. ToSet(list) = Given /\ "discover" \notin stderr /\ reader = "none"
    BY <1>1 DEF TInv, Parsed, Early
  <2>2. list = <<>> => ToSet(list) = {}
    BY DEF ToSet
  <2> QED
    BY <1>1, <2>1, <2>2 DEF NewReader, Parsed, Given
<1>7. Early' /\ Late' /\ ReaderIsReleased'
  BY <1>1 DEF NewReader, TInv, Early, Late, ReaderIsReleased
<1> QED
  BY <1>3, <1>5, <1>6, <1>7 DEF TInv

LEMMA DiscoverStep ==
  ASSUME TInv, Discover
  PROVE  TInv'
<1>1. /\ pc = "discover"
      /\ UNCHANGED <<args, parsed, reader, auto, outcomes, observations, hadError, written>>
  BY DEF Discover
<1>2. TypeOK /\ outcomes = <<>> /\ observations = <<>>
  BY <1>1 DEF TInv, Early
<1>3. TypeOK'
  <2>1. \A found \in Discoveries : found \in Seq(Interfaces)
    BY CommandAssumption
  <2>2. /\ list' \in Seq(Interfaces) /\ stderr' \subseteq Interfaces \cup Stages
        /\ pc' \in {"read", "close"} /\ code' \in {0, 1, 2}
    BY <1>2, <2>1 DEF Discover, TypeOK, Stages
  <2>3. Len(outcomes) <= Len(list')
    BY <1>2, <2>2
  <2> QED
    BY <1>1, <1>2, <2>2, <2>3 DEF TypeOK
<1>4. stderr' \cap Interfaces = stderr \cap Interfaces
  BY StageDiagnostics DEF Discover, Stages
<1>5. Judged' /\ Output'
  BY <1>1, <1>2, <1>4, JudgedStays, OutputStays DEF TInv, TypeOK
<1>6. /\ reader = "open" /\ code = 0 /\ "write" \notin stderr /\ "discover" \notin stderr
      /\ written = <<>> /\ ~ hadError
      /\ Given = (IF auto THEN {} ELSE ToSet(list)) /\ (~ auto => list # <<>>)
  BY <1>1 DEF TInv, ReaderIsReleased, Early, Parsed
<1>7. Parsed' /\ Early' /\ Late' /\ ReaderIsReleased'
  <2>1. CASE ~ auto /\ pc' = "read" /\ UNCHANGED <<list, code, stderr>>
    BY <1>1, <1>2, <1>6, <2>1 DEF Parsed, Early, Late, ReaderIsReleased, Given
  <2>2. CASE /\ auto /\ pc' = "read" /\ UNCHANGED code
             /\ stderr' = IF list' = <<>> THEN stderr \cup {"none found"} ELSE stderr
    BY <1>1, <1>2, <1>6, <2>2 DEF Parsed, Early, Late, ReaderIsReleased, Given
  <2>3. CASE auto /\ pc' = "close" /\ code' = 1 /\ stderr' = stderr \cup {"discover"}
    BY <1>1, <1>2, <1>6, <2>3 DEF Parsed, Early, Late, ReaderIsReleased, Given
  <2> QED
    BY <2>1, <2>2, <2>3 DEF Discover
<1> QED
  BY <1>3, <1>5, <1>7 DEF TInv

LEMMA ReadStep ==
  ASSUME TInv, Read
  PROVE  TInv'
<1> DEFINE n == Len(outcomes)
<1>1. /\ pc = "read" /\ Len(outcomes) < Len(list)
      /\ UNCHANGED <<args, pc, parsed, reader, auto, list, written, code>>
  BY DEF Read
<1>2. PICK outcome \in Outcomes :
        /\ outcomes' = Append(outcomes, outcome)
        /\ Visited(list[n + 1], outcome)
  BY DEF Read
<1>3. /\ TypeOK /\ list \in Seq(Interfaces) /\ outcomes \in Seq(Outcomes) /\ n \in Nat
      /\ observations \in Seq(Interfaces) /\ written = <<>>
  BY <1>1 DEF TInv, TypeOK, Early
<1>4. list[n + 1] \in Interfaces /\ n + 1 \in DOMAIN list
  BY <1>1, <1>3
<1>5. /\ outcomes' \in Seq(Outcomes) /\ Len(outcomes') = n + 1
      /\ DOMAIN outcomes' = DOMAIN outcomes \cup {n + 1} /\ outcomes'[n + 1] = outcome
      /\ \A p \in DOMAIN outcomes : outcomes'[p] = outcomes[p] /\ p \in 1 .. n
  BY <1>2, <1>3
<1>6. \A o : Diagnosed(o)' = Diagnosed(o)
  BY <1>1 DEF Diagnosed
<1>7. TypeOK'
  <2>1. observations' \in Seq(Interfaces) /\ stderr' \subseteq Interfaces \cup Stages
    BY <1>2, <1>3, <1>4 DEF Visited, TypeOK
  <2>2. hadError' \in BOOLEAN
    BY <1>2, Zenon DEF Visited
  <2> QED
    BY <1>1, <1>3, <1>5, <2>1, <2>2 DEF TypeOK
<1>8. Judged'
  <2>1. hadError' = (hadError \/ Diagnosed(outcome))
    BY <1>2 DEF Visited
  <2>2. hadError' <=> \E p \in DOMAIN outcomes' : Diagnosed(outcomes'[p])
    BY <1>5, <2>1 DEF TInv, Judged
  <2>3. \A p \in DOMAIN outcomes' : Diagnosed(outcomes'[p]) => list[p] \in stderr'
    BY <1>2, <1>5 DEF TInv, Judged, Visited
  <2>4. stderr' \cap Interfaces # {} => hadError'
    BY <1>2, <2>1 DEF TInv, Judged, Visited
  <2> QED
    BY <1>1, <1>6, <2>2, <2>3, <2>4 DEF Judged
<1>9. Output'
  <2>1. Selects(observations, list, DecodedAt) /\ DecodedAt \in SUBSET (1 .. n)
    BY <1>5 DEF TInv, Output, DecodedAt
  <2>2. CASE outcome = "decoded"
    <3>1. DecodedAt' = DecodedAt \cup {n + 1} /\ observations' = Append(observations, list[n + 1])
      BY <1>2, <1>5, <2>2 DEF DecodedAt, Visited
    <3>2. Selects(Append(observations, list[n + 1]), list, DecodedAt \cup {n + 1})
      BY <1>3, <1>4, <2>1, SelectsNext
    <3>3. Selects(observations, list, DecodedAt)'
      BY <1>1, <3>1, <3>2 DEF Selects
    <3> QED
      BY <1>1, <1>3, <3>1, <3>3 DEF Output
  <2>3. CASE outcome # "decoded"
    <3>1. DecodedAt' = DecodedAt /\ observations' = observations
      BY <1>2, <1>5, <2>3 DEF DecodedAt, Visited
    <3>2. Selects(observations, list, DecodedAt)'
      BY <1>1, <2>1, <3>1 DEF Selects
    <3> QED
      BY <1>1, <1>3, <3>1, <3>2 DEF Output
  <2> QED
    BY <2>2, <2>3
<1>10. "write" \notin stderr' /\ "discover" \notin stderr' /\ (stderr # {} => stderr' # {})
  BY <1>1, <1>2, <1>4, CommandAssumption DEF TInv, Early, Visited, Stages
<1>11. Early' /\ Late' /\ ReaderIsReleased' /\ Parsed'
  BY <1>1, <1>3, <1>10 DEF TInv, Early, Late, ReaderIsReleased, Parsed, Given
<1> QED
  BY <1>7, <1>8, <1>9, <1>11 DEF TInv

\* A run over given interfaces that read nothing has diagnosed every one of them.
LEMMA NothingReadIsDiagnosed ==
  ASSUME TInv, Len(outcomes) = Len(list), list # <<>>, ~ auto, observations = <<>>
  PROVE  hadError
<1>1. list \in Seq(Interfaces) /\ outcomes \in Seq(Outcomes) /\ Len(list) \in Nat \ {0}
  BY DEF TInv, TypeOK
<1>2. 1 \in DOMAIN outcomes /\ outcomes[1] \in Outcomes
  BY <1>1
<1>3. DecodedAt = {}
  BY DEF TInv, Output, Selects
<1>4. outcomes[1] # "decoded"
  BY <1>2, <1>3 DEF DecodedAt
<1>5. Diagnosed(outcomes[1])
  BY <1>2, <1>4 DEF Outcomes, Diagnosed
<1> QED
  BY <1>2, <1>5 DEF TInv, Judged

\* hadError comes with a diagnostic that names an interface.
LEMMA HadErrorIsDiagnosed ==
  ASSUME TInv, hadError
  PROVE  stderr # {}
BY DEF TInv, Judged

LEMMA EndReadsStep ==
  ASSUME TInv, EndReads
  PROVE  TInv'
<1>1. /\ pc = "read" /\ pc' = "write" /\ Len(outcomes) = Len(list)
      /\ stderr' = IF auto /\ observations = <<>> /\ ~ hadError /\ list # <<>>
                     THEN stderr \cup {"none readable"} ELSE stderr
      /\ UNCHANGED <<args, parsed, reader, auto, list, outcomes, observations, hadError, written,
                     code>>
  BY DEF EndReads
<1>2. TypeOK'
  BY <1>1 DEF TInv, TypeOK, Stages
<1>3. stderr' \cap Interfaces = stderr \cap Interfaces
  BY <1>1, StageDiagnostics DEF Stages
<1>4. Judged' /\ Output'
  BY <1>1, <1>3, JudgedStays, OutputStays DEF TInv, TypeOK
<1>5. "write" \notin stderr' /\ "discover" \notin stderr'
  BY <1>1 DEF TInv, Early
<1>6. observations = <<>> => stderr' # {}
  <2> SUFFICES ASSUME observations = <<>>
               PROVE  stderr' # {}
    OBVIOUS
  <2>1. CASE hadError
    BY <1>1, <2>1, HadErrorIsDiagnosed
  <2>2. CASE ~ hadError /\ auto /\ list # <<>>
    BY <1>1, <2>2
  <2>3. CASE ~ hadError /\ ~ auto
    <3>1. reader # "none"
      BY <1>1 DEF TInv, ReaderIsReleased
    <3>2. list # <<>>
      BY <2>3, <3>1 DEF TInv, Parsed
    <3> QED
      BY <1>1, <2>3, <3>2, NothingReadIsDiagnosed
  <2>4. CASE auto /\ list = <<>>
    BY <1>1, <2>4 DEF TInv, Late
  <2> QED
    BY <2>1, <2>2, <2>3, <2>4
<1>7. Early' /\ Late' /\ ReaderIsReleased' /\ Parsed'
  BY <1>1, <1>5, <1>6 DEF TInv, Early, Late, ReaderIsReleased, Parsed, Given
<1> QED
  BY <1>2, <1>4, <1>7 DEF TInv

LEMMA WriteStep ==
  ASSUME TInv, Write
  PROVE  TInv'
<1>1. /\ pc = "write" /\ written # observations
      /\ written' = IF args.json THEN observations
                    ELSE Append(written, observations[Len(written) + 1])
      /\ UNCHANGED <<args, pc, parsed, reader, auto, list, outcomes, observations, hadError,
                     stderr, code>>
  BY DEF Write
<1>2. /\ TypeOK /\ written \in Seq(Interfaces) /\ observations \in Seq(Interfaces)
      /\ Len(written) <= Len(observations)
      /\ \A k \in DOMAIN written : written[k] = observations[k]
  BY DEF TInv, TypeOK, Output
<1>3. Len(written) < Len(observations)
  BY <1>1, <1>2
<1>4. /\ written' \in Seq(Interfaces) /\ Len(written') <= Len(observations)
      /\ \A k \in DOMAIN written' : written'[k] = observations[k]
  BY <1>1, <1>2, <1>3
<1>5. TypeOK'
  BY <1>1, <1>2, <1>4 DEF TypeOK
<1>6. Judged'
  BY <1>1, JudgedStays DEF TInv, TypeOK
<1>7. Output'
  BY <1>1, <1>4 DEF TInv, Output, DecodedAt
<1> QED
  BY <1>1, <1>5, <1>6, <1>7 DEF TInv, Early, Late, ReaderIsReleased, Parsed, Given

LEMMA WriteFailsStep ==
  ASSUME TInv, WriteFails
  PROVE  TInv'
<1>1. /\ pc = "write" /\ pc' = "close" /\ code' = 1 /\ stderr' = stderr \cup {"write"}
      /\ UNCHANGED <<args, parsed, reader, auto, list, outcomes, observations, hadError, written>>
  BY DEF WriteFails
<1>2. TypeOK' /\ stderr' \cap Interfaces = stderr \cap Interfaces
  BY <1>1, StageDiagnostics DEF TInv, TypeOK, Stages
<1>3. Judged' /\ Output'
  BY <1>1, <1>2, JudgedStays, OutputStays DEF TInv, TypeOK
<1> QED
  BY <1>1, <1>2, <1>3 DEF TInv, Early, Late, ReaderIsReleased, Parsed, Given

LEMMA EndWriteStep ==
  ASSUME TInv, EndWrite
  PROVE  TInv'
<1>1. /\ pc = "write" /\ pc' = "close" /\ written = observations
      /\ code' = IF hadError /\ observations = <<>> THEN 1 ELSE 0
      /\ UNCHANGED <<args, parsed, reader, auto, list, outcomes, observations, hadError, written,
                     stderr>>
  BY DEF EndWrite
<1>2. TypeOK'
  BY <1>1 DEF TInv, TypeOK
<1>3. Judged' /\ Output'
  BY <1>1, JudgedStays, OutputStays DEF TInv, TypeOK
<1>4. hadError => stderr # {}
  BY HadErrorIsDiagnosed
<1> QED
  BY <1>1, <1>2, <1>3, <1>4 DEF TInv, Early, Late, ReaderIsReleased, Parsed, Given

LEMMA CloseStep ==
  ASSUME TInv, Close
  PROVE  TInv'
<1>1. /\ pc = "close" /\ pc' = "exit" /\ reader' = "closed" /\ reader = "open"
      /\ \/ UNCHANGED <<stderr, code>>
         \/ stderr' = stderr \cup {"close"} /\ code' = IF code = 0 THEN 1 ELSE code
      /\ UNCHANGED <<args, parsed, auto, list, outcomes, observations, hadError, written>>
  BY DEF Close, TInv, ReaderIsReleased
<1>2. TypeOK' /\ stderr' \cap Interfaces = stderr \cap Interfaces
  BY <1>1, StageDiagnostics DEF TInv, TypeOK, Stages
<1>3. Judged' /\ Output'
  BY <1>1, <1>2, JudgedStays, OutputStays DEF TInv, TypeOK
<1> QED
  BY <1>1, <1>2, <1>3 DEF TInv, Early, Late, ReaderIsReleased, Parsed, Given

LEMMA NextCommand == TInv /\ [Next]_vars => TInv'
<1> SUFFICES ASSUME TInv, [Next]_vars
             PROVE  TInv'
  OBVIOUS
<1>1. CASE UNCHANGED vars
  <2>1. Judged' /\ Output'
    BY <1>1, JudgedStays, OutputStays DEF vars, TInv, TypeOK
  <2> QED
    BY <1>1, <2>1 DEF vars, TInv, TypeOK, Early, Late, ReaderIsReleased, Parsed, Given
<1> QED
  BY <1>1, ParseFlagStep, FlagsParsedStep, NewReaderStep, DiscoverStep, ReadStep, EndReadsStep,
     WriteStep, WriteFailsStep, EndWriteStep, CloseStep DEF Next

-----------------------------------------------------------------------------
\* The invariant of a run of the command.
THEOREM CommandInvariance == Spec => []TInv
BY InitCommand, NextCommand, PTL DEF Spec

\* Every variable of a run keeps its type: no blank name is ever listed, and no more
\* is visited than was listed (transceiverctl.go:43-50).
THEOREM TypeCorrect == Spec => []TypeOK
<1>1. TInv => TypeOK
  BY DEF TInv
<1> QED
  BY <1>1, CommandInvariance, PTL

\* Exit code 0 means that every interface was visited, what was decoded written in its
\* order and the reader released; any other code has a diagnostic
\* (transceiverctl.go:76-97 and 150-171).
THEOREM ExitCodeHolds == Spec => []ExitTellsTheTruth
<1>1. TInv => ExitTellsTheTruth
  <2> SUFFICES ASSUME TInv, pc = "exit"
               PROVE  IF code = 0
                        THEN /\ Len(outcomes) = Len(list)
                             /\ Selects(written, list, DecodedAt)
                             /\ reader = "closed"
                             /\ stderr \cap Interfaces # {} => written # <<>>
                        ELSE stderr # {}
    BY DEF ExitTellsTheTruth
  <2>1. CASE code = 0
    <3>1. Len(outcomes) = Len(list) /\ written = observations /\ reader = "closed"
      BY <2>1 DEF TInv, Late
    <3>2. hadError => observations # <<>>
      BY <2>1 DEF TInv, Late
    <3> QED
      BY <2>1, <3>1, <3>2 DEF TInv, Judged, Output
  <2>2. CASE code # 0
    BY <2>2 DEF TInv, Late
  <2> QED
    BY <2>1, <2>2
<1> QED
  BY <1>1, CommandInvariance, PTL

\* A reader that was opened is closed on every way out (transceiverctl.go:89-95).
THEOREM ReaderReleased == Spec => []ReaderIsReleased
<1>1. TInv => ReaderIsReleased
  BY DEF TInv
<1> QED
  BY <1>1, CommandInvariance, PTL

\* A run that printed no module says why (transceiverctl.go:124-126 and 150-152).
THEOREM SilenceExplained == Spec => []SilenceIsExplained
<1>1. TInv => SilenceIsExplained
  BY DEF TInv, Late, SilenceIsExplained
<1> QED
  BY <1>1, CommandInvariance, PTL

\* Every interface given is in the output or in a diagnostic that names it
\* (transceiverctl.go:131-149 and 160-165).
THEOREM NamedAccountedFor == Spec => []NamedAreAccountedFor
<1>1. TInv => NamedAreAccountedFor
  <2> SUFFICES ASSUME TInv, pc = "exit", reader # "none", "write" \notin stderr,
                      NEW i \in ToSet(args.names) \ {BlankName}
               PROVE  i \in ToSet(written) \cup stderr
    BY DEF NamedAreAccountedFor
  <2>1. ~ auto /\ i \in ToSet(list)
    BY DEF TInv, Parsed, Given
  <2>2. Len(outcomes) = Len(list) /\ written = observations
    BY <2>1 DEF TInv, Parsed, Late
  <2>3. PICK p \in DOMAIN list : list[p] = i
    BY <2>1 DEF ToSet
  <2>4. p \in DOMAIN outcomes /\ outcomes[p] \in Outcomes
    BY <2>2, <2>3 DEF TInv, TypeOK
  <2>5. CASE outcomes[p] = "decoded"
    <3>1. p \in DecodedAt
      BY <2>4, <2>5 DEF DecodedAt
    <3>2. \E k \in DOMAIN observations : observations[k] = list[p]
      BY <3>1 DEF TInv, Output, Selects
    <3> QED
      BY <2>2, <2>3, <3>2 DEF ToSet
  <2>6. CASE outcomes[p] # "decoded"
    <3>1. Diagnosed(outcomes[p])
      BY <2>1, <2>4, <2>6 DEF Outcomes, Diagnosed
    <3> QED
      BY <2>3, <2>4, <3>1 DEF TInv, Judged
  <2> QED
    BY <2>5, <2>6
<1> QED
  BY <1>1, CommandInvariance, PTL
=============================================================================
