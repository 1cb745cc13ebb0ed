---------------------------- MODULE ModuleReading ----------------------------
(***************************************************************************)
(* The reader and all of sff.Decode together.  The identifier byte of the  *)
(* image picks the decoder, the path that read the image picks the pages   *)
(* that stand in its slots, and neither knows of the other.                *)
(***************************************************************************)
EXTENDS CmisReading, SffDecoder

\* detect: the decoder the first byte of the image selects.
Detect(data) ==
  CASE data[Lower] \in CMIS    -> "cmis"
    [] data[Lower] \in SFF8636 -> "sff8636"
    [] data[Lower] \in SFF8472 -> "sff8472"
    [] OTHER                   -> "unknown"

\* The alarms a decoded image reports as active.
Active(via, data) ==
  LET alarms == IF Detect(data) = "cmis" THEN Alarms(data) ELSE SffAlarms(via, data)
  IN  {a \in DOMAIN alarms : alarms[a]}

\* The calls that returned the image of an SFF-8636 module, or of any SFF module.
AnsweredQSFP == {c \in Callers : Detect(result[c].data) = "sff8636"}
AnsweredSff == {c \in Callers : Detect(result[c].data) \in {"sff8636", "sff8472"}}

Flagged(m) == {a \in Flags8636 : m \in SFF8636 /\ FlagBit(a) \in FlagBits[m]}

\* What an SFF module raises: its flags, and its readings against its own thresholds,
\* which are where the ioctl layout has them.
RaisedSff(m) == Flagged(m) \cup Crossed["ioctl"][m][m]

-----------------------------------------------------------------------------
\* The bits of bytes 3 to 14 that flag an alarm: losses of signal in byte 3, faults in
\* byte 4, temperature and supply in the upper halves of 6 and 7, and all of 9 to 14.
FlagPositions ==
  ({3} \X (0 .. 7)) \cup ({4} \X (0 .. 3)) \cup ({6, 7} \X (4 .. 7)) \cup ((9 .. 14) \X (0 .. 7))

\* A latched flag of a QSFP module is an alarm, and the same one, on every path and
\* however little of the module could be read: each of those bits that is set makes
\* exactly one alarm active (sff8636.go:183-231 and 255-273).
EachFlagIsOneAlarm ==
  \A c \in AnsweredQSFP :
    LET data == result[c].data
    IN  \A bit \in FlagBits[data[Lower]] \cap FlagPositions :
          Cardinality({a \in Active(result[c].via, data) \cap Flags8636 : FlagBit(a) = bit}) = 1

\* What the ioctl gave of an SFF module is told as it is: nothing is active that the
\* module does not raise, and everything it raises is active once the ioctl gave the
\* pages with its thresholds, although a flag may be latched while the reading is
\* back within its limits (sff8472.go:47-73, sff8636.go:195-206, cmis.go:665-678).
IoctlTellsTheModule ==
  \A c \in {d \in AnsweredSff : result[d].via = "ioctl"} :
    LET data == result[c].data
        m == data[Lower]
        whole == IF m \in SFF8636 THEN data[Page11(0)] = m ELSE Diagnosed8472(data)
    IN  /\ Active("ioctl", data) \subseteq RaisedSff(m)
        /\ whole => Active("ioctl", data) = RaisedSff(m)

\* A page of an SFF image that is missing or zero-filled raises nothing: an active
\* alarm is flagged in the lower memory, or a reading (of lower memory for a QSFP, of
\* the A2h page for an SFP) crosses thresholds in a page that was read.  A torn image
\* compares only modules that sat in the cage while the call was under way
\* (sff8636.go:183-231 and 275-284, sff8472.go:47-73, common.go:35-37).
SffFillRaisesNothing ==
  \A c \in AnsweredSff :
    LET data == result[c].data
        isQsfp == Detect(data) = "sff8636"
        limits == data[IF isQsfp THEN Page11(0) ELSE Page01]
        readings == data[IF isQsfp THEN Lower ELSE Page01]
        seen == Modules \cap window[c]
    IN  \A a \in Active(result[c].via, data) :
          /\ readings \in seen
          /\ \/ isQsfp /\ a \in Flagged(readings)
             \/ limits \in seen /\ a \in Crossed[result[c].via][limits][readings]

\* "The module is outside vendor operating thresholds" (alerts.libsonnet:75): an
\* image read as a whole from one module activates no alarm the module does not raise.
ActiveMeansOutside ==
  \A c \in AnsweredSff :
    LET data == result[c].data
        m == data[Lower]
    IN  (\A s \in ReadPages(data) : data[s] = m) =>
          Active(result[c].via, data) \subseteq RaisedSff(m)
=============================================================================
