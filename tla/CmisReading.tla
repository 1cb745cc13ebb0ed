----------------------------- MODULE CmisReading -----------------------------
(***************************************************************************)
(* The reader and the CMIS decoder together: what becomes of a module's    *)
(* lanes and alarms when any page of a read may fail and the module may be *)
(* swapped half way.  The steps are the reader's; the decoder is applied   *)
(* to what a call returned.                                                *)
(***************************************************************************)
EXTENDS ModuleReader, CmisDecoder

\* The calls that returned an image sff.Decode hands to the CMIS decoder.
Answered == {c \in Callers : result[c].via \in {"netlink", "ioctl"} /\ IsCMIS(result[c].data)}

ReadPages(data) == {s \in Slots : data[s] \in Modules}

\* The flags page 11h of m sets on its lanes for the quantities in of.
LaneFlags(m, of) ==
  UNION {{Alarm(f[1], f[2], f[3], Index(x[1], x[2])) :
            f \in {g \in LaneData[m][x[1]][x[2]].flags : g[1] \in of}} :
           x \in (0 .. MaxBanks - 1) \X LaneNumbers}

\* What module m raises, of itself and of its lanes, as far as it advertises it.
Raised(m) ==
  LowerFlags[m] \cup {a \in Exceeded[m][m] : a.lane = 0 \/ a.of \in Advert[m]}
  \cup LaneFlags(m, Advert[m] \cup FaultAdvert[m])

\* The lanes m has: those its applications use or, if it lists none, the lit ones.
LanesInUse(m) ==
  IF AdvertisedLanes(m) > 0 THEN 1 .. AdvertisedLanes(m)
  ELSE {Index(y[1], y[2]) : y \in {x \in (0 .. Banks[m] - 1) \X LaneNumbers :
                                     LaneData[m][x[1]][x[2]].lit \cap Advert[m] # {}}}

\* The lanes a decoder that stops at the first page 11h of zeroes comes to, provided
\* the module advertises a monitor (cmis.go:177 and 211).
LanesInReach(m) ==
  {l \in LanesInUse(m) :
     Advert[m] # {} /\ \A b \in 0 .. (l - 1) \div LanesPerBank : <<m, b>> \notin ZeroPages}

\* A lane alarm or a lane threshold is reported only for a lane that is itself
\* reported, so that the data path gate of the alerts finds it, and never twice
\* for one lane (cmis.go:217-282 and 302-360 against 166-215).
AlarmsFollowLanes ==
  \A c \in Answered :
    LET data == result[c].data
        lanes == Lanes(data)
    IN  /\ \A a \in DOMAIN Alarms(data) \cup Thresholds(data) :
             a.lane # 0 => a.lane \in {lane.index : lane \in lanes}
        /\ \A x, y \in lanes : x.index = y.index => x = y

\* The page alarm a is about: lower memory, or page 11h of its lane's bank.
OwnPage(a) == IF a.lane = 0 THEN Lower ELSE Page11((a.lane - 1) \div LanesPerBank)

\* What m flags of itself or of a lane; a lane number belongs to one bank only.
FlaggedBy(m, lane) == IF lane = 0 THEN LowerFlags[m] ELSE LaneFlags(m, Monitors \cup Faults)

\* A zero-filled or missing page raises nothing, although a zeroed page 02h would
\* have every high threshold exceeded: the page an active alarm is about was read,
\* and either flags it or holds a reading beyond a limit in a page 02h that was read
\* too.  An image torn by a swap compares two modules, but only two that sat in the
\* cage while the call was under way (cmis.go:220, 244 and 302, common.go:35).
NothingRaisedByFill ==
  \A c \in Answered :
    LET data == result[c].data
        alarms == Alarms(data)
        seen == Modules \cap window[c]
    IN  \A a \in {x \in DOMAIN alarms : alarms[x]} :
          LET own == data[OwnPage(a)]
          IN  /\ own \in seen
              /\ \/ a \in FlaggedBy(own, a.lane)
                 \/ data[Page02] \in seen /\ a \in Exceeded[data[Page02]][own]

\* A read in which no page failed loses nothing: every alarm the module raises,
\* on itself or on a lane in use and in reach, is active in the decoded alarms
\* (cmis.go:166-382).
FullReadLosesNothing ==
  \A c \in Answered :
    LET data == result[c].data
        m == data[Lower]
    IN  /\ m \notin Flat
        /\ ReadPages(data) = 0 .. Page11(Banks[m] - 1)
        /\ \A s \in ReadPages(data) : data[s] = m
        => \A a \in Raised(m) :
             a.lane \in LanesInReach(m) \cup {0} =>
               a \in DOMAIN Alarms(data) /\ Alarms(data)[a]

\* "CMIS modules are read through netlink so upper pages and banked lane
\* diagnostics can be collected" (reader.go:40-41): if the page of a bank was
\* read, the lit lanes of that bank are decoded.
ReadBanksAreDecoded ==
  \A c \in Answered :
    LET data == result[c].data
    IN  \A b \in 0 .. MaxBanks - 1, i \in LaneNumbers :
          /\ data[Page11(b)] \in Modules
          /\ LaneData[data[Page11(b)]][b][i].lit \cap Advert[data[Page01]] # {}
          /\ AdvertisedLanes(data[Lower]) = 0
          => Index(b, i) \in LaneIndexes(data)
=============================================================================
