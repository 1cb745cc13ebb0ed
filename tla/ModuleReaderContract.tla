------------------------ MODULE ModuleReaderContract ------------------------
(***************************************************************************)
(* Proofs that the reader keeps the contract of ModuleReads, that a closed *)
(* reader fails, and that netlink data of a module that is not CMIS has an *)
(* excuse.  All three follow from what a call in flight knows of its       *)
(* window, the modules that sat in its interface since it began.           *)
(***************************************************************************)
EXTENDS ModuleReaderProofs, FiniteSetTheorems

\* Every byte of data was read in the window, filled with zero, or is not there.
ReadIn(data, w) ==
  /\ \A s \in Slots : data[s] \in (w \ {NoModule}) \cup {Zero, Missing}
  /\ IsPrefix(data)

\* A call at statement label with locals f and window w, whose interface holds here.
InFlight(label, f, w, here) ==
  /\ here \in w
  /\ IsFiniteSet(w)
  /\ ReadIn(f.page, w)
  /\ ReadIn(f.ioctl, w)
  /\ label \in Fetching \ {"lower"} => f.page[Lower] \in Modules
  /\ label \in Fetching /\ f.site # "fallback" => w \cap CMIS # {}

\* Once the reader is closed a call can only be on its way to an error.
Failing(label, f) ==
  label \in Locked =>
    label \in {"identify", "ioctl", "lower"} /\ (label = "lower" => f.site = "fallback")

\* Netlink data of a module that is not CMIS: a fallback, or the module was swapped.
Excused(r, w) ==
  r.via = "netlink" /\ ~ IsCMIS(r.data) => r.ioErr # {} \/ Cardinality(w) > 1

CInv ==
  /\ IInv
  /\ \A c \in Callers :
       /\ pc[c] \in Reading =>
            InFlight(pc[c], frame[c], window[c], plugged[frame[c].iface]) /\ result[c] = NoResult
       /\ open \/ Failing(pc[c], frame[c])
       /\ Excused(result[c], window[c])

\* The action of ClosedReaderFails.
ClosedStep ==
  \A c \in Callers : pc[c] \in Reading /\ pc'[c] = "idle" /\ ~ open => result'[c].via = "error"

calling == [c \in Callers |-> IF pc[c] \in Reading THEN frame[c].iface ELSE NoInterface]
answer == [c \in Callers |-> [ok   |-> result[c].via \in {"netlink", "ioctl"},
                              data |-> result[c].data]]

\* A step keeps the invariant, and is a step of the contract or stutters.
StepOK == CInv' /\ ClosedStep /\ [Contract!Next]_(Contract!vars)

USE DEF Contract!NoAnswer, Contract!Blank, Contract!Slots, Contract!MaxBanks, Contract!Image

-----------------------------------------------------------------------------
\* A blank image was read in any window, and so were the images the reader starts
\* from a module that is in the window.
LEMMA ReadInStarts ==
  ASSUME NEW w
  PROVE  /\ ReadIn(Blank, w)
         /\ \A m \in Modules \cap w : ReadIn(LowerImage(m), w) /\ ReadIn(Legacy(m), w)
BY MemoryAssumption DEF ReadIn, Blank, LowerImage, Legacy, IsPrefix, Slots, MaxBanks, Lower, Page00

\* appendPage of a page read in the window keeps the image so.
LEMMA ReadInAppend ==
  ASSUME NEW w, NEW data \in Image, ReadIn(data, w), NEW s \in Slots, NEW m \in Modules \cap w
  PROVE  ReadIn(AppendPage(data, s, m), w)
BY MemoryAssumption DEF ReadIn, AppendPage, IsPrefix, Slots, MaxBanks, Image

\* Upper page 00h goes into the 256 bytes that are there.
LEMMA ReadInPage00 ==
  ASSUME NEW w, NEW data \in Image, ReadIn(data, w), data[Lower] \in Modules,
         NEW m \in Modules \cap w
  PROVE  ReadIn([data EXCEPT ![Page00] = m], w)
BY MemoryAssumption DEF ReadIn, IsPrefix, Slots, MaxBanks, Image, Lower, Page00

\* A window only grows, and nothing read in it is lost.
LEMMA ReadInGrows ==
  ASSUME NEW w, NEW v, w \subseteq v, NEW data, ReadIn(data, w)
  PROVE  ReadIn(data, v)
BY DEF ReadIn

\* Two different modules in a finite window.
LEMMA TwoModules ==
  ASSUME NEW w, IsFiniteSet(w), NEW x \in w, NEW y \in w, x # y
  PROVE  Cardinality(w) > 1
<1>1. {x, y} \subseteq w /\ IsFiniteSet({x, y}) /\ Cardinality({x, y}) = 2
  <2>1. IsFiniteSet({x}) /\ Cardinality({x}) = 1
    BY FS_Singleton
  <2>2. {x, y} = {x} \cup {y} /\ y \notin {x}
    OBVIOUS
  <2> QED
    BY <2>1, <2>2, FS_AddElement
<1>2. Cardinality({x, y}) <= Cardinality(w)
  BY <1>1, FS_Subset
<1>3. Cardinality(w) \in Nat
  BY FS_CardinalityType
<1> QED
  BY <1>1, <1>2, <1>3

-----------------------------------------------------------------------------
\* A step within a call stutters in the contract.
LEMMA GotoContract ==
  ASSUME CInv, IInv', NEW c \in Callers, NEW label \in Locked, NEW f,
         pc[c] \in Locked, Goto(c, label, f), f.iface = frame[c].iface,
         InFlight(label, f, window[c], plugged[frame[c].iface]),
         open \/ Failing(label, f),
         UNCHANGED <<open, plugged, window, swaps>>
  PROVE  StepOK
<1>1. pc' = [pc EXCEPT ![c] = label] /\ frame' = [frame EXCEPT ![c] = f]
      /\ pc \in [Callers -> PCs] /\ frame \in [Callers -> Frames]
      /\ result' = result
  BY DEF Goto, CInv, IInv, TypeOK
<1>2. pc[c] \in Reading /\ label \in Reading /\ "idle" \notin Reading
  BY DEF Reading, Locked
<1>3. ASSUME NEW d \in Callers
      PROVE  /\ pc'[d] \in Reading =>
                  InFlight(pc'[d], frame'[d], window'[d], plugged'[frame'[d].iface])
                  /\ result'[d] = NoResult
             /\ open' \/ Failing(pc'[d], frame'[d])
             /\ Excused(result'[d], window'[d])
  BY <1>1, <1>2 DEF CInv
<1>4. CInv'
  BY <1>3 DEF CInv, InFlight, ReadIn, Failing, Excused, IsPrefix, IsCMIS
<1>5. ClosedStep
  BY <1>1, <1>2 DEF ClosedStep
<1>6. UNCHANGED Contract!vars
  BY <1>1, <1>2 DEF Contract!vars
<1> QED
  BY <1>4, <1>5, <1>6 DEF StepOK

\* A step that returns is the contract's Return.
LEMMA ReturnContract ==
  ASSUME CInv, IInv', NEW c \in Callers, NEW via \in {"netlink", "ioctl", "error"},
         NEW data \in Image, NEW f,
         pc[c] \in Locked, Return(c, via, data, f),
         via = "error" => data = Blank,
         via # "error" => open /\ ReadIn(data, window[c]),
         via = "netlink" => IsCMIS(data) \/ f.ioErr # {} \/ Cardinality(window[c]) > 1,
         UNCHANGED <<open, plugged, window, swaps>>
  PROVE  StepOK
<1> DEFINE r == [via |-> via, data |-> data, ioErr |-> f.ioErr, nlErr |-> f.nlErr]
<1>1. pc' = [pc EXCEPT ![c] = "idle"] /\ frame' = [frame EXCEPT ![c] = Fresh(NoInterface)]
      /\ result' = [result EXCEPT ![c] = r]
      /\ pc \in [Callers -> PCs] /\ frame \in [Callers -> Frames]
      /\ result \in [Callers -> Results]
  BY DEF Return, CInv, IInv, TypeOK
<1>2. pc[c] \in Reading /\ "idle" \notin Reading /\ "idle" \notin Locked
  BY DEF Reading, Locked
<1>3. Excused(r, window[c])
  BY DEF Excused
<1>4. ASSUME NEW d \in Callers
      PROVE  /\ pc'[d] \in Reading =>
                  InFlight(pc'[d], frame'[d], window'[d], plugged'[frame'[d].iface])
                  /\ result'[d] = NoResult
             /\ open' \/ Failing(pc'[d], frame'[d])
             /\ Excused(result'[d], window'[d])
  BY <1>1, <1>2, <1>3 DEF CInv, Failing
<1>5. CInv'
  BY <1>4 DEF CInv, InFlight, ReadIn, Failing, Excused, IsPrefix, IsCMIS
<1>6. ClosedStep
  BY <1>1, <1>2 DEF ClosedStep
<1>7. Contract!Return(c)
  <2>1. calling[c] # NoInterface
    BY <1>1, <1>2, ReaderAssumption DEF calling, CInv, IInv, LocalOK
  <2>2. calling' = [calling EXCEPT ![c] = NoInterface]
    BY <1>1, <1>2 DEF calling
  <2>3. answer' = [answer EXCEPT ![c] = answer'[c]]
    BY <1>1 DEF answer
  <2>4. answer'[c] = [ok |-> via \in {"netlink", "ioctl"}, data |-> data]
    BY <1>1 DEF answer
  <2>5. answer'[c] \in Contract!Answers
    BY <2>4 DEF Contract!Answers, Image, Slots, MaxBanks
  <2>6. CASE via = "error"
    <3>1. (via \in {"netlink", "ioctl"}) = FALSE
      BY <2>6
    <3>2. data = Contract!Blank
      BY <2>6 DEF Blank, Slots, MaxBanks
    <3>3. answer'[c] = Contract!NoAnswer
      BY <2>4, <3>1, <3>2
    <3> QED
      BY <2>1, <2>2, <2>3, <2>5, <3>3 DEF Contract!Return, calling, answer
  <2>7. CASE via # "error"
    <3>0. (via \in {"netlink", "ioctl"}) = TRUE
      BY <2>7
    <3>3. answer'[c] = [ok |-> TRUE, data |-> data]
      BY <2>4, <3>0
    <3>1. answer'[c].ok /\ answer'[c].data = data
      <4>1. \A a : a = [ok |-> TRUE, data |-> data] => a.ok /\ a.data = data
        OBVIOUS
      <4> QED
        BY <3>3, <4>1, Zenon
    <3>2. Contract!ReadFrom(data, window[c] \ {NoModule})
      BY <2>7 DEF Contract!ReadFrom, Contract!IsPrefix, ReadIn, IsPrefix, Slots, MaxBanks
    <3> QED
      BY <2>1, <2>2, <2>3, <2>5, <3>1, <3>2 DEF Contract!Return, calling, answer
  <2> QED
    BY <2>6, <2>7
<1>8. [Contract!Next]_(Contract!vars)
  BY <1>7 DEF Contract!Next
<1> QED
  BY <1>5, <1>6, <1>8 DEF StepOK

-----------------------------------------------------------------------------
(***************************************************************************)
(* The steps outside the mutex.                                            *)
(***************************************************************************)

\* A swap widens the window of the calls about that interface, and of no other.
LEMMA SwapContract ==
  ASSUME CInv, IInv', NEW i \in Interfaces, NEW m \in Modules \cup {NoModule}, Swap(i, m)
  PROVE  StepOK
<1>1. /\ plugged' = [plugged EXCEPT ![i] = m] /\ plugged \in [Interfaces -> Modules \cup {NoModule}]
      /\ window' = [c \in Callers |->
                      IF pc[c] \in Reading /\ frame[c].iface = i
                        THEN window[c] \cup {m} ELSE window[c]]
      /\ UNCHANGED <<lock, open, pc, frame, result>>
  BY DEF Swap, CInv, IInv, TypeOK
<1>2. ASSUME NEW d \in Callers
      PROVE  /\ pc'[d] \in Reading =>
                  InFlight(pc'[d], frame'[d], window'[d], plugged'[frame'[d].iface])
                  /\ result'[d] = NoResult
             /\ open' \/ Failing(pc'[d], frame'[d])
             /\ Excused(result'[d], window'[d])
  <2>1. CASE pc[d] \in Reading /\ frame[d].iface = i
    <3>1. /\ InFlight(pc[d], frame[d], window[d], plugged[i]) /\ result[d] = NoResult
          /\ open \/ Failing(pc[d], frame[d])
      BY <2>1 DEF CInv
    <3>2. window'[d] = window[d] \cup {m} /\ plugged'[i] = m
      BY <1>1, <2>1
    <3>3. IsFiniteSet(window'[d])
      BY <3>1, <3>2, FS_AddElement DEF InFlight
    <3>4. ReadIn(frame[d].page, window'[d]) /\ ReadIn(frame[d].ioctl, window'[d])
      BY <3>1, <3>2, ReadInGrows DEF InFlight
    <3>5. InFlight(pc[d], frame[d], window'[d], m)
      BY <3>1, <3>2, <3>3, <3>4 DEF InFlight
    <3>6. Excused(result[d], window'[d])
      BY <3>1 DEF Excused, NoResult
    <3> QED
      BY <1>1, <2>1, <3>1, <3>2, <3>5, <3>6
  <2>2. CASE ~ (pc[d] \in Reading /\ frame[d].iface = i)
    <3>1. window'[d] = window[d]
      BY <1>1, <2>2
    <3>2. pc[d] \in Reading => plugged'[frame[d].iface] = plugged[frame[d].iface]
      BY <1>1, <2>2
    <3> QED
      BY <1>1, <3>1, <3>2 DEF CInv
  <2> QED
    BY <2>1, <2>2
<1>3. CInv'
  BY <1>2 DEF CInv, InFlight, ReadIn, Failing, Excused, IsPrefix, IsCMIS
<1>4. ClosedStep
  BY <1>1 DEF ClosedStep, Reading, Locked
<1>5. Contract!Swap(i, m)
  <2>1. \A c \in Callers : calling[c] = i <=> pc[c] \in Reading /\ frame[c].iface = i
    BY ReaderAssumption DEF calling
  <2>2. window' = [c \in Callers |-> IF calling[c] = i THEN window[c] \cup {m} ELSE window[c]]
    BY <1>1, <2>1
  <2>3. UNCHANGED <<calling, answer>>
    BY <1>1 DEF calling, answer
  <2> QED
    BY <1>1, <2>2, <2>3 DEF Contract!Swap, calling, answer
<1> QED
  BY <1>3, <1>4, <1>5 DEF StepOK, Contract!Next

\* A call starts with the module that is there and nothing read.
LEMMA CallContract ==
  ASSUME CInv, IInv', NEW c \in Callers, NEW i \in Interfaces, Call(c, i)
  PROVE  StepOK
<1>1. /\ pc' = [pc EXCEPT ![c] = "wait"] /\ frame' = [frame EXCEPT ![c] = Fresh(i)]
      /\ result' = [result EXCEPT ![c] = NoResult]
      /\ window' = [window EXCEPT ![c] = {plugged[i]}]
      /\ pc[c] = "idle" /\ UNCHANGED <<lock, open, plugged, swaps>>
      /\ pc \in [Callers -> PCs] /\ frame \in [Callers -> Frames]
      /\ result \in [Callers -> Results]
      /\ window \in [Callers -> SUBSET (Modules \cup {NoModule})]
  BY DEF Call, CInv, IInv, TypeOK
<1>2. "wait" \in Reading /\ "idle" \notin Reading /\ "wait" \notin Locked
      /\ "wait" \notin Fetching
  BY DEF Reading, Locked, Fetching
<1>3. Fresh(i).iface = i /\ Fresh(i).page = Blank /\ Fresh(i).ioctl = Blank
  BY DEF Fresh
<1>4. IsFiniteSet({plugged[i]})
  BY FS_Singleton
<1>5. InFlight("wait", Fresh(i), {plugged[i]}, plugged[i])
  BY <1>2, <1>3, <1>4, ReadInStarts DEF InFlight
<1>6. Excused(NoResult, {plugged[i]})
  BY DEF Excused, NoResult
<1>7. ASSUME NEW d \in Callers
      PROVE  /\ pc'[d] \in Reading =>
                  InFlight(pc'[d], frame'[d], window'[d], plugged'[frame'[d].iface])
                  /\ result'[d] = NoResult
             /\ open' \/ Failing(pc'[d], frame'[d])
             /\ Excused(result'[d], window'[d])
  BY <1>1, <1>2, <1>3, <1>5, <1>6 DEF CInv, Failing
<1>8. CInv'
  BY <1>7 DEF CInv, InFlight, ReadIn, Failing, Excused, IsPrefix, IsCMIS
<1>9. ClosedStep
  BY <1>1, <1>2 DEF ClosedStep
<1>10. Contract!Call(c, i)
  <2>1. calling[c] = NoInterface /\ calling' = [calling EXCEPT ![c] = i]
    BY <1>1, <1>2, <1>3 DEF calling
  <2>2. answer' = [answer EXCEPT ![c] = Contract!NoAnswer]
    <3>1. (NoResult.via \in {"netlink", "ioctl"}) = FALSE /\ NoResult.data = Contract!Blank
      BY DEF NoResult, Blank, Slots, MaxBanks
    <3> QED
      BY <1>1, <3>1 DEF answer
  <2> QED
    BY <1>1, <2>1, <2>2 DEF Contract!Call, calling, answer
<1> QED
  BY <1>8, <1>9, <1>10 DEF StepOK, Contract!Next

\* Taking the mutex, and the start of Close, say nothing to the contract.
LEMMA AcquireContract ==
  ASSUME CInv, IInv', NEW c \in Callers, Acquire(c) \/ BeginClose(c) \/ AcquireClose(c)
  PROVE  StepOK
<1>1. /\ UNCHANGED <<open, frame, result, plugged, window>>
      /\ pc \in [Callers -> PCs]
      /\ \E label \in {"identify", "ioctl", "closewait", "closing"} :
            /\ pc' = [pc EXCEPT ![c] = label]
            /\ label \in Reading <=> pc[c] \in Reading
            /\ label \in Locked => label \in {"identify", "ioctl"}
  BY DEF Acquire, BeginClose, AcquireClose, Reading, Locked, CInv, IInv, TypeOK
<1>2. PICK label \in {"identify", "ioctl", "closewait", "closing"} :
            /\ pc' = [pc EXCEPT ![c] = label]
            /\ label \in Reading <=> pc[c] \in Reading
            /\ label \in Locked => label \in {"identify", "ioctl"}
  BY <1>1
<1>3. label \notin Fetching /\ label # "idle" /\ "idle" \notin Reading
  BY DEF Fetching, Reading, Locked
<1>4. ASSUME NEW d \in Callers
      PROVE  /\ pc'[d] \in Reading =>
                  InFlight(pc'[d], frame'[d], window'[d], plugged'[frame'[d].iface])
                  /\ result'[d] = NoResult
             /\ open' \/ Failing(pc'[d], frame'[d])
             /\ Excused(result'[d], window'[d])
  BY <1>1, <1>2, <1>3 DEF CInv, Failing, InFlight
<1>5. CInv'
  BY <1>4 DEF CInv, InFlight, ReadIn, Failing, Excused, IsPrefix, IsCMIS
<1>6. ClosedStep
  BY <1>1, <1>2, <1>3 DEF ClosedStep
<1>7. UNCHANGED Contract!vars
  BY <1>1, <1>2 DEF Contract!vars
<1> QED
  BY <1>5, <1>6, <1>7 DEF StepOK

\* Close holds the mutex, so no call is under way in it when the clients go.
LEMMA CloseContract ==
  ASSUME CInv, IInv', NEW c \in Callers, Close(c)
  PROVE  StepOK
<1>1. /\ pc[c] = "closing" /\ pc' = [pc EXCEPT ![c] = "idle"] /\ pc \in [Callers -> PCs]
      /\ UNCHANGED <<frame, result, plugged, window>>
  BY DEF Close, CInv, IInv, TypeOK
<1>2. "idle" \notin Reading /\ "closing" \notin Reading /\ "idle" \notin Locked
      /\ "closing" \notin Locked
  BY DEF Reading, Locked
<1>3. \A d \in Callers : pc[d] \notin Locked
  BY <1>1, <1>2 DEF CInv, IInv, Serialized
<1>4. ASSUME NEW d \in Callers
      PROVE  /\ pc'[d] \in Reading =>
                  InFlight(pc'[d], frame'[d], window'[d], plugged'[frame'[d].iface])
                  /\ result'[d] = NoResult
             /\ open' \/ Failing(pc'[d], frame'[d])
             /\ Excused(result'[d], window'[d])
  BY <1>1, <1>2, <1>3 DEF CInv, Failing
<1>5. CInv'
  BY <1>4 DEF CInv, InFlight, ReadIn, Failing, Excused, IsPrefix, IsCMIS
<1>6. ClosedStep
  BY <1>1, <1>2 DEF ClosedStep
<1>7. UNCHANGED Contract!vars
  BY <1>1, <1>2 DEF Contract!vars
<1> QED
  BY <1>5, <1>6, <1>7 DEF StepOK

-----------------------------------------------------------------------------
(***************************************************************************)
(* The transactions.                                                       *)
(***************************************************************************)

\* An answer comes from the window, and only while the reader is open.
LEMMA AnswerInWindow ==
  ASSUME CInv, NEW c \in Callers, pc[c] \in Locked, NEW m \in Answering(c)
  PROVE  open /\ m \in Modules \cap window[c]
<1>1. pc[c] \in Reading
  BY DEF Reading
<1>2. frame[c].iface \in Interfaces /\ plugged[frame[c].iface] \in window[c]
  BY <1>1 DEF CInv, IInv, LocalOK, InFlight
<1> QED
  BY <1>2, AnsweringModules DEF Answering, CInv, IInv

\* What the locals of a call under the mutex satisfy.
LEMMA Flying ==
  ASSUME CInv, NEW c \in Callers, pc[c] \in Locked
  PROVE  /\ frame[c] \in Frames /\ LocalOK(pc[c], frame[c])
         /\ InFlight(pc[c], frame[c], window[c], plugged[frame[c].iface])
         /\ open \/ Failing(pc[c], frame[c])
BY DEF CInv, IInv, TypeOK, Reading

\* A probe that is answered by a CMIS module puts one in the window.
LEMMA IdentifyContract ==
  ASSUME CInv, IInv', NEW c \in Callers, Identify(c)
  PROVE  StepOK
<1>1. pc[c] = "identify" /\ pc[c] \in Locked /\ UNCHANGED <<open, plugged, window, swaps>>
  BY DEF Identify, Locked
<1>2. PICK reply \in Answering(c) \cup Errnos :
        Goto(c, IF reply \in CMIS THEN "lower" ELSE "ioctl", frame[c])
  BY DEF Identify
<1>3. InFlight("identify", frame[c], window[c], plugged[frame[c].iface])
  BY <1>1, Flying
<1>4. CASE reply \in CMIS
  <2>1. reply \in Answering(c)
    BY <1>2, <1>4, MemoryAssumption, ReaderAssumption
  <2>2. open /\ reply \in window[c]
    BY <1>1, <2>1, AnswerInWindow
  <2>3. InFlight("lower", frame[c], window[c], plugged[frame[c].iface])
    BY <1>3, <1>4, <2>2 DEF InFlight
  <2> QED
    BY <1>1, <1>2, <1>4, <2>2, <2>3, GotoContract DEF Locked
<1>5. CASE reply \notin CMIS
  <2>1. InFlight("ioctl", frame[c], window[c], plugged[frame[c].iface])
    BY <1>3 DEF InFlight, Fetching
  <2>2. Failing("ioctl", frame[c])
    BY DEF Failing
  <2> QED
    BY <1>1, <1>2, <1>5, <2>1, <2>2, GotoContract DEF Locked
<1> QED
  BY <1>4, <1>5

\* A failed netlink call goes on to ioctl, returns the ioctl data it holds, which
\* only an open reader does, or fails.
LEMMA NetlinkFailedContract ==
  ASSUME CInv, IInv', NEW c \in Callers, NEW e \in Errnos, pc[c] = "lower",
         NetlinkFailed(c, e), UNCHANGED <<open, plugged, window, swaps>>
  PROVE  StepOK
<1> DEFINE f == [frame[c] EXCEPT !.nlErr = {e}]
<1>1. /\ pc[c] \in Locked /\ frame[c] \in Frames /\ LocalOK("lower", frame[c])
      /\ InFlight("lower", frame[c], window[c], plugged[frame[c].iface])
      /\ open \/ Failing("lower", frame[c])
  BY Flying DEF Locked
<1>2. /\ f.page = frame[c].page /\ f.ioctl = frame[c].ioctl /\ f.site = frame[c].site
      /\ f.iface = frame[c].iface
  BY <1>1 DEF Frames
<1> HIDE DEF f
<1>3. CASE f.site = "preferred" /\ Goto(c, "ioctl", f)
  <2>1. InFlight("ioctl", f, window[c], plugged[frame[c].iface])
    BY <1>1, <1>2 DEF InFlight, Fetching
  <2>2. Failing("ioctl", f)
    BY DEF Failing
  <2> QED
    BY <1>1, <1>2, <1>3, <2>1, <2>2, GotoContract DEF Locked
<1>4. CASE f.site = "upgrade" /\ Return(c, "ioctl", f.ioctl, f)
  <2>1. open
    BY <1>1, <1>2, <1>4 DEF Failing, Locked
  <2>2. ReadIn(f.ioctl, window[c]) /\ f.ioctl \in Image
    BY <1>1, <1>2 DEF InFlight, Frames
  <2> QED
    BY <1>1, <1>4, <2>1, <2>2, ReturnContract
<1>5. CASE f.site = "fallback" /\ Return(c, "error", Blank, f)
  BY <1>1, <1>5, ImageTypes, ReturnContract
<1> QED
  BY <1>3, <1>4, <1>5 DEF NetlinkFailed, f

\* Lower memory is the first thing a fetch reads.
LEMMA ReadLowerContract ==
  ASSUME CInv, IInv', NEW c \in Callers, ReadLower(c)
  PROVE  StepOK
<1>1. pc[c] = "lower" /\ pc[c] \in Locked /\ UNCHANGED <<open, plugged, window, swaps>>
  BY DEF ReadLower, Locked
<1>2. CASE \E m \in Answering(c) :
             Goto(c, "page00", [frame[c] EXCEPT !.page = LowerImage(m)])
  <2>1. PICK m \in Answering(c) :
          Goto(c, "page00", [frame[c] EXCEPT !.page = LowerImage(m)])
    BY <1>2
  <2> DEFINE f == [frame[c] EXCEPT !.page = LowerImage(m)]
  <2>2. open /\ m \in Modules \cap window[c]
    BY <1>1, AnswerInWindow
  <2>3. /\ InFlight("lower", frame[c], window[c], plugged[frame[c].iface])
        /\ f.page = LowerImage(m) /\ f.ioctl = frame[c].ioctl /\ f.site = frame[c].site
        /\ f.iface = frame[c].iface
    BY <1>1, Flying DEF Frames
  <2>6. Goto(c, "page00", f)
    BY <2>1
  <2> HIDE DEF f
  <2>4. f.page[Lower] \in Modules /\ ReadIn(f.page, window[c])
    <3>1. f.page[Lower] = m
      BY <2>3 DEF LowerImage, Slots, MaxBanks, Lower
    <3> QED
      BY <2>2, <2>3, <3>1, ReadInStarts
  <2>5. InFlight("page00", f, window[c], plugged[frame[c].iface])
    BY <2>3, <2>4 DEF InFlight, Fetching
  <2> QED
    BY <1>1, <2>2, <2>3, <2>5, <2>6, GotoContract DEF Locked
<1>3. CASE \E e \in Errnos : NetlinkFailed(c, e)
  BY <1>1, <1>3, NetlinkFailedContract
<1> QED
  BY <1>2, <1>3 DEF ReadLower

\* A fetch that goes on reading, whose lower memory stays as it was read.
LEMMA GotoFetching ==
  ASSUME CInv, IInv', NEW c \in Callers, pc[c] \in Fetching \ {"lower"},
         NEW label \in Fetching \ {"lower"}, NEW f, NEW data,
         Goto(c, label, f), f.page = data, f.ioctl = frame[c].ioctl,
         f.site = frame[c].site, f.iface = frame[c].iface,
         ReadIn(data, window[c]), data[Lower] = frame[c].page[Lower],
         UNCHANGED <<open, plugged, window, swaps>>
  PROVE  StepOK
<1>1. pc[c] \in Locked /\ label \in Locked
  BY DEF Fetching, Locked
<1>2. /\ InFlight(pc[c], frame[c], window[c], plugged[frame[c].iface])
      /\ open \/ Failing(pc[c], frame[c])
  BY <1>1, Flying
<1>3. open
  BY <1>1, <1>2 DEF Failing, Fetching
<1>4. InFlight(label, f, window[c], plugged[frame[c].iface])
  BY <1>2 DEF InFlight
<1> QED
  BY <1>1, <1>3, <1>4, GotoContract

\* A fetch that is done returns CMIS data, unless it is a fallback or the module
\* was swapped since a CMIS one answered.
LEMMA ReturnFetched ==
  ASSUME CInv, IInv', NEW c \in Callers, pc[c] \in Fetching \ {"lower"},
         NEW data \in Image, Return(c, "netlink", data, frame[c]),
         ReadIn(data, window[c]), data[Lower] = frame[c].page[Lower],
         UNCHANGED <<open, plugged, window, swaps>>
  PROVE  StepOK
<1>1. pc[c] \in Locked
  BY DEF Fetching, Locked
<1>2. /\ InFlight(pc[c], frame[c], window[c], plugged[frame[c].iface])
      /\ LocalOK(pc[c], frame[c])
      /\ open \/ Failing(pc[c], frame[c])
  BY <1>1, Flying
<1>3. open
  BY <1>1, <1>2 DEF Failing, Fetching
<1>4. IsCMIS(data) \/ frame[c].ioErr # {} \/ Cardinality(window[c]) > 1
  <2>1. CASE frame[c].site = "fallback"
    BY <1>2, <2>1 DEF LocalOK
  <2>2. CASE frame[c].site # "fallback"
    <3>1. PICK x \in window[c] : x \in CMIS
      BY <1>2, <2>2 DEF InFlight
    <3>2. data[Lower] \in Modules /\ Lower \in Slots
      BY <1>2 DEF InFlight, Slots, MaxBanks, Lower
    <3>3. data[Lower] \in window[c]
      BY <3>2, MemoryAssumption DEF ReadIn
    <3>4. CASE data[Lower] = x
      BY <3>1, <3>4 DEF IsCMIS
    <3>5. CASE data[Lower] # x
      BY <1>2, <3>1, <3>3, <3>5, TwoModules DEF InFlight
    <3> QED
      BY <3>4, <3>5
  <2> QED
    BY <2>1, <2>2
<1> QED
  BY <1>1, <1>3, <1>4, ReturnContract

\* What a fetch past lower memory knows of its image.
LEMMA FetchedSoFar ==
  ASSUME CInv, NEW c \in Callers, pc[c] \in Fetching \ {"lower"}
  PROVE  /\ pc[c] \in Locked /\ frame[c] \in Frames
         /\ frame[c].page \in Image /\ ReadIn(frame[c].page, window[c])
         /\ frame[c].page[Lower] \in Modules
<1>1. pc[c] \in Locked
  BY DEF Fetching, Locked
<1>2. InFlight(pc[c], frame[c], window[c], plugged[frame[c].iface]) /\ frame[c] \in Frames
  BY <1>1, Flying
<1> QED
  BY <1>1, <1>2 DEF InFlight, Frames

\* Appending a page that was answered keeps the image read in the window, and the
\* lower memory it starts with.
LEMMA AppendAnswered ==
  ASSUME CInv, NEW c \in Callers, pc[c] \in Fetching \ {"lower"}, NEW m \in Answering(c),
         NEW s \in Slots, s # Lower
  PROVE  LET new == AppendPage(frame[c].page, s, m)
         IN  /\ new \in Image /\ ReadIn(new, window[c])
             /\ new[Lower] = frame[c].page[Lower]
<1>1. /\ pc[c] \in Locked /\ frame[c].page \in Image /\ ReadIn(frame[c].page, window[c])
      /\ frame[c].page[Lower] \in Modules
  BY FetchedSoFar
<1>2. m \in Modules \cap window[c]
  BY <1>1, AnswerInWindow
<1>3. Lower \in Slots
  BY DEF Slots, MaxBanks, Lower
<1> DEFINE new == AppendPage(frame[c].page, s, m)
<1>4. new \in Image
  BY <1>1, <1>2, ImageTypes
<1>5. ReadIn(new, window[c])
  BY <1>1, <1>2, ReadInAppend
<1>6. new[Lower] = frame[c].page[Lower]
  BY <1>1, <1>2, <1>3, AppendPageReads
<1> QED
  BY <1>4, <1>5, <1>6

\* Page 00h fills the slot allocated for it; flat memory ends there.
LEMMA ReadPage00Contract ==
  ASSUME CInv, IInv', NEW c \in Callers, ReadPage00(c)
  PROVE  StepOK
<1>1. pc[c] = "page00" /\ pc[c] \in Fetching \ {"lower"} /\ UNCHANGED <<open, plugged, window, swaps>>
  BY DEF ReadPage00, Fetching
<1>2. /\ pc[c] \in Locked /\ frame[c] \in Frames /\ frame[c].page \in Image
      /\ ReadIn(frame[c].page, window[c]) /\ frame[c].page[Lower] \in Modules
  BY <1>1, FetchedSoFar
<1>3. ASSUME NEW m \in Answering(c),
             LET data == [frame[c].page EXCEPT ![Page00] = m]
             IN  IF data[Lower] \in Flat
                   THEN Return(c, "netlink", data, frame[c])
                   ELSE Goto(c, "page01", [frame[c] EXCEPT !.page = data])
      PROVE  StepOK
  <2> DEFINE data == [frame[c].page EXCEPT ![Page00] = m]
             g == [frame[c] EXCEPT !.page = data]
  <2>1. m \in Modules \cap window[c]
    BY <1>2, AnswerInWindow
  <2>2. Page00 \in Slots /\ Lower \in Slots /\ Page00 # Lower
    BY DEF Slots, MaxBanks, Lower, Page00
  <2>3. data \in Image /\ data[Lower] = frame[c].page[Lower]
    BY <1>2, <2>1, <2>2, ImageTypes DEF Image
  <2>4. ReadIn(data, window[c])
    BY <1>2, <2>1, ReadInPage00
  <2>5. g.page = data /\ g.ioctl = frame[c].ioctl /\ g.site = frame[c].site
        /\ g.iface = frame[c].iface
    BY <1>2 DEF Frames
  <2>6. \/ Return(c, "netlink", data, frame[c])
        \/ Goto(c, "page01", g)
    BY <1>3
  <2>7. "page01" \in Fetching \ {"lower"}
    BY DEF Fetching
  <2> HIDE DEF data, g
  <2>8. CASE Return(c, "netlink", data, frame[c])
    BY <1>1, <2>3, <2>4, <2>8, ReturnFetched
  <2>9. CASE Goto(c, "page01", g)
    BY <1>1, <2>3, <2>4, <2>5, <2>7, <2>9, GotoFetching
  <2> QED
    BY <2>6, <2>8, <2>9
<1>4. CASE Return(c, "netlink", frame[c].page, frame[c])
  BY <1>1, <1>2, <1>4, ReturnFetched
<1> QED
  BY <1>3, <1>4 DEF ReadPage00

\* Page 01h is appended, or ends the image.
LEMMA ReadPage01Contract ==
  ASSUME CInv, IInv', NEW c \in Callers, ReadPage01(c)
  PROVE  StepOK
<1>1. pc[c] \in Fetching \ {"lower"} /\ UNCHANGED <<open, plugged, window, swaps>>
  BY DEF ReadPage01, Fetching
<1>2. /\ pc[c] \in Locked /\ frame[c] \in Frames /\ frame[c].page \in Image
      /\ ReadIn(frame[c].page, window[c])
  BY <1>1, FetchedSoFar
<1>3. ASSUME NEW m \in Answering(c),
             Goto(c, "page02", [frame[c] EXCEPT !.page = AppendPage(@, Page01, m)])
      PROVE  StepOK
  <2> DEFINE data == AppendPage(frame[c].page, Page01, m)
             g == [frame[c] EXCEPT !.page = data]
  <2>1. Page01 \in Slots /\ Page01 # Lower /\ "page02" \in Fetching \ {"lower"}
    BY DEF Slots, MaxBanks, Lower, Page01, Fetching
  <2>2. ReadIn(data, window[c]) /\ data[Lower] = frame[c].page[Lower]
    BY <1>1, <2>1, AppendAnswered
  <2>3. g.page = data /\ g.ioctl = frame[c].ioctl /\ g.site = frame[c].site
        /\ g.iface = frame[c].iface
    BY <1>2 DEF Frames
  <2>4. Goto(c, "page02", g)
    BY <1>3
  <2> HIDE DEF data, g
  <2> QED
    BY <1>1, <2>1, <2>2, <2>3, <2>4, GotoFetching
<1>4. CASE Return(c, "netlink", frame[c].page, frame[c])
  BY <1>1, <1>2, <1>4, ReturnFetched
<1> QED
  BY <1>3, <1>4 DEF ReadPage01

\* Page 02h is appended, or skipped.
LEMMA ReadPage02Contract ==
  ASSUME CInv, IInv', NEW c \in Callers, ReadPage02(c)
  PROVE  StepOK
<1>1. pc[c] \in Fetching \ {"lower"} /\ UNCHANGED <<open, plugged, window, swaps>>
  BY DEF ReadPage02, Fetching
<1>2. /\ pc[c] \in Locked /\ frame[c] \in Frames /\ frame[c].page \in Image
      /\ ReadIn(frame[c].page, window[c])
  BY <1>1, FetchedSoFar
<1>3. Page02 \in Slots /\ Page02 # Lower /\ "bank" \in Fetching \ {"lower"}
  BY DEF Slots, MaxBanks, Lower, Page02, Fetching
<1>4. ASSUME NEW m \in Answering(c),
             Goto(c, "bank", [frame[c] EXCEPT !.page = AppendPage(@, Page02, m)])
      PROVE  StepOK
  <2> DEFINE data == AppendPage(frame[c].page, Page02, m)
             g == [frame[c] EXCEPT !.page = data]
  <2>1. ReadIn(data, window[c]) /\ data[Lower] = frame[c].page[Lower]
    BY <1>1, <1>3, AppendAnswered
  <2>2. g.page = data /\ g.ioctl = frame[c].ioctl /\ g.site = frame[c].site
        /\ g.iface = frame[c].iface
    BY <1>2 DEF Frames
  <2>3. Goto(c, "bank", g)
    BY <1>4
  <2> HIDE DEF data, g
  <2> QED
    BY <1>1, <1>3, <2>1, <2>2, <2>3, GotoFetching
<1>5. CASE Goto(c, "bank", frame[c])
  BY <1>1, <1>2, <1>3, <1>5, GotoFetching
<1> QED
  BY <1>4, <1>5 DEF ReadPage02

\* The next bank is read into the image so far, or the image is returned.
LEMMA NextBankContract ==
  ASSUME CInv, IInv', NEW c \in Callers, NEW data \in Image, pc[c] = "bank",
         NextBank(c, data), ReadIn(data, window[c]), data[Lower] = frame[c].page[Lower],
         UNCHANGED <<open, plugged, window, swaps>>
  PROVE  StepOK
<1> DEFINE g == [frame[c] EXCEPT !.page = data, !.bank = @ + 1]
<1>1. pc[c] \in Fetching \ {"lower"} /\ "bank" \in Fetching \ {"lower"}
  BY DEF Fetching
<1>2. frame[c] \in Frames
  BY <1>1, FetchedSoFar
<1>3. g.page = data /\ g.ioctl = frame[c].ioctl /\ g.site = frame[c].site
      /\ g.iface = frame[c].iface
  BY <1>2 DEF Frames
<1>4. Goto(c, "bank", g) \/ Return(c, "netlink", data, frame[c])
  BY DEF NextBank
<1> HIDE DEF g
<1>5. CASE Goto(c, "bank", g)
  BY <1>1, <1>3, <1>5, GotoFetching
<1>6. CASE Return(c, "netlink", data, frame[c])
  BY <1>1, <1>6, ReturnFetched
<1> QED
  BY <1>4, <1>5, <1>6

\* A bank's page is appended, or skipped.
LEMMA ReadBankContract ==
  ASSUME CInv, IInv', NEW c \in Callers, ReadBank(c)
  PROVE  StepOK
<1>1. /\ pc[c] = "bank" /\ pc[c] \in Fetching \ {"lower"}
      /\ UNCHANGED <<open, plugged, window, swaps>>
  BY DEF ReadBank, Fetching
<1>2. /\ pc[c] \in Locked /\ frame[c] \in Frames /\ frame[c].page \in Image
      /\ ReadIn(frame[c].page, window[c])
  BY <1>1, FetchedSoFar
<1>3. Page11(frame[c].bank) \in Slots /\ Page11(frame[c].bank) # Lower
  BY <1>2 DEF Frames, Slots, MaxBanks, Lower, Page11
<1>4. ASSUME NEW m \in Answering(c),
             NextBank(c, AppendPage(frame[c].page, Page11(frame[c].bank), m))
      PROVE  StepOK
  BY <1>1, <1>3, <1>4, AppendAnswered, NextBankContract
<1>5. CASE NextBank(c, frame[c].page)
  BY <1>1, <1>2, <1>5, NextBankContract
<1> QED
  BY <1>4, <1>5 DEF ReadBank

\* ioctl data is read in the window; CMIS data means a CMIS module is in it.
LEMMA IoctlContract ==
  ASSUME CInv, IInv', NEW c \in Callers, Ioctl(c)
  PROVE  StepOK
<1>1. /\ pc[c] = "ioctl" /\ pc[c] \in Locked /\ UNCHANGED <<open, plugged, window, swaps>>
      /\ "lower" \in Locked
  BY DEF Ioctl, Locked
<1>2. /\ frame[c] \in Frames
      /\ InFlight("ioctl", frame[c], window[c], plugged[frame[c].iface])
  BY <1>1, Flying
<1>3. ASSUME NEW m \in Answering(c), NEW data \in {Legacy(m), Blank}, IoctlAnswered(c, data)
      PROVE  StepOK
  <2> DEFINE g == [frame[c] EXCEPT !.site = "upgrade", !.ioctl = data]
  <2>1. open /\ m \in Modules \cap window[c]
    BY <1>1, AnswerInWindow
  <2>2. ReadIn(data, window[c]) /\ data \in Image
    BY <2>1, ReadInStarts, ImageTypes
  <2>3. g.page = frame[c].page /\ g.ioctl = data /\ g.site = "upgrade"
        /\ g.iface = frame[c].iface
    BY <1>2 DEF Frames
  <2>4. \/ IsCMIS(data) /\ Goto(c, "lower", g)
        \/ Return(c, "ioctl", data, frame[c])
    BY <1>3 DEF IoctlAnswered
  <2> HIDE DEF g
  <2>5. CASE IsCMIS(data) /\ Goto(c, "lower", g)
    <3>1. data[Lower] \in window[c] \cap CMIS
      BY <2>2, <2>5, MemoryAssumption DEF IsCMIS, ReadIn, Slots, MaxBanks, Lower
    <3>2. InFlight("lower", g, window[c], plugged[frame[c].iface])
      BY <1>2, <2>2, <2>3, <3>1 DEF InFlight
    <3> QED
      BY <1>1, <2>1, <2>3, <2>5, <3>2, GotoContract
  <2>6. CASE Return(c, "ioctl", data, frame[c])
    BY <1>1, <2>1, <2>2, <2>6, ReturnContract
  <2> QED
    BY <2>4, <2>5, <2>6
<1>4. ASSUME NEW e \in Errnos, IoctlFailed(c, e)
      PROVE  StepOK
  <2> DEFINE f == [frame[c] EXCEPT !.ioErr = {e}]
             g == [f EXCEPT !.site = "fallback"]
  <2>1. g.page = frame[c].page /\ g.ioctl = frame[c].ioctl /\ g.site = "fallback"
        /\ g.iface = frame[c].iface
    BY <1>2 DEF Frames
  <2>2. Goto(c, "lower", g) \/ Return(c, "error", Blank, f)
    BY <1>4 DEF IoctlFailed
  <2> HIDE DEF f, g
  <2>3. CASE Goto(c, "lower", g)
    <3>1. InFlight("lower", g, window[c], plugged[frame[c].iface]) /\ Failing("lower", g)
      BY <1>2, <2>1 DEF InFlight, Failing
    <3> QED
      BY <1>1, <2>1, <2>3, <3>1, GotoContract
  <2>4. CASE Return(c, "error", Blank, f)
    BY <1>1, <2>4, ImageTypes, ReturnContract
  <2> QED
    BY <2>2, <2>3, <2>4
<1> QED
  BY <1>3, <1>4 DEF Ioctl

-----------------------------------------------------------------------------
(***************************************************************************)
(* The theorems.                                                           *)
(***************************************************************************)

\* No call is under way when the exporter starts, neither here nor in the contract.
LEMMA InitContract == Init => CInv /\ Contract!Init
<1> SUFFICES ASSUME Init PROVE CInv /\ Contract!Init
  OBVIOUS
<1>1. "idle" \notin Reading /\ "idle" \notin Locked
  BY DEF Reading, Locked
<1>2. CInv
  BY <1>1, InitInvariant DEF Init, CInv, Failing, Excused, NoResult
<1>3. Contract!Init
  <2>1. calling = [c \in Callers |-> NoInterface]
    BY <1>1 DEF Init, calling
  <2>2. (NoResult.via \in {"netlink", "ioctl"}) = FALSE /\ NoResult.data = Contract!Blank
    BY DEF NoResult, Blank, Slots, MaxBanks
  <2>3. answer = [c \in Callers |-> Contract!NoAnswer]
    BY <2>2 DEF Init, answer
  <2> QED
    BY <2>1, <2>3 DEF Init, Contract!Init, calling, answer
<1> QED
  BY <1>2, <1>3

\* Every step keeps the invariant and is a step of the contract or none.
LEMMA NextContract == CInv /\ [Next]_vars => StepOK
<1> SUFFICES ASSUME CInv, [Next]_vars PROVE StepOK
  OBVIOUS
<1>1. IInv'
  BY NextInvariant DEF CInv
<1>2. CASE UNCHANGED vars
  <2>1. CInv'
    BY <1>1, <1>2 DEF vars, CInv, InFlight, ReadIn, Failing, Excused, IsPrefix, IsCMIS
  <2>2. ClosedStep
    BY <1>2 DEF vars, ClosedStep, Reading, Locked
  <2>3. UNCHANGED Contract!vars
    BY <1>2 DEF vars, Contract!vars
  <2> QED
    BY <2>1, <2>2, <2>3 DEF StepOK
<1>3. ASSUME NEW c \in Callers, Transaction(c)
      PROVE  StepOK
  BY <1>1, <1>3, IdentifyContract, ReadLowerContract, ReadPage00Contract, ReadPage01Contract,
     ReadPage02Contract, ReadBankContract, IoctlContract DEF Transaction
<1>4. ASSUME NEW c \in Callers,
             \/ \E i \in Interfaces : Call(c, i)
             \/ Acquire(c) \/ BeginClose(c) \/ AcquireClose(c) \/ Close(c)
      PROVE  StepOK
  BY <1>1, <1>4, CallContract, AcquireContract, CloseContract
<1>5. ASSUME NEW i \in Interfaces, NEW m \in Modules \cup {NoModule}, Swap(i, m)
      PROVE  StepOK
  BY <1>1, <1>5, SwapContract
<1> QED
  BY <1>2, <1>3, <1>4, <1>5 DEF Next

\* What a call in flight knows of its window holds in every state.
THEOREM ContractInvariance == Spec => []CInv
<1>1. CInv /\ [Next]_vars => CInv'
  BY NextContract DEF StepOK
<1> QED
  BY <1>1, InitContract, PTL DEF Spec

\* Netlink data of an SFF module means a failed ioctl or a swapped module
\* (reader.go:38-39), for any modules and any schedule of swaps.
THEOREM OthersOnIoctl == Spec => []OthersStayOnIoctl
<1>1. CInv => OthersStayOnIoctl
  BY DEF CInv, Excused, OthersStayOnIoctl
<1> QED
  BY <1>1, ContractInvariance, PTL

\* Once Close has released the clients a call can only return an error
\* (reader.go:69-71).
THEOREM ClosedFails == Spec => ClosedReaderFails
<1>1. CInv /\ [Next]_vars =>
        [\A c \in Callers :
           pc[c] \in Reading /\ pc'[c] = "idle" /\ ~ open => result'[c].via = "error"]_vars
  BY NextContract DEF StepOK, ClosedStep
<1> QED
  BY <1>1, ContractInvariance, PTL DEF Spec, ClosedReaderFails

\* ModuleEEPROM answers every call once, by an error or by bytes of modules that sat
\* in the asked interface while it ran (reader.go:83-88): the reader with its
\* mutex, probe, upgrade and fallback implements ModuleReads.
THEOREM ReaderImplementsContract == Spec => ImplementsContract
<1>1. CInv /\ [Next]_vars => [Contract!Next]_(Contract!vars)
  BY NextContract DEF StepOK
<1> QED
  BY <1>1, InitContract, ContractInvariance, PTL DEF Spec, ImplementsContract, Contract!Spec

-----------------------------------------------------------------------------
\* Every page of an answer is a module that sat in the asked interface during the call.
AnswersInWindow ==
  \A c \in Callers, s \in Slots :
    result[c].data[s] \in (window[c] \ {NoModule}) \cup {Zero, Missing}

\* The window of an answer does not shrink before the next call.
LEMMA AnswersStay ==
  ASSUME AnswersInWindow, TypeOK, [Contract!Next]_(Contract!vars)
  PROVE  AnswersInWindow'
<1> DEFINE Held(c) ==
      \A s \in Slots : result[c].data[s] \in (window[c] \ {NoModule}) \cup {Zero, Missing}
           told(c) == [ok |-> result[c].via \in {"netlink", "ioctl"}, data |-> result[c].data]
           told1(c) == [ok |-> result'[c].via \in {"netlink", "ioctl"}, data |-> result'[c].data]
<1>1. ASSUME NEW c \in Callers
      PROVE  Held(c)'
  <2>1. Held(c)
    BY DEF AnswersInWindow
  <2>2. \A d, e : told(d) = told(e) => result[d].data = result[e].data
    OBVIOUS
  <2>3. \A d : told1(d).data = result'[d].data /\ told(d).data = result[d].data
    OBVIOUS
  <2>4. ASSUME window[c] \subseteq window'[c], told1(c) = told(c)
        PROVE  Held(c)'
    <3>1. result'[c].data = result[c].data
      BY <2>3, <2>4
    <3> QED
      BY <2>1, <2>4, <3>1
  <2> HIDE DEF told, told1
  <2>5. CASE UNCHANGED Contract!vars
    <3>1. window' = window /\ [d \in Callers |-> told1(d)] = [d \in Callers |-> told(d)]
      BY <2>5, Zenon DEF Contract!vars, answer, told, told1
    <3>2. told1(c) = told(c)
      BY <3>1
    <3> QED
      BY <2>4, <3>1, <3>2
  <2>6. CASE \E i \in Interfaces, m \in Modules \cup {NoModule} : Contract!Swap(i, m)
    <3>1. PICK i \in Interfaces, m \in Modules \cup {NoModule} : Contract!Swap(i, m)
      BY <2>6
    <3>2. [d \in Callers |-> told1(d)] = [d \in Callers |-> told(d)]
      BY <3>1, Zenon DEF Contract!Swap, answer, told, told1
    <3>3. told1(c) = told(c)
      BY <3>2
    <3>4. window[c] \subseteq window'[c]
      BY <3>1 DEF Contract!Swap
    <3> QED
      BY <2>4, <3>3, <3>4
  <2>7. ASSUME NEW d \in Callers, NEW i \in Interfaces, Contract!Call(d, i)
        PROVE  Held(c)'
    <3>1. [e \in Callers |-> told1(e)] =
            [[e \in Callers |-> told(e)] EXCEPT ![d] = Contract!NoAnswer]
      BY <2>7, Zenon DEF Contract!Call, answer, told, told1
    <3>2. window' = [window EXCEPT ![d] = {plugged[i]}]
      BY <2>7, Zenon DEF Contract!Call
    <3>3. CASE c # d
      <4>1. told1(c) = told(c)
        BY <3>1, <3>3
      <4>2. window'[c] = window[c]
        BY <3>2, <3>3
      <4> QED
        BY <2>4, <4>1, <4>2
    <3>4. CASE c = d
      <4>1. told1(c) = Contract!NoAnswer
        BY <3>1, <3>4
      <4>2. told1(c).data = [s \in Slots |-> Missing]
        BY <4>1 DEF Slots, MaxBanks
      <4> QED
        BY <2>3, <4>2
    <3> QED
      BY <3>3, <3>4
  <2>8. ASSUME NEW d \in Callers, Contract!Return(d)
        PROVE  Held(c)'
    <3> DEFINE now == [e \in Callers |-> told(e)]
               then == [e \in Callers |-> told1(e)]
    <3>0. /\ window' = window
          /\ then = [now EXCEPT ![d] = then[d]]
          /\ \/ then[d] = Contract!NoAnswer
             \/ Contract!ReadFrom(then[d].data, window[d] \ {NoModule})
      BY <2>8 DEF Contract!Return, answer, told, told1
    <3>1. /\ window' = window
          /\ \A e \in Callers \ {d} : told1(e) = told(e)
          /\ \/ told1(d) = Contract!NoAnswer
             \/ Contract!ReadFrom(told1(d).data, window[d] \ {NoModule})
      BY <3>0
    <3>2. CASE c # d
      <4>1. told1(c) = told(c)
        BY <3>1, <3>2
      <4> QED
        BY <2>4, <3>1, <4>1
    <3>3. CASE c = d
      <4>1. told1(c) = Contract!NoAnswer \/ Contract!ReadFrom(told1(c).data, window[c] \ {NoModule})
        BY <3>1, <3>3
      <4>2. CASE told1(c) = Contract!NoAnswer
        <5>1. told1(c).data = [s \in Slots |-> Missing]
          BY <4>2 DEF Slots, MaxBanks
        <5> QED
          BY <2>3, <5>1
      <4>3. CASE Contract!ReadFrom(told1(c).data, window[c] \ {NoModule})
        BY <2>3, <3>1, <4>3 DEF Contract!ReadFrom, Slots, MaxBanks
      <4> QED
        BY <4>1, <4>2, <4>3
    <3> QED
      BY <3>2, <3>3
  <2> QED
    BY <2>5, <2>6, <2>7, <2>8 DEF Contract!Next
<1> QED
  BY <1>1 DEF AnswersInWindow

\* No page of an answer comes from a module that left the cage before the call began or
\* came after it returned (reader.go:89-140).
THEOREM AnswersFromWindow == Spec => []AnswersInWindow
<1>1. Init => AnswersInWindow
  BY DEF Init, NoResult, Blank, AnswersInWindow
<1>2. CInv /\ [Next]_vars => CInv' /\ [Contract!Next]_(Contract!vars)
  BY NextContract DEF StepOK
<1>3. CInv /\ AnswersInWindow /\ [Contract!Next]_(Contract!vars) => AnswersInWindow'
  BY AnswersStay DEF CInv, IInv
<1> QED
  BY <1>1, <1>2, <1>3, ContractInvariance, PTL DEF Spec
=============================================================================
