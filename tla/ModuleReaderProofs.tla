------------------------- MODULE ModuleReaderProofs -------------------------
(***************************************************************************)
(* Proofs about ModuleReader for any callers, interfaces, modules, errnos  *)
(* and number of swaps.  The invariants speak of results; what makes them  *)
(* inductive is LocalOK, which says of the locals of a call in flight what *)
(* the result it may return next will need.                                *)
(***************************************************************************)
EXTENDS ModuleReader, TLAPS

\* The statements that run inside netlink.ModuleEEPROM.
Fetching == {"lower", "page00", "page01", "page02", "bank"}

\* What an image must satisfy for UpperPagesWellFounded.
WellFounded(data) ==
  \A s \in Slots :
    s > Page00 /\ data[s] \in Modules =>
      /\ data[Page00] \in Modules
      /\ data[Page01] \in Modules
      /\ data[Lower] \notin Flat
      /\ s < Page11(Banks[data[Page01]])

\* The pages a fetch at statement label has read: none from slot s on.
NothingFrom(data, s) == \A t \in Slots : t >= s => data[t] \notin Modules

PagesOK(label, f) ==
  /\ label = "page00" => NothingFrom(f.page, Page00)
  /\ label \in {"page01", "page02", "bank"} =>
       f.page[Page00] \in Modules /\ f.page[Lower] \notin Flat
  /\ label = "page01" => NothingFrom(f.page, Page01)
  /\ label \in {"page02", "bank"} => f.page[Page01] \in Modules
  /\ label = "page02" => NothingFrom(f.page, Page02)
  /\ label = "bank" =>
       f.bank < Banks[f.page[Page01]] /\ NothingFrom(f.page, Page11(f.bank))

LocalOK(label, f) ==
  /\ label \in Reading => f.iface \in Interfaces
  /\ label \in Fetching \cup {"wait", "identify"} /\ f.site = "fallback" => f.ioErr # {}
  /\ label \in Reading \ {"bank"} => f.bank = 0
  /\ PagesOK(label, f)

ResultOK(r) ==
  /\ r.via = "error" => r.ioErr # {} /\ (HasNetlink => r.nlErr # {})
  /\ r.via = "ioctl" /\ HasNetlink /\ IsCMIS(r.data) => r.nlErr # {}
  /\ r.via = "netlink" => WellFounded(r.data)

IInv ==
  /\ TypeOK
  /\ Serialized
  /\ \A c \in Callers : LocalOK(pc[c], frame[c])
  /\ \A c \in Callers : ResultOK(result[c])

-----------------------------------------------------------------------------
(***************************************************************************)
(* Images.                                                                 *)
(***************************************************************************)

\* Every image the reader builds is an image: reader.go and netlink_linux.go
\* never write past the page they place.
LEMMA ImageTypes ==
  /\ Blank \in Image
  /\ \A m \in Modules : Legacy(m) \in Image /\ LowerImage(m) \in Image
  /\ \A data \in Image, s \in Slots, m \in Modules :
        /\ AppendPage(data, s, m) \in Image
        /\ [data EXCEPT ![s] = m] \in Image
BY MemoryAssumption DEF Blank, Image, Legacy, LowerImage, AppendPage, Slots

\* appendPage puts the page in its slot and reads nothing else into the image.
LEMMA AppendPageReads ==
  ASSUME NEW data \in Image, NEW s \in Slots, NEW m \in Modules
  PROVE  LET new == AppendPage(data, s, m)
         IN  /\ new[s] = m
             /\ \A t \in Slots : t # s /\ data[t] \in Modules => new[t] = data[t]
             /\ \A t \in Slots : t # s /\ new[t] \in Modules => new[t] = data[t]
BY MemoryAssumption DEF AppendPage, Slots, Image

\* An image that holds no page past upper page 00h, like the blank one, is well
\* founded.
LEMMA ShortIsWellFounded ==
  /\ NothingFrom(Blank, Page01) /\ WellFounded(Blank)
  /\ \A data \in Image : NothingFrom(data, Page01) => WellFounded(data)
BY MemoryAssumption DEF Blank, Image, NothingFrom, WellFounded, Slots, Page00, Page01

-----------------------------------------------------------------------------
(***************************************************************************)
(* The two ways a step under the mutex ends preserve the invariant.        *)
(***************************************************************************)

\* Goto keeps the mutex: it is enough that the new locals suit the new label.
LEMMA GotoInvariant ==
  ASSUME IInv, NEW c \in Callers, NEW label \in Locked, NEW f \in Frames,
         pc[c] \in Locked, Goto(c, label, f), LocalOK(label, f),
         UNCHANGED <<open, plugged, window, swaps>>
  PROVE  IInv'
<1>1. TypeOK'
  BY DEF IInv, TypeOK, Goto, PCs, Reading
<1>2. Serialized'
  BY DEF IInv, TypeOK, Serialized, Goto
<1>3. \A d \in Callers : LocalOK(pc'[d], frame'[d])
  BY DEF IInv, TypeOK, Goto
<1>4. \A d \in Callers : ResultOK(result'[d])
  BY DEF IInv, Goto
<1> QED
  BY <1>1, <1>2, <1>3, <1>4 DEF IInv, LocalOK, ResultOK, PagesOK

\* Return frees the mutex, and the only obligation left is the result's.
LEMMA ReturnInvariant ==
  ASSUME IInv, NEW c \in Callers, NEW via \in {"netlink", "ioctl", "error"},
         NEW data \in Image, NEW f \in Frames,
         pc[c] \in Locked, Return(c, via, data, f),
         ResultOK([via |-> via, data |-> data, ioErr |-> f.ioErr, nlErr |-> f.nlErr]),
         UNCHANGED <<open, plugged, window, swaps>>
  PROVE  IInv'
<1>0. Fresh(NoInterface) \in Frames /\ LocalOK("idle", Fresh(NoInterface))
  BY ImageTypes, ShortIsWellFounded
     DEF Fresh, Frames, LocalOK, PagesOK, Reading, Locked, Fetching, MaxBanks
<1>1. TypeOK'
  BY <1>0 DEF IInv, TypeOK, Return, PCs, Results, Frames
<1>2. Serialized'
  BY ReaderAssumption DEF IInv, TypeOK, Serialized, Return, Locked
<1>3. \A d \in Callers : LocalOK(pc'[d], frame'[d])
  BY <1>0 DEF IInv, TypeOK, Return
<1>4. \A d \in Callers : ResultOK(result'[d])
  BY DEF IInv, TypeOK, Return
<1> QED
  BY <1>1, <1>2, <1>3, <1>4 DEF IInv, LocalOK, ResultOK, PagesOK

-----------------------------------------------------------------------------
(***************************************************************************)
(* Every step of a call preserves the invariant.                           *)
(***************************************************************************)

\* A transaction is answered by a module, never by an empty cage.
LEMMA AnsweringModules ==
  ASSUME TypeOK, NEW c \in Callers, frame[c].iface \in Interfaces
  PROVE  Answering(c) \subseteq Modules
BY DEF TypeOK, Answering

\* Entering ModuleEEPROM starts from fresh locals and forgets the last result.
LEMMA CallInvariant ==
  ASSUME IInv, NEW c \in Callers, NEW i \in Interfaces, Call(c, i)
  PROVE  IInv'
<1>1. Fresh(i) \in Frames /\ LocalOK("wait", Fresh(i))
  BY ImageTypes, ShortIsWellFounded
     DEF Fresh, Frames, LocalOK, PagesOK, Reading, Locked, Fetching, MaxBanks
<1>2. NoResult \in Results /\ ResultOK(NoResult)
  BY ImageTypes, ShortIsWellFounded DEF NoResult, Results, ResultOK
<1>3. TypeOK'
  BY <1>1, <1>2 DEF IInv, TypeOK, Call, PCs, Reading
<1>4. Serialized'
  BY DEF IInv, TypeOK, Serialized, Call, Locked
<1>5. \A d \in Callers : LocalOK(pc'[d], frame'[d])
  BY <1>1 DEF IInv, TypeOK, Call
<1>6. \A d \in Callers : ResultOK(result'[d])
  BY <1>2 DEF IInv, TypeOK, Call
<1> QED
  BY <1>3, <1>4, <1>5, <1>6 DEF IInv, LocalOK, ResultOK, PagesOK

\* The mutex is taken only when it has no owner, so it keeps one.
LEMMA AcquireInvariant ==
  ASSUME IInv, NEW c \in Callers, Acquire(c) \/ AcquireClose(c)
  PROVE  IInv'
<1>1. TypeOK'
  BY DEF IInv, TypeOK, Acquire, AcquireClose, PCs, Reading, Locked
<1>2. Serialized'
  BY ReaderAssumption DEF IInv, TypeOK, Serialized, Acquire, AcquireClose, Locked
<1>3. \A d \in Callers : LocalOK(pc'[d], frame'[d])
  BY DEF IInv, TypeOK, Acquire, AcquireClose, LocalOK, PagesOK, Fetching, Reading, Locked
<1>4. \A d \in Callers : ResultOK(result'[d])
  BY DEF IInv, Acquire, AcquireClose
<1> QED
  BY <1>1, <1>2, <1>3, <1>4 DEF IInv, LocalOK, ResultOK, PagesOK

\* The probe only chooses the path.
LEMMA IdentifyInvariant ==
  ASSUME IInv, NEW c \in Callers, Identify(c)
  PROVE  IInv'
<1>1. PICK label \in {"lower", "ioctl"} : Goto(c, label, frame[c])
  BY DEF Identify
<1>2. LocalOK(label, frame[c])
  <2>1. LocalOK("identify", frame[c])
    BY DEF Identify, IInv
  <2> QED
    BY <1>1, <2>1 DEF LocalOK, PagesOK, Fetching, Reading, Locked, NothingFrom
<1> QED
  BY <1>1, <1>2, GotoInvariant DEF Identify, IInv, TypeOK, Locked

\* A netlink failure is recorded before the call goes on to ioctl, returns the
\* ioctl data it holds, or returns both errors.
LEMMA NetlinkFailedInvariant ==
  ASSUME IInv, NEW c \in Callers, NEW e \in Errnos, pc[c] = "lower",
         NetlinkFailed(c, e), UNCHANGED <<open, plugged, window, swaps>>
  PROVE  IInv'
<1> DEFINE f == [frame[c] EXCEPT !.nlErr = {e}]
<1>1. f \in Frames /\ f.nlErr # {} /\ frame[c] \in Frames /\ pc[c] \in Locked
  BY DEF IInv, TypeOK, Frames, Locked
<1>2. f.ioErr = frame[c].ioErr /\ f.ioctl = frame[c].ioctl /\ f.site = frame[c].site
      /\ f.bank = frame[c].bank /\ f.iface = frame[c].iface
  BY <1>1 DEF Frames
<1>3. LocalOK("lower", frame[c])
  BY DEF IInv
<1>4. CASE f.site = "preferred" /\ Goto(c, "ioctl", f)
  <2>1. LocalOK("ioctl", f)
    BY <1>2, <1>3 DEF LocalOK, PagesOK, Fetching, Reading, Locked
  <2> QED
    BY <1>1, <1>4, <2>1, GotoInvariant DEF Locked
<1>5. CASE f.site = "upgrade" /\ Return(c, "ioctl", f.ioctl, f)
  <2>1. f.ioctl \in Image
    BY <1>1 DEF Frames
  <2>2. ResultOK([via |-> "ioctl", data |-> f.ioctl, ioErr |-> f.ioErr, nlErr |-> f.nlErr])
    BY <1>1 DEF ResultOK
  <2> QED
    BY <1>1, <1>5, <2>1, <2>2, ReturnInvariant
<1>6. CASE f.site = "fallback" /\ Return(c, "error", Blank, f)
  <2>1. f.ioErr # {}
    BY <1>2, <1>3, <1>6 DEF LocalOK, Fetching
  <2>2. ResultOK([via |-> "error", data |-> Blank, ioErr |-> f.ioErr, nlErr |-> f.nlErr])
    BY <1>1, <2>1 DEF ResultOK
  <2> QED
    BY <1>1, <1>6, <2>2, ImageTypes, ReturnInvariant
<1> QED
  BY <1>4, <1>5, <1>6 DEF NetlinkFailed

\* A lower page starts the image with nothing above it.
LEMMA ReadLowerInvariant ==
  ASSUME IInv, NEW c \in Callers, ReadLower(c)
  PROVE  IInv'
<1>1. pc[c] = "lower" /\ frame[c] \in Frames /\ LocalOK("lower", frame[c])
  BY DEF IInv, TypeOK, ReadLower
<1>2. CASE \E m \in Answering(c) :
             Goto(c, "page00", [frame[c] EXCEPT !.page = LowerImage(m)])
  <2>1. PICK m \in Modules :
          Goto(c, "page00", [frame[c] EXCEPT !.page = LowerImage(m)])
    BY <1>1, <1>2, AnsweringModules DEF IInv, LocalOK, Reading, Locked
  <2> DEFINE f == [frame[c] EXCEPT !.page = LowerImage(m)]
  <2>2. f \in Frames
    BY <1>1, ImageTypes DEF Frames
  <2>3. NothingFrom(LowerImage(m), Page00)
    BY MemoryAssumption DEF NothingFrom, LowerImage, Slots, Lower, Page00
  <2>4. LocalOK("page00", f)
    BY <1>1, <2>3 DEF LocalOK, PagesOK, Frames, Fetching, Reading, Locked
  <2> QED
    BY <1>1, <2>1, <2>2, <2>4, GotoInvariant DEF ReadLower, Locked
<1>3. CASE \E e \in Errnos : NetlinkFailed(c, e)
  BY <1>1, <1>3, NetlinkFailedInvariant DEF ReadLower
<1> QED
  BY <1>2, <1>3 DEF ReadLower

\* A netlink image is a sound result whatever the errors recorded with it.
LEMMA NetlinkResultOK ==
  ASSUME NEW data \in Image, WellFounded(data), NEW f
  PROVE  ResultOK([via |-> "netlink", data |-> data, ioErr |-> f.ioErr, nlErr |-> f.nlErr])
BY DEF ResultOK

\* Upper page 00h goes into its slot; unless the module is flat the call goes on to
\* page 01h with a real page 00h, and if the page fails the image ends before it.
LEMMA ReadPage00Invariant ==
  ASSUME IInv, NEW c \in Callers, ReadPage00(c)
  PROVE  IInv'
<1>1. pc[c] = "page00" /\ frame[c] \in Frames /\ LocalOK("page00", frame[c])
  BY DEF IInv, TypeOK, ReadPage00
<1>2. frame[c].page \in Image /\ NothingFrom(frame[c].page, Page00)
  BY <1>1 DEF Frames, LocalOK, PagesOK
<1>3. CASE \E m \in Answering(c) :
             LET data == [frame[c].page EXCEPT ![Page00] = m]
             IN  IF data[Lower] \in Flat
                   THEN Return(c, "netlink", data, frame[c])
                   ELSE Goto(c, "page01", [frame[c] EXCEPT !.page = data])
  <2>1. PICK m \in Modules :
          LET data == [frame[c].page EXCEPT ![Page00] = m]
          IN  IF data[Lower] \in Flat
                THEN Return(c, "netlink", data, frame[c])
                ELSE Goto(c, "page01", [frame[c] EXCEPT !.page = data])
    BY <1>1, <1>3, AnsweringModules DEF IInv, LocalOK, Reading, Locked
  <2> DEFINE data == [frame[c].page EXCEPT ![Page00] = m]
             f == [frame[c] EXCEPT !.page = data]
  <2>2. data \in Image /\ NothingFrom(data, Page01) /\ data[Page00] \in Modules
    BY <1>2, ImageTypes DEF NothingFrom, Image, Slots, MaxBanks, Page00, Page01
  <2>3. CASE data[Lower] \in Flat
    <3>1. Return(c, "netlink", data, frame[c])
      BY <2>1, <2>3
    <3>2. WellFounded(data)
      BY <2>2, ShortIsWellFounded
    <3> QED
      BY <1>1, <2>2, <3>1, <3>2, NetlinkResultOK, ReturnInvariant DEF ReadPage00, Locked
  <2>4. CASE data[Lower] \notin Flat
    <3>1. Goto(c, "page01", f)
      BY <2>1, <2>4
    <3>2. f \in Frames
      BY <1>1, <2>2 DEF Frames
    <3>3. LocalOK("page01", f)
      <4>1. PagesOK("page01", f)
        BY <1>1, <2>2, <2>4 DEF PagesOK, Frames
      <4> QED
        BY <1>1, <4>1 DEF LocalOK, Frames, Fetching, Reading, Locked
    <3> QED
      BY <1>1, <3>1, <3>2, <3>3, GotoInvariant DEF ReadPage00, Locked
  <2> QED
    BY <2>3, <2>4
<1>4. CASE Return(c, "netlink", frame[c].page, frame[c])
  <2>1. NothingFrom(frame[c].page, Page01)
    BY <1>2 DEF NothingFrom, Page00, Page01, Slots
  <2>2. WellFounded(frame[c].page)
    BY <1>2, <2>1, ShortIsWellFounded
  <2> QED
    BY <1>1, <1>2, <1>4, <2>2, NetlinkResultOK, ReturnInvariant DEF ReadPage00, Locked
<1> QED
  BY <1>3, <1>4 DEF ReadPage00

\* appendPage above every page read so far keeps those and adds just it.
LEMMA AppendAbove ==
  ASSUME NEW data \in Image, NEW s \in Slots, NEW m \in Modules, NothingFrom(data, s)
  PROVE  LET new == AppendPage(data, s, m)
         IN  /\ new \in Image
             /\ new[s] = m
             /\ \A t \in Slots : data[t] \in Modules => new[t] = data[t]
             /\ \A t \in Slots : t # s /\ new[t] \in Modules => new[t] = data[t]
             /\ NothingFrom(new, s + 1)
<1> DEFINE new == AppendPage(data, s, m)
<1>1. new \in Image /\ new[s] = m
  BY ImageTypes, AppendPageReads
<1>2. \A t \in Slots : t # s /\ data[t] \in Modules => new[t] = data[t]
  BY AppendPageReads
<1>3. \A t \in Slots : t # s /\ new[t] \in Modules => new[t] = data[t]
  BY AppendPageReads
<1>4. \A t \in Slots : t >= s => data[t] \notin Modules
  BY DEF NothingFrom
<1>5. data[s] \notin Modules /\ s \in Nat
  BY <1>4 DEF Slots
<1>6. NothingFrom(new, s + 1)
  <2> SUFFICES ASSUME NEW t \in Slots, t >= s + 1, new[t] \in Modules PROVE FALSE
    BY DEF NothingFrom
  <2>1. t >= s /\ t # s
    BY <1>5 DEF Slots
  <2> QED
    BY <2>1, <1>3, <1>4
<1> QED
  BY <1>1, <1>2, <1>3, <1>5, <1>6

\* Page 01h goes above page 00h; if it fails the image ends with page 00h.
LEMMA ReadPage01Invariant ==
  ASSUME IInv, NEW c \in Callers, ReadPage01(c)
  PROVE  IInv'
<1>1. pc[c] = "page01" /\ frame[c] \in Frames /\ LocalOK("page01", frame[c])
  BY DEF IInv, TypeOK, ReadPage01
<1>2. frame[c].page \in Image /\ NothingFrom(frame[c].page, Page01)
      /\ frame[c].page[Page00] \in Modules /\ frame[c].page[Lower] \notin Flat
  BY <1>1 DEF Frames, LocalOK, PagesOK
<1>3. CASE \E m \in Answering(c) :
             Goto(c, "page02", [frame[c] EXCEPT !.page = AppendPage(@, Page01, m)])
  <2>1. PICK m \in Modules :
          Goto(c, "page02", [frame[c] EXCEPT !.page = AppendPage(@, Page01, m)])
    BY <1>1, <1>3, AnsweringModules DEF IInv, LocalOK, Reading, Locked
  <2> DEFINE new == AppendPage(frame[c].page, Page01, m)
             f == [frame[c] EXCEPT !.page = new]
  <2>2. Lower \in Slots /\ Page00 \in Slots /\ Page01 \in Slots /\ Page01 + 1 = Page02
    BY DEF Slots, MaxBanks, Lower, Page00, Page01, Page02
  <2>3. new \in Image /\ new[Page01] = m /\ NothingFrom(new, Page02)
        /\ new[Page00] \in Modules
    BY <1>2, <2>2, AppendAbove
  <2>4. new[Lower] \notin Flat
    BY <1>2, <2>2, AppendAbove, MemoryAssumption DEF Lower, Page01
  <2>5. f \in Frames
    BY <1>1, <2>3 DEF Frames
  <2>6. LocalOK("page02", f)
    <3>1. PagesOK("page02", f)
      BY <1>1, <2>3, <2>4 DEF PagesOK, Frames
    <3> QED
      BY <1>1, <3>1 DEF LocalOK, Frames, Fetching, Reading, Locked
  <2> QED
    BY <1>1, <2>1, <2>5, <2>6, GotoInvariant DEF ReadPage01, Locked
<1>4. CASE Return(c, "netlink", frame[c].page, frame[c])
  BY <1>1, <1>2, <1>4, ShortIsWellFounded, NetlinkResultOK, ReturnInvariant
     DEF ReadPage01, Locked
<1> QED
  BY <1>3, <1>4 DEF ReadPage01

\* Page 02h is there or not: in both cases the loop starts at bank 0, which every
\* page 01h advertises.
LEMMA ReadPage02Invariant ==
  ASSUME IInv, NEW c \in Callers, ReadPage02(c)
  PROVE  IInv'
<1>1. pc[c] = "page02" /\ frame[c] \in Frames /\ LocalOK("page02", frame[c])
  BY DEF IInv, TypeOK, ReadPage02
<1>2. /\ frame[c].page \in Image /\ NothingFrom(frame[c].page, Page02)
      /\ frame[c].page[Page00] \in Modules /\ frame[c].page[Lower] \notin Flat
      /\ frame[c].page[Page01] \in Modules /\ frame[c].bank = 0
  BY <1>1 DEF Frames, LocalOK, PagesOK, Reading, Locked
<1>3. /\ Lower \in Slots /\ Page00 \in Slots /\ Page01 \in Slots /\ Page02 \in Slots
      /\ Page02 + 1 = Page11(0)
      /\ Lower # Page02 /\ Page00 # Page02 /\ Page01 # Page02
  BY DEF Slots, MaxBanks, Lower, Page00, Page01, Page02, Page11
<1>4. \A data \in Image :
        NothingFrom(data, Page11(0)) /\ data[Page00] \in Modules
        /\ data[Page01] \in Modules /\ data[Lower] \notin Flat
        => LocalOK("bank", [frame[c] EXCEPT !.page = data])
  <2> SUFFICES ASSUME NEW data \in Image, NothingFrom(data, Page11(0)),
                      data[Page00] \in Modules, data[Page01] \in Modules,
                      data[Lower] \notin Flat
               PROVE  LocalOK("bank", [frame[c] EXCEPT !.page = data])
    OBVIOUS
  <2>1. 0 < Banks[data[Page01]]
    BY MemoryAssumption
  <2>2. PagesOK("bank", [frame[c] EXCEPT !.page = data])
    BY <1>1, <1>2, <2>1 DEF PagesOK, Frames
  <2> QED
    BY <1>1, <2>2 DEF LocalOK, Frames, Fetching, Reading, Locked
<1>5. CASE \E m \in Answering(c) :
             Goto(c, "bank", [frame[c] EXCEPT !.page = AppendPage(@, Page02, m)])
  <2>1. PICK m \in Modules :
          Goto(c, "bank", [frame[c] EXCEPT !.page = AppendPage(@, Page02, m)])
    BY <1>1, <1>5, AnsweringModules DEF IInv, LocalOK, Reading, Locked
  <2> DEFINE new == AppendPage(frame[c].page, Page02, m)
  <2>2. new \in Image /\ NothingFrom(new, Page11(0))
        /\ new[Page00] \in Modules /\ new[Page01] \in Modules
    BY <1>2, <1>3, AppendAbove
  <2>3. new[Lower] \notin Flat
    BY <1>2, <1>3, AppendAbove, MemoryAssumption
  <2>4. [frame[c] EXCEPT !.page = new] \in Frames
    BY <1>1, <2>2 DEF Frames
  <2> QED
    BY <1>1, <1>4, <2>1, <2>2, <2>3, <2>4, GotoInvariant DEF ReadPage02, Locked
<1>6. CASE Goto(c, "bank", frame[c])
  <2>1. NothingFrom(frame[c].page, Page11(0))
    BY <1>2 DEF NothingFrom, Page02, Page11, Slots
  <2>2. frame[c] = [frame[c] EXCEPT !.page = frame[c].page]
    BY <1>1 DEF Frames
  <2>3. LocalOK("bank", frame[c])
    BY <1>2, <1>4, <2>1, <2>2
  <2> QED
    BY <1>1, <1>6, <2>3, GotoInvariant DEF ReadPage02, Locked
<1> QED
  BY <1>5, <1>6 DEF ReadPage02

\* The loop over the banks never looks past the banks page 01h advertises.
LEMMA NextBankInvariant ==
  ASSUME IInv, NEW c \in Callers, NEW data \in Image, pc[c] = "bank",
         NextBank(c, data), UNCHANGED <<open, plugged, window, swaps>>,
         NothingFrom(data, Page11(frame[c].bank + 1)),
         data[Page00] \in Modules, data[Lower] \notin Flat,
         data[Page01] = frame[c].page[Page01]
  PROVE  IInv'
<1>1. pc[c] \in Locked /\ frame[c] \in Frames /\ LocalOK("bank", frame[c])
  BY DEF IInv, TypeOK, Locked
<1>2. /\ data[Page01] \in Modules /\ NumBanks(c) = Banks[data[Page01]]
      /\ frame[c].bank \in Nat /\ frame[c].bank < NumBanks(c)
      /\ NumBanks(c) \in 1 .. MaxBanks
  BY <1>1, MemoryAssumption DEF LocalOK, PagesOK, Frames, MaxBanks, NumBanks
<1>3. CASE frame[c].bank + 1 < NumBanks(c)
  <2> DEFINE f == [frame[c] EXCEPT !.page = data, !.bank = @ + 1]
  <2>1. Goto(c, "bank", f)
    BY <1>3 DEF NextBank
  <2>2. f \in Frames
    <3>1. frame[c].bank + 1 \in 0 .. MaxBanks - 1
      BY <1>2, <1>3 DEF MaxBanks
    <3> QED
      BY <1>1, <3>1 DEF Frames
  <2>3. f.page = data /\ f.bank = frame[c].bank + 1
    BY <1>1 DEF Frames
  <2>4. PagesOK("bank", f)
    BY <1>2, <1>3, <2>3 DEF PagesOK
  <2>5. LocalOK("bank", f)
    BY <1>1, <2>4 DEF LocalOK, Frames, Fetching, Reading, Locked
  <2> QED
    BY <1>1, <2>1, <2>2, <2>5, GotoInvariant DEF Locked
<1>4. CASE ~ (frame[c].bank + 1 < NumBanks(c))
  <2>1. Return(c, "netlink", data, frame[c])
    BY <1>4 DEF NextBank
  <2>2. Page11(frame[c].bank + 1) = Page11(Banks[data[Page01]])
    BY <1>2, <1>4 DEF Page11
  <2>3. WellFounded(data)
    BY <1>2, <2>2 DEF WellFounded, NothingFrom, Page11, Slots
  <2> QED
    BY <1>1, <2>1, <2>3, NetlinkResultOK, ReturnInvariant
<1> QED
  BY <1>3, <1>4

\* A bank's page goes above those of the banks before it, or is skipped.
LEMMA ReadBankInvariant ==
  ASSUME IInv, NEW c \in Callers, ReadBank(c)
  PROVE  IInv'
<1>1. pc[c] = "bank" /\ frame[c] \in Frames /\ LocalOK("bank", frame[c])
  BY DEF IInv, TypeOK, ReadBank
<1> DEFINE old == frame[c].page
           slot == Page11(frame[c].bank)
<1>2. /\ old \in Image /\ NothingFrom(old, slot)
      /\ old[Page00] \in Modules /\ old[Lower] \notin Flat /\ old[Page01] \in Modules
      /\ frame[c].bank \in 0 .. MaxBanks - 1
  BY <1>1 DEF Frames, LocalOK, PagesOK
<1>3. /\ Lower \in Slots /\ Page00 \in Slots /\ Page01 \in Slots /\ slot \in Slots
      /\ slot + 1 = Page11(frame[c].bank + 1)
      /\ Lower # slot /\ Page00 # slot /\ Page01 # slot
  BY <1>2 DEF Slots, MaxBanks, Lower, Page00, Page01, Page11
<1>4. CASE \E m \in Answering(c) : NextBank(c, AppendPage(old, slot, m))
  <2>1. PICK m \in Modules : NextBank(c, AppendPage(old, slot, m))
    BY <1>1, <1>4, AnsweringModules DEF IInv, LocalOK, Reading, Locked
  <2> DEFINE new == AppendPage(old, slot, m)
  <2>2. /\ new \in Image /\ NothingFrom(new, Page11(frame[c].bank + 1))
        /\ new[Page00] \in Modules /\ new[Page01] = old[Page01]
    BY <1>2, <1>3, AppendAbove
  <2>3. new[Lower] \notin Flat
    BY <1>2, <1>3, AppendAbove, MemoryAssumption
  <2> QED
    BY <1>1, <2>1, <2>2, <2>3, NextBankInvariant DEF ReadBank
<1>5. CASE NextBank(c, old)
  <2>1. NothingFrom(old, Page11(frame[c].bank + 1))
    BY <1>2, <1>3 DEF NothingFrom, Slots
  <2> QED
    BY <1>1, <1>2, <1>5, <2>1, NextBankInvariant DEF ReadBank
<1> QED
  BY <1>4, <1>5 DEF ReadBank

\* ioctl data is held for an upgrade, or returned when netlink cannot improve it.
LEMMA IoctlAnsweredInvariant ==
  ASSUME IInv, NEW c \in Callers, NEW data \in Image, pc[c] = "ioctl",
         IoctlAnswered(c, data),
         UNCHANGED <<open, plugged, window, swaps>>
  PROVE  IInv'
<1>1. pc[c] \in Locked /\ frame[c] \in Frames /\ LocalOK("ioctl", frame[c])
  BY DEF IInv, TypeOK, Locked
<1>2. CASE HasNetlink /\ frame[c].nlErr = {} /\ IsCMIS(data)
  <2> DEFINE f == [frame[c] EXCEPT !.site = "upgrade", !.ioctl = data]
  <2>1. f \in Frames
    BY <1>1 DEF Frames
  <2>2. LocalOK("lower", f)
    BY <1>1 DEF LocalOK, PagesOK, Frames, Fetching, Reading, Locked
  <2> QED
    BY <1>1, <1>2, <2>1, <2>2, GotoInvariant DEF IoctlAnswered, Locked
<1>3. CASE ~ (HasNetlink /\ frame[c].nlErr = {} /\ IsCMIS(data))
  <2>1. Return(c, "ioctl", data, frame[c])
    BY <1>3 DEF IoctlAnswered
  <2>2. ResultOK([via |-> "ioctl", data |-> data,
                  ioErr |-> frame[c].ioErr, nlErr |-> frame[c].nlErr])
    BY <1>3 DEF ResultOK
  <2> QED
    BY <1>1, <2>1, <2>2, ReturnInvariant
<1> QED
  BY <1>2, <1>3

\* An ioctl failure is recorded before the fallback, and returned only with
\* netlink's failure or without netlink.
LEMMA IoctlFailedInvariant ==
  ASSUME IInv, NEW c \in Callers, NEW e \in Errnos, pc[c] = "ioctl",
         IoctlFailed(c, e), UNCHANGED <<open, plugged, window, swaps>>
  PROVE  IInv'
<1> DEFINE f == [frame[c] EXCEPT !.ioErr = {e}]
<1>1. pc[c] \in Locked /\ frame[c] \in Frames /\ LocalOK("ioctl", frame[c])
  BY DEF IInv, TypeOK, Locked
<1>2. f \in Frames /\ f.ioErr # {} /\ f.nlErr = frame[c].nlErr
  BY <1>1 DEF Frames
<1>3. CASE HasNetlink /\ f.nlErr = {}
  <2> DEFINE g == [f EXCEPT !.site = "fallback"]
  <2>1. g \in Frames /\ g.ioErr # {}
    BY <1>2 DEF Frames
  <2>2. LocalOK("lower", g)
    BY <1>1, <2>1 DEF LocalOK, PagesOK, Frames, Fetching, Reading, Locked
  <2> QED
    BY <1>1, <1>3, <2>1, <2>2, GotoInvariant DEF IoctlFailed, Locked
<1>4. CASE ~ (HasNetlink /\ f.nlErr = {})
  <2>1. Return(c, "error", Blank, f)
    BY <1>4 DEF IoctlFailed
  <2>2. ResultOK([via |-> "error", data |-> Blank, ioErr |-> f.ioErr, nlErr |-> f.nlErr])
    BY <1>2, <1>4 DEF ResultOK
  <2> QED
    BY <1>1, <1>2, <2>1, <2>2, ImageTypes, ReturnInvariant
<1> QED
  BY <1>3, <1>4

\* The legacy ioctl answers or fails; the two lemmas above cover both.
LEMMA IoctlInvariant ==
  ASSUME IInv, NEW c \in Callers, Ioctl(c)
  PROVE  IInv'
<1>1. pc[c] = "ioctl" /\ Answering(c) \subseteq Modules
  BY AnsweringModules DEF Ioctl, IInv, LocalOK, Reading, Locked
<1>2. ASSUME NEW m \in Answering(c), NEW data \in {Legacy(m), Blank}, IoctlAnswered(c, data)
      PROVE  IInv'
  <2>1. data \in Image
    BY <1>1, ImageTypes
  <2> QED
    BY <1>1, <1>2, <2>1, IoctlAnsweredInvariant DEF Ioctl
<1>3. ASSUME NEW e \in Errnos, IoctlFailed(c, e)
      PROVE  IInv'
  BY <1>1, <1>3, IoctlFailedInvariant DEF Ioctl
<1> QED
  BY <1>2, <1>3 DEF Ioctl

-----------------------------------------------------------------------------
(***************************************************************************)
(* The theorems.                                                           *)
(***************************************************************************)

\* Before the first call nobody holds the mutex and no image has been built.
LEMMA InitInvariant == Init => IInv
<1> SUFFICES ASSUME Init PROVE IInv
  OBVIOUS
<1>1. Fresh(NoInterface) \in Frames /\ LocalOK("idle", Fresh(NoInterface))
  BY ImageTypes, ShortIsWellFounded
     DEF Fresh, Frames, LocalOK, PagesOK, Reading, Locked, Fetching, MaxBanks
<1>2. NoResult \in Results /\ ResultOK(NoResult)
  BY ImageTypes, ShortIsWellFounded DEF NoResult, Results, ResultOK
<1>3. TypeOK
  BY <1>1, <1>2, ReaderAssumption DEF Init, TypeOK, PCs
<1>4. Serialized
  BY ReaderAssumption DEF Init, Serialized, Locked
<1> QED
  BY <1>1, <1>2, <1>3, <1>4 DEF Init, IInv

\* What the environment and Close do touches no call's locals and no result.
LEMMA OtherStepsInvariant ==
  ASSUME IInv,
         \/ \E i \in Interfaces, m \in Modules \cup {NoModule} : Swap(i, m)
         \/ \E c \in Callers : BeginClose(c) \/ Close(c)
         \/ UNCHANGED vars
  PROVE  IInv'
<1>1. ASSUME NEW i \in Interfaces, NEW m \in Modules \cup {NoModule}, Swap(i, m)
      PROVE  IInv'
  <2>1. TypeOK'
    BY <1>1, ReaderAssumption DEF IInv, TypeOK, Swap
  <2> QED
    BY <1>1, <2>1 DEF Swap, IInv, Serialized, LocalOK, PagesOK, ResultOK
<1>2. ASSUME NEW c \in Callers, BeginClose(c) \/ Close(c)
      PROVE  IInv'
  <2>1. TypeOK'
    BY <1>2 DEF IInv, TypeOK, BeginClose, Close, PCs
  <2>2. Serialized'
    BY <1>2, ReaderAssumption DEF IInv, TypeOK, Serialized, BeginClose, Close, Locked
  <2>3. \A d \in Callers : LocalOK(pc'[d], frame'[d])
    BY <1>2 DEF IInv, TypeOK, BeginClose, Close, LocalOK, PagesOK, Fetching, Reading, Locked
  <2>4. \A d \in Callers : ResultOK(result'[d])
    BY <1>2 DEF IInv, BeginClose, Close
  <2> QED
    BY <2>1, <2>2, <2>3, <2>4 DEF IInv, LocalOK, ResultOK, PagesOK
<1>3. CASE UNCHANGED vars
  BY <1>3 DEF vars, IInv, TypeOK, Serialized, LocalOK, PagesOK, ResultOK
<1> QED
  BY <1>1, <1>2, <1>3

\* Every step of the reader, of its modules and of Close preserves the invariant.
LEMMA NextInvariant == IInv /\ [Next]_vars => IInv'
<1> SUFFICES ASSUME IInv, [Next]_vars PROVE IInv'
  OBVIOUS
<1>1. ASSUME NEW c \in Callers, Transaction(c)
      PROVE  IInv'
  BY <1>1, IdentifyInvariant, ReadLowerInvariant, ReadPage00Invariant, ReadPage01Invariant,
     ReadPage02Invariant, ReadBankInvariant, IoctlInvariant DEF Transaction
<1>2. ASSUME NEW c \in Callers, NEW i \in Interfaces, Call(c, i)
      PROVE  IInv'
  BY <1>2, CallInvariant
<1>3. ASSUME NEW c \in Callers, Acquire(c) \/ AcquireClose(c)
      PROVE  IInv'
  BY <1>3, AcquireInvariant
<1> QED
  BY <1>1, <1>2, <1>3, OtherStepsInvariant DEF Next

\* The reader's inductive invariant holds in every state it can reach.
THEOREM Invariance == Spec => []IInv
BY InitInvariant, NextInvariant, PTL DEF Spec

\* Every variable of the reader keeps its type, for any callers and modules.
THEOREM TypeCorrect == Spec => []TypeOK
<1>1. IInv => TypeOK
  BY DEF IInv
<1> QED
  BY <1>1, Invariance, PTL

\* The mutex of reader.go serializes every use of the ethtool clients.
THEOREM MutualExclusion == Spec => []Serialized
<1>1. IInv => Serialized
  BY DEF IInv
<1> QED
  BY <1>1, Invariance, PTL

\* ModuleEEPROM fails only after every path it has failed (reader.go:107-133).
THEOREM FailsLast == Spec => []NoPrematureFailure
<1>1. IInv => NoPrematureFailure
  BY DEF IInv, ResultOK, NoPrematureFailure
<1> QED
  BY <1>1, Invariance, PTL

\* CMIS data from ioctl is a last resort (reader.go:109-118).
THEOREM NetlinkFirstForCMIS == Spec => []CMISPrefersNetlink
<1>1. IInv => CMISPrefersNetlink
  BY DEF IInv, ResultOK, CMISPrefersNetlink
<1> QED
  BY <1>1, Invariance, PTL

\* A netlink image has no upper page without page 00h and
\* 01h, and none for a bank page 01h does not advertise (netlink_linux.go:83-110).
THEOREM ImagesWellFounded == Spec => []UpperPagesWellFounded
<1>1. IInv => UpperPagesWellFounded
  BY DEF IInv, ResultOK, WellFounded, UpperPagesWellFounded
<1> QED
  BY <1>1, Invariance, PTL
=============================================================================
