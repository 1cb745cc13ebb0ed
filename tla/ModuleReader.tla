---------------------------- MODULE ModuleReader ----------------------------
(***************************************************************************)
(* moduleeeprom.Reader (reader.go, netlink_linux.go): the one reader every *)
(* scrape shares.  A mutex serializes the calls; under it a call makes     *)
(* several device transactions, each a step of its own here, because a     *)
(* module can be pulled or fail between any two of them.                   *)
(*                                                                         *)
(* The kernel and the drivers are modelled from how the reader uses them:  *)
(* a transaction on an occupied cage answers with the module's bytes or    *)
(* fails with any errno, on an empty cage or a closed client it fails.     *)
(***************************************************************************)
EXTENDS ModuleMemory, FiniteSets

CONSTANTS
  Callers,      \* goroutines that use the reader
  Interfaces,
  NoInterface,
  HasNetlink,   \* newNetlinkClient succeeded: r.netlink # nil
  Errnos,       \* the errors a device transaction can fail with
  Free,         \* the mutex has no owner
  MaxSwaps      \* bound on the modules pulled and inserted

ASSUME ReaderAssumption ==
  /\ NoInterface \notin Interfaces
  /\ Free \notin Callers
  /\ HasNetlink \in BOOLEAN
  /\ Errnos # {}
  /\ Errnos \cap (Modules \cup {NoModule}) = {}
  /\ MaxSwaps \in Nat

VARIABLES
  lock,     \* r.mu
  open,     \* Close has not released the clients
  pc,       \* pc[c]: the next statement of caller c
  frame,    \* frame[c]: the locals of c's ModuleEEPROM call
  result,   \* result[c]: what c's last call returned
  plugged,  \* plugged[i]: the module in interface i, or NoModule
  window,   \* history: what sat in c's interface since c's call began
  swaps     \* bounded by MaxSwaps

vars == <<lock, open, pc, frame, result, plugged, window, swaps>>

Locked == {"identify", "lower", "page00", "page01", "page02", "bank", "ioctl"}
Reading == Locked \cup {"wait"}
PCs == Reading \cup {"idle", "closewait", "closing"}

(***************************************************************************)
(* The locals of ModuleEEPROM.  The netlink client is called from three    *)
(* sites: a CMIS identifier made netlink the preferred path, CMIS data     *)
(* from ioctl asked for an upgrade, or a failed ioctl for a fallback.      *)
(***************************************************************************)
Frames == [iface : Interfaces \cup {NoInterface},
           site  : {"preferred", "upgrade", "fallback"},
           ioctl : Image,             \* data
           ioErr : SUBSET Errnos,     \* err
           nlErr : SUBSET Errnos,     \* netlinkErr
           page  : Image,             \* the buffer ModuleEEPROM of netlink fills
           bank  : 0 .. MaxBanks - 1]

Fresh(i) == [iface |-> i, site |-> "preferred", ioctl |-> Blank, ioErr |-> {},
             nlErr |-> {}, page |-> Blank, bank |-> 0]

Results == [via : {"none", "netlink", "ioctl", "error"}, data : Image,
            ioErr : SUBSET Errnos, nlErr : SUBSET Errnos]

NoResult == [via |-> "none", data |-> Blank, ioErr |-> {}, nlErr |-> {}]

Init ==
  /\ lock = Free
  /\ open = TRUE
  /\ pc = [c \in Callers |-> "idle"]
  /\ frame = [c \in Callers |-> Fresh(NoInterface)]
  /\ result = [c \in Callers |-> NoResult]
  /\ plugged \in [Interfaces -> Modules \cup {NoModule}]
  /\ window = [c \in Callers |-> {}]
  /\ swaps = 0

-----------------------------------------------------------------------------
(***************************************************************************)
(* The environment.                                                        *)
(***************************************************************************)
Swap(i, m) ==
  /\ swaps < MaxSwaps
  /\ m # plugged[i]
  /\ plugged' = [plugged EXCEPT ![i] = m]
  /\ window' = [c \in Callers |->
                  IF pc[c] \in Reading /\ frame[c].iface = i
                    THEN window[c] \cup {m} ELSE window[c]]
  /\ swaps' = swaps + 1
  /\ UNCHANGED <<lock, open, pc, frame, result>>

\* Mutant: the client answers for whatever interface its state was left on.
AnsweringAny(c) == IF open THEN {plugged[i] : i \in Interfaces} \ {NoModule} ELSE {}

\* The modules a transaction of c's call can be answered by.
Answering(c) == IF open THEN {plugged[frame[c].iface]} \ {NoModule} ELSE {}

-----------------------------------------------------------------------------
(***************************************************************************)
(* The steps of one ModuleEEPROM call.                                     *)
(***************************************************************************)
Goto(c, label, f) ==
  /\ pc' = [pc EXCEPT ![c] = label]
  /\ frame' = [frame EXCEPT ![c] = f]
  /\ UNCHANGED <<lock, result>>

\* Mutant: the error path returns without unlocking.
ReturnLocked(c, via, data, f) ==
  /\ result' = [result EXCEPT ![c] =
                  [via |-> via, data |-> data, ioErr |-> f.ioErr, nlErr |-> f.nlErr]]
  /\ pc' = [pc EXCEPT ![c] = "idle"]
  /\ frame' = [frame EXCEPT ![c] = Fresh(NoInterface)]
  /\ lock' = IF via = "error" THEN lock ELSE Free

\* return runs the deferred Unlock.
Return(c, via, data, f) ==
  /\ result' = [result EXCEPT ![c] =
                  [via |-> via, data |-> data, ioErr |-> f.ioErr, nlErr |-> f.nlErr]]
  /\ pc' = [pc EXCEPT ![c] = "idle"]
  /\ frame' = [frame EXCEPT ![c] = Fresh(NoInterface)]
  /\ lock' = Free

\* A caller enters ModuleEEPROM(i) and blocks on the mutex.
Call(c, i) ==
  /\ pc[c] = "idle"
  /\ pc' = [pc EXCEPT ![c] = "wait"]
  /\ frame' = [frame EXCEPT ![c] = Fresh(i)]
  /\ result' = [result EXCEPT ![c] = NoResult]
  /\ window' = [window EXCEPT ![c] = {plugged[i]}]
  /\ UNCHANGED <<lock, open, plugged, swaps>>

\* Mutant: the mutex is forgotten.
AcquireUnguarded(c) ==
  /\ pc[c] = "wait"
  /\ lock' = c
  /\ pc' = [pc EXCEPT ![c] = IF HasNetlink THEN "identify" ELSE "ioctl"]
  /\ UNCHANGED <<open, frame, result, plugged, window, swaps>>

Acquire(c) ==
  /\ pc[c] = "wait"
  /\ lock = Free
  /\ lock' = c
  /\ pc' = [pc EXCEPT ![c] = IF HasNetlink THEN "identify" ELSE "ioctl"]
  /\ UNCHANGED <<open, frame, result, plugged, window, swaps>>

\* Mutant: any identifier prefers netlink.
IdentifyAny(c) ==
  /\ pc[c] = "identify"
  /\ \E reply \in Answering(c) \cup Errnos :
        Goto(c, IF reply \in Modules THEN "lower" ELSE "ioctl", frame[c])
  /\ UNCHANGED <<open, plugged, window, swaps>>

\* netlink.ModuleIdentifier: its error is dropped, as a non-CMIS answer is.
Identify(c) ==
  /\ pc[c] = "identify"
  /\ \E reply \in Answering(c) \cup Errnos :
        Goto(c, IF reply \in CMIS THEN "lower" ELSE "ioctl", frame[c])
  /\ UNCHANGED <<open, plugged, window, swaps>>

\* netlink.ModuleEEPROM failed: each of its three call sites goes its own way.
NetlinkFailed(c, e) ==
  LET f == [frame[c] EXCEPT !.nlErr = {e}]
  IN  \/ f.site = "preferred" /\ Goto(c, "ioctl", f)
      \/ f.site = "upgrade" /\ Return(c, "ioctl", f.ioctl, f)
      \/ f.site = "fallback" /\ Return(c, "error", Blank, f)

ReadLower(c) ==
  /\ pc[c] = "lower"
  /\ \/ \E m \in Answering(c) :
           Goto(c, "page00", [frame[c] EXCEPT !.page = LowerImage(m)])
     \/ \E e \in Errnos : NetlinkFailed(c, e)
  /\ UNCHANGED <<open, plugged, window, swaps>>

\* Mutant: the flat memory bit is not looked at.
ReadPage00NoFlat(c) ==
  /\ pc[c] = "page00"
  /\ \/ \E m \in Answering(c) :
           Goto(c, "page01", [frame[c] EXCEPT !.page = [@ EXCEPT ![Page00] = m]])
     \/ Return(c, "netlink", frame[c].page, frame[c])
  /\ UNCHANGED <<open, plugged, window, swaps>>

\* An upper page that cannot be read ends the image; so does flat memory.
ReadPage00(c) ==
  /\ pc[c] = "page00"
  /\ \/ \E m \in Answering(c) :
           LET data == [frame[c].page EXCEPT ![Page00] = m]
           IN  IF data[Lower] \in Flat
                 THEN Return(c, "netlink", data, frame[c])
                 ELSE Goto(c, "page01", [frame[c] EXCEPT !.page = data])
     \/ Return(c, "netlink", frame[c].page, frame[c])
  /\ UNCHANGED <<open, plugged, window, swaps>>

ReadPage01(c) ==
  /\ pc[c] = "page01"
  /\ \/ \E m \in Answering(c) :
           Goto(c, "page02", [frame[c] EXCEPT !.page = AppendPage(@, Page01, m)])
     \/ Return(c, "netlink", frame[c].page, frame[c])
  /\ UNCHANGED <<open, plugged, window, swaps>>

\* Page 02h is optional: its error is skipped.
ReadPage02(c) ==
  /\ pc[c] = "page02"
  /\ \/ \E m \in Answering(c) :
           Goto(c, "bank", [frame[c] EXCEPT !.page = AppendPage(@, Page02, m)])
     \/ Goto(c, "bank", frame[c])
  /\ UNCHANGED <<open, plugged, window, swaps>>

\* cmisNumBanks of the page 01h that was read bounds the loop over the banks.
NumBanks(c) == Banks[frame[c].page[Page01]]

\* Mutant: the loop runs one bank too far.
NextBankTooFar(c, data) ==
  IF frame[c].bank < MaxBanks
    THEN Goto(c, "bank", [frame[c] EXCEPT !.page = data, !.bank = @ + 1])
    ELSE Return(c, "netlink", data, frame[c])

NextBank(c, data) ==
  IF frame[c].bank + 1 < NumBanks(c)
    THEN Goto(c, "bank", [frame[c] EXCEPT !.page = data, !.bank = @ + 1])
    ELSE Return(c, "netlink", data, frame[c])

\* page 11h of one bank; a bank that cannot be read is skipped (continue).
ReadBank(c) ==
  /\ pc[c] = "bank"
  /\ \/ \E m \in Answering(c) :
           NextBank(c, AppendPage(frame[c].page, Page11(frame[c].bank), m))
     \/ NextBank(c, frame[c].page)
  /\ UNCHANGED <<open, plugged, window, swaps>>

\* Mutant: CMIS data from ioctl is returned as it is.
IoctlAnsweredNoUpgrade(c, data) == Return(c, "ioctl", data, frame[c])

\* Mutant: empty data is reported as a failure without a fallback.
IoctlAnsweredEmptyFails(c, data) ==
  Return(c, IF data = Blank THEN "error" ELSE "ioctl", data, frame[c])

\* ioctl.ModuleEeprom answered data, which may be empty.
IoctlAnswered(c, data) ==
  IF HasNetlink /\ frame[c].nlErr = {} /\ IsCMIS(data)
    THEN Goto(c, "lower", [frame[c] EXCEPT !.site = "upgrade", !.ioctl = data])
    ELSE Return(c, "ioctl", data, frame[c])

\* Mutant: no fallback to netlink.
IoctlFailedNoFallback(c, e) ==
  Return(c, "error", Blank, [frame[c] EXCEPT !.ioErr = {e}])

\* ioctl.ModuleEeprom failed: fall back to netlink unless it was tried.
IoctlFailed(c, e) ==
  LET f == [frame[c] EXCEPT !.ioErr = {e}]
  IN  IF HasNetlink /\ f.nlErr = {}
        THEN Goto(c, "lower", [f EXCEPT !.site = "fallback"])
        ELSE Return(c, "error", Blank, f)

Ioctl(c) ==
  /\ pc[c] = "ioctl"
  /\ \/ \E m \in Answering(c) : \E data \in {Legacy(m), Blank} : IoctlAnswered(c, data)
     \/ \E e \in Errnos : IoctlFailed(c, e)
  /\ UNCHANGED <<open, plugged, window, swaps>>

-----------------------------------------------------------------------------
(***************************************************************************)
(* Reader.Close takes the same mutex and releases both clients.            *)
(***************************************************************************)
BeginClose(c) ==
  /\ pc[c] = "idle"
  /\ pc' = [pc EXCEPT ![c] = "closewait"]
  /\ UNCHANGED <<lock, open, frame, result, plugged, window, swaps>>

\* Mutant: Close does not wait for the mutex.
AcquireCloseUnguarded(c) ==
  /\ pc[c] = "closewait"
  /\ lock' = c
  /\ pc' = [pc EXCEPT ![c] = "closing"]
  /\ UNCHANGED <<open, frame, result, plugged, window, swaps>>

AcquireClose(c) ==
  /\ pc[c] = "closewait"
  /\ lock = Free
  /\ lock' = c
  /\ pc' = [pc EXCEPT ![c] = "closing"]
  /\ UNCHANGED <<open, frame, result, plugged, window, swaps>>

Close(c) ==
  /\ pc[c] = "closing"
  /\ open' = FALSE
  /\ lock' = Free
  /\ pc' = [pc EXCEPT ![c] = "idle"]
  /\ UNCHANGED <<frame, result, plugged, window, swaps>>

-----------------------------------------------------------------------------
Transaction(c) ==
  \/ Identify(c) \/ ReadLower(c) \/ ReadPage00(c) \/ ReadPage01(c)
  \/ ReadPage02(c) \/ ReadBank(c) \/ Ioctl(c)

Next ==
  \/ \E i \in Interfaces, m \in Modules \cup {NoModule} : Swap(i, m)
  \/ \E c \in Callers :
        \/ \E i \in Interfaces : Call(c, i)
        \/ Acquire(c)
        \/ Transaction(c)
        \/ BeginClose(c)
        \/ AcquireClose(c)
        \/ Close(c)

Spec == Init /\ [][Next]_vars

(***************************************************************************)
(* A device transaction that was started ends (the kernel answers or       *)
(* fails), and Go's mutex hands over to a goroutine that waits long        *)
(* enough (its starvation mode), whatever the others do.                   *)
(***************************************************************************)
Fairness ==
  \A c \in Callers :
    /\ WF_vars(Transaction(c) \/ Close(c))
    /\ SF_vars(Acquire(c))
    /\ SF_vars(AcquireClose(c))

FairSpec == Spec /\ Fairness

-----------------------------------------------------------------------------
(***************************************************************************)
(* Properties.                                                             *)
(***************************************************************************)

\* The variables hold values of their types: a caller's program counter is one
\* of ModuleEEPROM's or Close's statements and its locals are as declared.
TypeOK ==
  /\ lock \in Callers \cup {Free}
  /\ open \in BOOLEAN
  /\ pc \in [Callers -> PCs]
  /\ frame \in [Callers -> Frames]
  /\ result \in [Callers -> Results]
  /\ plugged \in [Interfaces -> Modules \cup {NoModule}]
  /\ window \in [Callers -> SUBSET (Modules \cup {NoModule})]
  /\ swaps \in 0 .. MaxSwaps

\* "It serializes access to the underlying ethtool clients" (reader.go:25): of
\* all callers exactly the mutex's owner is between two transactions of a call
\* or inside Close, so no two calls interleave their transactions.
Serialized ==
  \A c \in Callers : pc[c] \in Locked \cup {"closing"} <=> lock = c

\* A call reports failure only when every path it has failed in that call: the
\* ioctl, and netlink too wherever netlink exists (reader.go:107-133).
NoPrematureFailure ==
  \A c \in Callers :
    result[c].via = "error" =>
      result[c].ioErr # {} /\ (HasNetlink => result[c].nlErr # {})

\* CMIS data never comes from the legacy ioctl while netlink could give the
\* upper pages: it is returned only after netlink failed in the same call, even
\* if the identifier probe failed or the module was swapped (reader.go:84-87).
CMISPrefersNetlink ==
  \A c \in Callers :
    result[c].via = "ioctl" /\ HasNetlink /\ IsCMIS(result[c].data) =>
      result[c].nlErr # {}

\* SFF modules stay on the ioctl path (reader.go:38-39): netlink data of a
\* module that is not CMIS is returned only when the ioctl failed, or when the
\* module was swapped between the probe and the read.
OthersStayOnIoctl ==
  \A c \in Callers :
    result[c].via = "netlink" /\ ~ IsCMIS(result[c].data) =>
      result[c].ioErr # {} \/ Cardinality(window[c]) > 1

\* What cmis.go takes for granted of a netlink image: pages past 00h are there
\* only together with the real page 00h and page 01h, never for flat memory,
\* and only for the banks that very page 01h advertises (netlink_linux.go:83-110).
UpperPagesWellFounded ==
  \A c \in {d \in Callers : result[d].via = "netlink"} :
    LET data == result[c].data
    IN  \A s \in Slots :
          s > Page00 /\ data[s] \in Modules =>
            /\ data[Page00] \in Modules
            /\ data[Page01] \in Modules
            /\ data[Lower] \notin Flat
            /\ s < Page11(Banks[data[Page01]])

\* A call that returns once the reader is closed returns an error: Close waits
\* for the call in flight instead of truncating its image (reader.go:69-71).
ClosedReaderFails ==
  [][\A c \in Callers :
       pc[c] \in Reading /\ pc'[c] = "idle" /\ ~ open => result'[c].via = "error"]_vars

\* Every call returns, whatever modules do and however many others are calling,
\* as long as each device transaction ends.
CallsReturn == \A c \in Callers : pc[c] = "wait" ~> pc[c] = "idle"

(***************************************************************************)
(* The reader implements the contract its callers rely on.                 *)
(***************************************************************************)
Contract == INSTANCE ModuleReads WITH
  calling <- [c \in Callers |-> IF pc[c] \in Reading THEN frame[c].iface ELSE NoInterface],
  answer  <- [c \in Callers |-> [ok   |-> result[c].via \in {"netlink", "ioctl"},
                                 data |-> result[c].data]]

\* Every call is answered once, by an error or by bytes read from modules that
\* sat in the asked interface while the call was under way (reader.go:83-88).
ImplementsContract == Contract!Spec
=============================================================================
