---------------------------- MODULE ModuleMemory ----------------------------
(***************************************************************************)
(* The byte image of a transceiver module as the reader assembles it and   *)
(* the decoders take it apart.  The code addresses the image in pages of   *)
(* 128 bytes: slot s stands for the bytes 128 * s .. 128 * s + 127, so     *)
(*                                                                         *)
(*    slot 0  lower memory            (offset   0)                         *)
(*    slot 1  upper page 00h          (cmisPage00UpperOffset  128)         *)
(*    slot 2  upper page 01h          (cmisPage01Offset       256)         *)
(*    slot 3  upper page 02h          (cmisPage02Offset       384)         *)
(*    slot 4+b page 11h of bank b     (cmisPage11Bank0Offset  512 + 128 b) *)
(*                                                                         *)
(* The content of a slot is the module it was read from, Zero where the    *)
(* buffer was only ever zero-filled, and Missing past len(data).           *)
(***************************************************************************)
EXTENDS Naturals

CONSTANTS
  Modules,      \* the physical modules that can sit in a cage
  CMIS,         \* those whose identifier byte is a CMIS one
  Flat,         \* those whose byte 2 has the flat memory bit set
  Banks,        \* Banks[m]: the banks page 01h of m advertises
  LegacySlots,  \* LegacySlots[m]: the slots a legacy ioctl of m fills
  NoModule,     \* an empty cage
  Zero,
  Missing

ASSUME MemoryAssumption ==
  /\ CMIS \subseteq Modules
  /\ Flat \subseteq Modules
  /\ Banks \in [Modules -> {1, 2, 4}]
  /\ LegacySlots \in [Modules -> 2 .. 5]
  /\ {NoModule, Zero, Missing} \cap Modules = {}
  /\ NoModule # Zero /\ NoModule # Missing /\ Zero # Missing

MaxBanks == 4
Slots == 0 .. 3 + MaxBanks
Lower == 0
Page00 == 1
Page01 == 2
Page02 == 3
Page11(bank) == 4 + bank

Image == [Slots -> Modules \cup {Zero, Missing}]

\* No byte at all: var data []byte before anything was read.
Blank == [s \in Slots |-> Missing]

\* What the legacy ioctl gives of m: 256 bytes, or 512 (SFF-8472 with diagnostics)
\* or 640 (SFF-8636 with its upper pages), as the driver reports.
Legacy(m) == [s \in Slots |-> IF s < LegacySlots[m] THEN m ELSE Missing]

\* isCMIS: the first byte of the data, if there is one, is a CMIS identifier.
IsCMIS(data) == data[Lower] \in CMIS

\* The 256 bytes ModuleEEPROM allocates: lower memory copied in, the rest zero.
LowerImage(m) ==
  [s \in Slots |-> IF s = Lower THEN m ELSE IF s = Page00 THEN Zero ELSE Missing]

\* Mutant: the gap before the page is not filled.
AppendPageNoFill(data, slot, m) == [data EXCEPT ![slot] = m]

\* appendPage: grow the image with zeroes up to the page, then copy the page.
AppendPage(data, slot, m) ==
  [s \in Slots |-> IF s = slot THEN m
                   ELSE IF s < slot /\ data[s] = Missing THEN Zero
                   ELSE data[s]]

\* len(data) in slots: the slots that are not Missing form a prefix.
IsPrefix(data) ==
  \A s \in Slots : data[s] = Missing => \A t \in s .. 3 + MaxBanks : data[t] = Missing
=============================================================================
