-------------------------- MODULE MC_ModuleReader --------------------------
(***************************************************************************)
(* Instances of ModuleReader for TLC: an SFF module, a CMIS module with    *)
(* flat memory and one with two banks; two callers and a swap.             *)
(***************************************************************************)
EXTENDS ModuleReader

CONSTANTS sff, flat, dsp

MCModules == {sff, flat, dsp}
MCCMIS == {flat, dsp}
MCFlat == {flat}
\* For the temporal run: one banked module that comes or goes.
SmallModules == {dsp}
SmallCMIS == {dsp}
SmallFlat == {}
SmallBanks == [m \in SmallModules |-> 2]

MCBanks == [m \in MCModules |-> IF m = dsp THEN 2 ELSE 1]
MCLegacySlots == [m \in MCModules |-> IF m = sff THEN 4 ELSE 2]
SmallLegacySlots == [m \in SmallModules |-> 2]
=============================================================================
