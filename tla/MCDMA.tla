-------------------------------- MODULE MCDMA -------------------------------
(***************************************************************************)
(* Descriptors for checking DMA on small instances.                        *)
(***************************************************************************)
EXTENDS DMA

CONSTANTS T1CH0, URX0   \* two trigger numbers

\* A repeated block of n elements, or of fewer, none included, if the first byte
\* of the source says so; and n elements one event at a time.
BlockOf(n, trigger) ==
  [LEN |-> n, varlen |-> TRUE, single |-> FALSE, repeated |-> TRUE, ITmask |-> TRUE,
   TriggerEvent |-> trigger]
SingleOf(n, trigger) ==
  [LEN |-> n, varlen |-> FALSE, single |-> TRUE, repeated |-> FALSE, ITmask |-> TRUE,
   TriggerEvent |-> trigger]

TwoDescriptors == {BlockOf(2, T1CH0), SingleOf(2, URX0)}
=============================================================================
