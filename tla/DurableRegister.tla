--------------------------- MODULE DurableRegister ---------------------------
(***************************************************************************)
(* What a settings store promises: a value in memory that is always the    *)
(* last one written, and a copy on disk that follows it, never backwards,  *)
(* and is what a restart comes back with. Values are told apart by the     *)
(* number of the write that produced them; 0 is the defaults.              *)
(***************************************************************************)
EXTENDS Naturals

VARIABLES
  mem,     \* the value readers see
  onDisk,  \* the value a restart will find
  acked    \* the newest value somebody was told is on disk

register == <<mem, onDisk, acked>>

RegisterInit == mem = 0 /\ onDisk = 0 /\ acked = 0

Write == mem' = mem + 1 /\ UNCHANGED <<onDisk, acked>>

\* Values may be skipped, when their write fails.
Store == onDisk' \in (onDisk + 1)..mem /\ UNCHANGED <<mem, acked>>

Acknowledge == acked' \in acked..onDisk /\ UNCHANGED <<mem, onDisk>>

\* What was not stored is forgotten; a write under way may have made it.
Restart == mem' \in onDisk..mem /\ onDisk' = mem' /\ UNCHANGED acked

RegisterNext == Write \/ Store \/ Acknowledge \/ Restart

RegisterSpec == RegisterInit /\ [][RegisterNext]_register

=============================================================================
