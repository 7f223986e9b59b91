--------------------------- MODULE DurableSettings ---------------------------
(***************************************************************************)
(* The settings store with its file, and the process that may end at any   *)
(* moment. Snapshots are told apart by the number of the patch that made   *)
(* them. The adapter writes a temporary file and renames it, so a write    *)
(* lands whole or not at all (its copyFile fallback, which may tear the    *)
(* file, is left out), and the file is read back at the next start.        *)
(***************************************************************************)
EXTENDS SettingsStore

CONSTANTS MaxPatches  \* bound: patches between two failures of the process

ASSUME MaxPatchesAssumption == MaxPatches \in Nat

VARIABLE told  \* the newest snapshot a caller was told is stored

durableVars == <<storeVars, told>>

DurableInit == Loaded(0) /\ told = 0

\* patch(), reset(): the caller waits for its own write.
PatchSettings ==
  /\ settings < MaxPatches
  /\ Patches(settings + 1, "caller")
  /\ UNCHANGED told

WriteEnds == (\E ok \in BOOLEAN : WriteSettles(ok)) /\ UNCHANGED told

\* The caller of a patch whose write succeeded goes on.
PatchReturns ==
  /\ stored /\ told < disk
  /\ told' = disk
  /\ UNCHANGED storeVars

\* waitForPersistence() returns what it was told is the stored snapshot.
WaitReturns ==
  /\ Persisted /\ stored /\ told < settings
  /\ told' = settings
  /\ UNCHANGED storeVars

\* The process ends, with a write under way that lands or does not, and
\* load() reads the file.
ProcessRestarts ==
  /\ disk' \in {disk} \union {writes[i].snap : i \in DOMAIN writes \intersect {1}}
  /\ settings' = disk'
  /\ writes' = <<>>
  /\ stored' = TRUE
  /\ UNCHANGED told

DurableNext ==
  \/ PatchSettings
  \/ WriteEnds
  \/ PatchReturns
  \/ WaitReturns
  \/ ProcessRestarts

DurableSpec == DurableInit /\ [][DurableNext]_durableVars

Contract == INSTANCE DurableRegister WITH mem <- settings, onDisk <- disk, acked <- told

\* The store keeps the promise of a durable register: the writes of
\* overlapping patches reach the file in the order of the calls, whichever of
\* them fail, so the file never goes back to an older snapshot, what a caller
\* was told is stored survives a restart, and waitForPersistence() returns a
\* snapshot that is in the file.
ImplementsRegister == Contract!RegisterSpec

\* Why: the queued snapshots are the last ones made, in their order, and the
\* file is behind all of them.
DurableInv ==
  /\ settings \in Nat /\ disk \in Nat /\ told \in Nat /\ stored \in BOOLEAN
  /\ writes \in Seq([snap : Nat, by : {"caller"}])
  /\ disk + Len(writes) <= settings
  /\ \A i \in DOMAIN writes : writes[i].snap = settings - Len(writes) + i
  /\ told <= disk
  /\ writes = <<>> /\ stored => disk = settings

=============================================================================
