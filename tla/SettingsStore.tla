---------------------------- MODULE SettingsStore ----------------------------
(***************************************************************************)
(* SettingsStore of packages/core: the settings in memory, replaced at     *)
(* once by patch(), and the chain of writes that carries every snapshot to *)
(* the storage adapter in the order of the calls. The Windows service      *)
(* builds on it what it asks the engine for (DesiredProfile), so what a    *)
(* snapshot holds is left to the modules that extend this one.             *)
(***************************************************************************)
EXTENDS Naturals, Sequences

VARIABLES
  settings,  \* the snapshot in memory
  writes,    \* writeQueue: snapshots still to be stored, the first under way
  stored,    \* the last write succeeded, and disk is the snapshot it resolved with
  disk       \* settings.json

storeVars == <<settings, writes, stored, disk>>

\* load() has read the file; its promise counts as a write that succeeded.
Loaded(s) ==
  settings = s /\ writes = <<>> /\ disk = s /\ stored = TRUE

\* Mutant of Patches: the newest snapshot overtakes those that wait.
Patches_Overtakes(s, by) ==
  /\ settings' = s
  /\ writes' = <<[snap |-> s, by |-> by]>> \o writes
  /\ UNCHANGED <<stored, disk>>

\* patch() and reset(): memory changes synchronously, the snapshot is queued
\* for the caller by.
Patches(s, by) ==
  /\ settings' = s
  /\ writes' = Append(writes, [snap |-> s, by |-> by])
  /\ UNCHANGED <<stored, disk>>

\* storage.set() of the first snapshot resolves or rejects; a failed write
\* does not keep the next one from starting.
WriteSettles(ok) ==
  /\ writes # <<>>
  /\ writes' = Tail(writes)
  /\ stored' = ok
  /\ disk' = IF ok THEN Head(writes).snap ELSE disk
  /\ UNCHANGED settings

\* Mutant of Persisted: the caller's own turn is enough, whatever is queued.
Persisted_AnyTime == TRUE

\* waitForPersistence() goes on once the newest write has settled, and throws
\* if that one failed.
Persisted == writes = <<>>

=============================================================================
