---------------------------- MODULE MirroredStore ----------------------------
(***************************************************************************)
(* One key of the Android store: localStorage, which answers at once, and  *)
(* its mirror in the native preferences, written behind and read only when *)
(* localStorage has nothing, as after the system wiped the WebView's data. *)
(* Values are told apart by the number of the set() that wrote them.       *)
(***************************************************************************)
EXTENDS Naturals, Sequences

CONSTANTS
  MaxSets,      \* bound: calls of set() and remove()
  MaxTries,     \* reads of the mirror before get() gives up
  NoRead

Absent == 0     \* null

Read == [from : Nat, tries : Nat, value : Nat, got : BOOLEAN]

ASSUME MirrorAssumption ==
  /\ MaxSets \in Nat /\ MaxTries \in Nat \ {0}
  /\ NoRead \notin Read

VARIABLES
  localValue, mirrorValue,
  edition,   \* generations: of this key
  mutations, \* values on their way to the mirror, the first under way
  reading,   \* inFlight: the read of the mirror that every get() shares
  lastSet, newest, \* history: number of the last set(), the value wanted now
  doubtful  \* history: a write was refused, or a read passed one under way

mirrorVars == <<localValue, mirrorValue, edition, mutations, reading, lastSet, newest, doubtful>>

\* The key was stored once; localStorage may have been wiped since.
MirrorInit ==
  /\ localValue \in {Absent, 1} /\ mirrorValue = 1
  /\ edition = 0 /\ mutations = <<>> /\ reading = NoRead
  /\ lastSet = 1 /\ newest = 1 /\ doubtful = FALSE

\* set(): localStorage first, which may be full, the mirror in its turn.
Sets(ok) ==
  /\ edition < MaxSets
  /\ edition' = edition + 1
  /\ lastSet' = lastSet + 1 /\ newest' = lastSet + 1
  /\ localValue' = IF ok THEN lastSet + 1 ELSE localValue
  /\ mutations' = Append(mutations, lastSet + 1)
  /\ doubtful' = (doubtful \/ ~ok)
  /\ UNCHANGED <<mirrorValue, reading>>

Removes ==
  /\ edition < MaxSets
  /\ edition' = edition + 1
  /\ localValue' = Absent /\ newest' = Absent
  /\ mutations' = Append(mutations, Absent)
  /\ UNCHANGED <<mirrorValue, reading, lastSet, doubtful>>

\* The mirror settles the mutation whose turn it is; failures are swallowed.
MutationSettles(ok) ==
  /\ mutations # <<>>
  /\ mirrorValue' = IF ok THEN Head(mutations) ELSE mirrorValue
  /\ mutations' = Tail(mutations)
  /\ doubtful' = (doubtful \/ ~ok)
  /\ UNCHANGED <<localValue, edition, reading, lastSet, newest>>

\* get() with nothing in localStorage: one read serves every caller.
Gets ==
  /\ localValue = Absent /\ reading = NoRead
  /\ reading' = [from |-> edition, tries |-> MaxTries, value |-> Absent, got |-> FALSE]
  /\ doubtful' = (doubtful \/ mutations # <<>>)
  /\ UNCHANGED <<localValue, mirrorValue, edition, mutations, lastSet, newest>>

\* The mirror looks the key up, or is not ready yet.
MirrorAnswers(v) ==
  /\ reading # NoRead /\ ~reading.got
  /\ v \in {mirrorValue, Absent}
  /\ reading' = [reading EXCEPT !.value = v, !.got = TRUE]
  /\ UNCHANGED <<localValue, mirrorValue, edition, mutations, lastSet, newest, doubtful>>

\* Mutant of Overtaken: whatever the mirror said is taken.
Overtaken_Never == FALSE

\* A set() or remove() came during the read.
Overtaken == edition # reading.from

\* readMirror() goes on with the answer: it restores a value nobody replaced,
\* and asks again, after a delay, when there was none.
ReadGoesOn ==
  /\ reading # NoRead /\ reading.got
  /\ IF reading.value = Absent /\ reading.tries > 1
     THEN /\ reading' = [reading EXCEPT !.got = FALSE, !.tries = @ - 1]
          /\ UNCHANGED localValue
     ELSE /\ reading' = NoRead
          /\ localValue' = IF Overtaken \/ localValue # Absent
                           THEN localValue ELSE reading.value
  /\ UNCHANGED <<mirrorValue, edition, mutations, lastSet, newest, doubtful>>

MirrorNext ==
  \/ \E ok \in BOOLEAN : Sets(ok) \/ MutationSettles(ok)
  \/ Removes
  \/ Gets
  \/ MirrorAnswers(mirrorValue)
  \/ MirrorAnswers(Absent)
  \/ ReadGoesOn

MirrorSpec == MirrorInit /\ [][MirrorNext]_mirrorVars

\* A value that was removed or replaced never comes back to localStorage, how
\* long ever a read of the mirror that began before took to answer: the comment
\* of createMirroredStringStore() says that "an older mirror read can never
\* resurrect stale data" (mirrored-string-store.ts:29-36, 62). Of a store that
\* refused a write, and of a read that began with a write under way, the code
\* does not keep that promise (doubtful). It speaks of get(), set() and remove():
\* getValidated(), which takes the mirror's value when the local one does not
\* parse, is not part of the module.
NothingResurrected == doubtful \/ localValue \in {Absent, newest}

=============================================================================
