---------------------------- MODULE StorageProofs ----------------------------
(***************************************************************************)
(* What the three stores promise over refused writes, restarts and slow    *)
(* mirrors, for any number of them: the settings implement the durable     *)
(* register, the list of subscriptions survives its own files, and the     *)
(* mirror of Android brings nothing back.                                  *)
(***************************************************************************)
EXTENDS DurableSettings, SubscriptionFiles, MirroredStore, SequenceTheorems, TLAPS

-----------------------------------------------------------------------------
(* The settings *)

\* A snapshot queued by patch() and reset(), and the write it becomes.
Queued == [snap : Nat, by : {"caller"}]

\* An empty queue leaves the file where the settings are.
LEMMA NothingToAdd ==
  ASSUME NEW x \in Nat, NEW n \in Nat, n <= 0
  PROVE  x + n <= x
  OBVIOUS

\* At the start nothing is queued and the file holds the settings.
LEMMA DurableInvInit == DurableInit => DurableInv
  BY DEF DurableInit, DurableInv, Loaded

\* patch(): the new snapshot is the next one and the last of the queue.
LEMMA PatchKeepsDurableInv ==
  ASSUME DurableInv, PatchSettings
  PROVE  DurableInv'
<1> DEFINE w == [snap |-> settings + 1, by |-> "caller"]
<1>1. /\ settings' = settings + 1 /\ disk' = disk /\ told' = told /\ stored' = stored
      /\ writes' = Append(writes, w)
  BY DEF PatchSettings, Patches
<1>2. w \in Queued /\ writes \in Seq(Queued)
  BY DEF DurableInv, Queued
<1>3. /\ writes' \in Seq(Queued)
      /\ Len(writes') = Len(writes) + 1
      /\ writes'[Len(writes) + 1] = w
      /\ \A i \in 1..Len(writes) : writes'[i] = writes[i]
  BY <1>1, <1>2, AppendProperties
<1>4. Len(writes) \in Nat /\ DOMAIN writes = 1..Len(writes)
      /\ DOMAIN writes' = 1..(Len(writes) + 1)
  BY <1>2, <1>3, LenProperties
<1>5. ASSUME NEW i \in DOMAIN writes' PROVE writes'[i].snap = settings' - Len(writes') + i
  <2>1. CASE i = Len(writes) + 1
    BY <2>1, <1>1, <1>3, <1>4 DEF DurableInv
  <2>2. CASE i \in 1..Len(writes)
    BY <2>2, <1>1, <1>3, <1>4 DEF DurableInv
  <2> QED BY <2>1, <2>2, <1>4, <1>5
<1>6. writes' # <<>>
  BY <1>3, <1>4
<1> QED BY <1>1, <1>3, <1>4, <1>5, <1>6 DEF DurableInv, Queued

\* A write settles: the head leaves the queue, and is ahead of the file.
LEMMA WriteKeepsDurableInv ==
  ASSUME DurableInv, WriteEnds
  PROVE  DurableInv' /\ disk' \in disk..settings /\ settings' = settings
<1>1. PICK ok \in BOOLEAN : WriteSettles(ok)
  BY DEF WriteEnds
<1>2. /\ writes # <<>> /\ writes \in Seq(Queued)
      /\ writes' = Tail(writes) /\ settings' = settings /\ told' = told /\ stored' = ok
      /\ disk' = IF ok THEN Head(writes).snap ELSE disk
  BY <1>1 DEF WriteSettles, DurableInv, WriteEnds, Queued
<1>3. /\ Head(writes) = writes[1]
      /\ writes' \in Seq(Queued)
      /\ Len(writes') = Len(writes) - 1
      /\ \A i \in 1..Len(writes') : writes'[i] = writes[i + 1]
  BY <1>2, HeadTailProperties
<1>4. /\ Len(writes) \in Nat \ {0} /\ DOMAIN writes = 1..Len(writes)
      /\ DOMAIN writes' = 1..(Len(writes) - 1)
  BY <1>2, <1>3, LenProperties, EmptySeq
<1>5. Head(writes).snap = settings - Len(writes) + 1
  BY <1>3, <1>4 DEF DurableInv
<1>6. disk' \in Nat /\ disk <= disk' /\ disk' + Len(writes') <= settings
  BY <1>2, <1>3, <1>4, <1>5 DEF DurableInv
<1>7. ASSUME NEW i \in DOMAIN writes' PROVE writes'[i].snap = settings' - Len(writes') + i
  <2>1. i \in 1..(Len(writes) - 1) /\ i + 1 \in DOMAIN writes
    BY <1>4, <1>7
  <2>2. writes'[i] = writes[i + 1]
    BY <2>1, <1>3, <1>4
  <2>3. writes[i + 1].snap = settings - Len(writes) + (i + 1)
    BY <2>1 DEF DurableInv
  <2>4. settings \in Nat
    BY DEF DurableInv
  <2>5. settings - Len(writes) + (i + 1) = settings - (Len(writes) - 1) + i
    BY <2>1, <2>4, <1>4
  <2> QED BY <2>2, <2>3, <2>5, <1>2, <1>3
<1>8. ASSUME writes' = <<>>, stored' PROVE disk' = settings'
  <2>1. Len(writes) = 1
    BY <1>8, <1>3, <1>4
  <2> QED BY <2>1, <1>8, <1>2, <1>5 DEF DurableInv
<1>9. disk' \in disk..settings /\ told <= disk'
  BY <1>3, <1>4, <1>6 DEF DurableInv
<1> QED BY <1>2, <1>3, <1>6, <1>7, <1>8, <1>9 DEF DurableInv, Queued

\* A restart empties the queue, and the file is at most one write further.
LEMMA RestartKeepsDurableInv ==
  ASSUME DurableInv, ProcessRestarts
  PROVE  DurableInv' /\ disk' \in disk..settings
<1>1. /\ disk' \in {disk} \union {writes[i].snap : i \in DOMAIN writes \intersect {1}}
      /\ settings' = disk' /\ writes' = <<>> /\ stored' = TRUE /\ told' = told
  BY DEF ProcessRestarts
<1>2. writes \in Seq(Queued) /\ Len(writes) \in Nat /\ DOMAIN writes = 1..Len(writes)
  BY LenProperties DEF DurableInv, Queued
<1>3. disk' \in Nat /\ disk <= disk' /\ disk' <= settings
  <2>1. CASE disk' = disk
    BY <2>1, <1>2 DEF DurableInv
  <2>2. CASE \E i \in DOMAIN writes \intersect {1} : disk' = writes[i].snap
    BY <2>2, <1>2 DEF DurableInv
  <2> QED BY <2>1, <2>2, <1>1
<1>4. /\ writes' \in Seq(Queued) /\ Len(writes') = 0 /\ DOMAIN writes' = {}
  BY <1>1
<1>5. /\ disk \in Nat /\ settings \in Nat /\ told \in Nat /\ told <= disk
  BY DEF DurableInv
<1>6. /\ settings' \in Nat /\ told' \in Nat /\ told' <= disk'
      /\ disk' + Len(writes') <= settings' /\ disk' = settings'
  <2>1. settings' = disk' /\ told' = told
    BY <1>1, Zenon
  <2>2. settings' \in Nat /\ told' \in Nat /\ disk' = settings'
    BY <2>1, <1>3, <1>5
  <2>3. told' <= disk'
    BY <2>1, <1>3, <1>5
  <2>4. disk' + Len(writes') <= settings'
    <3>1. Len(writes') \in Nat /\ Len(writes') <= 0
      BY <1>4
    <3> QED BY <3>1, <2>2, NothingToAdd
  <2> QED BY <2>2, <2>3, <2>4
<1>9. stored' \in BOOLEAN
  BY <1>1, Zenon
<1>7. disk' \in disk..settings
  BY <1>3, <1>5
<1>8. DurableInv'
  BY <1>3, <1>4, <1>6, <1>9 DEF DurableInv, Queued
<1> QED BY <1>7, <1>8

\* A caller is told of the file, or of the settings when nothing is queued.
LEMMA ReturnKeepsDurableInv ==
  ASSUME DurableInv, PatchReturns \/ WaitReturns
  PROVE  DurableInv' /\ told' \in told..disk /\ settings' = settings /\ disk' = disk
<1>1. /\ settings' = settings /\ disk' = disk /\ stored' = stored /\ writes' = writes
      /\ told' = disk
  BY DEF PatchReturns, WaitReturns, Persisted, storeVars, DurableInv
<1> QED BY <1>1 DEF DurableInv

\* The writes in flight are the latest snapshots in their order, the file is
\* behind them, and a caller is never told more than the file holds
\* (SettingsStore.ts:99-108).
THEOREM DurableInvHolds == DurableSpec => []DurableInv
<1>1. DurableInv /\ [DurableNext]_durableVars => DurableInv'
  <2> SUFFICES ASSUME DurableInv, [DurableNext]_durableVars PROVE DurableInv'
    OBVIOUS
  <2>1. CASE PatchSettings
    BY <2>1, PatchKeepsDurableInv
  <2>2. CASE WriteEnds
    BY <2>2, WriteKeepsDurableInv
  <2>3. CASE PatchReturns \/ WaitReturns
    BY <2>3, ReturnKeepsDurableInv
  <2>4. CASE ProcessRestarts
    BY <2>4, RestartKeepsDurableInv
  <2>5. CASE UNCHANGED durableVars
    BY <2>5 DEF durableVars, storeVars, DurableInv
  <2> QED BY <2>1, <2>2, <2>3, <2>4, <2>5 DEF DurableNext
<1> QED BY <1>1, DurableInvInit, PTL DEF DurableSpec

\* Every step of the store is a step of the register or a stutter.
LEMMA StepOfRegister ==
  ASSUME DurableInv, DurableInv', [DurableNext]_durableVars
  PROVE  [Contract!RegisterNext]_(Contract!register)
<1> USE DEF Contract!RegisterNext, Contract!register
<1>1. CASE PatchSettings
  BY <1>1 DEF PatchSettings, Patches, Contract!Write
<1>2. CASE WriteEnds
  <2>1. told' = told
    BY <1>2 DEF WriteEnds
  <2>2. disk' \in disk..settings /\ settings' = settings
    BY <1>2, WriteKeepsDurableInv
  <2> QED BY <2>1, <2>2 DEF Contract!Store, DurableInv
<1>3. CASE PatchReturns \/ WaitReturns
  BY <1>3, ReturnKeepsDurableInv DEF Contract!Acknowledge
<1>4. CASE ProcessRestarts
  <2>1. disk' \in disk..settings
    BY <1>4, RestartKeepsDurableInv
  <2> QED BY <1>4, <2>1 DEF ProcessRestarts, Contract!Restart
<1>5. CASE UNCHANGED durableVars
  BY <1>5 DEF durableVars, storeVars
<1> QED BY <1>1, <1>2, <1>3, <1>4, <1>5 DEF DurableNext

\* The store implements the register: settings.json never goes back, and
\* holds what any caller of patch() or waitForPersistence() was told of, for
\* any number of patches, failures and restarts (SettingsStore.ts:80-108).
THEOREM StoreImplementsRegister == DurableSpec => ImplementsRegister
<1>1. DurableInit => Contract!RegisterInit
  BY DEF DurableInit, Loaded, Contract!RegisterInit
<1>2. DurableInv /\ DurableInv' /\ [DurableNext]_durableVars
        => [Contract!RegisterNext]_(Contract!register)
  BY StepOfRegister
<1> QED BY <1>1, <1>2, DurableInvHolds, PTL
    DEF DurableSpec, ImplementsRegister, Contract!RegisterSpec

-----------------------------------------------------------------------------
(* The files of the subscriptions *)

Write == [kind : {"input", "delete", "index"}, id : FileIds \union {Nobody}]

Operation ==
  [op : {"none", "ended", "load", "add", "remove"}, id : FileIds \union {Nobody},
   writes : Seq(Write)]

FilesTypeOK ==
  /\ index \subseteq FileIds /\ listed \subseteq FileIds /\ spare \subseteq FileIds
  /\ doing \in Operation

\* A source whose removal returned is nowhere anymore, not even in the index
\* that the next start reads, unless the migration brings it back.
RemovedStayOut ==
  /\ gone \intersect SourcesOf(listed) \subseteq {legacy}
  /\ gone \intersect SourcesOf(index) \subseteq {legacy}
  /\ spare \intersect (listed \union index) = {}

\* What was added and not removed can be read back: from the list in memory,
\* while there is one, and from the index, wherever the process ends.
AddedCanBeRead ==
  /\ doing # Ended => kept \subseteq SourcesOf(listed \intersect inputs)
  /\ kept \subseteq SourcesOf(index \intersect inputs)

\* A load deletes the inputs of duplicates only, and while it does the index
\* still has whatever the list has.
LoadInv ==
  doing.op = "load" =>
    /\ doing # Ended
    /\ \A n \in DOMAIN doing.writes : doing.writes[n].kind = "delete" =>
         listed \subseteq index /\ doing.writes[n].id \notin listed

\* An addition returns with its input and its index written.
AddInv ==
  doing.op = "add" =>
    /\ doing.id \in listed
    /\ \/ doing.writes = <<File("input", doing.id), Index>>
       \/ doing.writes = <<Index>> /\ doing.id \in inputs

\* A removal owes nobody the source of its entry, and ends with the index.
RemoveInv ==
  doing.op = "remove" =>
    /\ doing.id \notin listed \union spare /\ FileSource[doing.id] \notin kept
    /\ doing.writes \in {<<File("delete", doing.id), Index>>, <<Index>>}

FilesInv ==
  /\ FilesTypeOK /\ RemovedStayOut /\ AddedCanBeRead
  /\ doing.op \in {"none", "ended"} => doing \in {Idle, Ended}
  /\ LoadInv /\ AddInv /\ RemoveInv

LEMMA FilesInvInit ==
  ASSUME FilesInit
  PROVE  FilesInv
<1>1. doing = Ended /\ Ended.op = "ended" /\ index \subseteq FileIds
  BY DEF FilesInit, Ended, Running
<1>2. FilesTypeOK
  BY <1>1 DEF FilesInit, FilesTypeOK, Operation, Ended, Running
<1>3. RemovedStayOut /\ AddedCanBeRead
  BY DEF FilesInit, RemovedStayOut, AddedCanBeRead
<1>. QED  BY <1>1, <1>2, <1>3 DEF FilesInv, LoadInv, AddInv, RemoveInv

LEMMA FileWrites ==
  ASSUME NEW kind \in {"input", "delete"}, NEW id \in FileIds
  PROVE  /\ File(kind, id) \in Write
         /\ File(kind, id).kind = kind /\ File(kind, id).id = id
  BY DEF File, Write

LEMMA IndexWrite == Index \in Write /\ Index.kind = "index"
  BY DEF File, Index, Write

LEMMA LoadKeepsFiles ==
  ASSUME FilesInv, NEW left \in SUBSET index, NEW order \in Seq(FileIds),
         LoadsEntries(left, order)
  PROVE  FilesInv'
<1>. DEFINE deletes == [n \in DOMAIN order |-> File("delete", order[n])]
            rest == deletes \o <<Index>>
<1>1. /\ deletes \in Seq(Write) /\ <<Index>> \in Seq(Write)
      /\ Len(deletes) = Len(order) /\ DOMAIN order = 1..Len(order)
  <2>1. \A n \in 1..Len(order) : order[n] \in FileIds /\ File("delete", order[n]) \in Write
    BY FileWrites
  <2>2. deletes \in [1..Len(order) -> Write] /\ DOMAIN order = 1..Len(order)
    BY <2>1
  <2>3. deletes \in Seq(Write) /\ Len(deletes) = Len(order)
    BY <2>2
  <2>. QED  BY <2>2, <2>3, IndexWrite
<1>2. /\ rest \in Seq(Write) /\ Len(rest) = Len(order) + 1
      /\ \A n \in 1..Len(order) : rest[n] = File("delete", order[n])
      /\ rest[Len(order) + 1] = Index
  BY <1>1
<1>3. ASSUME NEW n \in DOMAIN rest, rest[n].kind = "delete"
      PROVE  rest[n].id \in index \ left
  <2>1. n \in 1..Len(order)
    BY <1>2, <1>3, IndexWrite
  <2>2. order[n] \in index \ left /\ order[n] \in FileIds
    BY <1>1, <2>1 DEF LoadsEntries
  <2>. QED  BY <1>2, <2>1, <2>2, FileWrites
<1>4. doing' = Running("load", Nobody, rest)
  BY DEF LoadsEntries
<1>. HIDE DEF rest, deletes
<1>5. doing' \in Operation /\ doing' # Ended /\ doing'.op = "load" /\ doing'.writes = rest
  BY <1>2, <1>4 DEF Running, Operation, Ended
<1>6. listed' = left /\ UNCHANGED <<index, inputs, spare, legacy, kept, gone>>
  BY DEF LoadsEntries
<1>7. FilesTypeOK' /\ RemovedStayOut'
  <2>1. SourcesOf(left) \subseteq SourcesOf(index)
    BY DEF SourcesOf
  <2>. QED  BY <1>5, <1>6, <2>1 DEF FilesInv, FilesTypeOK, RemovedStayOut
<1>8. SourcesOf(left \intersect inputs) = SourcesOf(index \intersect inputs)
  BY DEF LoadsEntries, Deduplicated
<1>9. AddedCanBeRead'
  BY <1>6, <1>8 DEF FilesInv, AddedCanBeRead, SourcesOf
<1>10. LoadInv'
  BY <1>3, <1>5, <1>6 DEF LoadInv
<1>. QED  BY <1>5, <1>7, <1>9, <1>10 DEF FilesInv, AddInv, RemoveInv

LEMMA MigrationKeepsFiles ==
  ASSUME FilesInv, NEW i \in FileIds, Migrates(i)
  PROVE  FilesInv'
<1>. DEFINE rest == <<File("input", i), Index, Index>>
<1>1. rest \in Seq(Write) /\ \A n \in DOMAIN rest : rest[n].kind # "delete"
  BY FileWrites, IndexWrite
<1>2. doing' = Running("load", i, rest)
  BY DEF Migrates
<1>. HIDE DEF rest
<1>3. doing' \in Operation /\ doing' # Ended /\ doing'.op = "load" /\ doing'.writes = rest
  BY <1>1, <1>2 DEF Running, Operation, Ended
<1>4. /\ listed' = {i} /\ spare' = spare \ {i} /\ i \in spare /\ index = {}
      /\ UNCHANGED <<index, inputs, legacy, kept, gone>>
  BY DEF Migrates
<1>5. FilesTypeOK' /\ RemovedStayOut'
  <2>1. SourcesOf(listed') = {legacy}
    BY <1>4 DEF Migrates, SourcesOf
  <2>. QED  BY <1>3, <1>4, <2>1 DEF FilesInv, FilesTypeOK, RemovedStayOut
<1>6. kept = {}
  BY <1>4 DEF FilesInv, AddedCanBeRead, SourcesOf
<1>7. AddedCanBeRead'
  BY <1>4, <1>6 DEF AddedCanBeRead
<1>8. LoadInv'
  BY <1>1, <1>3 DEF LoadInv
<1>. QED  BY <1>3, <1>5, <1>7, <1>8 DEF FilesInv, AddInv, RemoveInv

LEMMA AddKeepsFiles ==
  ASSUME FilesInv, NEW i \in FileIds, AddsEntry(i)
  PROVE  FilesInv'
<1>1. <<File("input", i), Index>> \in Seq(Write)
  BY FileWrites, IndexWrite
<1>2. doing' = Running("add", i, <<File("input", i), Index>>)
  BY DEF AddsEntry
<1>3. /\ doing' \in Operation /\ doing'.op = "add" /\ doing'.id = i
      /\ doing'.writes = <<File("input", i), Index>>
  BY <1>1, <1>2 DEF Running, Operation, Ended
<1>4. /\ listed' = listed \union {i} /\ spare' = spare \ {i} /\ i \in spare
      /\ gone' = gone \ {FileSource[i]}
      /\ doing = Idle /\ UNCHANGED <<index, inputs, legacy, kept>>
  BY DEF AddsEntry
<1>5. FilesTypeOK' /\ RemovedStayOut'
  <2>1. SourcesOf(listed') = SourcesOf(listed) \union {FileSource[i]}
    BY <1>4 DEF SourcesOf
  <2>. QED  BY <1>3, <1>4, <2>1 DEF FilesInv, FilesTypeOK, RemovedStayOut
<1>6. AddedCanBeRead'
  <2>1. doing # Ended
    BY <1>4 DEF Idle, Ended, Running
  <2>. QED  BY <1>4, <2>1 DEF FilesInv, AddedCanBeRead, SourcesOf
<1>7. AddInv'
  BY <1>3, <1>4 DEF AddInv
<1>. QED  BY <1>3, <1>5, <1>6, <1>7 DEF FilesInv, LoadInv, RemoveInv

LEMMA RemovalKeepsFiles ==
  ASSUME FilesInv, NEW i \in FileIds, RemovesEntry(i)
  PROVE  FilesInv'
<1>1. <<File("delete", i), Index>> \in Seq(Write)
  BY FileWrites, IndexWrite
<1>2. doing' = Running("remove", i, <<File("delete", i), Index>>)
  BY DEF RemovesEntry
<1>3. /\ doing' \in Operation /\ doing'.op = "remove" /\ doing'.id = i
      /\ doing'.writes = <<File("delete", i), Index>>
  BY <1>1, <1>2 DEF Running, Operation, Ended
<1>4. /\ listed' = listed \ {i} /\ i \in listed /\ kept' = kept \ {FileSource[i]}
      /\ doing = Idle /\ UNCHANGED <<index, inputs, spare, legacy, gone>>
  BY DEF RemovesEntry
<1>5. FilesTypeOK' /\ RemovedStayOut'
  <2>1. SourcesOf(listed') \subseteq SourcesOf(listed)
    BY <1>4 DEF SourcesOf
  <2>. QED  BY <1>3, <1>4, <2>1 DEF FilesInv, FilesTypeOK, RemovedStayOut
<1>6. AddedCanBeRead'
  <2>1. doing # Ended
    BY <1>4 DEF Idle, Ended, Running
  <2>. QED  BY <1>4, <2>1 DEF FilesInv, AddedCanBeRead, SourcesOf
<1>7. RemoveInv'
  BY <1>3, <1>4 DEF FilesInv, RemovedStayOut, RemoveInv
<1>. QED  BY <1>3, <1>5, <1>6, <1>7 DEF FilesInv, LoadInv, AddInv

\* What one write leaves of an operation: none, or the same with the rest.
LEMMA OneWriteLess ==
  ASSUME FilesInv, Writes
  PROVE  /\ doing # Ended /\ doing # Idle /\ doing' \in Operation /\ doing' # Ended
         /\ Len(doing.writes) = 1 => doing' = Idle
         /\ Len(doing.writes) # 1 =>
              doing'.op = doing.op /\ doing'.id = doing.id /\ doing'.writes = Tail(doing.writes)
<1>. USE DEF Operation
<1>1. doing \in Operation /\ doing.writes # <<>>
  BY DEF FilesInv, FilesTypeOK, Writes
<1>2. doing # Ended /\ doing # Idle
  BY <1>1 DEF Ended, Idle, Running
<1>3. doing.op \in {"load", "add", "remove"}
  BY <1>1, <1>2 DEF FilesInv
<1>4. CASE Len(doing.writes) = 1
  <2>1. doing' = Idle
    BY <1>4 DEF Writes
  <2>. QED  BY <1>2, <1>4, <2>1 DEF Idle, Ended, Running
<1>5. CASE Len(doing.writes) # 1
  <2>1. doing' = [doing EXCEPT !.writes = Tail(@)]
    BY <1>5 DEF Writes
  <2>2. Tail(doing.writes) \in Seq(Write)
    BY <1>1
  <2>3. /\ doing' \in Operation /\ doing'.op = doing.op /\ doing'.id = doing.id
        /\ doing'.writes = Tail(doing.writes)
    BY <1>1, <2>1, <2>2
  <2>. QED  BY <1>2, <1>3, <1>5, <2>3 DEF Ended, Running
<1>. QED  BY <1>4, <1>5

\* The write whose turn it is, and the lists it leaves alone.
LEMMA TheWrite ==
  ASSUME FilesInv, Writes
  PROVE  LET w == Head(doing.writes) IN
         /\ w = doing.writes[1] /\ 1 \in DOMAIN doing.writes
         /\ UNCHANGED <<listed, spare, legacy>>
         /\ index' = IF w.kind = "index" THEN listed ELSE index
         /\ w.kind = "delete" => inputs' = inputs \ {w.id}
         /\ w.kind = "input" => inputs' = inputs \union {w.id}
         /\ w.kind = "index" => inputs' = inputs
         /\ w.kind \in {"input", "delete", "index"}
         /\ doing.op # "add" => kept' = kept
         /\ doing.op # "remove" => gone' = gone
<1>1. doing.writes \in Seq(Write) /\ doing.writes # <<>>
  BY DEF FilesInv, FilesTypeOK, Operation, Writes
<1>2. Head(doing.writes) = doing.writes[1] /\ 1 \in DOMAIN doing.writes
  BY <1>1
<1>3. doing.writes[1] \in Write
  BY <1>1, <1>2
<1>4. Head(doing.writes).kind \in {"input", "delete", "index"}
  BY <1>2, <1>3 DEF Write
<1>. QED  BY <1>2, <1>4 DEF Writes

\* A write of an operation that goes on with the rest.
LEMMA WritesOfLoad ==
  ASSUME FilesInv, Writes, doing.op = "load"
  PROVE  FilesInv'
<1>. DEFINE w == Head(doing.writes)
<1>1. /\ w = doing.writes[1] /\ 1 \in DOMAIN doing.writes
      /\ UNCHANGED <<listed, spare, legacy, kept, gone>>
      /\ index' = IF w.kind = "index" THEN listed ELSE index
      /\ w.kind = "delete" => inputs' = inputs \ {w.id}
      /\ w.kind = "input" => inputs' = inputs \union {w.id}
      /\ w.kind = "index" => inputs' = inputs
      /\ w.kind \in {"input", "delete", "index"}
  BY TheWrite
<1>. HIDE DEF w
<1>2. /\ w.kind = "delete" => listed \subseteq index /\ w.id \notin listed
      /\ doing # Ended
  BY <1>1 DEF FilesInv, LoadInv
<1>3. FilesTypeOK'
  BY <1>1, OneWriteLess DEF FilesInv, FilesTypeOK
<1>4. RemovedStayOut'
  BY <1>1 DEF FilesInv, RemovedStayOut
<1>5. AddedCanBeRead'
  <2>. USE DEF FilesInv, AddedCanBeRead, SourcesOf
  <2>1. CASE w.kind = "delete"
    <3>1. listed \intersect inputs' = listed \intersect inputs /\ index' = index
      BY <1>1, <1>2, <2>1
    <3>2. kept' \subseteq SourcesOf(listed' \intersect inputs')
      BY <1>1, <1>2, <3>1
    <3>. QED  BY <1>1, <1>2, <2>1, <3>1, <3>2
  <2>2. CASE w.kind = "input"
    BY <1>1, <1>2, <2>2
  <2>3. CASE w.kind = "index"
    BY <1>1, <1>2, <2>3
  <2>. QED  BY <1>1, <2>1, <2>2, <2>3
<1>6. CASE Len(doing.writes) = 1
  <2>1. doing' = Idle
    BY <1>6, OneWriteLess
  <2>. QED  BY <1>3, <1>4, <1>5, <2>1 DEF FilesInv, LoadInv, AddInv, RemoveInv, Idle, Running
<1>7. CASE Len(doing.writes) # 1
  <2>1. doing'.op = "load" /\ doing' # Ended /\ doing'.writes = Tail(doing.writes)
    BY <1>7, OneWriteLess
  <2>2. ASSUME NEW n \in DOMAIN doing'.writes, doing'.writes[n].kind = "delete"
        PROVE  listed' \subseteq index' /\ doing'.writes[n].id \notin listed'
    <3>1. doing.writes \in Seq(Write) /\ doing.writes # <<>>
      BY DEF FilesInv, FilesTypeOK, Operation, Writes
    <3>2. n + 1 \in DOMAIN doing.writes /\ doing'.writes[n] = doing.writes[n + 1]
      BY <2>1, <2>2, <3>1
    <3>3. listed \subseteq index /\ doing'.writes[n].id \notin listed
      BY <2>2, <3>2 DEF FilesInv, LoadInv
    <3>. QED  BY <1>1, <3>3
  <2>3. LoadInv'
    BY <2>1, <2>2 DEF LoadInv
  <2>. QED  BY <1>3, <1>4, <1>5, <2>1, <2>3 DEF FilesInv, AddInv, RemoveInv
<1>. QED  BY <1>6, <1>7

LEMMA WritesOfAdd ==
  ASSUME FilesInv, Writes, doing.op = "add"
  PROVE  FilesInv'
<1>1. FilesTypeOK'
  BY TheWrite, OneWriteLess DEF FilesInv, FilesTypeOK
<1>2. doing.id \in listed /\ doing # Ended /\ gone' = gone
  BY TheWrite, OneWriteLess DEF FilesInv, AddInv
<1>3. RemovedStayOut'
  BY <1>2, TheWrite DEF FilesInv, RemovedStayOut
<1>4. CASE doing.writes = <<File("input", doing.id), Index>>
  <2>1. /\ Len(doing.writes) # 1 /\ Head(doing.writes) = File("input", doing.id)
        /\ Tail(doing.writes) = <<Index>>
        /\ Head(doing.writes).kind = "input" /\ Head(doing.writes).id = doing.id
    BY <1>4 DEF File
  <2>2. /\ inputs' = inputs \union {doing.id} /\ UNCHANGED <<listed, index>>
        /\ doing'.op = "add" /\ doing'.id = doing.id /\ doing'.writes = <<Index>>
    BY <2>1, TheWrite, OneWriteLess
  <2>3. kept' = kept
    BY <2>1 DEF Writes
  <2>4. AddedCanBeRead'
    BY <1>2, <2>2, <2>3 DEF FilesInv, AddedCanBeRead, SourcesOf
  <2>. QED  BY <1>1, <1>2, <1>3, <2>2, <2>4 DEF FilesInv, LoadInv, AddInv, RemoveInv
<1>5. CASE doing.writes = <<Index>> /\ doing.id \in inputs
  <2>1. Len(doing.writes) = 1 /\ Head(doing.writes) = Index
    BY <1>5
  <2>2. inputs' = inputs /\ index' = listed /\ listed' = listed /\ doing' = Idle
    BY <2>1, TheWrite, OneWriteLess, IndexWrite
  <2>3. kept' = kept \union {FileSource[doing.id]}
    BY <2>1 DEF Writes
  <2>4. AddedCanBeRead'
    BY <1>2, <1>5, <2>2, <2>3 DEF FilesInv, AddedCanBeRead, SourcesOf
  <2>. QED  BY <1>1, <1>3, <2>2, <2>4 DEF FilesInv, LoadInv, AddInv, RemoveInv, Idle, Running
<1>. QED  BY <1>4, <1>5 DEF FilesInv, AddInv

LEMMA WritesOfRemove ==
  ASSUME FilesInv, Writes, doing.op = "remove"
  PROVE  FilesInv'
<1>1. FilesTypeOK'
  BY TheWrite, OneWriteLess DEF FilesInv, FilesTypeOK
<1>2. /\ doing.id \notin listed \union spare /\ FileSource[doing.id] \notin kept
      /\ doing # Ended /\ kept' = kept /\ UNCHANGED <<listed, spare, legacy>>
  BY TheWrite, OneWriteLess DEF FilesInv, RemoveInv
<1>3. CASE doing.writes = <<File("delete", doing.id), Index>>
  <2>1. /\ Len(doing.writes) # 1 /\ Head(doing.writes) = File("delete", doing.id)
        /\ Tail(doing.writes) = <<Index>>
        /\ Head(doing.writes).kind = "delete" /\ Head(doing.writes).id = doing.id
    BY <1>3 DEF File
  <2>2. /\ inputs' = inputs \ {doing.id} /\ index' = index
        /\ doing'.op = "remove" /\ doing'.id = doing.id /\ doing'.writes = <<Index>>
    BY <2>1, TheWrite, OneWriteLess
  <2>3. gone' = gone
    BY <2>1 DEF Writes
  <2>4. AddedCanBeRead'
    BY <1>2, <2>2 DEF FilesInv, AddedCanBeRead, SourcesOf
  <2>5. RemovedStayOut'
    BY <1>2, <2>2, <2>3 DEF FilesInv, RemovedStayOut
  <2>. QED  BY <1>1, <1>2, <2>2, <2>4, <2>5 DEF FilesInv, LoadInv, AddInv, RemoveInv
<1>4. CASE doing.writes = <<Index>>
  <2>1. Len(doing.writes) = 1 /\ Head(doing.writes) = Index
    BY <1>4
  <2>2. inputs' = inputs /\ index' = listed /\ doing' = Idle
    BY <2>1, TheWrite, OneWriteLess, IndexWrite
  <2>3. gone' = gone \union ({FileSource[doing.id]} \ SourcesOf(listed))
    BY <2>1 DEF Writes
  <2>4. AddedCanBeRead'
    BY <1>2, <2>2 DEF FilesInv, AddedCanBeRead
  <2>5. RemovedStayOut'
    BY <1>2, <2>2, <2>3 DEF FilesInv, RemovedStayOut
  <2>. QED  BY <1>1, <2>2, <2>4, <2>5 DEF FilesInv, LoadInv, AddInv, RemoveInv, Idle, Running
<1>. QED  BY <1>3, <1>4 DEF FilesInv, RemoveInv

\* The process ends between two writes, or while the index is written.
LEMMA EndKeepsFiles ==
  ASSUME FilesInv, Ends
  PROVE  FilesInv'
<1>0. SourcesOf({}) = {}
  BY DEF SourcesOf
<1>1. /\ doing' = Ended /\ listed' = {} /\ UNCHANGED <<inputs, spare, legacy, gone>>
      /\ \/ UNCHANGED <<index, kept>>
         \/ index' = {} /\ kept' = {}
  BY DEF Ends
<1>2. Ended \in Operation /\ Ended.op = "ended"
  BY DEF Ended, Running, Operation
<1>3. FilesTypeOK' /\ RemovedStayOut' /\ AddedCanBeRead'
  BY <1>0, <1>1, <1>2 DEF FilesInv, FilesTypeOK, RemovedStayOut, AddedCanBeRead
<1>. QED  BY <1>1, <1>2, <1>3 DEF FilesInv, LoadInv, AddInv, RemoveInv

\* Between whatever two writes the process ends, and however often it does, a
\* start finds a usable entry for the source of every addition that returned,
\* and none of a source that was removed and not added since, but for the one
\* the migration creates again (SubscriptionStore.ts:78-113, 153-190, 234-239).
THEOREM FilesKeepTheList == FilesSpec => []ListSurvives
<1>1. FilesInit => FilesInv
  BY FilesInvInit
<1>2. FilesInv /\ [FilesNext]_fileVars => FilesInv'
  <2>. SUFFICES ASSUME FilesInv, [FilesNext]_fileVars
                PROVE  FilesInv'
    OBVIOUS
  <2>1. ASSUME NEW left \in SUBSET index, NEW order \in Orders, LoadsEntries(left, order)
        PROVE  FilesInv'
    <3>1. order = <<>> \/ \E i \in FileIds : order = <<i>>
      BY DEF Orders
    <3>2. order \in Seq(FileIds)
      <4>1. \A i \in FileIds : <<i>> \in Seq(FileIds)
        OBVIOUS
      <4>2. <<>> \in Seq(FileIds)
        OBVIOUS
      <4>3. CASE order = <<>>
        BY <4>2, <4>3
      <4>4. CASE order # <<>>
        <5>1. PICK i \in FileIds : order = <<i>>
          BY <3>1, <4>4
        <5>. QED  BY <4>1, <5>1
      <4>. QED  BY <4>3, <4>4
    <3>. QED  BY <2>1, <3>2, LoadKeepsFiles
  <2>2. CASE \E i \in FileIds : Migrates(i) \/ AddsEntry(i) \/ RemovesEntry(i)
    BY <2>2, MigrationKeepsFiles, AddKeepsFiles, RemovalKeepsFiles
  <2>3. CASE Writes
    <3>1. doing # Ended /\ doing # Idle /\ doing \in Operation
      BY <2>3, OneWriteLess DEF FilesInv, FilesTypeOK
    <3>2. doing.op \in {"load", "add", "remove"}
      BY <3>1 DEF FilesInv, Operation
    <3>. QED  BY <2>3, <3>2, WritesOfLoad, WritesOfAdd, WritesOfRemove
  <2>4. CASE UNCHANGED fileVars
    BY <2>4 DEF fileVars, FilesInv, FilesTypeOK, RemovedStayOut, AddedCanBeRead, LoadInv,
       AddInv, RemoveInv
  <2>. QED  BY <2>1, <2>2, <2>3, <2>4, EndKeepsFiles DEF FilesNext
<1>3. FilesInv => ListSurvives
  BY DEF FilesInv, AddedCanBeRead, RemovedStayOut, ListSurvives
<1>. QED  BY <1>1, <1>2, <1>3, PTL DEF FilesSpec

-----------------------------------------------------------------------------
(* The mirrored store *)

MirrorTypeOK ==
  /\ localValue \in Nat /\ mirrorValue \in Nat /\ lastSet \in Nat /\ newest \in Nat
  /\ edition \in Nat /\ mutations \in Seq(Nat) /\ doubtful \in BOOLEAN
  /\ reading \in Read \union {NoRead}

\* The mirror is at, or on its way to, the value wanted now.
MirrorFollows ==
  IF mutations = <<>> THEN mirrorValue = newest ELSE mutations[Len(mutations)] = newest

\* A read that nothing overtook began when no write was under way, so what it
\* found is still wanted.
ReadIsCurrent ==
  reading # NoRead /\ edition = reading.from =>
    mutations = <<>> /\ reading.value \in {Absent, newest}

MirrorInv ==
  /\ MirrorTypeOK
  /\ reading # NoRead => reading.from <= edition
  /\ ~doubtful => MirrorFollows /\ ReadIsCurrent /\ localValue \in {Absent, newest}

LEMMA MirrorInvInit ==
  ASSUME MirrorInit
  PROVE  MirrorInv
<1>1. MirrorTypeOK
  <2>1. localValue \in Nat /\ mutations \in Seq(Nat) /\ reading = NoRead
    BY DEF MirrorInit, Absent
  <2>. QED  BY <2>1 DEF MirrorInit, MirrorTypeOK
<1>2. reading = NoRead /\ MirrorFollows /\ localValue \in {Absent, newest}
  BY DEF MirrorInit, MirrorFollows
<1>. QED  BY <1>1, <1>2 DEF MirrorInv, ReadIsCurrent

LEMMA MirrorInvStep ==
  ASSUME MirrorInv, [MirrorNext]_mirrorVars
  PROVE  MirrorInv'
<1>. USE MirrorAssumption DEF MirrorInv, MirrorTypeOK, Absent
<1>1. ASSUME NEW v \in Nat, edition' = edition + 1, newest' = v, lastSet' \in Nat,
             mutations' = Append(mutations, v), UNCHANGED <<mirrorValue, reading>>,
             doubtful' \in BOOLEAN, localValue' \in Nat,
             ~doubtful' => ~doubtful /\ localValue' \in {Absent, v}
      PROVE  MirrorInv'
  <2>1. /\ mutations' \in Seq(Nat) /\ mutations' # <<>>
        /\ mutations'[Len(mutations')] = v
    BY <1>1
  <2>2. reading # NoRead => reading.from \in Nat /\ reading.from < edition'
    BY <1>1 DEF Read
  <2>3. MirrorFollows' /\ ReadIsCurrent'
    BY <1>1, <2>1, <2>2 DEF MirrorFollows, ReadIsCurrent
  <2>. QED  BY <1>1, <2>1, <2>2, <2>3
<1>2. ASSUME NEW ok \in BOOLEAN, Sets(ok)
      PROVE  MirrorInv'
  <2>1. lastSet + 1 \in Nat
    OBVIOUS
  <2>. QED  BY <1>1, <1>2, <2>1 DEF Sets
<1>3. CASE Removes
  BY <1>1, <1>3 DEF Removes
<1>4. ASSUME NEW ok \in BOOLEAN, MutationSettles(ok)
      PROVE  MirrorInv'
  <2>1. /\ mutations # <<>> /\ mutations' = Tail(mutations) /\ mutations' \in Seq(Nat)
        /\ Head(mutations) \in Nat /\ mirrorValue' \in Nat
        /\ UNCHANGED <<localValue, edition, reading, lastSet, newest>>
    BY <1>4 DEF MutationSettles
  <2>2. Len(mutations) = 1 => mutations' = <<>> /\ Head(mutations) = mutations[Len(mutations)]
    BY <2>1
  <2>3. Len(mutations) # 1 => mutations' # <<>> /\ mutations'[Len(mutations')] = mutations[Len(mutations)]
    <3>1. /\ Len(mutations) \in Nat \ {0} /\ Len(mutations') = Len(mutations) - 1
          /\ \A n \in 1..Len(mutations') : mutations'[n] = mutations[n + 1]
      BY <2>1, HeadTailProperties
    <3>2. ASSUME Len(mutations) # 1
          PROVE  mutations' # <<>> /\ mutations'[Len(mutations')] = mutations[Len(mutations)]
      <4>1. Len(mutations') \in 1..Len(mutations') /\ Len(mutations') + 1 = Len(mutations)
        BY <3>1, <3>2
      <4>2. mutations'[Len(mutations')] = mutations[Len(mutations)]
        BY <3>1, <4>1
      <4>. QED  BY <4>1, <4>2
    <3>. QED  BY <3>2
  <2>4. doubtful' \in BOOLEAN /\ (~doubtful' => ~doubtful /\ mirrorValue' = Head(mutations))
    BY <1>4 DEF MutationSettles
  <2>5. ~doubtful' => MirrorFollows' /\ ReadIsCurrent'
    BY <2>1, <2>2, <2>3, <2>4 DEF MirrorFollows, ReadIsCurrent
  <2>. QED  BY <2>1, <2>4, <2>5
<1>5. CASE Gets
  <2>1. /\ reading' = [from |-> edition, tries |-> MaxTries, value |-> Absent, got |-> FALSE]
        /\ reading' \in Read /\ UNCHANGED <<localValue, mirrorValue, edition, mutations, lastSet, newest>>
    BY <1>5 DEF Gets, Read
  <2>2. doubtful' \in BOOLEAN /\ (~doubtful' => ~doubtful /\ mutations = <<>>)
    BY <1>5 DEF Gets
  <2>3. ~doubtful' => MirrorFollows' /\ ReadIsCurrent'
    BY <2>1, <2>2 DEF MirrorFollows, ReadIsCurrent
  <2>. QED  BY <2>1, <2>2, <2>3
<1>6. ASSUME NEW v \in Nat, MirrorAnswers(v)
      PROVE  MirrorInv'
  <2>1. /\ reading \in Read /\ reading' = [reading EXCEPT !.value = v, !.got = TRUE]
        /\ v \in {mirrorValue, Absent}
        /\ UNCHANGED <<localValue, mirrorValue, edition, mutations, lastSet, newest, doubtful>>
    BY <1>6 DEF MirrorAnswers
  <2>2. reading' \in Read /\ reading'.from = reading.from /\ reading'.value = v
    BY <2>1 DEF Read
  <2>3. ~doubtful => MirrorFollows' /\ ReadIsCurrent'
    BY <2>1, <2>2 DEF MirrorFollows, ReadIsCurrent
  <2>. QED  BY <2>1, <2>2, <2>3
<1>7. CASE ReadGoesOn
  <2>1. reading \in Read /\ UNCHANGED <<mirrorValue, edition, mutations, lastSet, newest, doubtful>>
    BY <1>7 DEF ReadGoesOn
  <2>2. CASE reading.value = Absent /\ reading.tries > 1
    <3>1. reading' = [reading EXCEPT !.got = FALSE, !.tries = @ - 1] /\ UNCHANGED localValue
      BY <1>7, <2>2 DEF ReadGoesOn
    <3>2. /\ reading' \in Read /\ reading'.from = reading.from /\ reading'.value = reading.value
      <4>1. reading.tries - 1 \in Nat
        BY <2>1, <2>2 DEF Read
      <4>2. reading' = [reading EXCEPT !.got = FALSE, !.tries = reading.tries - 1]
        BY <3>1
      <4>. QED  BY <2>1, <4>1, <4>2 DEF Read
    <3>. QED  BY <2>1, <3>1, <3>2 DEF MirrorFollows, ReadIsCurrent
  <2>3. CASE ~(reading.value = Absent /\ reading.tries > 1)
    <3>1. /\ reading' = NoRead
          /\ localValue' = IF Overtaken \/ localValue # Absent
                           THEN localValue ELSE reading.value
      BY <1>7, <2>3 DEF ReadGoesOn
    <3>2. reading.value \in Nat
      BY <2>1 DEF Read
    <3>. QED  BY <2>1, <3>1, <3>2 DEF MirrorFollows, ReadIsCurrent, Overtaken
  <2>. QED  BY <2>2, <2>3
<1>8. CASE UNCHANGED mirrorVars
  BY <1>8 DEF mirrorVars, MirrorFollows, ReadIsCurrent
<1>. QED  BY <1>2, <1>3, <1>4, <1>5, <1>6, <1>7, <1>8 DEF MirrorNext

\* Whatever is set and removed while a read of the mirror is under way, and
\* however many reads and writes there are, no value that was replaced comes
\* back to localStorage (mirrored-string-store.ts:29-36, 62).
THEOREM MirrorResurrectsNothing == MirrorSpec => []NothingResurrected
<1>1. MirrorInv => NothingResurrected
  BY DEF MirrorInv, NothingResurrected
<1>. QED  BY MirrorInvInit, MirrorInvStep, <1>1, PTL DEF MirrorSpec

=============================================================================
