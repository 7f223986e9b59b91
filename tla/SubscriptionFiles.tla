-------------------------- MODULE SubscriptionFiles --------------------------
(***************************************************************************)
(* The files of SubscriptionStore: an index of the entries, and a file for *)
(* the input of each. An operation changes the list in memory at once and  *)
(* then makes its writes one by one, synchronously, so nothing comes       *)
(* between two of them but the end of the process.                         *)
(***************************************************************************)
EXTENDS Naturals, Sequences

CONSTANTS
  FileIds,     \* entries: an identifier is used once
  FileSource,  \* [FileIds -> sources]: what canonicalSubscriptionSource() tells apart
  Restarts     \* whether the process may end

VARIABLES
  listed,  \* entries
  index,   \* subscriptions:index
  inputs,  \* entries whose subscriptions:input file exists
  spare,   \* identifiers not given out yet
  legacy,  \* the source under config-source, or none
  doing,   \* the operation under way and the writes it has still to make
  kept,    \* history: sources whose addition returned, and no removal since
  gone     \* history: sources whose removal returned, and no addition since

fileVars == <<listed, index, inputs, spare, legacy, doing, kept, gone>>

Nobody == "nobody"
Running(op, id, writes) == [op |-> op, id |-> id, writes |-> writes]
Idle == Running("none", Nobody, <<>>)
Ended == Running("ended", Nobody, <<>>)
File(kind, id) == [kind |-> kind, id |-> id]
Index == File("index", Nobody)

SourcesOf(ids) == {FileSource[i] : i \in ids}

\* The index of an earlier session, or of an older build that did not tell
\* equal sources apart.
FilesInit ==
  /\ index \in SUBSET FileIds
  /\ inputs = index /\ spare = FileIds \ index
  /\ legacy \in {FileSource[i] : i \in FileIds} \union {Nobody}
  /\ listed = {} /\ doing = Ended /\ kept = SourcesOf(index) /\ gone = {}

\* deduplicateSubscriptionSources(): one entry of each source stays, and every
\* entry whose input cannot be read.
Deduplicated(ids, read, left) ==
  /\ left \subseteq ids /\ ids \ read \subseteq left
  /\ SourcesOf(left \intersect read) = SourcesOf(ids \intersect read)
  /\ \A i, j \in left \intersect read : FileSource[i] = FileSource[j] => i = j

\* ensureLoaded() of a start with entries: repairEntries() follows the read,
\* and deletes the inputs of the duplicates one by one.
LoadsEntries(left, order) ==
  /\ doing = Ended
  /\ index # {} \/ legacy = Nobody
  /\ Deduplicated(index, inputs, left)
  /\ {order[n] : n \in DOMAIN order} = index \ left
  /\ listed' = left
  /\ doing' = Running("load", Nobody,
                [n \in DOMAIN order |-> File("delete", order[n])] \o <<Index>>)
  /\ UNCHANGED <<index, inputs, spare, legacy, kept, gone>>

\* ensureLoaded() of a start without any: runMigration() takes the source
\* under config-source, if there is one, for the first entry. It does so at
\* every such start, whatever was removed since the first ("one-shot").
Migrates(i) ==
  /\ doing = Ended /\ index = {} /\ legacy = FileSource[i] /\ i \in spare
  /\ listed' = {i} /\ spare' = spare \ {i}
  /\ doing' = Running("load", i, <<File("input", i), Index, Index>>)
  /\ UNCHANGED <<index, inputs, legacy, kept, gone>>

\* add(), of a source that no entry with a readable input has.
AddsEntry(i) ==
  /\ doing = Idle /\ i \in spare
  /\ FileSource[i] \notin SourcesOf(listed \intersect inputs)
  /\ listed' = listed \union {i} /\ spare' = spare \ {i}
  /\ doing' = Running("add", i, <<File("input", i), Index>>)
  /\ gone' = gone \ {FileSource[i]}
  /\ UNCHANGED <<index, inputs, legacy, kept>>

\* Mutant of RemovesEntry: the index is written by the next operation.
RemovesEntry_Lazily(i) ==
  /\ doing = Idle /\ i \in listed
  /\ listed' = listed \ {i}
  /\ doing' = Running("remove", i, <<File("delete", i)>>)
  /\ kept' = kept \ {FileSource[i]}
  /\ UNCHANGED <<index, inputs, spare, legacy, gone>>

\* remove(): the input goes before the index.
RemovesEntry(i) ==
  /\ doing = Idle /\ i \in listed
  /\ listed' = listed \ {i}
  /\ doing' = Running("remove", i, <<File("delete", i), Index>>)
  /\ kept' = kept \ {FileSource[i]}
  /\ UNCHANGED <<index, inputs, spare, legacy, gone>>

\* SecureStorage.write() and delete(); the operation returns after the last.
Writes ==
  LET w == Head(doing.writes)
      last == Len(doing.writes) = 1 IN
  /\ doing.writes # <<>>
  /\ index' = IF w.kind = "index" THEN listed ELSE index
  /\ inputs' = CASE w.kind = "input" -> inputs \union {w.id}
                 [] w.kind = "delete" -> inputs \ {w.id}
                 [] OTHER -> inputs
  /\ doing' = IF last THEN Idle ELSE [doing EXCEPT !.writes = Tail(@)]
  /\ kept' = IF last /\ doing.op = "add" THEN kept \union {FileSource[doing.id]} ELSE kept
  /\ gone' = IF last /\ doing.op = "remove"
               THEN gone \union ({FileSource[doing.id]} \ SourcesOf(listed)) ELSE gone
  /\ UNCHANGED <<listed, spare, legacy>>

\* The process ends between two writes, or within the one of the index, which
\* nobody can read then: the additions are lost with it.
Ends ==
  /\ Restarts /\ doing # Ended
  /\ doing' = Ended /\ listed' = {}
  /\ \/ UNCHANGED <<index, kept>>
     \/ /\ doing.writes # <<>> /\ Head(doing.writes) = Index
        /\ index' = {} /\ kept' = {}
  /\ UNCHANGED <<inputs, spare, legacy, gone>>

\* Bound: one duplicate at a start.
Orders == {<<>>} \union {<<i>> : i \in FileIds}

FilesNext ==
  \/ \E left \in SUBSET index, order \in Orders : LoadsEntries(left, order)
  \/ \E i \in FileIds : Migrates(i) \/ AddsEntry(i) \/ RemovesEntry(i)
  \/ Writes
  \/ Ends

FilesSpec == FilesInit /\ [][FilesNext]_fileVars

\* Between whatever writes the last process ended, a start loses no
\* subscription: the list has a usable entry for the source of every addition
\* that returned. Nor does it bring one back: the list has no entry of a source
\* whose last entry was removed and that nobody added since, under whatever
\* identifier (SubscriptionStore.ts:153-190, 234-239). The one exception is
\* the source under config-source, which the migration creates again at each
\* start with an empty list (:80-113), although it is called one-shot (:78).
ListSurvives ==
  doing # Ended =>
    /\ kept \subseteq SourcesOf(listed \intersect inputs)
    /\ gone \intersect SourcesOf(listed) \subseteq {legacy}

=============================================================================
