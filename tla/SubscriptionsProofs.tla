------------------------- MODULE SubscriptionsProofs -------------------------
(***************************************************************************)
(* The subscriptions, for every list, every number of edits and any        *)
(* contents of the sources: one chain of refreshes per entry, and a        *)
(* snapshot that is what the present list gives.                           *)
(***************************************************************************)
EXTENDS Subscriptions, SequenceTheorems, TLAPS

-----------------------------------------------------------------------------
(* Types                                                                  *)

\* An operation; which entries it took is left open here.
Operation(t) ==
  [call : Call, at : Phases, same : BOOLEAN, todo : SUBSET Ids, took : {t},
   got : [Ids -> Contents \union {NotFetched}], acct : Accounts \union {NoAccount}]

TypedOp == op = Idle \/ op \in Operation(op.took)

Typed ==
  /\ enabled \subseteq Ids /\ every \in [Ids -> Intervals]
  /\ cached \in [Ids -> Contents \union {NotFetched}]
  /\ account \in Accounts \union {NoAccount}
  /\ cabinet \in Accounts \union {NoAccount, NoServers} /\ asked \in BOOLEAN /\ dirty \in BOOLEAN
  /\ TypedOp /\ waiting \in Seq(Call)
  /\ jobs \in [Ids -> Intervals \union {NoJob}] /\ timers \in [Ids -> Nat]
  /\ notifying \subseteq Ids

\* An operation is told from none.
LEMMA NotIdle == ASSUME NEW t, NEW o \in Operation(t)  PROVE o # Idle
<1>1. "call" \in DOMAIN o /\ "call" \notin DOMAIN Idle
  BY DEF Operation, Idle
<1>. QED  BY <1>1

\* What a step may write into the operation under way.
LEMMA OpTypes ==
  ASSUME NEW t, NEW o \in Operation(t)
  PROVE  /\ \A a \in Phases : [o EXCEPT !.at = a] \in Operation(t)
         /\ [o EXCEPT !.same = FALSE] \in Operation(t)
         /\ [o EXCEPT !.call.job = FALSE] \in Operation(t)
         /\ o.took = t
BY DEF Operation, Call

\* The jobs a reconciliation drops, and those it schedules.
Stale(due, interval) == {id \in Ids : jobs[id] # NoJob /\ (id \notin due \/ interval[id] # jobs[id])}
Missing(due, interval) == {id \in due : jobs[id] = NoJob \/ id \in Stale(due, interval)}

\* Every call that waits keeps its subscription.
LEMMA Flagged ==
  ASSUME Typed, NEW due, NEW interval, Reconciles(due, interval)
  PROVE  /\ waiting' \in Seq(Call) /\ DOMAIN waiting' = DOMAIN waiting
         /\ \A i \in DOMAIN waiting :
              /\ waiting'[i].id = waiting[i].id
              /\ waiting'[i].job <=> waiting[i].job /\ waiting[i].id \notin Stale(due, interval)
<1>. DEFINE S == Stale(due, interval)
<1>0. waiting \in Seq(Call)
  BY DEF Typed
<1>a. waiting' = [i \in DOMAIN waiting |-> [waiting[i] EXCEPT !.job = @ /\ waiting[i].id \notin S]]
  BY DEF Reconciles, Stale
<1>. HIDE DEF S
<1>1. ASSUME NEW i \in DOMAIN waiting
      PROVE  /\ waiting'[i] \in Call /\ waiting'[i].id = waiting[i].id
             /\ waiting'[i].job <=> waiting[i].job /\ waiting[i].id \notin S
  <2>1. waiting[i] \in Call
    BY <1>0
  <2>. QED  BY <1>a, <2>1 DEF Call
<1>2. waiting' \in Seq(Call) /\ DOMAIN waiting' = DOMAIN waiting
  <2>1. DOMAIN waiting = 1..Len(waiting) /\ Len(waiting) \in Nat /\ DOMAIN waiting' = DOMAIN waiting
    BY <1>0, <1>a
  <2>2. waiting' \in [1..Len(waiting) -> Call]
    BY <1>a, <1>1, <2>1
  <2>. QED  BY <2>1, <2>2, SeqDef
<1>. QED  BY <1>1, <1>2 DEF S

LEMMA TypedInit == Init => Typed
<1>. SUFFICES ASSUME Init  PROVE Typed
  OBVIOUS
<1>1. enabled \subseteq Ids /\ op = Idle /\ waiting \in Seq(Call)
  BY DEF Init
<1>2. every \in [Ids -> Intervals] /\ jobs \in [Ids -> Intervals \union {NoJob}]
  BY SubscriptionsAssumption DEF Init
<1>3. timers \in [Ids -> Nat] /\ cached \in [Ids -> Contents \union {NotFetched}]
  BY DEF Init
<1>. QED  BY <1>1, <1>2, <1>3 DEF Init, Typed, TypedOp

\* A reconciliation, of any list and intervals.
LEMMA ReconcilesTypes ==
  ASSUME Typed, NEW due, NEW interval \in [Ids -> Intervals], Reconciles(due, interval),
         due \subseteq Ids, \A id \in Ids : timers[id] = 0 => Running(id) \/ jobs[id] = NoJob
  PROVE  /\ jobs' \in [Ids -> Intervals \union {NoJob}] /\ timers' \in [Ids -> Nat]
         /\ notifying' \subseteq Ids /\ waiting' \in Seq(Call)
<1>. DEFINE stale == Stale(due, interval)
            new == Missing(due, interval)
<1>1. /\ jobs' = [id \in Ids |-> IF id \in new THEN interval[id]
                             ELSE IF id \in stale THEN NoJob ELSE jobs[id]]
      /\ timers' = [id \in Ids |-> (IF id \in stale THEN Cancelled(id) ELSE timers[id])
                               + (IF id \in new THEN 1 ELSE 0)]
      /\ notifying' = notifying \ stale
  BY DEF Reconciles, Stale, Missing
<1>2. \A id \in stale : id \in Ids /\ jobs[id] # NoJob
  BY DEF Stale
<1>. HIDE DEF stale, new
<1>3. jobs' \in [Ids -> Intervals \union {NoJob}]
  BY <1>1 DEF Typed
<1>4. ASSUME NEW id \in Ids  PROVE timers'[id] \in Nat
  <2>1. timers[id] \in Nat
    BY DEF Typed
  <2>2. id \in stale => Cancelled(id) \in Nat
    BY <1>2, <2>1 DEF Cancelled
  <2>. QED  BY <1>1, <2>1, <2>2
<1>5. timers' \in [Ids -> Nat]
  BY <1>1, <1>4
<1>6. waiting' \in Seq(Call)
  BY Flagged
<1>. QED  BY <1>1, <1>3, <1>5, <1>6 DEF Typed

-----------------------------------------------------------------------------
(* One chain of refreshes per entry                                       *)

OpRuns   == {id \in Ids : op # Idle /\ op.call.job /\ op.call.id = id}
WaitRuns == {id \in Ids : \E i \in DOMAIN waiting : waiting[i].id = id /\ waiting[i].job}

\* A run of a job waits for its turn once, or is under way, or waits for the
\* engine; then its timer is not armed.
ChainInv ==
  /\ OneChainPerEntry
  /\ \A id \in Ids : Running(id) => Due(id)
  /\ OpRuns \intersect notifying = {} /\ WaitRuns \intersect (notifying \union OpRuns) = {}
  /\ \A i, k \in DOMAIN waiting :
       waiting[i].job /\ waiting[k].job /\ waiting[i].id = waiting[k].id => i = k
  /\ \A i \in DOMAIN waiting : waiting[i].job => waiting[i].id \in Ids
  /\ op # Idle => (op.call.job => op.call.id \in Ids)

LEMMA RearmsTypes ==
  ASSUME Typed, NEW id \in Ids, Rearms(id)
  PROVE  jobs' \in [Ids -> Intervals \union {NoJob}] /\ timers' \in [Ids -> Nat]
<1>1. timers[id] + 1 \in Nat /\ every[id] \in Intervals
  BY DEF Typed
<1>2. CASE Due(id)
  BY <1>1, <1>2 DEF Rearms, Typed
<1>3. CASE ~Due(id)
  BY <1>3 DEF Rearms, Typed
<1>. QED  BY <1>2, <1>3

\* What every step of an operation does to the operation and to the schedule.
LEMMA EndsTypes ==
  ASSUME Typed, op # Idle, op.call.job => op.call.id \in Ids, NEW ok \in BOOLEAN, Ends(ok)
  PROVE  /\ op' = Idle /\ notifying' \subseteq Ids
         /\ jobs' \in [Ids -> Intervals \union {NoJob}] /\ timers' \in [Ids -> Nat]
<1>1. CASE ~ok /\ op.call.job
  BY <1>1, RearmsTypes DEF Ends, Typed
<1>2. CASE ok \/ ~op.call.job
  BY <1>2 DEF Ends, Typed
<1>. QED  BY <1>1, <1>2

\* The operation under way, after the steps that only write into it.
LEMMA OpSteps ==
  ASSUME Typed, op # Idle
  PROVE  /\ op \in Operation(op.took)
         /\ \A a \in Phases : [op EXCEPT !.at = a] \in Operation(op.took)
         /\ op.call \in Call
BY OpTypes DEF Typed, TypedOp, Operation

LEMMA Edited ==
  ASSUME Typed
  PROVE  /\ Outdated(op) = Idle \/ Outdated(op) \in Operation(Outdated(op).took)
         /\ Orphaned(Outdated(op)) = Idle
            \/ Orphaned(Outdated(op)) \in Operation(Orphaned(Outdated(op)).took)
         /\ Orphaned(op) = Idle \/ Orphaned(op) \in Operation(Orphaned(op).took)
<1>1. CASE op = Idle
  BY <1>1 DEF Outdated, Orphaned
<1>2. CASE op # Idle
  <2>1. op \in Operation(op.took)
    BY <1>2, OpSteps
  <2>2. PICK o \in Operation(op.took) : o = Outdated(op) /\ o.took = op.took
    BY <1>2, <2>1, OpTypes DEF Outdated
  <2>3. ASSUME NEW q \in Operation(op.took)
        PROVE  Orphaned(q) \in Operation(op.took) /\ Orphaned(q).took = op.took
    <3>1. PICK r \in Operation(op.took) : r = [q EXCEPT !.call.job = FALSE]
      BY OpTypes
    <3>2. r.took = op.took /\ q.took = op.took
      BY DEF Operation
    <3>. QED  BY <3>1, <3>2 DEF Orphaned
  <2>4. Orphaned(op) \in Operation(op.took) /\ Orphaned(op).took = op.took
    BY <2>1, <2>3
  <2>. QED  BY <2>2, <2>3, <2>4
<1>. QED  BY <1>1, <1>2

LEMMA EditsTyped ==
  ASSUME Typed, ChainInv,
         \/ \E id \in Ids : Add(id) \/ RemoveEntry(id) \/ Toggle(id) \/ \E m \in Intervals : SetInterval(id, m)
  PROVE  Typed'
<1>0. \A id \in Ids : timers[id] = 0 => Running(id) \/ jobs[id] = NoJob
  BY DEF ChainInv, OneChainPerEntry
<1>1. ASSUME NEW due \in SUBSET Ids, NEW interval \in [Ids -> Intervals], Reconciles(due, interval)
      PROVE  /\ jobs' \in [Ids -> Intervals \union {NoJob}] /\ timers' \in [Ids -> Nat]
             /\ notifying' \subseteq Ids /\ waiting' \in Seq(Call)
  BY <1>0, <1>1, ReconcilesTypes
<1>2. ASSUME NEW e \in SUBSET Ids, NEW v \in [Ids -> Intervals],
             Reconciles({x \in e : v[x] > 0}, v)
      PROVE  /\ jobs' \in [Ids -> Intervals \union {NoJob}] /\ timers' \in [Ids -> Nat]
             /\ notifying' \subseteq Ids /\ waiting' \in Seq(Call)
  BY <1>1, <1>2
<1>3. ASSUME NEW id \in Ids, Add(id)  PROVE Typed'
  <2>1. enabled' \in SUBSET Ids /\ every \in [Ids -> Intervals] /\ Reconciles({x \in enabled' : every[x] > 0}, every)
    BY <1>3 DEF Add, Typed
  <2>2. /\ jobs' \in [Ids -> Intervals \union {NoJob}] /\ timers' \in [Ids -> Nat]
        /\ notifying' \subseteq Ids /\ waiting' \in Seq(Call)
    BY <1>2, <2>1
  <2>3. TypedOp'
    BY <1>3, Edited DEF Add, TypedOp
  <2>. QED  BY <1>3, <2>1, <2>2, <2>3 DEF Add, Typed, sources
<1>4. ASSUME NEW id \in Ids, RemoveEntry(id)  PROVE Typed'
  <2>1. enabled' \in SUBSET Ids /\ every \in [Ids -> Intervals] /\ Reconciles({x \in enabled' : every[x] > 0}, every)
    BY <1>4 DEF RemoveEntry, Typed
  <2>2. /\ jobs' \in [Ids -> Intervals \union {NoJob}] /\ timers' \in [Ids -> Nat]
        /\ notifying' \subseteq Ids /\ waiting' \in Seq(Call)
    BY <1>2, <2>1
  <2>3. TypedOp'
    BY <1>4, Edited DEF RemoveEntry, TypedOp
  <2>. QED  BY <1>4, <2>1, <2>2, <2>3 DEF RemoveEntry, Typed
<1>5. ASSUME NEW id \in Ids, Toggle(id)  PROVE Typed'
  <2>1. enabled' \in SUBSET Ids /\ every \in [Ids -> Intervals] /\ Reconciles({x \in enabled' : every[x] > 0}, every)
    BY <1>5 DEF Toggle, Typed
  <2>2. /\ jobs' \in [Ids -> Intervals \union {NoJob}] /\ timers' \in [Ids -> Nat]
        /\ notifying' \subseteq Ids /\ waiting' \in Seq(Call)
    BY <1>2, <2>1
  <2>3. TypedOp'
    BY <1>5, Edited DEF Toggle, TypedOp
  <2>. QED  BY <1>5, <2>1, <2>2, <2>3 DEF Toggle, Typed, sources
<1>6. ASSUME NEW id \in Ids, NEW m \in Intervals, SetInterval(id, m)  PROVE Typed'
  <2>1. enabled \in SUBSET Ids /\ every' \in [Ids -> Intervals] /\ Reconciles({x \in enabled : every'[x] > 0}, every')
    BY <1>6 DEF SetInterval, Typed
  <2>2. /\ jobs' \in [Ids -> Intervals \union {NoJob}] /\ timers' \in [Ids -> Nat]
        /\ notifying' \subseteq Ids /\ waiting' \in Seq(Call)
    BY <1>2, <2>1
  <2>3. TypedOp'
    BY <1>6, Edited DEF SetInterval, TypedOp
  <2>. QED  BY <1>6, <2>1, <2>2, <2>3 DEF SetInterval, Typed, sources
<1>. QED  BY <1>3, <1>4, <1>5, <1>6

\* What an operation reads, waits for and writes.
LEMMA OperationsTyped ==
  ASSUME Typed, ChainInv, op # Idle,
         Dispatch \/ Fetched \/ Rebuild \/ Decide \/ Build \/ Settles
  PROVE  Typed'
<1>. USE DEF sources, list, schedule
<1>o. op \in Operation(op.took) /\ op.call \in Call
  BY OpSteps
<1>j. op.call.job => op.call.id \in Ids
  BY DEF ChainInv
<1>1. ASSUME NEW ok \in BOOLEAN, Ends(ok),
             UNCHANGED <<enabled, every, cached, account, cabinet, asked, waiting>>, dirty' \in BOOLEAN
      PROVE  Typed'
  <2>1. /\ op' = Idle /\ notifying' \subseteq Ids
        /\ jobs' \in [Ids -> Intervals \union {NoJob}] /\ timers' \in [Ids -> Nat]
    BY <1>1, <1>j, EndsTypes
  <2>. QED  BY <1>1, <2>1 DEF Typed, TypedOp
<1>2. ASSUME NEW t, op' \in Operation(t),
             UNCHANGED <<enabled, every, account, waiting, jobs, timers, notifying>>,
             cached' \in [Ids -> Contents \union {NotFetched}],
             cabinet' \in Accounts \union {NoAccount, NoServers},
             asked' \in BOOLEAN, dirty' \in BOOLEAN
      PROVE  Typed'
  <2>1. op'.took = t
    BY <1>2 DEF Operation
  <2>. QED  BY <1>2, <2>1 DEF Typed, TypedOp
<1>t. /\ cached \in [Ids -> Contents \union {NotFetched}] /\ enabled \subseteq Ids
      /\ cabinet \in Accounts \union {NoAccount, NoServers} /\ asked \in BOOLEAN /\ dirty \in BOOLEAN
      /\ account \in Accounts \union {NoAccount}
  BY DEF Typed
<1>3. ASSUME NEW ids \in SUBSET Ids, Fetching(ids),
             UNCHANGED <<list, sources, account, snapshot, waiting, edits>>
      PROVE  Typed'
  <2>1. op' \in Operation(op.took)
    BY <1>3, <1>o DEF Fetching, Operation, Phases
  <2>. QED  BY <1>2, <1>3, <1>t, <2>1 DEF Fetching
<1>4. CASE Dispatch
  <2>1. CASE op.call.kind = "one" /\ op.call.id \in enabled
    <3>1. Fetching({op.call.id})
      BY <1>4, <2>1 DEF Dispatch
    <3>2. {op.call.id} \in SUBSET Ids
      BY <2>1, <1>t
    <3>. QED  BY <1>3, <1>4, <3>1, <3>2 DEF Dispatch
  <2>2. CASE op.call.kind = "all"
    <3>1. Fetching(enabled)
      BY <1>4, <2>2 DEF Dispatch
    <3>. QED  BY <1>3, <1>4, <1>t, <3>1 DEF Dispatch
  <2>3. CASE op.call.kind = "check" \/ (op.call.kind = "get" /\ dirty)
    <3>1. op' = [op EXCEPT !.at = "rebuild"] /\ UNCHANGED <<dirty, schedule>>
      BY <1>4, <2>3 DEF Dispatch
    <3>2. op' \in Operation(op.took)
      BY <3>1, OpSteps DEF Phases
    <3>. QED  BY <1>2, <1>4, <1>t, <3>1, <3>2 DEF Dispatch
  <2>4. CASE Ends(TRUE) /\ UNCHANGED dirty
    BY <1>1, <1>4, <1>t, <2>4 DEF Dispatch
  <2>. QED  BY <1>4, <2>1, <2>2, <2>3, <2>4 DEF Dispatch
<1>5. CASE Fetched
  <2>1. op' \in Operation(op.took)
    BY <1>5, <1>o, <1>t DEF Fetched, Operation, Phases
  <2>. QED  BY <1>2, <1>5, <1>t, <2>1 DEF Fetched
<1>6. CASE Rebuild
  <2>1. op' \in Operation(Among(entries, enabled))
    <3>1. PICK old \in SUBSET Ids :
            op' = [op EXCEPT
                !.at = "sources", !.same = TRUE,
                !.took = Among(entries, enabled),
                !.todo = enabled \ ({id \in enabled : cached[id] # NotFetched} \ old),
                !.got = [id \in Ids |-> IF id \in {x \in enabled : cached[x] # NotFetched} \ old
                                          THEN cached[id] ELSE NotFetched]]
      BY <1>6, <1>t DEF Rebuild
    <3>2. [id \in Ids |-> IF id \in {x \in enabled : cached[x] # NotFetched} \ old
                            THEN cached[id] ELSE NotFetched] \in [Ids -> Contents \union {NotFetched}]
      BY <1>t
    <3>. QED  BY <1>o, <1>t, <3>1, <3>2 DEF Operation, Phases
  <2>. QED  BY <1>2, <1>6, <1>t, <2>1 DEF Rebuild
<1>7. CASE Decide
  <2>1. op' \in Operation(op.took)
    <3>1. [op EXCEPT !.at = "build"] \in Operation(op.took)
      BY OpSteps DEF Phases
    <3>2. [op EXCEPT !.at = "account", !.acct = account] \in Operation(op.took)
      BY <1>o, <1>t DEF Operation, Phases
    <3>. QED  BY <1>7, <3>1, <3>2 DEF Decide
  <2>. QED  BY <1>2, <1>7, <1>t, <2>1 DEF Decide
<1>8. CASE Build
  <2>1. CASE ~op.same
    <3>1. op' \in Operation(op.took)
      BY <1>8, <2>1, OpSteps DEF Build, Phases
    <3>. QED  BY <1>2, <1>8, <1>t, <2>1, <3>1 DEF Build
  <2>2. CASE op.same
    <3>1. dirty' \in BOOLEAN /\ (Ends(TRUE) \/ Ends(FALSE))
      BY <1>8, <2>2, <1>t DEF Build
    <3>. QED  BY <1>1, <1>8, <3>1 DEF Build
  <2>. QED  BY <2>1, <2>2
<1>9. CASE CabinetAnswers
  <2>1. op.acct \in Accounts \union {NoAccount} /\ op.same \in BOOLEAN
    BY <1>o DEF Operation
  <2>2. cabinet' \in Accounts \union {NoAccount, NoServers} /\ asked' \in BOOLEAN
    BY <1>9, <1>t, <2>1 DEF CabinetAnswers
  <2>3. op' \in Operation(op.took)
    BY <1>9, <1>o DEF CabinetAnswers, Operation, Phases
  <2>. QED  BY <1>2, <1>9, <1>t, <2>2, <2>3 DEF CabinetAnswers
<1>10. ASSUME NEW id \in Ids, Answers(id)  PROVE Typed'
  <2>1. PICK r \in FetchOne(id) :
       /\ cached' = IF op.same THEN [cached EXCEPT ![id] = r] ELSE cached
       /\ op' = [op EXCEPT !.todo = @ \ {id},
                           !.got[id] = IF op.at = "sources" THEN r ELSE @]
    BY <1>10 DEF Answers
  <2>2. r \in Contents \union {NotFetched}
    BY <1>t DEF FetchOne, Contents
  <2>3. op' \in Operation(op.took)
    <3>1. op.got \in [Ids -> Contents \union {NotFetched}] /\ op.todo \in SUBSET Ids
      BY <1>o DEF Operation
    <3>2. [op.got EXCEPT ![id] = IF op.at = "sources" THEN r ELSE op.got[id]]
            \in [Ids -> Contents \union {NotFetched}]
      BY <2>2, <3>1
    <3>. QED  BY <1>o, <2>1, <3>1, <3>2 DEF Operation
  <2>. QED  BY <1>2, <1>10, <1>t, <2>1, <2>2, <2>3 DEF Answers
<1>. QED  BY <1>4, <1>5, <1>6, <1>7, <1>8, <1>9, <1>10 DEF Settles

LEMMA TypedStep == ASSUME Typed, ChainInv, [Next]_vars  PROVE Typed'
<1>. USE DEF sources, list, schedule
<1>1. CASE Request
  <2>1. \A kind \in {"one", "all", "get", "check"}, id \in Ids \union {"-"}, job \in BOOLEAN :
          [kind |-> kind, id |-> id, job |-> job] \in Call
    BY DEF Call
  <2>2. PICK c \in Call : waiting' = Append(waiting, c)
    BY <1>1, <2>1 DEF Request, Enqueue, Typed
  <2>3. waiting' \in Seq(Call)
    BY <2>2 DEF Typed
  <2>. QED  BY <1>1, <2>3 DEF Request, Typed, TypedOp
<1>2. CASE Reorder \/ Logout \/ \E a \in Accounts : SetAccount(a)
  <2>1. TypedOp'
    BY <1>2, Edited DEF Reorder, Logout, SetAccount, Typed, TypedOp
  <2>. QED  BY <1>2, <2>1 DEF Reorder, Logout, SetAccount, Typed
<1>3. CASE \E id \in Ids : \/ Add(id) \/ RemoveEntry(id) \/ Toggle(id)
                           \/ \E m \in Intervals : SetInterval(id, m)
  BY <1>3, EditsTyped
<1>4. ASSUME NEW id \in Ids, Fire(id)  PROVE Typed'
  <2>1. timers[id] - 1 \in Nat
    BY <1>4 DEF Fire, Typed
  <2>2. [kind |-> "one", id |-> id, job |-> TRUE] \in Call
    BY DEF Call
  <2>3. waiting' \in Seq(Call)
    <3>1. PICK c \in Call : c = [kind |-> "one", id |-> id, job |-> TRUE]
      BY <2>2
    <3>2. waiting' = waiting \/ waiting' = Append(waiting, c)
      BY <1>4, <3>1 DEF Fire, Enqueue
    <3>3. waiting \in Seq(Call) /\ Append(waiting, c) \in Seq(Call)
      BY DEF Typed
    <3>. QED  BY <3>2, <3>3
  <2>4. jobs' \in [Ids -> Intervals \union {NoJob}]
    BY <1>4 DEF Fire, Typed
  <2>. QED  BY <1>4, <2>1, <2>3, <2>4 DEF Fire, Typed, TypedOp
<1>5. CASE Begin
  <2>1. Head(waiting) \in Call /\ waiting' \in Seq(Call)
    BY <1>5, HeadTailProperties DEF Begin, Typed
  <2>2. op' \in Operation(<<>>)
    BY <1>5, <2>1 DEF Begin, Operation, Phases
  <2>3. op'.took = <<>>
    BY <1>5 DEF Begin
  <2>. QED  BY <1>5, <2>1, <2>2, <2>3 DEF Begin, Typed, TypedOp
<1>6. ASSUME NEW id \in Ids, Notified(id)  PROVE Typed'
  <2>1. jobs' \in [Ids -> Intervals \union {NoJob}] /\ timers' \in [Ids -> Nat]
    BY <1>6, RearmsTypes DEF Notified
  <2>. QED  BY <1>6, <2>1 DEF Notified, Typed, TypedOp
<1>7. CASE op # Idle /\ (Dispatch \/ Fetched \/ Rebuild \/ Decide \/ Build \/ Settles)
  BY <1>7, OperationsTyped
<1>8. CASE UNCHANGED vars
  BY <1>8 DEF vars, Typed, TypedOp
<1>. QED  BY <1>1, <1>2, <1>3, <1>4, <1>5, <1>6, <1>7, <1>8 DEF Next, User, Microtask, Reply, Timer

-----------------------------------------------------------------------------
(* The chain, step by step                                                *)

\* The three places a run can be in.
LEMMA Places ==
  ASSUME NEW id \in Ids
  PROVE  Running(id) <=> id \in notifying \/ id \in OpRuns \/ id \in WaitRuns
BY DEF Running, OpRuns, WaitRuns

\* The invariant, place by place.
Apart ==
  /\ OpRuns \intersect notifying = {} /\ WaitRuns \intersect (notifying \union OpRuns) = {}
  /\ \A i, k \in DOMAIN waiting :
       waiting[i].job /\ waiting[k].job /\ waiting[i].id = waiting[k].id => i = k
  /\ \A i \in DOMAIN waiting : waiting[i].job => waiting[i].id \in Ids
  /\ op # Idle => (op.call.job => op.call.id \in Ids)

LEMMA ChainParts ==
  ChainInv <=> OneChainPerEntry /\ Apart /\ \A id \in Ids : Running(id) => Due(id)
BY DEF ChainInv, Apart

\* A step that changes no run and no schedule.
LEMMA ChainSame ==
  ASSUME ChainInv, UNCHANGED <<enabled, every, jobs, timers, notifying, waiting>>,
         op = Idle <=> op' = Idle, op # Idle => op'.call = op.call
  PROVE  ChainInv'
<1>1. OpRuns' = OpRuns /\ WaitRuns' = WaitRuns /\ \A id \in Ids : Due(id)' <=> Due(id)
  BY DEF OpRuns, WaitRuns, Due
<1>2. \A id \in Ids : Running(id)' <=> Running(id)
  BY DEF Running
<1>3. OneChainPerEntry'
  BY <1>1, <1>2 DEF OneChainPerEntry, ChainInv
<1>. QED  BY <1>1, <1>2, <1>3 DEF ChainInv

\* An edit reconciles the schedule with the list it leaves: a run whose job is
\* dropped is no longer one.
LEMMA ReconcilesChain ==
  ASSUME Typed, Typed', ChainInv, Reconciles({x \in enabled' : every'[x] > 0}, every'),
         op # Idle /\ op.call.job =>
           /\ op' # Idle /\ op'.call.id = op.call.id
           /\ op'.call.job <=> op.call.id \notin Stale({x \in enabled' : every'[x] > 0}, every'),
         op = Idle \/ ~op.call.job => op' = Idle \/ ~op'.call.job
  PROVE  ChainInv'
<1>. DEFINE due == {x \in enabled' : every'[x] > 0}
            S == Stale(due, every')
<1>0. Reconciles(due, every')
  OBVIOUS
<1>1. /\ \A id \in Ids : Due(id)' <=> id \in due
      /\ \A id \in Ids : id \in S <=> jobs[id] # NoJob /\ (id \notin due \/ every'[id] # jobs[id])
      /\ \A id \in Ids : every[id] # NoJob /\ every'[id] # NoJob
  BY SubscriptionsAssumption DEF Due, Stale, Typed
<1>2. /\ DOMAIN waiting' = DOMAIN waiting /\ notifying' = notifying \ S
      /\ \A i \in DOMAIN waiting :
           waiting'[i].id = waiting[i].id /\ (waiting'[i].job <=> waiting[i].job /\ waiting[i].id \notin S)
  <2>1. notifying' = notifying \ S
    BY <1>0 DEF Reconciles, Stale
  <2>. HIDE DEF due
  <2>. QED  BY <1>0, <2>1, Flagged
<1>3. \A id \in Ids :
        /\ jobs'[id] = IF id \in due /\ (jobs[id] = NoJob \/ id \in S) THEN every'[id]
                       ELSE IF id \in S THEN NoJob ELSE jobs[id]
        /\ timers'[id] = (IF id \in S THEN Cancelled(id) ELSE timers[id])
                         + (IF id \in due /\ (jobs[id] = NoJob \/ id \in S) THEN 1 ELSE 0)
  BY <1>0 DEF Reconciles, Stale
<1>4. /\ \A id \in Ids : jobs[id] = IF Due(id) THEN every[id] ELSE NoJob
      /\ \A id \in Ids : timers[id] = IF Due(id) /\ ~Running(id) THEN 1 ELSE 0
      /\ \A id \in Ids : Running(id) => Due(id)
  BY DEF ChainInv, OneChainPerEntry
<1>5. /\ OpRuns' = OpRuns \ S /\ WaitRuns' = WaitRuns \ S
      /\ \A id \in Ids : Running(id)' <=> Running(id) /\ id \notin S
  <2>. HIDE DEF S
  <2>1. OpRuns' = OpRuns \ S
    BY DEF OpRuns, S
  <2>2. WaitRuns' = WaitRuns \ S
    BY <1>2 DEF WaitRuns
  <2>3. \A id \in Ids : Running(id)' <=> id \in notifying' \/ id \in OpRuns' \/ id \in WaitRuns'
    BY DEF Running, OpRuns, WaitRuns
  <2>. QED  BY <1>2, <2>1, <2>2, <2>3, Places
<1>. HIDE DEF due, S
<1>6. OneChainPerEntry'
  <2>. SUFFICES ASSUME NEW id \in Ids
                PROVE  /\ jobs'[id] = IF Due(id)' THEN every'[id] ELSE NoJob
                       /\ timers'[id] = IF Due(id)' /\ ~Running(id)' THEN 1 ELSE 0
    BY DEF OneChainPerEntry
  <2>1. jobs'[id] = IF Due(id)' THEN every'[id] ELSE NoJob
    BY <1>1, <1>3
  <2>2. CASE id \in S
    BY <2>2, <1>1, <1>3, <1>4, <1>5 DEF Cancelled
  <2>3. CASE id \notin S
    BY <2>3, <1>1, <1>3, <1>4, <1>5
  <2>. QED  BY <2>1, <2>2, <2>3
<1>7. \A id \in Ids : Running(id)' => Due(id)'
  BY <1>1, <1>4, <1>5
<1>8. Apart'
  <2>1. Apart
    BY ChainParts
  <2>2. OpRuns' \intersect notifying' = {} /\ WaitRuns' \intersect (notifying' \union OpRuns') = {}
    BY <1>2, <1>5, <2>1 DEF Apart
  <2>3. \A i, k \in DOMAIN waiting' :
          waiting'[i].job /\ waiting'[k].job /\ waiting'[i].id = waiting'[k].id => i = k
    BY <1>2, <2>1 DEF Apart
  <2>4. \A i \in DOMAIN waiting' : waiting'[i].job => waiting'[i].id \in Ids
    BY <1>2, <2>1 DEF Apart
  <2>5. op' # Idle => (op'.call.job => op'.call.id \in Ids)
    BY <2>1 DEF Apart
  <2>. QED  BY <2>2, <2>3, <2>4, <2>5 DEF Apart
<1>. QED  BY <1>6, <1>7, <1>8 DEF ChainInv, Apart

\* A run moves on to another place.
LEMMA ChainMoves ==
  ASSUME ChainInv, UNCHANGED <<enabled, every, jobs, timers>>, Apart',
         \A id \in Ids : Running(id)' <=> Running(id)
  PROVE  ChainInv'
<1>1. \A id \in Ids : Due(id)' <=> Due(id)
  BY DEF Due
<1>2. OneChainPerEntry'
  BY <1>1 DEF OneChainPerEntry, ChainInv
<1>. QED  BY <1>1, <1>2 DEF ChainInv, Apart

\* A run ends, and its job is scheduled again.
LEMMA ChainRearms ==
  ASSUME Typed, ChainInv, UNCHANGED <<enabled, every>>, Apart',
         NEW id \in Ids, Running(id), Rearms(id),
         \A x \in Ids : Running(x)' <=> Running(x) /\ x # id
  PROVE  ChainInv'
<1>1. \A x \in Ids : Due(x)' <=> Due(x)
  BY DEF Due
<1>2. Due(id) /\ timers[id] = 0
  BY DEF ChainInv, OneChainPerEntry
<1>3. /\ jobs' = [jobs EXCEPT ![id] = every[id]]
      /\ timers' = [timers EXCEPT ![id] = @ + 1]
  BY <1>2 DEF Rearms
<1>4. \A x \in Ids : /\ jobs'[x] = IF x = id THEN every[id] ELSE jobs[x]
                     /\ timers'[x] = IF x = id THEN 1 ELSE timers[x]
  BY <1>2, <1>3 DEF Typed
<1>5. OneChainPerEntry'
  <2>. SUFFICES ASSUME NEW x \in Ids
                PROVE  /\ jobs'[x] = IF Due(x)' THEN every'[x] ELSE NoJob
                       /\ timers'[x] = IF Due(x)' /\ ~Running(x)' THEN 1 ELSE 0
    BY DEF OneChainPerEntry
  <2>. QED  BY <1>1, <1>2, <1>4 DEF ChainInv, OneChainPerEntry
<1>. QED  BY <1>1, <1>5 DEF ChainInv, Apart

\* A timer that fires is that of a job without a run.
LEMMA ChainFires ==
  ASSUME Typed, ChainInv, NEW id \in Ids, Fire(id)  PROVE ChainInv'
<1>1. timers[id] = 1 /\ Due(id) /\ ~Running(id) /\ jobs[id] = every[id] /\ jobs[id] # NoJob
  <2>1. timers[id] # 0 /\ timers[id] \in Nat
    BY DEF Fire, Typed
  <2>. QED  BY <2>1, SubscriptionsAssumption DEF ChainInv, OneChainPerEntry, Typed
<1>2. PICK c \in Call : c.id = id /\ c.job /\ waiting' = Append(waiting, c)
  <2>1. [kind |-> "one", id |-> id, job |-> TRUE] \in Call
    BY DEF Call
  <2>2. PICK c \in Call : c = [kind |-> "one", id |-> id, job |-> TRUE]
    BY <2>1
  <2>. QED  BY <1>1, <2>2 DEF Fire, Enqueue
<1>3. /\ Len(waiting) \in Nat /\ DOMAIN waiting = 1..Len(waiting)
      /\ DOMAIN waiting' = 1..(Len(waiting) + 1)
      /\ \A i \in 1..Len(waiting) : waiting'[i] = waiting[i]
      /\ waiting'[Len(waiting) + 1] = c
  BY <1>2 DEF Typed
<1>4. /\ timers' = [timers EXCEPT ![id] = @ - 1] /\ op' = op /\ notifying' = notifying
      /\ UNCHANGED <<jobs, enabled, every>>
  BY <1>1 DEF Fire, list
<1>5. OpRuns' = OpRuns /\ WaitRuns' = WaitRuns \union {id}
  <2>1. OpRuns' = OpRuns
    BY <1>4 DEF OpRuns
  <2>2. ASSUME NEW x \in Ids  PROVE x \in WaitRuns' <=> x \in WaitRuns \/ x = id
    <3>1. x \in WaitRuns' <=> \E i \in 1..(Len(waiting) + 1) : waiting'[i].id = x /\ waiting'[i].job
      BY <1>3 DEF WaitRuns
    <3>2. x \in WaitRuns <=> \E i \in 1..Len(waiting) : waiting[i].id = x /\ waiting[i].job
      BY <1>3 DEF WaitRuns
    <3>3. (Len(waiting) + 1) \in 1..(Len(waiting) + 1)
      BY <1>3
    <3>4. \A i \in 1..(Len(waiting) + 1) : i \in 1..Len(waiting) \/ i = Len(waiting) + 1
      BY <1>3
    <3>5. \A i \in 1..Len(waiting) : i \in 1..(Len(waiting) + 1)
      BY <1>3
    <3>. QED  BY <1>2, <1>3, <3>1, <3>2, <3>3, <3>4, <3>5
  <2>3. WaitRuns \subseteq Ids /\ WaitRuns' \subseteq Ids
    BY DEF WaitRuns
  <2>. QED  BY <2>1, <2>2, <2>3
<1>6. \A x \in Ids : Running(x)' <=> Running(x) \/ x = id
  <2>1. \A x \in Ids : Running(x)' <=> x \in notifying' \/ x \in OpRuns' \/ x \in WaitRuns'
    BY DEF Running, OpRuns, WaitRuns
  <2>. QED  BY <1>4, <1>5, <2>1, Places
<1>7. \A x \in Ids : timers'[x] = IF x = id THEN 0 ELSE timers[x]
  BY <1>1, <1>4 DEF Typed
<1>8. \A x \in Ids : Due(x)' <=> Due(x)
  BY <1>4 DEF Due
<1>9. OneChainPerEntry'
  <2>. SUFFICES ASSUME NEW x \in Ids
                PROVE  /\ jobs'[x] = IF Due(x)' THEN every'[x] ELSE NoJob
                       /\ timers'[x] = IF Due(x)' /\ ~Running(x)' THEN 1 ELSE 0
    BY DEF OneChainPerEntry
  <2>. QED  BY <1>1, <1>4, <1>6, <1>7, <1>8 DEF ChainInv, OneChainPerEntry
<1>10. Apart'
  <2>1. Apart /\ id \notin notifying /\ id \notin OpRuns /\ id \notin WaitRuns
    BY <1>1, ChainParts, Places
  <2>2. OpRuns' \intersect notifying' = {} /\ WaitRuns' \intersect (notifying' \union OpRuns') = {}
    BY <1>4, <1>5, <2>1 DEF Apart
  <2>3. \A i \in 1..Len(waiting) : waiting[i].job => waiting[i].id # id
    BY <1>3, <2>1 DEF WaitRuns
  <2>4. \A i \in 1..(Len(waiting) + 1) : i \in 1..Len(waiting) \/ i = Len(waiting) + 1
    BY <1>3
  <2>5. \A i, k \in DOMAIN waiting' :
          waiting'[i].job /\ waiting'[k].job /\ waiting'[i].id = waiting'[k].id => i = k
    BY <1>2, <1>3, <2>1, <2>3, <2>4 DEF Apart
  <2>6. \A i \in DOMAIN waiting' : waiting'[i].job => waiting'[i].id \in Ids
    BY <1>2, <1>3, <2>1, <2>4 DEF Apart
  <2>7. op' # Idle => (op'.call.job => op'.call.id \in Ids)
    BY <1>4, <2>1 DEF Apart
  <2>. QED  BY <2>2, <2>5, <2>6, <2>7 DEF Apart
<1>. QED  BY <1>1, <1>6, <1>8, <1>9, <1>10 DEF ChainInv, Apart

\* What others ask for is not a run of a job.
LEMMA ChainAsked ==
  ASSUME Typed, ChainInv, Request  PROVE ChainInv'
<1>1. PICK c \in Call : ~c.job /\ waiting' = Append(waiting, c)
  <2>1. \A kind \in {"one", "all", "get", "check"}, id \in Ids \union {"-"} :
          [kind |-> kind, id |-> id, job |-> FALSE] \in Call
    BY DEF Call
  <2>. QED  BY <2>1 DEF Request, Enqueue, Typed
<1>2. waiting = <<>> /\ op = Idle /\ UNCHANGED <<enabled, every, jobs, timers, notifying, op>>
  BY DEF Request, list, schedule
<1>3. DOMAIN waiting' = {1} /\ waiting'[1] = c /\ DOMAIN waiting = {}
  BY <1>1, <1>2
<1>4. OpRuns' = OpRuns /\ WaitRuns' = WaitRuns
  BY <1>1, <1>2, <1>3 DEF OpRuns, WaitRuns
<1>5. \A id \in Ids : Running(id)' <=> Running(id)
  <2>1. \A x \in Ids : Running(x)' <=> x \in notifying' \/ x \in OpRuns' \/ x \in WaitRuns'
    BY DEF Running, OpRuns, WaitRuns
  <2>. QED  BY <1>2, <1>4, <2>1, Places
<1>6. Apart'
  <2>1. Apart
    BY ChainParts
  <2>. QED  BY <1>1, <1>2, <1>3, <1>4, <2>1 DEF Apart
<1>. QED  BY <1>2, <1>5, <1>6, ChainMoves

\* The first that waits gets its turn.
LEMMA ChainBegins ==
  ASSUME Typed, ChainInv, Begin  PROVE ChainInv'
<1>1. /\ op = Idle /\ waiting # <<>> /\ waiting \in Seq(Call) /\ waiting' = Tail(waiting)
      /\ op'.call = waiting[1] /\ UNCHANGED <<enabled, every, jobs, timers, notifying>>
  BY DEF Begin, Typed, list, schedule
<1>2. op' # Idle
  <2>1. "call" \in DOMAIN op' /\ "call" \notin DOMAIN Idle
    BY DEF Begin, Idle
  <2>. QED  BY <2>1
<1>3. /\ Len(waiting) \in Nat \ {0} /\ DOMAIN waiting = 1..Len(waiting)
      /\ DOMAIN waiting' = 1..(Len(waiting) - 1)
      /\ \A i \in 1..(Len(waiting) - 1) : waiting'[i] = waiting[i + 1]
  BY <1>1
<1>4. Apart
  BY ChainParts
<1>5. /\ \A i \in 1..(Len(waiting) - 1) : i + 1 \in DOMAIN waiting /\ i + 1 # 1
      /\ \A k \in DOMAIN waiting : k = 1 \/ (k - 1 \in 1..(Len(waiting) - 1) /\ (k - 1) + 1 = k)
      /\ 1 \in DOMAIN waiting
  BY <1>3
<1>6. OpRuns = {} /\ OpRuns' = {id \in Ids : waiting[1].job /\ waiting[1].id = id}
  BY <1>1, <1>2 DEF OpRuns
<1>7. WaitRuns' = WaitRuns \ OpRuns' /\ OpRuns' \subseteq WaitRuns
  <2>1. OpRuns' \subseteq WaitRuns
    BY <1>5, <1>6 DEF WaitRuns
  <2>2. ASSUME NEW x \in WaitRuns'  PROVE x \in WaitRuns /\ x \notin OpRuns'
    <3>1. PICK i \in 1..(Len(waiting) - 1) : waiting'[i].id = x /\ waiting'[i].job
      BY <1>3, <2>2 DEF WaitRuns
    <3>2. waiting[i + 1].id = x /\ waiting[i + 1].job /\ i + 1 \in DOMAIN waiting /\ i + 1 # 1
      BY <1>3, <1>5, <3>1
    <3>. QED  BY <1>4, <1>5, <1>6, <2>2, <3>2 DEF WaitRuns, Apart
  <2>3. ASSUME NEW x \in WaitRuns, x \notin OpRuns'  PROVE x \in WaitRuns'
    <3>1. PICK k \in DOMAIN waiting : waiting[k].id = x /\ waiting[k].job
      BY <2>3 DEF WaitRuns
    <3>2. k # 1
      BY <1>6, <2>3, <3>1 DEF WaitRuns
    <3>3. k - 1 \in 1..(Len(waiting) - 1) /\ waiting'[k - 1] = waiting[k]
      BY <1>3, <1>5, <3>2
    <3>. QED  BY <1>3, <2>3, <3>1, <3>3 DEF WaitRuns
  <2>. QED  BY <2>1, <2>2, <2>3
<1>8. \A id \in Ids : Running(id)' <=> Running(id)
  <2>1. \A x \in Ids : Running(x)' <=> x \in notifying' \/ x \in OpRuns' \/ x \in WaitRuns'
    BY DEF Running, OpRuns, WaitRuns
  <2>. QED  BY <1>1, <1>6, <1>7, <2>1, Places
<1>9. Apart'
  <2>1. OpRuns' \intersect notifying' = {} /\ WaitRuns' \intersect (notifying' \union OpRuns') = {}
    BY <1>1, <1>4, <1>6, <1>7 DEF Apart
  <2>2. ASSUME NEW i \in DOMAIN waiting', NEW k \in DOMAIN waiting',
               waiting'[i].job, waiting'[k].job, waiting'[i].id = waiting'[k].id
        PROVE  i = k
    <3>1. i \in Int /\ k \in Int /\ i + 1 = k + 1
      BY <1>3, <1>4, <1>5, <2>2 DEF Apart
    <3>. QED  BY <3>1
  <2>3. \A i \in DOMAIN waiting' : waiting'[i].job => waiting'[i].id \in Ids
    BY <1>3, <1>4, <1>5 DEF Apart
  <2>4. op'.call.job => op'.call.id \in Ids
    BY <1>1, <1>4, <1>5 DEF Apart
  <2>. QED  BY <2>1, <2>2, <2>3, <2>4 DEF Apart
<1>. QED  BY <1>1, <1>8, <1>9, ChainMoves

\* The operation is over: its run waits for the engine, or has ended.
LEMMA ChainEnds ==
  ASSUME Typed, ChainInv, op # Idle, NEW ok \in BOOLEAN, Ends(ok),
         UNCHANGED <<enabled, every, waiting>>
  PROVE  ChainInv'
<1>1. op' = Idle /\ OpRuns' = {} /\ WaitRuns' = WaitRuns
  BY DEF Ends, OpRuns, WaitRuns
<1>2. Apart /\ (op.call.job => op.call.id \in Ids)
  BY ChainParts DEF Apart
<1>3. OpRuns = IF op.call.job THEN {op.call.id} ELSE {}
  BY <1>2 DEF OpRuns
<1>4. notifying' = IF ok /\ op.call.job THEN notifying \union {op.call.id} ELSE notifying
  BY DEF Ends
<1>5. Apart'
  BY <1>1, <1>2, <1>3, <1>4 DEF Apart
<1>6. \A x \in Ids : Running(x)' <=> x \in notifying' \/ x \in OpRuns' \/ x \in WaitRuns'
  BY DEF Running, OpRuns, WaitRuns
<1>7. CASE ok \/ ~op.call.job
  <2>1. UNCHANGED <<jobs, timers>>
    BY <1>7 DEF Ends
  <2>2. \A id \in Ids : Running(id)' <=> Running(id)
    BY <1>1, <1>3, <1>4, <1>6, <1>7, Places
  <2>. QED  BY <1>5, <2>1, <2>2, ChainMoves
<1>8. CASE ~ok /\ op.call.job
  <2>1. Rearms(op.call.id) /\ op.call.id \in Ids
    BY <1>2, <1>8 DEF Ends
  <2>2. Running(op.call.id)
    BY <1>3, <1>8, <2>1, Places
  <2>3. \A x \in Ids : Running(x)' <=> Running(x) /\ x # op.call.id
    BY <1>1, <1>2, <1>3, <1>4, <1>6, <1>8, Places DEF Apart
  <2>. QED  BY <1>5, <2>1, <2>2, <2>3, ChainRearms
<1>. QED  BY <1>7, <1>8

\* The engine has taken the refresh.
LEMMA ChainNotified ==
  ASSUME Typed, ChainInv, NEW id \in Ids, Notified(id)  PROVE ChainInv'
<1>1. /\ id \in notifying /\ notifying' = notifying \ {id} /\ Rearms(id)
      /\ UNCHANGED <<enabled, every, op, waiting>>
  BY DEF Notified, list
<1>2. OpRuns' = OpRuns /\ WaitRuns' = WaitRuns
  BY <1>1 DEF OpRuns, WaitRuns
<1>3. Apart
  BY ChainParts
<1>4. Apart'
  BY <1>1, <1>2, <1>3 DEF Apart
<1>5. \A x \in Ids : Running(x)' <=> x \in notifying' \/ x \in OpRuns' \/ x \in WaitRuns'
  BY DEF Running, OpRuns, WaitRuns
<1>6. Running(id) /\ \A x \in Ids : Running(x)' <=> Running(x) /\ x # id
  BY <1>1, <1>2, <1>3, <1>5, Places DEF Apart
<1>. QED  BY <1>1, <1>4, <1>6, ChainRearms

\* What a step writes into the operation it finds: its run is gone if the job is.
LEMMA Orphans ==
  ASSUME NEW t, NEW o \in Operation(t)
  PROVE  /\ Orphaned(o) # Idle /\ Orphaned(o).call.id = o.call.id
         /\ Orphaned(o).call.job <=> o.call.job /\ jobs'[o.call.id] = jobs[o.call.id]
<1>1. o # Idle
  BY NotIdle
<1>2. PICK r \in Operation(t) : r = [o EXCEPT !.call.job = FALSE]
  BY OpTypes
<1>3. r # Idle /\ r.call.id = o.call.id /\ ~r.call.job
  BY <1>2, NotIdle DEF Operation, Call
<1>. QED  BY <1>1, <1>2, <1>3 DEF Orphaned

LEMMA ChainEdits ==
  ASSUME Typed, Typed', ChainInv,
         \/ \E id \in Ids : Add(id) \/ RemoveEntry(id) \/ Toggle(id) \/ \E m \in Intervals : SetInterval(id, m)
  PROVE  ChainInv'
<1>. DEFINE due == {x \in enabled' : every'[x] > 0}
            S == Stale(due, every')
<1>1. Reconciles(due, every')
  BY DEF Add, RemoveEntry, Toggle, SetInterval
<1>2. \A id \in Ids : jobs[id] # NoJob => (id \in S <=> jobs'[id] # jobs[id])
  <2>1. \A id \in Ids :
          jobs'[id] = IF id \in due /\ (jobs[id] = NoJob \/ id \in S) THEN every'[id]
                      ELSE IF id \in S THEN NoJob ELSE jobs[id]
    BY <1>1 DEF Reconciles, Stale
  <2>2. \A id \in Ids : id \in S <=> jobs[id] # NoJob /\ (id \notin due \/ every'[id] # jobs[id])
    BY DEF Stale
  <2>. QED  BY <2>1, <2>2
<1>3. \A id \in Ids : Running(id) => jobs[id] # NoJob
  BY SubscriptionsAssumption DEF ChainInv, OneChainPerEntry, Typed
<1>4. op # Idle /\ op.call.job => op.call.id \in Ids /\ Running(op.call.id)
  BY DEF ChainInv, Running
<1>. HIDE DEF due, S
<1>5. ASSUME NEW o, op' = Orphaned(o), op = Idle => o = Idle,
             op # Idle => \E t : o \in Operation(t) /\ o.call = op.call
      PROVE  /\ op # Idle /\ op.call.job =>
                  /\ op' # Idle /\ op'.call.id = op.call.id
                  /\ op'.call.job <=> op.call.id \notin S
             /\ op = Idle \/ ~op.call.job => op' = Idle \/ ~op'.call.job
  <2>1. CASE op = Idle
    BY <1>5, <2>1 DEF Orphaned
  <2>2. CASE op # Idle
    <3>1. PICK t : o \in Operation(t) /\ o.call = op.call
      BY <1>5, <2>2
    <3>2. /\ op' # Idle /\ op'.call.id = op.call.id
          /\ op'.call.job <=> op.call.job /\ jobs'[op.call.id] = jobs[op.call.id]
      BY <1>5, <3>1, Orphans
    <3>. QED  BY <1>2, <1>3, <1>4, <2>2, <3>2
  <2>. QED  BY <2>1, <2>2
<1>6. /\ op = Idle => Outdated(op) = Idle
      /\ op # Idle => \E t : Outdated(op) \in Operation(t) /\ Outdated(op).call = op.call
      /\ op # Idle => Outdated(op) # Idle /\ \E t : op \in Operation(t)
  <2>1. CASE op = Idle
    BY <2>1 DEF Outdated
  <2>2. CASE op # Idle
    <3>1. op \in Operation(op.took)
      BY <2>2, OpSteps
    <3>2. Outdated(op) = [op EXCEPT !.same = FALSE]
      BY <2>2 DEF Outdated
    <3>3. Outdated(op) \in Operation(op.took) /\ Outdated(op) # Idle
      <4>1. PICK r \in Operation(op.took) : r = [op EXCEPT !.same = FALSE]
        BY <3>1, OpTypes
      <4>2. r # Idle
        BY NotIdle
      <4>. QED  BY <3>2, <4>1, <4>2
    <3>4. Outdated(op).call = op.call
      BY <3>1, <3>2 DEF Operation
    <3>. QED  BY <2>2, <3>1, <3>3, <3>4
  <2>. QED  BY <2>1, <2>2
<1>7. /\ op # Idle /\ op.call.job =>
           /\ op' # Idle /\ op'.call.id = op.call.id
           /\ op'.call.job <=> op.call.id \notin S
      /\ op = Idle \/ ~op.call.job => op' = Idle \/ ~op'.call.job
  <2>1. CASE op' = Orphaned(Outdated(op))
    BY <1>5, <1>6, <2>1
  <2>2. CASE op' = Orphaned(op)
    BY <1>5, <1>6, <2>2
  <2>3. ASSUME NEW id \in Ids, Add(id)
        PROVE  /\ op # Idle /\ op.call.job =>
                   /\ op' # Idle /\ op'.call.id = op.call.id
                   /\ op'.call.job <=> op.call.id \notin S
               /\ op = Idle \/ ~op.call.job => op' = Idle \/ ~op'.call.job
    <3>1. op' = Outdated(op) /\ every' = every /\ enabled \subseteq enabled'
      BY <2>3 DEF Add
    <3>2. \A x \in Ids : jobs[x] # NoJob => x \notin S
      BY <3>1 DEF S, due, Stale, ChainInv, OneChainPerEntry, Due
    <3>. QED  BY <1>3, <1>4, <1>6, <3>1, <3>2
  <2>. QED  BY <2>1, <2>2, <2>3 DEF RemoveEntry, Toggle, SetInterval
<1>. QED  BY <1>1, <1>7, ReconcilesChain DEF S, due

LEMMA ChainStep == ASSUME Typed, Typed', ChainInv, [Next]_vars  PROVE ChainInv'
<1>. USE DEF sources, list, schedule
<1>1. ASSUME op = Idle <=> op' = Idle, op # Idle => op'.call = op.call,
             UNCHANGED <<enabled, every, jobs, timers, notifying, waiting>>
      PROVE  ChainInv'
  BY <1>1, ChainSame
<1>2. CASE \/ \E id \in Ids : Add(id) \/ RemoveEntry(id) \/ Toggle(id) \/ \E m \in Intervals : SetInterval(id, m)
  BY <1>2, ChainEdits
<1>3. ASSUME op # Idle, DOMAIN op' = DOMAIN op, op'.call = op.call,
             UNCHANGED <<enabled, every, jobs, timers, notifying, waiting>>
      PROVE  ChainInv'
  <2>1. op' # Idle
    <3>1. "call" \in DOMAIN op /\ "call" \notin DOMAIN Idle
      BY <1>3, OpSteps DEF Operation, Idle
    <3>. QED  BY <1>3, <3>1
  <2>. QED  BY <1>1, <1>3, <2>1
<1>o. ASSUME op # Idle
      PROVE  DOMAIN op = {"call", "at", "same", "todo", "took", "got", "acct"}
  BY <1>o, OpSteps DEF Operation
<1>4. ASSUME op # Idle, Dispatch  PROVE ChainInv'
  <2>1. CASE \E ok \in BOOLEAN : Ends(ok)
    BY <1>4, <2>1, ChainEnds DEF Dispatch
  <2>2. CASE DOMAIN op' = DOMAIN op /\ op'.call = op.call /\ UNCHANGED schedule
    BY <1>3, <1>4, <2>2 DEF Dispatch
  <2>. QED  BY <1>4, <1>o, <2>1, <2>2 DEF Dispatch, Fetching
<1>5. ASSUME op # Idle, Build  PROVE ChainInv'
  <2>1. CASE \E ok \in BOOLEAN : Ends(ok)
    BY <1>5, <2>1, ChainEnds DEF Build
  <2>2. CASE DOMAIN op' = DOMAIN op /\ op'.call = op.call /\ UNCHANGED schedule
    BY <1>3, <1>5, <2>2 DEF Build
  <2>. QED  BY <1>5, <1>o, <2>1, <2>2 DEF Build
<1>6. ASSUME op # Idle, Fetched \/ Rebuild \/ Decide \/ CabinetAnswers \/ \E id \in Ids : Answers(id)
      PROVE  ChainInv'
  <2>1. DOMAIN op' = DOMAIN op /\ op'.call = op.call
    BY <1>6, <1>o DEF Fetched, Rebuild, Decide, CabinetAnswers, Answers
  <2>2. UNCHANGED <<enabled, every, jobs, timers, notifying, waiting>>
    BY <1>6 DEF Fetched, Rebuild, Decide, CabinetAnswers, Answers
  <2>. QED  BY <1>3, <1>6, <2>1, <2>2
<1>7. CASE Reorder \/ \E a \in Accounts : SetAccount(a)
  <2>1. op' = Outdated(op) /\ UNCHANGED <<enabled, every, jobs, timers, notifying, waiting>>
    BY <1>7 DEF Reorder, SetAccount
  <2>2. CASE op = Idle
    BY <1>1, <2>1, <2>2 DEF Outdated
  <2>3. CASE op # Idle
    BY <1>3, <1>o, <2>1, <2>3 DEF Outdated
  <2>. QED  BY <2>2, <2>3
<1>8. CASE Logout \/ UNCHANGED vars
  BY <1>1, <1>8 DEF Logout, vars
<1>9. CASE Request \/ Begin
  BY <1>9, ChainAsked, ChainBegins
<1>10. CASE \E id \in Ids : Fire(id) \/ Notified(id)
  BY <1>10, ChainFires, ChainNotified
<1>. QED  BY <1>2, <1>4, <1>5, <1>6, <1>7, <1>8, <1>9, <1>10
          DEF Next, User, Microtask, Reply, Settles, Timer

LEMMA ChainInit == Init => ChainInv
<1>. SUFFICES ASSUME Init  PROVE ChainInv
  OBVIOUS
<1>1. waiting = <<>> /\ notifying = {} /\ op = Idle
  BY DEF Init
<1>2. \A id \in Ids : ~Running(id)
  BY <1>1 DEF Running
<1>3. OneChainPerEntry
  BY <1>2 DEF Init, OneChainPerEntry
<1>4. OpRuns = {} /\ WaitRuns = {}
  BY <1>1 DEF OpRuns, WaitRuns
<1>. QED  BY <1>1, <1>2, <1>3, <1>4 DEF ChainInv

\* A subscription with an interval has one job and one timer, or one refresh
\* under way, however its entry is edited and whatever fails.
THEOREM RefreshesAreSingle == Spec => []OneChainPerEntry
<1>1. Typed /\ ChainInv /\ [Next]_vars => Typed' /\ ChainInv'
  <2>1. Typed /\ ChainInv /\ [Next]_vars => Typed'
    BY TypedStep
  <2>. QED  BY <2>1, ChainStep
<1>2. Init => Typed /\ ChainInv
  BY TypedInit, ChainInit
<1>3. ChainInv => OneChainPerEntry
  BY DEF ChainInv
<1>. QED  BY <1>1, <1>2, <1>3, PTL DEF Spec

-----------------------------------------------------------------------------
(* The snapshot                                                           *)

Taken == Among(entries, enabled)

\* The cabinet's servers are those of the account that is stored, or were, and
\* so are those that an operation waits for.
CabinetInv ==
  /\ account # NoAccount => cabinet \in {account, NoAccount, NoServers}
  /\ op # Idle /\ op.at \in {"cabinet", "account"} /\ op.same =>
       (account = op.acct \/ account = NoAccount)

\* A rebuild that nothing has invalidated has of the present list, in its
\* order, what is known of each source; what is invalidated stays dirty.
RebuildInv ==
  op # Idle =>
    /\ op.same /\ op.at \in {"sources", "account", "build"} =>
         /\ op.took = Taken /\ op.todo \subseteq enabled
         /\ \A id \in Ids : id \in op.todo \/ op.got[id] = Known[id]
         /\ op.at # "sources" => op.todo = {}
         /\ op.at # "sources" /\ account # NoAccount =>
              \/ ToSet(Taken) \intersect Twins = {}
              \/ op.at = "build" /\ cabinet = NoAccount
    /\ ~op.same \/ op.at \in {"fetch", "cabinet"} => dirty

\* A logout leaves the snapshot it finds.
Outlived == account = NoAccount /\ snapshot.cabinet \in Accounts

\* While it is not dirty the snapshot has servers that a rebuild will find
\* again, and between two operations it is what the list gives.
FreshInv ==
  ~dirty /\ ~Outlived =>
    /\ snapshot.cabinet \in {account, NoAccount, NoServers}
    /\ snapshot.cabinet \in Accounts =>
         cabinet = snapshot.cabinet /\ ToSet(Taken) \intersect Twins = {}
    /\ snapshot.cabinet \notin Accounts =>
         \E id \in Ids : id \in enabled /\ id \in ToSet(Taken) /\ cached[id] \in Data
    /\ op = Idle \/ op.at = "begin" => snapshot = Merged(Taken, Known)

SnapshotInv == CabinetInv /\ RebuildInv /\ FreshInv

\* A step that changes nothing these read.
LEMMA SnapshotSame ==
  ASSUME SnapshotInv, UNCHANGED <<entries, enabled, cached, account, cabinet, snapshot, dirty>>,
         op = Idle <=> op' = Idle,
         op # Idle => /\ op'.at = op.at /\ op'.same = op.same /\ op'.took = op.took
                      /\ op'.todo = op.todo /\ op'.got = op.got /\ op'.acct = op.acct
  PROVE  SnapshotInv'
<1>1. Taken' = Taken /\ Known' = Known /\ Merged(Taken, Known)' = Merged(Taken, Known)
  BY DEF Taken, Known, Merged
<1>2. CabinetInv'
  BY DEF SnapshotInv, CabinetInv
<1>3. RebuildInv'
  BY <1>1 DEF SnapshotInv, RebuildInv
<1>4. FreshInv'
  BY <1>1 DEF SnapshotInv, FreshInv, Outlived
<1>. QED  BY <1>2, <1>3, <1>4 DEF SnapshotInv

\* An edit invalidates what is under way, and the snapshot.
LEMMA SnapshotEdited ==
  ASSUME dirty', op' = Idle \/ ~op'.same,
         account' # NoAccount => cabinet' \in {account', NoAccount, NoServers}
  PROVE  SnapshotInv'
BY DEF SnapshotInv, CabinetInv, RebuildInv, FreshInv

LEMMA SnapshotEdits ==
  ASSUME Typed, SnapshotInv,
         \/ \E id \in Ids : Add(id) \/ RemoveEntry(id) \/ Toggle(id) \/ \E m \in Intervals : SetInterval(id, m)
         \/ Reorder \/ Logout \/ \E a \in Accounts : SetAccount(a)
  PROVE  SnapshotInv'
<1>. USE DEF sources, list, schedule
<1>1. ASSUME op # Idle
      PROVE  /\ ~Outdated(op).same /\ ~Orphaned(Outdated(op)).same /\ Orphaned(op) # Idle
             /\ Orphaned(op).at = op.at /\ Orphaned(op).same = op.same
             /\ Orphaned(op).took = op.took /\ Orphaned(op).todo = op.todo
             /\ Orphaned(op).got = op.got /\ Orphaned(op).acct = op.acct
  <2>1. op \in Operation(op.took)
    BY <1>1, OpSteps
  <2>2. PICK o \in Operation(op.took) : o = Outdated(op) /\ ~o.same
    <3>1. PICK o \in Operation(op.took) : o = [op EXCEPT !.same = FALSE]
      BY <2>1, OpTypes
    <3>2. ~o.same
      BY <2>1, <3>1 DEF Operation
    <3>. QED  BY <1>1, <3>1, <3>2 DEF Outdated
  <2>3. ASSUME NEW q \in Operation(op.took)
        PROVE  /\ Orphaned(q) # Idle /\ Orphaned(q).at = q.at /\ Orphaned(q).same = q.same
               /\ Orphaned(q).took = q.took /\ Orphaned(q).todo = q.todo
               /\ Orphaned(q).got = q.got /\ Orphaned(q).acct = q.acct
    <3>1. PICK r \in Operation(op.took) : r = [q EXCEPT !.call.job = FALSE]
      BY OpTypes
    <3>2. /\ r # Idle /\ r.at = q.at /\ r.same = q.same /\ r.took = q.took
          /\ r.todo = q.todo /\ r.got = q.got /\ r.acct = q.acct /\ q # Idle
      BY <3>1, NotIdle DEF Operation
    <3>. QED  BY <3>1, <3>2 DEF Orphaned
  <2>. QED  BY <2>1, <2>2, <2>3
<1>2. op = Idle => Outdated(op) = Idle /\ Orphaned(Outdated(op)) = Idle /\ Orphaned(op) = Idle
  BY DEF Outdated, Orphaned
<1>3. CASE \E id \in Ids : Add(id) \/ RemoveEntry(id) \/ Toggle(id)
  <2>1. dirty' /\ (op' = Outdated(op) \/ op' = Orphaned(Outdated(op))) /\ UNCHANGED <<account, cabinet>>
    BY <1>3 DEF Add, RemoveEntry, Toggle
  <2>. QED  BY <1>1, <1>2, <2>1, SnapshotEdited DEF SnapshotInv, CabinetInv
<1>4. CASE Reorder \/ \E a \in Accounts : SetAccount(a)
  <2>1. dirty' /\ op' = Outdated(op) /\ (cabinet' = NoAccount \/ UNCHANGED <<account, cabinet>>)
    BY <1>4 DEF Reorder, SetAccount
  <2>. QED  BY <1>1, <1>2, <2>1, SnapshotEdited DEF SnapshotInv, CabinetInv
<1>5. ASSUME NEW id \in Ids, NEW m \in Intervals, SetInterval(id, m)  PROVE SnapshotInv'
  <2>1. op' = Orphaned(op) /\ UNCHANGED <<entries, enabled, cached, account, cabinet, snapshot, dirty>>
    BY <1>5 DEF SetInterval
  <2>. QED  BY <1>1, <1>2, <2>1, SnapshotSame
<1>6. CASE Logout
  <2>1. /\ account # NoAccount /\ account' = NoAccount
        /\ UNCHANGED <<entries, enabled, cached, cabinet, snapshot, dirty, op>>
    BY <1>6 DEF Logout
  <2>2. Taken' = Taken /\ Known' = Known /\ Merged(Taken, Known)' = Merged(Taken, Known)
    BY <2>1 DEF Taken, Known, Merged
  <2>3. CabinetInv' /\ RebuildInv'
    BY <2>1, <2>2 DEF SnapshotInv, CabinetInv, RebuildInv
  <2>4. account \in Accounts
    BY <2>1 DEF Typed
  <2>5. FreshInv'
    <3>1. SUFFICES ASSUME ~dirty, snapshot.cabinet \notin Accounts  PROVE FreshInv'
      BY <2>1 DEF FreshInv, Outlived
    <3>2. ~Outlived
      BY <2>1 DEF Outlived
    <3>3. snapshot.cabinet \in {NoAccount, NoServers}
      BY <2>4, <3>1, <3>2 DEF SnapshotInv, FreshInv
    <3>. QED  BY <2>1, <2>2, <3>1, <3>2, <3>3 DEF SnapshotInv, FreshInv
  <2>. QED  BY <2>3, <2>5 DEF SnapshotInv
<1>. QED  BY <1>3, <1>4, <1>5, <1>6

\* A step of an operation that keeps what is known, and goes on.
LEMMA SnapshotWaits ==
  ASSUME SnapshotInv, UNCHANGED <<entries, enabled, cached, account, cabinet, snapshot, dirty>>,
         op' # Idle /\ op'.at # "begin"
  PROVE  /\ Taken' = Taken /\ Known' = Known /\ FreshInv'
         /\ account' # NoAccount => cabinet' \in {account', NoAccount, NoServers}
<1>1. Taken' = Taken /\ Known' = Known
  BY DEF Taken, Known
<1>2. FreshInv'
  BY <1>1 DEF SnapshotInv, FreshInv, Outlived
<1>. QED  BY <1>1, <1>2 DEF SnapshotInv, CabinetInv

LEMMA SnapshotBegins == ASSUME Typed, SnapshotInv, Begin  PROVE SnapshotInv'
<1>. USE DEF sources, list
<1>1. PICK o : /\ o = [call |-> Head(waiting), at |-> "begin", same |-> TRUE, todo |-> {},
                       took |-> <<>>, got |-> [id \in Ids |-> NotFetched], acct |-> NoAccount]
               /\ op' = o
  BY DEF Begin
<1>2. o.at = "begin" /\ o.same = TRUE /\ op = Idle
  BY <1>1 DEF Begin
<1>3. UNCHANGED <<entries, enabled, cached, account, cabinet, snapshot, dirty>>
  BY DEF Begin
<1>4. Taken' = Taken /\ Known' = Known /\ Merged(Taken, Known)' = Merged(Taken, Known)
  BY <1>3 DEF Taken, Known, Merged
<1>5. CabinetInv' /\ RebuildInv'
  BY <1>1, <1>2, <1>3 DEF SnapshotInv, CabinetInv, RebuildInv
<1>6. FreshInv'
  BY <1>2, <1>3, <1>4 DEF SnapshotInv, FreshInv, Outlived
<1>. QED  BY <1>5, <1>6 DEF SnapshotInv

LEMMA SnapshotDispatched ==
  ASSUME Typed, SnapshotInv, op # Idle, Dispatch  PROVE SnapshotInv'
<1>. USE DEF sources, list
<1>o. op \in Operation(op.took)
  BY OpSteps
<1>3. UNCHANGED <<entries, enabled, cached, account, cabinet, snapshot>> /\ op.at = "begin"
  BY DEF Dispatch
<1>4. Taken' = Taken /\ Known' = Known /\ Merged(Taken, Known)' = Merged(Taken, Known)
  BY <1>3 DEF Taken, Known, Merged
<1>5. CASE \E ids \in SUBSET Ids : Fetching(ids)
  <2>1. PICK ids \in SUBSET Ids : Fetching(ids)
    BY <1>5
  <2>2. PICK o : o = [op EXCEPT !.at = "fetch", !.todo = ids, !.same = TRUE] /\ op' = o
    BY <2>1 DEF Fetching
  <2>3. o.at = "fetch" /\ dirty' = TRUE
    BY <1>o, <2>1, <2>2 DEF Operation, Fetching
  <2>. QED  BY <1>3, <2>2, <2>3 DEF SnapshotInv, CabinetInv, RebuildInv, FreshInv
<1>6. CASE op' = [op EXCEPT !.at = "rebuild"] /\ UNCHANGED dirty
  <2>1. PICK o : o = [op EXCEPT !.at = "rebuild"] /\ op' = o
    BY <1>6
  <2>2. o.at = "rebuild" /\ o.same = op.same /\ o # Idle
    <3>1. o \in Operation(op.took)
      BY <2>1, OpSteps DEF Phases
    <3>. QED  BY <1>o, <2>1, <3>1, NotIdle DEF Operation
  <2>3. FreshInv'
    BY <1>3, <1>6, <2>1, <2>2, SnapshotWaits
  <2>. QED  BY <1>3, <1>6, <2>1, <2>2, <2>3 DEF SnapshotInv, CabinetInv, RebuildInv
<1>7. CASE Ends(TRUE) /\ UNCHANGED dirty
  <2>1. op' = Idle
    BY <1>7 DEF Ends
  <2>2. FreshInv'
    BY <1>3, <1>4, <1>7, <2>1 DEF SnapshotInv, FreshInv, Outlived
  <2>. QED  BY <1>3, <2>1, <2>2 DEF SnapshotInv, CabinetInv, RebuildInv
<1>8. {op.call.id} \in SUBSET Ids \/ op.call.id \notin enabled
  BY DEF Typed
<1>9. enabled \in SUBSET Ids
  BY DEF Typed
<1>. QED  BY <1>5, <1>6, <1>7, <1>8, <1>9 DEF Dispatch

LEMMA SnapshotFetched ==
  ASSUME Typed, SnapshotInv, op # Idle, Fetched  PROVE SnapshotInv'
<1>. USE DEF sources, list
<1>o. op \in Operation(op.took)
  BY OpSteps
<1>1. UNCHANGED <<entries, enabled, cached, account, cabinet, snapshot, dirty>> /\ dirty
  BY DEF Fetched, SnapshotInv, RebuildInv
<1>2. CASE op' = [op EXCEPT !.at = "cabinet", !.acct = account]
  <2>1. PICK o : o = [op EXCEPT !.at = "cabinet", !.acct = account] /\ op' = o
    BY <1>2
  <2>2. o.at = "cabinet" /\ o.acct = account
    BY <1>o, <2>1 DEF Operation
  <2>. QED  BY <1>1, <2>1, <2>2 DEF SnapshotInv, CabinetInv, RebuildInv, FreshInv
<1>3. CASE op' = [op EXCEPT !.at = "rebuild"]
  <2>1. PICK o : o = [op EXCEPT !.at = "rebuild"] /\ op' = o
    BY <1>3
  <2>2. o.at = "rebuild"
    BY <1>o, <2>1 DEF Operation
  <2>. QED  BY <1>1, <2>1, <2>2 DEF SnapshotInv, CabinetInv, RebuildInv, FreshInv
<1>. QED  BY <1>2, <1>3 DEF Fetched

LEMMA SnapshotRebuilds ==
  ASSUME Typed, SnapshotInv, op # Idle, Rebuild  PROVE SnapshotInv'
<1>. USE DEF sources, list
<1>o. op \in Operation(op.took) /\ enabled \subseteq Ids
  BY OpSteps DEF Typed
<1>1. UNCHANGED <<entries, enabled, cached, account, cabinet, snapshot, dirty>>
  BY DEF Rebuild
<1>a. PICK old \in SUBSET Ids : op' = [op EXCEPT
                !.at = "sources", !.same = TRUE,
                !.took = Among(entries, enabled),
                !.todo = enabled \ ({id \in enabled : cached[id] # NotFetched} \ old),
                !.got = [id \in Ids |-> IF id \in {x \in enabled : cached[x] # NotFetched} \ old
                                          THEN cached[id] ELSE NotFetched]]
  BY <1>o DEF Rebuild
<1>2. PICK o : /\ op' = o
               /\ o = [op EXCEPT
                !.at = "sources", !.same = TRUE,
                !.took = Among(entries, enabled),
                !.todo = enabled \ ({id \in enabled : cached[id] # NotFetched} \ old),
                !.got = [id \in Ids |-> IF id \in {x \in enabled : cached[x] # NotFetched} \ old
                                          THEN cached[id] ELSE NotFetched]]
  BY <1>a
<1>3. /\ o.at = "sources" /\ o.same = TRUE /\ o.took = Taken
      /\ o.todo = enabled \ ({id \in enabled : cached[id] # NotFetched} \ old)
      /\ o.got = [id \in Ids |-> IF id \in {x \in enabled : cached[x] # NotFetched} \ old
                                          THEN cached[id] ELSE NotFetched]
  BY <1>o, <1>2 DEF Operation, Taken
<1>4. \A id \in Ids : id \in o.todo \/ o.got[id] = Known[id]
  BY <1>3 DEF Known
<1>5. o # Idle
  <2>1. "call" \in DOMAIN o /\ "call" \notin DOMAIN Idle
    BY <1>o, <1>2 DEF Operation, Idle
  <2>. QED  BY <2>1
<1>6. Taken' = Taken /\ Known' = Known /\ FreshInv' /\ CabinetInv'
  BY <1>1, <1>2, <1>3, <1>5, SnapshotWaits DEF CabinetInv
<1>7. RebuildInv'
  BY <1>1, <1>2, <1>3, <1>4, <1>6 DEF RebuildInv
<1>. QED  BY <1>6, <1>7 DEF SnapshotInv

LEMMA SnapshotDecides ==
  ASSUME Typed, SnapshotInv, op # Idle, Decide  PROVE SnapshotInv'
<1>. USE DEF sources, list
<1>o. op \in Operation(op.took)
  BY OpSteps
<1>1. /\ UNCHANGED <<entries, enabled, cached, account, snapshot, dirty>>
      /\ op.at = "sources" /\ op.todo = {}
  BY DEF Decide
<1>2. Taken' = Taken /\ Known' = Known
  BY <1>1 DEF Taken, Known
<1>3. /\ op.same => op.took = Taken /\ \A id \in Ids : op.got[id] = Known[id]
      /\ ~op.same => dirty
  BY <1>1 DEF SnapshotInv, RebuildInv
<1>4. CASE account # NoAccount /\ ToSet(op.took) \intersect Twins # {}
  <2>1. PICK o : o = [op EXCEPT !.at = "build"] /\ op' = o
    BY <1>4 DEF Decide
  <2>2. /\ o.at = "build" /\ o.same = op.same /\ o.took = op.took /\ o.todo = {} /\ o.got = op.got
        /\ cabinet' = NoAccount
    BY <1>1, <1>4, <1>o, <2>1 DEF Operation, Decide
  <2>3. CabinetInv' /\ RebuildInv'
    BY <1>1, <1>2, <1>3, <2>1, <2>2 DEF CabinetInv, RebuildInv
  <2>4. FreshInv'
    <3>1. SUFFICES ASSUME ~dirty, ~Outlived  PROVE FreshInv'
      BY <1>1 DEF FreshInv, Outlived
    <3>2. ToSet(Taken) \intersect Twins # {}
      BY <1>3, <1>4, <3>1
    <3>3. snapshot.cabinet \notin Accounts
      BY <3>1, <3>2 DEF SnapshotInv, FreshInv
    <3>4. o # Idle
      <4>1. o \in Operation(op.took)
        BY <2>1, OpSteps DEF Phases
      <4>. QED  BY <4>1, NotIdle
    <3>. QED  BY <1>1, <1>2, <2>1, <2>2, <3>1, <3>3, <3>4 DEF SnapshotInv, FreshInv
  <2>. QED  BY <2>3, <2>4 DEF SnapshotInv
<1>5. CASE ~(account # NoAccount /\ ToSet(op.took) \intersect Twins # {})
  <2>0. cabinet' = cabinet
    BY <1>5 DEF Decide
  <2>1. CASE op' = [op EXCEPT !.at = "build"]
    <3>1. PICK o : o = [op EXCEPT !.at = "build"] /\ op' = o
      BY <2>1
    <3>2. o.at = "build" /\ o.same = op.same /\ o.took = op.took /\ o.todo = {} /\ o.got = op.got
      BY <1>1, <1>o, <3>1 DEF Operation
    <3>3. o # Idle
      <4>1. o \in Operation(op.took)
        BY <3>1, OpSteps DEF Phases
      <4>. QED  BY <4>1, NotIdle
    <3>4. FreshInv' /\ CabinetInv'
      BY <1>1, <2>0, <3>1, <3>2, <3>3, SnapshotWaits DEF CabinetInv
    <3>5. RebuildInv'
      BY <1>1, <1>2, <1>3, <1>5, <3>1, <3>2 DEF RebuildInv
    <3>. QED  BY <3>4, <3>5 DEF SnapshotInv
  <2>2. CASE op' = [op EXCEPT !.at = "account", !.acct = account]
    <3>1. PICK o : o = [op EXCEPT !.at = "account", !.acct = account] /\ op' = o
      BY <2>2
    <3>2. /\ o.at = "account" /\ o.same = op.same /\ o.took = op.took /\ o.todo = {} /\ o.got = op.got
          /\ o.acct = account
      BY <1>1, <1>o, <3>1 DEF Operation
    <3>3. o # Idle
      <4>1. "call" \in DOMAIN o /\ "call" \notin DOMAIN Idle
        BY <1>o, <3>1 DEF Operation, Idle
      <4>. QED  BY <4>1
    <3>4. FreshInv' /\ CabinetInv'
      BY <1>1, <2>0, <3>1, <3>2, <3>3, SnapshotWaits DEF CabinetInv
    <3>5. RebuildInv'
      BY <1>1, <1>2, <1>3, <1>5, <3>1, <3>2 DEF RebuildInv
    <3>. QED  BY <3>4, <3>5 DEF SnapshotInv
  <2>. QED  BY <1>5, <2>1, <2>2 DEF Decide
<1>. QED  BY <1>4, <1>5

LEMMA SnapshotAccount ==
  ASSUME Typed, SnapshotInv, op # Idle, CabinetAnswers  PROVE SnapshotInv'
<1>. USE DEF sources, list
<1>o. op \in Operation(op.took) /\ account \in Accounts \union {NoAccount}
  BY OpSteps DEF Typed
<1>1. UNCHANGED <<entries, enabled, cached, account, snapshot, dirty>> /\ op.at \in {"cabinet", "account"}
  BY DEF CabinetAnswers
<1>2. Taken' = Taken /\ Known' = Known
  BY <1>1 DEF Taken, Known
<1>3. PICK o : /\ o = [op EXCEPT !.at = IF op.at = "cabinet" THEN "rebuild" ELSE "build", !.acct = NoAccount]
               /\ op' = o
  BY DEF CabinetAnswers
<1>4. /\ o.at = IF op.at = "cabinet" THEN "rebuild" ELSE "build"
      /\ o.same = op.same /\ o.took = op.took /\ o.todo = op.todo /\ o.got = op.got
  BY <1>o, <1>3 DEF Operation
<1>5. o # Idle
  <2>1. "call" \in DOMAIN o /\ "call" \notin DOMAIN Idle
    BY <1>o, <1>3 DEF Operation, Idle
  <2>. QED  BY <2>1
<1>6. ~op.same => cabinet' = cabinet
  BY DEF CabinetAnswers
<1>7. op.same /\ account # NoAccount => cabinet' \in {account, NoServers, cabinet}
                                        /\ (cabinet = NoAccount => cabinet' \in {account, NoServers})
  <2>1. SUFFICES ASSUME op.same, account # NoAccount
                 PROVE  /\ cabinet' \in {account, NoServers, cabinet}
                        /\ cabinet = NoAccount => cabinet' \in {account, NoServers}
    OBVIOUS
  <2>2. op.acct = account
    BY <1>1, <2>1 DEF SnapshotInv, CabinetInv
  <2>3. cabinet' \in {account} \union {IF cabinet = NoAccount THEN NoServers ELSE cabinet}
    BY <2>1, <2>2 DEF CabinetAnswers
  <2>. QED  BY <2>3
<1>8. account # NoAccount => cabinet' \in {account, NoAccount, NoServers}
  BY <1>6, <1>7 DEF SnapshotInv, CabinetInv
<1>9. CabinetInv'
  BY <1>1, <1>3, <1>4, <1>8 DEF CabinetInv
<1>10. RebuildInv'
  BY <1>1, <1>2, <1>3, <1>4, <1>5 DEF SnapshotInv, RebuildInv
<1>11. FreshInv'
  <2>1. SUFFICES ASSUME ~dirty, ~Outlived  PROVE FreshInv'
    BY <1>1 DEF FreshInv, Outlived
  <2>2. op.same
    BY <2>1 DEF SnapshotInv, RebuildInv
  <2>3. ASSUME snapshot.cabinet \in Accounts  PROVE cabinet' = snapshot.cabinet
    <3>1. account # NoAccount
      BY <2>1, <2>3 DEF Outlived
    <3>2. cabinet = snapshot.cabinet /\ snapshot.cabinet = account
      BY <2>1, <2>3, SubscriptionsAssumption DEF SnapshotInv, FreshInv, Contents
    <3>3. cabinet' \in {account} \union {IF cabinet = NoAccount THEN NoServers ELSE cabinet}
      BY <1>1, <2>2, <3>1 DEF CabinetAnswers, SnapshotInv, CabinetInv
    <3>. QED  BY <3>1, <3>2, <3>3
  <2>. QED  BY <1>1, <1>2, <1>3, <1>4, <1>5, <2>1, <2>3 DEF SnapshotInv, FreshInv
<1>. QED  BY <1>9, <1>10, <1>11 DEF SnapshotInv

LEMMA SnapshotAnswered ==
  ASSUME Typed, SnapshotInv, op # Idle, NEW id \in Ids, Answers(id)  PROVE SnapshotInv'
<1>. USE DEF sources, list
<1>o. op \in Operation(op.took) /\ cached \in [Ids -> Contents \union {NotFetched}] /\ op.same \in BOOLEAN
  BY OpSteps DEF Typed, Operation
<1>1. /\ UNCHANGED <<entries, enabled, account, cabinet, snapshot, dirty>>
      /\ op.at \in {"fetch", "sources"} /\ id \in op.todo
  BY DEF Answers
<1>a. PICK r \in FetchOne(id) :
        /\ cached' = IF op.same THEN [cached EXCEPT ![id] = r] ELSE cached
        /\ op' = [op EXCEPT !.todo = @ \ {id}, !.got[id] = IF op.at = "sources" THEN r ELSE @]
  BY DEF Answers
<1>2. PICK o :
        /\ cached' = IF op.same THEN [cached EXCEPT ![id] = r] ELSE cached
        /\ o = [op EXCEPT !.todo = @ \ {id}, !.got[id] = IF op.at = "sources" THEN r ELSE @]
        /\ op' = o
  BY <1>a
<1>3. /\ o.at = op.at /\ o.same = op.same /\ o.took = op.took /\ o.todo = op.todo \ {id}
      /\ o.acct = op.acct
      /\ o.got = [op.got EXCEPT ![id] = IF op.at = "sources" THEN r ELSE @]
  BY <1>o, <1>2 DEF Operation
<1>4. o # Idle
  <2>1. "call" \in DOMAIN o /\ "call" \notin DOMAIN Idle
    BY <1>o, <1>2 DEF Operation, Idle
  <2>. QED  BY <2>1
<1>5. Taken' = Taken
  BY <1>1 DEF Taken
<1>6. CabinetInv'
  BY <1>1, <1>2, <1>3 DEF SnapshotInv, CabinetInv
<1>7. ASSUME op.same, op.at = "sources", NEW x \in Ids, x \notin op.todo \ {id}
      PROVE  o.got[x] = Known'[x]
  <2>0. op.got \in [Ids -> Contents \union {NotFetched}] /\ id \in enabled
    BY <1>o, <1>1, <1>7 DEF Operation, SnapshotInv, RebuildInv
  <2>1. CASE x = id
    BY <1>1, <1>2, <1>3, <1>7, <1>o, <2>0, <2>1 DEF Known
  <2>2. CASE x # id
    <3>1. op.got[x] = Known[x]
      BY <1>7, <2>2 DEF SnapshotInv, RebuildInv
    <3>2. cached'[x] = cached[x] /\ o.got[x] = op.got[x]
      BY <1>2, <1>3, <1>o, <2>0, <2>2
    <3>. QED  BY <1>1, <3>1, <3>2 DEF Known
  <2>. QED  BY <2>1, <2>2
<1>8. RebuildInv'
  <2>1. o.same /\ o.at \in {"sources", "account", "build"} =>
          /\ o.took = Taken' /\ o.todo \subseteq enabled'
          /\ \A x \in Ids : x \in o.todo \/ o.got[x] = Known'[x]
          /\ o.at = "sources"
    BY <1>1, <1>3, <1>5, <1>7 DEF SnapshotInv, RebuildInv
  <2>2. ~o.same \/ o.at \in {"fetch", "cabinet"} => dirty'
    BY <1>1, <1>3 DEF SnapshotInv, RebuildInv
  <2>. QED  BY <1>2, <2>1, <2>2 DEF RebuildInv
<1>9. FreshInv'
  <2>1. SUFFICES ASSUME ~dirty, ~Outlived  PROVE FreshInv'
    BY <1>1 DEF FreshInv, Outlived
  <2>2. ASSUME NEW x \in Ids, cached[x] \in Data  PROVE cached'[x] \in Data
    <3>1. x = id => r \in Data
      BY <2>2, SubscriptionsAssumption DEF FetchOne, Contents
    <3>. QED  BY <1>2, <1>o, <2>2, <3>1
  <2>. QED  BY <1>1, <1>2, <1>3, <1>4, <1>5, <2>1, <2>2 DEF SnapshotInv, FreshInv
<1>. QED  BY <1>6, <1>8, <1>9 DEF SnapshotInv

LEMMA SnapshotBuilt ==
  ASSUME Typed, SnapshotInv, op # Idle, Build  PROVE SnapshotInv'
<1>. USE DEF sources, list
<1>o. /\ op \in Operation(op.took) /\ op.same \in BOOLEAN
      /\ op.got \in [Ids -> Contents \union {NotFetched}]
      /\ account \in Accounts \union {NoAccount}
      /\ cabinet \in Accounts \union {NoAccount, NoServers}
      /\ cached \in [Ids -> Contents \union {NotFetched}]
  BY OpSteps DEF Typed, Operation
<1>1. UNCHANGED <<entries, enabled, cached, account, cabinet>> /\ op.at = "build"
  BY DEF Build
<1>2. Taken' = Taken /\ Known' = Known /\ Merged(Taken, Known)' = Merged(Taken, Known)
  BY <1>1 DEF Taken, Known, Merged
<1>3. CASE ~op.same
  <2>1. PICK o : o = [op EXCEPT !.at = "rebuild"] /\ op' = o
    BY <1>3 DEF Build
  <2>2. o.at = "rebuild" /\ UNCHANGED <<snapshot, dirty>> /\ dirty
    BY <1>3, <1>o, <2>1 DEF Operation, Build, SnapshotInv, RebuildInv
  <2>. QED  BY <1>1, <2>1, <2>2 DEF SnapshotInv, CabinetInv, RebuildInv, FreshInv
<1>4. ASSUME op.same  PROVE op.took = Taken /\ op.got = Known
  <2>1. op.took = Taken /\ \A x \in Ids : op.got[x] = Known[x]
    BY <1>1, <1>4 DEF SnapshotInv, RebuildInv
  <2>2. Known \in [Ids -> Contents \union {NotFetched}]
    BY <1>o DEF Known
  <2>. QED  BY <1>o, <2>1, <2>2
<1>m. /\ Merged(Taken, Known).cabinet = cabinet
      /\ Merged(Taken, Known).got = Known
      /\ cabinet \notin Accounts => Merged(Taken, Known).order = Taken
  BY DEF Merged
<1>5. CASE op.same /\ HasServers(Merged(op.took, op.got))
  <2>1. snapshot' = Merged(Taken, Known) /\ dirty' = FALSE /\ op' = Idle
    BY <1>4, <1>5 DEF Build, Ends
  <2>2. CabinetInv' /\ RebuildInv'
    BY <1>1, <2>1 DEF SnapshotInv, CabinetInv, RebuildInv
  <2>3. FreshInv'
    <3>0. snapshot'.cabinet = cabinet
      BY <1>m, <2>1
    <3>1. SUFFICES ASSUME ~(account = NoAccount /\ cabinet \in Accounts)  PROVE FreshInv'
      BY <1>1, <3>0 DEF FreshInv, Outlived
    <3>2. cabinet \in {account, NoAccount, NoServers}
      BY <1>o, <3>1 DEF SnapshotInv, CabinetInv
    <3>3. cabinet \in Accounts => ToSet(Taken) \intersect Twins = {}
      BY <1>1, <1>5, <3>1, SubscriptionsAssumption DEF SnapshotInv, RebuildInv
    <3>4. ASSUME cabinet \notin Accounts
          PROVE  \E id \in Ids : id \in enabled /\ id \in ToSet(Taken) /\ cached[id] \in Data
      <4>1. PICK id \in Ids : id \in ToSet(Taken) /\ Known[id] \in Data
        BY <1>4, <1>5, <1>m, <3>4 DEF HasServers
      <4>2. NotFetched \notin Data
        BY SubscriptionsAssumption DEF Contents
      <4>. QED  BY <4>1, <4>2 DEF Known
    <3>. QED  BY <1>1, <1>2, <2>1, <3>0, <3>2, <3>3, <3>4 DEF FreshInv
  <2>. QED  BY <2>2, <2>3 DEF SnapshotInv
<1>6. CASE op.same /\ ~HasServers(Merged(op.took, op.got))
  <2>1. op' = Idle /\ UNCHANGED <<snapshot, dirty>>
    BY <1>6 DEF Build, Ends
  <2>2. CabinetInv' /\ RebuildInv'
    BY <1>1, <2>1 DEF SnapshotInv, CabinetInv, RebuildInv
  <2>3. ~HasServers(Merged(Taken, Known))
    BY <1>4, <1>6
  <2>4. dirty \/ Outlived
    <3>1. SUFFICES ASSUME ~dirty, ~Outlived  PROVE HasServers(Merged(Taken, Known))
      BY <2>3
    <3>2. CASE snapshot.cabinet \in Accounts
      BY <1>m, <3>1, <3>2 DEF SnapshotInv, FreshInv, HasServers
    <3>3. CASE snapshot.cabinet \notin Accounts
      <4>1. PICK id \in Ids : id \in enabled /\ id \in ToSet(Taken) /\ cached[id] \in Data
        BY <3>1, <3>3 DEF SnapshotInv, FreshInv
      <4>2. Known[id] \in Data
        BY <4>1 DEF Known
      <4>. QED  BY <1>m, <4>1, <4>2 DEF HasServers
    <3>. QED  BY <3>2, <3>3
  <2>5. FreshInv'
    BY <1>1, <2>1, <2>4 DEF FreshInv, Outlived
  <2>. QED  BY <2>2, <2>5 DEF SnapshotInv
<1>. QED  BY <1>3, <1>5, <1>6, <1>o

LEMMA SnapshotStep == ASSUME Typed, SnapshotInv, [Next]_vars  PROVE SnapshotInv'
<1>. USE DEF sources, list
<1>1. CASE Request \/ (\E id \in Ids : Fire(id) \/ Notified(id)) \/ UNCHANGED vars
  <2>1. UNCHANGED <<entries, enabled, cached, account, cabinet, snapshot, dirty, op>>
    BY <1>1 DEF Request, Fire, Notified, vars
  <2>. QED  BY <2>1, SnapshotSame
<1>2. CASE \/ \E id \in Ids : Add(id) \/ RemoveEntry(id) \/ Toggle(id) \/ \E m \in Intervals : SetInterval(id, m)
           \/ Reorder \/ Logout \/ \E a \in Accounts : SetAccount(a)
  BY <1>2, SnapshotEdits
<1>3. CASE Begin
  BY <1>3, SnapshotBegins
<1>4. CASE op # Idle /\ (Dispatch \/ Fetched \/ Rebuild \/ Decide \/ Build)
  BY <1>4, SnapshotDispatched, SnapshotFetched, SnapshotRebuilds, SnapshotDecides, SnapshotBuilt
<1>5. CASE op # Idle /\ (CabinetAnswers \/ \E id \in Ids : Answers(id))
  BY <1>5, SnapshotAccount, SnapshotAnswered
<1>. QED  BY <1>1, <1>2, <1>3, <1>4, <1>5 DEF Next, User, Microtask, Reply, Settles, Timer

\* What is offered between two operations is what the present list gives of
\* what is known of each source, in the user's order, and nothing of an account
\* signed in to before: however edits, sign-ins and logouts fall between the
\* awaits of a refresh.
THEOREM SnapshotIsOfPresentList == Spec => []SnapshotIsCurrent
<1>1. Typed /\ ChainInv /\ SnapshotInv /\ [Next]_vars => Typed' /\ ChainInv' /\ SnapshotInv'
  <2>1. Typed /\ ChainInv /\ [Next]_vars => Typed'
    BY TypedStep
  <2>. QED  BY <2>1, ChainStep, SnapshotStep
<1>2. Init => Typed /\ ChainInv /\ SnapshotInv
  <2>1. Init => SnapshotInv
    BY DEF Init, SnapshotInv, CabinetInv, RebuildInv, FreshInv
  <2>. QED  BY <2>1, TypedInit, ChainInit
<1>3. SnapshotInv => SnapshotIsCurrent
  BY DEF SnapshotInv, FreshInv, Outlived, SnapshotIsCurrent, Taken
<1>. QED  BY <1>1, <1>2, <1>3, PTL DEF Spec

=============================================================================
