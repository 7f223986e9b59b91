---------------------------- MODULE Subscriptions ----------------------------
(***************************************************************************)
(* The subscriptions of the Windows application while it runs: the list    *)
(* the user edits (SubscriptionStore), the service that fetches every      *)
(* source and merges them into the snapshot the engine is given            *)
(* (SubscriptionAggregatorService), and the jobs that refresh each entry   *)
(* on its interval (SubscriptionScheduler).                                *)
(*                                                                         *)
(* The operations of the aggregator run one after the other, but the user  *)
(* edits the list, and signs in and out, at any await of one. The contents *)
(* of a source are a member of Data, different whenever its server changes *)
(* what it serves: a fetch gets any of them, or fails. The revision that   *)
(* an operation captured is kept as the outcome of comparing it (same).    *)
(***************************************************************************)
EXTENDS Naturals, Sequences, FiniteSets, SequencesExt

CONSTANTS
  Ids,        \* subscriptions: an identifier is used once
  Accounts,   \* personal cabinets one can sign in to
  Data,       \* contents of a source that are told apart
  Twins,      \* entries of the host the cabinet's own subscription is at
  Covered,    \* entries whose servers are all among the cabinet's
  Intervals, Default,  \* minutes between refreshes, at first; 0: never
  Edits,      \* which edits are made
  MaxEdits, MaxWaiting,  \* bounds: edits, operations waiting for their turn
  NotFetched, NoServers, NoAccount, NoJob, NoSnapshot

Contents == Data \union {NoServers}

ASSUME SubscriptionsAssumption ==
  /\ Twins \subseteq Ids /\ Covered \subseteq Ids /\ {0, Default} \subseteq Intervals
  /\ Edits \subseteq {"add", "remove", "toggle", "interval", "reorder", "account", "logout"}
  /\ NoServers \notin Data \union Accounts /\ NotFetched \notin Contents
  /\ NoAccount \notin Accounts /\ NoJob \notin Intervals
  /\ MaxEdits \in Nat /\ MaxWaiting \in Nat

VARIABLES
  entries,   \* the list, in the user's order
  enabled, every,
  unused,    \* identifiers of entries still to be added
  cached,    \* cachedResults: what is known of each source
  account,   \* the stored config source of the cabinet
  cabinet,   \* cachedConfigSource: whose servers are known
  asked,     \* configSourceCacheInitialized
  snapshot, dirty,
  op,        \* the operation under way; "idle": none
  waiting,   \* operationTail
  jobs, timers,  \* interval of each scheduled job, timers armed for it
  notifying, \* jobs that wait for the engine to take their refresh
  edits

list == <<entries, enabled, every, unused>>
sources == <<cached, cabinet, asked>>
schedule == <<jobs, timers, notifying>>
vars == <<list, sources, account, snapshot, dirty, op, waiting, schedule, edits>>

Call == [kind : {"one", "all", "get", "check"}, id : Ids \union {"-"}, job : BOOLEAN]

Phases == {"begin", "fetch", "cabinet", "rebuild", "sources", "decide", "account", "build"}

Op == [call : Call, at : Phases, same : BOOLEAN,
       todo : SUBSET Ids,          \* fetches under way
       took : Seq(Ids),            \* the entries the snapshot is built from
       got : [Ids -> Contents \union {NotFetched}],
       acct : Accounts \union {NoAccount}]

Idle == [at |-> "idle"]

Snapshot ==
  [order : Seq(Ids), got : [Ids -> Contents \union {NotFetched}],
   cabinet : Accounts \union {NoAccount, NoServers}]

TypeOK ==
  /\ entries \in Seq(Ids) /\ enabled \subseteq ToSet(entries)
  /\ every \in [Ids -> Intervals] /\ unused \subseteq Ids \ ToSet(entries)
  /\ cached \in [Ids -> Contents \union {NotFetched}]
  /\ account \in Accounts \union {NoAccount}
  /\ cabinet \in Accounts \union {NoAccount, NoServers} /\ asked \in BOOLEAN
  /\ snapshot \in Snapshot \union {NoSnapshot} /\ dirty \in BOOLEAN
  /\ op = Idle \/ op \in Op
  /\ waiting \in Seq(Call)
  /\ jobs \in [Ids -> Intervals \union {NoJob}] /\ timers \in [Ids -> Nat]
  /\ notifying \subseteq Ids /\ edits \in 0..MaxEdits

Due(id) == id \in enabled /\ every[id] > 0

\* filter(): the subscriptions of s that are in S.
Among(s, S) == SelectSeq(s, LAMBDA id : id \in S)

\* The application has started: start() has scheduled what is due.
Init ==
  /\ \E S \in SUBSET Ids : entries = SetToSeq(S) /\ enabled = S /\ unused = Ids \ S
  /\ every = [id \in Ids |-> Default]
  /\ cached = [id \in Ids |-> NotFetched]
  /\ account \in Accounts \union {NoAccount} /\ cabinet = NoAccount /\ asked = FALSE
  /\ snapshot = NoSnapshot /\ dirty = TRUE /\ op = Idle /\ waiting = <<>>
  /\ jobs = [id \in Ids |-> IF Due(id) THEN every[id] ELSE NoJob]
  /\ timers = [id \in Ids |-> IF Due(id) THEN 1 ELSE 0]
  /\ notifying = {} /\ edits = 0

-----------------------------------------------------------------------------
(* Jobs                                                                   *)

\* The run of id's present job has not ended: it waits for its turn, is under
\* way, or waits for the engine.
Running(id) ==
  \/ id \in notifying
  \/ op # Idle /\ op.call.id = id /\ op.call.job
  \/ \E i \in DOMAIN waiting : waiting[i].id = id /\ waiting[i].job

\* clearTimeout() of the present job, whose timer is not armed while it runs.
Cancelled(id) ==
  IF ~Running(id) THEN timers[id] - 1 ELSE timers[id]

\* reconcile(), after an edit has made due' and every' of the list: jobs not
\* wanted or of another interval are dropped, and the runs of these will not
\* find themselves in the map; those missing are scheduled.
Reconciles(due, interval) ==
  LET stale == {id \in Ids : jobs[id] # NoJob /\ (id \notin due \/ interval[id] # jobs[id])}
      new == {id \in due : jobs[id] = NoJob \/ id \in stale} IN
  /\ jobs' = [id \in Ids |-> IF id \in new THEN interval[id]
                             ELSE IF id \in stale THEN NoJob ELSE jobs[id]]
  /\ timers' = [id \in Ids |-> (IF id \in stale THEN Cancelled(id) ELSE timers[id])
                               + (IF id \in new THEN 1 ELSE 0)]
  /\ notifying' = notifying \ stale
  /\ waiting' = [i \in DOMAIN waiting |->
                   [waiting[i] EXCEPT !.job = @ /\ waiting[i].id \notin stale]]

\* Mutant of Orphaned: a run goes on although its job was replaced.
Orphaned_Never(o) == o

\* The run under way will not find its job in the map if this step dropped it.
Orphaned(o) ==
  IF o # Idle /\ o.call.job /\ jobs'[o.call.id] # jobs[o.call.id]
    THEN [o EXCEPT !.call.job = FALSE] ELSE o

-----------------------------------------------------------------------------
(* Edits: each one, with what it invalidates, is one turn of a handler     *)

Edit(e) == e \in Edits /\ edits < MaxEdits /\ edits' = edits + 1

\* Mutant of Outdated: invalidationRevision does not change.
Outdated_Never(o) == o

\* Whoever captured invalidationRevision finds that it has changed.
Outdated(o) == IF o = Idle THEN Idle ELSE [o EXCEPT !.same = FALSE]

Add(id) ==
  /\ Edit("add") /\ id \in unused /\ unused' = unused \ {id}
  /\ entries' = Append(entries, id) /\ enabled' = enabled \union {id}
  /\ dirty' = TRUE /\ op' = Outdated(op)
  /\ Reconciles({x \in enabled' : every[x] > 0}, every)
  /\ UNCHANGED <<every, sources, account, snapshot>>

RemoveEntry(id) ==
  /\ Edit("remove") /\ id \in ToSet(entries)
  /\ entries' = Remove(entries, id) /\ enabled' = enabled \ {id}
  /\ cached' = [cached EXCEPT ![id] = NotFetched]
  /\ dirty' = TRUE
  /\ Reconciles({x \in enabled' : every[x] > 0}, every)
  /\ op' = Orphaned(Outdated(op))
  /\ UNCHANGED <<every, unused, cabinet, asked, account, snapshot>>

Toggle(id) ==
  /\ Edit("toggle") /\ id \in ToSet(entries)
  /\ enabled' = IF id \in enabled THEN enabled \ {id} ELSE enabled \union {id}
  /\ dirty' = TRUE
  /\ Reconciles({x \in enabled' : every[x] > 0}, every)
  /\ op' = Orphaned(Outdated(op))
  /\ UNCHANGED <<entries, every, unused, sources, account, snapshot>>

SetInterval(id, m) ==
  /\ Edit("interval") /\ id \in ToSet(entries) /\ every' = [every EXCEPT ![id] = m]
  /\ Reconciles({x \in enabled : every'[x] > 0}, every')
  /\ op' = Orphaned(op)
  /\ UNCHANGED <<entries, enabled, unused, sources, account, snapshot, dirty>>

Reorder ==
  /\ Edit("reorder") /\ entries' \in SetToSeqs(ToSet(entries))
  /\ dirty' = TRUE /\ op' = Outdated(op)
  /\ UNCHANGED <<enabled, every, unused, sources, account, snapshot, waiting, schedule>>

\* updateRuntimeConfigSource(), after a sign-in or an import has stored it.
SetAccount(a) ==
  /\ Edit("account") /\ account' = a
  /\ cabinet' = NoAccount /\ asked' = FALSE /\ dirty' = TRUE /\ op' = Outdated(op)
  /\ UNCHANGED <<list, cached, snapshot, waiting, schedule>>

\* ConfigSourceService.clear(), of a logout: only what is stored.
Logout ==
  /\ Edit("logout") /\ account # NoAccount /\ account' = NoAccount
  /\ UNCHANGED <<list, sources, snapshot, dirty, op, waiting, schedule>>

-----------------------------------------------------------------------------
(* Operations                                                             *)

MayWait == Len(waiting) < MaxWaiting

Enqueue(kind, id, job) ==
  waiting' = Append(waiting, [kind |-> kind, id |-> id, job |-> job])

\* refreshOne(), refreshAll() and getSnapshotOrFetch(), of the user, the
\* engine's service and the pages.
Request ==
  /\ op = Idle /\ waiting = <<>>  \* bound: what others ask meanwhile waits like a job's
  /\ \/ \E id \in enabled : Enqueue("one", id, FALSE)
     \/ \E kind \in {"all", "get", "check"} : Enqueue(kind, "-", FALSE)
  /\ UNCHANGED <<list, sources, account, snapshot, dirty, op, schedule, edits>>

\* A timer fires: runJob() up to its first await.
Fire(id) ==
  /\ timers[id] > 0 /\ MayWait
  /\ timers' = [timers EXCEPT ![id] = @ - 1]
  /\ IF jobs[id] # NoJob /\ Due(id)
       THEN Enqueue("one", id, TRUE) /\ UNCHANGED jobs
       ELSE jobs' = [jobs EXCEPT ![id] = NoJob] /\ UNCHANGED waiting
  /\ UNCHANGED <<list, sources, account, snapshot, dirty, op, notifying, edits>>

Begin ==
  /\ op = Idle /\ waiting # <<>>
  /\ op' = [call |-> Head(waiting), at |-> "begin", same |-> TRUE, todo |-> {}, took |-> <<>>,
            got |-> [id \in Ids |-> NotFetched], acct |-> NoAccount]
  /\ waiting' = Tail(waiting)
  /\ UNCHANGED <<list, sources, account, snapshot, dirty, schedule, edits>>

\* The job of an entry is scheduled for its next interval.
Rearms(id) ==
  IF Due(id) THEN /\ jobs' = [jobs EXCEPT ![id] = every[id]]
                  /\ timers' = [timers EXCEPT ![id] = @ + 1]
             ELSE jobs' = [jobs EXCEPT ![id] = NoJob] /\ UNCHANGED timers

\* Mutant of Ends: a refresh that failed is the job's last.
Ends_OnFailure(ok) ==
  /\ op' = Idle
  /\ notifying' = IF ok /\ op.call.job THEN notifying \union {op.call.id} ELSE notifying
  /\ UNCHANGED <<jobs, timers>>

\* After a job's refresh that succeeded the engine is notified; after one that
\* failed the job is scheduled again.
Ends(ok) ==
  /\ op' = Idle
  /\ notifying' = IF ok /\ op.call.job THEN notifying \union {op.call.id} ELSE notifying
  /\ IF ~ok /\ op.call.job THEN Rearms(op.call.id) ELSE UNCHANGED <<jobs, timers>>

\* The engine has taken the refresh, or has failed to: not fatal.
Notified(id) ==
  /\ id \in notifying /\ notifying' = notifying \ {id} /\ Rearms(id)
  /\ UNCHANGED <<list, sources, account, snapshot, dirty, op, waiting, edits>>

Fetching(ids) ==
  /\ op' = [op EXCEPT !.at = "fetch", !.todo = ids, !.same = TRUE]
  /\ dirty' = TRUE /\ UNCHANGED schedule

\* refreshSource(), refreshSources(), or the rebuild getSnapshotOrFetch()
\* needs; a subscription that is not enabled has nothing to refresh.
Dispatch ==
  /\ op.at = "begin"
  /\ CASE op.call.kind = "one" /\ op.call.id \in enabled -> Fetching({op.call.id})
       [] op.call.kind = "all" -> Fetching(enabled)
       [] op.call.kind = "check" \/ (op.call.kind = "get" /\ dirty) ->
            op' = [op EXCEPT !.at = "rebuild"] /\ UNCHANGED <<dirty, schedule>>
       [] OTHER -> Ends(TRUE) /\ UNCHANGED dirty
  /\ UNCHANGED <<list, sources, account, snapshot, waiting, edits>>

\* fetchOne(): some contents, or an error, which keeps the servers known by then.
FetchOne(id) ==
  Data \union {IF cached[id] = NotFetched THEN NoServers ELSE cached[id]}

\* A source answers; the answer is kept unless something was invalidated.
Answers(id) ==
  /\ op.at \in {"fetch", "sources"} /\ id \in op.todo
  /\ \E r \in FetchOne(id) :
       /\ cached' = IF op.same THEN [cached EXCEPT ![id] = r] ELSE cached
       /\ op' = [op EXCEPT !.todo = @ \ {id},
                           !.got[id] = IF op.at = "sources" THEN r ELSE @]
  /\ UNCHANGED <<list, cabinet, asked, account, snapshot, dirty, waiting, schedule, edits>>

\* All have answered. A refresh of all goes on with the cabinet.
Fetched ==
  /\ op.at = "fetch" /\ op.todo = {}
  /\ op' = IF op.call.kind = "all" THEN [op EXCEPT !.at = "cabinet", !.acct = account]
                                   ELSE [op EXCEPT !.at = "rebuild"]
  /\ UNCHANGED <<list, sources, account, snapshot, dirty, waiting, schedule, edits>>

\* rebuildFromCachedSources(): of the enabled entries in their order, those not
\* known, or known for too long when freshness is checked, are fetched.
Rebuild ==
  /\ op.at = "rebuild"
  /\ LET known == {id \in enabled : cached[id] # NotFetched} IN
     \E old \in IF op.call.kind = "check" THEN SUBSET known ELSE {{}} :
       op' = [op EXCEPT
                !.at = "sources", !.same = TRUE,
                !.took = Among(entries, enabled),
                !.todo = enabled \ (known \ old),
                !.got = [id \in Ids |-> IF id \in known \ old THEN cached[id] ELSE NotFetched]]
  /\ UNCHANGED <<list, sources, account, snapshot, dirty, waiting, schedule, edits>>

\* The cabinet's source is left out when an entry is of the same host, and
\* fetched when it is not known.
Decide ==
  /\ op.at = "sources" /\ op.todo = {}
  /\ IF account # NoAccount /\ ToSet(op.took) \intersect Twins # {}
       THEN /\ cabinet' = NoAccount /\ asked' = TRUE
            /\ op' = [op EXCEPT !.at = "build"]
       ELSE /\ UNCHANGED <<cabinet, asked>>
            /\ \/ /\ asked /\ (cabinet # NoAccount \/ account = NoAccount)
                  /\ op' = [op EXCEPT !.at = "build"]
               \/ /\ ~asked \/ (cabinet = NoAccount /\ account # NoAccount)
                     \/ op.call.kind = "check"
                  /\ op' = [op EXCEPT !.at = "account", !.acct = account]
  /\ UNCHANGED <<list, cached, account, snapshot, dirty, waiting, schedule, edits>>

\* fetchConfigSourceResult() settles: the account's servers, or an error, which
\* keeps those known by then.
CabinetAnswers ==
  /\ op.at \in {"cabinet", "account"}
  /\ \E r \in {op.acct} \union (IF op.acct = NoAccount THEN {}
                 ELSE {IF cabinet = NoAccount THEN NoServers ELSE cabinet}) :
       cabinet' = IF op.same THEN r ELSE cabinet
  /\ asked' = (asked \/ op.same)
  /\ op' = [op EXCEPT !.at = IF op.at = "cabinet" THEN "rebuild" ELSE "build",
                      !.acct = NoAccount]
  /\ UNCHANGED <<list, cached, account, snapshot, dirty, waiting, schedule, edits>>

\* What is merged: entries whose servers the cabinet has as well are left out.
Merged(took, got) ==
  [order |-> IF cabinet \in Accounts THEN Among(took, Ids \ Covered) ELSE took,
   got |-> got, cabinet |-> cabinet]

HasServers(s) ==
  s.cabinet \in Accounts \/ \E id \in Ids : id \in ToSet(s.order) /\ s.got[id] \in Data

\* The snapshot is built, or the rebuild begins again if something was
\* invalidated; without servers there is none.
Build ==
  /\ op.at = "build"
  /\ LET s == Merged(op.took, op.got) IN
     CASE ~op.same -> op' = [op EXCEPT !.at = "rebuild"] /\ UNCHANGED <<snapshot, dirty, schedule>>
       [] op.same /\ HasServers(s) -> snapshot' = s /\ dirty' = FALSE /\ Ends(TRUE)
       [] OTHER -> Ends(FALSE) /\ UNCHANGED <<snapshot, dirty>>
  /\ UNCHANGED <<list, sources, account, waiting, edits>>

-----------------------------------------------------------------------------
User ==
  \/ Request \/ Reorder \/ Logout
  \/ \E a \in Accounts : SetAccount(a)
  \/ \E id \in Ids :
       Add(id) \/ RemoveEntry(id) \/ Toggle(id) \/ \E m \in Intervals : SetInterval(id, m)

\* Continuations of settled promises run before the next event.
Microtask ==
  \/ Begin
  \/ op # Idle /\ (Dispatch \/ Fetched \/ Rebuild \/ Decide \/ Build)

Settles == CabinetAnswers \/ \E id \in Ids : Answers(id)

\* Nothing is left to run before the next event.
Waits ==
  CASE op = Idle -> waiting = <<>>
    [] op # Idle /\ op.at \in {"fetch", "sources"} -> op.todo # {}
    [] OTHER -> op.at \in {"cabinet", "account"}

Timer(id) == Waits /\ Fire(id)
Reply == Waits /\ op # Idle /\ Settles

Next ==
  \/ Microtask \/ Reply
  \/ Waits /\ User
  \/ \E id \in Ids : Timer(id) \/ (Waits /\ Notified(id))

\* Sources answer or fail, timers fire, the engine takes what it is told. A
\* timer is late while MaxWaiting operations wait: hence its strong fairness.
Spec ==
  /\ Init /\ [][Next]_vars
  /\ WF_vars(Microtask \/ Reply)
  /\ \A id \in Ids : SF_vars(Timer(id)) /\ SF_vars(Waits /\ Notified(id))

-----------------------------------------------------------------------------
(* Properties                                                             *)

Known == [id \in Ids |-> IF id \in enabled THEN cached[id] ELSE NotFetched]

\* What getLastSnapshot() offers between two operations is what the present
\* list gives, in its order, of what is known of each source, and nothing of an
\* account signed in to before: no edit falls between the fetches and the merge.
SnapshotIsCurrent ==
  op = Idle /\ ~dirty /\ (account = NoAccount => snapshot.cabinet \notin Accounts) =>
    /\ snapshot = Merged(Among(entries, enabled), Known)
    /\ snapshot.cabinet \in {account, NoAccount, NoServers}

\* A subscription with an interval has one job and one timer, or one refresh
\* under way, never two chains of refreshes: "The user may have edited it while
\* we were running".
OneChainPerEntry ==
  \A id \in Ids :
    /\ jobs[id] = IF Due(id) THEN every[id] ELSE NoJob
    /\ timers[id] = IF Due(id) /\ ~Running(id) THEN 1 ELSE 0

\* "Failures are logged but don't tear down the schedule": as long as it has an
\* interval, an entry is refreshed again and again.
RefreshedForever ==
  \A id \in Ids : []<>(~Due(id) \/ (op # Idle /\ op.call.job /\ op.call.id = id))

\* "Clear all credentials and config": what is merged, when that is decided
\* after a logout, has no servers of the account.
LogoutForgets ==
  [][account = NoAccount /\ op.at = "sources" /\ op'.at = "build" => cabinet' \notin Accounts]_vars

=============================================================================
