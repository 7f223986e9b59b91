------------------------ MODULE SlaveVpnServiceProofs ------------------------
(***************************************************************************)
(* The Android service, for every number of interfaces, coroutines and     *)
(* service objects, and a user who waits for each command: the preferences *)
(* follow the user's last word; and, until the process dies or the service *)
(* is disturbed, the coroutines and service objects run one at a time, so  *)
(* every descriptor has an owner.                                          *)
(***************************************************************************)
EXTENDS SlaveVpnService, TLAPS

USE DEF history

-----------------------------------------------------------------------------
(* Types                                                                  *)

Prefs   == [shouldRun : BOOLEAN, cached : BOOLEAN, killSwitch : BOOLEAN]
Status  == {"disconnected", "connecting", "connected", "error"}
JobMap  == [Jobs -> Job \union {NoJob}]
HandleMap == [Tuns -> SUBSET {"service", "core"}]

Typed ==
  /\ prefs \in Prefs
  /\ status \in Status
  /\ inst \in 0..MaxInstances /\ (serving => inst \in Instances)
  /\ killSwitch \in BOOLEAN /\ serving \in BOOLEAN /\ stopping \in BOOLEAN
  /\ sticky \in BOOLEAN /\ granted \in BOOLEAN /\ disturbed \in BOOLEAN
  /\ tunOf \in [Instances -> Tuns \union {NoTun}]
  /\ monitor \subseteq Instances /\ posted \subseteq Instances
  /\ coreJob \in [Instances -> Jobs \union {NoJob}]
  /\ jobs \in JobMap
  /\ core \in Tuns \union {NoTun} /\ iface \in Tuns \union {NoTun}
  /\ handles \in HandleMap
  /\ intent \in {"up", "down", "revoked"}

\* Closing one end leaves every other descriptor as it was.
LEMMA Closing ==
  ASSUME NEW h \in HandleMap, NEW t \in Tuns \union {NoTun}, NEW end
  PROVE  /\ Without(h, t, end) \in HandleMap
         /\ \A u \in Tuns : Without(h, t, end)[u] = IF u = t THEN h[u] \ {end} ELSE h[u]
<1>1. CASE t = NoTun
  BY <1>1, ServiceAssumption DEF Without
<1>2. CASE t \in Tuns
  <2>1. Without(h, t, end) = [h EXCEPT ![t] = h[t] \ {end}]
    BY <1>2, ServiceAssumption DEF Without
  <2>2. h[t] \ {end} \in SUBSET {"service", "core"}
    BY <1>2 DEF HandleMap
  <2>. QED  BY <1>2, <2>1, <2>2 DEF HandleMap
<1>. QED  BY <1>1, <1>2

\* Each way the code closes a descriptor is one of those.
LEMMA Closes ==
  ASSUME Typed, NEW h \in HandleMap
  PROVE  /\ CoreCloses(h) \in HandleMap
         /\ \A u \in Tuns : CoreCloses(h)[u] = IF u = core THEN h[u] \ {"core"} ELSE h[u]
         /\ \A i \in Instances :
              /\ ServiceCloses(h, i) \in HandleMap
              /\ \A u \in Tuns : ServiceCloses(h, i)[u] =
                   IF u = tunOf[i] THEN h[u] \ {"service"} ELSE h[u]
         /\ \A t \in Tuns \union {NoTun} :
              /\ UnclaimedCloses(h, t) \in HandleMap
              /\ \A u \in Tuns : UnclaimedCloses(h, t)[u] =
                   IF u = t THEN h[u] \ {"core"} ELSE h[u]
<1>1. core \in Tuns \union {NoTun} /\ \A i \in Instances : tunOf[i] \in Tuns \union {NoTun}
  BY DEF Typed
<1>2. /\ CoreCloses(h) \in HandleMap
      /\ \A u \in Tuns : CoreCloses(h)[u] = IF u = core THEN h[u] \ {"core"} ELSE h[u]
  BY <1>1, Closing DEF CoreCloses
<1>3. ASSUME NEW i \in Instances
      PROVE  /\ ServiceCloses(h, i) \in HandleMap
             /\ \A u \in Tuns : ServiceCloses(h, i)[u] =
                  IF u = tunOf[i] THEN h[u] \ {"service"} ELSE h[u]
  BY <1>1, Closing DEF ServiceCloses
<1>4. ASSUME NEW t \in Tuns \union {NoTun}
      PROVE  /\ UnclaimedCloses(h, t) \in HandleMap
             /\ \A u \in Tuns : UnclaimedCloses(h, t)[u] =
                  IF u = t THEN h[u] \ {"core"} ELSE h[u]
  BY Closing DEF UnclaimedCloses
<1>. QED  BY <1>2, <1>3, <1>4

\* The table of coroutines stays one.
LEMMA JobTypes ==
  ASSUME NEW js \in JobMap
  PROVE  /\ \A j \in Jobs, n \in Job \union {NoJob} : [js EXCEPT ![j] = n] \in JobMap
         /\ \A j \in Jobs, a \in {"launched", "core", "report", "cache", "delay", "resumed"} :
              js[j] # NoJob => [js EXCEPT ![j].at = a] \in JobMap
         /\ \A j : Cancel(js, j) \in JobMap
         /\ \A j : Ended(js, j) \in JobMap
         /\ (\E j \in Jobs : js[j] = NoJob) => FreeJob(js) \in Jobs /\ js[FreeJob(js)] = NoJob
<1>. USE DEF JobMap
<1>1. ASSUME NEW j \in Jobs, NEW a \in {"launched", "core", "report", "cache", "delay", "resumed"},
             js[j] # NoJob
      PROVE  [js EXCEPT ![j].at = a] \in JobMap
  <2>1. js[j] \in Job
    BY <1>1
  <2>2. [js[j] EXCEPT !.at = a] \in Job
    BY <2>1 DEF Job
  <2>. QED  BY <2>2
<1>2. \A j : Cancel(js, j) \in JobMap
  BY DEF Cancel
<1>3. ASSUME NEW j  PROVE Ended(js, j) \in JobMap
  <2>. SUFFICES ASSUME NEW k \in Jobs  PROVE Ended(js, j)[k] \in Job \union {NoJob}
    BY DEF Ended
  <2>1. CASE k = j
    BY <2>1 DEF Ended
  <2>2. CASE k # j /\ js[k] # NoJob /\ js[k].prev = j
    <3>1. [js[k] EXCEPT !.prev = NoJob] \in Job
      BY <2>2 DEF Job
    <3>. QED  BY <2>2, <3>1 DEF Ended
  <2>3. CASE k # j /\ ~(js[k] # NoJob /\ js[k].prev = j)
    BY <2>3 DEF Ended
  <2>. QED  BY <2>1, <2>2, <2>3
<1>. QED  BY <1>1, <1>2, <1>3 DEF FreeJob

\* startVpn leaves the fields well typed.
LEMMA StartVpnTypes ==
  ASSUME Typed, NEW i \in Instances, NEW active \in BOOLEAN, NEW st \in Status,
         NEW p \in Prefs, NEW s \in BOOLEAN, NEW js \in JobMap,
         \E j \in Jobs : js[j] = NoJob,
         StartVpn(i, active, st, p, s, js)
  PROVE  /\ prefs' \in Prefs /\ status' \in Status /\ stopping' \in BOOLEAN
         /\ tunOf' \in [Instances -> Tuns \union {NoTun}]
         /\ iface' \in Tuns \union {NoTun} /\ handles' \in HandleMap
         /\ jobs' \in JobMap /\ coreJob' \in [Instances -> Jobs \union {NoJob}]
<1>1. CASE st \in {"connected", "connecting"}
  BY <1>1 DEF StartVpn, Typed, osVars, Establishes, SetupFails, Status
<1>2. CASE Establishes(i, active, p, s, js)
  <2>1. PICK t \in Tuns :
          /\ iface' = t
          /\ handles' = [ServiceCloses(handles, i) EXCEPT ![t] = {"service", "core"}]
          /\ tunOf' = [tunOf EXCEPT ![i] = t]
    BY <1>2 DEF Establishes
  <2>2. handles' \in HandleMap
    BY <2>1, Closes DEF HandleMap, Typed
  <2>3. FreeJob(js) \in Jobs
    BY JobTypes
  <2>4. \A t1 \in Tuns : NewJob("start", i, t1, NoJob) \in Job
    BY DEF NewJob, Job
  <2>5. jobs' \in JobMap /\ coreJob' \in [Instances -> Jobs \union {NoJob}]
    BY <1>2, <2>3, <2>4, JobTypes DEF Establishes, Typed
  <2>. QED  BY <1>2, <2>1, <2>2, <2>5 DEF Establishes, Typed, Status
<1>3. CASE SetupFails(i, active, p, s, js)
  <2>1. handles' \in HandleMap /\ tunOf' \in [Instances -> Tuns \union {NoTun}]
    BY <1>3, Closes DEF SetupFails, Typed, NoTunOf
  <2>2. prefs' \in Prefs /\ iface' \in Tuns \union {NoTun}
    BY <1>3 DEF SetupFails, Prefs, Typed
  <2>. QED  BY <1>3, <2>1, <2>2 DEF SetupFails, Typed, Status
<1>. QED  BY <1>1, <1>2, <1>3 DEF StartVpn

-----------------------------------------------------------------------------
(* The invariant                                                          *)

\* No coroutine in js, or only f, which is r.
Empty(js)      == \A k \in Jobs : js[k] = NoJob
Only(js, f, r) == js[f] = r /\ \A k \in Jobs \ {f} : js[k] = NoJob

\* What holds while a start, a stop or a reconnect is in flight.
Starting(r) ==
  /\ r.inst = inst /\ serving /\ ~stopping /\ granted /\ intent # "down"
  /\ r.tun # NoTun /\ tunOf[inst] = r.tun /\ iface = r.tun
  /\ r.at \in {"launched", "core", "report", "cache"}
  /\ r.at \in {"report", "cache"} => core = r.tun

Stops(r) == intent = "down" /\ r.at = "launched"

Reconnecting(r) ==
  /\ prefs.shouldRun /\ intent # "down"
  /\ r.at \in {"launched", "delay", "resumed"}
  /\ granted => r.inst = inst /\ serving /\ ~stopping

Fits(f, r) ==
  /\ posted = {} /\ r.prev = NoJob /\ inst # 0
  /\ status = "connected" <=> r.kind = "start" /\ r.at = "cache"
  /\ \A i \in Instances : coreJob[i] = NoJob \/ (coreJob[i] = f /\ r.kind = "start")
  /\ r.kind = "start" => Starting(r)
  /\ r.kind = "stop" => Stops(r)
  /\ r.kind = "reconnect" => Reconnecting(r)

\* One coroutine at a time.
JobInv ==
  \/ Empty(jobs) /\ \A i \in Instances : coreJob[i] = NoJob
  \/ \E f \in Jobs, r \in Job : Only(jobs, f, r) /\ Fits(f, r)

\* One service object at a time; a callback is registered, or a reconnect
\* posted, by the last one, with a configuration cached.
ObjectInv ==
  /\ posted \subseteq {inst} /\ monitor \subseteq {inst}
  /\ monitor # {} => serving
  /\ posted # {} \/ monitor # {} => prefs.cached
  /\ status = "connected" => prefs.cached \/ \E j \in Jobs : At(j, "start", "cache")
  /\ posted # {} /\ granted => serving /\ ~stopping
  /\ monitor # {} /\ status = "connected" /\ granted => ~stopping
  /\ sticky => inst = 0
  /\ inst = 0 => posted = {} /\ iface = NoTun /\ status = "disconnected"

\* Whose each open descriptor is.
DescriptorInv ==
  /\ \A i \in Instances :
       tunOf[i] # NoTun => i = inst /\ serving /\ "service" \in handles[tunOf[i]]
  /\ \A t \in Tuns :
       /\ "service" \in handles[t] => inst # 0 /\ tunOf[inst] = t
       /\ "core" \in handles[t] =>
            core = t \/ \E j \in InFlight : jobs[j].kind = "start" /\ jobs[j].tun = t

\* Between two connections no core runs, but for one about to be reported or
\* stopped.
CoreInv ==
  core # NoTun =>
    /\ serving
    /\ \/ status = "connected"
       \/ \E j \in Jobs : \/ At(j, "start", "report") \/ At(j, "start", "cache")
                          \/ At(j, "stop", "launched") \/ At(j, "reconnect", "launched")

\* What the user's last word means for the state that follows it.
IntentInv ==
  /\ ~granted => iface = NoTun /\ (serving => stopping) /\ intent # "up"
  /\ intent = "down" =>
       /\ ~prefs.shouldRun /\ posted = {} /\ status \notin {"connected", "connecting"}
       /\ \A i \in Instances : tunOf[i] = NoTun
  /\ Up /\ intent # "down" => serving /\ tunOf[inst] = iface
  /\ Up /\ intent = "up" => prefs.shouldRun

ServiceInv == JobInv /\ ObjectInv /\ DescriptorInv /\ CoreInv /\ IntentInv

\* What a disturbance does not touch: a new process has done nothing yet; without
\* consent nothing is up; a disconnect leaves nothing that connects again.
BirthInv ==
  /\ sticky => inst = 0
  /\ inst = 0 =>
       iface = NoTun /\ status = "disconnected" /\ posted = {} /\ monitor = {} /\ Empty(jobs)

GrantInv == ~granted => iface = NoTun /\ (serving => stopping) /\ intent # "up"

FlagInv ==
  intent = "down" =>
    /\ ~prefs.shouldRun /\ posted = {} /\ status \notin {"connected", "connecting"}
    /\ \A j \in Jobs : jobs[j] = NoJob \/ jobs[j].kind = "stop"

LastingInv == BirthInv /\ GrantInv /\ FlagInv

-----------------------------------------------------------------------------
(* Types of every step                                                    *)

LEMMA TypedInit == Init => Typed
<1>. SUFFICES ASSUME Init  PROVE Typed
  OBVIOUS
<1>1. 0 \in 0..MaxInstances
  BY ServiceAssumption
<1>2. /\ prefs \in Prefs /\ jobs \in JobMap /\ handles \in HandleMap
      /\ tunOf \in [Instances -> Tuns \union {NoTun}]
      /\ coreJob \in [Instances -> Jobs \union {NoJob}]
  BY DEF Init, Prefs, JobMap, HandleMap
<1>. QED  BY <1>1, <1>2 DEF Init, Typed, Status

\* A command reaches the service object, or a new one.
LEMMA DeliveredTypes ==
  ASSUME Typed, NEW i \in Instances, NEW s \in BOOLEAN, Delivered(i, s)
  PROVE  inst' \in 0..MaxInstances /\ inst' \in Instances /\ serving' \in BOOLEAN
<1>1. i \in 0..MaxInstances
  BY ServiceAssumption DEF Instances
<1>. QED  BY <1>1 DEF Delivered, Typed

LEMMA TypedStep == Typed /\ [Next]_vars => Typed'
<1>. SUFFICES ASSUME Typed, [Next]_vars  PROVE Typed'
  OBVIOUS
<1>. USE DEF serviceVars, osVars
<1>a. /\ \A b \in BOOLEAN : SetShouldRun(b) \in Prefs
      /\ prefs \in Prefs /\ prefs.killSwitch \in BOOLEAN
      /\ \A k \in BOOLEAN : [prefs EXCEPT !.shouldRun = TRUE, !.killSwitch = k] \in Prefs
      /\ \A k \in BOOLEAN : [prefs EXCEPT !.killSwitch = k] \in Prefs
      /\ [prefs EXCEPT !.cached = TRUE] \in Prefs
  BY DEF SetShouldRun, Typed, Prefs
<1>b. /\ jobs \in JobMap /\ handles \in HandleMap /\ status \in Status
      /\ coreJob \in [Instances -> Jobs \union {NoJob}]
      /\ tunOf \in [Instances -> Tuns \union {NoTun}]
  BY DEF Typed
<1>c. \A i \in Instances : NoTunOf(i) \in [Instances -> Tuns \union {NoTun}]
  BY <1>b DEF NoTunOf
<1>d. \A k \in {"start", "stop", "reconnect"}, i \in Instances,
         t \in Tuns \union {NoTun}, p \in Jobs \union {NoJob} : NewJob(k, i, t, p) \in Job
  BY DEF NewJob, Job
<1>e. \A j : Forgotten(j) \in [Instances -> Jobs \union {NoJob}]
  BY <1>b DEF Forgotten
<1>1. ASSUME NEW k \in BOOLEAN, Started(k), granted' \in BOOLEAN, disturbed' \in BOOLEAN,
             intent' \in {"up", "down", "revoked"}
      PROVE  Typed'
  <2>1. PICK i \in Instances, s \in BOOLEAN :
          /\ Delivered(i, s)
          /\ StartVpn(i, TRUE, status, [prefs EXCEPT !.shouldRun = TRUE, !.killSwitch = k], s, jobs)
    BY <1>1 DEF Started
  <2>2. inst' \in 0..MaxInstances /\ inst' \in Instances /\ serving' \in BOOLEAN
    BY <2>1, DeliveredTypes
  <2>3. \E j \in Jobs : jobs[j] = NoJob
    BY <1>1 DEF Started, Room
  <2>4. /\ prefs' \in Prefs /\ status' \in Status /\ stopping' \in BOOLEAN
        /\ tunOf' \in [Instances -> Tuns \union {NoTun}]
        /\ iface' \in Tuns \union {NoTun} /\ handles' \in HandleMap
        /\ jobs' \in JobMap /\ coreJob' \in [Instances -> Jobs \union {NoJob}]
    <3>1. [prefs EXCEPT !.shouldRun = TRUE, !.killSwitch = k] \in Prefs
      BY <1>a
    <3>2. StartVpn(i, TRUE, status, [prefs EXCEPT !.shouldRun = TRUE, !.killSwitch = k], s, jobs)
      BY <2>1
    <3>3. CASE s = TRUE
      BY <2>3, <3>1, <3>2, <3>3, <1>b, StartVpnTypes
    <3>4. CASE s = FALSE
      BY <2>3, <3>1, <3>2, <3>4, <1>b, StartVpnTypes
    <3>. QED  BY <3>3, <3>4
  <2>. QED  BY <1>1, <2>2, <2>4 DEF Started, Typed
<1>2. ASSUME NEW k \in BOOLEAN, UserConnects(k)  PROVE Typed'
  BY <1>1, <1>2 DEF UserConnects, Typed
<1>3. CASE UserConsents
  BY <1>3 DEF UserConsents, Typed
<1>4. CASE RecoverIfExpected
  BY <1>1, <1>4, <1>a DEF RecoverIfExpected, Typed
<1>5. CASE StickyRestart
  <2>1. inst + 1 \in Instances /\ inst' \in 0..MaxInstances
    BY <1>5, ServiceAssumption DEF StickyRestart, Instances, Typed
  <2>2. CASE prefs.shouldRun /\ prefs.cached
    <3>1. \E j \in Jobs : jobs[j] = NoJob
      BY <1>5 DEF StickyRestart, Room
    <3>2. StartVpn(inst + 1, TRUE, status, prefs, FALSE, jobs) /\ killSwitch' = prefs.killSwitch
      BY <1>5, <2>2 DEF StickyRestart
    <3>3. /\ prefs' \in Prefs /\ status' \in Status /\ stopping' \in BOOLEAN
          /\ tunOf' \in [Instances -> Tuns \union {NoTun}]
          /\ iface' \in Tuns \union {NoTun} /\ handles' \in HandleMap
          /\ jobs' \in JobMap /\ coreJob' \in [Instances -> Jobs \union {NoJob}]
      BY <2>1, <3>1, <3>2, <1>a, <1>b, StartVpnTypes
    <3>. QED  BY <1>5, <2>1, <3>2, <3>3, <1>a DEF StickyRestart, Typed
  <2>3. CASE ~(prefs.shouldRun /\ prefs.cached)
    BY <1>5, <2>1, <2>3, <1>a DEF StickyRestart, Typed
  <2>. QED  BY <2>2, <2>3
<1>6. CASE AlwaysOnStart
  <2>1. PICK i \in Instances, s \in BOOLEAN :
          /\ Delivered(i, s)
          /\ IF prefs.cached
               THEN /\ killSwitch' = prefs.killSwitch /\ intent' = "up"
                    /\ StartVpn(i, TRUE, status, SetShouldRun(TRUE), s, jobs)
               ELSE /\ stopping' = TRUE
                    /\ UNCHANGED <<prefs, status, killSwitch, tunOf, osVars, jobs,
                                   coreJob, intent>>
    BY <1>6 DEF AlwaysOnStart
  <2>2. inst' \in 0..MaxInstances /\ inst' \in Instances /\ serving' \in BOOLEAN
    BY <2>1, DeliveredTypes
  <2>3. CASE prefs.cached
    <3>1. \E j \in Jobs : jobs[j] = NoJob
      BY <1>6 DEF AlwaysOnStart, Room
    <3>2. /\ prefs' \in Prefs /\ status' \in Status /\ stopping' \in BOOLEAN
          /\ tunOf' \in [Instances -> Tuns \union {NoTun}]
          /\ iface' \in Tuns \union {NoTun} /\ handles' \in HandleMap
          /\ jobs' \in JobMap /\ coreJob' \in [Instances -> Jobs \union {NoJob}]
      <4>1. SetShouldRun(TRUE) \in Prefs
        BY <1>a
      <4>2. StartVpn(i, TRUE, status, SetShouldRun(TRUE), s, jobs)
        BY <2>1, <2>3
      <4>3. CASE s = TRUE
        BY <3>1, <4>1, <4>2, <4>3, <1>b, StartVpnTypes
      <4>4. CASE s = FALSE
        BY <3>1, <4>1, <4>2, <4>4, <1>b, StartVpnTypes
      <4>. QED  BY <4>3, <4>4
    <3>. QED  BY <1>6, <2>1, <2>2, <2>3, <3>2, <1>a DEF AlwaysOnStart, Typed
  <2>4. CASE ~prefs.cached
    BY <1>6, <2>1, <2>2, <2>4 DEF AlwaysOnStart, Typed
  <2>. QED  BY <2>3, <2>4
<1>7. CASE UserDisconnects
  <2>1. PICK i \in Instances, s \in BOOLEAN :
       /\ Delivered(i, s)
       /\ monitor' = monitor \ {i}
       /\ jobs' = Cancel([jobs EXCEPT ![FreeJob(jobs)] = NewJob("stop", i, NoTun, NoJob)],
                         coreJob[i])
       /\ coreJob' = [coreJob EXCEPT ![i] = NoJob]
       /\ handles' = ServiceCloses(handles, i) /\ tunOf' = NoTunOf(i)
    BY <1>7 DEF UserDisconnects
  <2>2. inst' \in 0..MaxInstances /\ inst' \in Instances /\ serving' \in BOOLEAN
    BY <2>1, DeliveredTypes
  <2>3. [jobs EXCEPT ![FreeJob(jobs)] = NewJob("stop", i, NoTun, NoJob)] \in JobMap
    BY <1>7, <1>b, <1>d, JobTypes DEF UserDisconnects, Room
  <2>4. jobs' \in JobMap
    BY <2>1, <2>3, JobTypes
  <2>5. handles' \in HandleMap /\ coreJob' \in [Instances -> Jobs \union {NoJob}]
    BY <2>1, <1>b, Closes
  <2>. QED  BY <1>7, <2>1, <2>2, <2>4, <2>5, <1>a, <1>c DEF UserDisconnects, Typed, Status
<1>8. ASSUME NEW i \in Instances, Room, Reconnect(i)
      PROVE  /\ prefs' \in Prefs /\ status' \in Status /\ killSwitch' \in BOOLEAN
             /\ jobs' \in JobMap /\ coreJob' \in [Instances -> Jobs \union {NoJob}]
  <2>1. NewJob("reconnect", i, NoTun, coreJob[i]) \in Job
    BY <1>b, <1>d
  <2>2. jobs' \in JobMap
    BY <1>8, <2>1, <1>b, JobTypes DEF Reconnect, Room
  <2>. QED  BY <1>8, <2>2, <1>a, <1>b DEF Reconnect, Status
<1>9. CASE UserReconnects
  <2>1. inst \in Instances
    BY <1>9 DEF UserReconnects, Typed
  <2>. QED  BY <1>8, <1>9, <2>1 DEF UserReconnects, Delivered, Typed
<1>10. ASSUME NEW i \in Instances, NetworkChanges(i)  PROVE Typed'
  BY <1>10 DEF NetworkChanges, Typed
<1>11. ASSUME NEW i \in Instances, PostedReconnect(i)  PROVE Typed'
  BY <1>8, <1>11 DEF PostedReconnect, Typed
<1>12. CASE TogglesKillSwitch
  BY <1>12, <1>a DEF TogglesKillSwitch, Typed
<1>13. ASSUME serving
       PROVE  /\ CoreCloses(ServiceCloses(handles, inst)) \in HandleMap
              /\ NoTunOf(inst) \in [Instances -> Tuns \union {NoTun}]
  <2>1. inst \in Instances
    BY <1>13 DEF Typed
  <2>. QED  BY <2>1, <1>b, <1>c, Closes
<1>14. CASE Revoked
  BY <1>13, <1>14, <1>a DEF Revoked, Typed
<1>15. CASE Destroyed
  <2>1. jobs' \in JobMap /\ coreJob' \in [Instances -> Jobs \union {NoJob}]
    BY <1>15, <1>b DEF Destroyed, JobMap
  <2>. QED  BY <1>13, <1>15, <2>1 DEF Destroyed, Typed
<1>16. ASSUME NEW j \in Jobs, StartJobRuns(j) \/ DelayEnds(j)  PROVE Typed'
  <2>1. jobs' \in JobMap
    BY <1>16, <1>b, JobTypes DEF StartJobRuns, DelayEnds, At, Goes
  <2>. QED  BY <1>16, <2>1 DEF StartJobRuns, DelayEnds, Typed
<1>17. ASSUME NEW j \in Jobs, CoreStarts(j)  PROVE Typed'
  <2>1. jobs' \in JobMap /\ handles' \in HandleMap
    BY <1>17, <1>b, JobTypes, Closes DEF CoreStarts, At, Goes
  <2>2. jobs[j].tun \in Tuns \union {NoTun}
    BY <1>17, <1>b DEF CoreStarts, At, JobMap, Job
  <2>. QED  BY <1>17, <2>1, <2>2 DEF CoreStarts, Typed
<1>18. ASSUME NEW j \in Jobs, Ends(j)
       PROVE  jobs' \in JobMap /\ coreJob' \in [Instances -> Jobs \union {NoJob}]
  BY <1>18, <1>b, <1>e, JobTypes DEF Ends
<1>19. ASSUME NEW j \in Jobs, jobs[j] # NoJob
       PROVE  jobs[j].inst \in Instances /\ jobs[j].tun \in Tuns \union {NoTun}
  BY <1>19, <1>b DEF JobMap, Job
<1>20. ASSUME NEW j \in Jobs, CoreFails(j)  PROVE Typed'
  <2>1. jobs[j].inst \in Instances /\ jobs[j].tun \in Tuns \union {NoTun}
    BY <1>19, <1>20 DEF CoreFails, At
  <2>2. UnclaimedCloses(CoreCloses(handles), jobs[j].tun) \in HandleMap
    BY <2>1, <1>b, Closes
  <2>3. ServiceCloses(UnclaimedCloses(CoreCloses(handles), jobs[j].tun), jobs[j].inst) \in HandleMap
    BY <2>1, <2>2, Closes
  <2>4. handles' \in HandleMap /\ prefs' \in Prefs /\ stopping' \in BOOLEAN
        /\ tunOf' \in [Instances -> Tuns \union {NoTun}]
    <3>1. ScopeActive(jobs[j].inst) \in BOOLEAN
      BY DEF ScopeActive, Typed
    <3>. QED  BY <1>20, <2>1, <2>2, <2>3, <3>1, <1>a, <1>b, <1>c DEF CoreFails, Typed
  <2>. QED  BY <1>18, <1>20, <2>4 DEF CoreFails, Typed, Status
<1>21. ASSUME NEW j \in Jobs, Reports(j)  PROVE Typed'
  <2>1. jobs' \in JobMap
    BY <1>21, <1>b, JobTypes DEF Reports, At, Goes
  <2>. QED  BY <1>21, <2>1 DEF Reports, Typed, Status
<1>22. ASSUME NEW j \in Jobs, StopJobRuns(j)  PROVE Typed'
  BY <1>18, <1>22, <1>b, Closes DEF StopJobRuns, Typed
<1>23. ASSUME NEW j \in Jobs, ReconnectStops(j)  PROVE Typed'
  <2>1. jobs[j].inst \in Instances
    BY <1>19, <1>23 DEF ReconnectStops, At
  <2>2. jobs' \in JobMap
    <3>1. [jobs[j] EXCEPT !.at = "delay"] \in Job
      BY <1>23, <1>b DEF ReconnectStops, At, JobMap, Job
    <3>2. Cancel(jobs, jobs[j].prev) \in JobMap
      BY <1>b, JobTypes
    <3>. QED  BY <1>23, <3>1, <3>2, JobTypes DEF ReconnectStops
  <2>3. CoreCloses(handles) \in HandleMap
        /\ CoreCloses(ServiceCloses(handles, jobs[j].inst)) \in HandleMap
    BY <2>1, <1>b, Closes
  <2>. QED  BY <1>23, <2>1, <2>2, <2>3, <1>c DEF ReconnectStops, Typed
<1>24. ASSUME NEW j \in Jobs, ReconnectStarts(j)  PROVE Typed'
  <2>1. jobs[j].inst \in Instances /\ Ended(jobs, j) \in JobMap /\ Ended(jobs, j)[j] = NoJob
    BY <1>19, <1>24, <1>b, JobTypes DEF ReconnectStarts, At, Ended
  <2>2. ScopeActive(jobs[j].inst) \in BOOLEAN /\ "disconnected" \in Status /\ stopping \in BOOLEAN
    BY DEF ScopeActive, Typed, Status
  <2>3. /\ prefs' \in Prefs /\ status' \in Status /\ stopping' \in BOOLEAN
        /\ tunOf' \in [Instances -> Tuns \union {NoTun}]
        /\ iface' \in Tuns \union {NoTun} /\ handles' \in HandleMap
        /\ jobs' \in JobMap /\ coreJob' \in [Instances -> Jobs \union {NoJob}]
    BY <1>24, <2>1, <2>2, <1>a, StartVpnTypes, ZenonT(40) DEF ReconnectStarts
  <2>. QED  BY <1>24, <2>3 DEF ReconnectStarts, Typed
<1>25. CASE Dies
  <2>1. /\ tunOf' \in [Instances -> Tuns \union {NoTun}]
        /\ coreJob' \in [Instances -> Jobs \union {NoJob}]
        /\ jobs' \in JobMap /\ handles' \in HandleMap /\ inst' \in 0..MaxInstances
    BY <1>25, ServiceAssumption DEF Dies, JobMap, HandleMap
  <2>. QED  BY <1>25, <2>1 DEF Dies, Typed, Status
<1>26. CASE UNCHANGED vars
  BY <1>26 DEF vars, Typed
<1>27. ASSUME NEW j \in Jobs, Caches(j)  PROVE Typed'
  <2>1. jobs[j].inst \in Instances
    BY <1>19, <1>27 DEF Caches, At
  <2>. QED  BY <1>18, <1>27, <2>1, <1>a DEF Caches, Typed
<1>28. ASSUME NEW j \in Jobs, FailsLate(j)  PROVE Typed'
  <2>1. jobs[j].inst \in Instances
    BY <1>19, <1>28 DEF FailsLate, At
  <2>2. /\ [prefs EXCEPT !.cached = TRUE] \in Prefs
        /\ [prefs EXCEPT !.cached = TRUE, !.shouldRun = FALSE] \in Prefs
    BY <1>a DEF Prefs
  <2>3. ServiceCloses(handles, jobs[j].inst) \in HandleMap
    BY <2>1, <1>b, Closes
  <2>4. handles' \in HandleMap /\ prefs' \in Prefs /\ stopping' \in BOOLEAN
        /\ tunOf' \in [Instances -> Tuns \union {NoTun}]
    <3>1. ScopeActive(jobs[j].inst) \in BOOLEAN
      BY DEF ScopeActive, Typed
    <3>. QED  BY <1>28, <2>1, <2>2, <2>3, <3>1, <1>b, <1>c DEF FailsLate, Typed
  <2>. QED  BY <1>18, <1>28, <2>4 DEF FailsLate, Typed, Status
<1>. QED
  BY <1>2, <1>3, <1>4, <1>5, <1>6, <1>7, <1>9, <1>10, <1>11, <1>12, <1>14, <1>15, <1>16,
     <1>17, <1>20, <1>21, <1>22, <1>23, <1>24, <1>25, <1>26, <1>27, <1>28
     DEF Next, Commands, Outside, MainThread, Coroutine

-----------------------------------------------------------------------------
(* One coroutine at a time                                                *)

\* The coroutine that takes a step is the only one.
LEMMA TheJob ==
  ASSUME Typed, JobInv, NEW j \in Jobs, jobs[j] # NoJob
  PROVE  jobs[j] \in Job /\ Only(jobs, j, jobs[j]) /\ Fits(j, jobs[j])
<1>1. PICK f \in Jobs, r \in Job : Only(jobs, f, r) /\ Fits(f, r)
  BY DEF JobInv, Empty
<1>2. f = j /\ r = jobs[j]
  BY <1>1 DEF Only
<1>. QED  BY <1>1, <1>2

\* When it ends there is none.
LEMMA EndedJob ==
  ASSUME Typed, NEW j \in Jobs, Only(jobs, j, jobs[j]),
         \A i \in Instances : coreJob[i] \in {NoJob, j}
  PROVE  /\ Empty(Ended(jobs, j)) /\ Ended(jobs, j) \in JobMap
         /\ Ends(j) => Empty(jobs') /\ \A i \in Instances : coreJob'[i] = NoJob
<1>1. Empty(Ended(jobs, j))
  BY DEF Only, Empty, Ended
<1>2. \A i \in Instances : Forgotten(j)[i] = NoJob
  BY DEF Forgotten
<1>3. Ended(jobs, j) \in JobMap
  BY JobTypes DEF Typed
<1>. QED  BY <1>1, <1>2, <1>3 DEF Ends

\* A coroutine launched when there is none is the only one.
LEMMA Launched ==
  ASSUME NEW js \in JobMap, Empty(js), \E j \in Jobs : js[j] = NoJob, NEW n \in Job
  PROVE  /\ FreeJob(js) \in Jobs
         /\ Only([js EXCEPT ![FreeJob(js)] = n], FreeJob(js), n)
<1>1. FreeJob(js) \in Jobs
  BY JobTypes
<1>. QED  BY <1>1 DEF Only, Empty, JobMap

LEMMA Moved ==
  ASSUME Typed, NEW j \in Jobs, Only(jobs, j, jobs[j]), jobs[j] \in Job,
         NEW a \in {"launched", "core", "report", "cache", "delay", "resumed"}
  PROVE  /\ [jobs[j] EXCEPT !.at = a] \in Job
         /\ Goes(j, a) => Only(jobs', j, [jobs[j] EXCEPT !.at = a])
<1>1. [jobs[j] EXCEPT !.at = a] \in Job
  BY DEF Job
<1>2. Goes(j, a) => jobs' = [jobs EXCEPT ![j] = [jobs[j] EXCEPT !.at = a]]
  BY DEF Goes
<1>. QED  BY <1>1, <1>2 DEF Only, Typed, JobMap

\* Without coroutines a core handle is the core's, and with one that is not a
\* start, too.
LEMMA CoreHandles ==
  ASSUME Typed, DescriptorInv,
         \A j \in Jobs : jobs[j] = NoJob \/ jobs[j].kind # "start"
  PROVE  \A u \in Tuns : "core" \in handles[u] => core = u
BY DEF DescriptorInv, InFlight

\* Nor does a core run then, unless it is shown as connected.
LEMMA NoCore ==
  ASSUME CoreInv, Empty(jobs), status # "connected"  PROVE core = NoTun
BY DEF CoreInv, Empty, At

\* A service object that is destroyed has no TUN.
LEMMA Gone ==
  ASSUME Typed, DescriptorInv, ~serving
  PROVE  (\A k \in Instances : tunOf[k] = NoTun) /\ \A u \in Tuns : "service" \notin handles[u]
<1>1. \A k \in Instances : tunOf[k] = NoTun
  BY DEF DescriptorInv
<1>2. inst = 0 \/ inst \in Instances
  BY ServiceAssumption DEF Typed, Instances
<1>. QED  BY <1>1, <1>2, ServiceAssumption DEF DescriptorInv

-----------------------------------------------------------------------------
(* startVpn                                                               *)

Prior == Typed /\ Typed' /\ JobInv /\ ObjectInv /\ DescriptorInv /\ CoreInv /\ IntentInv

\* A start on the last service object, with nothing else under way.
LEMMA EstablishKeeps ==
  ASSUME Prior, NEW i \in Instances, NEW p \in Prefs, NEW js \in JobMap,
         Empty(js), \E j \in Jobs : js[j] = NoJob,
         Establishes(i, TRUE, p, FALSE, js),
         inst' = i, serving', granted' = granted, core = NoTun, core' = NoTun, posted' = {},
         monitor' \subseteq {i}, ~sticky', intent' # "down",
         p.shouldRun, monitor' # {} => p.cached, serving => inst = i,
         \A k \in Instances : coreJob[k] = NoJob,
         \A u \in Tuns : "core" \notin handles[u]
  PROVE  ServiceInv'
<1>. USE DEF Prior
<1>h. handles \in HandleMap
  BY DEF Typed
<1>1. PICK t \in Tuns :
        /\ handles[t] = {} /\ iface' = t
        /\ handles' = [ServiceCloses(handles, i) EXCEPT ![t] = {"service", "core"}]
        /\ tunOf' = [tunOf EXCEPT ![i] = t]
        /\ jobs' = [js EXCEPT ![FreeJob(js)] = NewJob("start", i, t, NoJob)]
        /\ coreJob' = [coreJob EXCEPT ![i] = FreeJob(js)]
  BY DEF Establishes
<1>2. granted /\ status' = "connecting" /\ prefs' = p /\ stopping' = FALSE
  BY DEF Establishes
<1>3. NewJob("start", i, t, NoJob) \in Job
  BY DEF NewJob, Job
<1>4. FreeJob(js) \in Jobs /\ Only(jobs', FreeJob(js), NewJob("start", i, t, NoJob))
  BY <1>1, <1>3, Launched
<1>5. /\ handles'[t] = {"service", "core"}
      /\ \A u \in Tuns \ {t} : handles'[u] = IF u = tunOf[i] THEN handles[u] \ {"service"} ELSE handles[u]
  <2>1. ServiceCloses(handles, i) \in HandleMap
        /\ \A u \in Tuns : ServiceCloses(handles, i)[u] =
             IF u = tunOf[i] THEN handles[u] \ {"service"} ELSE handles[u]
    BY <1>h, Closes, ZenonT(40)
  <2>. QED  BY <1>1, <2>1 DEF HandleMap
<1>6. tunOf'[i] = t /\ \A k \in Instances \ {i} : tunOf'[k] = tunOf[k]
      /\ coreJob'[i] = FreeJob(js) /\ \A m \in Instances \ {i} : coreJob'[m] = NoJob
  BY <1>1 DEF Typed
<1>7. JobInv'
  <2>1. Fits(FreeJob(js), NewJob("start", i, t, NoJob))'
    BY <1>1, <1>2, <1>6, ServiceAssumption DEF Fits, Starting, NewJob, Instances
  <2>. QED  BY <1>3, <1>4, <2>1 DEF JobInv
<1>8. ObjectInv'
  BY <1>2, ServiceAssumption DEF ObjectInv, Instances
<1>9. DescriptorInv'
  <2>1. ASSUME NEW k \in Instances, tunOf'[k] # NoTun
        PROVE  k = inst' /\ serving' /\ "service" \in handles'[tunOf'[k]]
    BY <2>1, <1>5, <1>6 DEF DescriptorInv
  <2>2. ASSUME NEW u \in Tuns, "service" \in handles'[u]
        PROVE  inst' # 0 /\ tunOf'[inst'] = u
    <3>1. CASE u = t
      BY <3>1, <1>6, ServiceAssumption DEF Instances
    <3>2. CASE u # t
      <4>1. "service" \in handles[u] /\ u # tunOf[i]
        BY <2>2, <3>2, <1>5
      <4>2. tunOf[inst] = u /\ inst # 0
        BY <4>1 DEF DescriptorInv
      <4>3. inst \in Instances
        BY <4>2, ServiceAssumption DEF Typed, Instances
      <4>4. serving
        BY <4>2, <4>3, ServiceAssumption DEF DescriptorInv
      <4>. QED  BY <4>1, <4>2, <4>4
    <3>. QED  BY <3>1, <3>2
  <2>3. ASSUME NEW u \in Tuns, "core" \in handles'[u]
        PROVE  core' = u \/ \E j \in InFlight' : jobs'[j].kind = "start" /\ jobs'[j].tun = u
    <3>1. CASE u = t
      <4>1. jobs'[FreeJob(js)] = NewJob("start", i, t, NoJob) /\ FreeJob(js) \in InFlight'
        BY <1>3, <1>4, ServiceAssumption DEF Only, InFlight
      <4>. QED  BY <3>1, <4>1 DEF NewJob
    <3>2. CASE u # t
      BY <2>3, <3>2, <1>5
    <3>. QED  BY <3>1, <3>2
  <2>. QED  BY <2>1, <2>2, <2>3 DEF DescriptorInv
<1>10. IntentInv'
  BY <1>1, <1>2, <1>6 DEF IntentInv, Up
<1>11. CoreInv'
  BY DEF CoreInv
<1>. QED  BY <1>7, <1>8, <1>9, <1>10, <1>11 DEF ServiceInv

\* startVpn that cannot set up the interface ends the service, with no
\* descriptor open.
LEMMA FailKeeps ==
  ASSUME Prior, NEW i \in Instances, NEW active \in BOOLEAN, NEW p \in Prefs,
         NEW s \in BOOLEAN, NEW js \in JobMap, Empty(js),
         SetupFails(i, active, p, s, js),
         \/ inst' = inst /\ serving' = serving
         \/ inst' = i /\ ~serving,
         granted /\ serving => i = inst,
         inst' # 0, granted' = granted, core = NoTun, core' = NoTun, posted' = {},
         monitor' \subseteq {inst'}, monitor' # {} => serving' /\ p.cached,
         ~sticky', intent' # "down", granted \/ intent' # "up", serving' => s \/ active,
         \A k \in Instances : coreJob[k] = NoJob,
         \A u \in Tuns : "core" \notin handles[u]
  PROVE  ServiceInv'
<1>. USE DEF Prior
<1>h. handles \in HandleMap
  BY DEF Typed
<1>1. /\ status' = "error" /\ prefs' = [p EXCEPT !.shouldRun = FALSE]
      /\ handles' = ServiceCloses(handles, i) /\ tunOf' = NoTunOf(i)
      /\ stopping' = (s \/ active) /\ jobs' = js /\ UNCHANGED coreJob
      /\ ~granted => iface' = iface
  BY DEF SetupFails
<1>2. \A u \in Tuns : handles'[u] = IF u = tunOf[i] THEN handles[u] \ {"service"} ELSE handles[u]
  <2>1. \A u \in Tuns : ServiceCloses(handles, i)[u] =
          IF u = tunOf[i] THEN handles[u] \ {"service"} ELSE handles[u]
    BY <1>h, Closes, ZenonT(40)
  <2>. QED  BY <1>1, <2>1
<1>3. tunOf'[i] = NoTun /\ \A k \in Instances \ {i} : tunOf'[k] = tunOf[k]
  BY <1>1 DEF Typed, NoTunOf
<1>4. ~Up'
  <2>1. CASE ~granted
    BY <1>1, <2>1 DEF IntentInv, Up
  <2>2. CASE granted
    <3>1. \A u \in Tuns : "service" \in handles[u] => u = tunOf[i]
      BY <2>2, Gone DEF DescriptorInv
    <3>2. \A u \in Tuns : "service" \notin handles'[u] /\ "core" \notin handles'[u]
      BY <1>2, <3>1
    <3>. QED  BY <3>2 DEF Up, Typed, HandleMap
  <2>. QED  BY <2>1, <2>2
<1>5. JobInv'
  BY <1>1 DEF JobInv, Empty
<1>6. ObjectInv'
  <2>1. prefs'.cached = p.cached
    BY <1>1 DEF Prefs
  <2>. QED  BY <1>1, <2>1 DEF ObjectInv
<1>7. DescriptorInv'
  <2>1. ASSUME NEW k \in Instances, tunOf'[k] # NoTun
        PROVE  k = inst' /\ serving' /\ "service" \in handles'[tunOf'[k]]
    <3>1. k # i /\ tunOf[k] # NoTun /\ tunOf'[k] = tunOf[k] /\ tunOf[k] \in Tuns
      BY <2>1, <1>3 DEF Typed
    <3>2. k = inst /\ serving /\ "service" \in handles[tunOf[k]]
      BY <3>1 DEF DescriptorInv
    <3>3. tunOf[i] = NoTun
      BY <3>1, <3>2 DEF DescriptorInv
    <3>. QED  BY <3>1, <3>2, <3>3, <1>2, ServiceAssumption
  <2>2. ASSUME NEW u \in Tuns, "service" \in handles'[u]
        PROVE  inst' # 0 /\ tunOf'[inst'] = u
    <3>1. "service" \in handles[u] /\ u # tunOf[i]
      BY <2>2, <1>2
    <3>2. inst # 0 /\ tunOf[inst] = u /\ serving
      BY <3>1, Gone DEF DescriptorInv
    <3>3. inst \in Instances
      BY <3>2, ServiceAssumption DEF Typed, Instances
    <3>. QED  BY <3>1, <3>2, <3>3, <1>3
  <2>3. \A u \in Tuns : "core" \notin handles'[u]
    BY <1>2
  <2>. QED  BY <2>1, <2>2, <2>3 DEF DescriptorInv
<1>8. IntentInv'
  <2>1. ~granted' => iface' = NoTun
    BY <1>1 DEF IntentInv
  <2>. QED  BY <1>1, <1>4, <2>1 DEF IntentInv
<1>9. CoreInv'
  BY DEF CoreInv
<1>. QED  BY <1>5, <1>6, <1>7, <1>8, <1>9 DEF ServiceInv

-----------------------------------------------------------------------------
(* Commands                                                               *)

\* The user waits for what is under way.
Waits == "impatient" \notin Events

\* Nothing is under way when a command comes.
LEMMA Waiting == ASSUME Waits, Patient  PROVE Quiet
BY DEF Waits, Patient

LEMMA AtRest ==
  ASSUME Typed, JobInv, DescriptorInv, Quiet
  PROVE  /\ Empty(jobs) /\ posted = {} /\ \A i \in Instances : coreJob[i] = NoJob
         /\ serving /\ stopping => Up
         /\ \A u \in Tuns : "core" \in handles[u] => core = u
<1>2. Empty(jobs)
  BY DEF Quiet, InFlight, Empty
<1>3. \A i \in Instances : coreJob[i] = NoJob
  BY <1>2, ServiceAssumption DEF JobInv, Empty, Only
<1>4. \A u \in Tuns : "core" \in handles[u] => core = u
  BY <1>2, CoreHandles DEF Empty
<1>. QED  BY <1>2, <1>3, <1>4 DEF Quiet

\* After a disconnect nothing is left once its coroutine has run.
LEMMA Released ==
  ASSUME Typed, DescriptorInv, CoreInv, IntentInv, Empty(jobs), intent = "down"  PROVE ~Up
<1>. SUFFICES ASSUME Up  PROVE FALSE
  OBVIOUS
<1>1. iface \in Tuns /\ handles[iface] \subseteq {"service", "core"} /\ handles[iface] # {}
  BY DEF Up, Typed, HandleMap
<1>2. "service" \notin handles[iface]
  <2>1. ASSUME "service" \in handles[iface]  PROVE FALSE
    <3>1. inst # 0 /\ tunOf[inst] = iface
      BY <1>1, <2>1 DEF DescriptorInv
    <3>2. inst \in Instances
      BY <3>1, ServiceAssumption DEF Typed, Instances
    <3>. QED  BY <1>1, <3>1, <3>2, ServiceAssumption DEF IntentInv
  <2>. QED  BY <2>1
<1>3. "core" \notin handles[iface]
  BY <1>1, CoreHandles, NoCore, ServiceAssumption DEF IntentInv, Empty
<1>. QED  BY <1>1, <1>2, <1>3

\* A command that changes no descriptor and launches nothing, on the service
\* object or a new one.
LEMMA ObjectKeeps ==
  ASSUME Prior, Empty(jobs), posted = {},
         \A i \in Instances : coreJob[i] = NoJob,
         UNCHANGED <<tunOf, iface, handles, coreJob, jobs, core, monitor, posted, granted, status>>,
         \/ serving /\ inst' = inst
         \/ ~serving /\ inst' = inst + 1,
         serving', ~sticky', prefs'.cached = prefs.cached,
         ~granted => stopping' /\ intent' # "up",
         monitor # {} /\ status = "connected" /\ granted => ~stopping',
         intent' = "down" => intent = "down" /\ ~prefs'.shouldRun,
         intent' # "down" => intent # "down" \/ ~Up,
         intent' = "up" /\ Up => prefs'.shouldRun
  PROVE  ServiceInv'
<1>. USE DEF Prior
<1>a. inst' # 0 /\ inst \in 0..MaxInstances /\ MaxInstances \in Nat
  BY ServiceAssumption DEF Typed, Instances
<1>1. JobInv'
  BY DEF JobInv, Empty
<1>2. ObjectInv'
  BY <1>a DEF ObjectInv, Empty, At
<1>3. DescriptorInv'
  <2>1. CASE serving
    BY <2>1 DEF DescriptorInv, InFlight
  <2>2. CASE ~serving
    <3>1. \A i \in Instances : tunOf[i] = NoTun
      BY <2>2 DEF DescriptorInv
    <3>2. \A u \in Tuns : "service" \notin handles[u]
      BY <3>1, <1>a, ServiceAssumption DEF DescriptorInv, Instances
    <3>3. \A u \in Tuns : "core" \in handles[u] => core = u
      BY CoreHandles DEF Empty
    <3>. QED  BY <3>1, <3>2, <3>3 DEF DescriptorInv
  <2>. QED  BY <2>1, <2>2
<1>4. IntentInv'
  BY DEF IntentInv, Up, Empty
<1>5. CoreInv'
  BY NoCore DEF CoreInv
<1>. QED  BY <1>1, <1>2, <1>3, <1>4, <1>5 DEF ServiceInv

\* A start of the service by a command, with nothing else under way.
LEMMA StartsKeep ==
  ASSUME Prior, NEW i \in Instances, NEW p \in Prefs,
         StartVpn(i, TRUE, status, p, FALSE, jobs),
         Empty(jobs), posted = {}, \A k \in Instances : coreJob[k] = NoJob, Room,
         \/ serving /\ inst' = inst /\ i = inst
         \/ ~serving /\ inst' = inst + 1 /\ i = inst + 1,
         serving', ~sticky', p.shouldRun, p.cached = prefs.cached,
         UNCHANGED <<monitor, posted, core, granted>>,
         granted \/ (inst = 0 /\ intent' = intent), intent' # "down"
  PROVE  ServiceInv'
<1>. USE DEF Prior
<1>a. /\ inst' = i /\ i # 0 /\ inst \in 0..MaxInstances /\ jobs \in JobMap
      /\ \E j \in Jobs : jobs[j] = NoJob
  BY ServiceAssumption DEF Typed, Instances, Room
<1>b. status # "connected" => core = NoTun /\ \A u \in Tuns : "core" \notin handles[u]
  BY NoCore, CoreHandles, ServiceAssumption DEF Empty
<1>c. monitor' \subseteq {i} /\ (monitor' # {} => p.cached)
  BY DEF ObjectInv
<1>1. CASE status \in {"connected", "connecting"}
  <2>1. /\ status' = status /\ prefs' = p /\ stopping' = FALSE /\ jobs' = jobs
        /\ UNCHANGED <<tunOf, iface, handles, coreJob>>
    BY <1>1 DEF StartVpn, osVars
  <2>2. intent # "down" /\ inst # 0
    BY <1>1 DEF IntentInv, ObjectInv
  <2>. QED  BY <2>1, <2>2, ObjectKeeps DEF IntentInv
<1>2. CASE Establishes(i, TRUE, p, FALSE, jobs) /\ status # "connected"
  <2>1. serving => inst = i
    OBVIOUS
  <2>. QED  BY <1>2, <1>a, <1>b, <1>c, <2>1, EstablishKeeps
<1>3. CASE SetupFails(i, TRUE, p, FALSE, jobs) /\ status # "connected"
  <2>1. granted \/ intent' # "up"
    BY DEF IntentInv
  <2>. QED  BY <1>3, <1>a, <1>b, <1>c, <2>1, FailKeeps
<1>. QED  BY <1>1, <1>2, <1>3 DEF StartVpn

\* The commands of the user, of the tile, of the boot receiver and of Android.
LEMMA CommandsKeep ==
  ASSUME Prior, Waits, ~disturbed',
         \/ \E k \in BOOLEAN : UserConnects(k)
         \/ UserConsents \/ UserDisconnects \/ RecoverIfExpected
         \/ StickyRestart \/ AlwaysOnStart
  PROVE  ServiceInv'
<1>. USE DEF Prior, serviceVars, osVars
<1>p. ASSUME NEW k \in BOOLEAN
      PROVE  LET p == [prefs EXCEPT !.shouldRun = TRUE, !.killSwitch = k]
             IN  p \in Prefs /\ p.shouldRun /\ p.cached = prefs.cached
  BY DEF Typed, Prefs
<1>q. /\ \A b \in BOOLEAN : SetShouldRun(b) \in Prefs /\ SetShouldRun(b).shouldRun = b
                            /\ SetShouldRun(b).cached = prefs.cached
      /\ prefs \in Prefs
  BY DEF Typed, Prefs, SetShouldRun
<1>d. ASSUME Quiet, NEW i \in Instances, NEW s \in BOOLEAN, Delivered(i, s)
      PROVE  /\ s = FALSE /\ serving'
             /\ \/ serving /\ inst' = inst /\ i = inst
                \/ ~serving /\ inst' = inst + 1 /\ i = inst + 1
  BY <1>d DEF Delivered
<1>1. ASSUME NEW k \in BOOLEAN, Started(k), Quiet, granted, UNCHANGED granted, intent' # "down"
      PROVE  ServiceInv'
  <2>1. PICK i \in Instances, s \in BOOLEAN :
          /\ Delivered(i, s)
          /\ StartVpn(i, TRUE, status, [prefs EXCEPT !.shouldRun = TRUE, !.killSwitch = k], s, jobs)
    BY <1>1 DEF Started
  <2>2. StartVpn(i, TRUE, status, [prefs EXCEPT !.shouldRun = TRUE, !.killSwitch = k], FALSE, jobs)
    BY <1>1, <1>d, <2>1
  <2>3. /\ serving'
        /\ \/ serving /\ inst' = inst /\ i = inst
           \/ ~serving /\ inst' = inst + 1 /\ i = inst + 1
    BY <1>1, <1>d, <2>1
  <2>4. Empty(jobs) /\ posted = {} /\ \A m \in Instances : coreJob[m] = NoJob
    BY <1>1, AtRest
  <2>5. Room /\ ~sticky' /\ UNCHANGED <<monitor, posted, core>>
    BY <1>1 DEF Started
  <2>. QED  BY <1>1, <1>p, <2>2, <2>3, <2>4, <2>5, StartsKeep
<1>2. ASSUME NEW k \in BOOLEAN, UserConnects(k)  PROVE ServiceInv'
  BY <1>1, <1>2, Waiting DEF UserConnects
<1>3. CASE RecoverIfExpected
  <2>1. prefs.killSwitch \in BOOLEAN
    BY DEF Typed, Prefs
  <2>2. intent' # "down"
    BY <1>3 DEF RecoverIfExpected, IntentInv
  <2>. QED  BY <1>1, <1>3, <2>1, <2>2, Waiting DEF RecoverIfExpected
<1>4. CASE UserConsents
  <2>1. Empty(jobs) /\ posted = {} /\ (serving /\ stopping => Up) /\ ~granted
    BY <1>4, AtRest, Waiting DEF UserConsents
  <2>2. ~Up /\ ~serving
    BY <2>1 DEF IntentInv, Up
  <2>3. monitor = {}
    BY <2>2 DEF ObjectInv
  <2>4. JobInv'
    BY <1>4, <2>1 DEF UserConsents, JobInv, Empty, Only, Fits, Starting, Stops, Reconnecting
  <2>5. ObjectInv' /\ DescriptorInv'
    BY <1>4, <2>1, <2>3 DEF UserConsents, ObjectInv, DescriptorInv, InFlight, At
  <2>6. IntentInv' /\ CoreInv'
    BY <1>4, <2>2 DEF UserConsents, IntentInv, Up, Empty, CoreInv, At
  <2>. QED  BY <2>4, <2>5, <2>6 DEF ServiceInv
<1>5. CASE UserDisconnects
  <2>1. PICK i \in Instances, s \in BOOLEAN :
       /\ Delivered(i, s)
       /\ monitor' = monitor \ {i}
       /\ jobs' = Cancel([jobs EXCEPT ![FreeJob(jobs)] = NewJob("stop", i, NoTun, NoJob)],
                         coreJob[i])
       /\ coreJob' = [coreJob EXCEPT ![i] = NoJob]
       /\ handles' = ServiceCloses(handles, i) /\ tunOf' = NoTunOf(i)
    BY <1>5 DEF UserDisconnects
  <2>2. /\ serving'
        /\ \/ serving /\ inst' = inst /\ i = inst
           \/ ~serving /\ inst' = inst + 1 /\ i = inst + 1
    BY <1>5, <1>d, <2>1, Waiting DEF UserDisconnects
  <2>3. /\ Empty(jobs) /\ posted = {} /\ \A m \in Instances : coreJob[m] = NoJob
        /\ \A u \in Tuns : "core" \in handles[u] => core = u
    BY <1>5, AtRest, Waiting DEF UserDisconnects
  <2>4. /\ UNCHANGED <<posted, core, iface, granted>> /\ Room /\ ~sticky'
        /\ status' = "disconnected" /\ stopping' = TRUE /\ intent' = "down"
        /\ prefs' = SetShouldRun(FALSE)
    BY <1>5 DEF UserDisconnects
  <2>5. NewJob("stop", i, NoTun, NoJob) \in Job
    BY DEF NewJob, Job
  <2>6. PICK f \in Jobs : Only(jobs', f, NewJob("stop", i, NoTun, NoJob))
    <3>1. jobs' = [jobs EXCEPT ![FreeJob(jobs)] = NewJob("stop", i, NoTun, NoJob)]
      BY <2>1, <2>3 DEF Cancel
    <3>2. jobs \in JobMap /\ \E j \in Jobs : jobs[j] = NoJob
      BY <2>4 DEF Typed, Room
    <3>. QED  BY <2>3, <2>5, <3>1, <3>2, Launched
  <2>7. \A m \in Instances : coreJob'[m] = NoJob /\ tunOf'[m] = (IF m = i THEN NoTun ELSE tunOf[m])
    BY <2>1, <2>3 DEF Typed, NoTunOf
  <2>8. \A m \in Instances : tunOf'[m] = NoTun
    BY <2>2, <2>7 DEF DescriptorInv
  <2>9. handles \in HandleMap
    BY DEF Typed
  <2>10. \A u \in Tuns : handles'[u] = IF u = tunOf[i] THEN handles[u] \ {"service"} ELSE handles[u]
    <3>1. \A u \in Tuns : ServiceCloses(handles, i)[u] =
            IF u = tunOf[i] THEN handles[u] \ {"service"} ELSE handles[u]
      BY <2>9, Closes
    <3>. QED  BY <2>1, <3>1
  <2>11. \A u \in Tuns : "service" \notin handles'[u]
    <3>. SUFFICES ASSUME NEW u \in Tuns, "service" \in handles'[u]  PROVE FALSE
      OBVIOUS
    <3>1. "service" \in handles[u] /\ u # tunOf[i]
      BY <2>10
    <3>2. inst # 0 /\ tunOf[inst] = u
      BY <3>1 DEF DescriptorInv
    <3>3. inst \in Instances
      BY <3>2, ServiceAssumption DEF Typed, Instances
    <3>4. serving
      BY <3>2, <3>3, ServiceAssumption DEF DescriptorInv
    <3>. QED  BY <3>1, <3>2, <3>4, <2>2
  <2>12. inst' # 0
    BY <2>2, ServiceAssumption DEF Typed, Instances
  <2>13. JobInv'
    <3>1. Fits(f, NewJob("stop", i, NoTun, NoJob))'
      BY <2>3, <2>4, <2>7, <2>12 DEF Fits, Stops, NewJob
    <3>. QED  BY <2>5, <2>6, <3>1 DEF JobInv
  <2>14. ObjectInv'
    <3>1. monitor' = {}
      BY <2>1, <2>2 DEF ObjectInv
    <3>. QED  BY <2>3, <2>4, <2>12, <3>1 DEF ObjectInv
  <2>15. DescriptorInv'
    <3>1. \A u \in Tuns : "core" \in handles'[u] => core' = u
      BY <2>3, <2>4, <2>10
    <3>. QED  BY <2>8, <2>11, <3>1 DEF DescriptorInv
  <2>16. IntentInv'
    BY <1>q, <2>3, <2>4, <2>8 DEF IntentInv
  <2>17. CoreInv'
    <3>1. jobs'[f] # NoJob /\ jobs'[f].kind = "stop" /\ jobs'[f].at = "launched"
      BY <2>5, <2>6, ServiceAssumption DEF Only, NewJob
    <3>. QED  BY <2>2, <3>1 DEF CoreInv, At
  <2>. QED  BY <2>13, <2>14, <2>15, <2>16, <2>17 DEF ServiceInv
<1>6. CASE StickyRestart
  <2>1. inst = 0 /\ ~serving /\ posted = {} /\ monitor = {} /\ status = "disconnected" /\ iface = NoTun
    BY <1>6 DEF StickyRestart, ObjectInv
  <2>2. Empty(jobs) /\ \A m \in Instances : coreJob[m] = NoJob
    BY <2>1 DEF JobInv, Fits
  <2>3. inst + 1 \in Instances /\ inst' = inst + 1 /\ serving' /\ ~sticky' /\ Room
        /\ UNCHANGED <<monitor, posted, core, granted, intent>>
    BY <1>6, <2>1, ServiceAssumption DEF StickyRestart, Instances
  <2>4. CASE prefs.shouldRun /\ prefs.cached
    <3>1. StartVpn(inst + 1, TRUE, status, prefs, FALSE, jobs)
      BY <1>6, <2>4 DEF StickyRestart
    <3>2. intent' # "down"
      BY <2>3, <2>4 DEF IntentInv
    <3>. QED  BY <1>q, <2>1, <2>2, <2>3, <2>4, <3>1, <3>2, StartsKeep
  <2>5. CASE ~(prefs.shouldRun /\ prefs.cached)
    <3>1. prefs' = SetShouldRun(FALSE) /\ stopping' = TRUE
          /\ UNCHANGED <<status, tunOf, iface, handles, jobs, coreJob>>
      BY <1>6, <2>5 DEF StickyRestart
    <3>2. ~Up
      BY <2>1 DEF Up
    <3>3. ~granted => intent # "up"
      BY DEF IntentInv
    <3>. QED  BY <1>q, <2>1, <2>2, <2>3, <3>1, <3>2, <3>3, ObjectKeeps
  <2>. QED  BY <2>4, <2>5
<1>7. CASE AlwaysOnStart
  <2>1. PICK i \in Instances, s \in BOOLEAN :
          /\ Delivered(i, s)
          /\ IF prefs.cached
               THEN /\ killSwitch' = prefs.killSwitch /\ intent' = "up"
                    /\ StartVpn(i, TRUE, status, SetShouldRun(TRUE), s, jobs)
               ELSE /\ stopping' = TRUE
                    /\ UNCHANGED <<prefs, status, killSwitch, tunOf, osVars, jobs,
                                   coreJob, intent>>
    BY <1>7 DEF AlwaysOnStart
  <2>2. /\ s = FALSE /\ serving'
        /\ \/ serving /\ inst' = inst /\ i = inst
           \/ ~serving /\ inst' = inst + 1 /\ i = inst + 1
    BY <1>7, <1>d, <2>1 DEF AlwaysOnStart, Typed
  <2>3. Empty(jobs) /\ posted = {} /\ \A m \in Instances : coreJob[m] = NoJob
    BY <1>7, AtRest DEF AlwaysOnStart, Typed
  <2>4. Room /\ ~sticky' /\ granted /\ UNCHANGED <<monitor, posted, core, granted>>
    BY <1>7 DEF AlwaysOnStart
  <2>5. CASE prefs.cached
    <3>1. StartVpn(i, TRUE, status, SetShouldRun(TRUE), FALSE, jobs) /\ intent' = "up"
      BY <2>1, <2>2, <2>5
    <3>. QED  BY <1>q, <2>2, <2>3, <2>4, <3>1, StartsKeep
  <2>6. CASE ~prefs.cached
    <3>1. /\ stopping' = TRUE
          /\ UNCHANGED <<prefs, status, tunOf, iface, handles, jobs, coreJob, intent>>
      BY <2>1, <2>6
    <3>2. monitor = {}
      BY <2>6 DEF ObjectInv
    <3>3. (intent = "down" => ~prefs.shouldRun) /\ (intent = "up" /\ Up => prefs.shouldRun)
      BY DEF IntentInv
    <3>4. inst' = inst \/ inst' = inst + 1
      BY <2>2
    <3>. QED  BY <2>2, <2>3, <2>4, <3>1, <3>2, <3>3, ObjectKeeps
  <2>. QED  BY <2>5, <2>6
<1>. QED  BY <1>2, <1>3, <1>4, <1>5, <1>6, <1>7

\* reconnect(), on the last service object and with nothing else under way.
LEMMA ReconnectKeeps ==
  ASSUME Prior, Reconnect(inst), inst \in Instances, Room, Empty(jobs), prefs.cached,
         \A k \in Instances : coreJob[k] = NoJob, posted' = {},
         UNCHANGED <<inst, serving, tunOf, iface, handles, monitor, core, granted>>,
         sticky' = sticky, granted => serving /\ ~stopping', ~granted => (serving => stopping'),
         intent' # "down", intent' = "up" => granted, intent = "down" => ~Up
  PROVE  ServiceInv'
<1>. USE DEF Prior
<1>1. /\ prefs' = SetShouldRun(TRUE) /\ status' = "connecting"
      /\ coreJob' = [coreJob EXCEPT ![inst] = NoJob]
  BY DEF Reconnect
<1>2. /\ prefs'.shouldRun /\ prefs'.cached
      /\ \A k \in Instances : coreJob'[k] = NoJob
  BY <1>1 DEF SetShouldRun, Typed, Prefs
<1>3. inst # 0
  BY ServiceAssumption DEF Instances
<1>4. JobInv'
  <2>1. CASE serving
    <3>1. NewJob("reconnect", inst, NoTun, NoJob) \in Job
      BY DEF NewJob, Job
    <3>2. jobs' = [jobs EXCEPT ![FreeJob(jobs)] = NewJob("reconnect", inst, NoTun, NoJob)]
      BY <2>1 DEF Reconnect, ScopeActive
    <3>3. jobs \in JobMap /\ \E j \in Jobs : jobs[j] = NoJob
      BY DEF Typed, Room
    <3>4. PICK f \in Jobs : Only(jobs', f, NewJob("reconnect", inst, NoTun, NoJob))
      BY <3>1, <3>2, <3>3, Launched
    <3>5. Fits(f, NewJob("reconnect", inst, NoTun, NoJob))'
      BY <1>1, <1>2, <1>3 DEF Fits, Reconnecting, NewJob
    <3>. QED  BY <3>1, <3>4, <3>5 DEF JobInv
  <2>2. CASE ~serving
    BY <2>2, <1>2 DEF Reconnect, ScopeActive, JobInv, Empty
  <2>. QED  BY <2>1, <2>2
<1>5. ObjectInv'
  BY <1>1, <1>2, <1>3 DEF ObjectInv
<1>6. DescriptorInv'
  <2>1. \A u \in Tuns : "core" \in handles[u] => core = u
    BY CoreHandles DEF Empty
  <2>. QED  BY <2>1 DEF DescriptorInv
<1>7. IntentInv'
  BY <1>1, <1>2 DEF IntentInv, Up
<1>8. CoreInv'
  <2>1. CASE serving
    <3>1. NewJob("reconnect", inst, NoTun, coreJob[inst]) \in Job
      BY DEF NewJob, Job
    <3>2. jobs' = [jobs EXCEPT ![FreeJob(jobs)] = NewJob("reconnect", inst, NoTun, coreJob[inst])]
      BY <2>1 DEF Reconnect, ScopeActive
    <3>3. jobs \in JobMap /\ \E j \in Jobs : jobs[j] = NoJob
      BY DEF Typed, Room
    <3>4. PICK f \in Jobs : Only(jobs', f, NewJob("reconnect", inst, NoTun, coreJob[inst]))
      BY <3>1, <3>2, <3>3, Launched
    <3>5. jobs'[f] # NoJob /\ jobs'[f].kind = "reconnect" /\ jobs'[f].at = "launched"
      BY <3>1, <3>4, ServiceAssumption DEF Only, NewJob
    <3>. QED  BY <2>1, <3>5 DEF CoreInv, At
  <2>2. CASE ~serving
    BY <2>2 DEF CoreInv
  <2>. QED  BY <2>1, <2>2
<1>. QED  BY <1>4, <1>5, <1>6, <1>7, <1>8 DEF ServiceInv

\* Everything else on the main thread.
LEMMA MainKeeps ==
  ASSUME Prior, Waits, ~disturbed',
         \/ UserReconnects \/ TogglesKillSwitch \/ Revoked \/ Destroyed
         \/ \E i \in Instances : NetworkChanges(i) \/ PostedReconnect(i)
  PROVE  ServiceInv'
<1>. USE DEF Prior, serviceVars, osVars
<1>q. /\ \A b \in BOOLEAN : SetShouldRun(b).shouldRun = b /\ SetShouldRun(b).cached = prefs.cached
      /\ handles \in HandleMap
  BY DEF Typed, Prefs, SetShouldRun
<1>1. CASE UserReconnects
  <2>1. /\ Empty(jobs) /\ posted = {} /\ \A m \in Instances : coreJob[m] = NoJob
        /\ serving /\ stopping => Up
    BY <1>1, AtRest, Waiting DEF UserReconnects
  <2>2. /\ Room /\ prefs.cached /\ serving /\ Reconnect(inst) /\ intent' = "up"
        /\ UNCHANGED <<tunOf, iface, handles, monitor, posted, core, granted, sticky>>
    BY <1>1 DEF UserReconnects
  <2>3. UNCHANGED <<inst, serving>> /\ stopping' = FALSE
    <3>1. PICK s \in BOOLEAN : Delivered(inst, s) /\ stopping' = s
      BY <1>1 DEF UserReconnects
    <3>. QED  BY <1>1, <2>2, <3>1, Waiting DEF UserReconnects, Delivered
  <2>4. granted
    BY <2>1, <2>2 DEF IntentInv, Up
  <2>5. inst \in Instances
    BY <2>2 DEF Typed
  <2>6. intent = "down" => ~Up
    BY <2>1, Released
  <2>. QED  BY <2>1, <2>2, <2>3, <2>4, <2>5, <2>6, ReconnectKeeps
<1>2. ASSUME NEW i \in Instances, PostedReconnect(i)  PROVE ServiceInv'
  <2>1. i = inst /\ posted' = {} /\ prefs.cached /\ intent # "down"
    BY <1>2 DEF PostedReconnect, ObjectInv, IntentInv
  <2>2. Empty(jobs) /\ \A m \in Instances : coreJob[m] = NoJob
    BY <1>2 DEF PostedReconnect, JobInv, Fits
  <2>3. /\ Room /\ Reconnect(inst)
        /\ UNCHANGED <<inst, serving, stopping, tunOf, iface, handles, monitor, core, granted,
                       sticky, intent>>
    BY <1>2, <2>1 DEF PostedReconnect
  <2>4. /\ granted => serving /\ ~stopping
        /\ ~granted => (serving => stopping) /\ intent # "up"
    BY <1>2 DEF PostedReconnect, ObjectInv, IntentInv
  <2>. QED  BY <2>1, <2>2, <2>3, <2>4, ReconnectKeeps
<1>3. ASSUME NEW i \in Instances, NetworkChanges(i)  PROVE ServiceInv'
  <2>1. /\ i \in monitor /\ status = "connected" /\ posted' = posted \union {i}
        /\ UNCHANGED <<prefs, status, sticky, monitor, jobs, core, granted, intent, inst,
                       serving, stopping, tunOf, coreJob, iface, handles>>
    BY <1>3 DEF NetworkChanges
  <2>2. Empty(jobs) /\ \A m \in Instances : coreJob[m] = NoJob
    <3>1. InFlight = {}
      BY <1>3 DEF NetworkChanges, Typed
    <3>2. Empty(jobs)
      BY <3>1 DEF InFlight, Empty
    <3>. QED  BY <3>2, ServiceAssumption DEF JobInv, Empty, Only
  <2>3. JobInv'
    BY <2>1, <2>2 DEF JobInv, Empty
  <2>4. ObjectInv'
    BY <2>1, <2>2, ServiceAssumption DEF ObjectInv, Instances, Empty, At
  <2>5. DescriptorInv'
    BY <2>1 DEF DescriptorInv, InFlight
  <2>6. IntentInv' /\ CoreInv'
    BY <2>1 DEF IntentInv, Up, Empty, CoreInv
  <2>. QED  BY <2>3, <2>4, <2>5, <2>6 DEF ServiceInv
<1>4. CASE TogglesKillSwitch
  <2>1. prefs'.shouldRun = prefs.shouldRun /\ prefs'.cached = prefs.cached
    BY <1>4 DEF TogglesKillSwitch, Typed, Prefs
  <2>2. UNCHANGED <<status, sticky, monitor, posted, jobs, core, granted, intent, inst,
                    serving, stopping, tunOf, coreJob, iface, handles>>
    BY <1>4 DEF TogglesKillSwitch
  <2>3. JobInv'
    BY <2>1, <2>2 DEF JobInv, Empty, Only, Fits, Starting, Stops, Reconnecting
  <2>4. ObjectInv'
    BY <2>1, <2>2 DEF ObjectInv, At
  <2>5. DescriptorInv' /\ IntentInv' /\ CoreInv'
    BY <2>1, <2>2 DEF DescriptorInv, InFlight, IntentInv, Up, Empty, CoreInv, At
  <2>. QED  BY <2>3, <2>4, <2>5 DEF ServiceInv
\* Closing both ends of the last object's TUN leaves no descriptor open.
<1>5. ASSUME serving, \A u \in Tuns : "core" \in handles[u] => core = u,
             handles' = CoreCloses(ServiceCloses(handles, inst)), tunOf' = NoTunOf(inst)
      PROVE  /\ \A u \in Tuns : "service" \notin handles'[u] /\ "core" \notin handles'[u]
             /\ \A k \in Instances : tunOf'[k] = NoTun
  <2>1. inst \in Instances
    BY <1>5 DEF Typed
  <2>2. ServiceCloses(handles, inst) \in HandleMap
        /\ \A u \in Tuns : ServiceCloses(handles, inst)[u] =
             IF u = tunOf[inst] THEN handles[u] \ {"service"} ELSE handles[u]
    BY <1>q, <2>1, Closes
  <2>3. \A u \in Tuns : handles'[u] = IF u = core THEN ServiceCloses(handles, inst)[u] \ {"core"}
                                      ELSE ServiceCloses(handles, inst)[u]
    BY <1>5, <2>2, Closes
  <2>4. \A u \in Tuns : "service" \in handles[u] => u = tunOf[inst]
    BY DEF DescriptorInv
  <2>5. \A u \in Tuns : "service" \notin handles'[u] /\ "core" \notin handles'[u]
    BY <1>5, <2>2, <2>3, <2>4
  <2>6. \A k \in Instances : tunOf'[k] = NoTun
    BY <1>5, <2>1 DEF NoTunOf, Typed, DescriptorInv
  <2>. QED  BY <2>5, <2>6
<1>6. CASE Revoked
  <2>1. /\ Empty(jobs) /\ posted = {} /\ \A m \in Instances : coreJob[m] = NoJob
        /\ \A u \in Tuns : "core" \in handles[u] => core = u
    BY <1>6, AtRest DEF Revoked, Typed
  <2>2. /\ ~granted' /\ iface' = NoTun /\ intent' = "revoked" /\ prefs' = SetShouldRun(FALSE)
        /\ core' = NoTun /\ stopping' = TRUE /\ serving
        /\ UNCHANGED <<status, inst, serving, sticky, monitor, posted, coreJob, jobs>>
    BY <1>6 DEF Revoked
  <2>3. /\ \A u \in Tuns : "service" \notin handles'[u] /\ "core" \notin handles'[u]
        /\ \A k \in Instances : tunOf'[k] = NoTun
    BY <1>5, <1>6, <2>1, <2>2 DEF Revoked
  <2>4. JobInv'
    BY <2>1, <2>2 DEF JobInv, Empty
  <2>5. ObjectInv'
    BY <1>q, <2>1, <2>2, ServiceAssumption DEF ObjectInv, Typed, Instances, Empty, At
  <2>6. DescriptorInv' /\ IntentInv' /\ CoreInv'
    BY <2>2, <2>3 DEF DescriptorInv, IntentInv, Up, CoreInv
  <2>. QED  BY <2>4, <2>5, <2>6 DEF ServiceInv
<1>7. CASE Destroyed
  <2>1. /\ serving /\ stopping /\ ~Up /\ ~serving' /\ ~stopping'
        /\ monitor' = monitor \ {inst} /\ core' = NoTun
        /\ UNCHANGED <<prefs, status, inst, sticky, posted, iface, granted, intent>>
    BY <1>7 DEF Destroyed
  <2>2. \A j \in Jobs : jobs[j] = NoJob \/ (jobs[j].kind # "start" /\ Fits(j, jobs[j])
                                             /\ Only(jobs, j, jobs[j]) /\ jobs[j] \in Job)
    BY <2>1, TheJob DEF Fits, Starting
  <2>3. \A u \in Tuns : "core" \in handles[u] => core = u
    BY <2>2, CoreHandles
  <2>4. /\ \A u \in Tuns : "service" \notin handles'[u] /\ "core" \notin handles'[u]
        /\ \A k \in Instances : tunOf'[k] = NoTun
    BY <1>5, <1>7, <2>1, <2>3 DEF Destroyed
  <2>5. \A k \in Instances : coreJob[k] = NoJob
    <3>1. ASSUME NEW f \in Jobs, NEW r \in Job, Only(jobs, f, r), Fits(f, r)
          PROVE  \A k \in Instances : coreJob[k] = NoJob
      <4>1. r.kind # "start"
        BY <2>2, <3>1, ServiceAssumption DEF Only
      <4>. QED  BY <3>1, <4>1 DEF Fits
    <3>. QED  BY <3>1 DEF JobInv
  <2>6. \A k \in Instances : coreJob'[k] = NoJob
    BY <1>7, <2>5 DEF Destroyed, Typed
  <2>7. \A j \in Jobs : jobs'[j] = jobs[j] \/ jobs'[j] = NoJob
    BY <1>7 DEF Destroyed
  <2>8. JobInv'
    <3>1. CASE Empty(jobs')
      BY <2>6, <3>1 DEF JobInv
    <3>2. CASE ~Empty(jobs')
      <4>1. PICK f \in Jobs : jobs'[f] # NoJob
        BY <3>2 DEF Empty
      <4>2. jobs'[f] = jobs[f] /\ jobs[f].kind # "start" /\ Fits(f, jobs[f])
            /\ Only(jobs, f, jobs[f]) /\ jobs[f] \in Job
        BY <2>2, <2>7, <4>1
      <4>3. Only(jobs', f, jobs[f])
        BY <2>7, <4>2 DEF Only
      <4>4. Fits(f, jobs[f])'
        <5>1. jobs[f].kind = "reconnect" => ~granted
          BY <2>1, <4>2 DEF Fits, Reconnecting
        <5>. QED  BY <2>1, <2>6, <4>2, <5>1 DEF Fits, Stops, Reconnecting
      <4>. QED  BY <4>2, <4>3, <4>4 DEF JobInv
    <3>. QED  BY <3>1, <3>2
  <2>9. ObjectInv'
    <3>1. \A j \in Jobs : ~At(j, "start", "cache")
      BY <2>2 DEF At
    <3>. QED  BY <2>1, <3>1 DEF ObjectInv
  <2>10. DescriptorInv' /\ IntentInv' /\ CoreInv'
    <3>1. ~Up'
      BY <2>1, <2>4 DEF Up, Typed, HandleMap
    <3>. QED  BY <2>1, <2>4, <3>1 DEF DescriptorInv, IntentInv, CoreInv
  <2>. QED  BY <2>8, <2>9, <2>10 DEF ServiceInv
<1>. QED  BY <1>1, <1>2, <1>3, <1>4, <1>6, <1>7

-----------------------------------------------------------------------------
(* Coroutines                                                             *)

LEMMA CoroutinesKeep ==
  ASSUME Prior, ~disturbed', NEW j \in Jobs, Coroutine(j)  PROVE ServiceInv'
<1>. USE DEF Prior, serviceVars, osVars
<1>a. jobs[j] # NoJob
  BY DEF Coroutine, At, StartJobRuns, CoreStarts, CoreFails, Reports, Caches, FailsLate,
     StopJobRuns, ReconnectStops, DelayEnds, ReconnectStarts
<1>b. jobs[j] \in Job /\ Only(jobs, j, jobs[j]) /\ Fits(j, jobs[j])
  BY <1>a, TheJob
<1>c. /\ posted = {} /\ inst # 0 /\ inst \in Instances /\ handles \in HandleMap
      /\ \A i \in Instances : coreJob[i] \in {NoJob, j}
      /\ jobs[j].inst \in Instances /\ jobs[j].tun \in Tuns \union {NoTun}
  BY <1>b, ServiceAssumption DEF Fits, Typed, Instances, Job
<1>d. Ends(j) => JobInv' /\ Empty(jobs')
  BY <1>b, <1>c, EndedJob DEF JobInv
\* The core's handles before a step of a start, and of another coroutine.
<1>e. /\ \A u \in Tuns : "core" \in handles[u] => core = u \/ jobs[j].tun = u
      /\ jobs[j].kind # "start" => \A u \in Tuns : "core" \in handles[u] => core = u
  BY <1>a, <1>b DEF DescriptorInv, InFlight, Only
<1>f. /\ CoreCloses(handles) \in HandleMap
      /\ \A u \in Tuns : CoreCloses(handles)[u] =
           IF u = core THEN handles[u] \ {"core"} ELSE handles[u]
  BY <1>c, Closes
<1>g. ASSUME NEW a \in {"launched", "core", "report", "cache", "delay", "resumed"}
      PROVE  \E r \in Job :
               /\ r = [jobs[j] EXCEPT !.at = a] /\ r.at = a /\ r.kind = jobs[j].kind
               /\ r.tun = jobs[j].tun /\ r.inst = jobs[j].inst /\ r.prev = jobs[j].prev
  <2>1. [jobs[j] EXCEPT !.at = a] \in Job
    BY <1>b, Moved
  <2>. QED  BY <1>b, <2>1 DEF Job
<1>1. ASSUME NEW a \in {"launched", "core", "report", "cache", "delay", "resumed"}, Goes(j, a),
             NEW r \in Job, r = [jobs[j] EXCEPT !.at = a], Fits(j, r)'
      PROVE  JobInv' /\ ~Empty(jobs') /\ j \in InFlight' /\ jobs'[j] = r
  <2>1. Only(jobs, j, r)'
    BY <1>1, <1>b, Moved DEF Only
  <2>2. JobInv'
    BY <1>1, <2>1 DEF JobInv
  <2>3. jobs'[j] = r /\ r # NoJob
    BY <2>1, ServiceAssumption DEF Only
  <2>. QED  BY <2>2, <2>3 DEF Empty, InFlight
<1>h. /\ status = "connected" => jobs[j].kind = "start" /\ jobs[j].at = "cache"
      /\ core # NoTun => serving /\ \/ jobs[j].kind = "start" /\ jobs[j].at \in {"report", "cache"}
                                    \/ jobs[j].kind # "start" /\ jobs[j].at = "launched"
  <2>1. status = "connected" => jobs[j].kind = "start" /\ jobs[j].at = "cache"
    BY <1>b DEF Fits
  <2>2. \A k \in Jobs : jobs[k] # NoJob => k = j
    BY <1>b DEF Only, At
  <2>3. core # NoTun => serving /\ (status = "connected" \/ \E k \in Jobs :
           \/ At(k, "start", "report") \/ At(k, "start", "cache")
           \/ At(k, "stop", "launched") \/ At(k, "reconnect", "launched"))
    BY DEF CoreInv
  <2>. QED  BY <2>1, <2>2, <2>3 DEF At
<1>2. CASE StartJobRuns(j)
  <2>1. /\ Goes(j, "core") /\ jobs[j].kind = "start"
        /\ UNCHANGED <<prefs, status, killSwitch, sticky, monitor, posted, core, granted, intent,
                       inst, serving, stopping, tunOf, coreJob, iface, handles>>
    BY <1>2 DEF StartJobRuns, At
  <2>a. PICK r \in Job :
          /\ r = [jobs[j] EXCEPT !.at = "core"] /\ r.at = "core" /\ r.kind = jobs[j].kind
          /\ r.tun = jobs[j].tun /\ r.inst = jobs[j].inst /\ r.prev = jobs[j].prev
    BY <1>g
  <2>2. Fits(j, r)'
    <3>1. jobs[j].at = "launched"
      BY <1>2 DEF StartJobRuns, At
    <3>. QED  BY <1>b, <1>c, <1>h, <2>1, <2>a, <3>1 DEF Fits, Starting
  <2>3. JobInv' /\ j \in InFlight' /\ jobs'[j].kind = "start" /\ jobs'[j].tun = jobs[j].tun
    BY <2>1, <2>2, <2>a, <1>1
  <2>4. ObjectInv' /\ CoreInv'
    <3>1. jobs[j].at = "launched"
      BY <1>2 DEF StartJobRuns, At
    <3>. QED  BY <1>h, <2>1, <3>1 DEF ObjectInv, CoreInv
  <2>5. DescriptorInv'
    BY <1>e, <2>1, <2>3 DEF DescriptorInv
  <2>6. IntentInv'
    BY <2>1, <1>b DEF IntentInv, Up, Fits, Starting
  <2>. QED  BY <2>3, <2>4, <2>5, <2>6 DEF ServiceInv
<1>3. CASE CoreStarts(j)
  <2>1. /\ Goes(j, "report") /\ jobs[j].kind = "start"
        /\ core' = jobs[j].tun /\ handles' = CoreCloses(handles)
        /\ UNCHANGED <<prefs, status, killSwitch, sticky, monitor, posted, granted, intent,
                       inst, serving, stopping, tunOf, coreJob, iface>>
    BY <1>3 DEF CoreStarts, At
  <2>a. PICK r \in Job :
          /\ r = [jobs[j] EXCEPT !.at = "report"] /\ r.at = "report" /\ r.kind = jobs[j].kind
          /\ r.tun = jobs[j].tun /\ r.inst = jobs[j].inst /\ r.prev = jobs[j].prev
    BY <1>g
  <2>2. Fits(j, r)'
    <3>1. jobs[j].at = "core"
      BY <1>3 DEF CoreStarts, At
    <3>. QED  BY <1>b, <1>c, <1>h, <2>1, <2>a, <3>1 DEF Fits, Starting
  <2>3. /\ JobInv' /\ j \in InFlight' /\ jobs'[j].kind = "start" /\ jobs'[j].tun = jobs[j].tun
        /\ jobs'[j].at = "report"
    BY <2>1, <2>2, <2>a, <1>1
  <2>4. ObjectInv' /\ CoreInv'
    <3>1. jobs[j].at = "core" /\ serving
      BY <1>3, <1>b, <2>1 DEF CoreStarts, At, Fits, Starting
    <3>2. jobs'[j] # NoJob
      BY <2>3 DEF InFlight
    <3>. QED  BY <1>h, <2>1, <2>3, <3>1, <3>2 DEF ObjectInv, CoreInv, At
  <2>5. DescriptorInv'
    <3>1. \A u \in Tuns : "core" \in handles'[u] => core' = u
      BY <1>e, <1>f, <2>1
    <3>2. \A i \in Instances : tunOf[i] # NoTun => tunOf[i] \in Tuns
      BY DEF Typed
    <3>. QED  BY <1>f, <2>1, <3>1, <3>2, ZenonT(40) DEF DescriptorInv
  <2>6. IntentInv'
    <3>1. Up' => Up
      BY <1>f, <2>1 DEF Up, Typed
    <3>. QED  BY <2>1, <3>1, <1>b DEF IntentInv, Fits, Starting
  <2>. QED  BY <2>3, <2>4, <2>5, <2>6 DEF ServiceInv
<1>4. CASE CoreFails(j)
  <2>. DEFINE i == jobs[j].inst
              h == UnclaimedCloses(CoreCloses(handles), jobs[j].tun)
  <2>1. /\ Ends(j) /\ jobs[j].kind = "start" /\ core' = NoTun /\ status' = "error"
        /\ UNCHANGED <<inst, serving, sticky, monitor, posted, iface, granted, intent>>
        /\ prefs'.cached = prefs.cached
    BY <1>4 DEF CoreFails, At, SetShouldRun, Typed, Prefs
  <2>2. /\ i = inst /\ serving /\ granted /\ intent # "down" /\ jobs[j].tun # NoTun
        /\ tunOf[inst] = jobs[j].tun /\ iface = jobs[j].tun
    BY <1>b, <2>1 DEF Fits, Starting
  <2>3. /\ h \in HandleMap
        /\ \A u \in Tuns : "core" \notin h[u] /\ ("service" \in h[u] <=> "service" \in handles[u])
        /\ \A u \in Tuns : h[u] \subseteq handles[u]
    <3>1. /\ h \in HandleMap
          /\ \A u \in Tuns : h[u] = IF u = jobs[j].tun THEN CoreCloses(handles)[u] \ {"core"}
                                    ELSE CoreCloses(handles)[u]
      BY <1>c, <1>f, Closes
    <3>. QED  BY <1>e, <1>f, <3>1
  <2>. HIDE DEF h
  <2>4. ObjectInv' /\ CoreInv'
    BY <2>1, <2>2, <1>c DEF ObjectInv, CoreInv
  <2>5. CASE killSwitch
    <3>1. handles' = h /\ UNCHANGED <<prefs, tunOf, stopping>>
      BY <1>4, <2>5 DEF CoreFails, h
    <3>2. DescriptorInv'
      <4>1. \A k \in Instances : tunOf[k] # NoTun => tunOf[k] \in Tuns
        BY DEF Typed
      <4>. QED  BY <2>1, <2>3, <3>1, <4>1 DEF DescriptorInv
    <3>3. IntentInv'
      <4>1. Up' => Up
        BY <2>1, <2>3, <3>1 DEF Up, Typed
      <4>. QED  BY <2>1, <2>2, <3>1, <4>1 DEF IntentInv
    <3>. QED  BY <1>d, <2>1, <2>4, <3>2, <3>3 DEF ServiceInv
  <2>6. CASE ~killSwitch
    <3>1. handles' = ServiceCloses(h, inst) /\ tunOf' = NoTunOf(inst)
      BY <1>4, <2>2, <2>6 DEF CoreFails, h
    <3>2. \A u \in Tuns : ServiceCloses(h, inst)[u] =
            IF u = tunOf[inst] THEN h[u] \ {"service"} ELSE h[u]
      <4>1. PICK g \in HandleMap : g = h
        BY <2>3
      <4>2. \A u \in Tuns : ServiceCloses(g, inst)[u] =
              IF u = tunOf[inst] THEN g[u] \ {"service"} ELSE g[u]
        BY <1>c, Closes
      <4>. QED  BY <4>1, <4>2
    <3>3. \A u \in Tuns : "service" \notin handles'[u] /\ "core" \notin handles'[u]
      <4>1. \A u \in Tuns : "service" \in handles[u] => u = tunOf[inst]
        BY DEF DescriptorInv
      <4>. QED  BY <2>3, <3>1, <3>2, <4>1
    <3>4. \A k \in Instances : tunOf'[k] = NoTun
      BY <1>c, <3>1 DEF NoTunOf, Typed, DescriptorInv
    <3>5. DescriptorInv'
      BY <3>3, <3>4 DEF DescriptorInv
    <3>6. IntentInv'
      <4>1. ~Up'
        BY <3>3 DEF Up, Typed, HandleMap
      <4>. QED  BY <2>1, <2>2, <4>1 DEF IntentInv
    <3>. QED  BY <1>d, <2>1, <2>4, <3>5, <3>6 DEF ServiceInv
  <2>. QED  BY <2>5, <2>6
<1>5. CASE Reports(j)
  <2>1. /\ Goes(j, "cache") /\ jobs[j].kind = "start" /\ jobs[j].at = "report"
        /\ status' = "connected"
        /\ UNCHANGED <<prefs, killSwitch, sticky, monitor, posted, core, granted, intent,
                       inst, serving, stopping, tunOf, coreJob, iface, handles>>
    BY <1>5 DEF Reports, At
  <2>a. PICK r \in Job :
          /\ r = [jobs[j] EXCEPT !.at = "cache"] /\ r.at = "cache" /\ r.kind = jobs[j].kind
          /\ r.tun = jobs[j].tun /\ r.inst = jobs[j].inst /\ r.prev = jobs[j].prev
    BY <1>g
  <2>2. Fits(j, r)'
    BY <1>b, <1>c, <2>1, <2>a DEF Fits, Starting
  <2>3. /\ JobInv' /\ j \in InFlight' /\ jobs'[j].kind = "start" /\ jobs'[j].tun = jobs[j].tun
        /\ jobs'[j].at = "cache"
    BY <2>1, <2>2, <2>a, <1>1
  <2>4. serving /\ ~stopping /\ intent # "down"
    BY <1>b, <2>1 DEF Fits, Starting
  <2>5. ObjectInv' /\ CoreInv'
    <3>1. jobs'[j] # NoJob
      BY <2>3 DEF InFlight
    <3>. QED  BY <1>c, <2>1, <2>3, <2>4, <3>1 DEF ObjectInv, CoreInv, At
  <2>6. DescriptorInv'
    BY <1>e, <2>1, <2>3 DEF DescriptorInv
  <2>7. IntentInv'
    BY <2>1, <2>4 DEF IntentInv, Up
  <2>. QED  BY <2>3, <2>5, <2>6, <2>7 DEF ServiceInv
<1>6. CASE StopJobRuns(j)
  <2>1. /\ Ends(j) /\ jobs[j].kind = "stop" /\ core' = NoTun /\ handles' = CoreCloses(handles)
        /\ UNCHANGED <<prefs, status, inst, serving, stopping, tunOf, sticky, monitor, posted,
                       iface, granted, intent>>
    BY <1>6 DEF StopJobRuns, At
  <2>2. intent = "down"
    BY <1>b, <2>1 DEF Fits, Stops
  <2>3. ObjectInv' /\ CoreInv'
    BY <1>h, <2>1 DEF ObjectInv, CoreInv
  <2>4. DescriptorInv'
    <3>1. \A u \in Tuns : "core" \notin handles'[u]
      BY <1>e, <1>f, <2>1
    <3>2. \A i \in Instances : tunOf[i] = NoTun
      BY <2>2 DEF IntentInv
    <3>. QED  BY <1>f, <2>1, <3>1, <3>2 DEF DescriptorInv
  <2>5. IntentInv'
    BY <2>1, <2>2 DEF IntentInv
  <2>. QED  BY <1>d, <2>1, <2>3, <2>4, <2>5 DEF ServiceInv
<1>7. CASE ReconnectStops(j)
  <2>. DEFINE i == jobs[j].inst
  <2>1. /\ jobs[j].kind = "reconnect" /\ core' = NoTun
        /\ UNCHANGED <<prefs, status, inst, serving, stopping, coreJob, sticky, monitor, posted,
                       iface, granted, intent>>
        /\ \/ killSwitch /\ handles' = CoreCloses(handles) /\ tunOf' = tunOf
           \/ ~killSwitch /\ handles' = CoreCloses(ServiceCloses(handles, i)) /\ tunOf' = NoTunOf(i)
    BY <1>7 DEF ReconnectStops, At
  <2>2. Goes(j, "delay")
    <3>1. Cancel(jobs, jobs[j].prev) = jobs
      BY <1>b DEF Cancel, Fits
    <3>. QED  BY <1>7, <3>1 DEF ReconnectStops, Goes
  <2>a. PICK r \in Job :
          /\ r = [jobs[j] EXCEPT !.at = "delay"] /\ r.at = "delay" /\ r.kind = jobs[j].kind
          /\ r.tun = jobs[j].tun /\ r.inst = jobs[j].inst /\ r.prev = jobs[j].prev
    BY <1>g
  <2>3. Fits(j, r)'
    BY <1>b, <1>c, <2>1, <2>a DEF Fits, Reconnecting
  <2>4. JobInv' /\ ~Empty(jobs')
    BY <2>2, <2>3, <2>a, <1>1
  <2>5. ObjectInv' /\ CoreInv'
    BY <1>h, <2>1 DEF ObjectInv, CoreInv
  <2>6. intent # "down"
    BY <1>b, <2>1 DEF Fits, Reconnecting
  <2>7. \A k \in Instances : tunOf[k] # NoTun => tunOf[k] \in Tuns /\ k = inst
    BY DEF Typed, DescriptorInv
  <2>8. CASE killSwitch
    <3>1. handles' = CoreCloses(handles) /\ tunOf' = tunOf
      BY <2>1, <2>8
    <3>2. DescriptorInv'
      <4>1. \A u \in Tuns : "core" \notin handles'[u]
        BY <1>e, <1>f, <2>1, <3>1
      <4>. QED  BY <1>f, <2>1, <2>7, <3>1, <4>1, ZenonT(40) DEF DescriptorInv
    <3>3. IntentInv'
      <4>1. Up' => Up
        BY <1>f, <2>1, <3>1 DEF Up, Typed
      <4>. QED  BY <2>1, <2>6, <3>1, <4>1 DEF IntentInv
    <3>. QED  BY <2>4, <2>5, <3>2, <3>3 DEF ServiceInv
  <2>9. CASE ~killSwitch
    <3>1. handles' = CoreCloses(ServiceCloses(handles, i)) /\ tunOf' = NoTunOf(i)
      BY <2>1, <2>9
    <3>2. ServiceCloses(handles, i) \in HandleMap
          /\ \A u \in Tuns : ServiceCloses(handles, i)[u] =
               IF u = tunOf[i] THEN handles[u] \ {"service"} ELSE handles[u]
      BY <1>c, Closes, ZenonT(40)
    <3>3. \A u \in Tuns : handles'[u] = IF u = core THEN ServiceCloses(handles, i)[u] \ {"core"}
                                        ELSE ServiceCloses(handles, i)[u]
      BY <3>1, <3>2, Closes
    <3>4. /\ \A u \in Tuns : "core" \notin handles'[u]
          /\ \A u \in Tuns : handles'[u] \subseteq handles[u]
          /\ \A u \in Tuns : "service" \in handles'[u] <=> "service" \in handles[u] /\ u # tunOf[i]
      BY <1>e, <2>1, <3>2, <3>3
    <3>5. tunOf'[i] = NoTun /\ \A k \in Instances \ {i} : tunOf'[k] = tunOf[k]
      BY <1>c, <3>1 DEF NoTunOf, Typed
    <3>6. DescriptorInv'
      <4>1. ASSUME NEW k \in Instances, tunOf'[k] # NoTun
            PROVE  k = inst /\ serving /\ "service" \in handles'[tunOf'[k]]
        <5>1. k # i /\ tunOf'[k] = tunOf[k] /\ tunOf[k] \in Tuns /\ k = inst
          BY <4>1, <2>7, <3>5
        <5>2. tunOf[i] = NoTun
          BY <2>7, <1>c, <5>1
        <5>. QED  BY <3>4, <5>1, <5>2, ServiceAssumption DEF DescriptorInv
      <4>2. ASSUME NEW u \in Tuns, "service" \in handles'[u]
            PROVE  inst # 0 /\ tunOf'[inst] = u
        BY <4>2, <3>4, <3>5, <1>c DEF DescriptorInv
      <4>. QED  BY <2>1, <3>4, <4>1, <4>2 DEF DescriptorInv
    <3>7. IntentInv'
      <4>1. Up' => Up /\ inst # i
        <5>1. Up' => Up
          BY <2>1, <3>4 DEF Up, Typed
        <5>2. ASSUME Up', inst = i  PROVE FALSE
          <6>1. tunOf[i] = iface /\ iface \in Tuns
            BY <2>6, <5>1, <5>2 DEF IntentInv, Up, Typed
          <6>2. handles'[iface] = {}
            <7>1. handles[iface] \subseteq {"service", "core"}
              BY <6>1, <1>c DEF HandleMap
            <7>. QED  BY <3>4, <6>1, <7>1
          <6>. QED  BY <2>1, <5>2, <6>2 DEF Up
        <5>. QED  BY <5>1, <5>2
      <4>2. Up' => tunOf'[inst] = tunOf[inst]
        BY <1>c, <3>5, <4>1
      <4>. QED  BY <2>1, <2>6, <4>1, <4>2 DEF IntentInv
    <3>. QED  BY <2>4, <2>5, <3>6, <3>7 DEF ServiceInv
  <2>. QED  BY <2>8, <2>9
<1>8. CASE DelayEnds(j)
  <2>1. /\ Goes(j, "resumed") /\ jobs[j].kind = "reconnect"
        /\ UNCHANGED <<prefs, status, killSwitch, sticky, monitor, posted, core, granted, intent,
                       inst, serving, stopping, tunOf, coreJob, iface, handles>>
    BY <1>8 DEF DelayEnds, At
  <2>a. PICK r \in Job :
          /\ r = [jobs[j] EXCEPT !.at = "resumed"] /\ r.at = "resumed" /\ r.kind = jobs[j].kind
          /\ r.tun = jobs[j].tun /\ r.inst = jobs[j].inst /\ r.prev = jobs[j].prev
    BY <1>g
  <2>2. Fits(j, r)'
    BY <1>b, <1>c, <2>1, <2>a DEF Fits, Reconnecting
  <2>3. JobInv' /\ ~Empty(jobs')
    BY <2>1, <2>2, <2>a, <1>1
  <2>4. ObjectInv' /\ CoreInv'
    <3>1. jobs[j].at = "delay"
      BY <1>8 DEF DelayEnds, At
    <3>. QED  BY <1>h, <2>1, <3>1 DEF ObjectInv, CoreInv
  <2>5. DescriptorInv'
    BY <1>e, <2>1 DEF DescriptorInv
  <2>6. IntentInv'
    BY <2>1, <1>b DEF IntentInv, Up, Fits, Reconnecting
  <2>. QED  BY <2>3, <2>4, <2>5, <2>6 DEF ServiceInv
<1>9. CASE ReconnectStarts(j)
  <2>. DEFINE i == jobs[j].inst
  <2>1. /\ jobs[j].kind = "reconnect"
        /\ StartVpn(i, ScopeActive(i), "disconnected", prefs, stopping, Ended(jobs, j))
        /\ UNCHANGED <<inst, serving, sticky, monitor, posted, core, granted, intent>>
    BY <1>9 DEF ReconnectStarts, At
  <2>2. /\ prefs.shouldRun /\ intent # "down"
        /\ granted => i = inst /\ serving /\ ~stopping
        /\ \A k \in Instances : coreJob[k] = NoJob
    BY <1>b, <2>1 DEF Fits, Reconnecting
  <2>c. core = NoTun /\ \A u \in Tuns : "core" \notin handles[u]
    <3>1. jobs[j].at = "resumed"
      BY <1>9 DEF ReconnectStarts, At
    <3>. QED  BY <1>e, <1>h, <2>1, <3>1, ServiceAssumption
  <2>3. /\ Ended(jobs, j) \in JobMap /\ Empty(Ended(jobs, j))
        /\ \E k \in Jobs : Ended(jobs, j)[k] = NoJob
    BY <1>b, <1>c, EndedJob DEF Empty
  <2>4. prefs \in Prefs /\ stopping \in BOOLEAN /\ ScopeActive(i) \in BOOLEAN
    BY DEF Typed, ScopeActive
  <2>5. ~sticky /\ monitor \subseteq {inst} /\ (monitor # {} => serving /\ prefs.cached)
    BY <1>c DEF ObjectInv
  <2>6. CASE Establishes(i, ScopeActive(i), prefs, stopping, Ended(jobs, j))
    <3>1. granted
      BY <2>6 DEF Establishes
    <3>2. Establishes(i, TRUE, prefs, FALSE, Ended(jobs, j))
      <4>1. ScopeActive(i) = TRUE /\ stopping = FALSE
        BY <2>2, <2>4, <3>1 DEF ScopeActive
      <4>. QED  BY <2>6, <4>1
    <3>. QED  BY <1>c, <2>1, <2>2, <2>3, <2>4, <2>5, <2>c, <3>1, <3>2, EstablishKeeps
  <2>7. CASE SetupFails(i, ScopeActive(i), prefs, stopping, Ended(jobs, j))
    <3>1. /\ granted /\ serving => i = inst
          /\ granted \/ intent' # "up"
          /\ serving' => stopping \/ ScopeActive(i)
      BY <2>1, <2>2 DEF IntentInv, ScopeActive
    <3>. QED  BY <1>c, <2>1, <2>2, <2>3, <2>4, <2>5, <2>c, <2>7, <3>1, FailKeeps
  <2>. QED  BY <2>1, <2>6, <2>7 DEF StartVpn
<1>10. CASE Caches(j)
  <2>1. /\ Ends(j) /\ jobs[j].kind = "start" /\ jobs[j].at = "cache"
        /\ monitor' = monitor \union {jobs[j].inst}
        /\ UNCHANGED <<status, inst, serving, stopping, tunOf, sticky, posted, core, iface,
                       handles, granted, intent>>
        /\ prefs'.cached /\ prefs'.shouldRun = prefs.shouldRun
    BY <1>10 DEF Caches, At, Typed, Prefs
  <2>2. /\ jobs[j].inst = inst /\ serving /\ ~stopping /\ granted /\ intent # "down"
        /\ core = jobs[j].tun
    BY <1>b, <2>1 DEF Fits, Starting
  <2>3. status = "connected"
    BY <1>b, <2>1 DEF Fits
  <2>4. ObjectInv' /\ CoreInv'
    BY <2>1, <2>2, <2>3, <1>c DEF ObjectInv, CoreInv
  <2>5. DescriptorInv'
    BY <1>e, <2>1, <2>2 DEF DescriptorInv
  <2>6. IntentInv'
    BY <2>1, <2>2 DEF IntentInv, Up
  <2>. QED  BY <1>d, <2>1, <2>4, <2>5, <2>6 DEF ServiceInv
<1>11. ~FailsLate(j)
  BY DEF FailsLate
<1>. QED  BY <1>2, <1>3, <1>4, <1>5, <1>6, <1>7, <1>8, <1>9, <1>10, <1>11 DEF Coroutine

-----------------------------------------------------------------------------
(* The invariant, and what it says                                        *)

LEMMA ServiceInvInit == Init => ServiceInv
<1>. SUFFICES ASSUME Init  PROVE ServiceInv
  OBVIOUS
<1>1. JobInv
  BY DEF Init, JobInv, Empty
<1>2. ObjectInv /\ CoreInv
  BY DEF Init, ObjectInv, CoreInv
<1>3. DescriptorInv
  BY DEF Init, DescriptorInv
<1>4. IntentInv
  BY DEF Init, IntentInv, Up
<1>. QED  BY <1>1, <1>2, <1>3, <1>4 DEF ServiceInv

\* A new process begins as the first one did, but for the preferences and the
\* user's last word.
LEMMA Reborn == ASSUME Dies, GrantInv, FlagInv  PROVE ServiceInv'
<1>1. /\ status' = "disconnected" /\ inst' = 0 /\ ~serving' /\ monitor' = {} /\ posted' = {}
      /\ core' = NoTun /\ iface' = NoTun /\ UNCHANGED <<prefs, granted, intent>>
      /\ \A i \in Instances : tunOf'[i] = NoTun /\ coreJob'[i] = NoJob
      /\ \A j \in Jobs : jobs'[j] = NoJob
      /\ \A t \in Tuns : handles'[t] = {}
  BY DEF Dies
<1>2. JobInv' /\ ObjectInv' /\ DescriptorInv' /\ CoreInv'
  BY <1>1 DEF JobInv, Empty, ObjectInv, DescriptorInv, CoreInv
<1>3. IntentInv'
  BY <1>1 DEF IntentInv, Up, GrantInv, FlagInv
<1>. QED  BY <1>2, <1>3 DEF ServiceInv

\* Only a new process is no longer disturbed.
LEMMA StaysDisturbed == ASSUME Typed, [Next]_vars, disturbed, ~disturbed'  PROVE Dies
<1>. USE DEF Typed
<1>1. CASE Commands
  BY <1>1 DEF Commands, UserConnects, UserConsents, UserDisconnects, UserReconnects,
     RecoverIfExpected
<1>2. CASE Outside
  BY <1>2 DEF Outside, StickyRestart, AlwaysOnStart, TogglesKillSwitch, Revoked, NetworkChanges
<1>3. CASE MainThread
  BY <1>3 DEF MainThread, Destroyed, PostedReconnect
<1>4. ASSUME NEW j \in Jobs, Coroutine(j)  PROVE FALSE
  BY <1>4 DEF Coroutine, StartJobRuns, CoreStarts, CoreFails, Reports, Caches, FailsLate,
     StopJobRuns, ReconnectStops, DelayEnds, ReconnectStarts
<1>. QED  BY <1>1, <1>2, <1>3, <1>4 DEF Next, vars

LEMMA ServiceInvStep ==
  ASSUME Waits, Typed, Typed', LastingInv, disturbed \/ ServiceInv, [Next]_vars, ~disturbed'
  PROVE  ServiceInv'
<1>d. CASE Dies
  BY <1>d, Reborn DEF LastingInv
<1>. SUFFICES ASSUME ~Dies  PROVE ServiceInv'
  BY <1>d
<1>a. ServiceInv
  BY StaysDisturbed
<1>1. Prior
  BY <1>a DEF Prior, ServiceInv
<1>2. CASE Commands \/ StickyRestart \/ AlwaysOnStart
  <2>1. CASE UserReconnects
    BY <1>1, <2>1, MainKeeps
  <2>2. CASE \/ \E k \in BOOLEAN : UserConnects(k)
             \/ UserConsents \/ UserDisconnects \/ RecoverIfExpected
             \/ StickyRestart \/ AlwaysOnStart
    BY <1>1, <2>2, CommandsKeep
  <2>. QED  BY <1>2, <2>1, <2>2 DEF Commands
<1>3. CASE TogglesKillSwitch \/ Revoked \/ MainThread \/ \E i \in Instances : NetworkChanges(i)
  BY <1>1, <1>3, MainKeeps DEF MainThread
<1>4. CASE \E j \in Jobs : Coroutine(j)
  BY <1>1, <1>4, CoroutinesKeep
<1>5. CASE UNCHANGED vars
  BY <1>5, <1>a DEF vars, serviceVars, osVars, ServiceInv, JobInv, Empty, Only, Fits, Starting,
     Stops, Reconnecting, ObjectInv, DescriptorInv, InFlight, CoreInv, At, IntentInv, Up
<1>. QED  BY <1>2, <1>3, <1>4, <1>5 DEF Next, Outside

\* What a disturbance does not touch, step by step.
LEMMA BirthStep == ASSUME Typed, BirthInv, [Next]_vars  PROVE BirthInv'
<1>. USE DEF BirthInv
<1>a. inst = 0 => ~serving /\ monitor = {} /\ \A j \in Jobs : ~Coroutine(j)
  <2>1. inst = 0 => ~serving
    BY ServiceAssumption DEF Typed, Instances
  <2>2. Empty(jobs) => \A j \in Jobs : ~Coroutine(j)
    BY DEF Empty, Coroutine, At, StartJobRuns, CoreStarts, CoreFails, Reports, Caches, FailsLate,
       StopJobRuns, ReconnectStops, DelayEnds, ReconnectStarts
  <2>. QED  BY <2>1, <2>2
<1>b. \A i \in Instances, s \in BOOLEAN : Delivered(i, s) => inst' \in Instances /\ inst' # 0
  BY DeliveredTypes, ServiceAssumption DEF Instances
<1>1. CASE (\E k \in BOOLEAN : UserConnects(k)) \/ RecoverIfExpected \/ AlwaysOnStart
            \/ UserDisconnects
  <2>1. inst' # 0 /\ ~sticky'
    BY <1>1, <1>b DEF UserConnects, RecoverIfExpected, Started, AlwaysOnStart, UserDisconnects
  <2>. QED  BY <2>1
<1>2. CASE StickyRestart
  <2>1. inst' # 0 /\ ~sticky'
    BY <1>2, ServiceAssumption DEF StickyRestart, Typed, Instances
  <2>. QED  BY <2>1
<1>3. CASE UserReconnects \/ Revoked \/ Destroyed
  <2>1. serving /\ inst' = inst /\ sticky' = sticky
    BY <1>3 DEF UserReconnects, Delivered, Revoked, Destroyed, serviceVars
  <2>. QED  BY <1>a, <2>1
<1>4. CASE UserConsents \/ TogglesKillSwitch \/ UNCHANGED vars
  <2>1. UNCHANGED <<inst, sticky, iface, status, posted, monitor, jobs>>
    BY <1>4 DEF UserConsents, TogglesKillSwitch, vars, serviceVars, osVars
  <2>. QED  BY <2>1 DEF Empty
<1>5. CASE Dies
  BY <1>5 DEF Dies, Empty
<1>6. ASSUME NEW i \in Instances, NetworkChanges(i) \/ PostedReconnect(i)  PROVE BirthInv'
  <2>1. inst' = inst /\ sticky' = sticky /\ inst # 0
    BY <1>6, <1>a DEF NetworkChanges, PostedReconnect, serviceVars
  <2>. QED  BY <2>1
<1>7. ASSUME NEW j \in Jobs, Coroutine(j)  PROVE BirthInv'
  <2>1. inst' = inst /\ sticky' = sticky
    BY <1>7 DEF Coroutine, StartJobRuns, CoreStarts, CoreFails, Reports, Caches, FailsLate,
       StopJobRuns, ReconnectStops, DelayEnds, ReconnectStarts, serviceVars
  <2>. QED  BY <1>7, <1>a, <2>1
<1>. QED
  BY <1>1, <1>2, <1>3, <1>4, <1>5, <1>6, <1>7 DEF Next, Commands, Outside, MainThread

LEMMA GrantStep == ASSUME Waits, Typed, BirthInv, GrantInv, [Next]_vars  PROVE GrantInv'
<1>. USE DEF GrantInv
<1>. SUFFICES ASSUME ~granted'  PROVE iface' = NoTun /\ (serving' => stopping') /\ intent' # "up"
  OBVIOUS
<1>a. granted => Revoked
  BY DEF Next, Commands, Outside, MainThread, Coroutine, UserConnects, UserConsents,
     UserDisconnects, UserReconnects, RecoverIfExpected, StickyRestart, AlwaysOnStart,
     TogglesKillSwitch, Dies, NetworkChanges, Destroyed, PostedReconnect, StartJobRuns, CoreStarts,
     CoreFails, Reports, Caches, FailsLate, StopJobRuns, ReconnectStops, DelayEnds,
     ReconnectStarts, vars
<1>1. CASE Revoked
  BY <1>1 DEF Revoked
<1>. SUFFICES ASSUME ~granted  PROVE iface' = NoTun /\ (serving' => stopping') /\ intent' # "up"
  BY <1>a, <1>1
<1>b. iface = NoTun /\ (serving => stopping) /\ intent # "up"
  OBVIOUS
<1>c. ASSUME NEW i, NEW active, NEW st, NEW p, NEW s \in BOOLEAN, NEW js,
             StartVpn(i, active, st, p, s, js)
      PROVE  iface' = NoTun
  BY <1>b, <1>c DEF StartVpn, Establishes, SetupFails, osVars
<1>2. CASE Commands
  <2>1. CASE UserDisconnects
    BY <1>b, <2>1 DEF UserDisconnects
  <2>2. CASE UserReconnects
    <3>1. Quiet /\ serving
      BY <2>2, Waiting DEF UserReconnects
    <3>. QED  BY <1>b, <3>1 DEF Quiet, Up
  <2>. QED  BY <1>2, <2>1, <2>2 DEF Commands, UserConnects, UserConsents, RecoverIfExpected
<1>3. CASE StickyRestart
  <2>1. status = "disconnected" /\ intent' = intent
    BY <1>3 DEF StickyRestart, BirthInv
  <2>2. CASE prefs.shouldRun /\ prefs.cached
    <3>1. SetupFails(inst + 1, TRUE, prefs, FALSE, jobs)
      BY <1>3, <2>1, <2>2 DEF StickyRestart, StartVpn, Establishes
    <3>. QED  BY <1>b, <2>1, <3>1 DEF SetupFails
  <2>3. CASE ~(prefs.shouldRun /\ prefs.cached)
    BY <1>3, <1>b, <2>1, <2>3 DEF StickyRestart, osVars
  <2>. QED  BY <2>2, <2>3
<1>4. CASE AlwaysOnStart
  BY <1>4 DEF AlwaysOnStart
<1>5. CASE TogglesKillSwitch \/ UNCHANGED vars \/ UserConsents
  BY <1>5, <1>b DEF TogglesKillSwitch, UserConsents, vars, serviceVars, osVars
<1>6. CASE Dies \/ Destroyed
  BY <1>6, <1>b DEF Dies, Destroyed
<1>7. ASSUME NEW i \in Instances, NetworkChanges(i) \/ PostedReconnect(i)
      PROVE  iface' = NoTun /\ (serving' => stopping') /\ intent' # "up"
  BY <1>7, <1>b DEF NetworkChanges, PostedReconnect, serviceVars, osVars
<1>8. ASSUME NEW j \in Jobs, Coroutine(j)
      PROVE  iface' = NoTun /\ (serving' => stopping') /\ intent' # "up"
  <2>1. CASE ReconnectStarts(j)
    <3>1. StartVpn(jobs[j].inst, ScopeActive(jobs[j].inst), "disconnected", prefs, stopping,
                   Ended(jobs, j))
      BY <2>1 DEF ReconnectStarts
    <3>2. SetupFails(jobs[j].inst, ScopeActive(jobs[j].inst), prefs, stopping, Ended(jobs, j))
      BY <3>1 DEF StartVpn, Establishes
    <3>. QED  BY <1>b, <2>1, <3>2 DEF SetupFails, ReconnectStarts
  <2>2. CASE CoreFails(j)
    <3>1. UNCHANGED <<iface, serving, intent>> /\ (stopping => stopping')
      BY <2>2 DEF CoreFails
    <3>. QED  BY <1>b, <3>1
  <2>3. CASE FailsLate(j)
    <3>1. UNCHANGED <<iface, serving, intent>> /\ (stopping => stopping')
      BY <2>3 DEF FailsLate
    <3>. QED  BY <1>b, <3>1
  <2>. QED
    BY <1>8, <1>b, <2>1, <2>2, <2>3 DEF Coroutine, StartJobRuns, CoreStarts, Reports, Caches,
       StopJobRuns, ReconnectStops, DelayEnds, serviceVars, osVars
<1>. QED
  BY <1>1, <1>2, <1>3, <1>4, <1>5, <1>6, <1>7, <1>8 DEF Next, Outside, MainThread

LEMMA FlagStep == ASSUME Waits, Typed, FlagInv, [Next]_vars  PROVE FlagInv'
<1>. SUFFICES ASSUME intent' = "down"
              PROVE  /\ ~prefs'.shouldRun /\ posted' = {}
                     /\ status' \notin {"connected", "connecting"}
                     /\ \A j \in Jobs : jobs'[j] = NoJob \/ jobs'[j].kind = "stop"
  BY DEF FlagInv
<1>q. \A b \in BOOLEAN : SetShouldRun(b).shouldRun = b
  BY DEF SetShouldRun, Typed, Prefs
<1>1. CASE UserDisconnects
  <2>1. PICK i \in Instances :
          jobs' = Cancel([jobs EXCEPT ![FreeJob(jobs)] = NewJob("stop", i, NoTun, NoJob)], coreJob[i])
    BY <1>1 DEF UserDisconnects
  <2>2. Empty(jobs) /\ posted = {}
    BY <1>1, Waiting DEF UserDisconnects, Quiet, InFlight, Empty
  <2>3. NewJob("stop", i, NoTun, NoJob).kind = "stop" /\ jobs \in JobMap
    BY DEF NewJob, Typed
  <2>4. ASSUME NEW j \in Jobs  PROVE jobs'[j] = NoJob \/ jobs'[j].kind = "stop"
    BY <2>1, <2>2, <2>3 DEF Cancel, Empty, JobMap
  <2>. QED  BY <1>1, <1>q, <2>2, <2>4 DEF UserDisconnects
<1>. SUFFICES ASSUME ~UserDisconnects
              PROVE  /\ ~prefs'.shouldRun /\ posted' = {}
                     /\ status' \notin {"connected", "connecting"}
                     /\ \A j \in Jobs : jobs'[j] = NoJob \/ jobs'[j].kind = "stop"
  BY <1>1
<1>a. intent = "down"
  BY DEF Next, Commands, Outside, MainThread, Coroutine, UserConnects, UserConsents,
     UserReconnects, RecoverIfExpected, StickyRestart, AlwaysOnStart, TogglesKillSwitch, Revoked,
     Dies, NetworkChanges, Destroyed, PostedReconnect, StartJobRuns, CoreStarts, CoreFails,
     Reports, Caches, FailsLate, StopJobRuns, ReconnectStops, DelayEnds, ReconnectStarts, vars
<1>b. /\ ~prefs.shouldRun /\ posted = {} /\ status \notin {"connected", "connecting"}
      /\ \A j \in Jobs : jobs[j] = NoJob \/ jobs[j].kind = "stop"
  BY <1>a DEF FlagInv
<1>2. CASE Commands
  BY <1>2, <1>b DEF Commands, UserConnects, UserReconnects, RecoverIfExpected, UserConsents
<1>3. CASE StickyRestart
  BY <1>3, <1>b, <1>q DEF StickyRestart
<1>4. CASE AlwaysOnStart
  BY <1>4, <1>b DEF AlwaysOnStart
<1>5. CASE TogglesKillSwitch \/ UNCHANGED vars
  BY <1>5, <1>b DEF TogglesKillSwitch, vars, Typed, Prefs
<1>6. CASE Revoked
  BY <1>6 DEF Revoked
<1>7. CASE Dies \/ Destroyed
  BY <1>7, <1>b DEF Dies, Destroyed
<1>8. \A i \in Instances : ~NetworkChanges(i) /\ ~PostedReconnect(i)
  BY <1>b DEF NetworkChanges, PostedReconnect
<1>9. ASSUME NEW j \in Jobs, Coroutine(j)
      PROVE  /\ ~prefs'.shouldRun /\ posted' = {}
             /\ status' \notin {"connected", "connecting"}
             /\ \A k \in Jobs : jobs'[k] = NoJob \/ jobs'[k].kind = "stop"
  <2>1. StopJobRuns(j)
    BY <1>9, <1>b DEF Coroutine, At, StartJobRuns, CoreStarts, CoreFails, Reports, Caches,
       FailsLate, ReconnectStops, DelayEnds, ReconnectStarts
  <2>2. UNCHANGED <<prefs, posted, status>> /\ jobs' = Ended(jobs, j)
    BY <2>1 DEF StopJobRuns, Ends
  <2>3. ASSUME NEW k \in Jobs  PROVE jobs'[k] = NoJob \/ jobs'[k].kind = "stop"
    <3>1. CASE k # j /\ jobs[k] # NoJob /\ jobs[k].prev = j
      <4>1. jobs[k] \in Job /\ jobs[k].kind = "stop"
        BY <1>b, <3>1 DEF Typed, JobMap
      <4>2. jobs'[k] = [jobs[k] EXCEPT !.prev = NoJob]
        BY <2>2, <3>1 DEF Ended
      <4>. QED  BY <4>1, <4>2 DEF Job
    <3>2. CASE ~(k # j /\ jobs[k] # NoJob /\ jobs[k].prev = j)
      BY <1>b, <2>2, <3>2 DEF Ended
    <3>. QED  BY <3>1, <3>2
  <2>. QED  BY <1>b, <2>2, <2>3
<1>. QED
  BY <1>2, <1>3, <1>4, <1>5, <1>6, <1>7, <1>8, <1>9 DEF Next, Outside, MainThread

\* The whole invariant.
ServiceIInv == Typed /\ LastingInv /\ (disturbed \/ ServiceInv)

LEMMA ServiceIsSound == ASSUME Waits  PROVE Spec => []ServiceIInv
<1>1. Init => ServiceIInv
  <2>1. Init => LastingInv
    BY DEF Init, LastingInv, BirthInv, GrantInv, FlagInv, Empty
  <2>. QED  BY <2>1, TypedInit, ServiceInvInit DEF ServiceIInv
<1>2. ServiceIInv /\ [Next]_vars => ServiceIInv'
  <2>. SUFFICES ASSUME ServiceIInv, [Next]_vars  PROVE ServiceIInv'
    OBVIOUS
  <2>1. Typed'
    BY TypedStep DEF ServiceIInv
  <2>2. LastingInv'
    BY BirthStep, GrantStep, FlagStep DEF ServiceIInv, LastingInv
  <2>3. disturbed' \/ ServiceInv'
    BY <2>1, ServiceInvStep DEF ServiceIInv
  <2>. QED  BY <2>1, <2>2, <2>3 DEF ServiceIInv
<1>. QED  BY <1>1, <1>2, PTL DEF Spec

\* Every variable of the service keeps its type, whether the user waits or not.
THEOREM ServiceIsTyped == Spec => []TypeOK
<1>1. Typed => TypeOK
  BY DEF Typed, TypeOK, Prefs, Status, JobMap, HandleMap
<1>2. Spec => []Typed
  BY TypedInit, TypedStep, PTL DEF Spec
<1>. QED  BY <1>1, <1>2, PTL

\* A disconnect clears the flag, so nothing that reads it connects again: in a
\* service that is disturbed, too.
THEOREM DisconnectIsRemembered == ASSUME Waits  PROVE Spec => []DisconnectClearsFlag
<1>1. ServiceIInv => DisconnectClearsFlag
  BY DEF ServiceIInv, LastingInv, FlagInv, DisconnectClearsFlag
<1>. QED  BY <1>1, ServiceIsSound, PTL

\* While an interface serves the user, the preferences that outlive the process
\* say that he wants it, and from the commit of the first configuration on they
\* restore it; in a service that is not disturbed.
THEOREM DeathIsSurvived == ASSUME Waits  PROVE Spec => []RecoveryIsArmed
<1>1. ServiceIInv => RecoveryIsArmed
  BY DEF ServiceIInv, ServiceInv, IntentInv, ObjectInv, RecoveryIsArmed
<1>. QED  BY <1>1, ServiceIsSound, PTL

\* After a disconnect no interface is left, and no descriptor is ever without
\* somebody who will close it; in a service that is not disturbed.
THEOREM DisconnectReleasesTunnel == ASSUME Waits  PROVE Spec => []TunnelIsReleased
<1>1. ASSUME Typed, ServiceInv  PROVE TunnelIsReleased
  <2>1. Quiet => Empty(jobs)
    BY DEF Quiet, InFlight, Empty
  <2>2. Quiet /\ intent = "down" => ~Up
    BY <1>1, <2>1, Released DEF ServiceInv
  <2>. QED  BY <1>1, <2>2 DEF ServiceInv, DescriptorInv, TunnelIsReleased
<1>2. disturbed => TunnelIsReleased
  BY DEF TunnelIsReleased
<1>3. ServiceIInv => TunnelIsReleased
  BY <1>1, <1>2 DEF ServiceIInv
<1>. QED  BY <1>3, ServiceIsSound, PTL

-----------------------------------------------------------------------------
(* The kill switch                                                        *)

\* The interface that serves the user is held by the service itself.
LEMMA HeldByService ==
  ASSUME Typed, ServiceInv, Up, intent = "up"
  PROVE  /\ granted /\ inst # 0 /\ serving /\ iface \in Tuns
         /\ tunOf[inst] = iface /\ "service" \in handles[iface]
<1>1. iface # NoTun /\ iface \in Tuns
  BY DEF Up, Typed
<1>2. granted /\ serving /\ tunOf[inst] = iface
  BY <1>1 DEF ServiceInv, IntentInv
<1>3. inst \in Instances
  BY <1>2 DEF Typed
<1>. QED  BY <1>1, <1>2, <1>3, ServiceAssumption DEF ServiceInv, DescriptorInv, Instances

\* startVpn replaces an interface, leaves it alone, or gives up for good.
LEMMA StartVpnStaysUp ==
  ASSUME Typed, Up, granted, NEW i \in Instances, NEW active, NEW st, NEW p, NEW s, NEW js,
         p \in Prefs, StartVpn(i, active, st, p, s, js)
  PROVE  Up' \/ (status' = "error" /\ ~prefs'.shouldRun)
<1>1. CASE Establishes(i, active, p, s, js)
  <2>1. PICK t \in Tuns :
          iface' = t /\ handles' = [ServiceCloses(handles, i) EXCEPT ![t] = {"service", "core"}]
    BY <1>1 DEF Establishes
  <2>2. handles'[t] = {"service", "core"}
    <3>1. ServiceCloses(handles, i) \in HandleMap
      BY Closes DEF Typed
    <3>. QED  BY <2>1, <3>1 DEF HandleMap
  <2>. QED  BY <2>1, <2>2, ServiceAssumption DEF Up
<1>2. CASE UNCHANGED osVars
  BY <1>2 DEF osVars, Up
<1>3. CASE SetupFails(i, active, p, s, js)
  BY <1>3 DEF SetupFails, Prefs
<1>. QED  BY <1>1, <1>2, <1>3 DEF StartVpn

Kept == Up' \/ (status' = "error" /\ ~prefs'.shouldRun)

LEMMA StaysUpStep ==
  ASSUME Typed, Typed', disturbed \/ ServiceInv, [Next]_vars,
         killSwitch, intent = "up", intent' = "up", Up, inst' # 0, ~disturbed'
  PROVE  Kept
<1>. USE DEF serviceVars, osVars
<1>s. ServiceInv
  BY StaysDisturbed DEF Dies
<1>p. /\ prefs \in Prefs /\ SetShouldRun(TRUE) \in Prefs
      /\ \A k \in BOOLEAN : [prefs EXCEPT !.shouldRun = TRUE, !.killSwitch = k] \in Prefs
  BY DEF Typed, Prefs, SetShouldRun
<1>a. /\ granted /\ inst # 0 /\ serving /\ iface \in Tuns
      /\ tunOf[inst] = iface /\ "service" \in handles[iface]
  BY <1>s, HeldByService
<1>b. /\ handles \in HandleMap /\ iface # NoTun
      /\ "service" \in CoreCloses(handles)[iface] /\ CoreCloses(handles) \in HandleMap
  <2>1. handles \in HandleMap /\ iface # NoTun
    BY DEF Typed, Up
  <2>. QED  BY <1>a, <2>1, Closes, ZenonT(40)
<1>1. ASSUME UNCHANGED osVars  PROVE Kept
  BY <1>1 DEF Up, Kept
<1>2. ASSUME iface' = iface, "service" \in handles'[iface]  PROVE Kept
  BY <1>2, <1>b DEF Up, Kept
<1>3. ASSUME NEW k \in BOOLEAN, Started(k)  PROVE Kept
  <2>1. PICK i \in Instances, s \in BOOLEAN :
          StartVpn(i, TRUE, status, [prefs EXCEPT !.shouldRun = TRUE, !.killSwitch = k], s, jobs)
    BY <1>3 DEF Started
  <2>. QED  BY <1>a, <1>p, <2>1, StartVpnStaysUp DEF Kept
<1>4. CASE Commands
  <2>1. CASE RecoverIfExpected
    BY <2>1, <1>3 DEF RecoverIfExpected, Typed, Prefs
  <2>2. CASE UserConsents \/ UserDisconnects \/ UserReconnects
    BY <2>2, <1>1 DEF UserConsents, UserDisconnects, UserReconnects
  <2>. QED  BY <1>3, <1>4, <2>1, <2>2 DEF Commands, UserConnects
<1>5. CASE AlwaysOnStart
  <2>1. PICK i \in Instances, s \in BOOLEAN :
          IF prefs.cached THEN StartVpn(i, TRUE, status, SetShouldRun(TRUE), s, jobs)
                          ELSE UNCHANGED osVars
    BY <1>5 DEF AlwaysOnStart
  <2>. QED  BY <1>1, <1>a, <1>p, <2>1, StartVpnStaysUp DEF Kept
<1>6. CASE StickyRestart \/ TogglesKillSwitch \/ Revoked \/ Dies \/ \E i \in Instances : NetworkChanges(i)
  BY <1>6, <1>1, <1>a DEF StickyRestart, TogglesKillSwitch, Revoked, Dies, NetworkChanges
<1>7. CASE MainThread
  BY <1>7, <1>1 DEF MainThread, Destroyed, PostedReconnect
<1>8. ASSUME NEW j \in Jobs, Coroutine(j)  PROVE Kept
  <2>1. CASE StartJobRuns(j) \/ Reports(j) \/ Caches(j) \/ FailsLate(j) \/ DelayEnds(j)
    BY <2>1, <1>1 DEF StartJobRuns, Reports, Caches, FailsLate, DelayEnds
  <2>2. CASE CoreStarts(j)
    BY <2>2, <1>2, <1>b DEF CoreStarts
  <2>3. CASE CoreFails(j)
    <3>1. jobs[j].tun \in Tuns \union {NoTun}
      BY <2>3 DEF CoreFails, At, Typed, JobMap, Job
    <3>2. "service" \in UnclaimedCloses(CoreCloses(handles), jobs[j].tun)[iface]
      <4>1. PICK g \in HandleMap : g = CoreCloses(handles)
        BY <1>b
      <4>2. \A u \in Tuns : UnclaimedCloses(g, jobs[j].tun)[u] =
              IF u = jobs[j].tun THEN g[u] \ {"core"} ELSE g[u]
        BY <3>1, Closes
      <4>. QED  BY <1>a, <1>b, <4>1, <4>2
    <3>. QED  BY <2>3, <3>2, <1>2 DEF CoreFails
  <2>4. CASE StopJobRuns(j)
    BY <1>s, <2>4, TheJob DEF StopJobRuns, At, ServiceInv, Fits, Stops
  <2>5. CASE ReconnectStops(j)
    BY <2>5, <1>2, <1>b DEF ReconnectStops
  <2>6. CASE ReconnectStarts(j)
    <3>1. jobs[j].inst \in Instances
      BY <2>6 DEF ReconnectStarts, At, Typed, JobMap, Job
    <3>2. StartVpn(jobs[j].inst, ScopeActive(jobs[j].inst), "disconnected", prefs, stopping,
                   Ended(jobs, j))
      BY <2>6 DEF ReconnectStarts
    <3>. HIDE DEF Up
    <3>. QED  BY <1>a, <1>p, <3>1, <3>2, StartVpnStaysUp DEF Kept
  <2>. QED  BY <1>8, <2>1, <2>2, <2>3, <2>4, <2>5, <2>6 DEF Coroutine
<1>9. CASE UNCHANGED vars
  BY <1>9, <1>1 DEF vars
<1>. QED  BY <1>4, <1>5, <1>6, <1>7, <1>8, <1>9 DEF Next, Outside

\* Under the kill switch an interface that serves the user is replaced or kept,
\* wherever a reconnect stands and whether or not the core starts; it is given up
\* only where the next one cannot be set up. In a service that is not disturbed.
THEOREM KillSwitchKeepsTunnel == ASSUME Waits  PROVE Spec => KillSwitchHolds
<1>1. ServiceIInv /\ ServiceIInv' /\ [Next]_vars =>
        [killSwitch /\ killSwitch' /\ intent = "up" /\ intent' = "up" /\ Up
           /\ inst' # 0 /\ ~disturbed' => Up' \/ (status' = "error" /\ ~prefs'.shouldRun)]_vars
  BY StaysUpStep DEF ServiceIInv, Kept
<1>. QED  BY <1>1, ServiceIsSound, PTL DEF Spec, KillSwitchHolds

=============================================================================
