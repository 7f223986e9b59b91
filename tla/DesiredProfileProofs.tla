-------------------------- MODULE DesiredProfileProofs --------------------------
(***************************************************************************)
(* The profile of the Windows service, for any number of commands, modes,  *)
(* servers and contents, while commands wait for a start: once all has     *)
(* settled, the engine works with what is stored, and what is shown is     *)
(* what the engine works with.                                             *)
(***************************************************************************)
EXTENDS DesiredProfile, SequenceTheorems, TLAPS

-----------------------------------------------------------------------------
(* Commands, and what a step does to them                                 *)

Kind == {"connect", "mode", "proxy", "profile", "notify"}
Phase == {"patch", "wait", "queued", "resolve", "engine", "fallback",
          "fallbackPatch", "fallbackWait", "done", "restore"}
Choice == Proxies \union {Nobody}
Want == Profile \union {NoProfile}
Gone == Nodes \union {Nobody}
OpMap == [Ops -> Op \union {NoOp}]
Write == [snap : Snapshot, by : Ops \union {Nobody}]

LEMMA OpIs ==
  Op = [kind : Kind, at : Phase, arg : Choice, prev : Choice, ep : BOOLEAN, sel : BOOLEAN,
        rev : BOOLEAN, asel : BOOLEAN, want : Want, gone : Gone, ok : BOOLEAN]
BY DEF Op, Kind, Phase, Choice, Want, Gone

LEMMA NoneIsNoOp == \A q \in Op : q # NoOp
BY DesiredProfileAssumption

Is(o, phases) == ops[o] # NoOp /\ ops[o].at \in phases
Connects(o) == ops[o] # NoOp /\ ops[o].kind = "connect"

\* A command y is where x was; of what x captured, the counters c changed.
Fades(x, y, c) ==
  /\ y = NoOp <=> x = NoOp
  /\ x # NoOp =>
       /\ y.kind = x.kind /\ y.at = x.at /\ y.prev = x.prev /\ y.arg = x.arg
       /\ y.want = x.want /\ y.gone = x.gone /\ y.ok = x.ok
       /\ y.ep <=> (x.ep /\ "epoch" \notin c)
       /\ y.sel <=> (x.sel /\ "selection" \notin c)
       /\ y.asel <=> (x.asel /\ "selection" \notin c)
       /\ y.rev <=> (x.rev /\ "mode" \notin c)

FadesAll(f, c) == f \in OpMap /\ \A p \in Ops : Fades(ops[p], f[p], c)

\* The other commands are only outdated, if anything.
Others(o, c) == \A p \in Ops : p # o => Fades(ops[p], ops'[p], c)

\* A command begins, goes on to another phase, or ends.
Begins(o, kind, phase, c) ==
  /\ ops[o] = NoOp /\ ops'[o] # NoOp
  /\ ops'[o].kind = kind /\ ops'[o].at = phase
  /\ ops'[o].ep /\ ~ops'[o].asel
  /\ kind = "proxy" => ops'[o].prev \in Proxies
  /\ ops'[o].sel <=> kind = "proxy"
  /\ ops'[o].rev <=> kind = "mode"
  /\ Others(o, c)

Goes(o, phases, phase, c) ==
  /\ ops[o] # NoOp /\ ops[o].at \in phases
  /\ ops'[o] # NoOp /\ ops'[o].kind = ops[o].kind /\ ops'[o].prev = ops[o].prev
  /\ ops'[o].at = phase /\ ops'[o].arg = ops[o].arg
  /\ ops'[o].ep <=> (ops[o].ep /\ "epoch" \notin c)
  /\ ops'[o].sel <=> (ops[o].sel /\ "selection" \notin c)
  /\ ops'[o].rev <=> (ops[o].rev /\ "mode" \notin c)
  /\ Others(o, c)

Ends(o, phases, c) ==
  /\ ops[o] # NoOp /\ ops[o].at \in phases
  /\ ops'[o] = NoOp
  /\ Others(o, c)

LEMMA NothingFades == ASSUME ops \in OpMap  PROVE FadesAll(ops, {})
BY DEF FadesAll, Fades

\* Incrementing counters changes nothing else of any command.
LEMMA OutdatedFades ==
  ASSUME ops \in OpMap, NEW c
  PROVE  FadesAll(Outdated(c), c)
<1>1. ASSUME NEW x \in Op
      PROVE  LET y == [x EXCEPT !.ep = @ /\ "epoch" \notin c,
                                !.sel = @ /\ "selection" \notin c,
                                !.asel = @ /\ "selection" \notin c,
                                !.rev = @ /\ "mode" \notin c] IN
             y \in Op /\ Fades(x, y, c)
  <2>1. x.ep \in BOOLEAN /\ x.sel \in BOOLEAN /\ x.asel \in BOOLEAN /\ x.rev \in BOOLEAN
    BY OpIs
  <2>. DEFINE e == x.ep /\ "epoch" \notin c
              s == x.sel /\ "selection" \notin c
              a == x.asel /\ "selection" \notin c
              r == x.rev /\ "mode" \notin c
              y == [x EXCEPT !.ep = e, !.sel = s, !.asel = a, !.rev = r]
  <2>2. e \in BOOLEAN /\ s \in BOOLEAN /\ a \in BOOLEAN /\ r \in BOOLEAN
    OBVIOUS
  <2>3. ASSUME NEW b1 \in BOOLEAN, NEW b2 \in BOOLEAN, NEW b3 \in BOOLEAN, NEW b4 \in BOOLEAN
        PROVE  [x EXCEPT !.ep = b1, !.sel = b2, !.asel = b3, !.rev = b4] \in Op
    BY OpIs
  <2>4. ASSUME NEW b1 \in BOOLEAN, NEW b2 \in BOOLEAN, NEW b3 \in BOOLEAN, NEW b4 \in BOOLEAN
        PROVE  LET z == [x EXCEPT !.ep = b1, !.sel = b2, !.asel = b3, !.rev = b4] IN
               /\ z.kind = x.kind /\ z.at = x.at /\ z.want = x.want /\ z.gone = x.gone
               /\ z.ok = x.ok /\ z.prev = x.prev /\ z.arg = x.arg
    BY OpIs
  <2>5. ASSUME NEW b1 \in BOOLEAN, NEW b2 \in BOOLEAN, NEW b3 \in BOOLEAN, NEW b4 \in BOOLEAN
        PROVE  LET z == [x EXCEPT !.ep = b1, !.sel = b2, !.asel = b3, !.rev = b4] IN
               z.ep = b1 /\ z.sel = b2 /\ z.asel = b3 /\ z.rev = b4
    BY OpIs
  <2>6. y \in Op /\ y # NoOp
    BY <2>2, <2>3, NoneIsNoOp
  <2>7. /\ y.kind = x.kind /\ y.at = x.at /\ y.want = x.want /\ y.gone = x.gone
        /\ y.ok = x.ok /\ y.prev = x.prev /\ y.arg = x.arg
    BY <2>2, <2>4
  <2>8. y.ep = e /\ y.sel = s /\ y.asel = a /\ y.rev = r
    BY <2>2, <2>5
  <2>9. y = [x EXCEPT !.ep = @ /\ "epoch" \notin c, !.sel = @ /\ "selection" \notin c,
                      !.asel = @ /\ "selection" \notin c, !.rev = @ /\ "mode" \notin c]
    OBVIOUS
  <2>. HIDE DEF y
  <2>. QED  BY <2>6, <2>7, <2>8, <2>9, NoneIsNoOp DEF Fades
<1>. DEFINE Aged(x) == [x EXCEPT !.ep = @ /\ "epoch" \notin c,
                                 !.sel = @ /\ "selection" \notin c,
                                 !.asel = @ /\ "selection" \notin c,
                                 !.rev = @ /\ "mode" \notin c]
            new(p) == IF ops[p] = NoOp THEN NoOp ELSE Aged(ops[p])
<1>2. Outdated(c) = [p \in Ops |-> new(p)]
  BY DEF Outdated
<1>3. \A x \in Op : Aged(x) \in Op /\ Fades(x, Aged(x), c)
  BY <1>1
<1>. HIDE DEF Aged
<1>4. ASSUME NEW p \in Ops
      PROVE  new(p) \in Op \union {NoOp} /\ Fades(ops[p], new(p), c)
  <2>1. CASE ops[p] = NoOp
    BY <2>1 DEF Fades
  <2>2. CASE ops[p] # NoOp
    BY <2>2, <1>3 DEF OpMap
  <2>. QED  BY <2>1, <2>2
<1>. HIDE DEF new
<1>. QED  BY <1>2, <1>4 DEF FadesAll, OpMap

\* A step that replaces one command, when others may be outdated.
LEMMA Replaces ==
  ASSUME NEW f, NEW c, FadesAll(f, c), NEW o \in Ops, NEW q \in Op \union {NoOp},
         ops' = [f EXCEPT ![o] = q]
  PROVE  ops' \in OpMap /\ ops'[o] = q /\ Others(o, c)
<1>1. ops' \in OpMap /\ ops'[o] = q
  BY DEF FadesAll, OpMap
<1>2. \A p \in Ops : p # o => ops'[p] = f[p]
  BY DEF FadesAll, OpMap
<1>. QED  BY <1>1, <1>2 DEF FadesAll, Others

LEMMA BeginsWith ==
  ASSUME NEW f, NEW c, FadesAll(f, c), NEW o \in Ops, ops[o] = NoOp, settings \in Snapshot,
         NEW k \in Kind, NEW a \in Phase, NEW x \in Choice,
         ops' = [f EXCEPT ![o] = NewOp(k, a, x)]
  PROVE  ops' \in OpMap /\ Begins(o, k, a, c) /\ ops'[o].arg = x
<1>1. NewOp(k, a, x) \in Op
  BY OpIs DEF NewOp, Snapshot, Choice, Want, Gone
<1>2. ops' \in OpMap /\ ops'[o] = NewOp(k, a, x) /\ Others(o, c)
  BY <1>1, Replaces
<1>3. /\ NewOp(k, a, x).kind = k /\ NewOp(k, a, x).at = a /\ NewOp(k, a, x).arg = x
      /\ NewOp(k, a, x).ep /\ ~NewOp(k, a, x).asel
  BY DEF NewOp
<1>4. NewOp(k, a, x).sel <=> k = "proxy"
  BY DEF NewOp
<1>5. NewOp(k, a, x).rev <=> k = "mode"
  BY DEF NewOp
<1>6. k = "proxy" => NewOp(k, a, x).prev \in Proxies
  BY DEF NewOp, Snapshot
<1>. QED  BY <1>1, <1>2, <1>3, <1>4, <1>5, <1>6, NoneIsNoOp DEF Begins

LEMMA EndsWith ==
  ASSUME NEW f, NEW c, FadesAll(f, c), NEW o \in Ops, ops[o] # NoOp, NEW S, ops[o].at \in S,
         ops' = [f EXCEPT ![o] = NoOp]
  PROVE  ops' \in OpMap /\ Ends(o, S, c)
BY Replaces DEF Ends

\* Only the phase changes.
LEMMA GoesWith ==
  ASSUME NEW f, NEW c, FadesAll(f, c), NEW o \in Ops, ops[o] # NoOp, NEW S, ops[o].at \in S,
         NEW a \in Phase, ops' = [f EXCEPT ![o].at = a]
  PROVE  /\ ops' \in OpMap /\ Goes(o, S, a, c)
         /\ ops'[o].ok = ops[o].ok /\ ops'[o].want = ops[o].want /\ ops'[o].gone = ops[o].gone
         /\ ops'[o].asel <=> (ops[o].asel /\ "selection" \notin c)
<1>1. f \in OpMap /\ f[o] \in Op /\ Fades(ops[o], f[o], c)
  BY DEF FadesAll, OpMap, Fades
<1>2. PICK q : q = [f[o] EXCEPT !.at = a]
  OBVIOUS
<1>3. q \in Op
  BY <1>1, <1>2, OpIs
<1>4. /\ q.at = a /\ q.kind = f[o].kind /\ q.prev = f[o].prev /\ q.arg = f[o].arg /\ q.ok = f[o].ok /\ q.want = f[o].want /\ q.gone = f[o].gone
      /\ q.ep = f[o].ep /\ q.sel = f[o].sel /\ q.asel = f[o].asel /\ q.rev = f[o].rev
  BY <1>1, <1>2, OpIs
<1>5. ops' = [f EXCEPT ![o] = q]
  BY <1>1, <1>2 DEF OpMap
<1>6. ops' \in OpMap /\ ops'[o] = q /\ Others(o, c)
  BY <1>3, <1>5, Replaces
<1>. QED  BY <1>1, <1>3, <1>4, <1>6, NoneIsNoOp DEF Goes, Fades

LEMMA GoesOn ==
  ASSUME ops \in OpMap, NEW o \in Ops, ops[o] # NoOp, NEW S, ops[o].at \in S,
         NEW a \in Phase, ops' = [ops EXCEPT ![o].at = a]
  PROVE  /\ ops' \in OpMap /\ Goes(o, S, a, {})
         /\ ops'[o].ok = ops[o].ok /\ ops'[o].want = ops[o].want /\ ops'[o].gone = ops[o].gone
         /\ ops'[o].asel = ops[o].asel
<1>1. FadesAll(ops, {})
  BY NothingFades
<1>2. /\ ops' \in OpMap /\ Goes(o, S, a, {})
      /\ ops'[o].ok = ops[o].ok /\ ops'[o].want = ops[o].want /\ ops'[o].gone = ops[o].gone
      /\ ops'[o].asel <=> (ops[o].asel /\ "selection" \notin {})
  BY <1>1, GoesWith
<1>3. ops'[o].asel \in BOOLEAN /\ ops[o].asel \in BOOLEAN
  BY <1>2, OpIs DEF OpMap, Goes
<1>. QED  BY <1>2, <1>3

\* It becomes q, which captured the same.
LEMMA GoesAs ==
  ASSUME ops \in OpMap, NEW o \in Ops, ops[o] # NoOp, NEW S, ops[o].at \in S, NEW a,
         NEW q \in Op, q.at = a, q.kind = ops[o].kind, q.prev = ops[o].prev, q.arg = ops[o].arg,
         q.ep = ops[o].ep, q.sel = ops[o].sel, q.rev = ops[o].rev,
         ops' = [ops EXCEPT ![o] = q]
  PROVE  ops' \in OpMap /\ ops'[o] = q /\ Goes(o, S, a, {})
<1>1. ops' \in OpMap /\ ops'[o] = q /\ Others(o, {})
  BY Replaces, NothingFades
<1>. QED  BY <1>1, NoneIsNoOp DEF Goes

\* The application of o is over: a connect ends, another command has its
\* outcome and leaves the chain.
Finished(o, S, ok, c) ==
  /\ ops[o] # NoOp /\ ops[o].at \in S
  /\ ops[o].kind = "connect" => Ends(o, S, c) /\ connectLock' = FALSE /\ tail' = tail
  /\ ops[o].kind # "connect" =>
       /\ Goes(o, S, "done", c) /\ ops'[o].ok = ok /\ ~ops'[o].asel
       /\ tail' = Tail(tail) /\ connectLock' = connectLock

LEMMA FinishesIs ==
  ASSUME ops \in OpMap, NEW o \in Ops, ops[o] # NoOp, NEW S, ops[o].at \in S,
         NEW ok \in BOOLEAN, Finishes(o, ok)
  PROVE  ops' \in OpMap /\ Finished(o, S, ok, {})
<1>1. CASE ops[o].kind = "connect"
  <2>1. ops' = [ops EXCEPT ![o] = NoOp] /\ connectLock' = FALSE /\ tail' = tail
    BY <1>1 DEF Finishes
  <2>. QED  BY <1>1, <2>1, EndsWith, NothingFades DEF Finished
<1>2. CASE ops[o].kind # "connect"
  <2>1. /\ ops' = [ops EXCEPT ![o].at = "done", ![o].ok = ok, ![o].asel = FALSE,
                              ![o].want = NoProfile, ![o].gone = Nobody]
        /\ tail' = Tail(tail) /\ connectLock' = connectLock
    BY <1>2 DEF Finishes
  <2>2. ops' = [ops EXCEPT ![o] = [ops[o] EXCEPT !.at = "done", !.ok = ok, !.asel = FALSE,
                                                 !.want = NoProfile, !.gone = Nobody]]
    BY <2>1 DEF OpMap
  <2>3. PICK q : q = [ops[o] EXCEPT !.at = "done", !.ok = ok, !.asel = FALSE,
                                    !.want = NoProfile, !.gone = Nobody]
    OBVIOUS
  <2>4. ops[o] \in Op /\ "done" \in Phase /\ NoProfile \in Want /\ Nobody \in Gone
    BY DEF OpMap, Phase, Want, Gone
  <2>5. q \in Op
    BY <2>3, <2>4, OpIs
  <2>6. /\ q.at = "done" /\ q.kind = ops[o].kind /\ q.prev = ops[o].prev /\ q.arg = ops[o].arg /\ q.ep = ops[o].ep /\ q.sel = ops[o].sel
        /\ q.rev = ops[o].rev /\ q.ok = ok /\ q.asel = FALSE
    BY <2>3, <2>4, OpIs
  <2>7. ops' = [ops EXCEPT ![o] = q]
    BY <2>2, <2>3
  <2>8. ops' \in OpMap /\ ops'[o] = q /\ Goes(o, S, "done", {})
    BY <2>5, <2>6, <2>7, GoesAs
  <2>. QED  BY <1>2, <2>1, <2>6, <2>8 DEF Finished
<1>. QED  BY <1>1, <1>2

-----------------------------------------------------------------------------
(* What each action does to the commands                                  *)

Typed ==
  /\ settings \in Snapshot /\ disk \in Snapshot /\ writes \in Seq(Write)
  /\ ops \in OpMap /\ tail \in Seq(Ops) /\ sub \in Subs
  /\ \A o \in Ops : At(o, "resolve") => ops[o].want \in Profile
  /\ \A o \in Ops : ops[o] # NoOp /\ ops[o].kind = "proxy" => ops[o].prev \in Proxies

LEMMA DesiredProfiles ==
  ASSUME NEW s \in Snapshot, NEW c \in Subs
  PROVE  Desired(s, c) \in Profile
BY DEF Desired, Available, Snapshot, Profile, Proxies

LEMMA CommandsBegin ==
  ASSUME Typed, NEW o \in Ops
  PROVE  /\ Connect(o) => ops' \in OpMap /\ Begins(o, "connect", "queued", {"epoch"})
         /\ \A m \in Modes : SetMode(o, m) => ops' \in OpMap /\ Begins(o, "mode", "patch", {"mode"})
         /\ \A p \in Proxies : SetProxy(o, p) =>
              ops' \in OpMap /\ Begins(o, "proxy", "patch", {"selection"}) /\ ops'[o].arg = p
         /\ \A s \in Snapshot : ApplyProfile(o, s) =>
              ops' \in OpMap /\ Begins(o, "profile", "patch", {})
         /\ \A c \in Subs : SubscriptionsChange(o, c) /\ Running =>
              ops' \in OpMap /\ Begins(o, "notify", "queued", {})
<1>1. /\ FadesAll(ops, {}) /\ \A c : FadesAll(Outdated(c), c) /\ settings \in Snapshot
  BY NothingFades, OutdatedFades DEF Typed
<1>2. /\ Nobody \in Choice /\ Proxies \subseteq Choice /\ Kind = {"connect", "mode", "proxy", "profile", "notify"}
      /\ "queued" \in Phase /\ "patch" \in Phase
  BY DEF Choice, Phase, Kind
<1>3. Connect(o) => ops' \in OpMap /\ Begins(o, "connect", "queued", {"epoch"})
  BY <1>1, <1>2, BeginsWith DEF Connect
<1>4. ASSUME NEW m \in Modes, SetMode(o, m)
      PROVE  ops' \in OpMap /\ Begins(o, "mode", "patch", {"mode"})
  BY <1>1, <1>2, <1>4, BeginsWith DEF SetMode, Given
<1>5. ASSUME NEW p \in Proxies, SetProxy(o, p)
      PROVE  ops' \in OpMap /\ Begins(o, "proxy", "patch", {"selection"}) /\ ops'[o].arg = p
  BY <1>1, <1>2, <1>5, BeginsWith DEF SetProxy, Given
<1>6. ASSUME NEW s \in Snapshot, ApplyProfile(o, s)
      PROVE  ops' \in OpMap /\ Begins(o, "profile", "patch", {})
  BY <1>1, <1>2, <1>6, BeginsWith DEF ApplyProfile, Given
<1>7. ASSUME NEW c \in Subs, SubscriptionsChange(o, c), Running
      PROVE  ops' \in OpMap /\ Begins(o, "notify", "queued", {})
  BY <1>1, <1>2, <1>7, BeginsWith DEF SubscriptionsChange, Given
<1>. QED  BY <1>3, <1>4, <1>5, <1>6, <1>7

\* A write settles for the command that waits for it.
WriteSettled(o) ==
  \/ /\ Goes(o, {"patch"}, "wait", {}) \/ Goes(o, {"fallbackPatch"}, "fallbackWait", {})
     /\ ops'[o].asel = ops[o].asel /\ ops'[o].gone = ops[o].gone
     /\ trouble' = trouble
  \/ Ends(o, {"restore"}, {}) /\ trouble' = trouble
  \/ Ends(o, {"patch", "restore"}, {}) /\ trouble' = "last"

LEMMA StoredIs ==
  ASSUME Typed, NEW ok \in BOOLEAN, Stored(ok), NEW o \in Ops, o = Head(writes).by,
         Is(o, {"patch", "fallbackPatch", "restore"})
  PROVE  ops' \in OpMap /\ WriteSettled(o)
<1>1. o # Nobody /\ ops \in OpMap /\ FadesAll(ops, {})
  BY NothingFades, DesiredProfileAssumption DEF Typed
<1>2. CASE At(o, "patch") /\ ok
  <2>1. ops' = [ops EXCEPT ![o].at = "wait"] /\ trouble' = trouble
    BY <1>1, <1>2 DEF Stored, At
  <2>2. "wait" \in Phase /\ ops[o] # NoOp /\ ops[o].at \in {"patch"}
    BY <1>2 DEF Phase, At
  <2>3. /\ ops' \in OpMap /\ Goes(o, {"patch"}, "wait", {})
        /\ ops'[o].asel = ops[o].asel /\ ops'[o].gone = ops[o].gone
    BY <1>1, <2>1, <2>2, GoesOn
  <2>. QED  BY <2>1, <2>3 DEF WriteSettled
<1>3. CASE At(o, "fallbackPatch")
  <2>1. ops' = [ops EXCEPT ![o].at = "fallbackWait", ![o].ok = ok] /\ trouble' = trouble
    BY <1>1, <1>3 DEF Stored, At
  <2>2. ops[o] \in Op /\ ops[o] # NoOp /\ ops[o].at \in {"fallbackPatch"} /\ "fallbackWait" \in Phase
    BY <1>1, <1>3 DEF OpMap, At, Phase
  <2>3. PICK q : q = [ops[o] EXCEPT !.at = "fallbackWait", !.ok = ok]
    OBVIOUS
  <2>4. q \in Op
    BY <2>2, <2>3, OpIs
  <2>5. /\ q.at = "fallbackWait" /\ q.kind = ops[o].kind /\ q.prev = ops[o].prev /\ q.arg = ops[o].arg /\ q.ep = ops[o].ep
        /\ q.sel = ops[o].sel /\ q.rev = ops[o].rev /\ q.asel = ops[o].asel /\ q.gone = ops[o].gone
    BY <2>2, <2>3, OpIs
  <2>6. ops' = [ops EXCEPT ![o] = q]
    BY <1>1, <2>1, <2>3 DEF OpMap
  <2>7. ops' \in OpMap /\ ops'[o] = q /\ Goes(o, {"fallbackPatch"}, "fallbackWait", {})
    BY <1>1, <2>2, <2>4, <2>5, <2>6, GoesAs
  <2>. QED  BY <2>1, <2>5, <2>7 DEF WriteSettled
<1>4. CASE At(o, "restore") /\ ok
  <2>1. ops' = [ops EXCEPT ![o] = NoOp] /\ trouble' = trouble
    BY <1>1, <1>4 DEF Stored, At
  <2>2. ops[o] # NoOp /\ ops[o].at \in {"restore"}
    BY <1>4 DEF At
  <2>. QED  BY <1>1, <2>1, <2>2, EndsWith DEF WriteSettled
<1>5. CASE ~ok /\ ~At(o, "fallbackPatch")
  <2>1. ops' = [ops EXCEPT ![o] = NoOp] /\ trouble' = "last"
    BY <1>1, <1>5 DEF Stored, At, Throws
  <2>2. ops[o] # NoOp /\ ops[o].at \in {"patch", "restore"}
    BY <1>5 DEF At, Is
  <2>. QED  BY <1>1, <2>1, <2>2, EndsWith DEF WriteSettled
<1>. QED  BY <1>2, <1>3, <1>4, <1>5 DEF At, Is

\* A setting is stored: the command joins the chain of applications, or ends
\* because writing failed, nothing runs, or it is superseded.
SettingStored(o) ==
  \/ /\ Goes(o, {"wait"}, "queued", {}) /\ (ops'[o].asel => ops[o].asel)
     /\ ops[o].ep /\ Running /\ tail' = Append(tail, o) /\ trouble' = trouble
  \/ /\ Ends(o, {"wait"}, {}) /\ tail' = tail
     /\ \/ trouble' = "last"
        \/ /\ trouble' = trouble
           /\ \/ ~Running \/ ~ops[o].ep
              \/ ops[o].kind = "mode" /\ ~ops[o].rev
              \/ ops[o].kind = "proxy" /\ ~ops[o].sel

LEMMA SettingStoredIs ==
  ASSUME Typed, NEW o \in Ops, ModeStored(o) \/ ProxyStored(o)
  PROVE  ops' \in OpMap /\ SettingStored(o) /\ ops[o].kind \in {"mode", "proxy"}
<1>1. ops \in OpMap /\ FadesAll(ops, {}) /\ "queued" \in Phase
  BY NothingFades DEF Typed, Phase
<1>2. ops[o] # NoOp /\ ops[o].at \in {"wait"} /\ ops[o].kind \in {"mode", "proxy"}
  BY DEF ModeStored, ProxyStored, At
<1>3. \/ /\ ops' = [ops EXCEPT ![o].at = "queued"] /\ tail' = Append(tail, o)
         /\ ops[o].ep /\ Running /\ trouble' = trouble
      \/ /\ ops' = [ops EXCEPT ![o] = NoOp] /\ tail' = tail
         /\ \/ trouble' = "last"
            \/ /\ trouble' = trouble
               /\ \/ ~Running \/ ~ops[o].ep
                  \/ ops[o].kind = "mode" /\ ~ops[o].rev
                  \/ ops[o].kind = "proxy" /\ ~ops[o].sel
  BY DEF ModeStored, ProxyStored, Queues, Throws
<1>. QED  BY <1>1, <1>2, <1>3, GoesWith, EndsWith DEF SettingStored

\* A saved profile is stored, which outdates selections and modes on the way.
ProfileJoins(o) ==
  IF Running
    THEN /\ Goes(o, {"wait"}, "queued", {"selection", "mode"}) /\ ~ops'[o].asel
         /\ tail' = Append(tail, o)
    ELSE Ends(o, {"wait"}, {"selection", "mode"}) /\ tail' = tail

LEMMA ProfileStoredIs ==
  ASSUME Typed, NEW o \in Ops, ProfileStored(o)
  PROVE  ops' \in OpMap /\ ProfileJoins(o)
<1>1. /\ FadesAll(Outdated({"selection", "mode"}), {"selection", "mode"}) /\ "queued" \in Phase
  BY OutdatedFades DEF Typed, Phase
<1>2. ops[o] # NoOp /\ ops[o].at \in {"wait"}
  BY DEF ProfileStored, At
<1>3. CASE Running
  <2>1. /\ ops' = [Outdated({"selection", "mode"}) EXCEPT ![o].at = "queued"]
        /\ tail' = Append(tail, o)
    BY <1>3 DEF ProfileStored, Queues
  <2>2. /\ ops' \in OpMap /\ Goes(o, {"wait"}, "queued", {"selection", "mode"})
        /\ ops'[o].asel <=> (ops[o].asel /\ "selection" \notin {"selection", "mode"})
    <3>. HIDE <1>3
    <3>. QED  BY <1>1, <1>2, <2>1, GoesWith
  <2>. QED  BY <1>3, <2>1, <2>2 DEF ProfileJoins
<1>4. CASE ~Running
  <2>1. ops' = [Outdated({"selection", "mode"}) EXCEPT ![o] = NoOp] /\ tail' = tail
    BY <1>4 DEF ProfileStored
  <2>. QED  BY <1>1, <1>2, <1>4, <2>1, EndsWith DEF ProfileJoins
<1>. QED  BY <1>3, <1>4

\* An application that fails says so in the history; one that is superseded
\* changes nothing.
Gives(o, S) ==
  \/ Finished(o, S, FALSE, {}) /\ trouble' = "last"
  \/ Finished(o, S, TRUE, {}) /\ ~Wanted(o) /\ trouble' = trouble

LEMMA GivesIs ==
  ASSUME ops \in OpMap, NEW o \in Ops, NEW S, ops[o] # NoOp, ops[o].at \in S,
         Fails(o) \/ (Drops(o) /\ ~Wanted(o))
  PROVE  ops' \in OpMap /\ Gives(o, S)
BY FinishesIs DEF Fails, Drops, Gives

\* The subscriptions are read, or the application ends.
Fetched(o) ==
  /\ Goes(o, {"queued"}, "resolve", {}) /\ ops'[o].want = Desired(settings, sub)
  /\ ops'[o].asel = ops[o].asel
  /\ UNCHANGED <<tail, connectLock, trouble>>

LEMMA FetchesIs ==
  ASSUME Typed, NEW o \in Ops, Fetches(o)
  PROVE  /\ ops' \in OpMap
         /\ (Fetched(o) /\ Wanted(o)) \/ Gives(o, {"queued"})
<1>1. ops \in OpMap /\ ops[o] # NoOp /\ ops[o].at \in {"queued"} /\ ops[o] \in Op
  BY DEF Typed, Fetches, At, OpMap
<1>2. CASE Fails(o) \/ (Drops(o) /\ ~Wanted(o))
  BY <1>1, <1>2, GivesIs
<1>3. CASE /\ Wanted(o) /\ UNCHANGED <<tail, connectLock, trouble>>
           /\ ops' = [ops EXCEPT ![o].at = "resolve", ![o].want = Desired(settings, sub)]
  <2>1. PICK w : w = Desired(settings, sub)
    OBVIOUS
  <2>2. w \in Want
    BY <2>1, DesiredProfiles DEF Typed, Want
  <2>3. PICK q : q = [ops[o] EXCEPT !.at = "resolve", !.want = w]
    OBVIOUS
  <2>4. q \in Op
    BY <1>1, <2>2, <2>3, OpIs DEF Phase
  <2>5. /\ q.at = "resolve" /\ q.kind = ops[o].kind /\ q.prev = ops[o].prev /\ q.arg = ops[o].arg /\ q.ep = ops[o].ep /\ q.sel = ops[o].sel
        /\ q.rev = ops[o].rev /\ q.asel = ops[o].asel /\ q.want = w
    BY <1>1, <2>3, OpIs
  <2>6. ops' = [ops EXCEPT ![o].at = "resolve", ![o].want = w]
    BY <1>3, <2>1
  <2>7. ops' = [ops EXCEPT ![o] = q]
    BY <1>1, <2>3, <2>6 DEF OpMap
  <2>8. ops' \in OpMap /\ ops'[o] = q /\ Goes(o, {"queued"}, "resolve", {})
    BY <1>1, <2>4, <2>5, <2>7, GoesAs
  <2>. QED  BY <1>3, <2>1, <2>5, <2>8 DEF Fetched
<1>. QED  BY <1>2, <1>3 DEF Fetches

\* The profile is made, and the engine asked, or the application ends.
Asked(o) ==
  LET want == Desired(disk, ops[o].want.sub) IN
  /\ stored /\ Wanted(o)
  /\ Goes(o, {"resolve"}, "engine", {})
  /\ ops'[o].want = want /\ ops'[o].asel = TRUE
  /\ ops'[o].gone = IF want.proxy = disk.proxy THEN Nobody ELSE disk.proxy
  /\ ops[o].kind = "connect" => ~disconnectLock
  /\ state' = IF ops[o].kind = "connect" THEN "starting" ELSE state
  /\ currentMode' = want.mode /\ trouble' = Untroubled(ops[o].kind)
  /\ UNCHANGED <<tail, connectLock>>

LEMMA ResolvesIs ==
  ASSUME Typed, NEW o \in Ops, Resolves(o)
  PROVE  /\ ops' \in OpMap
         /\ Asked(o) \/ (Gives(o, {"resolve"}) /\ UNCHANGED <<state, currentMode>>)
<1>1. ops \in OpMap /\ ops[o] # NoOp /\ ops[o].at \in {"resolve"} /\ ops[o] \in Op
  BY DEF Typed, Resolves, At, OpMap
<1>2. CASE ~stored \/ ~Wanted(o)
  <2>1. (Fails(o) \/ (Drops(o) /\ ~Wanted(o))) /\ UNCHANGED <<state, currentMode>>
    BY <1>2 DEF Resolves
  <2>. QED  BY <1>1, <2>1, GivesIs
<1>3. CASE stored /\ Wanted(o)
  <2>1. PICK w : w = Desired(disk, ops[o].want.sub)
    OBVIOUS
  <2>2. PICK g : g = IF w.proxy = disk.proxy THEN Nobody ELSE disk.proxy
    OBVIOUS
  <2>3. ops[o].want \in Profile
    BY <1>1 DEF Typed, At
  <2>4. w \in Profile /\ w \in Want
    BY <2>1, <2>3, DesiredProfiles DEF Typed, Want, Profile
  <2>5. w.proxy # disk.proxy => disk.proxy # AutoGroup
    <3>1. w.proxy = Available(disk.proxy, ops[o].want.sub)
      BY <2>1 DEF Desired
    <3>. QED  BY <3>1 DEF Available
  <2>6. g \in Gone
    BY <2>2, <2>5 DEF Gone, Typed, Snapshot, Proxies
  <2>7. /\ ops' = [ops EXCEPT ![o].at = "engine", ![o].want = w, ![o].asel = TRUE, ![o].gone = g]
        /\ ops[o].kind = "connect" => ~disconnectLock
        /\ state' = IF ops[o].kind = "connect" THEN "starting" ELSE state
        /\ tail' = tail /\ connectLock' = connectLock
        /\ currentMode' = w.mode /\ trouble' = Untroubled(ops[o].kind)
    BY <1>3, <2>1, <2>2 DEF Resolves
  <2>8. PICK q : q = [ops[o] EXCEPT !.at = "engine", !.want = w, !.asel = TRUE, !.gone = g]
    OBVIOUS
  <2>9. q \in Op
    BY <1>1, <2>4, <2>6, <2>8, OpIs DEF Phase
  <2>10. /\ q.at = "engine" /\ q.kind = ops[o].kind /\ q.prev = ops[o].prev /\ q.arg = ops[o].arg /\ q.ep = ops[o].ep /\ q.sel = ops[o].sel
         /\ q.rev = ops[o].rev /\ q.want = w /\ q.gone = g /\ q.asel = TRUE
    BY <1>1, <2>8, OpIs
  <2>11. ops' = [ops EXCEPT ![o] = q]
    BY <1>1, <2>7, <2>8 DEF OpMap
  <2>12. ops' \in OpMap /\ ops'[o] = q /\ Goes(o, {"resolve"}, "engine", {})
    BY <1>1, <2>9, <2>10, <2>11, GoesAs
  <2>. QED  BY <1>3, <2>1, <2>2, <2>7, <2>10, <2>12 DEF Asked
<1>. QED  BY <1>2, <1>3

LEMMA SucceedsIs ==
  ASSUME Typed, NEW o \in Ops, Succeeds(o)
  PROVE  /\ ops' \in OpMap /\ Goes(o, {"engine"}, "fallback", {})
         /\ ops'[o].asel = ops[o].asel /\ ops'[o].gone = ops[o].gone
<1>1. ops \in OpMap /\ ops[o] # NoOp /\ ops[o].at \in {"engine"} /\ ops[o] \in Op
  BY DEF Typed, Succeeds, At, OpMap
<1>2. PICK q : q = [ops[o] EXCEPT !.at = "fallback", !.want = NoProfile]
  OBVIOUS
<1>3. q \in Op
  BY <1>1, <1>2, OpIs DEF Phase, Want
<1>4. /\ q.at = "fallback" /\ q.kind = ops[o].kind /\ q.prev = ops[o].prev /\ q.arg = ops[o].arg /\ q.ep = ops[o].ep /\ q.sel = ops[o].sel
      /\ q.rev = ops[o].rev /\ q.asel = ops[o].asel /\ q.gone = ops[o].gone
  BY <1>1, <1>2, OpIs
<1>5. ops' = [ops EXCEPT ![o].at = "fallback", ![o].want = NoProfile]
  BY DEF Succeeds
<1>6. ops' = [ops EXCEPT ![o] = q]
  BY <1>1, <1>2, <1>5 DEF OpMap
<1>. QED  BY <1>1, <1>3, <1>4, <1>6, GoesAs

\* AUTO is stored for a selection that has gone, or not.
LEMMA FallsBackIs ==
  ASSUME Typed, NEW o \in Ops, FallsBack(o)
  PROVE  /\ ops' \in OpMap
         /\ \/ /\ Goes(o, {"fallback"}, "fallbackPatch", {}) /\ ops'[o].asel = ops[o].asel
               /\ ops[o].gone = settings.proxy /\ Running
               /\ ops[o].asel /\ ops[o].ep /\ ops'[o].gone = ops[o].gone
               /\ Patches([settings EXCEPT !.proxy = AutoGroup], o)
               /\ UNCHANGED <<tail, connectLock, trouble>>
            \/ /\ Finished(o, {"fallback"}, TRUE, {}) /\ UNCHANGED <<storeVars, trouble>>
               /\ ~(ops[o].gone = settings.proxy /\ ops[o].asel /\ ops[o].ep /\ Running)
<1>1. /\ ops \in OpMap /\ ops[o] # NoOp /\ ops[o].at \in {"fallback"} /\ "fallbackPatch" \in Phase
  BY DEF Typed, FallsBack, At, Phase
<1>2. CASE ops[o].gone = settings.proxy /\ ops[o].asel /\ ops[o].ep /\ Running
  <2>1. /\ ops' = [ops EXCEPT ![o].at = "fallbackPatch"]
        /\ Patches([settings EXCEPT !.proxy = AutoGroup], o)
        /\ UNCHANGED <<tail, connectLock, trouble>>
    BY <1>2 DEF FallsBack
  <2>2. /\ ops' \in OpMap /\ Goes(o, {"fallback"}, "fallbackPatch", {})
        /\ ops'[o].asel = ops[o].asel /\ ops'[o].gone = ops[o].gone
    BY <1>1, <2>1, GoesOn
  <2>. QED  BY <1>2, <2>1, <2>2
<1>3. CASE ~(ops[o].gone = settings.proxy /\ ops[o].asel /\ ops[o].ep /\ Running)
  <2>1. Finishes(o, TRUE) /\ UNCHANGED <<storeVars, trouble>>
    BY <1>3 DEF FallsBack
  <2>. QED  BY <1>1, <1>3, <2>1, FinishesIs
<1>. QED  BY <1>2, <1>3

\* ... and the application is over: with AUTO shown, which outdates the
\* selections made before, or not.
LEMMA FallenBackIs ==
  ASSUME Typed, NEW o \in Ops, FallenBack(o)
  PROVE  /\ ops' \in OpMap
         /\ \/ Finished(o, {"fallbackWait"}, FALSE, {}) /\ trouble' = "last"
            \/ /\ Finished(o, {"fallbackWait"}, TRUE, {}) /\ trouble' = trouble
               /\ UNCHANGED <<activeProxy, discovery>> /\ stored
               /\ ~(ops[o].asel /\ ops[o].ep /\ Running /\ disk.proxy = AutoGroup)
            \/ /\ Finished(o, {"fallbackWait"}, TRUE, {"selection"}) /\ trouble' = trouble
               /\ ops[o].asel /\ stored /\ ops[o].ep /\ Running /\ disk.proxy = AutoGroup
               /\ activeProxy' = Nobody /\ discovery' = [at |-> "asked", now |-> Nobody]
<1>1. /\ ops \in OpMap /\ ops[o] # NoOp /\ ops[o].at \in {"fallbackWait"} /\ ops[o] \in Op
      /\ FadesAll(Outdated({"selection"}), {"selection"}) /\ "done" \in Phase
  BY OutdatedFades DEF Typed, FallenBack, At, Phase, OpMap
<1>2. CASE ~ops[o].ok \/ ~stored
  <2>1. Finishes(o, FALSE) /\ trouble' = "last"
    BY <1>2 DEF FallenBack, Fails
  <2>. QED  BY <1>1, <2>1, FinishesIs
<1>3. CASE ops[o].ok /\ stored /\ ops[o].asel /\ ops[o].ep /\ Running /\ disk.proxy = AutoGroup
  <2>1. trouble' = trouble /\ activeProxy' = Nobody /\ discovery' = [at |-> "asked", now |-> Nobody]
    BY <1>3 DEF FallenBack, Discovers
  <2>2. CASE ops[o].kind = "connect"
    <3>1. /\ ops' = [Outdated({"selection"}) EXCEPT ![o] = NoOp]
          /\ connectLock' = FALSE /\ tail' = tail
      BY <1>3, <2>2 DEF FallenBack
    <3>2. ops' \in OpMap /\ Ends(o, {"fallbackWait"}, {"selection"})
      BY <1>1, <3>1, EndsWith
    <3>. QED  BY <1>1, <1>3, <2>1, <2>2, <3>1, <3>2 DEF Finished
  <2>3. CASE ops[o].kind # "connect"
    <3>1. /\ ops' = [Outdated({"selection"}) EXCEPT ![o].at = "done"]
          /\ tail' = Tail(tail) /\ connectLock' = connectLock
      BY <1>3, <2>3 DEF FallenBack
    <3>2. /\ ops' \in OpMap /\ Goes(o, {"fallbackWait"}, "done", {"selection"})
          /\ ops'[o].ok = ops[o].ok
          /\ ops'[o].asel <=> (ops[o].asel /\ "selection" \notin {"selection"})
      BY <1>1, <3>1, GoesWith
    <3>3. ops[o].ok = TRUE
      BY <1>1, <1>3, OpIs
    <3>. QED  BY <1>1, <1>3, <2>1, <2>3, <3>1, <3>2, <3>3 DEF Finished
  <2>. QED  BY <2>2, <2>3
<1>4. CASE /\ ~(~ops[o].ok \/ ~stored)
           /\ ~(ops[o].ok /\ stored /\ ops[o].asel /\ ops[o].ep /\ Running /\ disk.proxy = AutoGroup)
  <2>1. Finishes(o, TRUE) /\ trouble' = trouble /\ UNCHANGED <<activeProxy, discovery>>
    BY <1>4 DEF FallenBack
  <2>. QED  BY <1>1, <1>4, <2>1, FinishesIs
<1>. QED  BY <1>2, <1>3, <1>4

\* A selection that was refused is taken back, which takes a write; other
\* commands end.
LEMMA DoneIs ==
  ASSUME Typed, NEW o \in Ops, Done(o)
  PROVE  /\ ops' \in OpMap
         /\ \/ /\ Goes(o, {"done"}, "restore", {}) /\ (ops'[o].asel => ops[o].asel)
               /\ ~ops[o].ok /\ ops[o].prev \in Proxies
               /\ Patches([settings EXCEPT !.proxy = ops[o].prev], o)
            \/ Ends(o, {"done"}, {}) /\ UNCHANGED storeVars
<1>1. /\ ops \in OpMap /\ ops[o] # NoOp /\ ops[o].at \in {"done"} /\ "restore" \in Phase
      /\ FadesAll(ops, {})
  BY NothingFades DEF Typed, Done, At, Phase
<1>2. CASE ops[o].kind = "proxy" /\ ~ops[o].ok /\ StillChosen(o)
  <2>1. /\ ops' = [ops EXCEPT ![o].at = "restore"]
        /\ Patches([settings EXCEPT !.proxy = ops[o].prev], o)
    BY <1>2 DEF Done
  <2>2. /\ ops' \in OpMap /\ Goes(o, {"done"}, "restore", {})
        /\ ops'[o].asel <=> (ops[o].asel /\ "selection" \notin {})
    BY <1>1, <2>1, GoesWith
  <2>3. ops[o].prev \in Proxies
    BY <1>1, <1>2 DEF Typed
  <2>. QED  BY <1>2, <2>1, <2>2, <2>3
<1>3. CASE ~(ops[o].kind = "proxy" /\ ~ops[o].ok /\ StillChosen(o))
  <2>1. ops' = [ops EXCEPT ![o] = NoOp] /\ UNCHANGED storeVars
    BY <1>3 DEF Done
  <2>. QED  BY <1>1, <2>1, EndsWith
<1>. QED  BY <1>2, <1>3

-----------------------------------------------------------------------------
(* The chain of writes and the chain of applications                      *)

Writing(o) == \E i \in DOMAIN writes : writes[i].by = o

\* Every command that waits for its write has one, and the newest is what the
\* settings are.
WriteInv ==
  /\ \A o \in Ops : Writing(o) <=> Is(o, {"patch", "fallbackPatch", "restore"})
  /\ \A i, k \in DOMAIN writes : writes[i].by = writes[k].by /\ writes[i].by \in Ops => i = k
  /\ writes = <<>> /\ stored => disk = settings
  /\ writes # <<>> => writes[Len(writes)].snap = settings

\* A snapshot is queued for a command that has none in the queue.
LEMMA PatchesQueue ==
  ASSUME Typed, WriteInv, NEW s \in Snapshot, NEW b \in Ops \union {Nobody}, Patches(s, b),
         b \in Ops => ~Writing(b)
  PROVE  /\ writes' \in Seq(Write) /\ writes' # <<>> /\ settings' = s /\ disk' = disk
         /\ writes'[Len(writes')].snap = s
         /\ \A o \in Ops : Writing(o)' <=> (Writing(o) \/ o = b)
         /\ \A i, k \in DOMAIN writes' :
              writes'[i].by = writes'[k].by /\ writes'[i].by \in Ops => i = k
<1>. DEFINE w == [snap |-> s, by |-> b]
<1>1. w \in Write /\ writes \in Seq(Write)
  BY DEF Write, Typed
<1>2. writes' = Append(writes, w) /\ settings' = s /\ disk' = disk
  BY DEF Patches
<1>3. /\ writes' \in Seq(Write) /\ Len(writes') = Len(writes) + 1
      /\ \A i \in 1..Len(writes) : writes'[i] = writes[i]
      /\ writes'[Len(writes) + 1] = w
  BY <1>1, <1>2, AppendProperties
<1>4. /\ Len(writes) \in Nat /\ DOMAIN writes = 1..Len(writes)
      /\ DOMAIN writes' = 1..(Len(writes) + 1) /\ writes' # <<>>
  BY <1>1, <1>3, LenProperties
<1>5. w.snap = s /\ w.by = b
  OBVIOUS
<1>. HIDE DEF w
<1>6. \A o \in Ops : Writing(o)' <=> (Writing(o) \/ o = b)
  <2>1. ASSUME NEW o \in Ops, NEW i \in DOMAIN writes', writes'[i].by = o
        PROVE  Writing(o) \/ o = b
    BY <2>1, <1>3, <1>4, <1>5 DEF Writing
  <2>2. ASSUME NEW o \in Ops, NEW i \in DOMAIN writes, writes[i].by = o
        PROVE  i \in DOMAIN writes' /\ writes'[i].by = o
    BY <2>2, <1>3, <1>4
  <2>3. b = writes'[Len(writes) + 1].by /\ Len(writes) + 1 \in DOMAIN writes'
    BY <1>3, <1>4, <1>5
  <2>. QED  BY <2>1, <2>2, <2>3 DEF Writing
<1>7. ASSUME NEW i \in DOMAIN writes', NEW k \in DOMAIN writes',
             writes'[i].by = writes'[k].by, writes'[i].by \in Ops
      PROVE  i = k
  <2>1. CASE i \in DOMAIN writes /\ k \in DOMAIN writes
    BY <2>1, <1>3, <1>4, <1>7 DEF WriteInv
  <2>2. CASE i = Len(writes) + 1 /\ k \in DOMAIN writes
    BY <2>2, <1>3, <1>4, <1>5, <1>7 DEF Writing
  <2>3. CASE k = Len(writes) + 1 /\ i \in DOMAIN writes
    BY <2>3, <1>3, <1>4, <1>5, <1>7 DEF Writing
  <2>. QED  BY <2>1, <2>2, <2>3, <1>4, <1>7
<1>. QED  BY <1>2, <1>3, <1>4, <1>5, <1>6, <1>7

\* The first write settles.
LEMMA WriteLeaves ==
  ASSUME Typed, WriteInv, NEW ok \in BOOLEAN, WriteSettles(ok)
  PROVE  /\ writes # <<>> /\ writes' \in Seq(Write) /\ disk' \in Snapshot /\ settings' = settings
         /\ Head(writes).by \in Ops \union {Nobody}
         /\ Head(writes).by \in Ops => Writing(Head(writes).by)
         /\ \A o \in Ops : Writing(o)' <=> (Writing(o) /\ o # Head(writes).by)
         /\ \A i, k \in DOMAIN writes' :
              writes'[i].by = writes'[k].by /\ writes'[i].by \in Ops => i = k
         /\ writes' = <<>> /\ stored' => disk' = settings'
         /\ writes' # <<>> => writes'[Len(writes')].snap = settings'
<1>1. /\ writes # <<>> /\ writes' = Tail(writes) /\ stored' = ok /\ settings' = settings
      /\ disk' = IF ok THEN Head(writes).snap ELSE disk
  BY DEF WriteSettles
<1>2. /\ writes \in Seq(Write) /\ Len(writes) \in Nat \ {0} /\ DOMAIN writes = 1..Len(writes)
  BY <1>1, LenProperties, EmptySeq DEF Typed
<1>3. /\ writes' \in Seq(Write) /\ Head(writes) = writes[1] /\ Head(writes) \in Write
      /\ Len(writes') = Len(writes) - 1
      /\ \A i \in 1..(Len(writes) - 1) : writes'[i] = writes[i + 1]
  BY <1>1, <1>2, HeadTailProperties
<1>4. DOMAIN writes' = 1..(Len(writes) - 1)
  BY <1>2, <1>3, LenProperties
<1>5. Head(writes).snap \in Snapshot /\ Head(writes).by \in Ops \union {Nobody}
  BY <1>3 DEF Write
<1>6. \A o \in Ops : Writing(o)' <=> (Writing(o) /\ o # Head(writes).by)
  <2>1. ASSUME NEW o \in Ops, NEW i \in DOMAIN writes', writes'[i].by = o
        PROVE  Writing(o) /\ o # Head(writes).by
    <3>1. i + 1 \in DOMAIN writes /\ writes[i + 1].by = o /\ i + 1 # 1 /\ 1 \in DOMAIN writes
      BY <2>1, <1>2, <1>3, <1>4
    <3>2. writes[1].by # o
      BY <3>1 DEF WriteInv
    <3>. QED  BY <3>1, <3>2, <1>3 DEF Writing
  <2>2. ASSUME NEW o \in Ops, NEW i \in DOMAIN writes, writes[i].by = o, o # Head(writes).by
        PROVE  Writing(o)'
    <3>1. i # 1
      BY <2>2, <1>3
    <3>2. i - 1 \in DOMAIN writes' /\ writes'[i - 1] = writes[i]
      BY <3>1, <2>2, <1>2, <1>3, <1>4
    <3>. QED  BY <3>2, <2>2 DEF Writing
  <2>. QED  BY <2>1, <2>2 DEF Writing
<1>7. ASSUME NEW i \in DOMAIN writes', NEW k \in DOMAIN writes',
             writes'[i].by = writes'[k].by, writes'[i].by \in Ops
      PROVE  i = k
  <2>1. /\ i + 1 \in DOMAIN writes /\ k + 1 \in DOMAIN writes
        /\ writes'[i] = writes[i + 1] /\ writes'[k] = writes[k + 1]
    BY <1>2, <1>3, <1>4
  <2>2. i + 1 = k + 1
    BY <1>7, <2>1 DEF WriteInv
  <2>. QED  BY <2>2, <1>2, <1>4
<1>8. ASSUME writes' = <<>>, stored'
      PROVE  disk' = settings'
  <2>1. Len(writes) = 1
    <3>1. Len(writes') = 0
      BY <1>8
    <3>2. Len(writes') = Len(writes) - 1 /\ Len(writes) \in Nat
      BY <1>2, <1>3
    <3>. QED  BY <3>1, <3>2
  <2>. QED  BY <2>1, <1>1, <1>3, <1>8 DEF WriteInv
<1>9. ASSUME writes' # <<>>
      PROVE  writes'[Len(writes')].snap = settings'
  <2>1. Len(writes') \in Nat \ {0}
    BY <1>9, <1>3, EmptySeq, LenProperties
  <2>2. writes'[Len(writes')] = writes[Len(writes)]
    BY <2>1, <1>2, <1>3
  <2>. QED  BY <2>2, <1>1 DEF WriteInv
<1>10. disk' \in Snapshot
  BY <1>1, <1>5 DEF Typed
<1>11. Head(writes).by \in Ops => Writing(Head(writes).by)
  BY <1>2, <1>3 DEF Writing
<1>. QED  BY <1>1, <1>3, <1>5, <1>6, <1>7, <1>8, <1>9, <1>10, <1>11

InTail(o) == \E i \in DOMAIN tail : tail[i] = o
First(o) == tail # <<>> /\ Head(tail) = o
NoneTwice == \A i, k \in DOMAIN tail : tail[i] = tail[k] => i = k

\* A command joins the chain of applications ...
LEMMA JoinsTail ==
  ASSUME tail \in Seq(Ops), NoneTwice, NEW o \in Ops, ~InTail(o), tail' = Append(tail, o)
  PROVE  /\ tail' \in Seq(Ops) /\ NoneTwice'
         /\ \A p \in Ops : InTail(p)' <=> (InTail(p) \/ p = o)
         /\ \A p \in Ops : First(p) => First(p)'
<1>1. /\ tail' \in Seq(Ops) /\ Len(tail') = Len(tail) + 1
      /\ \A i \in 1..Len(tail) : tail'[i] = tail[i]
      /\ tail'[Len(tail) + 1] = o
  BY AppendProperties
<1>2. /\ Len(tail) \in Nat /\ DOMAIN tail = 1..Len(tail) /\ DOMAIN tail' = 1..(Len(tail) + 1)
      /\ tail' # <<>>
  BY <1>1, LenProperties
<1>3. NoneTwice'
  BY <1>1, <1>2 DEF NoneTwice, InTail
<1>4. \A p \in Ops : InTail(p)' <=> (InTail(p) \/ p = o)
  <2>1. \A p \in Ops : InTail(p)' => InTail(p) \/ p = o
    BY <1>1, <1>2 DEF InTail
  <2>2. \A p \in Ops : InTail(p) => InTail(p)'
    BY <1>1, <1>2 DEF InTail
  <2>3. InTail(o)'
    BY <1>1, <1>2 DEF InTail
  <2>. QED  BY <2>1, <2>2, <2>3
<1>5. ASSUME tail # <<>>  PROVE Head(tail') = Head(tail)
  <2>1. Len(tail) # 0
    BY <1>5, EmptySeq
  <2>2. Head(tail) = tail[1] /\ Head(tail') = tail'[1]
    BY <1>1, <1>2, <1>5, HeadTailProperties
  <2>. QED  BY <2>1, <2>2, <1>1, <1>2
<1>. QED  BY <1>1, <1>2, <1>3, <1>4, <1>5 DEF First

\* ... and leaves it when it was its turn.
LEMMA LeavesTail ==
  ASSUME tail \in Seq(Ops), NoneTwice, NEW o \in Ops, First(o), tail' = Tail(tail)
  PROVE  /\ tail' \in Seq(Ops) /\ NoneTwice'
         /\ \A p \in Ops : InTail(p)' <=> (InTail(p) /\ p # o)
<1>1. tail # <<>> /\ Head(tail) = o
  BY DEF First
<1>2. /\ Len(tail) \in Nat \ {0} /\ DOMAIN tail = 1..Len(tail)
  BY <1>1, LenProperties, EmptySeq
<1>3. /\ tail' \in Seq(Ops) /\ o = tail[1] /\ Len(tail') = Len(tail) - 1
      /\ \A i \in 1..(Len(tail) - 1) : tail'[i] = tail[i + 1]
  BY <1>1, HeadTailProperties
<1>4. DOMAIN tail' = 1..(Len(tail) - 1)
  BY <1>2, <1>3, LenProperties
<1>5. NoneTwice'
  <2>. SUFFICES ASSUME NEW i \in DOMAIN tail', NEW k \in DOMAIN tail', tail'[i] = tail'[k]
                PROVE  i = k
    BY DEF NoneTwice
  <2>1. /\ i + 1 \in DOMAIN tail /\ k + 1 \in DOMAIN tail
        /\ tail'[i] = tail[i + 1] /\ tail'[k] = tail[k + 1]
    BY <1>2, <1>3, <1>4
  <2>2. i + 1 = k + 1
    BY <2>1 DEF NoneTwice
  <2>. QED  BY <2>2, <1>2, <1>4
<1>6. \A p \in Ops : InTail(p)' <=> (InTail(p) /\ p # o)
  <2>1. ASSUME NEW p \in Ops, NEW i \in DOMAIN tail', tail'[i] = p
        PROVE  InTail(p) /\ p # o
    <3>1. i + 1 \in DOMAIN tail /\ tail[i + 1] = p /\ i + 1 # 1 /\ 1 \in DOMAIN tail
      BY <2>1, <1>2, <1>3, <1>4
    <3>2. tail[1] # p
      BY <3>1 DEF NoneTwice
    <3>. QED  BY <3>1, <3>2, <1>3 DEF InTail
  <2>2. ASSUME NEW p \in Ops, NEW i \in DOMAIN tail, tail[i] = p, p # o
        PROVE  InTail(p)'
    <3>1. i # 1
      BY <2>2, <1>3
    <3>2. i - 1 \in DOMAIN tail' /\ tail'[i - 1] = tail[i]
      BY <3>1, <2>2, <1>2, <1>3, <1>4
    <3>. QED  BY <3>2, <2>2 DEF InTail
  <2>. QED  BY <2>1, <2>2 DEF InTail
<1>. QED  BY <1>3, <1>5, <1>6

-----------------------------------------------------------------------------
(* The invariant                                                          *)

Busy == {"resolve", "engine", "fallback", "fallbackPatch", "fallbackWait"}
Turn == Busy \union {"queued"}

\* One connect holds connectLock; of the other applications the first of the
\* chain is busy and the rest is queued.
TurnInv ==
  /\ \A o \in Ops : Connects(o) => connectLock /\ Is(o, Turn)
  /\ \A o, p \in Ops : Connects(o) /\ Connects(p) => o = p
  /\ \A o \in Ops : Is(o, Busy) => Connects(o) \/ First(o)
  /\ \A o \in Ops : InTail(o) => Is(o, Turn) /\ ~Connects(o)
  /\ NoneTwice

\* One command at the engine, which is starting for a connect; while one is to
\* start it, or restarts it, whatever else is under way is outdated.
EngineInv ==
  /\ \A o \in Ops : At(o, "engine") => state \in {"running", "starting"}
  /\ \A o, p \in Ops : At(o, "engine") /\ Is(p, {"engine", "fallback"}) => p = o
  /\ \A o \in Ops : Connects(o) /\ At(o, "engine") => state = "starting"

ConnectInv ==
  \A o \in Ops : Connects(o) =>
    /\ Is(o, {"queued", "resolve"}) =>
         /\ state \notin {"running", "starting"}
         /\ \A p \in Ops : p # o /\ ops[p] # NoOp => ~ops[p].ep
    /\ Is(o, {"resolve", "engine"}) => \A p \in Ops : ~Is(p, {"patch", "wait"})

RestartInv ==
  \A o \in Ops : At(o, "engine") /\ state = "starting" =>
    \A p \in Ops : p # o /\ ops[p] # NoOp => ~ops[p].ep

\* What was outdated by a connection is not left to one that works.
EpochInv ==
  \A o \in Ops : Is(o, {"patch", "wait"}) /\ ~ops[o].ep =>
    state \notin {"running", "starting"} \/ disconnectLock

\* A selection on the way is newer than an application that may fall back.
SelectionInv ==
  \A o, p \in Ops :
    ops[o] # NoOp /\ ops[o].asel /\ Is(p, {"patch", "wait"}) /\ ops[p].kind = "proxy" => ~ops[p].sel

OutcomeInv == \A o \in Ops : At(o, "done") /\ ~ops[o].ok => trouble = "last"

\* The selection an application found gone is in none of the contents it has.
GoneInv ==
  \A o \in Ops :
    /\ At(o, "engine") /\ ops[o].gone # Nobody => ops[o].gone \notin NodesOf[ops[o].want.sub]
    /\ At(o, "fallback") /\ ops[o].gone # Nobody => ops[o].gone \notin NodesOf[applied.sub]

\* Contents that were read before they changed are followed by a notification.
Noticed == \E n \in Ops : At(n, "queued") /\ ~Connects(n) /\ ops[n].ep

ContentsInv ==
  \A o \in Ops : At(o, "resolve") /\ ops[o].ep /\ (Running \/ Connects(o)) =>
    ops[o].want.sub = sub \/ (~Connects(o) /\ Noticed)

\* A command on the way to an application that nothing has outdated.
Wanting(o) ==
  /\ ops[o] # NoOp /\ ops[o].ep /\ ~Connects(o)
  /\ \/ At(o, "queued")
     \/ At(o, "resolve") /\ ops[o].want.sub = sub
     \/ Is(o, {"patch", "wait"}) /\ ops[o].kind = "profile"
     \/ Is(o, {"patch", "wait"}) /\ ops[o].kind = "mode" /\ ops[o].rev
     \/ Is(o, {"patch", "wait"}) /\ ops[o].kind = "proxy" /\ ops[o].sel

Follows == \E o \in Ops : Wanting(o)
Present == Desired(settings, sub)

\* The engine works, or will, with the profile of the present settings.
Serves ==
  /\ (\A o \in Ops : ~At(o, "engine")) => applied = Present
  /\ \A o \in Ops : At(o, "engine") => ops[o].want = Present

ServeInv ==
  trouble # "last" /\ ~disconnectLock =>
    /\ state = "running" => Serves \/ Follows
    /\ state = "starting" => Serves

ProfileInv ==
  /\ Typed /\ WriteInv /\ TurnInv /\ EngineInv /\ ConnectInv /\ RestartInv /\ EpochInv
  /\ SelectionInv /\ OutcomeInv /\ GoneInv /\ ContentsInv /\ ServeInv

LEMMA ProfileInvInit == Init => ProfileInv
<1>. SUFFICES ASSUME Init  PROVE ProfileInv
  OBVIOUS
<1>1. /\ settings \in Snapshot /\ disk = settings /\ writes = <<>> /\ stored = TRUE
      /\ state = "idle" /\ ops = [o \in Ops |-> NoOp] /\ tail = <<>> /\ sub \in Subs
      /\ connectLock = FALSE
  BY DEF Init, Loaded
<1>2. \A o \in Ops : ops[o] = NoOp
  BY <1>1
<1>3. Typed
  BY <1>1, <1>2 DEF Typed, OpMap, At
<1>4. WriteInv
  BY <1>1, <1>2 DEF WriteInv, Writing, Is
<1>5. TurnInv
  BY <1>1, <1>2 DEF TurnInv, Connects, Is, InTail, NoneTwice
<1>6. EngineInv /\ ConnectInv /\ RestartInv /\ EpochInv /\ SelectionInv /\ OutcomeInv /\ GoneInv
  BY <1>2 DEF EngineInv, ConnectInv, RestartInv, EpochInv, SelectionInv, OutcomeInv, GoneInv,
              Connects, Is, At
<1>7. ContentsInv /\ ServeInv
  BY <1>1, <1>2 DEF ContentsInv, ServeInv, At
<1>. QED  BY <1>3, <1>4, <1>5, <1>6, <1>7 DEF ProfileInv

-----------------------------------------------------------------------------
(* Commands keep the invariant                                            *)

\* Commands other than o that nothing outdates go on to their application.
LEMMA OthersWant ==
  ASSUME NEW o, Others(o, {}), sub' = sub, NEW p \in Ops, p # o, Wanting(p)
  PROVE  Wanting(p)'
BY DEF Others, Fades, Wanting, Connects, At, Is

LEMMA ConnectKeeps ==
  ASSUME ProfileInv, NEW o \in Ops, Connect(o)
  PROVE  ProfileInv'
<1>1. ops' \in OpMap /\ Begins(o, "connect", "queued", {"epoch"})
  BY CommandsBegin DEF ProfileInv
<1>2. /\ state \notin {"running", "starting"} /\ connectLock = FALSE /\ connectLock' = TRUE
      /\ settings' = settings /\ writes' = writes /\ stored' = stored /\ disk' = disk
      /\ state' = state /\ applied' = applied /\ disconnectLock' = disconnectLock
      /\ tail' = tail /\ sub' = sub /\ trouble' = trouble
  BY DEF Connect, storeVars, ProfileInv, TurnInv
<1>3. \A p \in Ops : ~Connects(p)
  BY <1>2 DEF ProfileInv, TurnInv
<1>4. Typed'
  BY <1>1, <1>2 DEF ProfileInv, Typed, Begins, Others, Fades, At
<1>5. WriteInv'
  BY <1>1, <1>2 DEF ProfileInv, WriteInv, Writing, Begins, Others, Fades, Is
<1>6. TurnInv'
  BY <1>1, <1>2, <1>3 DEF ProfileInv, TurnInv, Begins, Others, Fades, Is, Connects, InTail, First, NoneTwice, Busy, Turn
<1>7. EngineInv'
  BY <1>1, <1>2 DEF ProfileInv, EngineInv, Begins, Others, Fades, Is, At, Connects
<1>8. ConnectInv'
  BY <1>1, <1>2, <1>3 DEF ProfileInv, ConnectInv, Begins, Others, Fades, Is, At, Connects
<1>9. RestartInv' /\ EpochInv'
  BY <1>1, <1>2 DEF ProfileInv, EngineInv, RestartInv, EpochInv, Begins, Others, Fades, Is, At
<1>10. SelectionInv' /\ OutcomeInv' /\ GoneInv'
  BY <1>1, <1>2 DEF ProfileInv, SelectionInv, OutcomeInv, GoneInv, Begins, Others, Fades, Is, At
<1>11. ContentsInv' /\ ServeInv'
  BY <1>1, <1>2, <1>3 DEF ProfileInv, ContentsInv, ServeInv, Running, Begins, Others, Fades, Is, At, Connects
<1>. QED  BY <1>4, <1>5, <1>6, <1>7, <1>8, <1>9, <1>10, <1>11 DEF ProfileInv

\* A command that changes a setting, while the engine is not starting.
LEMMA ChangeKeeps ==
  ASSUME ProfileInv, NEW o \in Ops, NEW k \in {"mode", "proxy", "profile"}, NEW c, NEW s \in Snapshot,
         ops' \in OpMap, Begins(o, k, "patch", c), Patches(s, o), "epoch" \notin c,
         k = "proxy" => "selection" \in c /\ state = "running",
         k # "proxy" => connectLock = FALSE /\ state # "starting",
         UNCHANGED <<state, applied, connectLock, disconnectLock, tail, sub, trouble>>
  PROVE  ProfileInv'
<1>1. ~Writing(o) /\ ops[o] = NoOp /\ o # Nobody
  BY DesiredProfileAssumption DEF ProfileInv, WriteInv, Begins, Is
<1>2. /\ writes' \in Seq(Write) /\ writes' # <<>> /\ settings' = s /\ disk' = disk
      /\ writes'[Len(writes')].snap = s
      /\ \A p \in Ops : Writing(p)' <=> (Writing(p) \/ p = o)
      /\ \A i, j \in DOMAIN writes' :
           writes'[i].by = writes'[j].by /\ writes'[i].by \in Ops => i = j
  BY <1>1, PatchesQueue DEF ProfileInv
<1>3. /\ state' = state /\ applied' = applied /\ connectLock' = connectLock
      /\ disconnectLock' = disconnectLock /\ tail' = tail /\ sub' = sub /\ trouble' = trouble
  OBVIOUS
<1>4. state # "starting" /\ \A p \in Ops : Connects(p) => state = "running"
  BY DEF ProfileInv, TurnInv
<1>5. Typed'
  BY <1>2, <1>3 DEF ProfileInv, Typed, Begins, Others, Fades, At
<1>6. WriteInv'
  BY <1>1, <1>2 DEF ProfileInv, WriteInv, Begins, Others, Fades, Is
<1>7. TurnInv'
  BY <1>3 DEF ProfileInv, TurnInv, Begins, Others, Fades, Is, Connects, InTail, First, NoneTwice,
              Busy, Turn
<1>8. EngineInv'
  BY <1>3 DEF ProfileInv, EngineInv, Begins, Others, Fades, Is, At, Connects
<1>9. ConnectInv'
  BY <1>3, <1>4 DEF ProfileInv, EngineInv, ConnectInv, Begins, Others, Fades, Is, At, Connects
<1>10. RestartInv' /\ EpochInv'
  BY <1>3, <1>4 DEF ProfileInv, RestartInv, EpochInv, Begins, Others, Fades, Is, At
<1>11. SelectionInv'
  BY <1>3 DEF ProfileInv, SelectionInv, Begins, Others, Fades, Is
<1>12. OutcomeInv' /\ GoneInv'
  BY <1>3 DEF ProfileInv, OutcomeInv, GoneInv, Begins, Others, Fades, At
<1>13. ContentsInv'
  BY <1>3 DEF ProfileInv, ContentsInv, Noticed, Running, Begins, Others, Fades, At, Connects
<1>14. ServeInv'
  <2>1. Wanting(o)'
    BY DEF Begins, Wanting, Connects, Is
  <2>. QED  BY <1>3, <1>4, <2>1 DEF ServeInv, Follows
<1>. QED  BY <1>5, <1>6, <1>7, <1>8, <1>9, <1>10, <1>11, <1>12, <1>13, <1>14 DEF ProfileInv

LEMMA SettingKeeps ==
  ASSUME ProfileInv, ~MayChangeWhileStarting, NEW o \in Ops,
         \/ \E m \in Modes : SetMode(o, m)
         \/ \E p \in Proxies : SetProxy(o, p)
         \/ \E s \in Snapshot : ApplyProfile(o, s)
  PROVE  ProfileInv'
<1>0. settings \in Snapshot /\ Typed
  BY DEF ProfileInv, Typed
<1>1. ASSUME NEW m \in Modes, SetMode(o, m)  PROVE ProfileInv'
  <2>1. ops' \in OpMap /\ Begins(o, "mode", "patch", {"mode"})
    BY <1>0, <1>1, CommandsBegin
  <2>2. [settings EXCEPT !.mode = m] \in Snapshot
    BY <1>0 DEF Snapshot
  <2>3. /\ Patches([settings EXCEPT !.mode = m], o) /\ connectLock = FALSE /\ state # "starting"
        /\ UNCHANGED <<state, applied, connectLock, disconnectLock, tail, sub, trouble>>
    BY <1>1 DEF SetMode, Settled, locks
  <2>. QED  BY <2>1, <2>2, <2>3, ChangeKeeps
<1>2. ASSUME NEW p \in Proxies, SetProxy(o, p)  PROVE ProfileInv'
  <2>1. ops' \in OpMap /\ Begins(o, "proxy", "patch", {"selection"})
    BY <1>0, <1>2, CommandsBegin
  <2>2. [settings EXCEPT !.proxy = p] \in Snapshot
    BY <1>0 DEF Snapshot
  <2>3. /\ Patches([settings EXCEPT !.proxy = p], o) /\ state = "running"
        /\ UNCHANGED <<state, applied, connectLock, disconnectLock, tail, sub, trouble>>
    BY <1>2 DEF SetProxy, Running, locks
  <2>. QED  BY <2>1, <2>2, <2>3, ChangeKeeps
<1>3. ASSUME NEW s \in Snapshot, ApplyProfile(o, s)  PROVE ProfileInv'
  <2>1. ops' \in OpMap /\ Begins(o, "profile", "patch", {})
    BY <1>0, <1>3, CommandsBegin
  <2>2. /\ Patches(s, o) /\ connectLock = FALSE /\ state # "starting"
        /\ UNCHANGED <<state, applied, connectLock, disconnectLock, tail, sub, trouble>>
    BY <1>3 DEF ApplyProfile, Settled, locks
  <2>. QED  BY <2>1, <2>2, ChangeKeeps
<1>. QED  BY <1>1, <1>2, <1>3

LEMMA DisconnectKeeps ==
  ASSUME ProfileInv, Disconnect
  PROVE  ProfileInv'
<1>1. ops' \in OpMap /\ \A p \in Ops : Fades(ops[p], ops'[p], {"epoch"})
  BY OutdatedFades DEF Disconnect, ProfileInv, Typed, FadesAll
<1>2. /\ disconnectLock' = TRUE
      /\ state' = state \/ (state' = "stopping" /\ \A o \in Ops : ~At(o, "engine"))
      /\ settings' = settings /\ writes' = writes /\ stored' = stored /\ disk' = disk
      /\ applied' = applied /\ connectLock' = connectLock
      /\ tail' = tail /\ sub' = sub /\ trouble' = trouble
  BY DEF Disconnect, EngineBusy, storeVars
<1>3. Typed'
  BY <1>1, <1>2 DEF ProfileInv, Typed, Fades, At
<1>4. WriteInv'
  BY <1>1, <1>2 DEF ProfileInv, WriteInv, Writing, Fades, Is
<1>5. TurnInv'
  BY <1>1, <1>2 DEF ProfileInv, TurnInv, Fades, Is, Connects, InTail, First, NoneTwice, Busy, Turn
<1>6. EngineInv' /\ ConnectInv' /\ RestartInv'
  BY <1>1, <1>2 DEF ProfileInv, EngineInv, ConnectInv, RestartInv, Fades, Is, At, Connects
<1>7. EpochInv' /\ SelectionInv' /\ OutcomeInv' /\ GoneInv'
  BY <1>1, <1>2 DEF ProfileInv, EpochInv, SelectionInv, OutcomeInv, GoneInv, Fades, Is, At
<1>8. ContentsInv' /\ ServeInv'
  BY <1>1, <1>2 DEF ProfileInv, ContentsInv, ServeInv, Running, Fades, At, Connects
<1>. QED  BY <1>3, <1>4, <1>5, <1>6, <1>7, <1>8 DEF ProfileInv

\* Nothing runs, and nobody writes.
LEMMA SelectOfflineKeeps ==
  ASSUME ProfileInv, ~MayChangeWhileStarting, NEW p \in Proxies, SelectOffline(p)
  PROVE  ProfileInv'
<1>1. /\ state \notin {"running", "starting"} /\ Patches([settings EXCEPT !.proxy = p], Nobody)
      /\ state' = state /\ applied' = applied /\ ops' = ops /\ connectLock' = connectLock
      /\ disconnectLock' = disconnectLock /\ tail' = tail /\ sub' = sub /\ trouble' = trouble
      /\ \A o \in Ops : ops[o] = NoOp
  BY DEF SelectOffline, Running, Settled, locks, Active
<1>2. [settings EXCEPT !.proxy = p] \in Snapshot /\ Nobody \notin Ops
  BY DesiredProfileAssumption DEF ProfileInv, Typed, Snapshot
<1>3. PICK s \in Snapshot : s = [settings EXCEPT !.proxy = p]
  BY <1>2
<1>4. /\ writes' \in Seq(Write) /\ writes' # <<>> /\ settings' = s /\ disk' = disk
      /\ writes'[Len(writes')].snap = s
      /\ \A o \in Ops : Writing(o)' <=> (Writing(o) \/ o = Nobody)
      /\ \A i, j \in DOMAIN writes' :
           writes'[i].by = writes'[j].by /\ writes'[i].by \in Ops => i = j
  BY <1>1, <1>2, <1>3, PatchesQueue DEF ProfileInv
<1>5. Typed' /\ WriteInv'
  BY <1>1, <1>2, <1>4 DEF ProfileInv, Typed, WriteInv, Is, At
<1>6. TurnInv'
  BY <1>1 DEF ProfileInv, TurnInv, Is, Connects, InTail, First, NoneTwice
<1>7. EngineInv' /\ ConnectInv' /\ RestartInv' /\ EpochInv' /\ SelectionInv' /\ OutcomeInv'
  BY <1>1 DEF EngineInv, ConnectInv, RestartInv, EpochInv, SelectionInv, OutcomeInv, Connects, Is, At
<1>8. GoneInv' /\ ContentsInv' /\ ServeInv'
  BY <1>1 DEF GoneInv, ContentsInv, ServeInv, At
<1>. QED  BY <1>5, <1>6, <1>7, <1>8 DEF ProfileInv

\* A change of the contents is followed by a notification, where it matters.
LEMMA SubscriptionsChangeKeeps ==
  ASSUME ProfileInv, ~MayChangeWhileStarting, NEW o \in Ops, NEW c \in Subs, SubscriptionsChange(o, c)
  PROVE  ProfileInv'
<1>1. /\ connectLock = FALSE /\ state # "starting" /\ ops[o] = NoOp /\ sub' = c
      /\ settings' = settings /\ writes' = writes /\ stored' = stored /\ disk' = disk
      /\ state' = state /\ applied' = applied /\ connectLock' = connectLock
      /\ disconnectLock' = disconnectLock /\ trouble' = trouble
  BY DEF SubscriptionsChange, Given, Settled, storeVars, locks
<1>2. \A p \in Ops : ~Connects(p)
  BY <1>1 DEF ProfileInv, TurnInv
<1>3. CASE Running
  <2>1. ops' \in OpMap /\ Begins(o, "notify", "queued", {}) /\ tail' = Append(tail, o)
    BY <1>3, CommandsBegin DEF ProfileInv, SubscriptionsChange
  <2>2. ~InTail(o)
    BY <1>1 DEF ProfileInv, TurnInv, Is
  <2>3. /\ tail' \in Seq(Ops) /\ NoneTwice'
        /\ \A p \in Ops : InTail(p)' <=> (InTail(p) \/ p = o)
        /\ \A p \in Ops : First(p) => First(p)'
    BY <2>1, <2>2, JoinsTail DEF ProfileInv, Typed, TurnInv
  <2>4. Typed'
    BY <1>1, <2>1, <2>3 DEF ProfileInv, Typed, Begins, Others, Fades, At
  <2>5. WriteInv'
    BY <1>1, <2>1 DEF ProfileInv, WriteInv, Writing, Begins, Others, Fades, Is
  <2>6. TurnInv'
    BY <1>1, <1>2, <2>1, <2>3 DEF ProfileInv, TurnInv, Begins, Others, Fades, Is, Connects, Busy, Turn
  <2>7. EngineInv' /\ ConnectInv'
    BY <1>1, <1>2, <2>1 DEF ProfileInv, EngineInv, ConnectInv, Begins, Others, Fades, Is, At, Connects
  <2>8. RestartInv' /\ EpochInv' /\ SelectionInv' /\ OutcomeInv' /\ GoneInv'
    BY <1>1, <2>1 DEF ProfileInv, RestartInv, EpochInv, SelectionInv, OutcomeInv, GoneInv, Begins,
                      Others, Fades, Is, At
  <2>9. Noticed' /\ Wanting(o)'
    BY <2>1 DEF Begins, Noticed, Wanting, Connects, At
  <2>10. ContentsInv' /\ ServeInv'
    BY <1>1, <1>2, <2>1, <2>9 DEF ContentsInv, ServeInv, Follows, Begins, Others, Fades, At, Connects
  <2>. QED  BY <2>4, <2>5, <2>6, <2>7, <2>8, <2>10 DEF ProfileInv
<1>4. CASE ~Running
  <2>1. ops' = ops /\ tail' = tail /\ state \notin {"running", "starting"}
    BY <1>1, <1>4 DEF SubscriptionsChange, Running
  <2>2. Typed' /\ WriteInv' /\ TurnInv'
    BY <1>1, <2>1 DEF ProfileInv, Typed, WriteInv, Writing, TurnInv, Is, At, Connects, InTail, First,
                      NoneTwice
  <2>3. EngineInv' /\ ConnectInv' /\ RestartInv' /\ EpochInv' /\ SelectionInv' /\ OutcomeInv' /\ GoneInv'
    BY <1>1, <2>1 DEF ProfileInv, EngineInv, ConnectInv, RestartInv, EpochInv, SelectionInv,
                      OutcomeInv, GoneInv, Connects, Is, At
  <2>4. ContentsInv' /\ ServeInv'
    BY <1>1, <1>2, <2>1 DEF ContentsInv, ServeInv, Running, At, Connects
  <2>. QED  BY <2>2, <2>3, <2>4 DEF ProfileInv
<1>. QED  BY <1>3, <1>4

-----------------------------------------------------------------------------
(* What is stored keeps the invariant                                     *)

LEMMA StoredKeeps ==
  ASSUME ProfileInv, NEW ok \in BOOLEAN, Stored(ok)
  PROVE  ProfileInv'
<1>1. /\ WriteSettles(ok)
      /\ state' = state /\ applied' = applied /\ connectLock' = connectLock
      /\ disconnectLock' = disconnectLock /\ tail' = tail /\ sub' = sub
  BY DEF Stored, locks
<1>2. PICK b : b = Head(writes).by
  OBVIOUS
<1>3. /\ writes' \in Seq(Write) /\ disk' \in Snapshot /\ settings' = settings
      /\ b \in Ops \union {Nobody} /\ (b \in Ops => Writing(b))
      /\ \A o \in Ops : Writing(o)' <=> (Writing(o) /\ o # b)
      /\ \A i, k \in DOMAIN writes' :
           writes'[i].by = writes'[k].by /\ writes'[i].by \in Ops => i = k
      /\ writes' = <<>> /\ stored' => disk' = settings'
      /\ writes' # <<>> => writes'[Len(writes')].snap = settings'
  BY <1>1, <1>2, WriteLeaves DEF ProfileInv
<1>4. CASE b \in Ops
  <2>1. Is(b, {"patch", "fallbackPatch", "restore"})
    BY <1>3, <1>4 DEF ProfileInv, WriteInv
  <2>2. ops' \in OpMap /\ WriteSettled(b)
    BY <1>2, <1>4, <2>1, StoredIs DEF ProfileInv
  <2>3. /\ Others(b, {})
        /\ trouble' = trouble \/ trouble' = "last"
        /\ ops'[b] # NoOp =>
             /\ ops[b] # NoOp /\ ops'[b].kind = ops[b].kind /\ ops'[b].prev = ops[b].prev
             /\ ops'[b].ep <=> ops[b].ep
             /\ ops'[b].sel <=> ops[b].sel
             /\ ops'[b].rev <=> ops[b].rev
             /\ ops'[b].asel => ops[b].asel
             /\ \/ ops[b].at = "patch" /\ ops'[b].at = "wait"
                \/ ops[b].at = "fallbackPatch" /\ ops'[b].at = "fallbackWait"
        /\ ops'[b] = NoOp => ops[b].at = "restore" \/ (ops[b].at = "patch" /\ trouble' = "last")
    BY <2>2 DEF WriteSettled, Goes, Ends
  <2>4. Typed'
    BY <1>1, <1>3, <1>4, <2>2, <2>3 DEF ProfileInv, Typed, Others, Fades, At
  <2>5. WriteInv'
    BY <1>3, <1>4, <2>1, <2>3 DEF ProfileInv, WriteInv, Others, Fades, Is
  <2>6. TurnInv'
    BY <1>1, <1>4, <2>1, <2>3 DEF ProfileInv, TurnInv, Others, Fades, Is, Connects, InTail, First,
                                  NoneTwice, Busy, Turn
  <2>7. EngineInv' /\ ConnectInv'
    BY <1>1, <1>4, <2>1, <2>3 DEF ProfileInv, EngineInv, ConnectInv, Others, Fades, Is, At, Connects
  <2>8. RestartInv' /\ EpochInv'
    BY <1>1, <1>4, <2>1, <2>3 DEF ProfileInv, RestartInv, EpochInv, Others, Fades, Is, At
  <2>9. SelectionInv' /\ OutcomeInv' /\ GoneInv'
    BY <1>1, <1>4, <2>1, <2>3 DEF ProfileInv, SelectionInv, OutcomeInv, GoneInv, Others, Fades, Is, At
  <2>10. ContentsInv'
    BY <1>1, <1>4, <2>1, <2>3 DEF ProfileInv, ContentsInv, Noticed, Running, Others, Fades, Is, At, Connects
  <2>11. ServeInv'
    <3>. SUFFICES ASSUME trouble' # "last"  PROVE ServeInv'
      BY DEF ServeInv
    <3>1. ASSUME NEW p \in Ops, Wanting(p)  PROVE Wanting(p)'
      BY <1>1, <1>4, <2>1, <2>3, <3>1 DEF Others, Fades, Wanting, Connects, At, Is
    <3>2. Present' = Present /\ trouble' = trouble
      BY <1>1, <1>3, <2>3 DEF Present
    <3>3. \A p \in Ops : (At(p, "engine")' <=> At(p, "engine")) /\ (At(p, "engine") => ops'[p].want = ops[p].want)
      BY <1>4, <2>1, <2>3 DEF Others, Fades, At, Is
    <3>4. Serves => Serves'
      BY <1>1, <3>2, <3>3 DEF Serves
    <3>. QED  BY <1>1, <3>1, <3>2, <3>4 DEF ProfileInv, ServeInv, Follows
  <2>. QED  BY <2>4, <2>5, <2>6, <2>7, <2>8, <2>9, <2>10, <2>11 DEF ProfileInv
<1>5. CASE b = Nobody
  <2>1. ops' = ops /\ trouble' = trouble /\ Nobody \notin Ops
    BY <1>2, <1>5, DesiredProfileAssumption DEF Stored
  <2>2. Typed' /\ WriteInv'
    BY <1>1, <1>3, <1>5, <2>1 DEF ProfileInv, Typed, WriteInv, Is, At
  <2>3. TurnInv'
    BY <1>1, <2>1 DEF ProfileInv, TurnInv, Is, Connects, InTail, First, NoneTwice
  <2>4. EngineInv' /\ ConnectInv' /\ RestartInv' /\ EpochInv' /\ SelectionInv' /\ OutcomeInv' /\ GoneInv'
    BY <1>1, <2>1 DEF ProfileInv, EngineInv, ConnectInv, RestartInv, EpochInv, SelectionInv,
                      OutcomeInv, GoneInv, Connects, Is, At
  <2>5. ContentsInv'
    BY <1>1, <2>1 DEF ProfileInv, ContentsInv, Noticed, Running, Connects, At
  <2>6. ServeInv'
    BY <1>1, <1>3, <2>1 DEF ProfileInv, ServeInv, Serves, Present, Follows, Wanting, Connects, At, Is
  <2>. QED  BY <2>2, <2>3, <2>4, <2>5, <2>6 DEF ProfileInv
<1>. QED  BY <1>3, <1>4, <1>5

\* A mode or a selection joins the chain of applications, or its command ends
\* with nothing left to do.
LEMMA SettingStoredKeeps ==
  ASSUME ProfileInv, NEW o \in Ops, ModeStored(o) \/ ProxyStored(o)
  PROVE  ProfileInv'
<1>1. /\ ops' \in OpMap /\ SettingStored(o) /\ ops[o].kind \in {"mode", "proxy"}
  BY SettingStoredIs DEF ProfileInv
<1>2. /\ settings' = settings /\ writes' = writes /\ stored' = stored /\ disk' = disk
      /\ state' = state /\ applied' = applied /\ connectLock' = connectLock
      /\ disconnectLock' = disconnectLock /\ sub' = sub
  BY DEF ModeStored, ProxyStored, storeVars, locks, shown
<1>3. ops[o] # NoOp /\ ops[o].at = "wait" /\ ~InTail(o) /\ Others(o, {})
  BY <1>1 DEF SettingStored, Goes, Ends, ProfileInv, TurnInv, Is, Busy, Turn
<1>4. CASE tail' = Append(tail, o) /\ Goes(o, {"wait"}, "queued", {}) /\ (ops'[o].asel => ops[o].asel)
             /\ ops[o].ep /\ Running /\ trouble' = trouble
  <2>1. /\ tail' \in Seq(Ops) /\ NoneTwice'
        /\ \A p \in Ops : InTail(p)' <=> (InTail(p) \/ p = o)
        /\ \A p \in Ops : First(p) => First(p)'
    BY <1>3, <1>4, JoinsTail DEF ProfileInv, Typed, TurnInv
  <2>2. Typed'
    BY <1>1, <1>2, <1>4, <2>1, SMTT(30) DEF ProfileInv, Typed, Goes, Others, Fades, At
  <2>3. WriteInv'
    BY <1>2, <1>4 DEF ProfileInv, WriteInv, Writing, Goes, Others, Fades, Is
  <2>4. TurnInv'
    BY <1>1, <1>2, <1>4, <2>1 DEF ProfileInv, TurnInv, Goes, Others, Fades, Is, Connects, Busy, Turn
  <2>5. EngineInv' /\ ConnectInv'
    BY <1>1, <1>2, <1>4 DEF ProfileInv, EngineInv, ConnectInv, Goes, Others, Fades, Is, At, Connects
  <2>6. RestartInv' /\ EpochInv' /\ SelectionInv' /\ OutcomeInv' /\ GoneInv'
    BY <1>2, <1>4 DEF ProfileInv, RestartInv, EpochInv, SelectionInv, OutcomeInv, GoneInv, Goes,
                      Others, Fades, Is, At
  <2>7. ContentsInv'
    BY <1>2, <1>4 DEF ProfileInv, ContentsInv, Noticed, Running, Goes, Others, Fades, At, Connects
  <2>8. Wanting(o)'
    BY <1>1, <1>4 DEF Goes, Wanting, Connects, At
  <2>9. ServeInv'
    BY <1>2, <1>4, <2>8 DEF ServeInv, Follows, Running
  <2>. QED  BY <2>2, <2>3, <2>4, <2>5, <2>6, <2>7, <2>9 DEF ProfileInv
<1>5. CASE /\ tail' = tail /\ Ends(o, {"wait"}, {})
           /\ \/ trouble' = "last"
              \/ /\ trouble' = trouble
                 /\ \/ ~Running \/ ~ops[o].ep
                    \/ ops[o].kind = "mode" /\ ~ops[o].rev
                    \/ ops[o].kind = "proxy" /\ ~ops[o].sel
  <2>2. Typed'
    BY <1>1, <1>2, <1>5 DEF ProfileInv, Typed, Ends, Others, Fades, At
  <2>3. WriteInv'
    BY <1>2, <1>5 DEF ProfileInv, WriteInv, Writing, Ends, Others, Fades, Is
  <2>4. TurnInv'
    BY <1>2, <1>3, <1>5 DEF ProfileInv, TurnInv, Ends, Others, Fades, Is, Connects, Busy, Turn, InTail,
                            First, NoneTwice
  <2>5. EngineInv' /\ ConnectInv'
    BY <1>2, <1>5 DEF ProfileInv, EngineInv, ConnectInv, Ends, Others, Fades, Is, At, Connects
  <2>6. RestartInv' /\ EpochInv' /\ SelectionInv' /\ OutcomeInv' /\ GoneInv'
    BY <1>2, <1>5 DEF ProfileInv, RestartInv, EpochInv, SelectionInv, OutcomeInv, GoneInv, Ends,
                      Others, Fades, Is, At
  <2>7. ContentsInv'
    BY <1>2, <1>5 DEF ProfileInv, ContentsInv, Noticed, Running, Ends, Others, Fades, At, Connects
  <2>8. ServeInv'
    <3>. SUFFICES ASSUME trouble' # "last"  PROVE ServeInv'
      BY DEF ServeInv
    <3>1. \A p \in Ops : p # o /\ Wanting(p) => Wanting(p)'
      BY <1>2, <1>3, OthersWant
    <3>2. Running => ~Wanting(o)
      BY <1>1, <1>3, <1>5 DEF Wanting, At, Is
    <3>3. Present' = Present /\ trouble' = trouble
      BY <1>2, <1>5 DEF Present
    <3>4. Serves => Serves'
      BY <1>2, <1>3, <1>5, <3>3 DEF Serves, Ends, Others, Fades, At
    <3>. QED  BY <1>2, <3>1, <3>2, <3>3, <3>4 DEF ProfileInv, ServeInv, Follows, Running
  <2>. QED  BY <2>2, <2>3, <2>4, <2>5, <2>6, <2>7, <2>8 DEF ProfileInv
<1>. QED  BY <1>1, <1>4, <1>5 DEF SettingStored

\* A profile joins the chain of applications, if the engine runs.
LEMMA ProfileStoredKeeps ==
  ASSUME ProfileInv, NEW o \in Ops, ProfileStored(o)
  PROVE  ProfileInv'
<1>1. ops' \in OpMap /\ ProfileJoins(o)
  BY ProfileStoredIs DEF ProfileInv
<1>2. /\ settings' = settings /\ writes' = writes /\ stored' = stored /\ disk' = disk
      /\ state' = state /\ applied' = applied /\ connectLock' = connectLock
      /\ disconnectLock' = disconnectLock /\ sub' = sub
      /\ trouble' = "last" <=> trouble = "last"
      /\ ops[o].kind = "profile"
  BY DEF ProfileStored, storeVars, locks
<1>3. /\ ops[o] # NoOp /\ ops[o].at = "wait" /\ ~InTail(o)
      /\ Others(o, {"selection", "mode"})
  BY <1>1 DEF ProfileJoins, Goes, Ends, ProfileInv, TurnInv, Is, Busy, Turn
<1>4. CASE Running
  <2>0. Goes(o, {"wait"}, "queued", {"selection", "mode"}) /\ ~ops'[o].asel /\ tail' = Append(tail, o)
    BY <1>1, <1>4 DEF ProfileJoins
  <2>1. /\ tail' \in Seq(Ops) /\ NoneTwice'
        /\ \A p \in Ops : InTail(p)' <=> (InTail(p) \/ p = o)
        /\ \A p \in Ops : First(p) => First(p)'
    BY <1>3, <2>0, JoinsTail DEF ProfileInv, Typed, TurnInv
  <2>2. Typed'
    BY <1>1, <1>2, <2>0, <2>1 DEF ProfileInv, Typed, Goes, Others, Fades, At
  <2>3. WriteInv'
    BY <1>2, <2>0 DEF ProfileInv, WriteInv, Writing, Goes, Others, Fades, Is
  <2>4. TurnInv'
    BY <1>2, <2>0, <2>1 DEF ProfileInv, TurnInv, Goes, Others, Fades, Is, Connects, Busy, Turn
  <2>5. EngineInv' /\ ConnectInv'
    BY <1>2, <2>0 DEF ProfileInv, EngineInv, ConnectInv, Goes, Others, Fades, Is, At, Connects
  <2>6. RestartInv' /\ EpochInv' /\ SelectionInv' /\ OutcomeInv' /\ GoneInv'
    BY <1>2, <2>0 DEF ProfileInv, RestartInv, EpochInv, SelectionInv, OutcomeInv, GoneInv, Goes,
                      Others, Fades, Is, At
  <2>7. ContentsInv'
    BY <1>2, <2>0 DEF ProfileInv, ContentsInv, Noticed, Running, Goes, Others, Fades, At, Connects
  <2>8. ServeInv'
    <3>. SUFFICES ASSUME ~disconnectLock  PROVE ServeInv'
      BY <1>2 DEF ServeInv
    <3>1. ops[o].ep
      BY <1>3, <1>4 DEF ProfileInv, EpochInv, Is, Running
    <3>2. Wanting(o)'
      BY <1>2, <2>0, <3>1 DEF Goes, Wanting, Connects, At
    <3>. QED  BY <1>2, <1>4, <3>2 DEF ServeInv, Follows, Running
  <2>. QED  BY <2>2, <2>3, <2>4, <2>5, <2>6, <2>7, <2>8 DEF ProfileInv
<1>5. CASE ~Running
  <2>1. Ends(o, {"wait"}, {"selection", "mode"}) /\ tail' = tail
    BY <1>1, <1>5 DEF ProfileJoins
  <2>2. Typed'
    BY <1>1, <1>2, <2>1 DEF ProfileInv, Typed, Ends, Others, Fades, At
  <2>3. WriteInv'
    BY <1>2, <2>1 DEF ProfileInv, WriteInv, Writing, Ends, Others, Fades, Is
  <2>4. TurnInv'
    BY <1>2, <1>3, <2>1 DEF ProfileInv, TurnInv, Ends, Others, Fades, Is, Connects, Busy, Turn, InTail,
                            First, NoneTwice
  <2>5. EngineInv' /\ ConnectInv'
    BY <1>2, <2>1 DEF ProfileInv, EngineInv, ConnectInv, Ends, Others, Fades, Is, At, Connects
  <2>6. RestartInv' /\ EpochInv' /\ SelectionInv' /\ OutcomeInv' /\ GoneInv'
    BY <1>2, <2>1 DEF ProfileInv, RestartInv, EpochInv, SelectionInv, OutcomeInv, GoneInv, Ends,
                      Others, Fades, Is, At
  <2>7. ContentsInv'
    BY <1>2, <2>1 DEF ProfileInv, ContentsInv, Noticed, Running, Ends, Others, Fades, At, Connects
  <2>8. ServeInv'
    <3>1. Present' = Present
      BY <1>2 DEF Present
    <3>2. Serves => Serves'
      BY <1>2, <1>3, <2>1, <3>1 DEF Serves, Ends, Others, Fades, At
    <3>. QED  BY <1>2, <1>5, <3>2 DEF ProfileInv, ServeInv, Running
  <2>. QED  BY <2>2, <2>3, <2>4, <2>5, <2>6, <2>7, <2>8 DEF ProfileInv
<1>. QED  BY <1>4, <1>5

-----------------------------------------------------------------------------
(* Applications keep the invariant                                        *)

\* An application that is over leaves the chain; the connection stays as it is.
LEMMA FinishedKeeps ==
  ASSUME ProfileInv, NEW o \in Ops, NEW ok \in BOOLEAN, NEW c,
         ops' \in OpMap, Finished(o, {"queued", "resolve", "fallback", "fallbackWait"}, ok, c),
         ItsTurn(o) \/ Is(o, Busy), "epoch" \notin c,
         c = {} \/ (c = {"selection"} /\ ops[o].asel),
         ok \/ trouble' = "last", trouble' = trouble \/ trouble' = "last",
         Running /\ trouble' # "last" => ~Wanting(o),
         UNCHANGED <<storeVars, state, applied, disconnectLock, sub>>
  PROVE  ProfileInv'
<1>1. /\ settings' = settings /\ writes' = writes /\ stored' = stored /\ disk' = disk
      /\ state' = state /\ applied' = applied /\ disconnectLock' = disconnectLock /\ sub' = sub
  BY DEF storeVars
<1>2. /\ ops[o] # NoOp /\ ops[o].at \in {"queued", "resolve", "fallback", "fallbackWait"}
      /\ Others(o, c)
      /\ Connects(o) => ops'[o] = NoOp /\ tail' = tail
      /\ ~Connects(o) =>
           /\ ops'[o] # NoOp /\ ops'[o].at = "done" /\ ops'[o].kind = ops[o].kind
           /\ ops'[o].prev = ops[o].prev /\ (ops'[o].ep => ops[o].ep)
           /\ ops'[o].ok = ok /\ ~ops'[o].asel
           /\ tail' = Tail(tail) /\ connectLock' = connectLock
  BY DEF Finished, Goes, Ends, Connects
<1>3. ~Connects(o) => First(o)
  BY <1>2 DEF ItsTurn, First, Connects, ProfileInv, TurnInv
<1>4. ~Connects(o) =>
        /\ tail' \in Seq(Ops) /\ NoneTwice'
        /\ \A p \in Ops : InTail(p)' <=> (InTail(p) /\ p # o)
  BY <1>2, <1>3, LeavesTail DEF ProfileInv, Typed, TurnInv
<1>5. Typed'
  BY <1>1, <1>2, <1>4 DEF ProfileInv, Typed, Others, Fades, At
<1>6. WriteInv'
  BY <1>1, <1>2 DEF ProfileInv, WriteInv, Writing, Others, Fades, Is
<1>7. TurnInv'
  <2>1. CASE Connects(o)
    BY <1>1, <1>2, <2>1 DEF ProfileInv, TurnInv, Others, Fades, Is, Connects, InTail, First, NoneTwice,
                            Busy, Turn
  <2>2. CASE ~Connects(o)
    <3>1. \A p \in Ops : p # o => (Connects(p)' <=> Connects(p))
      BY <1>2 DEF Others, Fades, Connects
    <3>2. \A p \in Ops : p # o => (Is(p, Busy)' <=> Is(p, Busy)) /\ (Is(p, Turn)' <=> Is(p, Turn))
      BY <1>2 DEF Others, Fades, Is
    <3>3. ~Connects(o)' /\ ~Is(o, Busy)' /\ ~Is(o, Turn)'
      BY <1>2, <2>2 DEF Connects, Is, Busy, Turn
    <3>4. \A p \in Ops : p # o => ~First(p)
      BY <1>3, <2>2 DEF First
    <3>. QED  BY <1>2, <1>4, <2>2, <3>1, <3>2, <3>3, <3>4 DEF ProfileInv, TurnInv
  <2>. QED  BY <2>1, <2>2
<1>8. EngineInv'
  BY <1>1, <1>2 DEF ProfileInv, EngineInv, Others, Fades, Is, At, Connects
<1>9. ConnectInv'
  BY <1>1, <1>2 DEF ProfileInv, ConnectInv, TurnInv, Others, Fades, Is, At, Connects
<1>10. RestartInv' /\ EpochInv'
  BY <1>1, <1>2 DEF ProfileInv, EngineInv, RestartInv, EpochInv, Others, Fades, Is, At
<1>11. SelectionInv'
  BY <1>2 DEF ProfileInv, SelectionInv, Others, Fades, Is
<1>12. OutcomeInv' /\ GoneInv'
  BY <1>1, <1>2 DEF ProfileInv, OutcomeInv, GoneInv, Others, Fades, At
<1>13. ContentsInv'
  <2>. SUFFICES ASSUME NEW p \in Ops, At(p, "resolve")', ops'[p].ep, (Running \/ Connects(p))'
                PROVE  ops'[p].want.sub = sub' \/ (~Connects(p) /\ Noticed)'
    BY DEF ContentsInv
  <2>1. /\ p # o /\ At(p, "resolve") /\ ops[p].ep /\ (Running \/ Connects(p))
        /\ ops'[p].want = ops[p].want /\ (Connects(p)' <=> Connects(p))
    BY <1>1, <1>2 DEF Others, Fades, At, Connects, Running
  <2>2. CASE ops[p].want.sub = sub
    BY <2>1, <2>2, <1>1
  <2>3. CASE ~Connects(p) /\ Noticed
    <3>1. PICK n \in Ops : At(n, "queued") /\ ~Connects(n) /\ ops[n].ep
      BY <2>3 DEF Noticed
    <3>2. First(p)
      BY <2>1, <2>3 DEF ProfileInv, TurnInv, Is, At, Busy
    <3>3. n # o
      BY <1>3, <2>1, <3>1, <3>2 DEF First
    <3>4. Noticed'
      BY <1>2, <3>1, <3>3 DEF Noticed, Others, Fades, At, Connects
    <3>. QED  BY <2>1, <2>3, <3>4
  <2>. QED  BY <2>1, <2>2, <2>3 DEF ProfileInv, ContentsInv
<1>14. ServeInv'
  <2>. SUFFICES ASSUME trouble' # "last"  PROVE ServeInv'
    BY DEF ServeInv
  <2>1. ASSUME NEW p \in Ops, p # o, Wanting(p)  PROVE Wanting(p)'
    <3>1. c = {"selection"} => ~(Is(p, {"patch", "wait"}) /\ ops[p].kind = "proxy" /\ ops[p].sel)
      BY <1>2, <2>1 DEF ProfileInv, SelectionInv
    <3>. QED  BY <1>1, <1>2, <2>1, <3>1 DEF Others, Fades, Wanting, Connects, At, Is
  <2>2. Present' = Present /\ trouble' = trouble
    BY <1>1 DEF Present
  <2>3. Serves => Serves'
    BY <1>1, <1>2, <2>2 DEF Serves, Others, Fades, At
  <2>. QED  BY <1>1, <2>1, <2>2, <2>3 DEF ProfileInv, ServeInv, Follows, Running
<1>. QED  BY <1>5, <1>6, <1>7, <1>8, <1>9, <1>10, <1>11, <1>12, <1>13, <1>14 DEF ProfileInv

\* ... in any of these phases.
LEMMA FinishedIn ==
  ASSUME NEW o, NEW S, NEW T, S \subseteq T, NEW ok, NEW c, Finished(o, S, ok, c)
  PROVE  Finished(o, T, ok, c)
BY DEF Finished, Goes, Ends

\* A failed or superseded application, before the engine is asked.
LEMMA GivesKeeps ==
  ASSUME ProfileInv, NEW o \in Ops, NEW S, S \subseteq {"queued", "resolve"},
         ops' \in OpMap, Gives(o, S), ItsTurn(o) \/ Is(o, Busy),
         UNCHANGED <<storeVars, state, applied, disconnectLock, sub>>
  PROVE  ProfileInv'
<1>. DEFINE T == {"queued", "resolve", "fallback", "fallbackWait"}
<1>1. CASE Finished(o, S, FALSE, {}) /\ trouble' = "last"
  <2>1. Finished(o, T, FALSE, {})
    BY <1>1, FinishedIn
  <2>. QED  BY <1>1, <2>1, FinishedKeeps
<1>2. CASE Finished(o, S, TRUE, {}) /\ ~Wanted(o) /\ trouble' = trouble
  <2>1. Finished(o, T, TRUE, {})
    BY <1>2, FinishedIn
  <2>2. Running => ~Wanting(o)
    BY <1>2 DEF Wanted, Wanting, Connects
  <2>. QED  BY <1>2, <2>1, <2>2, FinishedKeeps
<1>. QED  BY <1>1, <1>2 DEF Gives

\* Before an event every microtask has run.
LEMMA NextEventIs ==
  ASSUME ProfileInv, NextEvent
  PROVE  /\ \A p \in Ops : ~Is(p, {"done", "fallback"})
         /\ writes = <<>> => \A p \in Ops : ~Is(p, {"patch", "wait"})
<1>1. writes = <<>> => \A p \in Ops : ~Is(p, {"patch"})
  <2>1. writes = <<>> => \A p \in Ops : ~Writing(p)
    BY DEF Writing
  <2>. QED  BY <2>1 DEF ProfileInv, WriteInv, Is
<1>. QED  BY <1>1 DEF NextEvent, Active, Is, Persisted

LEMMA FetchesKeeps ==
  ASSUME ProfileInv, NextEvent, NEW o \in Ops, Fetches(o)
  PROVE  ProfileInv'
<1>1. /\ settings' = settings /\ writes' = writes /\ stored' = stored /\ disk' = disk
      /\ state' = state /\ applied' = applied /\ disconnectLock' = disconnectLock /\ sub' = sub
      /\ ItsTurn(o) /\ writes = <<>>
  BY DEF Fetches, storeVars, Persisted
<1>2. ops' \in OpMap /\ ((Fetched(o) /\ Wanted(o)) \/ Gives(o, {"queued"}))
  BY FetchesIs DEF ProfileInv
<1>3. CASE Gives(o, {"queued"})
  BY <1>1, <1>2, <1>3, GivesKeeps DEF storeVars
<1>4. CASE Fetched(o) /\ Wanted(o)
  <2>1. /\ Goes(o, {"queued"}, "resolve", {}) /\ ops'[o].want = Desired(settings, sub)
        /\ ops'[o].asel = ops[o].asel
        /\ tail' = tail /\ connectLock' = connectLock /\ trouble' = trouble
    BY <1>4 DEF Fetched
  <2>2. Desired(settings, sub) \in Profile /\ Desired(settings, sub).sub = sub
    BY DesiredProfiles DEF ProfileInv, Typed, Desired
  <2>3. Connects(o) \/ First(o)
    BY <1>1, <2>1 DEF ItsTurn, First, Goes, Connects
  <2>4. \A p \in Ops : ~Is(p, {"patch", "wait"})
    BY <1>1, NextEventIs
  <2>5. Typed'
    BY <1>1, <1>2, <2>1, <2>2 DEF ProfileInv, Typed, Goes, Others, Fades, At
  <2>6. WriteInv'
    BY <1>1, <2>1 DEF ProfileInv, WriteInv, Writing, Goes, Others, Fades, Is
  <2>7. TurnInv'
    BY <2>1, <2>3 DEF ProfileInv, TurnInv, Goes, Others, Fades, Is, Connects, InTail, First, NoneTwice,
                      Busy, Turn
  <2>8. EngineInv' /\ ConnectInv'
    BY <1>1, <2>1, <2>4 DEF ProfileInv, EngineInv, ConnectInv, Goes, Others, Fades, Is, At, Connects
  <2>9. RestartInv' /\ EpochInv'
    BY <1>1, <2>1 DEF ProfileInv, RestartInv, EpochInv, Goes, Others, Fades, Is, At
  <2>10. SelectionInv' /\ OutcomeInv' /\ GoneInv'
    BY <1>1, <2>1 DEF ProfileInv, SelectionInv, OutcomeInv, GoneInv, Goes, Others, Fades, Is, At
  <2>11. ContentsInv'
    <3>. SUFFICES ASSUME NEW p \in Ops, p # o, At(p, "resolve")', ops'[p].ep, (Running \/ Connects(p))'
                  PROVE  ops'[p].want.sub = sub' \/ (~Connects(p) /\ Noticed)'
      BY <1>1, <2>1, <2>2 DEF ContentsInv
    <3>1. /\ At(p, "resolve") /\ ops[p].ep /\ (Running \/ Connects(p))
          /\ ops'[p].want = ops[p].want /\ (Connects(p)' <=> Connects(p))
      BY <1>1, <2>1 DEF Goes, Others, Fades, At, Connects, Running
    <3>2. ~Connects(p) => First(p)
      BY <3>1 DEF ProfileInv, TurnInv, Is, At, Busy
    <3>3. ~Connects(p) => Connects(o)
      BY <2>3, <3>2 DEF First
    <3>4. ~Connects(p) /\ Noticed => Noticed'
      BY <2>1, <3>3 DEF Noticed, Goes, Others, Fades, At, Connects
    <3>. QED  BY <1>1, <3>1, <3>4 DEF ProfileInv, ContentsInv
  <2>12. ServeInv'
    <3>1. \A p \in Ops : p # o /\ Wanting(p) => Wanting(p)'
      BY <1>1, <2>1, OthersWant DEF Goes
    <3>2. Wanting(o) => Wanting(o)'
      BY <1>1, <2>1, <2>2 DEF Goes, Wanting, Connects, At
    <3>3. Present' = Present
      BY <1>1 DEF Present
    <3>4. Serves => Serves'
      BY <1>1, <2>1, <3>3 DEF Serves, Goes, Others, Fades, At
    <3>. QED  BY <1>1, <2>1, <3>1, <3>2, <3>4 DEF ProfileInv, ServeInv, Follows
  <2>. QED  BY <2>5, <2>6, <2>7, <2>8, <2>9, <2>10, <2>11, <2>12 DEF ProfileInv
<1>. QED  BY <1>2, <1>3, <1>4

LEMMA ResolvesKeeps ==
  ASSUME ProfileInv, NextEvent, NEW o \in Ops, Resolves(o)
  PROVE  ProfileInv'
<1>1. /\ settings' = settings /\ writes' = writes /\ stored' = stored /\ disk' = disk
      /\ applied' = applied /\ disconnectLock' = disconnectLock /\ sub' = sub
      /\ Is(o, Busy) /\ writes = <<>>
  BY DEF Resolves, storeVars, Persisted, Is, At, Busy
<1>2. ops' \in OpMap /\ (Asked(o) \/ (Gives(o, {"resolve"}) /\ state' = state))
  BY ResolvesIs DEF ProfileInv
<1>3. CASE Gives(o, {"resolve"}) /\ state' = state
  BY <1>1, <1>2, <1>3, GivesKeeps DEF storeVars
<1>4. CASE Asked(o)
  <2>. DEFINE content == ops[o].want.sub
              want == Desired(disk, content)
  <2>1. /\ stored /\ ops[o].ep /\ (Connects(o) \/ state = "running")
        /\ Goes(o, {"resolve"}, "engine", {}) /\ ops'[o].want = want
        /\ ops'[o].gone = IF want.proxy = disk.proxy THEN Nobody ELSE disk.proxy
        /\ Connects(o) => ~disconnectLock /\ state' = "starting"
        /\ ~Connects(o) => state' = state
        /\ tail' = tail /\ connectLock' = connectLock
    BY <1>4 DEF Asked, Wanted, Running, Connects, Goes
  <2>2. disk = settings
    BY <1>1, <2>1 DEF ProfileInv, WriteInv
  <2>3. /\ want.sub = content
        /\ want.proxy # disk.proxy => disk.proxy \notin NodesOf[content]
    <3>1. want.proxy = Available(disk.proxy, content) /\ want.sub = content
      BY DEF Desired
    <3>. QED  BY <3>1 DEF Available
  <2>. HIDE DEF want
  <2>4. \A p \in Ops : ~Is(p, {"patch", "wait", "done", "fallback"})
    BY <1>1, NextEventIs DEF Is
  <2>5. \A p \in Ops : ~At(p, "engine")
    <3>1. At(o, "resolve")
      BY <2>1 DEF Goes, At
    <3>2. CASE Connects(o)
      BY <3>1, <3>2 DEF ProfileInv, EngineInv, ConnectInv, Is, At
    <3>3. CASE ~Connects(o)
      <4>1. First(o)
        BY <3>1, <3>3 DEF ProfileInv, TurnInv, Is, At, Busy
      <4>2. ASSUME NEW p \in Ops, At(p, "engine")  PROVE FALSE
        <5>1. ~Connects(p)
          BY <2>1, <3>3, <4>2 DEF ProfileInv, EngineInv
        <5>2. First(p)
          BY <4>2, <5>1 DEF ProfileInv, TurnInv, Is, At, Busy
        <5>. QED  BY <3>1, <4>1, <4>2, <5>2 DEF First, At
      <4>. QED  BY <4>2
    <3>. QED  BY <3>2, <3>3
  <2>6. Typed'
    BY <1>1, <1>2, <2>1 DEF ProfileInv, Typed, Goes, Others, Fades, At
  <2>7. WriteInv'
    BY <1>1, <2>1 DEF ProfileInv, WriteInv, Writing, Goes, Others, Fades, Is
  <2>8. TurnInv'
    BY <1>1, <2>1 DEF ProfileInv, TurnInv, Goes, Others, Fades, Is, Connects, InTail, First, NoneTwice,
                      Busy, Turn
  <2>9. EngineInv'
    BY <1>1, <2>1, <2>4, <2>5 DEF EngineInv, Goes, Others, Fades, Is, At, Connects
  <2>10. ConnectInv'
    BY <1>1, <2>1, <2>4 DEF ProfileInv, TurnInv, ConnectInv, Goes, Others, Fades, Is, At, Connects
  <2>11. RestartInv' /\ EpochInv'
    BY <1>1, <2>1, <2>4, <2>5 DEF ProfileInv, ConnectInv, RestartInv, EpochInv, Goes, Others, Fades, Is,
                                  At, Connects
  <2>12. SelectionInv' /\ OutcomeInv'
    BY <2>1, <2>4 DEF SelectionInv, OutcomeInv, Goes, Others, Fades, Is, At
  <2>13. GoneInv'
    BY <1>1, <2>1, <2>3, <2>4, <2>5 DEF GoneInv, Goes, Others, Fades, Is, At
  <2>14. ContentsInv'
    <3>. SUFFICES ASSUME NEW p \in Ops, At(p, "resolve")', (Running \/ Connects(p))'
                  PROVE  FALSE
      BY DEF ContentsInv
    <3>1. p # o /\ At(p, "resolve") /\ (Connects(p)' <=> Connects(p))
      BY <2>1 DEF Goes, Others, Fades, At, Connects
    <3>2. CASE Connects(p)
      BY <2>1, <3>1, <3>2 DEF ProfileInv, TurnInv, ConnectInv, Is, At
    <3>3. CASE ~Connects(p)
      <4>1. ~Connects(o)
        BY <2>1, <3>1, <3>3 DEF Running
      <4>2. First(o) /\ First(p)
        BY <1>1, <3>1, <3>3, <4>1 DEF ProfileInv, TurnInv, Is, At, Busy
      <4>. QED  BY <3>1, <4>2 DEF First
    <3>. QED  BY <3>2, <3>3
  <2>15. ServeInv'
    <3>1. At(o, "resolve") /\ At(o, "engine")'
      BY <2>1 DEF Goes, At
    <3>2. CASE content = sub
      <4>1. Present' = want
        BY <1>1, <2>2, <3>2 DEF Present, want
      <4>2. Serves'
        BY <2>1, <2>5, <3>1, <4>1 DEF Serves, Goes, Others, Fades, At
      <4>. QED  BY <4>2 DEF ServeInv
    <3>3. CASE content # sub
      <4>1. ~Connects(o) /\ Noticed
        BY <2>1, <3>1, <3>3 DEF ProfileInv, ContentsInv, Running
      <4>2. Follows'
        BY <2>1, <4>1 DEF Noticed, Follows, Wanting, Goes, Others, Fades, At, Connects
      <4>. QED  BY <2>1, <4>1, <4>2 DEF ServeInv
    <3>. QED  BY <3>2, <3>3
  <2>. QED  BY <2>6, <2>7, <2>8, <2>9, <2>10, <2>11, <2>12, <2>13, <2>14, <2>15 DEF ProfileInv
<1>. QED  BY <1>2, <1>3, <1>4

\* An update restarts the engine while nothing else is under way.
LEMMA RestartsKeeps ==
  ASSUME ProfileInv, ~MayChangeWhileStarting, NEW o \in Ops, Restarts(o)
  PROVE  ProfileInv'
<1>1. /\ settings' = settings /\ writes' = writes /\ stored' = stored /\ disk' = disk
      /\ applied' = applied /\ connectLock' = connectLock /\ disconnectLock' = disconnectLock
      /\ ops' = ops /\ tail' = tail /\ sub' = sub /\ trouble' = trouble
      /\ state = "running" /\ state' = "starting" /\ At(o, "engine")
      /\ \A p \in Ops : p # o => ops[p] = NoOp
  BY DEF Restarts, storeVars, locks, Running, Active
<1>2. Typed' /\ WriteInv'
  BY <1>1 DEF ProfileInv, Typed, WriteInv, Writing, Is, At
<1>3. TurnInv'
  BY <1>1 DEF ProfileInv, TurnInv, Is, Connects, InTail, First, NoneTwice
<1>4. EngineInv' /\ ConnectInv' /\ RestartInv' /\ EpochInv'
  BY <1>1 DEF ProfileInv, EngineInv, ConnectInv, RestartInv, EpochInv, Connects, Is, At
<1>5. SelectionInv' /\ OutcomeInv' /\ GoneInv'
  BY <1>1 DEF ProfileInv, SelectionInv, OutcomeInv, GoneInv, Is, At
<1>6. ContentsInv'
  BY <1>1 DEF ContentsInv, At
<1>7. ServeInv'
  <2>1. ~Follows
    BY <1>1 DEF Follows, Wanting, At, Is
  <2>2. Serves => Serves'
    BY <1>1 DEF Serves, Present, At
  <2>. QED  BY <1>1, <2>1, <2>2 DEF ProfileInv, ServeInv
<1>. QED  BY <1>2, <1>3, <1>4, <1>5, <1>6, <1>7 DEF ProfileInv

\* Nobody else is at the engine or falls back, and no connect is on its way.
LEMMA AloneAtEngine ==
  ASSUME ProfileInv, NextEvent, NEW o \in Ops, At(o, "engine")
  PROVE  /\ state \in {"running", "starting"}
         /\ \A p \in Ops : p # o => ~At(p, "engine")
         /\ \A p \in Ops : ~Is(p, {"done", "fallback"})
         /\ \A p \in Ops : Connects(p) => ~Is(p, {"queued", "resolve"})
<1>1. state \in {"running", "starting"}
  BY DEF ProfileInv, EngineInv
<1>2. \A p \in Ops : p # o => ~At(p, "engine")
  BY DEF ProfileInv, EngineInv, Is, At
<1>3. \A p \in Ops : Connects(p) => ~Is(p, {"queued", "resolve"})
  BY <1>1 DEF ProfileInv, ConnectInv
<1>. QED  BY <1>1, <1>2, <1>3, NextEventIs

LEMMA SucceedsKeeps ==
  ASSUME ProfileInv, NextEvent, NEW o \in Ops, Succeeds(o)
  PROVE  ProfileInv'
<1>1. /\ settings' = settings /\ writes' = writes /\ stored' = stored /\ disk' = disk
      /\ connectLock' = connectLock /\ disconnectLock' = disconnectLock
      /\ tail' = tail /\ sub' = sub /\ trouble' = trouble
      /\ applied' = ops[o].want /\ At(o, "engine")
      /\ state' = IF disconnectLock THEN "stopping" ELSE "running"
  BY DEF Succeeds, storeVars, locks, AfterUpdate
<1>2. /\ ops' \in OpMap /\ Goes(o, {"engine"}, "fallback", {})
      /\ ops'[o].asel = ops[o].asel /\ ops'[o].gone = ops[o].gone
  BY SucceedsIs DEF ProfileInv
<1>3. /\ state \in {"running", "starting"}
      /\ \A p \in Ops : p # o => ~At(p, "engine")
      /\ \A p \in Ops : ~Is(p, {"done", "fallback"})
      /\ \A p \in Ops : Connects(p) => ~Is(p, {"queued", "resolve"})
  BY <1>1, AloneAtEngine
<1>4. Typed'
  BY <1>1, <1>2 DEF ProfileInv, Typed, Goes, Others, Fades, At
<1>5. WriteInv'
  BY <1>1, <1>2 DEF ProfileInv, WriteInv, Writing, Goes, Others, Fades, Is
<1>6. TurnInv'
  BY <1>1, <1>2 DEF ProfileInv, TurnInv, Goes, Others, Fades, Is, Connects, InTail, First, NoneTwice,
                    Busy, Turn
<1>7. EngineInv' /\ RestartInv'
  BY <1>2, <1>3 DEF EngineInv, RestartInv, Goes, Others, Fades, Is, At, Connects
<1>8. ConnectInv'
  BY <1>2, <1>3 DEF ConnectInv, Goes, Others, Fades, Is, At, Connects
<1>9. EpochInv'
  BY <1>1, <1>2, <1>3 DEF ProfileInv, EpochInv, Goes, Others, Fades, Is
<1>10. SelectionInv' /\ OutcomeInv'
  BY <1>1, <1>2 DEF ProfileInv, SelectionInv, OutcomeInv, Goes, Others, Fades, Is, At
<1>11. GoneInv'
  BY <1>1, <1>2, <1>3 DEF ProfileInv, GoneInv, Goes, Others, Fades, Is, At
<1>12. ContentsInv'
  <2>1. ASSUME NEW p \in Ops, At(p, "resolve")', ops'[p].ep  PROVE state = "running" /\ p # o
    BY <1>1, <1>2, <1>3, <2>1 DEF ProfileInv, RestartInv, Goes, Others, Fades, At
  <2>2. Noticed => Noticed'
    BY <1>2 DEF Noticed, Goes, Others, Fades, At, Connects
  <2>. QED  BY <1>1, <1>2, <2>1, <2>2 DEF ProfileInv, ContentsInv, Running, Goes, Others, Fades, At, Connects
<1>13. ServeInv'
  <2>1. \A p \in Ops : p # o /\ Wanting(p) => Wanting(p)'
    BY <1>1, <1>2, OthersWant DEF Goes
  <2>2. ~Wanting(o)
    BY <1>1 DEF Wanting, At, Is
  <2>3. Present' = Present
    BY <1>1 DEF Present
  <2>4. Serves => Serves'
    BY <1>1, <1>2, <1>3, <2>3 DEF Serves, Goes, Others, Fades, At
  <2>. QED  BY <1>1, <1>3, <2>1, <2>2, <2>4 DEF ProfileInv, ServeInv, Follows
<1>. QED  BY <1>4, <1>5, <1>6, <1>7, <1>8, <1>9, <1>10, <1>11, <1>12, <1>13 DEF ProfileInv

\* The engine fails or refuses: it is not running with what was asked, or runs
\* on with what it had.
LEMMA EngineFailsKeeps ==
  ASSUME ProfileInv, NextEvent, NEW o \in Ops, Breaks(o) \/ Refuses(o)
  PROVE  ProfileInv'
<1>1. /\ settings' = settings /\ writes' = writes /\ stored' = stored /\ disk' = disk
      /\ disconnectLock' = disconnectLock /\ sub' = sub /\ trouble' = "last"
      /\ At(o, "engine") /\ Fails(o)
      /\ state' = "running" => ~disconnectLock
      /\ state' # "starting"
  BY DEF Breaks, Refuses, Fails, storeVars, AfterUpdate
<1>2. ops' \in OpMap /\ Finished(o, {"engine"}, FALSE, {})
  <2>1. ops \in OpMap /\ ops[o] # NoOp /\ ops[o].at \in {"engine"} /\ Finishes(o, FALSE)
    BY <1>1 DEF ProfileInv, Typed, At, Fails
  <2>. QED  BY <2>1, FinishesIs
<1>3. /\ state \in {"running", "starting"}
      /\ \A p \in Ops : p # o => ~At(p, "engine")
      /\ \A p \in Ops : ~Is(p, {"done", "fallback"})
      /\ \A p \in Ops : Connects(p) => ~Is(p, {"queued", "resolve"})
  BY <1>1, AloneAtEngine
<1>4. /\ ops[o] # NoOp /\ ops[o].at = "engine" /\ Others(o, {})
      /\ Connects(o) => ops'[o] = NoOp /\ tail' = tail
      /\ ~Connects(o) =>
           /\ ops'[o] # NoOp /\ ops'[o].at = "done" /\ ops'[o].kind = ops[o].kind
           /\ ops'[o].prev = ops[o].prev /\ ~ops'[o].asel
           /\ tail' = Tail(tail) /\ connectLock' = connectLock
  BY <1>2 DEF Finished, Goes, Ends, Connects
<1>5. ~Connects(o) => First(o)
  BY <1>4 DEF ProfileInv, TurnInv, Is, Busy
<1>6. ~Connects(o) =>
        /\ tail' \in Seq(Ops) /\ NoneTwice'
        /\ \A p \in Ops : InTail(p)' <=> (InTail(p) /\ p # o)
  BY <1>4, <1>5, LeavesTail DEF ProfileInv, Typed, TurnInv
<1>7. Typed'
  BY <1>1, <1>2, <1>4, <1>6 DEF ProfileInv, Typed, Others, Fades, At
<1>8. WriteInv'
  BY <1>1, <1>4 DEF ProfileInv, WriteInv, Writing, Others, Fades, Is
<1>9. TurnInv'
  <2>1. CASE Connects(o)
    BY <1>4, <2>1 DEF ProfileInv, TurnInv, Others, Fades, Is, Connects, InTail, First, NoneTwice,
                      Busy, Turn
  <2>2. CASE ~Connects(o)
    <3>1. \A p \in Ops : p # o => (Connects(p)' <=> Connects(p))
      BY <1>4 DEF Others, Fades, Connects
    <3>2. \A p \in Ops : p # o => (Is(p, Busy)' <=> Is(p, Busy)) /\ (Is(p, Turn)' <=> Is(p, Turn))
      BY <1>4 DEF Others, Fades, Is
    <3>3. ~Connects(o)' /\ ~Is(o, Busy)' /\ ~Is(o, Turn)'
      BY <1>4, <2>2 DEF Connects, Is, Busy, Turn
    <3>4. \A p \in Ops : p # o => ~First(p)
      BY <1>5, <2>2 DEF First
    <3>. QED  BY <1>4, <1>6, <2>2, <3>1, <3>2, <3>3, <3>4 DEF ProfileInv, TurnInv
  <2>. QED  BY <2>1, <2>2
<1>10. EngineInv' /\ RestartInv'
  BY <1>3, <1>4 DEF EngineInv, RestartInv, Others, Fades, At
<1>11. ConnectInv'
  BY <1>3, <1>4 DEF ConnectInv, Others, Fades, Is, At, Connects
<1>12. EpochInv'
  BY <1>1, <1>3, <1>4 DEF ProfileInv, EpochInv, Others, Fades, Is
<1>13. SelectionInv' /\ OutcomeInv'
  BY <1>1, <1>4 DEF ProfileInv, SelectionInv, OutcomeInv, Others, Fades, Is
<1>14. GoneInv'
  BY <1>3, <1>4 DEF GoneInv, Others, Fades, Is, At
<1>15. ContentsInv'
  <2>1. ASSUME NEW p \in Ops, At(p, "resolve")', ops'[p].ep  PROVE state = "running" /\ p # o
    BY <1>1, <1>3, <1>4, <2>1 DEF ProfileInv, RestartInv, Others, Fades, At
  <2>2. Noticed => Noticed'
    BY <1>4 DEF Noticed, Others, Fades, At, Connects
  <2>. QED  BY <1>1, <1>4, <2>1, <2>2 DEF ProfileInv, ContentsInv, Running, Others, Fades, At, Connects
<1>16. ServeInv'
  BY <1>1 DEF ServeInv
<1>. QED  BY <1>7, <1>8, <1>9, <1>10, <1>11, <1>12, <1>13, <1>14, <1>15, <1>16 DEF ProfileInv

-----------------------------------------------------------------------------
(* What follows an application keeps the invariant                        *)

\* The selection that falls back is in none of the contents that are applied.
LEMMA FallsBackKeeps ==
  ASSUME ProfileInv, NEW o \in Ops, FallsBack(o)
  PROVE  ProfileInv'
<1>. DEFINE s == [settings EXCEPT !.proxy = AutoGroup]
<1>1. /\ state' = state /\ applied' = applied /\ disconnectLock' = disconnectLock /\ sub' = sub
      /\ ops[o] # NoOp /\ ops[o].at = "fallback" /\ At(o, "fallback")
  BY DEF FallsBack, At
<1>2. /\ ops' \in OpMap
      /\ \/ /\ Goes(o, {"fallback"}, "fallbackPatch", {}) /\ ops'[o].asel = ops[o].asel
            /\ ops[o].gone = settings.proxy /\ Running /\ Patches(s, o)
            /\ UNCHANGED <<tail, connectLock, trouble>>
         \/ Finished(o, {"fallback"}, TRUE, {}) /\ UNCHANGED <<storeVars, trouble>>
  BY FallsBackIs DEF ProfileInv
<1>3. CASE Finished(o, {"fallback"}, TRUE, {}) /\ UNCHANGED <<storeVars, trouble>>
  <2>1. Finished(o, {"queued", "resolve", "fallback", "fallbackWait"}, TRUE, {})
    BY <1>3, FinishedIn
  <2>2. Is(o, Busy) /\ ~Wanting(o)
    BY <1>1 DEF Is, Busy, Wanting, At
  <2>. QED  BY <1>1, <1>2, <1>3, <2>1, <2>2, FinishedKeeps
<1>4. CASE /\ Goes(o, {"fallback"}, "fallbackPatch", {}) /\ ops'[o].asel = ops[o].asel
           /\ ops[o].gone = settings.proxy /\ Running /\ Patches(s, o)
           /\ UNCHANGED <<tail, connectLock, trouble>>
  <2>1. s \in Snapshot /\ s.mode = settings.mode /\ s.proxy = AutoGroup
    BY DEF ProfileInv, Typed, Snapshot, Proxies
  <2>. HIDE DEF s
  <2>2. ~Writing(o) /\ o # Nobody
    BY <1>1, DesiredProfileAssumption DEF ProfileInv, WriteInv, Is
  <2>3. /\ writes' \in Seq(Write) /\ writes' # <<>> /\ settings' = s /\ disk' = disk
        /\ writes'[Len(writes')].snap = s
        /\ \A p \in Ops : Writing(p)' <=> (Writing(p) \/ p = o)
        /\ \A i, j \in DOMAIN writes' :
             writes'[i].by = writes'[j].by /\ writes'[i].by \in Ops => i = j
    BY <1>4, <2>1, <2>2, PatchesQueue DEF ProfileInv
  <2>4. /\ tail' = tail /\ connectLock' = connectLock /\ trouble' = trouble /\ state = "running"
        /\ Others(o, {}) /\ ops'[o] # NoOp /\ ops'[o].at = "fallbackPatch"
        /\ ops'[o].kind = ops[o].kind /\ ops'[o].prev = ops[o].prev /\ (ops'[o].ep <=> ops[o].ep)
        /\ ops'[o].asel = ops[o].asel
    BY <1>4 DEF Goes, Running
  <2>5. Typed'
    <3>1. \A p \in Ops : At(p, "resolve")' => At(p, "resolve") /\ ops'[p].want = ops[p].want
      BY <1>1, <2>4 DEF Others, Fades, At
    <3>2. \A p \in Ops : ops'[p] # NoOp => ops[p] # NoOp /\ ops'[p].kind = ops[p].kind /\ ops'[p].prev = ops[p].prev
      BY <1>1, <2>4 DEF Others, Fades
    <3>. QED  BY <1>1, <1>2, <2>1, <2>3, <2>4, <3>1, <3>2 DEF ProfileInv, Typed, At
  <2>6. WriteInv'
    BY <1>1, <2>3, <2>4 DEF ProfileInv, WriteInv, Others, Fades, Is
  <2>7. TurnInv'
    BY <1>1, <2>4 DEF ProfileInv, TurnInv, Others, Fades, Is, Connects, InTail, First, NoneTwice,
                      Busy, Turn
  <2>8. EngineInv' /\ ConnectInv'
    BY <1>1, <2>4 DEF ProfileInv, EngineInv, ConnectInv, Others, Fades, Is, At, Connects
  <2>9. RestartInv' /\ EpochInv' /\ SelectionInv' /\ OutcomeInv' /\ GoneInv'
    BY <1>1, <2>4 DEF ProfileInv, RestartInv, EpochInv, SelectionInv, OutcomeInv, GoneInv, Others,
                      Fades, Is, At
  <2>10. ContentsInv'
    BY <1>1, <2>4 DEF ProfileInv, ContentsInv, Noticed, Running, Others, Fades, At, Connects
  <2>11. ServeInv'
    <3>. SUFFICES ASSUME trouble # "last", ~disconnectLock  PROVE Serves' \/ Follows'
      BY <1>1, <2>4 DEF ServeInv
    <3>1. CASE Follows
      <4>1. PICK p \in Ops : Wanting(p)
        BY <3>1 DEF Follows
      <4>2. p # o
        BY <1>1, <4>1 DEF Wanting, At, Is
      <4>3. Wanting(p)'
        BY <1>1, <2>4, <4>1, <4>2, OthersWant
      <4>. QED  BY <4>3 DEF Follows
    <3>2. CASE Serves
      <4>1. \A p \in Ops : ~At(p, "engine")
        BY <1>1 DEF ProfileInv, EngineInv, Is, At
      <4>2. applied = Present
        BY <3>2, <4>1 DEF Serves
      <4>3. applied.sub = sub
        BY <4>2 DEF Present, Desired
      <4>4. settings.proxy \notin NodesOf[sub]
        <5>1. settings.proxy # Nobody
          BY DesiredProfileAssumption DEF ProfileInv, Typed, Snapshot
        <5>. QED  BY <1>1, <1>4, <4>3, <5>1 DEF ProfileInv, GoneInv
      <4>5. Available(s.proxy, sub) = Available(settings.proxy, sub)
        BY <2>1, <4>4 DEF Available
      <4>6. Present' = Present
        BY <1>1, <2>1, <2>3, <4>5 DEF Present, Desired
      <4>. QED  BY <1>1, <2>4, <4>1, <4>2, <4>6 DEF Serves, Others, Fades, At
    <3>. QED  BY <2>4, <3>1, <3>2 DEF ProfileInv, ServeInv
  <2>. QED  BY <2>5, <2>6, <2>7, <2>8, <2>9, <2>10, <2>11 DEF ProfileInv
<1>. QED  BY <1>2, <1>3, <1>4

LEMMA FallenBackKeeps ==
  ASSUME ProfileInv, NEW o \in Ops, FallenBack(o)
  PROVE  ProfileInv'
<1>. DEFINE T == {"queued", "resolve", "fallback", "fallbackWait"}
<1>1. /\ UNCHANGED <<storeVars, state, applied, disconnectLock, sub>>
      /\ ops[o] # NoOp /\ ops[o].at = "fallbackWait"
  BY DEF FallenBack, At
<1>2. Is(o, Busy) /\ ~Wanting(o)
  BY <1>1 DEF Is, Busy, Wanting, At
<1>3. /\ ops' \in OpMap
      /\ \/ Finished(o, {"fallbackWait"}, FALSE, {}) /\ trouble' = "last"
         \/ Finished(o, {"fallbackWait"}, TRUE, {}) /\ trouble' = trouble
         \/ /\ Finished(o, {"fallbackWait"}, TRUE, {"selection"}) /\ trouble' = trouble
            /\ ops[o].asel
  BY FallenBackIs DEF ProfileInv
<1>4. CASE Finished(o, {"fallbackWait"}, FALSE, {}) /\ trouble' = "last"
  <2>1. Finished(o, T, FALSE, {})
    BY <1>4, FinishedIn
  <2>. QED  BY <1>1, <1>2, <1>3, <1>4, <2>1, FinishedKeeps
<1>5. CASE Finished(o, {"fallbackWait"}, TRUE, {}) /\ trouble' = trouble
  <2>1. Finished(o, T, TRUE, {})
    BY <1>5, FinishedIn
  <2>. QED  BY <1>1, <1>2, <1>3, <1>5, <2>1, FinishedKeeps
<1>6. CASE /\ Finished(o, {"fallbackWait"}, TRUE, {"selection"}) /\ trouble' = trouble
           /\ ops[o].asel
  <2>1. Finished(o, T, TRUE, {"selection"})
    BY <1>6, FinishedIn
  <2>. QED  BY <1>1, <1>2, <1>3, <1>6, <2>1, FinishedKeeps
<1>. QED  BY <1>3, <1>4, <1>5, <1>6

LEMMA DoneKeeps ==
  ASSUME ProfileInv, NEW o \in Ops, Done(o)
  PROVE  ProfileInv'
<1>1. /\ state' = state /\ applied' = applied /\ connectLock' = connectLock
      /\ disconnectLock' = disconnectLock /\ tail' = tail /\ sub' = sub /\ trouble' = trouble
      /\ ops[o] # NoOp /\ ops[o].at = "done"
  BY DEF Done, locks, At
<1>2. /\ ops' \in OpMap
      /\ \/ /\ Goes(o, {"done"}, "restore", {}) /\ (ops'[o].asel => ops[o].asel)
            /\ ~ops[o].ok /\ ops[o].prev \in Proxies
            /\ Patches([settings EXCEPT !.proxy = ops[o].prev], o)
         \/ Ends(o, {"done"}, {}) /\ UNCHANGED storeVars
  BY DoneIs DEF ProfileInv
<1>3. CASE /\ Goes(o, {"done"}, "restore", {}) /\ (ops'[o].asel => ops[o].asel)
           /\ ~ops[o].ok /\ ops[o].prev \in Proxies
           /\ Patches([settings EXCEPT !.proxy = ops[o].prev], o)
  <2>1. trouble = "last"
    BY <1>1, <1>3 DEF ProfileInv, OutcomeInv, At
  <2>2. PICK s \in Snapshot : s = [settings EXCEPT !.proxy = ops[o].prev]
    BY <1>3 DEF ProfileInv, Typed, Snapshot
  <2>3. ~Writing(o)
    BY <1>1 DEF ProfileInv, WriteInv, Is
  <2>4. /\ writes' \in Seq(Write) /\ writes' # <<>> /\ settings' = s /\ disk' = disk
        /\ writes'[Len(writes')].snap = s
        /\ \A p \in Ops : Writing(p)' <=> (Writing(p) \/ p = o)
        /\ \A i, j \in DOMAIN writes' :
             writes'[i].by = writes'[j].by /\ writes'[i].by \in Ops => i = j
    BY <1>3, <2>2, <2>3, PatchesQueue DEF ProfileInv
  <2>5. Typed'
    BY <1>1, <1>2, <1>3, <2>4 DEF ProfileInv, Typed, Goes, Others, Fades, At
  <2>6. WriteInv'
    BY <1>1, <1>3, <2>4 DEF ProfileInv, WriteInv, Goes, Others, Fades, Is
  <2>7. TurnInv'
    BY <1>1, <1>3 DEF ProfileInv, TurnInv, Goes, Others, Fades, Is, Connects, InTail, First, NoneTwice,
                      Busy, Turn
  <2>8. EngineInv' /\ ConnectInv'
    BY <1>1, <1>3 DEF ProfileInv, EngineInv, ConnectInv, Goes, Others, Fades, Is, At, Connects
  <2>9. RestartInv' /\ EpochInv' /\ SelectionInv' /\ OutcomeInv' /\ GoneInv'
    BY <1>1, <1>3 DEF ProfileInv, RestartInv, EpochInv, SelectionInv, OutcomeInv, GoneInv, Goes,
                      Others, Fades, Is, At
  <2>10. ContentsInv'
    BY <1>1, <1>3 DEF ProfileInv, ContentsInv, Noticed, Running, Goes, Others, Fades, At, Connects
  <2>11. ServeInv'
    BY <1>1, <2>1 DEF ServeInv
  <2>. QED  BY <2>5, <2>6, <2>7, <2>8, <2>9, <2>10, <2>11 DEF ProfileInv
<1>4. CASE Ends(o, {"done"}, {}) /\ UNCHANGED storeVars
  <2>1. settings' = settings /\ writes' = writes /\ stored' = stored /\ disk' = disk
    BY <1>4 DEF storeVars
  <2>2. Typed'
    BY <1>1, <1>2, <1>4, <2>1 DEF ProfileInv, Typed, Ends, Others, Fades, At
  <2>3. WriteInv'
    BY <1>1, <1>4, <2>1 DEF ProfileInv, WriteInv, Writing, Ends, Others, Fades, Is
  <2>4. TurnInv'
    BY <1>1, <1>4 DEF ProfileInv, TurnInv, Ends, Others, Fades, Is, Connects, Busy, Turn, InTail,
                      First, NoneTwice
  <2>5. EngineInv' /\ ConnectInv'
    BY <1>1, <1>4 DEF ProfileInv, EngineInv, ConnectInv, Ends, Others, Fades, Is, At, Connects
  <2>6. RestartInv' /\ EpochInv' /\ SelectionInv' /\ OutcomeInv' /\ GoneInv'
    BY <1>1, <1>4 DEF ProfileInv, RestartInv, EpochInv, SelectionInv, OutcomeInv, GoneInv, Ends,
                      Others, Fades, Is, At
  <2>7. ContentsInv'
    BY <1>1, <1>4 DEF ProfileInv, ContentsInv, Noticed, Running, Ends, Others, Fades, At, Connects
  <2>8. ServeInv'
    <3>1. \A p \in Ops : p # o /\ Wanting(p) => Wanting(p)'
      BY <1>1, <1>4, OthersWant DEF Ends
    <3>2. ~Wanting(o)
      BY <1>1 DEF Wanting, At, Is
    <3>3. Present' = Present
      BY <1>1, <2>1 DEF Present
    <3>4. Serves => Serves'
      BY <1>1, <1>4, <3>3 DEF Serves, Ends, Others, Fades, At
    <3>. QED  BY <1>1, <3>1, <3>2, <3>4 DEF ProfileInv, ServeInv, Follows
  <2>. QED  BY <2>2, <2>3, <2>4, <2>5, <2>6, <2>7, <2>8 DEF ProfileInv
<1>. QED  BY <1>2, <1>3, <1>4

-----------------------------------------------------------------------------
(* Engine events and the discovery keep the invariant                     *)

\* The engine is gone; a command at it would have kept it.
LEMMA StopsKeeps ==
  ASSUME ProfileInv, NextEvent, Crashes \/ \E ok \in BOOLEAN : Disconnected(ok)
  PROVE  ProfileInv'
<1>1. /\ settings' = settings /\ writes' = writes /\ stored' = stored /\ disk' = disk
      /\ connectLock' = connectLock /\ ops' = ops /\ tail' = tail /\ sub' = sub /\ trouble' = trouble
      /\ state' \notin {"running", "starting"}
      /\ \A p \in Ops : ~At(p, "engine")
  BY DEF Crashes, Disconnected, storeVars, shown, locks, EngineBusy
<1>2. \A p \in Ops : ~At(p, "fallback")
  BY NextEventIs DEF Is, At
<1>3. Typed' /\ WriteInv'
  BY <1>1 DEF ProfileInv, Typed, WriteInv, Writing, Is, At
<1>4. TurnInv'
  BY <1>1 DEF ProfileInv, TurnInv, Is, Connects, InTail, First, NoneTwice
<1>5. EngineInv' /\ RestartInv' /\ EpochInv' /\ GoneInv'
  BY <1>1, <1>2 DEF EngineInv, RestartInv, EpochInv, GoneInv, Is, At
<1>6. ConnectInv' /\ SelectionInv' /\ OutcomeInv'
  BY <1>1 DEF ProfileInv, ConnectInv, SelectionInv, OutcomeInv, Connects, Is, At
<1>7. ContentsInv'
  BY <1>1 DEF ProfileInv, ContentsInv, Noticed, Running, Connects, At
<1>8. ServeInv'
  BY <1>1 DEF ServeInv
<1>. QED  BY <1>3, <1>4, <1>5, <1>6, <1>7, <1>8 DEF ProfileInv

\* Only what is shown changes, if anything.
LEMMA ShowsKeeps ==
  ASSUME ProfileInv, UNCHANGED <<storeVars, state, applied, locks, ops, tail, sub, trouble>>
  PROVE  ProfileInv'
<1>1. /\ settings' = settings /\ writes' = writes /\ stored' = stored /\ disk' = disk
      /\ state' = state /\ applied' = applied /\ connectLock' = connectLock
      /\ disconnectLock' = disconnectLock /\ ops' = ops /\ tail' = tail /\ sub' = sub
      /\ trouble' = trouble
  BY DEF storeVars, locks
<1>2. Typed' /\ WriteInv'
  BY <1>1 DEF ProfileInv, Typed, WriteInv, Writing, Is, At
<1>3. TurnInv'
  BY <1>1 DEF ProfileInv, TurnInv, Is, Connects, InTail, First, NoneTwice
<1>4. EngineInv' /\ ConnectInv' /\ RestartInv' /\ EpochInv' /\ SelectionInv' /\ OutcomeInv' /\ GoneInv'
  BY <1>1 DEF ProfileInv, EngineInv, ConnectInv, RestartInv, EpochInv, SelectionInv, OutcomeInv, GoneInv,
              Connects, Is, At
<1>5. ContentsInv'
  BY <1>1 DEF ProfileInv, ContentsInv, Noticed, Running, Connects, At
<1>6. ServeInv'
  BY <1>1 DEF ProfileInv, ServeInv, Serves, Present, Follows, Wanting, Connects, At, Is
<1>. QED  BY <1>2, <1>3, <1>4, <1>5, <1>6 DEF ProfileInv

-----------------------------------------------------------------------------
(* The theorem                                                            *)

LEMMA ProfileInvStep ==
  ASSUME ~MayChangeWhileStarting, ProfileInv, [Next]_vars
  PROVE  ProfileInv'
<1>1. ASSUME NEW o \in Ops, Microtask(o)  PROVE ProfileInv'
  BY <1>1, SettingStoredKeeps, ProfileStoredKeeps, FallsBackKeeps, FallenBackKeeps, DoneKeeps
  DEF Microtask
<1>2. ASSUME User  PROVE ProfileInv'
  <2>1. CASE Disconnect
    BY <2>1, DisconnectKeeps
  <2>2. CASE \E p \in Proxies : SelectOffline(p)
    BY <2>2, SelectOfflineKeeps
  <2>3. ASSUME NEW o \in Ops, Connect(o)  PROVE ProfileInv'
    BY <2>3, ConnectKeeps
  <2>4. ASSUME NEW o \in Ops,
               \/ \E m \in Modes : SetMode(o, m)
               \/ \E p \in Proxies : SetProxy(o, p)
               \/ \E s \in Snapshot : ApplyProfile(o, s)
        PROVE  ProfileInv'
    BY <2>4, SettingKeeps
  <2>5. ASSUME NEW o \in Ops, NEW c \in Subs, SubscriptionsChange(o, c)  PROVE ProfileInv'
    BY <2>5, SubscriptionsChangeKeeps
  <2>. QED  BY <1>2, <2>1, <2>2, <2>3, <2>4, <2>5 DEF User
<1>3. ASSUME NextEvent, NEW o \in Ops, Event(o)  PROVE ProfileInv'
  BY <1>3, FetchesKeeps, ResolvesKeeps, RestartsKeeps, SucceedsKeeps, EngineFailsKeeps DEF Event
<1>4. ASSUME NextEvent, Crashes \/ Settles  PROVE ProfileInv'
  <2>1. CASE \E ok \in BOOLEAN : Stored(ok)
    BY <2>1, StoredKeeps
  <2>2. CASE Crashes \/ \E ok \in BOOLEAN : Disconnected(ok)
    BY <1>4, <2>2, StopsKeeps
  <2>3. CASE Answers \/ Arrives \/ NoAnswer
    BY <2>3, ShowsKeeps DEF Answers, Arrives, NoAnswer
  <2>. QED  BY <1>4, <2>1, <2>2, <2>3 DEF Settles
<1>5. CASE UNCHANGED vars
  BY <1>5, ShowsKeeps DEF vars
<1>. QED  BY <1>1, <1>2, <1>3, <1>4, <1>5 DEF Next

\* Nothing under way leaves nothing to be done: the engine has the profile of
\* what is in memory, and that is on disk.
LEMMA QuietRuns == ProfileInv => RunsWhatIsAsked
<1>. SUFFICES ASSUME ProfileInv, Quiet, Running, stored, trouble # "last"
              PROVE  applied = Desired(disk, sub) /\ disk = settings
  BY DEF RunsWhatIsAsked
<1>1. writes = <<>> /\ ~disconnectLock /\ \A o \in Ops : ops[o] = NoOp
  BY DEF Quiet, Active
<1>2. disk = settings
  BY <1>1 DEF ProfileInv, WriteInv
<1>3. ~Follows
  BY <1>1 DEF Follows, Wanting
<1>4. Serves
  BY <1>1, <1>3 DEF ProfileInv, ServeInv, Running
<1>. QED  BY <1>1, <1>2, <1>4 DEF Serves, Present, At

\* "Persist intent before queueing the engine mutation so a concurrent refresh
\* cannot rebuild from a stale observed leaf": for any number of commands,
\* modes, servers and contents, and whatever the order in which writes,
\* applications and engine events interleave, once all has settled a running
\* engine works with the stored settings and the current subscriptions, unless
\* the last application failed; provided that no setting changes while the
\* engine is starting.
THEOREM EngineFollowsSettings ==
  ASSUME ~MayChangeWhileStarting
  PROVE  Spec => []RunsWhatIsAsked
<1>1. ProfileInv /\ [Next]_vars => ProfileInv'
  BY ProfileInvStep
<1>. QED  BY <1>1, ProfileInvInit, QuietRuns, PTL DEF Spec

-----------------------------------------------------------------------------
(* What is shown                                                          *)

Calm == trouble = "none" /\ ~disconnectLock

Back == {"fallback", "fallbackPatch", "fallbackWait"}

\* Nothing else is under way at the engine while it is starting, and no
\* application falls back while another is at the engine.
AloneInv ==
  /\ state = "starting" => \E o \in Ops : At(o, "engine")
  /\ \A o, p \in Ops : At(o, "engine") => ~Is(p, Back)
  /\ \A o, p \in Ops : At(o, "engine") /\ At(p, "done") => Connects(o)
  /\ \A o, p \in Ops : At(o, "engine") /\ state = "starting" => ~Is(p, {"patch", "wait"})

Selects(o) == ops[o] # NoOp /\ ops[o].kind = "proxy" /\ ops[o].sel

\* Two selections on the way: the older one is superseded.
LatestInv ==
  \A o, p \in Ops : Selects(o) /\ Selects(p) => o = p

\* AUTO takes the place of a selection that has gone.
AutoInv ==
  \A o \in Ops :
    /\ At(o, "engine") /\ ops[o].gone # Nobody => ops[o].want.proxy = AutoGroup
    /\ Is(o, Back) /\ ops[o].gone # Nobody /\ Running => applied.proxy = AutoGroup
    /\ Is(o, {"fallbackPatch", "fallbackWait"}) => ops[o].gone # Nobody

\* A selection on its way to be shown ...
Choosing(o) ==
  /\ Selects(o) /\ ops[o].ep
  /\ discovery = NoDiscovery /\ settings.proxy = ops[o].arg
  /\ \/ Is(o, {"patch", "wait", "queued", "resolve"})
     \/ At(o, "engine") /\ ops[o].gone = Nobody /\ ops[o].want.proxy = ops[o].arg
     \/ At(o, "fallback") /\ ops[o].gone = Nobody /\ applied.proxy = ops[o].arg
     \/ At(o, "done") /\ ops[o].ok /\ applied.proxy = ops[o].arg

\* ... an application that will fall back to AUTO and show it ...
Falling(o) ==
  /\ ops[o] # NoOp /\ ops[o].asel /\ ops[o].ep
  /\ \/ At(o, "engine") /\ ops[o].gone = settings.proxy /\ ops[o].want.proxy = AutoGroup
     \/ At(o, "fallback") /\ ops[o].gone = settings.proxy /\ applied.proxy = AutoGroup
     \/ Is(o, {"fallbackPatch", "fallbackWait"}) /\ settings.proxy = AutoGroup /\ applied.proxy = AutoGroup

\* ... a saved profile, which is not shown at once.
Saved(o) == Is(o, {"patch", "wait"}) /\ ops[o].kind = "profile"

Corrects == \E o \in Ops : Choosing(o) \/ Falling(o) \/ Saved(o)

\* What is shown, or is about to be, is what is chosen and used.
Steady ==
  /\ applied.proxy = settings.proxy /\ activeProxy \in {applied.proxy, Nobody}
  /\ discovery.at = "answered" => discovery.now = applied.proxy
  /\ \A o \in Ops : At(o, "engine") => ops[o].want.proxy = settings.proxy

ShownInv ==
  Calm =>
    /\ state = "running" => Steady \/ Corrects
    /\ state = "starting" =>
         /\ activeProxy = Nobody
         /\ \A o \in Ops : At(o, "engine") => ops[o].want.proxy = settings.proxy \/ Falling(o)

\* The mode shown is that of the application at the engine, or of the last
\* one, or a command on its way will show what it applies.
ModeShown ==
  /\ (\A o \in Ops : ~At(o, "engine")) => currentMode = applied.mode
  /\ \A o \in Ops : At(o, "engine") => currentMode = ops[o].want.mode

Reads(o) == Is(o, {"queued", "resolve"}) /\ ~Connects(o) /\ ops[o].ep

ModeInv ==
  Calm =>
    /\ state = "running" => ModeShown \/ \E o \in Ops : Reads(o)
    /\ state = "starting" => ModeShown

DisplayInv == AloneInv /\ LatestInv /\ AutoInv /\ ShownInv /\ ModeInv

LEMMA DisplayInvInit == Init => DisplayInv
<1>. SUFFICES ASSUME Init  PROVE DisplayInv
  OBVIOUS
<1>1. state = "idle" /\ \A o \in Ops : ops[o] = NoOp
  BY DEF Init
<1>. QED  BY <1>1 DEF DisplayInv, AloneInv, LatestInv, AutoInv, ShownInv, ModeInv, Selects, Is, At

\* Commands other than o keep what they are to show.
LEMMA OthersShow ==
  ASSUME NEW o, NEW c, Others(o, c), "epoch" \notin c, "selection" \notin c,
         settings'.proxy = settings.proxy, applied' = applied, discovery' = discovery,
         NEW p \in Ops, p # o
  PROVE  /\ Choosing(p) => Choosing(p)'
         /\ Falling(p) => Falling(p)'
         /\ Saved(p) => Saved(p)'
         /\ Reads(p) => Reads(p)'
<1>1. Fades(ops[p], ops'[p], c)
  BY DEF Others
<1>2. Choosing(p) => Choosing(p)'
  BY <1>1 DEF Fades, Choosing, Selects, Is, At
<1>3. Falling(p) => Falling(p)'
  BY <1>1 DEF Fades, Falling, Is, At
<1>4. Saved(p) => Saved(p)'
  BY <1>1 DEF Fades, Saved, Is
<1>5. Reads(p) => Reads(p)'
  BY <1>1 DEF Fades, Reads, Is, Connects
<1>. QED  BY <1>2, <1>3, <1>4, <1>5

LEMMA ConnectShows ==
  ASSUME ProfileInv, DisplayInv, NEW o \in Ops, Connect(o)
  PROVE  DisplayInv'
<1>1. ops' \in OpMap /\ Begins(o, "connect", "queued", {"epoch"})
  BY CommandsBegin DEF ProfileInv
<1>2. state \notin {"running", "starting"} /\ state' = state /\ applied' = applied
  BY DEF Connect
<1>3. \A p \in Ops : ~At(p, "engine")
  BY <1>2 DEF ProfileInv, EngineInv
<1>4. AloneInv' /\ AutoInv'
  BY <1>1, <1>2, <1>3 DEF DisplayInv, AloneInv, AutoInv, Running, Begins, Others, Fades, Is, At
<1>5. LatestInv'
  BY <1>1 DEF DisplayInv, LatestInv, Selects, Begins, Others, Fades
<1>6. ShownInv' /\ ModeInv'
  BY <1>2 DEF ShownInv, ModeInv
<1>. QED  BY <1>4, <1>5, <1>6 DEF DisplayInv

\* A command that changes a setting.
LEMMA ChangeShows ==
  ASSUME ProfileInv, DisplayInv, NEW o \in Ops, NEW k \in {"mode", "proxy", "profile"}, NEW c,
         Begins(o, k, "patch", c), "epoch" \notin c, state # "starting",
         k = "proxy" => "selection" \in c,
         UNCHANGED <<state, applied, currentMode, activeProxy, disconnectLock, trouble>>,
         k = "mode" => /\ "selection" \notin c /\ discovery' = discovery
                       /\ settings'.proxy = settings.proxy,
         k = "proxy" => discovery' = NoDiscovery /\ settings'.proxy = ops'[o].arg
  PROVE  DisplayInv'
<1>1. /\ state' = state /\ applied' = applied /\ currentMode' = currentMode
      /\ activeProxy' = activeProxy /\ disconnectLock' = disconnectLock /\ trouble' = trouble
  OBVIOUS
<1>2. AloneInv'
  BY <1>1 DEF DisplayInv, AloneInv, Begins, Others, Fades, Is, At, Connects, Back
<1>3. LatestInv'
  BY DEF DisplayInv, LatestInv, Selects, Begins, Others, Fades
<1>4. AutoInv'
  BY <1>1 DEF DisplayInv, AutoInv, Running, Begins, Others, Fades, Is, At, Back
<1>5. ShownInv'
  <2>1. CASE k = "proxy"
    <3>1. Choosing(o)'
      BY <2>1 DEF Begins, Choosing, Selects, Is
    <3>. QED  BY <1>1, <3>1 DEF ShownInv, Corrects
  <2>2. CASE k = "profile"
    <3>1. Saved(o)'
      BY <2>2 DEF Begins, Saved, Is
    <3>. QED  BY <1>1, <3>1 DEF ShownInv, Corrects
  <2>3. CASE k = "mode"
    <3>1. /\ discovery' = discovery /\ settings'.proxy = settings.proxy /\ Others(o, c)
          /\ "selection" \notin c
      BY <2>3 DEF Begins
    <3>2. Corrects => Corrects'
      <4>1. ~Choosing(o) /\ ~Falling(o) /\ ~Saved(o)
        BY DEF Begins, Choosing, Selects, Falling, Saved, Is
      <4>. QED  BY <1>1, <3>1, <4>1, OthersShow DEF Corrects
    <3>3. Steady => Steady'
      BY <1>1, <3>1 DEF Steady, Begins, Others, Fades, At
    <3>. QED  BY <1>1, <3>2, <3>3 DEF DisplayInv, ShownInv, Calm
  <2>. QED  BY <2>1, <2>2, <2>3
<1>6. ModeInv'
  <2>1. ModeShown => ModeShown'
    BY <1>1 DEF ModeShown, Begins, Others, Fades, At
  <2>2. \A p \in Ops : Reads(p) => Reads(p)'
    BY DEF Reads, Is, Connects, Begins, Others, Fades
  <2>. QED  BY <1>1, <2>1, <2>2 DEF DisplayInv, ModeInv, Calm
<1>. QED  BY <1>2, <1>3, <1>4, <1>5, <1>6 DEF DisplayInv

LEMMA SettingShows ==
  ASSUME ProfileInv, DisplayInv, ~MayChangeWhileStarting, NEW o \in Ops,
         \/ \E m \in Modes : SetMode(o, m)
         \/ \E p \in Proxies : SetProxy(o, p)
         \/ \E s \in Snapshot : ApplyProfile(o, s)
  PROVE  DisplayInv'
<1>0. settings \in Snapshot /\ Typed
  BY DEF ProfileInv, Typed
<1>1. ASSUME NEW m \in Modes, SetMode(o, m)  PROVE DisplayInv'
  <2>1. Begins(o, "mode", "patch", {"mode"})
    BY <1>0, <1>1, CommandsBegin
  <2>2. settings'.proxy = settings.proxy
    BY <1>0, <1>1 DEF SetMode, Patches, Snapshot
  <2>3. /\ state # "starting" /\ discovery' = discovery
        /\ UNCHANGED <<state, applied, currentMode, activeProxy, disconnectLock, trouble>>
    BY <1>1 DEF SetMode, Settled, locks, shown
  <2>. QED  BY <2>1, <2>2, <2>3, ChangeShows
<1>2. ASSUME NEW p \in Proxies, SetProxy(o, p)  PROVE DisplayInv'
  <2>1. Begins(o, "proxy", "patch", {"selection"}) /\ ops'[o].arg = p
    BY <1>0, <1>2, CommandsBegin
  <2>2. settings'.proxy = p
    BY <1>0, <1>2 DEF SetProxy, Patches, Snapshot
  <2>3. /\ state # "starting" /\ discovery' = NoDiscovery
        /\ UNCHANGED <<state, applied, currentMode, activeProxy, disconnectLock, trouble>>
    BY <1>2 DEF SetProxy, Running, locks, Forgets
  <2>. QED  BY <2>1, <2>2, <2>3, ChangeShows
<1>3. ASSUME NEW s \in Snapshot, ApplyProfile(o, s)  PROVE DisplayInv'
  <2>1. Begins(o, "profile", "patch", {})
    BY <1>0, <1>3, CommandsBegin
  <2>2. /\ state # "starting"
        /\ UNCHANGED <<state, applied, currentMode, activeProxy, disconnectLock, trouble>>
    BY <1>3 DEF ApplyProfile, Settled, locks, shown
  <2>. QED  BY <2>1, <2>2, ChangeShows
<1>. QED  BY <1>1, <1>2, <1>3

LEMMA DisconnectShows ==
  ASSUME ProfileInv, DisplayInv, Disconnect
  PROVE  DisplayInv'
<1>1. \A p \in Ops : Fades(ops[p], ops'[p], {"epoch"})
  BY OutdatedFades DEF Disconnect, ProfileInv, Typed, FadesAll
<1>2. /\ disconnectLock' = TRUE /\ applied' = applied
      /\ state' = state \/ (state' = "stopping" /\ \A o \in Ops : ~At(o, "engine"))
  BY DEF Disconnect, EngineBusy
<1>3. AloneInv'
  BY <1>1, <1>2 DEF DisplayInv, AloneInv, Fades, Is, At, Connects
<1>4. LatestInv'
  BY <1>1 DEF DisplayInv, LatestInv, Selects, Fades
<1>5. AutoInv'
  BY <1>1, <1>2 DEF DisplayInv, AutoInv, Running, Fades, Is, At
<1>6. ShownInv' /\ ModeInv'
  BY <1>2 DEF ShownInv, ModeInv, Calm
<1>. QED  BY <1>3, <1>4, <1>5, <1>6 DEF DisplayInv

\* The tray selects a server, or the contents change: nothing runs, or nothing
\* of what is shown depends on it.
LEMMA SelectOfflineShows ==
  ASSUME ProfileInv, DisplayInv, ~MayChangeWhileStarting, NEW p \in Proxies, SelectOffline(p)
  PROVE  DisplayInv'
<1>1. /\ state \notin {"running", "starting"} /\ state' = state /\ ops' = ops
      /\ \A o \in Ops : ops[o] = NoOp
  BY DEF SelectOffline, Running, Settled, Active
<1>. QED  BY <1>1 DEF DisplayInv, AloneInv, LatestInv, AutoInv, ShownInv, ModeInv, Selects, Is, At

LEMMA SubscriptionsChangeShows ==
  ASSUME ProfileInv, DisplayInv, NEW o \in Ops, NEW c \in Subs, SubscriptionsChange(o, c)
  PROVE  DisplayInv'
<1>1. /\ settings' = settings /\ state' = state /\ applied' = applied /\ currentMode' = currentMode
      /\ activeProxy' = activeProxy /\ discovery' = discovery
      /\ disconnectLock' = disconnectLock /\ trouble' = trouble /\ ops[o] = NoOp
  BY DEF SubscriptionsChange, Given, storeVars, shown, locks
<1>2. CASE Running
  <2>1. Begins(o, "notify", "queued", {})
    BY <1>2, CommandsBegin DEF ProfileInv
  <2>2. AloneInv'
    BY <1>1, <2>1 DEF DisplayInv, AloneInv, Begins, Others, Fades, Is, At, Connects, Back
  <2>3. LatestInv'
    BY <2>1 DEF DisplayInv, LatestInv, Selects, Begins, Others, Fades
  <2>4. AutoInv'
    BY <1>1, <2>1 DEF DisplayInv, AutoInv, Running, Begins, Others, Fades, Is, At, Back
  <2>5. Others(o, {}) /\ ~Choosing(o) /\ ~Falling(o) /\ ~Saved(o) /\ ~Reads(o)
    BY <1>1, <2>1 DEF Begins, Choosing, Selects, Falling, Saved, Reads, Is
  <2>6. Corrects => Corrects'
    BY <1>1, <2>5, OthersShow DEF Corrects
  <2>7. Steady => Steady'
    BY <1>1, <2>1 DEF Steady, Begins, Others, Fades, At
  <2>8. ShownInv'
    BY <1>1, <1>2, <2>6, <2>7 DEF DisplayInv, ShownInv, Calm, Running
  <2>9. ModeShown => ModeShown'
    BY <1>1, <2>1 DEF ModeShown, Begins, Others, Fades, At
  <2>10. \A p \in Ops : Reads(p) => Reads(p)'
    BY <1>1, <2>5, OthersShow
  <2>11. ModeInv'
    BY <1>1, <2>9, <2>10 DEF DisplayInv, ModeInv, Calm
  <2>. QED  BY <2>2, <2>3, <2>4, <2>8, <2>11 DEF DisplayInv
<1>3. CASE ~Running
  <2>1. ops' = ops /\ state # "running"
    BY <1>3 DEF SubscriptionsChange, Running
  <2>2. AloneInv' /\ LatestInv' /\ AutoInv'
    BY <1>1, <2>1 DEF DisplayInv, AloneInv, LatestInv, AutoInv, Selects, Running, Is, At, Connects
  <2>3. ShownInv'
    BY <1>1, <2>1 DEF DisplayInv, ShownInv, Calm, Falling, Is, At
  <2>4. ModeInv'
    BY <1>1, <2>1 DEF DisplayInv, ModeInv, ModeShown, Calm, At
  <2>. QED  BY <2>2, <2>3, <2>4 DEF DisplayInv
<1>. QED  BY <1>2, <1>3

LEMMA StoredShows ==
  ASSUME ProfileInv, DisplayInv, NEW ok \in BOOLEAN, Stored(ok)
  PROVE  DisplayInv'
<1>1. /\ settings' = settings /\ state' = state /\ applied' = applied /\ currentMode' = currentMode
      /\ activeProxy' = activeProxy /\ discovery' = discovery /\ disconnectLock' = disconnectLock
      /\ WriteSettles(ok)
  BY DEF Stored, WriteSettles, locks, shown
<1>2. PICK b : b = Head(writes).by
  OBVIOUS
<1>3. b \in Ops \union {Nobody} /\ (b \in Ops => Writing(b))
  BY <1>1, <1>2, WriteLeaves DEF ProfileInv
<1>4. CASE b \in Ops
  <2>1. Is(b, {"patch", "fallbackPatch", "restore"})
    BY <1>3, <1>4 DEF ProfileInv, WriteInv
  <2>2. WriteSettled(b)
    BY <1>2, <1>4, <2>1, StoredIs DEF ProfileInv
  <2>3. /\ Others(b, {})
        /\ trouble' = trouble \/ trouble' = "last"
        /\ ops'[b] # NoOp =>
             /\ ops[b] # NoOp /\ ops'[b].kind = ops[b].kind /\ ops'[b].arg = ops[b].arg
             /\ ops'[b].ep <=> ops[b].ep
             /\ ops'[b].sel <=> ops[b].sel
             /\ ops'[b].asel = ops[b].asel /\ ops'[b].gone = ops[b].gone
             /\ \/ ops[b].at = "patch" /\ ops'[b].at = "wait"
                \/ ops[b].at = "fallbackPatch" /\ ops'[b].at = "fallbackWait"
        /\ ops'[b] = NoOp => ops[b].at = "restore" \/ (ops[b].at = "patch" /\ trouble' = "last")
    BY <2>2 DEF WriteSettled, Goes, Ends
  <2>4. AloneInv'
    BY <1>1, <1>4, <2>1, <2>3 DEF DisplayInv, AloneInv, Others, Fades, Is, At, Connects, Back
  <2>5. LatestInv'
    BY <2>1, <2>3 DEF DisplayInv, LatestInv, Selects, Others, Fades
  <2>6. AutoInv'
    BY <1>1, <1>4, <2>1, <2>3 DEF DisplayInv, AutoInv, Running, Others, Fades, Is, At, Back
  <2>7. trouble' # "last" => trouble' = trouble /\ (Corrects => Corrects')
    <3>. SUFFICES ASSUME trouble' # "last"  PROVE Corrects => Corrects'
      BY <2>3
    <3>1. Choosing(b) => Choosing(b)'
      BY <1>1, <2>1, <2>3 DEF Choosing, Selects, Is, At
    <3>2. Falling(b) => Falling(b)'
      BY <1>1, <2>1, <2>3 DEF Falling, Is, At
    <3>3. Saved(b) => Saved(b)'
      BY <2>1, <2>3 DEF Saved, Is
    <3>4. \A p \in Ops : p # b =>
            (Choosing(p) => Choosing(p)') /\ (Falling(p) => Falling(p)') /\ (Saved(p) => Saved(p)')
      BY <1>1, <2>3, OthersShow
    <3>. QED  BY <1>4, <3>1, <3>2, <3>3, <3>4 DEF Corrects
  <2>8. Steady => Steady'
    BY <1>1, <2>1, <2>3 DEF Steady, Others, Fades, Is, At
  <2>9. \A p \in Ops : At(p, "engine")' => p # b /\ At(p, "engine") /\ ops'[p].want = ops[p].want
    BY <2>1, <2>3 DEF Others, Fades, Is, At
  <2>10. ShownInv'
    <3>1. \A p \in Ops : p # b /\ Falling(p) => Falling(p)'
      BY <1>1, <2>3, OthersShow
    <3>. QED  BY <1>1, <2>3, <2>7, <2>8, <2>9, <3>1 DEF DisplayInv, ShownInv, Calm
  <2>11. ModeInv'
    <3>1. \A p \in Ops : Reads(p) => Reads(p)'
      BY <2>1, <2>3 DEF Reads, Is, Connects, Others, Fades
    <3>2. \A p \in Ops : At(p, "engine") => At(p, "engine")'
      BY <2>1, <2>3 DEF Others, Fades, Is, At
    <3>3. ModeShown => ModeShown'
      BY <1>1, <2>9, <3>2 DEF ModeShown
    <3>. QED  BY <1>1, <2>3, <3>1, <3>3 DEF DisplayInv, ModeInv, Calm
  <2>. QED  BY <2>4, <2>5, <2>6, <2>10, <2>11 DEF DisplayInv
<1>5. CASE b = Nobody
  <2>1. ops' = ops /\ trouble' = trouble
    BY <1>2, <1>5, DesiredProfileAssumption DEF Stored
  <2>2. AloneInv' /\ LatestInv' /\ AutoInv'
    BY <1>1, <2>1 DEF DisplayInv, AloneInv, LatestInv, AutoInv, Selects, Running, Is, At, Connects
  <2>3. ShownInv'
    BY <1>1, <2>1 DEF DisplayInv, ShownInv, Calm, Steady, Corrects, Choosing, Falling, Saved, Selects, Is, At
  <2>4. ModeInv'
    BY <1>1, <2>1 DEF DisplayInv, ModeInv, ModeShown, Reads, Calm, Is, At, Connects
  <2>. QED  BY <2>2, <2>3, <2>4 DEF DisplayInv
<1>. QED  BY <1>3, <1>4, <1>5

LEMMA SettingStoredShows ==
  ASSUME ProfileInv, DisplayInv, NEW o \in Ops, ModeStored(o) \/ ProxyStored(o)
  PROVE  DisplayInv'
<1>1. SettingStored(o) /\ ops[o].kind \in {"mode", "proxy"}
  BY SettingStoredIs DEF ProfileInv
<1>2. /\ settings' = settings /\ state' = state /\ applied' = applied /\ activeProxy' = activeProxy
      /\ discovery' = discovery /\ disconnectLock' = disconnectLock
  BY DEF ModeStored, ProxyStored, storeVars, locks, shown
<1>3. /\ ops[o] # NoOp /\ ops[o].at = "wait" /\ Others(o, {})
      /\ trouble' = trouble \/ trouble' = "last"
      /\ ops'[o] # NoOp =>
           /\ ops'[o].at = "queued" /\ ops'[o].kind = ops[o].kind /\ ops'[o].arg = ops[o].arg
           /\ (ops'[o].ep <=> ops[o].ep) /\ (ops'[o].sel <=> ops[o].sel) /\ ops[o].ep
      /\ ops'[o] = NoOp => trouble' = "last" \/ ~Running \/ ~ops[o].ep
                           \/ ops[o].kind = "mode" \/ ~ops[o].sel
  BY <1>1 DEF SettingStored, Goes, Ends
<1>4. state # "starting"
  BY <1>3 DEF DisplayInv, AloneInv, Is
<1>5. currentMode' = currentMode \/ ~Running \/ ops'[o] # NoOp
  <2>1. CASE ProxyStored(o)
    BY <2>1 DEF ProxyStored, shown
  <2>2. CASE ModeStored(o) /\ currentMode' # currentMode /\ Running
    <3>1. ops' = [ops EXCEPT ![o].at = "queued"]
      BY <2>2 DEF ModeStored, Queues
    <3>2. ops \in OpMap /\ "queued" \in Phase
      BY DEF ProfileInv, Typed, Phase
    <3>3. Goes(o, {"wait"}, "queued", {})
      BY <1>3, <3>1, <3>2, GoesOn
    <3>. QED  BY <3>3 DEF Goes
  <2>. QED  BY <2>1, <2>2
<1>6. AloneInv'
  BY <1>2, <1>3 DEF DisplayInv, AloneInv, Others, Fades, Is, At, Connects, Back
<1>7. LatestInv'
  BY <1>3 DEF DisplayInv, LatestInv, Selects, Others, Fades
<1>8. AutoInv'
  BY <1>2, <1>3 DEF DisplayInv, AutoInv, Running, Others, Fades, Is, At, Back
<1>9. ShownInv'
  <2>. SUFFICES ASSUME trouble' # "last", state = "running"  PROVE ShownInv'
    BY <1>2, <1>4 DEF ShownInv, Calm
  <2>1. Choosing(o) => Choosing(o)'
    BY <1>2, <1>3 DEF Choosing, Selects, Running, Is, At
  <2>2. ~Falling(o) /\ ~Saved(o)
    BY <1>1, <1>3 DEF Falling, Saved, Is, At
  <2>3. \A p \in Ops : p # o =>
          (Choosing(p) => Choosing(p)') /\ (Falling(p) => Falling(p)') /\ (Saved(p) => Saved(p)')
    BY <1>2, <1>3, OthersShow
  <2>4. Corrects => Corrects'
    BY <2>1, <2>2, <2>3 DEF Corrects
  <2>5. Steady => Steady'
    BY <1>2, <1>3 DEF Steady, Others, Fades, At
  <2>. QED  BY <1>2, <1>3, <2>4, <2>5 DEF DisplayInv, ShownInv, Calm
<1>10. ModeInv'
  <2>. SUFFICES ASSUME trouble' # "last", state = "running"  PROVE ModeInv'
    BY <1>2, <1>4 DEF ModeInv, Calm
  <2>1. CASE ops'[o] # NoOp
    <3>1. Reads(o)'
      BY <1>1, <1>3, <2>1 DEF Reads, Is, Connects
    <3>. QED  BY <1>2, <3>1 DEF ModeInv
  <2>2. CASE ops'[o] = NoOp
    <3>1. currentMode' = currentMode
      BY <1>5, <2>2 DEF Running
    <3>2. ModeShown => ModeShown'
      BY <1>2, <1>3, <2>2, <3>1 DEF ModeShown, Others, Fades, At
    <3>3. \A p \in Ops : Reads(p) => Reads(p)'
      BY <1>3 DEF Reads, Is, Connects, Others, Fades
    <3>. QED  BY <1>2, <1>3, <3>2, <3>3 DEF DisplayInv, ModeInv, Calm
  <2>. QED  BY <2>1, <2>2
<1>. QED  BY <1>6, <1>7, <1>8, <1>9, <1>10 DEF DisplayInv

\* A saved profile is no longer excused once it is stored.
LEMMA ProfileStoredShows ==
  ASSUME ProfileInv, DisplayInv, NEW o \in Ops, ProfileStored(o)
  PROVE  DisplayInv'
<1>1. ProfileJoins(o)
  BY ProfileStoredIs DEF ProfileInv
<1>2. /\ state' = state /\ applied' = applied /\ disconnectLock' = disconnectLock
      /\ trouble' # "none" /\ ops[o].kind = "profile"
  BY DEF ProfileStored, locks
<1>3. /\ ops[o] # NoOp /\ ops[o].at = "wait" /\ Others(o, {"selection", "mode"})
      /\ ops'[o] # NoOp => ops'[o].at = "queued" /\ ops'[o].kind = ops[o].kind
  BY <1>1 DEF ProfileJoins, Goes, Ends
<1>4. AloneInv'
  BY <1>2, <1>3 DEF DisplayInv, AloneInv, Others, Fades, Is, At, Connects, Back
<1>5. LatestInv'
  BY <1>2, <1>3 DEF DisplayInv, LatestInv, Selects, Others, Fades
<1>6. AutoInv'
  BY <1>2, <1>3 DEF DisplayInv, AutoInv, Running, Others, Fades, Is, At, Back
<1>7. ShownInv' /\ ModeInv'
  BY <1>2 DEF ShownInv, ModeInv, Calm
<1>. QED  BY <1>4, <1>5, <1>6, <1>7 DEF DisplayInv

-----------------------------------------------------------------------------
(* Applications show what they apply                                      *)

\* An application ends: the commands in the chain keep their turns.
LEMMA FinishedAlone ==
  ASSUME ProfileInv, DisplayInv, NEW o \in Ops, NEW ok, NEW c, NEW S, Finished(o, S, ok, c),
         ItsTurn(o) \/ Is(o, Busy),
         state' = state \/ (state' # "starting" /\ At(o, "engine")),
         state' = "starting" => ~At(o, "engine"),
         Running' => (Running /\ applied' = applied) \/ At(o, "engine")
  PROVE  AloneInv' /\ LatestInv' /\ AutoInv'
<1>1. /\ ops[o] # NoOp /\ Others(o, c)
      /\ Connects(o) => ops'[o] = NoOp
      /\ ~Connects(o) =>
           /\ ops'[o] # NoOp /\ ops'[o].at = "done" /\ ops'[o].kind = ops[o].kind
           /\ (ops'[o].sel => ops[o].sel)
  BY DEF Finished, Goes, Ends, Connects
<1>2. \A p \in Ops : At(p, "engine")' => p # o /\ At(p, "engine") /\ (Connects(p)' <=> Connects(p))
  BY <1>1 DEF Others, Fades, At, Connects
<1>3. \A p \in Ops : Is(p, Back)' => p # o /\ Is(p, Back)
  BY <1>1 DEF Others, Fades, Is, Back
<1>4. ASSUME NEW p \in Ops, NEW q \in Ops, At(p, "engine")', At(q, "done")'
      PROVE  Connects(p)'
  <2>1. CASE q # o
    <3>1. At(q, "done")
      BY <1>1, <1>4, <2>1 DEF Others, Fades, At
    <3>. QED  BY <1>2, <1>4, <3>1 DEF DisplayInv, AloneInv
  <2>2. CASE q = o
    <3>1. ~Connects(o)
      BY <1>1, <1>4, <2>2 DEF At
    <3>2. First(o)
      BY <1>1, <3>1 DEF ItsTurn, First, Connects, ProfileInv, TurnInv
    <3>3. p # o /\ At(p, "engine") /\ (Connects(p)' <=> Connects(p))
      BY <1>2, <1>4
    <3>4. ~First(p)
      BY <3>2, <3>3 DEF First
    <3>. QED  BY <3>3, <3>4 DEF ProfileInv, TurnInv, Is, At, Busy
  <2>. QED  BY <2>1, <2>2
<1>5. \A p \in Ops : Is(p, {"patch", "wait"})' => Is(p, {"patch", "wait"})
  BY <1>1 DEF Others, Fades, Is
<1>6. state' = "starting" => \E p \in Ops : At(p, "engine")'
  <2>. SUFFICES ASSUME state' = "starting"  PROVE \E p \in Ops : At(p, "engine")'
    OBVIOUS
  <2>1. PICK p \in Ops : At(p, "engine")
    BY DEF DisplayInv, AloneInv
  <2>2. p # o
    BY <2>1
  <2>. QED  BY <1>1, <2>1, <2>2 DEF Others, Fades, At
<1>7. AloneInv'
  <2>1. \A p, q \in Ops : At(p, "engine")' => ~Is(q, Back)'
    BY <1>2, <1>3 DEF DisplayInv, AloneInv
  <2>2. \A p, q \in Ops : At(p, "engine")' /\ state' = "starting" => ~Is(q, {"patch", "wait"})'
    BY <1>2, <1>5 DEF DisplayInv, AloneInv
  <2>. QED  BY <1>4, <1>6, <2>1, <2>2 DEF AloneInv
<1>8. LatestInv'
  BY <1>1 DEF DisplayInv, LatestInv, Selects, Others, Fades, Connects
<1>9. AutoInv'
  <2>1. ASSUME NEW p \in Ops, At(p, "engine")' \/ Is(p, Back)'
        PROVE  /\ p # o /\ ops'[p].gone = ops[p].gone /\ ops'[p].want = ops[p].want
               /\ ops'[p].at = ops[p].at /\ ops[p] # NoOp
    BY <1>1, <1>2, <1>3, <2>1 DEF Others, Fades, Is, At
  <2>2. ASSUME NEW p \in Ops, Is(p, Back)', ops'[p].gone # Nobody, Running'
        PROVE  applied'.proxy = AutoGroup
    <3>1. Is(p, Back) /\ ops[p].gone # Nobody
      BY <1>3, <2>1, <2>2
    <3>2. ~At(o, "engine")
      BY <3>1 DEF DisplayInv, AloneInv
    <3>. QED  BY <2>2, <3>1, <3>2 DEF DisplayInv, AutoInv
  <2>. QED  BY <1>2, <1>3, <2>1, <2>2 DEF DisplayInv, AutoInv, Is, At, Back
<1>. QED  BY <1>7, <1>8, <1>9

\* An application that fails or is superseded before the engine is asked.
LEMMA GivesShows ==
  ASSUME ProfileInv, DisplayInv, NEW o \in Ops, NEW S, S \subseteq {"queued", "resolve"},
         Gives(o, S), ItsTurn(o) \/ Is(o, Busy),
         UNCHANGED <<storeVars, state, applied, shown, disconnectLock>>
  PROVE  DisplayInv'
<1>1. /\ settings' = settings /\ state' = state /\ applied' = applied /\ currentMode' = currentMode
      /\ activeProxy' = activeProxy /\ discovery' = discovery /\ disconnectLock' = disconnectLock
  BY DEF storeVars, shown
<1>2. PICK ok \in BOOLEAN : Finished(o, S, ok, {})
  BY DEF Gives
<1>3. /\ ops[o] # NoOp /\ ops[o].at \in {"queued", "resolve"} /\ Others(o, {})
      /\ ops'[o] = NoOp \/ ops'[o].at = "done"
  BY <1>2 DEF Finished, Goes, Ends
<1>4. trouble' # "last" => trouble' = trouble /\ ~Wanted(o)
  BY DEF Gives
<1>5. AloneInv' /\ LatestInv' /\ AutoInv'
  BY <1>1, <1>2, <1>3, FinishedAlone DEF At, Running
<1>6. \A p \in Ops : /\ At(p, "engine") <=> At(p, "engine")'
                     /\ At(p, "engine") => ops'[p].want = ops[p].want
  BY <1>3 DEF Others, Fades, At
<1>7. \A p \in Ops : p # o =>
        /\ Choosing(p) => Choosing(p)'
        /\ Falling(p) => Falling(p)'
        /\ Saved(p) => Saved(p)'
        /\ Reads(p) => Reads(p)'
  BY <1>1, <1>3, OthersShow
<1>8. ~Falling(o) /\ ~Saved(o)
  BY <1>3 DEF Falling, Saved, Is, At
<1>9. ~Wanted(o) /\ state = "running" => ~Choosing(o) /\ ~Reads(o)
  BY <1>3 DEF ProfileInv, ConnectInv, Wanted, Choosing, Selects, Reads, Running, Connects, Is
<1>10. Steady => Steady'
  BY <1>1, <1>6 DEF Steady
<1>11. ModeShown => ModeShown'
  BY <1>1, <1>6 DEF ModeShown
<1>12. ShownInv'
  <2>. SUFFICES ASSUME trouble' # "last"  PROVE ShownInv'
    BY DEF ShownInv, Calm
  <2>1. state = "running" /\ Corrects => Corrects'
    BY <1>4, <1>7, <1>8, <1>9 DEF Corrects
  <2>2. \A p \in Ops : Falling(p) => Falling(p)'
    BY <1>7, <1>8
  <2>. QED  BY <1>1, <1>4, <1>6, <1>10, <2>1, <2>2 DEF DisplayInv, ShownInv, Calm
<1>13. ModeInv'
  <2>. SUFFICES ASSUME trouble' # "last"  PROVE ModeInv'
    BY DEF ModeInv, Calm
  <2>. QED  BY <1>1, <1>4, <1>7, <1>9, <1>11 DEF DisplayInv, ModeInv, Calm
<1>. QED  BY <1>5, <1>12, <1>13 DEF DisplayInv

LEMMA FetchesShows ==
  ASSUME ProfileInv, DisplayInv, NEW o \in Ops, Fetches(o)
  PROVE  DisplayInv'
<1>1. /\ settings' = settings /\ state' = state /\ applied' = applied /\ currentMode' = currentMode
      /\ activeProxy' = activeProxy /\ discovery' = discovery /\ disconnectLock' = disconnectLock
      /\ storeVars' = storeVars /\ ItsTurn(o)
  BY DEF Fetches, storeVars, shown
<1>2. Fetched(o) \/ Gives(o, {"queued"})
  BY FetchesIs DEF ProfileInv
<1>3. CASE Gives(o, {"queued"})
  BY <1>1, <1>3, GivesShows DEF shown
<1>4. CASE Fetched(o)
  <2>1. /\ ops[o] # NoOp /\ ops[o].at = "queued" /\ Others(o, {}) /\ trouble' = trouble
        /\ ops'[o] # NoOp /\ ops'[o].at = "resolve" /\ ops'[o].kind = ops[o].kind
        /\ ops'[o].arg = ops[o].arg
        /\ (ops'[o].ep <=> ops[o].ep) /\ (ops'[o].sel <=> ops[o].sel)
    BY <1>4 DEF Fetched, Goes
  <2>2. AloneInv'
    BY <1>1, <2>1 DEF DisplayInv, AloneInv, Others, Fades, Is, At, Connects, Back
  <2>3. LatestInv'
    BY <2>1 DEF DisplayInv, LatestInv, Selects, Others, Fades
  <2>4. AutoInv'
    BY <1>1, <2>1 DEF DisplayInv, AutoInv, Running, Others, Fades, Is, At, Back
  <2>5. \A p \in Ops : p # o =>
          /\ Choosing(p) => Choosing(p)'
          /\ Falling(p) => Falling(p)'
          /\ Saved(p) => Saved(p)'
          /\ Reads(p) => Reads(p)'
    BY <1>1, <2>1, OthersShow
  <2>6. /\ Choosing(o) => Choosing(o)'
        /\ ~Falling(o) /\ ~Saved(o)
        /\ Reads(o) => Reads(o)'
    BY <1>1, <2>1 DEF Choosing, Selects, Falling, Saved, Reads, Is, At, Connects
  <2>7. \A p \in Ops : /\ At(p, "engine") <=> At(p, "engine")'
                       /\ At(p, "engine") => ops'[p].want = ops[p].want
    BY <2>1 DEF Others, Fades, At
  <2>8. (Steady => Steady') /\ (ModeShown => ModeShown')
    BY <1>1, <2>7 DEF Steady, ModeShown
  <2>9. ShownInv'
    <3>1. Corrects => Corrects'
      BY <2>5, <2>6 DEF Corrects
    <3>. QED  BY <1>1, <2>1, <2>5, <2>6, <2>7, <2>8, <3>1 DEF DisplayInv, ShownInv, Calm
  <2>10. ModeInv'
    BY <1>1, <2>1, <2>5, <2>6, <2>8 DEF DisplayInv, ModeInv, Calm
  <2>. QED  BY <2>2, <2>3, <2>4, <2>9, <2>10 DEF DisplayInv
<1>. QED  BY <1>2, <1>3, <1>4

\* What is asked of the engine is what is chosen, or AUTO for a server gone.
LEMMA ResolvesShows ==
  ASSUME ProfileInv, DisplayInv, NextEvent, NEW o \in Ops, Resolves(o)
  PROVE  DisplayInv'
<1>1. /\ settings' = settings /\ applied' = applied
      /\ activeProxy' = activeProxy /\ discovery' = discovery /\ disconnectLock' = disconnectLock
      /\ storeVars' = storeVars /\ writes = <<>> /\ Is(o, Busy)
  BY DEF Resolves, storeVars, Persisted, Is, At, Busy
<1>2. Asked(o) \/ (Gives(o, {"resolve"}) /\ UNCHANGED <<state, currentMode>>)
  BY ResolvesIs DEF ProfileInv
<1>3. CASE Gives(o, {"resolve"}) /\ UNCHANGED <<state, currentMode>>
  BY <1>1, <1>3, GivesShows DEF shown
<1>4. CASE Asked(o)
  <2>. DEFINE want == Desired(disk, ops[o].want.sub)
  <2>1. /\ stored /\ ops[o].ep /\ (Connects(o) \/ state = "running")
        /\ Goes(o, {"resolve"}, "engine", {}) /\ ops'[o].want = want /\ ops'[o].asel = TRUE
        /\ ops'[o].gone = IF want.proxy = disk.proxy THEN Nobody ELSE disk.proxy
        /\ Connects(o) => state' = "starting"
        /\ ~Connects(o) => state' = state
        /\ currentMode' = want.mode /\ trouble' = Untroubled(ops[o].kind)
    BY <1>4 DEF Asked, Wanted, Running, Connects, Goes
  <2>2. disk = settings /\ disk \in Snapshot
    BY <1>1, <2>1 DEF ProfileInv, Typed, WriteInv
  <2>3. want.proxy = settings.proxy \/ want.proxy = AutoGroup
    <3>1. want.proxy = Available(disk.proxy, ops[o].want.sub)
      BY DEF Desired
    <3>. QED  BY <2>2, <3>1 DEF Available
  <2>. HIDE DEF want
  <2>4. \A p \in Ops : ~Is(p, {"patch", "wait", "done", "fallback"})
    BY <1>1, NextEventIs DEF Is
  <2>5. /\ ops[o] # NoOp /\ ops[o].at = "resolve" /\ Others(o, {})
        /\ ops'[o] # NoOp /\ ops'[o].at = "engine" /\ ops'[o].kind = ops[o].kind
        /\ ops'[o].arg = ops[o].arg /\ ops'[o].asel /\ ops'[o].ep
        /\ (ops'[o].sel <=> ops[o].sel)
        /\ ops'[o].want.proxy = settings.proxy => ops'[o].gone = Nobody
        /\ ops'[o].want.proxy # settings.proxy =>
             ops'[o].want.proxy = AutoGroup /\ ops'[o].gone = settings.proxy
    BY <2>1, <2>2, <2>3 DEF Goes
  <2>6. \A p \in Ops : ~At(p, "engine") /\ ~Is(p, Back)
    <3>1. At(o, "resolve") /\ Is(o, Busy)
      BY <2>5 DEF At, Is, Busy
    <3>2. \A p \in Ops : ~Is(p, {"fallbackPatch", "fallbackWait"})
      <4>1. \A p \in Ops : ~Is(p, {"fallbackPatch"})
        <5>1. \A p \in Ops : ~Writing(p)
          BY <1>1 DEF Writing
        <5>. QED  BY <5>1 DEF ProfileInv, WriteInv, Is
      <4>2. \A p \in Ops : ~Is(p, {"fallbackWait"})
        BY <1>1 DEF NextEvent, Active, Is, Persisted
      <4>. QED  BY <4>1, <4>2 DEF Is
    <3>3. \A p \in Ops : ~Is(p, Back)
      BY <2>4, <3>2 DEF Is, Back
    <3>4. CASE Connects(o)
      BY <3>1, <3>3, <3>4 DEF ProfileInv, EngineInv, ConnectInv, Is, At
    <3>5. CASE ~Connects(o)
      <4>1. First(o)
        BY <3>1, <3>5 DEF ProfileInv, TurnInv
      <4>2. ASSUME NEW p \in Ops, At(p, "engine")  PROVE FALSE
        <5>1. ~Connects(p)
          BY <2>1, <3>5, <4>2 DEF ProfileInv, EngineInv
        <5>2. First(p)
          BY <4>2, <5>1 DEF ProfileInv, TurnInv, Is, At, Busy
        <5>. QED  BY <3>1, <4>1, <4>2, <5>2 DEF First, At
      <4>. QED  BY <3>3, <4>2
    <3>. QED  BY <3>4, <3>5
  <2>7. \A p \in Ops : p # o => ~At(p, "engine")' /\ ~Is(p, Back)' /\ ~Is(p, {"patch", "wait", "done"})'
    BY <2>4, <2>5, <2>6 DEF Others, Fades, Is, At
  <2>8. At(o, "engine")' /\ ~Is(o, Back)' /\ ~Is(o, {"patch", "wait", "done"})'
    BY <2>5 DEF At, Is, Back
  <2>9. AloneInv'
    BY <2>7, <2>8 DEF AloneInv, Is, At
  <2>10. LatestInv'
    BY <2>5 DEF DisplayInv, LatestInv, Selects, Others, Fades
  <2>11. AutoInv'
    <3>1. settings.proxy # Nobody
      BY <2>2, DesiredProfileAssumption DEF Snapshot
    <3>2. \A p \in Ops : ~Is(p, {"fallbackPatch", "fallbackWait"})'
      BY <2>7, <2>8 DEF Is, Back
    <3>3. ops'[o].gone # Nobody => ops'[o].want.proxy = AutoGroup
      BY <2>5
    <3>. QED  BY <2>7, <2>8, <3>2, <3>3 DEF AutoInv
  <2>12. ops'[o].want.proxy = settings'.proxy \/ Falling(o)'
    BY <1>1, <2>5 DEF Falling, At
  <2>13. ShownInv'
    <3>1. CASE Falling(o)'
      <4>1. trouble' = "none" /\ state' = "starting" => activeProxy' = Nobody
        <5>1. CASE Connects(o)
          BY <1>1, <2>1, <5>1 DEF Untroubled, Connects
        <5>2. CASE ~Connects(o)
          BY <2>1, <5>2
        <5>. QED  BY <5>1, <5>2
      <4>. QED  BY <2>7, <3>1, <4>1 DEF ShownInv, Calm, Corrects
    <3>2. CASE ops'[o].want.proxy = settings'.proxy /\ Connects(o)
      BY <1>1, <2>1, <2>7, <3>2 DEF ShownInv, Calm, Untroubled, Connects
    <3>3. CASE ops'[o].want.proxy = settings'.proxy /\ ~Connects(o)
      <4>1. state = "running" /\ state' = "running"
        BY <2>1, <3>3
      <4>2. trouble' = "none" => trouble = "none"
        BY <2>1, <2>5, <3>3 DEF Untroubled, Connects
      <4>3. Steady => Steady'
        BY <1>1, <2>7, <3>3 DEF Steady
      <4>4. ASSUME Corrects  PROVE Corrects'
        <5>1. PICK p \in Ops : Choosing(p) \/ Falling(p) \/ Saved(p)
          BY <4>4 DEF Corrects
        <5>2. CASE p = o
          <6>1. Choosing(o)
            BY <2>5, <5>1, <5>2 DEF Falling, Saved, Is, At
          <6>2. Choosing(o)'
            BY <1>1, <2>5, <3>3, <6>1 DEF Choosing, Selects, At
          <6>. QED  BY <6>2 DEF Corrects
        <5>3. CASE p # o
          BY <1>1, <2>5, <5>1, <5>3, OthersShow DEF Corrects
        <5>. QED  BY <5>2, <5>3
      <4>. QED  BY <1>1, <4>1, <4>2, <4>3, <4>4 DEF DisplayInv, ShownInv, Calm
    <3>. QED  BY <2>12, <3>1, <3>2, <3>3
  <2>14. ModeInv'
    <3>1. ModeShown'
      BY <2>1, <2>7, <2>8 DEF ModeShown
    <3>. QED  BY <3>1 DEF ModeInv
  <2>. QED  BY <2>9, <2>10, <2>11, <2>13, <2>14 DEF DisplayInv
<1>. QED  BY <1>2, <1>3, <1>4

\* An update that restarts the engine is alone: nothing else is to be shown.
LEMMA RestartsShows ==
  ASSUME ProfileInv, DisplayInv, ~MayChangeWhileStarting, NEW o \in Ops, Restarts(o)
  PROVE  DisplayInv'
<1>1. /\ settings' = settings /\ applied' = applied /\ currentMode' = currentMode
      /\ disconnectLock' = disconnectLock /\ ops' = ops /\ trouble' = trouble
      /\ state = "running" /\ state' = "starting" /\ activeProxy' = Nobody /\ At(o, "engine")
      /\ \A p \in Ops : p # o => ops[p] = NoOp
  BY DEF Restarts, storeVars, locks, Running, Active
<1>2. AloneInv'
  BY <1>1 DEF AloneInv, Is, At, Back
<1>3. LatestInv' /\ AutoInv'
  BY <1>1 DEF DisplayInv, LatestInv, AutoInv, Selects, Running, Is, At, Back
<1>4. ShownInv'
  <2>1. Falling(o) => Falling(o)'
    BY <1>1 DEF Falling, Is, At
  <2>2. Choosing(o) => ops[o].want.proxy = settings.proxy
    BY <1>1 DEF Choosing, Is, At
  <2>3. \A p \in Ops : ~Saved(p) /\ (p # o => ~Choosing(p) /\ ~Falling(p))
    BY <1>1 DEF Saved, Choosing, Selects, Falling, Is, At
  <2>4. Calm => ops[o].want.proxy = settings.proxy \/ Falling(o)
    BY <1>1, <2>2, <2>3 DEF DisplayInv, ShownInv, Steady, Corrects
  <2>. QED  BY <1>1, <2>1, <2>4 DEF ShownInv, Calm, At
<1>5. ModeInv'
  <2>1. \A p \in Ops : ~Reads(p)
    BY <1>1 DEF Reads, Is, At
  <2>. QED  BY <1>1, <2>1 DEF DisplayInv, ModeInv, ModeShown, Calm, At
<1>. QED  BY <1>2, <1>3, <1>4, <1>5 DEF DisplayInv

\* The engine has what was asked: what is shown from now on is that, unless it
\* falls back to AUTO first.
LEMMA SucceedsShows ==
  ASSUME ProfileInv, DisplayInv, NextEvent, NEW o \in Ops, Succeeds(o)
  PROVE  DisplayInv'
<1>1. /\ settings' = settings /\ currentMode' = currentMode /\ activeProxy' = activeProxy
      /\ disconnectLock' = disconnectLock /\ trouble' = trouble
      /\ applied' = ops[o].want /\ At(o, "engine")
      /\ state' = IF disconnectLock THEN "stopping" ELSE "running"
      /\ discovery' = IF state = "starting" THEN [at |-> "asked", now |-> Nobody] ELSE discovery
  BY DEF Succeeds, storeVars, locks, AfterUpdate, Rediscovers, Discovers
<1>2. /\ ops[o] # NoOp /\ ops[o].at = "engine" /\ Others(o, {})
      /\ ops'[o] # NoOp /\ ops'[o].at = "fallback" /\ ops'[o].kind = ops[o].kind
      /\ ops'[o].arg = ops[o].arg /\ ops'[o].asel = ops[o].asel /\ ops'[o].gone = ops[o].gone
      /\ (ops'[o].ep <=> ops[o].ep) /\ (ops'[o].sel <=> ops[o].sel)
  BY SucceedsIs DEF Goes, ProfileInv
<1>3. /\ state \in {"running", "starting"}
      /\ \A p \in Ops : p # o => ~At(p, "engine")
      /\ \A p \in Ops : ~Is(p, {"done", "fallback"})
  BY <1>1, AloneAtEngine
<1>4. \A p \in Ops : ~Is(p, Back)
  BY <1>1 DEF DisplayInv, AloneInv
<1>5. \A p \in Ops : ~At(p, "engine")' /\ (p # o => ~Is(p, Back)')
  BY <1>2, <1>3, <1>4 DEF Others, Fades, Is, At
<1>6. AloneInv'
  BY <1>1, <1>5 DEF AloneInv
<1>7. LatestInv'
  BY <1>2 DEF DisplayInv, LatestInv, Selects, Others, Fades
<1>8. AutoInv'
  <2>1. ~Is(o, {"fallbackPatch", "fallbackWait"})'
    BY <1>2 DEF Is
  <2>2. ops[o].gone # Nobody => ops[o].want.proxy = AutoGroup
    BY <1>1 DEF DisplayInv, AutoInv
  <2>3. \A p \in Ops : Is(p, {"fallbackPatch", "fallbackWait"})' => Is(p, Back)'
    BY DEF Is, Back
  <2>. QED  BY <1>1, <1>2, <1>5, <2>1, <2>2, <2>3 DEF AutoInv
<1>9. Falling(o) => Falling(o)'
  BY <1>1, <1>2 DEF Falling, Is, At
<1>10. ShownInv'
  <2>. SUFFICES ASSUME Calm  PROVE Steady' \/ Corrects'
    BY <1>1 DEF ShownInv, Calm
  <2>1. CASE state = "starting"
    <3>1. activeProxy = Nobody /\ (ops[o].want.proxy = settings.proxy \/ Falling(o))
      BY <1>1, <2>1 DEF DisplayInv, ShownInv
    <3>2. ops[o].want.proxy = settings.proxy => Steady'
      BY <1>1, <1>5, <2>1, <3>1 DEF Steady
    <3>. QED  BY <1>9, <3>1, <3>2 DEF Corrects
  <2>2. CASE state = "running"
    <3>1. Steady => Steady'
      BY <1>1, <1>5, <2>2 DEF Steady
    <3>2. Choosing(o) => Choosing(o)'
      BY <1>1, <1>2, <2>2 DEF Choosing, Selects, Is, At
    <3>3. ~Saved(o)
      BY <1>2 DEF Saved, Is
    <3>4. ASSUME NEW p \in Ops, p # o
          PROVE  /\ ~Falling(p) /\ (Saved(p) => Saved(p)')
                 /\ Choosing(p) => Choosing(p)'
      <4>1. Fades(ops[p], ops'[p], {})
        BY <1>2, <3>4 DEF Others
      <4>2. ~At(p, "engine") /\ ~Is(p, Back) /\ ~Is(p, {"done", "fallback"})
        BY <1>3, <1>4, <3>4
      <4>3. ~Falling(p)
        BY <4>2 DEF Falling, Is, At, Back
      <4>4. Saved(p) => Saved(p)'
        BY <4>1 DEF Fades, Saved, Is
      <4>5. Choosing(p) => Choosing(p)'
        BY <1>1, <2>2, <4>1, <4>2 DEF Fades, Choosing, Selects, Is, At
      <4>. QED  BY <4>3, <4>4, <4>5
    <3>5. Corrects => Corrects'
      BY <1>9, <3>2, <3>3, <3>4 DEF Corrects
    <3>. QED  BY <2>2, <3>1, <3>5 DEF DisplayInv, ShownInv
  <2>. QED  BY <1>3, <2>1, <2>2
<1>11. ModeInv'
  <2>1. \A p \in Ops : Reads(p) => Reads(p)'
    BY <1>2 DEF Reads, Is, Connects, Others, Fades
  <2>2. ModeShown => ModeShown'
    BY <1>1, <1>5 DEF ModeShown
  <2>. QED  BY <1>1, <1>3, <2>1, <2>2 DEF DisplayInv, ModeInv, Calm
<1>. QED  BY <1>6, <1>7, <1>8, <1>10, <1>11 DEF DisplayInv

LEMMA EngineFailsShows ==
  ASSUME ProfileInv, DisplayInv, NEW o \in Ops, Breaks(o) \/ Refuses(o)
  PROVE  DisplayInv'
<1>1. trouble' = "last" /\ At(o, "engine") /\ Fails(o) /\ state' # "starting"
  BY DEF Breaks, Refuses, Fails, AfterUpdate
<1>2. Finished(o, {"engine"}, FALSE, {})
  <2>1. ops \in OpMap /\ ops[o] # NoOp /\ ops[o].at \in {"engine"} /\ Finishes(o, FALSE)
    BY <1>1 DEF ProfileInv, Typed, At, Fails
  <2>. QED  BY <2>1, FinishesIs
<1>3. Is(o, Busy)
  BY <1>1 DEF Is, At, Busy
<1>4. AloneInv' /\ LatestInv' /\ AutoInv'
  BY <1>1, <1>2, <1>3, FinishedAlone
<1>. QED  BY <1>1, <1>4 DEF DisplayInv, ShownInv, ModeInv, Calm

-----------------------------------------------------------------------------
(* What follows an application shows it                                   *)

LEMMA FallsBackShows ==
  ASSUME ProfileInv, DisplayInv, NEW o \in Ops, FallsBack(o)
  PROVE  DisplayInv'
<1>1. /\ state' = state /\ applied' = applied /\ currentMode' = currentMode
      /\ activeProxy' = activeProxy /\ discovery' = discovery /\ disconnectLock' = disconnectLock
      /\ ops[o] # NoOp /\ ops[o].at = "fallback" /\ At(o, "fallback")
  BY DEF FallsBack, At, shown
<1>2. /\ \A p \in Ops : ~At(p, "engine")
      /\ state # "starting"
  BY <1>1 DEF DisplayInv, AloneInv, Is, At, Back
<1>3. CASE /\ Finished(o, {"fallback"}, TRUE, {}) /\ UNCHANGED <<storeVars, trouble>>
           /\ ~(ops[o].gone = settings.proxy /\ ops[o].asel /\ ops[o].ep /\ Running)
  <2>1. settings' = settings /\ trouble' = trouble
    BY <1>3 DEF storeVars
  <2>2. /\ Others(o, {})
        /\ ops[o].kind = "connect" => ops'[o] = NoOp
        /\ ops[o].kind # "connect" =>
             /\ ops'[o] # NoOp /\ ops'[o].at = "done" /\ ops'[o].kind = ops[o].kind
             /\ ops'[o].arg = ops[o].arg /\ ops'[o].ok = TRUE
             /\ (ops'[o].ep <=> ops[o].ep) /\ (ops'[o].sel <=> ops[o].sel)
    BY <1>3 DEF Finished, Goes, Ends
  <2>3. Is(o, Busy)
    BY <1>1 DEF Is, Busy
  <2>4. AloneInv' /\ LatestInv' /\ AutoInv'
    BY <1>1, <1>2, <1>3, <2>3, FinishedAlone DEF Running
  <2>5. \A p \in Ops : ~At(p, "engine")'
    BY <1>2, <2>2 DEF Others, Fades, At
  <2>6. ShownInv'
    <3>. SUFFICES ASSUME state = "running"  PROVE ShownInv'
      BY <1>1, <1>2 DEF ShownInv
    <3>1. Choosing(o) => Choosing(o)'
      BY <1>1, <2>1, <2>2 DEF Choosing, Selects, Is, At
    <3>2. ~Falling(o) /\ ~Saved(o)
      BY <1>1, <1>3 DEF Falling, Saved, Running, Is, At
    <3>3. \A p \in Ops : p # o =>
            (Choosing(p) => Choosing(p)') /\ (Falling(p) => Falling(p)') /\ (Saved(p) => Saved(p)')
      BY <1>1, <2>1, <2>2, OthersShow
    <3>4. Corrects => Corrects'
      BY <3>1, <3>2, <3>3 DEF Corrects
    <3>5. Steady => Steady'
      BY <1>1, <2>1, <2>5 DEF Steady
    <3>. QED  BY <1>1, <2>1, <3>4, <3>5 DEF DisplayInv, ShownInv, Calm
  <2>7. ModeInv'
    <3>1. \A p \in Ops : Reads(p) => Reads(p)'
      BY <1>1, <2>2 DEF Reads, Is, Connects, Others, Fades
    <3>2. ModeShown => ModeShown'
      BY <1>1, <1>2, <2>5 DEF ModeShown
    <3>. QED  BY <1>1, <2>1, <3>1, <3>2 DEF DisplayInv, ModeInv, Calm
  <2>. QED  BY <2>4, <2>6, <2>7 DEF DisplayInv
<1>4. CASE /\ Goes(o, {"fallback"}, "fallbackPatch", {}) /\ ops'[o].asel = ops[o].asel
           /\ ops[o].gone = settings.proxy /\ Running
           /\ ops[o].asel /\ ops[o].ep /\ ops'[o].gone = ops[o].gone
           /\ Patches([settings EXCEPT !.proxy = AutoGroup], o)
           /\ UNCHANGED <<tail, connectLock, trouble>>
  <2>1. /\ Others(o, {}) /\ ops'[o] # NoOp /\ ops'[o].at = "fallbackPatch"
        /\ ops'[o].kind = ops[o].kind /\ ops'[o].ep /\ ops'[o].asel /\ ops'[o].gone = settings.proxy
        /\ (ops'[o].sel <=> ops[o].sel) /\ trouble' = trouble
    BY <1>4 DEF Goes
  <2>2. settings \in Snapshot /\ settings.proxy # Nobody
    BY DesiredProfileAssumption DEF ProfileInv, Typed, Snapshot
  <2>3. settings'.proxy = AutoGroup
    BY <1>4, <2>2 DEF Patches, Snapshot
  <2>4. applied.proxy = AutoGroup
    BY <1>1, <1>4, <2>2 DEF DisplayInv, AutoInv, Is, Back
  <2>5. \A p \in Ops : ~At(p, "engine")'
    BY <1>2, <2>1 DEF Others, Fades, At
  <2>6. AloneInv'
    BY <1>1, <1>2, <2>5 DEF AloneInv
  <2>7. LatestInv'
    BY <1>1, <2>1 DEF DisplayInv, LatestInv, Selects, Others, Fades
  <2>8. AutoInv'
    BY <1>1, <2>1, <2>2, <2>4, <2>5 DEF DisplayInv, AutoInv, Others, Fades, Is
  <2>9. ShownInv'
    <3>1. Falling(o)'
      BY <1>1, <2>1, <2>3, <2>4 DEF Falling, Is
    <3>. QED  BY <1>1, <1>2, <3>1 DEF ShownInv, Corrects
  <2>10. ModeInv'
    <3>1. \A p \in Ops : Reads(p) => Reads(p)'
      BY <1>1, <2>1 DEF Reads, Is, Connects, Others, Fades
    <3>2. ModeShown => ModeShown'
      BY <1>1, <1>2, <2>5 DEF ModeShown
    <3>. QED  BY <1>1, <2>1, <3>1, <3>2 DEF DisplayInv, ModeInv, Calm
  <2>. QED  BY <2>6, <2>7, <2>8, <2>9, <2>10 DEF DisplayInv
<1>. QED  BY <1>3, <1>4, FallsBackIs DEF ProfileInv

\* AUTO is stored and in use: no server is shown until it is discovered.
LEMMA FallenBackShows ==
  ASSUME ProfileInv, DisplayInv, NEW o \in Ops, FallenBack(o)
  PROVE  DisplayInv'
<1>1. /\ state' = state /\ applied' = applied /\ currentMode' = currentMode
      /\ settings' = settings /\ disconnectLock' = disconnectLock /\ writes = <<>>
      /\ ops[o] # NoOp /\ ops[o].at = "fallbackWait"
  BY DEF FallenBack, storeVars, At, Persisted
<1>2. /\ \A p \in Ops : ~At(p, "engine")
      /\ state # "starting" /\ Is(o, Back) /\ Is(o, Busy)
  BY <1>1 DEF DisplayInv, AloneInv, Is, Back, Busy
<1>3. PICK ok \in BOOLEAN, c \in {{}, {"selection"}} :
        /\ Finished(o, {"fallbackWait"}, ok, c)
        /\ \/ trouble' = "last"
           \/ /\ trouble' = trouble /\ c = {} /\ UNCHANGED <<activeProxy, discovery>> /\ stored
              /\ ~(ops[o].asel /\ ops[o].ep /\ Running /\ disk.proxy = AutoGroup)
           \/ /\ trouble' = trouble /\ stored /\ Running /\ disk.proxy = AutoGroup
              /\ activeProxy' = Nobody /\ discovery' = [at |-> "asked", now |-> Nobody]
  BY FallenBackIs DEF ProfileInv
<1>4. /\ Others(o, c) /\ "epoch" \notin c
      /\ ops'[o] = NoOp \/ ops'[o].at = "done"
  BY <1>3 DEF Finished, Goes, Ends
<1>5. AloneInv' /\ LatestInv' /\ AutoInv'
  BY <1>1, <1>2, <1>3, FinishedAlone DEF Running
<1>6. \A p \in Ops : ~At(p, "engine")'
  BY <1>2, <1>4 DEF Others, Fades, At
<1>7. stored => disk = settings
  BY <1>1 DEF ProfileInv, WriteInv
<1>8. CASE trouble' = "last"
  BY <1>5, <1>8 DEF DisplayInv, ShownInv, ModeInv, Calm
<1>9. CASE trouble' = trouble
  <2>1. ModeInv'
    <3>1. \A p \in Ops : Reads(p) => Reads(p)'
      BY <1>1, <1>4 DEF Reads, Is, Connects, Others, Fades
    <3>2. ModeShown => ModeShown'
      BY <1>1, <1>2, <1>6 DEF ModeShown
    <3>. QED  BY <1>1, <1>9, <3>1, <3>2 DEF DisplayInv, ModeInv, Calm
  <2>2. CASE /\ c = {} /\ UNCHANGED <<activeProxy, discovery>> /\ stored
             /\ ~(ops[o].asel /\ ops[o].ep /\ Running /\ disk.proxy = AutoGroup)
    <3>1. activeProxy' = activeProxy /\ discovery' = discovery
      BY <2>2
    <3>2. state = "running" => ~Choosing(o) /\ ~Falling(o) /\ ~Saved(o)
      BY <1>1, <1>7, <2>2 DEF Choosing, Falling, Saved, Running, Is, At
    <3>3. \A p \in Ops : p # o =>
            (Choosing(p) => Choosing(p)') /\ (Falling(p) => Falling(p)') /\ (Saved(p) => Saved(p)')
      BY <1>1, <1>4, <2>2, <3>1, OthersShow
    <3>4. state = "running" /\ Corrects => Corrects'
      BY <3>2, <3>3 DEF Corrects
    <3>5. Steady => Steady'
      BY <1>1, <1>6, <3>1 DEF Steady
    <3>6. ShownInv'
      BY <1>1, <1>2, <1>9, <3>4, <3>5 DEF DisplayInv, ShownInv, Calm
    <3>. QED  BY <1>5, <2>1, <3>6 DEF DisplayInv
  <2>3. CASE /\ stored /\ Running /\ disk.proxy = AutoGroup
             /\ activeProxy' = Nobody /\ discovery' = [at |-> "asked", now |-> Nobody]
    <3>1. ops[o].gone # Nobody
      BY <1>1 DEF DisplayInv, AutoInv, Is
    <3>2. applied.proxy = AutoGroup
      BY <1>2, <2>3, <3>1 DEF DisplayInv, AutoInv
    <3>3. Steady'
      BY <1>1, <1>6, <1>7, <2>3, <3>2 DEF Steady
    <3>4. ShownInv'
      BY <1>1, <1>2, <3>3 DEF ShownInv
    <3>. QED  BY <1>5, <2>1, <3>4 DEF DisplayInv
  <2>. QED  BY <1>3, <1>8, <2>2, <2>3
<1>. QED  BY <1>3, <1>8, <1>9

\* The selection that is shown is the one in use, or one that is about to be
\* replaced.
LEMMA DoneShows ==
  ASSUME ProfileInv, DisplayInv, NEW o \in Ops, Done(o)
  PROVE  DisplayInv'
<1>. DEFINE Shows == ops[o].kind = "proxy" /\ ops[o].ok /\ StillChosen(o)
<1>1. /\ state' = state /\ applied' = applied /\ currentMode' = currentMode
      /\ disconnectLock' = disconnectLock /\ trouble' = trouble
      /\ ops[o] # NoOp /\ ops[o].at = "done" /\ At(o, "done")
      /\ Shows => IF ops[o].arg = AutoGroup
                    THEN activeProxy' = Nobody /\ discovery' = [at |-> "asked", now |-> Nobody]
                    ELSE activeProxy' = ops[o].arg /\ discovery' = discovery
      /\ ~Shows => activeProxy' = activeProxy /\ discovery' = discovery
  BY DEF Done, locks, At, Discovers
<1>2. /\ Others(o, {})
      /\ \/ ops'[o] # NoOp /\ ops'[o].at = "restore" /\ ops'[o].kind = ops[o].kind
            /\ (ops'[o].sel <=> ops[o].sel) /\ ~ops[o].ok
         \/ ops'[o] = NoOp /\ settings' = settings
  BY DoneIs DEF ProfileInv, Goes, Ends, storeVars
<1>3. AloneInv'
  BY <1>1, <1>2 DEF DisplayInv, AloneInv, Others, Fades, Is, At, Connects, Back
<1>4. LatestInv'
  BY <1>1, <1>2 DEF DisplayInv, LatestInv, Selects, Others, Fades
<1>5. AutoInv'
  BY <1>1, <1>2 DEF DisplayInv, AutoInv, Running, Others, Fades, Is, At, Back
<1>6. \A p \in Ops : /\ At(p, "engine") <=> At(p, "engine")'
                     /\ At(p, "engine") => ops'[p].want = ops[p].want
  BY <1>1, <1>2 DEF Others, Fades, At
<1>7. ModeInv'
  <2>1. \A p \in Ops : Reads(p) => Reads(p)'
    BY <1>1, <1>2 DEF Reads, Is, Connects, Others, Fades
  <2>2. ModeShown => ModeShown'
    BY <1>1, <1>6 DEF ModeShown
  <2>. QED  BY <1>1, <2>1, <2>2 DEF DisplayInv, ModeInv, Calm
<1>8. ShownInv'
  <2>. SUFFICES ASSUME Calm  PROVE ShownInv'
    BY <1>1 DEF ShownInv, Calm
  <2>1. ops[o].ok /\ ops'[o] = NoOp /\ settings' = settings
    <3>1. ops[o].ok
      BY <1>1 DEF ProfileInv, OutcomeInv, Calm
    <3>. QED  BY <1>2, <3>1
  <2>2. \A p \in Ops : p # o => (Falling(p) => Falling(p)') /\ (Saved(p) => Saved(p)')
    BY <1>1, <1>2, <2>1 DEF Others, Fades, Falling, Saved, Is, At
  <2>3. ~Falling(o) /\ ~Saved(o)
    BY <1>1 DEF Falling, Saved, Is, At
  <2>4. CASE Shows
    <3>1. /\ ops[o].kind = "proxy" /\ ops[o].sel /\ ops[o].ep /\ state = "running"
          /\ settings.proxy = ops[o].arg
      BY <2>4 DEF StillChosen, Running
    <3>2. \A p \in Ops : ~At(p, "engine")
      BY <1>1, <3>1 DEF DisplayInv, AloneInv, ProfileInv, EngineInv
    <3>3. \A p \in Ops : Choosing(p) => p = o
      BY <1>1, <3>1 DEF DisplayInv, LatestInv, Choosing, Selects
    <3>4. CASE Steady \/ Choosing(o)
      <4>1. applied.proxy = ops[o].arg
        BY <1>1, <3>1, <3>4 DEF Steady, Choosing, Is, At
      <4>2. discovery.at = "answered" => discovery.now = applied.proxy
        BY <3>4 DEF Steady, Choosing, NoDiscovery
      <4>3. Steady'
        BY <1>1, <1>6, <2>1, <2>4, <3>1, <3>2, <4>1, <4>2 DEF Steady
      <4>. QED  BY <1>1, <3>1, <4>3 DEF ShownInv
    <3>5. ASSUME NEW p \in Ops, Falling(p) \/ Saved(p)  PROVE Corrects'
      BY <2>2, <2>3, <3>5 DEF Corrects
    <3>6. Steady \/ Choosing(o) \/ \E p \in Ops : Falling(p) \/ Saved(p)
      BY <3>1, <3>3 DEF DisplayInv, ShownInv, Corrects
    <3>. QED  BY <1>1, <3>1, <3>4, <3>5, <3>6 DEF ShownInv
  <2>5. CASE ~Shows
    <3>1. activeProxy' = activeProxy /\ discovery' = discovery
      BY <1>1, <2>5
    <3>2. state = "running" => ~Choosing(o)
      BY <1>1, <2>1, <2>5 DEF Choosing, Selects, StillChosen, Running
    <3>3. \A p \in Ops : p # o => (Choosing(p) => Choosing(p)')
      BY <1>1, <1>2, <2>1, <3>1, OthersShow
    <3>4. state = "running" /\ Corrects => Corrects'
      BY <2>2, <2>3, <3>2, <3>3 DEF Corrects
    <3>5. Steady => Steady'
      BY <1>1, <1>6, <2>1, <3>1 DEF Steady
    <3>. QED  BY <1>1, <1>6, <2>1, <2>2, <2>3, <3>1, <3>4, <3>5 DEF DisplayInv, ShownInv
  <2>. QED  BY <2>4, <2>5
<1>. QED  BY <1>3, <1>4, <1>5, <1>7, <1>8 DEF DisplayInv

-----------------------------------------------------------------------------
(* Engine events and the discovery                                        *)

LEMMA StopsShows ==
  ASSUME DisplayInv, Crashes \/ \E ok \in BOOLEAN : Disconnected(ok)
  PROVE  DisplayInv'
<1>1. /\ ops' = ops /\ state' \notin {"running", "starting"} /\ \A p \in Ops : ~At(p, "engine")
  BY DEF Crashes, Disconnected, EngineBusy
<1>. QED  BY <1>1 DEF DisplayInv, AloneInv, LatestInv, AutoInv, ShownInv, ModeInv, Selects, Running,
                      Is, At

\* A discovery that still counts names what is chosen: a selection on its way
\* would have outdated it.
LEMMA DiscoveryShows ==
  ASSUME DisplayInv, Answers \/ Arrives \/ NoAnswer \/ UNCHANGED vars
  PROVE  DisplayInv'
<1>1. /\ settings' = settings /\ state' = state /\ applied' = applied /\ currentMode' = currentMode
      /\ disconnectLock' = disconnectLock /\ ops' = ops /\ trouble' = trouble
  BY DEF Answers, Arrives, NoAnswer, vars, storeVars, shown, locks
<1>2. AloneInv' /\ LatestInv' /\ AutoInv' /\ ModeInv'
  BY <1>1 DEF DisplayInv, AloneInv, LatestInv, AutoInv, ModeInv, ModeShown, Calm, Reads, Selects,
              Running, Connects, Is, At
<1>3. \A p \in Ops : (Falling(p) => Falling(p)') /\ (Saved(p) => Saved(p)')
  BY <1>1 DEF Falling, Saved, Is, At
<1>4. \A p \in Ops : Choosing(p) => Choosing(p)'
  <2>1. discovery = NoDiscovery => discovery' = discovery
    BY DEF Answers, Arrives, NoAnswer, vars, shown, NoDiscovery
  <2>. QED  BY <1>1, <2>1 DEF Choosing, Selects, Is, At
<1>5. state = "running" /\ Steady => Steady'
  <2>. SUFFICES ASSUME state = "running", Steady  PROVE Steady'
    OBVIOUS
  <2>1. CASE Answers
    <3>1. PICK p \in {applied.proxy} \union {ops[o].want.proxy : o \in {x \in Ops : At(x, "engine")}} :
            discovery' = [at |-> "answered", now |-> p]
      BY <2>1 DEF Answers
    <3>2. p = applied.proxy
      BY <3>1 DEF Steady
    <3>. QED  BY <1>1, <2>1, <3>1, <3>2 DEF Answers, Steady, At
  <2>2. CASE Arrives
    BY <1>1, <2>2 DEF Arrives, Forgets, NoDiscovery, Running, Steady, At
  <2>3. CASE NoAnswer
    BY <1>1, <2>3 DEF NoAnswer, Forgets, NoDiscovery, Steady, At
  <2>4. CASE UNCHANGED vars
    BY <1>1, <2>4 DEF vars, shown, Steady, At
  <2>. QED  BY <2>1, <2>2, <2>3, <2>4
<1>6. state = "starting" => activeProxy' = activeProxy
  BY DEF Answers, Arrives, NoAnswer, vars, shown, Running
<1>7. ShownInv'
  <2>1. Corrects => Corrects'
    BY <1>3, <1>4 DEF Corrects
  <2>. QED  BY <1>1, <1>3, <1>5, <1>6, <2>1 DEF DisplayInv, ShownInv, Calm, At
<1>. QED  BY <1>2, <1>7 DEF DisplayInv

-----------------------------------------------------------------------------
(* The theorem on what is shown                                           *)

LEMMA DisplayInvStep ==
  ASSUME ~MayChangeWhileStarting, ProfileInv, DisplayInv, [Next]_vars
  PROVE  DisplayInv'
<1>1. ASSUME NEW o \in Ops, Microtask(o)  PROVE DisplayInv'
  BY <1>1, SettingStoredShows, ProfileStoredShows, FallsBackShows, FallenBackShows, DoneShows
  DEF Microtask
<1>2. ASSUME User  PROVE DisplayInv'
  <2>1. CASE Disconnect
    BY <2>1, DisconnectShows
  <2>2. CASE \E p \in Proxies : SelectOffline(p)
    BY <2>2, SelectOfflineShows
  <2>3. ASSUME NEW o \in Ops, Connect(o)  PROVE DisplayInv'
    BY <2>3, ConnectShows
  <2>4. ASSUME NEW o \in Ops,
               \/ \E m \in Modes : SetMode(o, m)
               \/ \E p \in Proxies : SetProxy(o, p)
               \/ \E s \in Snapshot : ApplyProfile(o, s)
        PROVE  DisplayInv'
    BY <2>4, SettingShows
  <2>5. ASSUME NEW o \in Ops, NEW c \in Subs, SubscriptionsChange(o, c)  PROVE DisplayInv'
    BY <2>5, SubscriptionsChangeShows
  <2>. QED  BY <1>2, <2>1, <2>2, <2>3, <2>4, <2>5 DEF User
<1>3. ASSUME NextEvent, NEW o \in Ops, Event(o)  PROVE DisplayInv'
  BY <1>3, FetchesShows, ResolvesShows, RestartsShows, SucceedsShows, EngineFailsShows DEF Event
<1>4. ASSUME NextEvent, Crashes \/ Settles  PROVE DisplayInv'
  <2>1. CASE \E ok \in BOOLEAN : Stored(ok)
    BY <2>1, StoredShows
  <2>2. CASE Crashes \/ \E ok \in BOOLEAN : Disconnected(ok)
    BY <2>2, StopsShows
  <2>3. CASE Answers \/ Arrives \/ NoAnswer
    BY <2>3, DiscoveryShows
  <2>. QED  BY <1>4, <2>1, <2>2, <2>3 DEF Settles
<1>5. CASE UNCHANGED vars
  BY <1>5, DiscoveryShows
<1>. QED  BY <1>1, <1>2, <1>3, <1>4, <1>5 DEF Next

\* Nothing under way leaves nothing to be corrected or read again.
LEMMA QuietShows == DisplayInv => ShownIsReal
<1>. SUFFICES ASSUME DisplayInv, Quiet, Running, trouble = "none"
              PROVE  activeProxy \in {applied.proxy, Nobody} /\ currentMode = applied.mode
  BY DEF ShownIsReal
<1>1. ~disconnectLock /\ \A o \in Ops : ops[o] = NoOp
  BY DEF Quiet, Active
<1>2. ~Corrects /\ \A o \in Ops : ~Reads(o)
  BY <1>1 DEF Corrects, Choosing, Selects, Falling, Saved, Reads, Is, At
<1>3. Steady /\ ModeShown
  BY <1>1, <1>2 DEF DisplayInv, ShownInv, ModeInv, Calm, Running
<1>. QED  BY <1>1, <1>3 DEF Steady, ModeShown, At

\* setSelectedProxy() shows a selection only once it has been applied and is
\* still the one chosen, and a discovery is dropped when a selection is made
\* after it began: for any number of commands, modes, servers and contents, once
\* all has settled the server shown is the one a running engine uses, or none,
\* and so is the mode, unless an application has failed or a saved profile was
\* applied since a start with no server shown; provided that no setting changes
\* while the engine is starting.
THEOREM ShownServerIsReal ==
  ASSUME ~MayChangeWhileStarting
  PROVE  Spec => []ShownIsReal
<1>1. ProfileInv /\ DisplayInv /\ [Next]_vars => ProfileInv' /\ DisplayInv'
  BY ProfileInvStep, DisplayInvStep
<1>2. Init => ProfileInv /\ DisplayInv
  BY ProfileInvInit, DisplayInvInit
<1>3. ProfileInv /\ DisplayInv => ShownIsReal
  BY QuietShows
<1>. QED  BY <1>1, <1>2, <1>3, PTL DEF Spec

-----------------------------------------------------------------------------
(* A running engine has a profile, and the types                           *)

\* What is asked of the engine is a profile; an engine that runs, or that an
\* update was begun for, works with one.
WorkInv ==
  /\ Running => applied \in Profile
  /\ \A o \in Ops : At(o, "engine") =>
       ops[o].want \in Profile /\ (applied \in Profile \/ Connects(o))

\* A step that brings nobody to the engine.
NoneArrives ==
  \A p \in Ops : At(p, "engine")' =>
    At(p, "engine") /\ ops'[p].want = ops[p].want /\ (Connects(p) => Connects(p)')

LEMMA OnlyOthersStay ==
  ASSUME NEW o \in Ops, NEW c, Others(o, c), ops'[o] = NoOp \/ ops'[o].at # "engine"
  PROVE  NoneArrives
BY DEF NoneArrives, Others, Fades, At, Connects

LEMMA FinishedLeaves ==
  ASSUME NEW o \in Ops, NEW S, NEW ok, NEW c, Finished(o, S, ok, c)
  PROVE  NoneArrives /\ ~At(o, "engine")'
<1>1. CASE ops[o].kind = "connect"
  BY <1>1, OnlyOthersStay DEF Finished, Ends, At
<1>2. CASE ops[o].kind # "connect"
  BY <1>2, OnlyOthersStay DEF Finished, Goes, At
<1>. QED  BY <1>1, <1>2

LEMMA GoesElsewhere ==
  ASSUME NEW o \in Ops, NEW S, NEW a, NEW c, a # "engine", Goes(o, S, a, c)
  PROVE  NoneArrives
BY OnlyOthersStay DEF Goes

LEMMA EndsAway ==
  ASSUME NEW o \in Ops, NEW S, NEW c, Ends(o, S, c)
  PROVE  NoneArrives
BY OnlyOthersStay DEF Ends

LEMMA BeginsElsewhere ==
  ASSUME NEW o \in Ops, NEW k, NEW a, NEW c, a # "engine", Begins(o, k, a, c)
  PROVE  NoneArrives
BY OnlyOthersStay DEF Begins

LEMMA WorkStays ==
  ASSUME WorkInv, NoneArrives, applied' = applied, Running' => Running
  PROVE  WorkInv'
BY DEF WorkInv, NoneArrives, Connects

LEMMA NothingArrives == ops' = ops => NoneArrives
BY DEF NoneArrives, At, Connects

LEMMA WorkInit == Init => WorkInv
<1>. SUFFICES ASSUME Init  PROVE WorkInv
  OBVIOUS
<1>1. state = "idle" /\ ops = [o \in Ops |-> NoOp]
  BY DEF Init
<1>. QED  BY <1>1 DEF WorkInv, Running, At

-----------------------------------------------------------------------------
LEMMA WorkMicrotask ==
  ASSUME Typed, WorkInv, NEW o \in Ops, Microtask(o)
  PROVE  WorkInv'
<1>1. NoneArrives
  <2>1. CASE ModeStored(o) \/ ProxyStored(o)
    BY <2>1, SettingStoredIs, GoesElsewhere, EndsAway DEF SettingStored
  <2>2. CASE ProfileStored(o)
    BY <2>2, ProfileStoredIs, GoesElsewhere, EndsAway DEF ProfileJoins
  <2>3. CASE FallsBack(o)
    BY <2>3, FallsBackIs, GoesElsewhere, FinishedLeaves
  <2>4. CASE FallenBack(o)
    BY <2>4, FallenBackIs, FinishedLeaves
  <2>5. CASE Done(o)
    BY <2>5, DoneIs, GoesElsewhere, EndsAway
  <2>. QED  BY <2>1, <2>2, <2>3, <2>4, <2>5 DEF Microtask
<1>2. state' = state /\ applied' = applied
  BY DEF Microtask, ModeStored, ProxyStored, ProfileStored, FallsBack, FallenBack, Done
<1>. QED  BY <1>1, <1>2, WorkStays DEF Running

LEMMA WorkUser ==
  ASSUME Typed, WorkInv, User
  PROVE  WorkInv'
<1>1. CASE Disconnect
  <2>1. \A p \in Ops : Fades(ops[p], ops'[p], {"epoch"})
    BY <1>1, OutdatedFades DEF Disconnect, Typed, FadesAll
  <2>2. NoneArrives
    BY <2>1 DEF NoneArrives, Fades, At, Connects
  <2>3. applied' = applied /\ state' \in {state, "stopping"}
    BY <1>1 DEF Disconnect
  <2>. QED  BY <2>2, <2>3, WorkStays DEF Running
<1>2. CASE \E p \in Proxies : SelectOffline(p)
  BY <1>2, NothingArrives, WorkStays DEF SelectOffline, Running
<1>3. ASSUME NEW o \in Ops,
             \/ Connect(o)
             \/ \E m \in Modes : SetMode(o, m)
             \/ \E p \in Proxies : SetProxy(o, p)
             \/ \E s \in Snapshot : ApplyProfile(o, s)
             \/ \E c \in Subs : SubscriptionsChange(o, c)
      PROVE  WorkInv'
  <2>1. applied' = applied /\ state' = state
    BY <1>3 DEF Connect, SetMode, SetProxy, ApplyProfile, SubscriptionsChange
  <2>2. NoneArrives
    <3>1. CASE \E c \in Subs : SubscriptionsChange(o, c) /\ ~Running
      BY <3>1, NothingArrives DEF SubscriptionsChange
    <3>2. CASE ~(\E c \in Subs : SubscriptionsChange(o, c) /\ ~Running)
      BY <1>3, <3>2, CommandsBegin, BeginsElsewhere
    <3>. QED  BY <3>1, <3>2
  <2>. QED  BY <2>1, <2>2, WorkStays DEF Running
<1>. QED  BY <1>1, <1>2, <1>3 DEF User

LEMMA WorkEvent ==
  ASSUME Typed, EngineInv, WorkInv, NEW o \in Ops, Event(o)
  PROVE  WorkInv'
<1>0. ops \in OpMap
  BY DEF Typed
<1>1. CASE Fetches(o)
  <2>1. NoneArrives
    BY <1>1, FetchesIs, GoesElsewhere, FinishedLeaves DEF Fetched, Gives
  <2>. QED  BY <1>1, <2>1, WorkStays DEF Fetches, Running
<1>2. CASE Resolves(o)
  <2>1. applied' = applied
    BY <1>2 DEF Resolves
  <2>2. CASE Gives(o, {"resolve"}) /\ state' = state
    BY <2>1, <2>2, FinishedLeaves, WorkStays DEF Gives, Running
  <2>3. CASE Asked(o)
    <3>1. /\ ops'[o].want = Desired(disk, ops[o].want.sub) /\ Wanted(o) /\ ops[o] # NoOp
          /\ Others(o, {}) /\ state' \in {state, "starting"} /\ ops'[o].kind = ops[o].kind
          /\ ops'[o] # NoOp
      BY <2>3 DEF Asked, Goes
    <3>2. ops[o].want \in Profile
      BY <1>2 DEF Resolves, Typed, At
    <3>3. ops'[o].want \in Profile
      BY <3>1, <3>2, DesiredProfiles DEF Typed, Profile
    <3>4. applied \in Profile \/ Connects(o)
      BY <3>1 DEF Wanted, WorkInv, Connects
    <3>5. \A p \in Ops : p # o /\ At(p, "engine")' =>
            At(p, "engine") /\ ops'[p].want = ops[p].want /\ (Connects(p) => Connects(p)')
      BY <3>1 DEF Others, Fades, At, Connects
    <3>6. Connects(o) => Connects(o)'
      BY <3>1 DEF Connects
    <3>7. Running' => applied' \in Profile
      BY <2>1, <3>1 DEF Running, WorkInv
    <3>. QED  BY <2>1, <3>3, <3>4, <3>5, <3>6, <3>7 DEF WorkInv
  <2>. QED  BY <1>2, <2>2, <2>3, ResolvesIs
<1>3. CASE Restarts(o)
  <2>1. ops' = ops /\ applied' = applied /\ state' = "starting"
    BY <1>3 DEF Restarts
  <2>. QED  BY <2>1, NothingArrives, WorkStays DEF Running
<1>4. CASE Succeeds(o)
  <2>1. applied' = ops[o].want /\ At(o, "engine")
    BY <1>4 DEF Succeeds
  <2>2. applied' \in Profile
    BY <2>1 DEF WorkInv
  <2>3. NoneArrives
    BY <1>4, SucceedsIs, GoesElsewhere
  <2>. QED  BY <2>2, <2>3 DEF WorkInv, NoneArrives
<1>5. CASE Breaks(o) \/ Refuses(o)
  <2>1. At(o, "engine") /\ Fails(o)
    BY <1>5 DEF Breaks, Refuses
  <2>2. Gives(o, {"engine"})
    BY <1>0, <2>1, GivesIs DEF At
  <2>3. NoneArrives /\ ~At(o, "engine")'
    BY <2>2, FinishedLeaves DEF Gives
  <2>4. \A p \in Ops : ~At(p, "engine")'
    BY <2>1, <2>3 DEF NoneArrives, EngineInv, Is, At
  <2>5. CASE Breaks(o)
    BY <2>4, <2>5 DEF Breaks, WorkInv, Running
  <2>6. CASE Refuses(o)
    <3>1. applied \in Profile /\ applied' = applied
      BY <2>1, <2>6 DEF Refuses, WorkInv, Connects
    <3>. QED  BY <2>4, <3>1 DEF WorkInv
  <2>. QED  BY <1>5, <2>5, <2>6
<1>. QED  BY <1>1, <1>2, <1>3, <1>4, <1>5 DEF Event

LEMMA WorkSettles ==
  ASSUME Typed, WriteInv, WorkInv, Crashes \/ Settles
  PROVE  WorkInv'
<1>1. ASSUME NEW ok \in BOOLEAN, Stored(ok)  PROVE WorkInv'
  <2>1. writes # <<>> /\ state' = state /\ applied' = applied
    BY <1>1 DEF Stored, WriteSettles
  <2>2. PICK b : b = Head(writes).by
    OBVIOUS
  <2>3. writes[1] = Head(writes) /\ 1 \in DOMAIN writes /\ Head(writes) \in Write
    BY <2>1 DEF Typed
  <2>4. b \in Ops \union {Nobody}
    BY <2>2, <2>3 DEF Write
  <2>5. CASE b = Nobody
    <3>1. ops' = ops
      BY <1>1, <2>2, <2>5 DEF Stored
    <3>. QED  BY <2>1, <3>1, NothingArrives, WorkStays DEF Running
  <2>6. CASE b \in Ops
    <3>1. Is(b, {"patch", "fallbackPatch", "restore"})
      BY <2>2, <2>3, <2>6 DEF WriteInv, Writing
    <3>2. WriteSettled(b)
      BY <1>1, <2>2, <2>6, <3>1, StoredIs
    <3>3. NoneArrives
      BY <2>6, <3>2, GoesElsewhere, EndsAway DEF WriteSettled
    <3>. QED  BY <2>1, <3>3, WorkStays DEF Running
  <2>. QED  BY <2>4, <2>5, <2>6
<1>2. CASE Crashes \/ \E ok \in BOOLEAN : Disconnected(ok)
  <2>1. ops' = ops /\ state' # "running" /\ \A p \in Ops : ~At(p, "engine")
    BY <1>2 DEF Crashes, Disconnected, EngineBusy
  <2>. QED  BY <2>1 DEF WorkInv, Running, At
<1>3. CASE Answers \/ Arrives \/ NoAnswer
  BY <1>3, NothingArrives, WorkStays DEF Answers, Arrives, NoAnswer, Running
<1>. QED  BY <1>1, <1>2, <1>3 DEF Settles

LEMMA WorkStep ==
  ASSUME ProfileInv, WorkInv, [Next]_vars
  PROVE  WorkInv'
<1>1. Typed /\ WriteInv /\ EngineInv
  BY DEF ProfileInv
<1>2. CASE UNCHANGED vars
  BY <1>2, NothingArrives, WorkStays DEF vars, Running
<1>3. CASE Next
  BY <1>1, <1>3, WorkMicrotask, WorkUser, WorkEvent, WorkSettles DEF Next
<1>. QED  BY <1>2, <1>3

-----------------------------------------------------------------------------
\* What the service shows and holds besides, and what the engine says.
States == {"idle", "starting", "running", "stopping", "crashed", "error"}

ShownTypes ==
  /\ stored \in BOOLEAN /\ state \in States
  /\ applied \in Profile \union {NoProfile}
  /\ currentMode \in Modes /\ activeProxy \in Choice
  /\ connectLock \in BOOLEAN /\ disconnectLock \in BOOLEAN
  /\ discovery \in Discovery
  /\ trouble \in {"none", "past", "last"}

LEMMA Discoveries ==
  /\ NoDiscovery \in Discovery /\ [at |-> "asked", now |-> Nobody] \in Discovery
  /\ \A p \in Proxies : [at |-> "answered", now |-> p] \in Discovery
  /\ \A d \in Discovery : d.now \in Choice
  /\ Nobody \in Choice /\ Proxies \subseteq Choice
BY DEF NoDiscovery, Discovery, Choice

LEMMA ShownInit == Init => ShownTypes
<1>. SUFFICES ASSUME Init  PROVE ShownTypes
  OBVIOUS
<1>1. PICK s \in Snapshot : Loaded(s) /\ currentMode = s.mode
  BY DEF Init
<1>2. currentMode \in Modes /\ stored = TRUE
  BY <1>1 DEF Snapshot, Loaded
<1>. QED  BY <1>2, Discoveries DEF Init, ShownTypes, States

LEMMA ShownMicrotask ==
  ASSUME Typed, ShownTypes, NEW o \in Ops, Microtask(o)
  PROVE  ShownTypes'
<1>0. disk.mode \in Modes
  BY DEF Typed, Snapshot
<1>1. CASE ModeStored(o)
  BY <1>0, <1>1 DEF ModeStored, ShownTypes, Throws, storeVars, locks
<1>2. CASE ProxyStored(o)
  BY <1>2 DEF ProxyStored, ShownTypes, Throws, storeVars, locks, shown
<1>3. CASE ProfileStored(o)
  BY <1>3, Discoveries DEF ProfileStored, ShownTypes, storeVars, locks, Forgets
<1>4. CASE FallsBack(o)
  BY <1>4 DEF FallsBack, Patches, Finishes, ShownTypes, storeVars, shown
<1>5. CASE FallenBack(o)
  <2>1. trouble' \in {trouble, "last"} /\ connectLock' \in {connectLock, FALSE}
    BY <1>5 DEF FallenBack, Fails, Finishes
  <2>2. \/ UNCHANGED <<activeProxy, discovery>>
        \/ activeProxy' = Nobody /\ discovery' = [at |-> "asked", now |-> Nobody]
    BY <1>5 DEF FallenBack, Discovers
  <2>3. UNCHANGED <<stored, state, applied, currentMode, disconnectLock>>
    BY <1>5 DEF FallenBack, storeVars
  <2>. QED  BY <2>1, <2>2, <2>3, Discoveries DEF ShownTypes
<1>6. CASE Done(o)
  <2>1. ops[o].arg \in Choice
    BY <1>6, OpIs DEF Done, At, Typed, OpMap
  <2>2. \/ UNCHANGED <<activeProxy, discovery>>
        \/ activeProxy' = Nobody /\ discovery' = [at |-> "asked", now |-> Nobody]
        \/ activeProxy' = ops[o].arg /\ UNCHANGED discovery
    BY <1>6 DEF Done, Discovers
  <2>3. UNCHANGED <<stored, state, applied, currentMode, connectLock, disconnectLock, trouble>>
    BY <1>6 DEF Done, Patches, storeVars, locks
  <2>. QED  BY <2>1, <2>2, <2>3, Discoveries DEF ShownTypes
<1>. QED  BY <1>1, <1>2, <1>3, <1>4, <1>5, <1>6 DEF Microtask

LEMMA ShownUser ==
  ASSUME ShownTypes, User
  PROVE  ShownTypes'
<1>1. CASE Disconnect
  BY <1>1, Discoveries DEF Disconnect, ShownTypes, States, Forgets, storeVars
<1>2. ASSUME NEW p \in Proxies, SelectOffline(p)  PROVE ShownTypes'
  BY <1>2 DEF SelectOffline, Patches, ShownTypes, shown, locks
<1>3. ASSUME NEW o \in Ops, Connect(o)  PROVE ShownTypes'
  BY <1>3, Discoveries DEF Connect, Forgets, ShownTypes, storeVars
<1>4. ASSUME NEW o \in Ops, NEW m \in Modes, SetMode(o, m)  PROVE ShownTypes'
  BY <1>4 DEF SetMode, Patches, ShownTypes, shown, locks
<1>5. ASSUME NEW o \in Ops, NEW p \in Proxies, SetProxy(o, p)  PROVE ShownTypes'
  BY <1>5, Discoveries DEF SetProxy, Patches, Forgets, ShownTypes, locks
<1>6. ASSUME NEW o \in Ops, NEW s \in Snapshot, ApplyProfile(o, s)  PROVE ShownTypes'
  BY <1>6 DEF ApplyProfile, Patches, ShownTypes, shown, locks
<1>7. ASSUME NEW o \in Ops, NEW c \in Subs, SubscriptionsChange(o, c)  PROVE ShownTypes'
  BY <1>7 DEF SubscriptionsChange, ShownTypes, shown, locks, storeVars
<1>. QED  BY <1>1, <1>2, <1>3, <1>4, <1>5, <1>6, <1>7 DEF User

LEMMA ShownEvent ==
  ASSUME Typed, WorkInv, ShownTypes, NEW o \in Ops, Event(o)
  PROVE  ShownTypes'
<1>1. CASE Fetches(o)
  BY <1>1 DEF Fetches, Fails, Drops, Finishes, ShownTypes, storeVars, shown
<1>2. CASE Resolves(o)
  <2>1. ops[o].want \in Profile
    BY <1>2 DEF Resolves, Typed, At
  <2>2. Desired(disk, ops[o].want.sub).mode \in Modes
    BY <2>1, DesiredProfiles DEF Typed, Profile
  <2>3. \/ UNCHANGED <<currentMode, state>>
        \/ /\ currentMode' = Desired(disk, ops[o].want.sub).mode
           /\ state' \in {state, "starting"}
    BY <1>2 DEF Resolves
  <2>4. connectLock' \in {connectLock, FALSE}
    BY <1>2 DEF Resolves, Fails, Drops, Finishes
  <2>5. trouble' \in {trouble, "last", "none", "past"}
    BY <1>2 DEF Resolves, Fails, Drops, Untroubled
  <2>6. UNCHANGED <<stored, applied, activeProxy, discovery, disconnectLock>>
    BY <1>2 DEF Resolves, storeVars
  <2>. QED  BY <2>2, <2>3, <2>4, <2>5, <2>6 DEF ShownTypes, States
<1>3. CASE Restarts(o)
  BY <1>3, Discoveries DEF Restarts, ShownTypes, States, storeVars, locks
<1>4. CASE Succeeds(o)
  <2>1. applied' \in Profile
    BY <1>4 DEF Succeeds, WorkInv
  <2>. QED  BY <1>4, <2>1, Discoveries
            DEF Succeeds, AfterUpdate, Rediscovers, Discovers, ShownTypes, States, storeVars, locks
<1>5. CASE Breaks(o)
  BY <1>5, Discoveries DEF Breaks, Fails, Finishes, ShownTypes, States, storeVars
<1>6. CASE Refuses(o)
  BY <1>6, Discoveries DEF Refuses, Fails, Finishes, AfterUpdate, Rediscovers, Discovers,
     ShownTypes, States, storeVars
<1>. QED  BY <1>1, <1>2, <1>3, <1>4, <1>5, <1>6 DEF Event

LEMMA ShownSettles ==
  ASSUME WorkInv, ShownTypes, Crashes \/ Settles
  PROVE  ShownTypes'
<1>1. ASSUME NEW ok \in BOOLEAN, Stored(ok)  PROVE ShownTypes'
  <2>1. stored' = ok /\ trouble' \in {trouble, "last"}
    BY <1>1 DEF Stored, WriteSettles, Throws
  <2>. QED  BY <1>1, <2>1 DEF Stored, ShownTypes, shown, locks
<1>2. CASE Crashes
  BY <1>2 DEF Crashes, ShownTypes, States, storeVars, shown, locks
<1>3. ASSUME NEW ok \in BOOLEAN, Disconnected(ok)  PROVE ShownTypes'
  BY <1>3, Discoveries DEF Disconnected, ShownTypes, States, storeVars
<1>4. CASE Answers
  <2>1. PICK p \in {applied.proxy} \union {ops[x].want.proxy : x \in {x \in Ops : At(x, "engine")}} :
          discovery' = [at |-> "answered", now |-> p]
    BY <1>4 DEF Answers
  <2>2. p \in Proxies
    <3>1. applied \in Profile
      BY <1>4 DEF Answers, WorkInv
    <3>2. \A x \in Ops : At(x, "engine") => ops[x].want \in Profile
      BY DEF WorkInv
    <3>. QED  BY <2>1, <3>1, <3>2 DEF Profile
  <2>. QED  BY <1>4, <2>1, <2>2, Discoveries DEF Answers, ShownTypes, storeVars, locks
<1>5. CASE Arrives
  BY <1>5, Discoveries DEF Arrives, Forgets, ShownTypes, storeVars, locks
<1>6. CASE NoAnswer
  BY <1>6, Discoveries DEF NoAnswer, Forgets, ShownTypes, storeVars, locks
<1>. QED  BY <1>1, <1>2, <1>3, <1>4, <1>5, <1>6 DEF Settles

LEMMA ShownStep ==
  ASSUME ProfileInv, WorkInv, ShownTypes, [Next]_vars
  PROVE  ShownTypes'
<1>1. Typed
  BY DEF ProfileInv
<1>2. CASE UNCHANGED vars
  BY <1>2 DEF vars, storeVars, shown, locks, ShownTypes
<1>3. CASE Next
  BY <1>1, <1>3, ShownMicrotask, ShownUser, ShownEvent, ShownSettles DEF Next
<1>. QED  BY <1>2, <1>3

\* RuntimeServiceImpl.ts: whatever the order of commands, writes and engine
\* events, everything the service holds and shows is what it is declared to be.
\* That a running engine works with a profile, which the listener of its state
\* and the discovery of the active server rely on, is part of the argument.
THEOREM ProfileIsTyped ==
  ASSUME ~MayChangeWhileStarting
  PROVE  Spec => []TypeOK
<1>1. Init => ProfileInv /\ WorkInv /\ ShownTypes
  BY ProfileInvInit, WorkInit, ShownInit
<1>2. ProfileInv /\ WorkInv /\ ShownTypes /\ [Next]_vars => ProfileInv' /\ WorkInv' /\ ShownTypes'
  BY ProfileInvStep, WorkStep, ShownStep
<1>3. ProfileInv /\ ShownTypes => TypeOK
  BY DEF ProfileInv, Typed, OpMap, Write, ShownTypes, States, Choice, TypeOK
<1>. QED  BY <1>1, <1>2, <1>3, PTL DEF Spec

=============================================================================
