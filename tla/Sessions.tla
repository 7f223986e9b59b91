------------------------------ MODULE Sessions ------------------------------
(***************************************************************************)
(* The signed-in session of the two clients of the service: the provider's *)
(* (packages/api, an interceptor over one RefreshLock) and the cabinet's   *)
(* (CabinetClient). Requests run concurrently; one that the server answers *)
(* 401 asks for new tokens and is sent once more. The server either gives  *)
(* a new refresh token with every access token, and takes each of them     *)
(* once, or goes on with the old one.                                      *)
(***************************************************************************)
EXTENDS Naturals, FiniteSets

CONSTANTS
  Reqs,        \* requests that may be under way
  MaxTokens,   \* bound: access tokens issued
  Setups,      \* the clients, and whether the server of each rotates
  NoTokens

ASSUME SessionsAssumption ==
  /\ MaxTokens \in Nat
  /\ Setups \subseteq [client : {"api", "cabinet"}, rotates : BOOLEAN]
  /\ NoTokens \notin [access : Nat, refresh : Nat]

VARIABLES
  setup,
  tokens,          \* the stored tokens
  issued, usable,  \* at the server: access tokens given, refresh tokens it takes
  live,            \* access tokens that have not expired
  reqs,            \* where each request is, and the access token it carries
  asked,           \* requests for new tokens on their way
  excused          \* history: something else than an expired token may end the session

sessionVars == <<setup, tokens, issued, usable, live, reqs, asked, excused>>

SessionInit ==
  /\ setup \in Setups
  /\ tokens = [access |-> 1, refresh |-> 1]
  /\ issued = 1 /\ usable = {1} /\ live = {1}
  /\ reqs = [r \in Reqs |-> [at |-> "idle", access |-> 0]]
  /\ asked = {} /\ excused = FALSE

At(r, at) == reqs[r].at = at
Goes(r, at) == [reqs EXCEPT ![r].at = at]

\* Bound: tokens are left for every request that may ask for some.
MayIssue == issued + Cardinality(Reqs) <= MaxTokens

server == <<issued, usable, live>>

\* Mutant of Shared: every 401 asks for tokens of its own.
Shared_Never == FALSE

\* RefreshLock: a refresh under way serves everybody. CabinetClient has none.
Shared == setup.client = "api"

\* The network fails a refresh: the interceptor ends the session whatever the
\* reason, CabinetClient lets the error through.
EndsWhenLost == setup.client = "api"

Sends(r) ==
  /\ At(r, "idle") /\ tokens # NoTokens
  /\ reqs' = [reqs EXCEPT ![r] = [at |-> "sent", access |-> tokens.access]]
  /\ UNCHANGED <<setup, tokens, server, asked, excused>>

\* 403: CabinetClient ends the session.
Forbidden(r) ==
  /\ setup.client = "cabinet" /\ (At(r, "sent") \/ At(r, "again"))
  /\ reqs' = Goes(r, "idle")
  /\ tokens' = NoTokens /\ excused' = TRUE
  /\ UNCHANGED <<setup, server, asked>>

\* Any other answer than 401, or none.
Answers(r) ==
  /\ At(r, "sent") \/ At(r, "again")
  /\ reqs' = Goes(r, "idle")
  /\ UNCHANGED <<setup, tokens, server, asked, excused>>

\* 401 to a first attempt: a refresh, of the tokens stored by now.
Refused(r) ==
  /\ At(r, "sent") /\ reqs[r].access \notin live
  /\ IF tokens = NoTokens
     THEN reqs' = Goes(r, "idle") /\ UNCHANGED asked
     ELSE /\ reqs' = Goes(r, "waiting")
          /\ asked' = IF Shared /\ asked # {} THEN asked
                      ELSE asked \union {[by |-> r, with |-> tokens.refresh]}
  /\ UNCHANGED <<setup, tokens, server, excused>>

\* 401 to the second attempt: CabinetClient gives the session up.
RefusedAgain(r) ==
  /\ At(r, "again") /\ reqs[r].access \notin live
  /\ reqs' = Goes(r, "idle")
  /\ tokens' = IF setup.client = "cabinet" THEN NoTokens ELSE tokens
  /\ UNCHANGED <<setup, server, asked, excused>>

\* The requests that wait for the answer to a.
Waiting(a) == {r \in Reqs : At(r, "waiting") /\ (Shared \/ r = a.by)}

\* What the server makes of the refresh token: new ones, when it takes it.
Issues(a) ==
  /\ issued' = issued + 1
  /\ live' = live \union {issued + 1}
  /\ usable' = IF setup.rotates THEN (usable \ {a.with}) \union {issued + 1} ELSE usable

\* Mutant of Resent: the retry carries the token that was refused.
Resent_AsItWas(r, new) == [at |-> "again", access |-> reqs[r].access]

\* The retry carries the new token.
Resent(r, new) == [at |-> "again", access |-> new]

\* New tokens are stored, and the requests that waited are sent again.
Refreshes(a) ==
  /\ a \in asked /\ a.with \in usable
  /\ Issues(a)
  /\ tokens' = [access |-> issued + 1,
                refresh |-> IF setup.rotates THEN issued + 1 ELSE a.with]
  /\ reqs' = [r \in Reqs |-> IF r \in Waiting(a) THEN Resent(r, issued + 1) ELSE reqs[r]]
  /\ asked' = asked \ {a}
  /\ UNCHANGED <<setup, excused>>

\* The waiting requests fail; the session ends, or not.
GivesUp(a, ends) ==
  /\ reqs' = [r \in Reqs |-> IF r \in Waiting(a) THEN [reqs[r] EXCEPT !.at = "idle"] ELSE reqs[r]]
  /\ asked' = asked \ {a}
  /\ tokens' = IF ends THEN NoTokens ELSE tokens
  /\ UNCHANGED setup

RefreshRefused(a) ==
  /\ a \in asked /\ a.with \notin usable
  /\ GivesUp(a, TRUE)
  /\ UNCHANGED <<server, excused>>

\* The request or its answer is lost: before or after the server heard of it.
RefreshLost(a) ==
  /\ a \in asked
  /\ GivesUp(a, EndsWhenLost)
  /\ excused' = TRUE
  /\ \/ UNCHANGED server
     \/ MayIssue /\ a.with \in usable /\ Issues(a)

\* logout(), after the server was told.
SignsOut ==
  /\ tokens # NoTokens
  /\ tokens' = NoTokens /\ excused' = TRUE
  /\ UNCHANGED <<setup, server, reqs, asked>>

\* Access tokens live much longer than a request: one that expires before the
\* retry it was issued for excuses the client.
Expires ==
  /\ MayIssue
  /\ live # {} /\ live' = {}
  /\ excused' = (excused \/ \E r \in Reqs : At(r, "again"))
  /\ UNCHANGED <<setup, tokens, issued, usable, reqs, asked>>

SessionNext ==
  \/ \E r \in Reqs : Sends(r) \/ Answers(r) \/ Forbidden(r) \/ Refused(r) \/ RefusedAgain(r)
  \/ \E a \in asked : Refreshes(a) \/ RefreshRefused(a) \/ RefreshLost(a)
  \/ SignsOut
  \/ Expires

SessionSpec == SessionInit /\ [][SessionNext]_sessionVars

\* Requests that find the access token expired at the same time never cost the
\* user the session: it ends only when the user signs out, the server forbids
\* something, the network fails a refresh, or a token expires before its first
\* use (RefreshLock.ts:8-18, refresh.interceptor.ts:38-65,
\* CabinetClient.ts:280-322).
SessionIsKept == tokens = NoTokens => excused

=============================================================================
