--------------------------- MODULE RequestPipeline ---------------------------
(***************************************************************************)
(* The gates a request passes (api/internal/handler/router.go and          *)
(* api/internal/middleware): which run for which route, in which order,    *)
(* and what a request carries from one to the next while administrators    *)
(* edit the clients table and Redis or PostgreSQL come and go.  Each gate  *)
(* is a step.  Both limiters are the abstract one of SlidingWindow.        *)
(***************************************************************************)
EXTENDS Integers, FiniteSets

CONSTANTS
  Requests,        (* Requests, each made once.                            *)
  Clients,         (* Rows of the clients table; a row stands for its key. *)
  Addresses,       (* What extractIP returns.                              *)
  Visits,          (* What each of them may ask for.                       *)
  Services,        (* Which of "redis" and "postgres" are in use.          *)
  RateLimitRPM,    (* cfg.RateLimitRPM.                                    *)
  AuthRPM,         (* The limit on the auth routes, 5 in the code.         *)
  ClientRPMs,      (* The limits an administrator sets.                    *)
  AdminConfigured, (* cfg.AdminToken is not empty.                         *)
  MetricsEnabled,  (* cfg.MetricsEndpointEnabled.                          *)
  TicksPerSecond,  (* Fineness of the clock.                               *)
  Window,          (* One minute, in ticks.                                *)
  MaxEdits,        (* Bound on edits of the table and on outages.          *)
  MaxTime          (* Bound on the clock.                                  *)

Main == {"generate", "unknown"}
Auth == {"verify", "admin"}

(* A key names a client; any other header, another scheme or the key of    *)
(* nobody, is "stale".  Tokens are right or wrong.                         *)
Credentials == Clients \cup {"none", "stale"}

Visit == [route : Main \cup Auth \cup {"preflight", "probe", "metrics"},
          address : Addresses, credential : Credentials, token : BOOLEAN]

ASSUME PipelineAssumption ==
  /\ IsFiniteSet(Requests)
  /\ Visits \in [Requests -> SUBSET Visit]
  /\ Clients \cap ({"none", "stale"} \cup Addresses) = {}
  /\ Services \subseteq {"redis", "postgres"}
  /\ RateLimitRPM \in Int
  /\ AuthRPM \in Nat \ {0}
  /\ ClientRPMs \subseteq Int
  /\ TicksPerSecond \in Nat \ {0}
  /\ Window \in Nat \ {0}
  /\ MaxTime \in Nat
  /\ MaxEdits \in Nat
  /\ AdminConfigured \in BOOLEAN
  /\ MetricsEnabled \in BOOLEAN

VARIABLES
  now,       (* The clock.                                                 *)
  down,      (* Services that do not answer.                               *)
  row,       (* The clients table.                                         *)
  edits,     (* Edits and outages so far.                                  *)
  pc,        (* The gate each request is in front of.                      *)
  req,       (* What it asks for; history: who was revoked when it came.   *)
  client,    (* ClientInfo in its context.                                 *)
  decision,  (* What the limiter decided for it, if it was asked.          *)
  response,  (* What was sent.                                             *)
  ran        (* Requests whose handler ran or whose token was compared;    *)
             (* history.                                                   *)

environment == <<now, down, row, edits>>
vars == <<environment, pc, req, client, decision, response, ran>>

Times == 0..MaxTime

Row == [rpm : Int, verified : BOOLEAN, revoked : BOOLEAN]

(* A context without client info, and its key in the limiter.              *)
Anonymous == [id |-> "none", rpm |-> 0]

ClientInfo == [id : Clients, rpm : Int] \cup {Anonymous}

Key == {"main"} \X ({"client"} \X Clients \cup {"ip"} \X Addresses)
         \cup {"auth"} \X ({"ip"} \X Addresses)

Decided == [key : Key, rpm : Int, stamp : Times, allowed : BOOLEAN,
            remaining : Nat]

Request == [visit : Visit, revoked : SUBSET Clients]
NoRequest == <<>>

NotAsked == [asked |-> FALSE]
Failed   == [asked |-> TRUE]

(* The codes of the middleware; "HANDLED" is whatever a handler answers.   *)
Codes == {"OK", "NO_CONTENT", "NOT_FOUND", "INVALID_API_KEY",
          "INVALID_ADMIN_TOKEN", "RATE_LIMITED", "SERVICE_UNAVAILABLE",
          "INTERNAL_ERROR", "HANDLED"}

Response == [code : (Codes \ {"RATE_LIMITED"}) \cup {"none"}, retryAfter : {0, 5}]
              \cup [code : {"RATE_LIMITED"}, retryAfter : Nat \ {0}]

NoResponse == [code |-> "none", retryAfter |-> 0]

TypeOK ==
  /\ now \in Times
  /\ down \subseteq Services
  /\ row \in [Clients -> Row]
  /\ edits \in 0..MaxEdits
  /\ pc \in [Requests -> {"idle", "auth", "limit", "token", "handler", "done"}]
  /\ req \in [Requests -> Request \cup {NoRequest}]
  /\ \A r \in Requests :
       pc[r] # "idle" => req[r] \in Request /\ req[r].visit \in Visits[r]
  /\ client \in [Requests -> ClientInfo]
  /\ decision \in [Requests -> Decided \cup {NotAsked, Failed}]
  /\ response \in [Requests -> Response]
  /\ ran \subseteq Requests

Init ==
  /\ now = 0
  /\ down = {}
  /\ row \in [Clients -> [rpm : ClientRPMs, verified : BOOLEAN, revoked : {FALSE}]]
  /\ edits = 0
  /\ pc = [r \in Requests |-> "idle"]
  /\ req = [r \in Requests |-> NoRequest]
  /\ client = [r \in Requests |-> Anonymous]
  /\ decision = [r \in Requests |-> NotAsked]
  /\ response = [r \in Requests |-> NoResponse]
  /\ ran = {}

Goto(r, gate) == pc' = [pc EXCEPT ![r] = gate]

Respond(r, code, retryAfter) ==
  /\ Goto(r, "done")
  /\ response' = [response EXCEPT ![r] = [code |-> code, retryAfter |-> retryAfter]]

Route(r) == req[r].visit.route

-----------------------------------------------------------------------------
(* NewRouter.                                                              *)

(* The first gate of a route.  Faulty variant: the token is compared       *)
(* before the limiter.                                                     *)
FirstGateOfToken(route) == CASE route \in Main  -> "auth"
                             [] route = "admin" -> "token"
                             [] route = "verify" -> "limit"
                             [] OTHER           -> "handler"

FirstGate(route) == CASE route \in Main -> "auth"
                      [] route \in Auth -> "limit"
                      [] OTHER          -> "handler"

Arrive(r) ==
  \E visit \in Visits[r] :
    /\ pc[r] = "idle"
    /\ Goto(r, FirstGate(visit.route))
    /\ req' = [req EXCEPT ![r] =
                  [visit |-> visit, revoked |-> {c \in Clients : row[c].revoked}]]
    /\ UNCHANGED <<environment, client, decision, response, ran>>

-----------------------------------------------------------------------------
(* middleware.Auth.                                                        *)

(* Faulty variant: revoked keys are taken.                                 *)
UsableUnrevoked(c) == row[c].verified

Usable(c) == row[c].verified /\ ~row[c].revoked

(* The row is found, and is a verified client that is not revoked.         *)
KeyAccepted(r) ==
  /\ req[r].visit.credential \in Clients
  /\ "postgres" \in Services \ down
  /\ Usable(req[r].visit.credential)

PassAnonymous(r) ==
  /\ pc[r] = "auth"
  /\ req[r].visit.credential = "none"
  /\ Goto(r, "limit")
  /\ UNCHANGED <<environment, req, client, decision, response, ran>>

PassClient(r) ==
  LET c == req[r].visit.credential
  IN  /\ pc[r] = "auth"
      /\ KeyAccepted(r)
      /\ client' = [client EXCEPT ![r] = [id |-> c, rpm |-> row[c].rpm]]
      /\ Goto(r, "limit")
      /\ UNCHANGED <<environment, req, decision, response, ran>>

(* Any other header answers 401, a lookup that fails as well.              *)
RefuseKey(r) ==
  /\ pc[r] = "auth"
  /\ req[r].visit.credential # "none"
  /\ ~KeyAccepted(r)
  /\ Respond(r, "INVALID_API_KEY", 0)
  /\ UNCHANGED <<environment, req, client, decision, ran>>

-----------------------------------------------------------------------------
(* middleware.RateLimit.                                                   *)

(* Faulty variant: one limiter for all routes.                             *)
LimiterShared(r) == "main"

Limiter(r) == IF Route(r) \in Auth THEN "auth" ELSE "main"

(* The auth routes have a limiter in memory of their own, which never      *)
(* fails.  Faulty variant: they use that of the main routes.               *)
FailsShared(limiter) == "redis" \in down

Fails(limiter) == limiter = "main" /\ "redis" \in down

FailClosed(limiter) == limiter = "auth"

(* Faulty variant: a client is limited by its address.                     *)
BudgetOfAddress(r) == <<Limiter(r), <<"ip", req[r].visit.address>>>>

Budget(r) == <<Limiter(r), IF client[r] # Anonymous
                           THEN <<"client", client[r].id>>
                           ELSE <<"ip", req[r].visit.address>>>>

Limit(r) == CASE Limiter(r) = "auth"    -> AuthRPM
              [] client[r] # Anonymous  -> client[r].rpm
              [] OTHER                  -> RateLimitRPM

Asked == {r \in Requests : decision[r] \in Decided}

Window_ == INSTANCE SlidingWindow
             WITH Keys <- Key, Calls <- Requests, Limits <- [k \in Key |-> Int],
                  answer <- [r \in Asked |-> decision[r]]

Oldest(stamps) == CHOOSE s \in stamps : \A t \in stamps : s <= t

(* A limit that is not positive denies without counting.                   *)
ResetAt(k, rpm) ==
  LET stamps == {decision[d].stamp : d \in Window_!Recent(k, now)}
  IN  IF rpm <= 0 \/ stamps = {} THEN now + Window ELSE Oldest(stamps) + Window

(* Faulty variants: the age of the oldest call instead of what is left of  *)
(* its window; no lower bound.                                             *)
RetryAfterAge(k, rpm) ==
  LET seconds == (now - (ResetAt(k, rpm) - Window)) \div TicksPerSecond
  IN  IF seconds < 1 THEN 1 ELSE seconds
RetryAfterUnclamped(k, rpm) == (ResetAt(k, rpm) - now) \div TicksPerSecond

(* Whole seconds, at least one.                                            *)
RetryAfter(k, rpm) ==
  LET seconds == (ResetAt(k, rpm) - now) \div TicksPerSecond
  IN  IF seconds < 1 THEN 1 ELSE seconds

NextGate(r) == IF Route(r) = "admin" THEN "token" ELSE "handler"

(* The limiter answers; a limit that is not positive needs no Redis.       *)
Decide(r) ==
  LET verdict == Window_!Verdict(Budget(r), Limit(r), now)
  IN  /\ pc[r] = "limit"
      /\ ~Fails(Limiter(r)) \/ Limit(r) <= 0
      /\ decision' = [decision EXCEPT ![r] = verdict]
      /\ IF verdict.allowed
         THEN Goto(r, NextGate(r)) /\ UNCHANGED response
         ELSE Respond(r, "RATE_LIMITED", RetryAfter(Budget(r), Limit(r)))
      /\ UNCHANGED <<environment, req, client, ran>>

(* The limiter fails: 503 where it is closed, on to the handler elsewhere. *)
LimiterFails(r) ==
  /\ pc[r] = "limit"
  /\ Fails(Limiter(r))
  /\ Limit(r) > 0
  /\ decision' = [decision EXCEPT ![r] = Failed]
  /\ IF FailClosed(Limiter(r))
     THEN Respond(r, "SERVICE_UNAVAILABLE", 5)
     ELSE Goto(r, NextGate(r)) /\ UNCHANGED response
  /\ UNCHANGED <<environment, req, client, ran>>

-----------------------------------------------------------------------------
(* middleware.AdminAuth: an empty configured token refuses every request.  *)
CheckToken(r) ==
  /\ pc[r] = "token"
  /\ ran' = ran \cup {r}
  /\ IF AdminConfigured /\ req[r].visit.token
     THEN Goto(r, "handler") /\ UNCHANGED response
     ELSE Respond(r, "INVALID_ADMIN_TOKEN", 0)
  /\ UNCHANGED <<environment, req, client, decision>>

-----------------------------------------------------------------------------
(* The handlers.                                                           *)

Generated == "HANDLED"

(* The auth handlers need the store; the rest of them is AuthFlow's.       *)
AuthAnswer == IF "postgres" \in Services THEN "HANDLED" ELSE "INTERNAL_ERROR"

(* CORS answers every OPTIONS request itself.                              *)
Preflight == "NO_CONTENT"

Probe == "OK"

Metrics == IF MetricsEnabled THEN "OK" ELSE "NOT_FOUND"

(* What the end of a route answers; /api/v1 is a router of its own, so     *)
(* what it does not know has passed the gates.                             *)
Answer(route) == CASE route = "generate"  -> Generated
                   [] route \in Auth      -> AuthAnswer
                   [] route = "preflight" -> Preflight
                   [] route = "probe"     -> Probe
                   [] route = "metrics"   -> Metrics
                   [] OTHER               -> "NOT_FOUND"

Handle(r) ==
  /\ pc[r] = "handler"
  /\ Respond(r, Answer(Route(r)), 0)
  /\ ran' = ran \cup {r}
  /\ UNCHANGED <<environment, req, client, decision>>

-----------------------------------------------------------------------------
(* The rest of the world.                                                  *)

requests == <<pc, req, client, decision, response, ran>>

Edit == edits < MaxEdits /\ edits' = edits + 1

SetRPM == /\ Edit
          /\ \E c \in Clients, rpm \in ClientRPMs :
               row' = [row EXCEPT ![c].rpm = rpm]
          /\ UNCHANGED <<now, down, requests>>

(* By way of a verification link.                                          *)
Verify == /\ Edit
          /\ \E c \in Clients : row' = [row EXCEPT ![c].verified = TRUE]
          /\ UNCHANGED <<now, down, requests>>

Revoke == /\ Edit
          /\ \E c \in Clients :
               /\ ~row[c].revoked
               /\ row' = [row EXCEPT ![c].revoked = TRUE]
          /\ UNCHANGED <<now, down, requests>>

(* A service goes down, or comes back with what it knew.                   *)
Outage == /\ Edit
          /\ \E s \in Services \ down : down' = down \cup {s}
          /\ UNCHANGED <<now, row, requests>>

Recovery == /\ \E s \in down : down' = down \ {s}
            /\ UNCHANGED <<now, row, edits, requests>>

Tick == /\ now < MaxTime
        /\ now' = now + 1
        /\ UNCHANGED <<down, row, edits, requests>>

Step(r) == \/ Arrive(r) \/ PassAnonymous(r) \/ PassClient(r) \/ RefuseKey(r)
           \/ Decide(r) \/ LimiterFails(r) \/ CheckToken(r) \/ Handle(r)

Next == \/ \E r \in Requests : Step(r)
        \/ SetRPM \/ Verify \/ Revoke \/ Outage \/ Recovery \/ Tick

Spec == Init /\ [][Next]_vars

-----------------------------------------------------------------------------
(* Properties.                                                             *)

(* Whose budget a request is to be counted against.                        *)
Owner(r) == IF Route(r) \in Main /\ req[r].visit.credential \in Clients
            THEN req[r].visit.credential
            ELSE req[r].visit.address

(* Decided requests of the same group of routes and the same owner in the  *)
(* window that ends with the decision on r.                                *)
Rivals(r) ==
  {d \in Asked : /\ Route(d) \in Auth <=> Route(r) \in Auth
                 /\ Owner(d) = Owner(r)
                 /\ decision[d].stamp > decision[r].stamp - Window
                 /\ decision[d].stamp <= decision[r].stamp}

(* A client is counted by its row and not by the address it calls from,    *)
(* and an address apart from the clients behind it (ratelimit.go:45-55):   *)
(* of what a limiter let through to the handlers in a window, no owner has *)
(* more than the largest limit it was given there.                         *)
OwnerBudget ==
  \A r \in Asked \cap ran :
    LET served == Rivals(r) \cap ran
    IN  \E e \in served : Cardinality(served) <= decision[e].rpm

(* Nobody pays for another (router.go:42-64): a 429 is owed to as many     *)
(* admitted requests of the same owner on the same group of routes.        *)
RefusalIsDeserved ==
  \A r \in Asked :
    ~decision[r].allowed =>
      Cardinality({d \in Rivals(r) : decision[d].allowed}) >= decision[r].rpm

(* Whatever fails and however the routes are mixed (router.go:42-58), an   *)
(* address has no more than AuthRPM requests in a window whose admin token *)
(* is compared or whose auth handler runs.                                 *)
AuthWorkIsBounded ==
  \A r \in ran :
    Route(r) \in Auth =>
      /\ r \in Asked
      /\ Cardinality({d \in Rivals(r) : decision[d].allowed}) <= AuthRPM

(* A key that was revoked before a request arrived, one that was never     *)
(* verified and one of nobody serve nothing (auth.go:23-57), and never     *)
(* turn into an anonymous request (architecture.md:141).                   *)
RevokedKeyStops ==
  \A r \in ran :
    LET c == req[r].visit.credential
    IN  Route(r) \in Main /\ c # "none" =>
          /\ c \in Clients
          /\ row[c].verified
          /\ c \notin req[r].revoked

(* An outage of Redis (ratelimit.go:60-85) refuses nobody on the main      *)
(* routes and does not touch the auth routes, whose limiter is another.    *)
OutageOpensMainOnly ==
  \A r \in Requests :
    decision[r] = Failed =>
      /\ Route(r) \in Main
      /\ pc[r] = "done" => response[r].code \in {"HANDLED", "NOT_FOUND"}

(* r is decided after f was refused and its client waited, with nobody     *)
(* admitted in between and the same limit all along.                       *)
Retries(f, r, wait) ==
  LET same == {d \in Asked : /\ Route(d) \in Auth <=> Route(f) \in Auth
                             /\ Owner(d) = Owner(f)}
  IN  /\ pc[r] = "limit" /\ decision'[r] \in Decided
      /\ response[f].code = "RATE_LIMITED"
      /\ Route(r) \in Auth <=> Route(f) \in Auth
      /\ Owner(r) = Owner(f)
      /\ decision'[r].rpm > 0
      /\ \A d \in same : /\ decision[d].rpm = decision'[r].rpm
                         /\ decision[d].allowed =>
                              decision[d].stamp <= decision[f].stamp
      /\ now >= decision[f].stamp + wait * TicksPerSecond

(* Retry-After drops the fraction of the last second (ratelimit.go:98-103):*)
(* a client that waits one second more is let in.                          *)
RetryAfterPlusOne ==
  [][\A f, r \in Requests :
       Retries(f, r, response[f].retryAfter + 1) => decision'[r].allowed]_vars

=============================================================================
