------------------------------ MODULE Lifecycle ------------------------------
(***************************************************************************)
(* One life of the process (api/cmd/server/main.go): the configuration it  *)
(* loads, what run() opens and in which order, the server, signals, the    *)
(* shutdown and the deferred closers, while requests use what was opened.  *)
(* The goroutines are main, the one that listens, and one per request.     *)
(* What a constructor other than those below opened before it failed is    *)
(* left out: it ends with the process.                                     *)
(***************************************************************************)
EXTENDS Integers, Sequences, SequencesExt

CONSTANTS
  Requests,     (* Requests, each made once.                               *)
  Uses,         (* What each uses in turn: "limiter", "db" and "mail".     *)
  Environments, (* The environment variables the process may find.         *)
  MaxSignals    (* Bound on SIGINT and SIGTERM together.                   *)

(* "bad" values do not parse.                                              *)
Unset == ""
Environment == [db : {Unset, "url"}, otel : {Unset, "true", "false", "bad"},
                backend : {Unset, "redis", "other"}, redis : {Unset, "url", "bad"}]

(* In the order in which they are shut down.                               *)
Providers == <<"tracer", "meter", "logger">>

ASSUME LifecycleAssumption ==
  /\ Uses \in [Requests -> Seq({"limiter", "db", "mail"})]
  /\ Environments \subseteq Environment
  /\ MaxSignals \in Nat

VARIABLES
  env,       (* The environment.                                           *)
  at,        (* Where main is.                                             *)
  result,    (* What run() returned.                                       *)
  deferred,  (* The deferred functions, the one to run first first.        *)
  open,      (* What is open.                                              *)
  flush,     (* How the shutdown of each provider went.                    *)
  server,    (* The goroutine that runs ListenAndServe.                    *)
  serverErr, (* Its channel holds an error.                                *)
  quit,      (* The channel of signals, with room for one, is full.        *)
  signals,   (* Signals sent so far.                                       *)
  stage,     (* How far each request is.                                   *)
  todo,      (* What it still has to use.                                  *)
  late       (* Requests that found closed what they needed; history.      *)

main == <<at, result, deferred>>
listener == <<server, serverErr>>
requests == <<stage, todo, late>>
vars == <<env, main, open, flush, listener, quit, signals, requests>>

Closers == {"telemetry", "db", "limiter"}
Resources == {"tracer", "meter", "logger", "db", "limiter"}

TypeOK ==
  /\ env \in Environments
  /\ at \in {"telemetry", "store", "migrate", "limiter", "serve", "notify",
             "select", "shutdown", "closing", "pool", "exited", "killed"}
  /\ result \in {"none", "ok", "expired", "server", "start"}
  /\ deferred \in {<<>>, <<"telemetry">>, <<"db", "telemetry">>,
                   <<"limiter", "db", "telemetry">>}
  /\ open \subseteq Resources
  /\ flush \in [{"tracer", "meter", "logger"} ->
                  {"none", "flushed", "refused", "hung", "cut"}]
  /\ server \in {"off", "starting", "listening", "ended"}
  /\ serverErr \in BOOLEAN
  /\ quit \in BOOLEAN
  /\ signals \in 0..MaxSignals
  /\ stage \in [Requests -> {"idle", "active", "holding", "answered"}]
  /\ todo \in [Requests -> Seq({"limiter", "db", "mail"})]
  /\ late \subseteq Requests

-----------------------------------------------------------------------------
(* config.Load.                                                            *)

GetEnv(value, default) == IF value = Unset THEN default ELSE value

(* A value that does not parse counts as none.                             *)
GetEnvBool(value, default) ==
  IF value \in {"true", "false"} THEN value = "true" ELSE default

Config == [db      |-> GetEnv(env.db, Unset),
           otel    |-> GetEnvBool(env.otel, TRUE),
           backend |-> GetEnv(env.backend, "memory"),
           redis   |-> GetEnv(env.redis, Unset)]

Init ==
  /\ env \in Environments
  /\ at = "telemetry"
  /\ result = "none"
  /\ deferred = <<>>
  /\ open = {}
  /\ flush = [p \in Range(Providers) |-> "none"]
  /\ server = "off"
  /\ serverErr = FALSE
  /\ quit = FALSE
  /\ signals = 0
  /\ stage = [r \in Requests |-> "idle"]
  /\ todo = Uses
  /\ late = {}

-----------------------------------------------------------------------------
(* run(): each part is opened and its closer deferred, or run() returns.   *)

(* Faulty variant: the closers run in the order of their registration.     *)
DeferLast(closer) == deferred' = Append(deferred, closer)

Defer(closer) == deferred' = <<closer>> \o deferred

(* Faulty variant: log.Fatal, which runs no deferred function.             *)
ReturnFatal(error) ==
  /\ at' = IF error = "ok" THEN "closing" ELSE "exited"
  /\ result' = error
  /\ UNCHANGED deferred

Return(error) == at' = "closing" /\ result' = error /\ UNCHANGED deferred

starting == <<env, flush, listener, quit, signals, requests>>

Opened(parts, closer, next) ==
  /\ open' = open \cup parts
  /\ Defer(closer)
  /\ at' = next
  /\ UNCHANGED result

(* Without telemetry nothing is opened, and a closer is deferred anyway.   *)
InitTelemetry ==
  /\ at = "telemetry"
  /\ Opened(IF Config.otel THEN Range(Providers) ELSE {}, "telemetry", "store")
  /\ UNCHANGED starting

TelemetryFails ==
  /\ at = "telemetry"
  /\ Config.otel
  /\ Return("start")
  /\ UNCHANGED <<open, starting>>

NoStore ==
  /\ at = "store"
  /\ Config.db = Unset
  /\ Opened({}, "db", "limiter")
  /\ UNCHANGED starting

(* The pool is there before it is pinged and the migrations run.           *)
Connect ==
  /\ at = "store"
  /\ Config.db # Unset
  /\ open' = open \cup {"db"}
  /\ at' = "migrate"
  /\ UNCHANGED <<result, deferred, starting>>

ConnectFails ==
  /\ at = "store"
  /\ Config.db # Unset
  /\ Return("start")
  /\ UNCHANGED <<open, starting>>

Migrate ==
  /\ at = "migrate"
  /\ Opened({}, "db", "limiter")
  /\ UNCHANGED starting

MigrateFails ==
  /\ at = "migrate"
  /\ open' = open \ {"db"}
  /\ Return("start")
  /\ UNCHANGED starting

(* A limiter in memory always comes up.                                    *)
InitRateLimiter ==
  /\ at = "limiter"
  /\ Config.backend = "redis" => Config.redis = "url"
  /\ Opened({"limiter"}, "limiter", "serve")
  /\ UNCHANGED starting

(* Redis needs a URL that parses.  Where it does not answer, its client    *)
(* stays open.                                                             *)
LimiterFails ==
  /\ at = "limiter"
  /\ Config.backend = "redis"
  /\ open' = IF Config.redis = "url" THEN open \cup {"limiter"} ELSE open
  /\ Return("start")
  /\ UNCHANGED starting

-----------------------------------------------------------------------------
(* serve().                                                                *)

serving == <<env, flush, signals, requests>>

Serve ==
  /\ at = "serve"
  /\ at' = "notify"
  /\ server' = "starting"
  /\ UNCHANGED <<result, deferred, open, serverErr, quit, serving>>

Notify ==
  /\ at = "notify"
  /\ at' = "select"
  /\ UNCHANGED <<result, deferred, open, listener, quit, serving>>

TakeError ==
  /\ at = "select"
  /\ serverErr
  /\ serverErr' = FALSE
  /\ Return("server")
  /\ UNCHANGED <<open, server, quit, serving>>

(* Shutdown closes the listener first, which ends ListenAndServe.          *)
TakeSignal ==
  /\ at = "select"
  /\ quit
  /\ quit' = FALSE
  /\ at' = "shutdown"
  /\ server' = "ended"
  /\ serverErr' = TRUE
  /\ UNCHANGED <<result, deferred, open, serving>>

Active == {r \in Requests : stage[r] \in {"active", "holding"}}

(* Faulty variant: done as soon as the listener is closed.                 *)
IdleListener == server = "ended"

Idle == Active = {}

ShutdownDone ==
  /\ at = "shutdown"
  /\ Idle
  /\ Return("ok")
  /\ UNCHANGED <<open, listener, quit, serving>>

(* Faulty variants: the error is dropped; no deadline.                     *)
ShutdownExpiresUnnoticed ==
  /\ at = "shutdown"
  /\ ~Idle
  /\ Return("ok")
  /\ UNCHANGED <<open, listener, quit, serving>>
ShutdownNeverExpires == FALSE /\ UNCHANGED vars

(* Thirty seconds are over.                                                *)
ShutdownExpires ==
  /\ at = "shutdown"
  /\ ~Idle
  /\ Return("expired")
  /\ UNCHANGED <<open, listener, quit, serving>>

-----------------------------------------------------------------------------
(* The deferred functions.                                                 *)

closing == <<env, listener, quit, signals, requests>>

Closing(closer) == at = "closing" /\ deferred # <<>> /\ Head(deferred) = closer

CloseLimiter ==
  /\ Closing("limiter")
  /\ open' = open \ {"limiter"}
  /\ deferred' = Tail(deferred)
  /\ UNCHANGED <<at, result, flush, closing>>

(* pool.Close hands out no more connections and waits for those it did.    *)
ClosePool ==
  /\ Closing("db")
  /\ open' = open \ {"db"}
  /\ at' = "pool"
  /\ UNCHANGED <<result, deferred, flush, closing>>

PoolClosed ==
  /\ at = "pool"
  /\ \A r \in Requests : stage[r] # "holding"
  /\ at' = "closing"
  /\ deferred' = Tail(deferred)
  /\ UNCHANGED <<result, open, flush, closing>>

Pending == {i \in DOMAIN Providers : flush[Providers[i]] = "none"}

(* Faulty variant: the first error ends the shutdown of the providers.     *)
NextProviderUntilError ==
  {i \in Pending : \A j \in 1..(i - 1) : flush[Providers[j]] = "flushed"}

NextProvider == {i \in Pending : \A j \in Pending : i <= j}

(* Ten seconds for the three: one whose exporter hangs leaves none.        *)
Outcomes == IF \E p \in DOMAIN flush : flush[p] = "hung"
            THEN {"cut"} ELSE {"flushed", "refused", "hung"}

ShutdownProvider ==
  /\ Closing("telemetry")
  /\ \E i \in NextProvider, outcome \in Outcomes :
       LET p == Providers[i]
       IN  /\ p \in open
           /\ flush' = [flush EXCEPT ![p] = outcome]
           /\ open' = open \ {p}
  /\ UNCHANGED <<at, result, deferred, closing>>

(* The error is logged and forgotten.                                      *)
TelemetryShut ==
  /\ Closing("telemetry")
  /\ ~ \E i \in NextProvider : Providers[i] \in open
  /\ deferred' = Tail(deferred)
  /\ UNCHANGED <<at, result, open, flush, closing>>

(* main() ends with status 0, or 1 after an error.                         *)
Exit ==
  /\ at = "closing"
  /\ deferred = <<>>
  /\ at' = "exited"
  /\ UNCHANGED <<result, deferred, open, flush, closing>>

-----------------------------------------------------------------------------
(* The goroutine that listens, and the requests.                           *)

Alive == at \notin {"exited", "killed"}

outside == <<env, main, open, flush, quit, signals>>

Listen ==
  /\ Alive
  /\ server = "starting"
  /\ server' = "listening"
  /\ UNCHANGED <<serverErr, outside, requests>>

(* The port is taken, or the listener breaks.                              *)
ListenFails ==
  /\ Alive
  /\ server \in {"starting", "listening"}
  /\ server' = "ended"
  /\ serverErr' = TRUE
  /\ UNCHANGED <<outside, requests>>

Arrive(r) ==
  /\ Alive
  /\ server = "listening"
  /\ stage[r] = "idle"
  /\ stage' = [stage EXCEPT ![r] = "active"]
  /\ UNCHANGED <<todo, late, outside, listener>>

Ahead(r, part) == Alive /\ stage[r] = "active" /\ todo[r] # <<>> /\ Head(todo[r]) = part

Done(r) == todo' = [todo EXCEPT ![r] = Tail(@)]

(* A limiter that is closed lets the request through.                      *)
UseLimiter(r) ==
  /\ Ahead(r, "limiter")
  /\ Done(r)
  /\ late' = IF "limiter" \in open THEN late ELSE late \cup {r}
  /\ UNCHANGED <<stage, outside, listener>>

(* Without a database there is nothing to ask.                             *)
SkipStore(r) ==
  /\ \E part \in {"db", "mail"} : Ahead(r, part)
  /\ Config.db = Unset
  /\ Done(r)
  /\ UNCHANGED <<stage, late, outside, listener>>

Acquire(r) ==
  /\ Ahead(r, "db")
  /\ "db" \in open
  /\ stage' = [stage EXCEPT ![r] = "holding"]
  /\ UNCHANGED <<todo, late, outside, listener>>

Release(r) ==
  /\ Alive
  /\ stage[r] = "holding"
  /\ stage' = [stage EXCEPT ![r] = "active"]
  /\ Done(r)
  /\ UNCHANGED <<late, outside, listener>>

(* No connection from a closed pool: the handler answers an error.         *)
NoConnection(r) ==
  /\ Ahead(r, "db")
  /\ Config.db # Unset
  /\ "db" \notin open
  /\ todo' = [todo EXCEPT ![r] = <<>>]
  /\ late' = late \cup {r}
  /\ UNCHANGED <<stage, outside, listener>>

(* smtp.SendMail has no deadline.                                          *)
SendMail(r) ==
  /\ Ahead(r, "mail")
  /\ Config.db # Unset
  /\ Done(r)
  /\ UNCHANGED <<stage, late, outside, listener>>

Answer(r) ==
  /\ Alive
  /\ stage[r] = "active"
  /\ todo[r] = <<>>
  /\ stage' = [stage EXCEPT ![r] = "answered"]
  /\ UNCHANGED <<todo, late, outside, listener>>

-----------------------------------------------------------------------------
(* Signals.                                                                *)

(* Before signal.Notify a signal ends the process; after it, it waits in   *)
(* the channel, or is lost when one already waits.                         *)
Notified == at \in {"select", "shutdown"} \/ (at \in {"closing", "pool"} /\ server # "off")

Signal ==
  /\ Alive
  /\ signals < MaxSignals
  /\ signals' = signals + 1
  /\ IF Notified
     THEN quit' = TRUE /\ UNCHANGED main
     ELSE at' = "killed" /\ UNCHANGED <<result, deferred, quit>>
  /\ UNCHANGED <<env, open, flush, listener, requests>>

(* SIGKILL: docker stop sends it ten seconds after SIGTERM.                *)
Kill ==
  /\ Alive
  /\ at' = "killed"
  /\ UNCHANGED <<env, result, deferred, open, flush, listener, quit, signals, requests>>

-----------------------------------------------------------------------------

Start == \/ InitTelemetry \/ TelemetryFails \/ NoStore \/ Connect \/ ConnectFails
         \/ Migrate \/ MigrateFails \/ InitRateLimiter \/ LimiterFails
         \/ Serve \/ Notify

Stop == \/ TakeError \/ TakeSignal \/ ShutdownDone \/ ShutdownExpires
        \/ CloseLimiter \/ ClosePool \/ PoolClosed
        \/ ShutdownProvider \/ TelemetryShut \/ Exit

Work(r) == \/ UseLimiter(r) \/ SkipStore(r) \/ Acquire(r) \/ Release(r)
           \/ NoConnection(r) \/ Answer(r)

Next == \/ Start \/ Stop \/ Listen \/ ListenFails
        \/ \E r \in Requests : Arrive(r) \/ Work(r) \/ SendMail(r)
        \/ Signal \/ Kill

Spec == Init /\ [][Next]_vars

(* Time passes and main runs; a request takes its next step unless it is   *)
(* sending mail.                                                           *)
FairSpec == /\ Spec
            /\ WF_vars(Start) /\ WF_vars(Stop)
            /\ \A r \in Requests : WF_vars(Work(r))

-----------------------------------------------------------------------------
(* Properties.                                                             *)

Returned == at = "exited"

(* Deferred closers run after Shutdown (main.go:123-168, 198-203): no      *)
(* request meets a closed limiter or pool, unless the thirty seconds ran   *)
(* out or the listener broke.                                              *)
ClosedAfterUse == late # {} => result \in {"expired", "server"}

(* Whatever fails at whatever point of run() (main.go:115-168), the pool   *)
(* and the limiter are closed while the providers that record their        *)
(* closing are still there, and nothing is left open when main returns.    *)
(* The Redis client of a failed ping is the exception (redis.go:86-88).    *)
NothingLeftOpen ==
  /\ Range(deferred) \cap {"db", "limiter"} # {} /\ Config.otel /\ Alive =>
       Range(Providers) \subseteq open
  /\ Returned => open \subseteq {"limiter"}
  /\ Returned /\ open # {} => server = "off" /\ Config.backend = "redis"

(* One provider that fails does not keep the others from being shut down   *)
(* (telemetry.go:134-148): all three are, and only one whose exporter      *)
(* hangs takes the time of those after it.                                 *)
ProvidersAreFlushed ==
  Returned /\ (\E p \in DOMAIN flush : flush[p] # "none") =>
    \A i \in DOMAIN Providers :
      \/ flush[Providers[i]] \in {"flushed", "refused", "hung"}
      \/ /\ flush[Providers[i]] = "cut"
         /\ \E j \in 1..(i - 1) : flush[Providers[j]] = "hung"

(* Exit status 0 means that a signal was taken and every request that was  *)
(* accepted has been answered (main.go:193-203).                           *)
CleanExitAnswersAll ==
  Returned /\ result = "ok" => signals > 0 /\ Active = {}

(* A signal that main has been asked to be told of ends the process, hung  *)
(* mail or not (main.go:198-201): what waits in pool.Close are statements. *)
SignalEnds == quit ~> ~Alive

=============================================================================
