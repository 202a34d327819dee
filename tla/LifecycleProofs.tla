---------------------------- MODULE LifecycleProofs ----------------------------
(***************************************************************************)
(* What holds of one life of the process for any requests, whatever they   *)
(* use, and any environment.                                               *)
(*                                                                         *)
(* The properties of Lifecycle speak of the end; the invariant says what   *)
(* is deferred and what is open at each place main can be.                 *)
(***************************************************************************)
EXTENDS Lifecycle, SequenceTheorems, TLAPS

Names == {"tracer", "meter", "logger"}

(* The stacks of deferred functions, by what was pushed last.              *)
Bare          == <<>>
WithTelemetry == <<"telemetry">>
WithStore     == <<"db", "telemetry">>
WithLimiter   == <<"limiter", "db", "telemetry">>

Stack == {Bare, WithTelemetry, WithStore, WithLimiter}

(* TypeOK, but for the stack.                                              *)
Types ==
  /\ env \in Environments
  /\ at \in {"telemetry", "store", "migrate", "limiter", "serve", "notify",
             "select", "shutdown", "closing", "pool", "exited", "killed"}
  /\ result \in {"none", "ok", "expired", "server", "start"}
  /\ open \subseteq Resources
  /\ flush \in [Names -> {"none", "flushed", "refused", "hung", "cut"}]
  /\ server \in {"off", "starting", "listening", "ended"}
  /\ serverErr \in BOOLEAN
  /\ quit \in BOOLEAN
  /\ signals \in 0..MaxSignals
  /\ stage \in [Requests -> {"idle", "active", "holding", "answered"}]
  /\ todo \in [Requests -> Seq({"limiter", "db", "mail"})]
  /\ late \subseteq Requests

(* What is deferred follows from where main is.                            *)
Stacked ==
  /\ deferred \in Stack
  /\ at = "telemetry" => deferred = Bare
  /\ at \in {"store", "migrate"} => deferred = WithTelemetry
  /\ at \in {"limiter", "pool"} => deferred = WithStore
  /\ at \in {"serve", "notify", "select", "shutdown"} =>
       deferred = WithLimiter
  /\ at = "exited" => deferred = Bare
  /\ at \notin {"closing", "pool", "exited", "killed"} => result = "none"

(* The pool and the limiter are open from their construction on until      *)
(* their closer ran; no closer knows of the Redis client of a failed ping. *)
PartsOpen ==
  /\ at = "telemetry" => open = {}
  /\ at = "pool" => "db" \notin open
  /\ /\ at \in {"migrate", "limiter", "serve", "notify", "select", "shutdown"}
     /\ Config.db # Unset
     => "db" \in open
  /\ at \in {"serve", "notify", "select", "shutdown"} => "limiter" \in open
  /\ "db" \in open =>
       \/ at \in {"migrate", "killed"}
       \/ deferred \in {WithStore, WithLimiter}
  /\ "limiter" \in open =>
       \/ at = "killed"
       \/ deferred = WithLimiter
       \/ /\ at \in {"closing", "pool", "exited"}
          /\ server = "off"
          /\ Config.backend = "redis"

(* The listener lives while main is in serve(), requests come from it.     *)
ServerPlace ==
  /\ at \in {"telemetry", "store", "migrate", "limiter", "serve"} => server = "off"
  /\ server \in {"starting", "listening"} => at \in {"notify", "select", "killed"}
  /\ serverErr \/ at = "shutdown" => server = "ended"
  /\ result = "start" \/ server = "off" => server = "off" /\ Active = {}
  /\ quit \/ at = "shutdown" => signals > 0
  /\ result = "ok" => server = "ended" /\ Active = {} /\ signals > 0

(* What holds a connection has it to give back.                            *)
Holders == \A r \in Requests : stage[r] = "holding" => todo[r] # <<>>

(* Requests outlive serve() only if it gave up on them.                    *)
ServedInTime ==
  Active # {} => \/ at \in {"notify", "select", "shutdown", "killed"}
                 \/ result \in {"expired", "server"}

(* The providers come and go together, in their order.                     *)
ProvidersOpen ==
  /\ (\E p \in Names : flush[p] # "none") =>
       /\ at \in {"closing", "exited", "killed"}
       /\ deferred \in {Bare, WithTelemetry}
       /\ \A p \in Names : p \in open <=> flush[p] = "none"
  /\ (\A p \in Names : flush[p] = "none") =>
       /\ Names \subseteq open \/ Names \cap open = {}
       /\ Config.otel /\ deferred # Bare => Names \subseteq open
  /\ deferred = Bare => Names \cap open = {}
  /\ flush["tracer"] = "none" => flush["meter"] = "none"
  /\ flush["meter"] = "none" => flush["logger"] = "none"
  /\ flush["tracer"] # "cut"
  /\ flush["meter"] = "cut" => flush["tracer"] = "hung"
  /\ flush["logger"] = "cut" => "hung" \in {flush["tracer"], flush["meter"]}

IInv == /\ Types
        /\ Stacked
        /\ PartsOpen
        /\ ServerPlace
        /\ Holders
        /\ ServedInTime
        /\ ProvidersOpen
        /\ ClosedAfterUse

-----------------------------------------------------------------------------
(* The three providers, by position and by name.                           *)
LEMMA ProviderNames ==
  /\ Range(Providers) = Names
  /\ DOMAIN Providers = 1..3
  /\ Providers[1] = "tracer" /\ Providers[2] = "meter" /\ Providers[3] = "logger"
<1>1. /\ DOMAIN Providers = 1..3
      /\ Providers[1] = "tracer" /\ Providers[2] = "meter" /\ Providers[3] = "logger"
  BY DEF Providers
<1> QED
  BY <1>1 DEF Range, Names

(* Sequences of the same two or three elements are equal.                  *)
LEMMA SamePairs ==
  ASSUME NEW S, NEW u \in Seq(S), NEW v \in Seq(S),
         Len(u) = 2, Len(v) = 2, u[1] = v[1], u[2] = v[2]
  PROVE  u = v
<1>1. \A n \in 1..Len(u) : u[n] = v[n]
  OBVIOUS
<1> QED
  BY <1>1, SeqEqual

(* Triples that agree everywhere are equal.                                *)
LEMMA SameTriples ==
  ASSUME NEW S, NEW u \in Seq(S), NEW v \in Seq(S), Len(u) = 3, Len(v) = 3,
         u[1] = v[1], u[2] = v[2], u[3] = v[3]
  PROVE  u = v
<1>1. \A n \in 1..Len(u) : u[n] = v[n]
  OBVIOUS
<1> QED
  BY <1>1, SeqEqual

(* One element in front of one, and of two.                                *)
LEMMA PushOnOne ==
  ASSUME NEW S, NEW a \in S, NEW b \in S
  PROVE  <<a>> \o <<b>> = <<a, b>>
<1> DEFINE u == <<a>> \o <<b>>
           v == <<a, b>>
<1>1. /\ <<a>> \in Seq(S) /\ Len(<<a>>) = 1 /\ <<a>>[1] = a
      /\ <<b>> \in Seq(S) /\ Len(<<b>>) = 1 /\ <<b>>[1] = b
  OBVIOUS
<1>2. u \in Seq(S) /\ Len(u) = 2 /\ u[1] = a /\ u[2] = b
  BY ONLY <1>1, ConcatProperties
<1>3. v \in Seq(S) /\ Len(v) = 2 /\ v[1] = a /\ v[2] = b
  OBVIOUS
<1> HIDE DEF u, v
<1>4. u = v
  BY <1>2, <1>3, SamePairs
<1> QED
  BY <1>4 DEF u, v

(* One more closer in front of two.                                        *)
LEMMA PushOnTwo ==
  ASSUME NEW S, NEW a \in S, NEW b \in S, NEW c \in S
  PROVE  <<a>> \o <<b, c>> = <<a, b, c>>
<1> DEFINE u == <<a>> \o <<b, c>>
           v == <<a, b, c>>
<1>1. /\ <<a>> \in Seq(S) /\ Len(<<a>>) = 1 /\ <<a>>[1] = a
      /\ <<b, c>> \in Seq(S) /\ Len(<<b, c>>) = 2
      /\ <<b, c>>[1] = b /\ <<b, c>>[2] = c
  OBVIOUS
<1>2. u \in Seq(S) /\ Len(u) = 3 /\ u[1] = a /\ u[2] = b /\ u[3] = c
  BY ONLY <1>1, ConcatProperties
<1>3. v \in Seq(S) /\ Len(v) = 3 /\ v[1] = a /\ v[2] = b /\ v[3] = c
  OBVIOUS
<1> HIDE DEF u, v
<1>4. u = v
  BY <1>2, <1>3, SameTriples
<1> QED
  BY <1>4 DEF u, v

(* What run() pushes on the stack, and what its end pops.                  *)
LEMMA Pushes ==
  /\ <<"telemetry">> \o Bare = WithTelemetry
  /\ <<"db">> \o WithTelemetry = WithStore
  /\ <<"limiter">> \o WithStore = WithLimiter
<1>1. "telemetry" \in Closers /\ "db" \in Closers /\ "limiter" \in Closers
  BY DEF Closers
<1>2. <<"telemetry">> \o <<>> = <<"telemetry">>
  OBVIOUS
<1> QED
  BY <1>1, <1>2, PushOnOne, PushOnTwo, Zenon
     DEF Bare, WithTelemetry, WithStore, WithLimiter

(* What closes first, and what is left then.                               *)
LEMMA Pops ==
  /\ Bare = <<>>
  /\ Head(WithTelemetry) = "telemetry" /\ Tail(WithTelemetry) = Bare
  /\ Head(WithStore) = "db" /\ Tail(WithStore) = WithTelemetry
  /\ Head(WithLimiter) = "limiter" /\ Tail(WithLimiter) = WithStore
<1>1. /\ Tail(<<"telemetry">>) = <<>>
      /\ Head(<<"telemetry">>) = "telemetry"
      /\ Head(<<"db", "telemetry">>) = "db"
      /\ Head(<<"limiter", "db", "telemetry">>) = "limiter"
  OBVIOUS
<1>2. Tail(<<"db", "telemetry">>) = <<"telemetry">>
  OBVIOUS
<1>3. Tail(<<"limiter", "db", "telemetry">>) = <<"db", "telemetry">>
  OBVIOUS
<1> QED
  BY <1>1, <1>2, <1>3, Zenon DEF Bare, WithTelemetry, WithStore, WithLimiter

(* No two of the stacks are the same.                                      *)
LEMMA StacksDiffer ==
  /\ WithTelemetry # Bare /\ WithStore # Bare /\ WithLimiter # Bare
  /\ WithStore # WithTelemetry /\ WithLimiter # WithTelemetry
  /\ WithLimiter # WithStore
BY DEF Bare, WithTelemetry, WithStore, WithLimiter

(* TypeOK in terms of the names above.                                     *)
LEMMA TypesAreTypeOK == Types /\ deferred \in Stack <=> TypeOK
BY DEF Types, TypeOK, Stack, Bare, WithTelemetry, WithStore, WithLimiter, Names

(* Who is active is a matter of the stages.                                *)
LEMMA SameActive ==
  ASSUME UNCHANGED stage
  PROVE  Active' = Active
BY DEF Active

(* The configuration is a matter of the environment.                       *)
LEMMA SameConfig ==
  ASSUME UNCHANGED env
  PROVE  Config' = Config
BY DEF Config, GetEnv, GetEnvBool

-----------------------------------------------------------------------------
(* The process has just started.                                           *)
LEMMA InitIInv == Init => IInv
<1> SUFFICES ASSUME Init
             PROVE  IInv
  OBVIOUS
<1>1. Types /\ deferred = Bare
  <2>1. flush = [p \in Names |-> "none"] /\ todo = Uses /\ env \in Environments
    BY ProviderNames DEF Init
  <2>2. Uses \in [Requests -> Seq({"limiter", "db", "mail"})] /\ 0 \in 0..MaxSignals
    BY LifecycleAssumption
  <2> QED
    BY <2>1, <2>2 DEF Init, Types, Bare
<1>2. Active = {}
  BY DEF Init, Active
<1>3. \A p \in Names : flush[p] = "none"
  BY ProviderNames DEF Init
<1> QED
  BY <1>1, <1>2, <1>3, StacksDiffer
     DEF Init, IInv, Stacked, Stack, PartsOpen, ServerPlace, Holders, ServedInTime,
         ProvidersOpen, ClosedAfterUse, Names

(* The steps of run() up to the server.                                    *)
LEMMA StartStep ==
  ASSUME IInv, Start
  PROVE  IInv'
<1> USE DEF IInv
<1>1. UNCHANGED <<env, stage, todo, late, signals, quit, serverErr, flush>>
  BY DEF Start, InitTelemetry, TelemetryFails, NoStore, Connect, ConnectFails,
         Migrate, MigrateFails, InitRateLimiter, LimiterFails, Serve, Notify,
         starting, serving, listener, requests
<1>2. Active' = Active /\ Config' = Config
  BY <1>1, SameActive, SameConfig
<1>3. \/ late = {} /\ (\A p \in Names : flush[p] = "none") /\ Active = {}
      \/ Notify
  BY DEF Start, InitTelemetry, TelemetryFails, NoStore, Connect, ConnectFails,
         Migrate, MigrateFails, InitRateLimiter, LimiterFails, Serve,
         Stacked, ServerPlace, ClosedAfterUse, ProvidersOpen, Names
<1> USE <1>1, <1>2
<1>4. CASE InitTelemetry
  BY <1>4, <1>3, Pushes, Pops, ProviderNames
     DEF InitTelemetry, Opened, Defer, starting, listener, requests, Notify, Types, Stacked, Stack,
         PartsOpen, ServerPlace, Holders, ServedInTime, ProvidersOpen, ClosedAfterUse,
         Names, Resources
<1>5. CASE TelemetryFails
  BY <1>5, <1>3, StacksDiffer
     DEF TelemetryFails, Return, starting, listener, requests, Notify, Types, Stacked, Stack,
         PartsOpen, ServerPlace, Holders, ServedInTime, ProvidersOpen, ClosedAfterUse, Names
<1>6. CASE NoStore
  BY <1>6, <1>3, Pushes, Pops, StacksDiffer
     DEF NoStore, Opened, Defer, starting, listener, requests, Notify, Types, Stacked, Stack,
         PartsOpen, ServerPlace, Holders, ServedInTime, ProvidersOpen, ClosedAfterUse, Names
<1>7. CASE Connect
  BY <1>7, <1>3, StacksDiffer
     DEF Connect, starting, listener, requests, Notify, Types, Stacked, Stack, PartsOpen,
         ServerPlace, Holders, ServedInTime, ProvidersOpen, ClosedAfterUse, Names, Resources
<1>8. CASE ConnectFails
  BY <1>8, <1>3, StacksDiffer
     DEF ConnectFails, Return, starting, listener, requests, Notify, Types, Stacked, Stack,
         PartsOpen, ServerPlace, Holders, ServedInTime, ProvidersOpen, ClosedAfterUse, Names
<1>9. CASE Migrate
  BY <1>9, <1>3, Pushes, Pops, StacksDiffer
     DEF Migrate, Opened, Defer, starting, listener, requests, Notify, Types, Stacked, Stack,
         PartsOpen, ServerPlace, Holders, ServedInTime, ProvidersOpen, ClosedAfterUse, Names
<1>10. CASE MigrateFails
  BY <1>10, <1>3, StacksDiffer
     DEF MigrateFails, Return, starting, listener, requests, Notify, Types, Stacked, Stack,
         PartsOpen, ServerPlace, Holders, ServedInTime, ProvidersOpen, ClosedAfterUse, Names
<1>11. CASE InitRateLimiter
  BY <1>11, <1>3, Pushes, Pops, StacksDiffer
     DEF InitRateLimiter, Opened, Defer, starting, listener, requests, Notify, Types, Stacked, Stack,
         PartsOpen, ServerPlace, Holders, ServedInTime, ProvidersOpen, ClosedAfterUse,
         Names, Resources
<1>12. CASE LimiterFails
  BY <1>12, <1>3, StacksDiffer
     DEF LimiterFails, Return, starting, listener, requests, Notify, Types, Stacked, Stack,
         PartsOpen, ServerPlace, Holders, ServedInTime, ProvidersOpen, ClosedAfterUse,
         Names, Resources
<1>13. CASE Serve
  BY <1>13, <1>3, StacksDiffer
     DEF Serve, serving, listener, requests, Notify, Types, Stacked, Stack, PartsOpen, ServerPlace, Holders,
         ServedInTime, ProvidersOpen, ClosedAfterUse, Names
<1>14. CASE Notify
  BY <1>14, StacksDiffer
     DEF Notify, serving, listener, requests, Types, Stacked, Stack, PartsOpen, ServerPlace, Holders,
         ServedInTime, ProvidersOpen, ClosedAfterUse, Names
<1> QED
  BY <1>4, <1>5, <1>6, <1>7, <1>8, <1>9, <1>10, <1>11, <1>12, <1>13, <1>14 DEF Start

(* The end of serve().                                                     *)
LEMMA ServeEnds ==
  ASSUME IInv, TakeError \/ TakeSignal \/ ShutdownDone \/ ShutdownExpires
  PROVE  IInv'
<1> USE DEF IInv
<1>1. UNCHANGED <<env, stage, todo, late, signals, flush, open, deferred>>
  BY DEF TakeError, TakeSignal, ShutdownDone, ShutdownExpires, Return, serving, requests
<1>2. Active' = Active /\ Config' = Config
  BY <1>1, SameActive, SameConfig
<1> USE <1>1, <1>2
<1>3. CASE TakeError
  BY <1>3, StacksDiffer
     DEF TakeError, Return, serving, listener, requests, Types, Stacked, Stack, PartsOpen, ServerPlace, Holders,
         ServedInTime, ProvidersOpen, ClosedAfterUse, Names
<1>4. CASE TakeSignal
  BY <1>4, StacksDiffer
     DEF TakeSignal, serving, listener, requests, Types, Stacked, Stack, PartsOpen, ServerPlace, Holders,
         ServedInTime, ProvidersOpen, ClosedAfterUse, Names
<1>5. CASE ShutdownDone
  BY <1>5, StacksDiffer
     DEF ShutdownDone, Idle, Return, serving, listener, requests, Types, Stacked, Stack, PartsOpen,
         ServerPlace, Holders, ServedInTime, ProvidersOpen, ClosedAfterUse, Names
<1>6. CASE ShutdownExpires
  BY <1>6, StacksDiffer
     DEF ShutdownExpires, Return, serving, listener, requests, Types, Stacked, Stack, PartsOpen,
         ServerPlace, Holders, ServedInTime, ProvidersOpen, ClosedAfterUse, Names
<1> QED
  BY <1>3, <1>4, <1>5, <1>6

(* The deferred functions.                                                 *)
LEMMA StackTop ==
  ASSUME Stacked
  PROVE  /\ Closing("limiter") => deferred = WithLimiter /\ Tail(deferred) = WithStore
         /\ Closing("db") => deferred = WithStore /\ Tail(deferred) = WithTelemetry
         /\ Closing("telemetry") => deferred = WithTelemetry /\ Tail(deferred) = Bare
BY Pops DEF Stacked, Stack, Closing

(* A deferred closer runs.                                                 *)
LEMMA CloserStep ==
  ASSUME IInv, CloseLimiter \/ ClosePool \/ PoolClosed \/ Exit
  PROVE  IInv'
<1> USE DEF IInv
<1>1. UNCHANGED <<env, server, serverErr, quit, signals, stage, todo, late, flush>>
  BY DEF CloseLimiter, ClosePool, PoolClosed, Exit, closing, listener, requests
<1>2. Active' = Active /\ Config' = Config
  BY <1>1, SameActive, SameConfig
<1> USE <1>1, <1>2
<1>3. CASE CloseLimiter
  <2>1. /\ deferred = WithLimiter /\ deferred' = WithStore
        /\ at = "closing" /\ at' = at /\ result' = result
        /\ open' = open \ {"limiter"}
    BY <1>3, StackTop DEF CloseLimiter, Closing
  <2> QED
    BY <2>1, StacksDiffer
       DEF Types, Stacked, Stack, PartsOpen, ServerPlace, Holders, ServedInTime,
           ProvidersOpen, ClosedAfterUse, Names
<1>4. CASE ClosePool
  <2>1. /\ deferred = WithStore /\ deferred' = deferred
        /\ at = "closing" /\ at' = "pool" /\ result' = result
        /\ open' = open \ {"db"}
    BY <1>4, StackTop DEF ClosePool, Closing
  <2> QED
    BY <2>1, StacksDiffer
       DEF Types, Stacked, Stack, PartsOpen, ServerPlace, Holders, ServedInTime,
           ProvidersOpen, ClosedAfterUse, Names
<1>5. CASE PoolClosed
  <2>1. /\ deferred = WithStore /\ deferred' = WithTelemetry
        /\ at = "pool" /\ at' = "closing" /\ result' = result /\ open' = open
    BY <1>5, Pops DEF PoolClosed, Stacked
  <2> QED
    BY <2>1, StacksDiffer
       DEF Types, Stacked, Stack, PartsOpen, ServerPlace, Holders, ServedInTime,
           ProvidersOpen, ClosedAfterUse, Names
<1>6. CASE Exit
  <2>1. /\ deferred = Bare /\ deferred' = deferred
        /\ at = "closing" /\ at' = "exited" /\ result' = result /\ open' = open
    BY <1>6, Pops DEF Exit
  <2> QED
    BY <2>1, StacksDiffer
       DEF Types, Stacked, Stack, PartsOpen, ServerPlace, Holders, ServedInTime,
           ProvidersOpen, ClosedAfterUse, Names
<1> QED
  BY <1>3, <1>4, <1>5, <1>6

(* The next provider to shut down is the first that was not yet.           *)
LEMMA NextOfThree ==
  ASSUME NEW n \in NextProvider
  PROVE  /\ n \in 1..3
         /\ flush[Providers[n]] = "none"
         /\ n = 2 => flush["tracer"] # "none"
         /\ n = 3 => flush["tracer"] # "none" /\ flush["meter"] # "none"
BY ProviderNames DEF NextProvider, Pending

(* While a provider is left, one is next.                                  *)
LEMMA SomeIsNext ==
  ASSUME \E p \in Names : flush[p] = "none"
  PROVE  \E n \in NextProvider : flush[Providers[n]] = "none"
<1>1. CASE flush["tracer"] = "none"
  BY <1>1, ProviderNames DEF NextProvider, Pending
<1>2. CASE flush["tracer"] # "none" /\ flush["meter"] = "none"
  BY <1>2, ProviderNames DEF NextProvider, Pending
<1>3. CASE flush["tracer"] # "none" /\ flush["meter"] # "none" /\ flush["logger"] = "none"
  BY <1>3, ProviderNames DEF NextProvider, Pending
<1> QED
  BY <1>1, <1>2, <1>3 DEF Names

(* The shutdown of the providers.                                          *)
LEMMA ProviderStep ==
  ASSUME IInv, ShutdownProvider \/ TelemetryShut
  PROVE  IInv'
<1> USE DEF IInv
<1>1. /\ UNCHANGED <<env, server, serverErr, quit, signals, stage, todo, late, at, result>>
      /\ at = "closing" /\ deferred = WithTelemetry
  BY StackTop DEF ShutdownProvider, TelemetryShut, closing, listener, requests, Closing
<1>2. Active' = Active /\ Config' = Config
  BY <1>1, SameActive, SameConfig
<1> USE <1>1, <1>2
<1>3. CASE ShutdownProvider
  <2>1. PICK n \in NextProvider, outcome \in Outcomes :
          /\ Providers[n] \in open
          /\ flush' = [flush EXCEPT ![Providers[n]] = outcome]
          /\ open' = open \ {Providers[n]}
    BY <1>3 DEF ShutdownProvider
  <2>2. deferred' = deferred
    BY <1>3 DEF ShutdownProvider
  <2>3. /\ outcome \in {"flushed", "refused", "hung", "cut"}
        /\ outcome = "cut" => \E p \in Names : flush[p] = "hung"
    BY DEF Outcomes, Types
  <2>4. /\ n \in 1..3 /\ Providers[n] \in Names
        /\ flush[Providers[n]] = "none"
        /\ n = 2 => flush["tracer"] # "none"
        /\ n = 3 => flush["tracer"] # "none" /\ flush["meter"] # "none"
    BY NextOfThree, ProviderNames DEF Names
  <2>5. Types' /\ Stacked' /\ PartsOpen' /\ ServerPlace' /\ Holders' /\ ServedInTime' /\ ClosedAfterUse'
    BY <2>1, <2>2, <2>3, <2>4, StacksDiffer
       DEF Types, Stacked, Stack, PartsOpen, ServerPlace, Holders, ServedInTime,
           ClosedAfterUse, Names
  <2>6. \A p \in Names : p \in open <=> flush[p] = "none"
    BY <2>1, <2>4, StacksDiffer DEF ProvidersOpen, Names
  <2>7. ProvidersOpen'
    BY <2>1, <2>2, <2>3, <2>4, <2>6, ProviderNames, StacksDiffer
       DEF Types, ProvidersOpen, Names
  <2> QED
    BY <2>5, <2>7
<1>4. CASE TelemetryShut
  <2>1. deferred' = Bare /\ open' = open /\ flush' = flush
    BY <1>4, StackTop DEF TelemetryShut
  <2>2. Names \cap open = {}
    <3>1. SUFFICES ASSUME NEW p \in Names, p \in open
                   PROVE  FALSE
      OBVIOUS
    <3>2. flush[p] = "none" /\ \A q \in Names : flush[q] = "none" => q \in open
      BY <3>1 DEF ProvidersOpen
    <3>3. PICK n \in NextProvider : flush[Providers[n]] = "none"
      BY <3>2, SomeIsNext
    <3>4. Providers[n] \in open
      BY <3>2, <3>3, NextOfThree, ProviderNames DEF Names
    <3> QED
      BY <1>4, <3>4 DEF TelemetryShut
  <2> QED
    BY <2>1, <2>2, StacksDiffer
       DEF Types, Stacked, Stack, PartsOpen, ServerPlace, Holders, ServedInTime,
           ProvidersOpen, ClosedAfterUse, Names
<1> QED
  BY <1>3, <1>4

(* The goroutine that listens.                                             *)
LEMMA ListenerStep ==
  ASSUME IInv, Listen \/ ListenFails
  PROVE  IInv'
<1>1. /\ UNCHANGED <<env, at, result, deferred, open, flush, quit, signals, stage, todo, late>>
      /\ server \in {"starting", "listening"}
      /\ \/ server' = "listening" /\ serverErr' = serverErr
         \/ server' = "ended" /\ serverErr' = TRUE
  BY DEF Listen, ListenFails, outside, main, requests
<1>2. Active' = Active /\ Config' = Config
  BY <1>1, SameActive, SameConfig
<1>3. Stacked' /\ Holders' /\ ServedInTime' /\ ProvidersOpen' /\ ClosedAfterUse'
  BY <1>1, <1>2
     DEF IInv, Stacked, Holders, ServedInTime, ProvidersOpen, ClosedAfterUse
<1>6. Types'
  <2>1. serverErr' \in BOOLEAN /\ server' \in {"off", "starting", "listening", "ended"}
    BY <1>1 DEF IInv, Types
  <2> QED
    BY <1>1, <2>1 DEF IInv, Types
<1>4. PartsOpen'
  BY <1>1, <1>2 DEF IInv, PartsOpen
<1>5. ServerPlace'
  BY <1>1, <1>2 DEF IInv, ServerPlace, Types
<1> QED
  BY <1>3, <1>4, <1>5, <1>6 DEF IInv

(* A request arrives while main is in serve().                             *)
LEMMA ArrivalStep ==
  ASSUME IInv, NEW r \in Requests, Arrive(r)
  PROVE  IInv'
<1>1. /\ UNCHANGED <<env, at, result, deferred, open, flush, server, serverErr,
                     quit, signals, todo, late>>
      /\ server = "listening" /\ at # "killed"
      /\ stage' = [stage EXCEPT ![r] = "active"]
  BY DEF Arrive, Alive, outside, main, listener
<1>2. at \in {"notify", "select"} /\ result = "none"
  BY <1>1 DEF IInv, ServerPlace, Stacked
<1>3. Config' = Config
  BY <1>1, SameConfig
<1> QED
  BY <1>1, <1>2, <1>3
     DEF IInv, Types, Stacked, PartsOpen, ServerPlace, Holders, ServedInTime,
         ProvidersOpen, ClosedAfterUse

(* A request that is being served takes a step: it may end, and it meets a *)
(* closed part only after serve() gave up on it.                           *)
LEMMA RequestStep ==
  ASSUME IInv, NEW r \in Requests, Work(r) \/ SendMail(r)
  PROVE  IInv'
<1>1. UNCHANGED <<env, at, result, deferred, open, flush, server, serverErr, quit, signals>>
  BY DEF Work, UseLimiter, SkipStore, Acquire, Release, NoConnection, Answer,
         SendMail, outside, main, listener
<1>2. Config' = Config
  BY <1>1, SameConfig
<1>3. at # "killed" /\ at # "exited" /\ stage[r] \in {"active", "holding"} /\ r \in Active
  BY DEF Work, UseLimiter, SkipStore, Acquire, Release, NoConnection, Answer,
         SendMail, Ahead, Alive, Active
<1>4. /\ stage' \in [Requests -> {"idle", "active", "holding", "answered"}]
      /\ Active' \subseteq Active
  BY <1>3
     DEF IInv, Types, Work, UseLimiter, SkipStore, Acquire, Release, NoConnection,
         Answer, SendMail, Active
<1>5. todo' \in [Requests -> Seq({"limiter", "db", "mail"})]
  <2>1. todo \in [Requests -> Seq({"limiter", "db", "mail"})]
    BY DEF IInv, Types
  <2>2. CASE UNCHANGED todo
    BY <2>1, <2>2
  <2>3. CASE todo' = [todo EXCEPT ![r] = <<>>]
    BY <2>1, <2>3
  <2>4. CASE todo[r] # <<>> /\ todo' = [todo EXCEPT ![r] = Tail(@)]
    BY <2>1, <2>4, Tail(todo[r]) \in Seq({"limiter", "db", "mail"})
  <2>5. CASE Release(r)
    BY <2>4, <2>5 DEF Release, Done, IInv, Holders
  <2> QED
    BY <2>2, <2>3, <2>4, <2>5
       DEF Work, UseLimiter, SkipStore, Acquire, NoConnection, Answer, SendMail,
           Ahead, Done
<1>6. late' \subseteq Requests /\ (late' # {} => result \in {"expired", "server"})
  <2>1. late \subseteq Requests /\ (late # {} => result \in {"expired", "server"})
    BY DEF IInv, Types, ClosedAfterUse
  <2>2. "limiter" \notin open => result \in {"expired", "server"}
    BY <1>3 DEF IInv, PartsOpen, ServedInTime
  <2>3. "db" \notin open /\ Config.db # Unset => result \in {"expired", "server"}
    BY <1>3 DEF IInv, PartsOpen, ServedInTime
  <2>4. \/ late' = late
        \/ late' = late \cup {r} /\ "limiter" \notin open
        \/ late' = late \cup {r} /\ "db" \notin open /\ Config.db # Unset
    BY DEF Work, UseLimiter, SkipStore, Acquire, Release, NoConnection, Answer, SendMail
  <2> QED
    BY <2>1, <2>2, <2>3, <2>4
<1>7. Holders'
  BY DEF IInv, Types, Holders, Work, UseLimiter, SkipStore, Acquire, Release,
         NoConnection, Answer, SendMail, Ahead, Done
<1>8. Types' /\ Stacked' /\ PartsOpen' /\ ProvidersOpen' /\ ClosedAfterUse'
  BY <1>1, <1>2, <1>4, <1>5, <1>6
     DEF IInv, Types, Stacked, PartsOpen, ProvidersOpen, ClosedAfterUse
<1>9. ServerPlace' /\ ServedInTime'
  BY <1>1, <1>4 DEF IInv, ServerPlace, ServedInTime
<1> QED
  BY <1>7, <1>8, <1>9 DEF IInv

(* Signals.                                                                *)
LEMMA SignalStep ==
  ASSUME IInv, Signal \/ Kill
  PROVE  IInv'
<1>1. /\ UNCHANGED <<env, result, deferred, open, flush, server, serverErr, stage, todo, late>>
      /\ \/ at' = at /\ signals < MaxSignals /\ signals' = signals + 1
         \/ at' = "killed" /\ quit' = quit /\ signals < MaxSignals /\ signals' = signals + 1
         \/ at' = "killed" /\ quit' = quit /\ signals' = signals
      /\ quit' \in {TRUE, quit}
  BY DEF Signal, Kill, main, listener, requests
<1>2. Active' = Active /\ Config' = Config
  BY <1>1, SameActive, SameConfig
<1>3. signals' \in 0..MaxSignals /\ (quit' \/ at' = "shutdown" => signals' > 0)
  BY <1>1, LifecycleAssumption DEF IInv, Types, ServerPlace
<1>4. Types' /\ Holders' /\ ServedInTime' /\ ClosedAfterUse'
  BY <1>1, <1>2, <1>3 DEF IInv, Types, Holders, ServedInTime, ClosedAfterUse
<1>5. Stacked' /\ PartsOpen' /\ ProvidersOpen'
  BY <1>1, <1>2 DEF IInv, Stacked, PartsOpen, ProvidersOpen
<1>6. ServerPlace'
  <2>1. \/ at' = at
        \/ at' = "killed"
    BY <1>1
  <2> QED
    BY <1>1, <1>2, <1>3, <2>1, LifecycleAssumption DEF IInv, Types, ServerPlace
<1> QED
  BY <1>4, <1>5, <1>6 DEF IInv

-----------------------------------------------------------------------------
(* Nothing changes.                                                        *)
LEMMA StutterStep ==
  ASSUME IInv, UNCHANGED vars
  PROVE  IInv'
<1>1. /\ UNCHANGED <<env, at, result, deferred, open, flush, server, serverErr>>
      /\ UNCHANGED <<quit, signals, stage, todo, late>>
  BY DEF vars, main, listener, requests
<1>2. Active' = Active /\ Config' = Config
  BY <1>1, SameActive, SameConfig
<1> QED
  BY <1>1, <1>2
     DEF IInv, Types, Stacked, PartsOpen, ServerPlace, Holders, ServedInTime,
         ProvidersOpen, ClosedAfterUse

(* The invariant holds in every state of every life of the process.        *)
THEOREM Invariance == Spec => []IInv
<1>1. ASSUME IInv, [Next]_vars
      PROVE  IInv'
  <2>1. CASE Start
    BY <1>1, <2>1, StartStep
  <2>2. CASE Stop
    BY <1>1, <2>2, ServeEnds, CloserStep, ProviderStep DEF Stop
  <2>3. CASE Listen \/ ListenFails
    BY <1>1, <2>3, ListenerStep
  <2>4. CASE \E r \in Requests : Arrive(r) \/ Work(r) \/ SendMail(r)
    BY <1>1, <2>4, ArrivalStep, RequestStep
  <2>5. CASE Signal \/ Kill
    BY <1>1, <2>5, SignalStep
  <2>6. CASE UNCHANGED vars
    BY <1>1, <2>6, StutterStep
  <2> QED
    BY <1>1, <2>1, <2>2, <2>3, <2>4, <2>5, <2>6 DEF Next
<1> QED
  BY InitIInv, <1>1, PTL DEF Spec

(* Types, whatever the requests, what they use, the environments and the   *)
(* number of signals.                                                      *)
THEOREM TypeCorrect == Spec => []TypeOK
<1>1. IInv => TypeOK
  BY TypesAreTypeOK DEF IInv, Stacked
<1> QED
  BY <1>1, Invariance, PTL

(* No request meets a closed limiter or pool unless serve() gave up on it  *)
(* or its listener broke: the order of Shutdown and of the deferred        *)
(* functions (main.go:123-168, 198-203).                                   *)
THEOREM NothingIsClosedInUse == Spec => []ClosedAfterUse
<1>1. IInv => ClosedAfterUse
  BY DEF IInv
<1> QED
  BY <1>1, Invariance, PTL

(* Wherever run() fails (main.go:115-168), main leaves nothing open but the*)
(* Redis client of a failed ping, and the pool and the limiter are closed  *)
(* while the providers are still there.                                    *)
THEOREM EverythingIsClosed == Spec => []NothingLeftOpen
<1>1. IInv => NothingLeftOpen
  <2> SUFFICES ASSUME IInv
               PROVE  NothingLeftOpen
    OBVIOUS
  <2>1. Range(deferred) \cap {"db", "limiter"} # {} /\ Config.otel /\ Alive =>
          Range(Providers) \subseteq open
    <3> SUFFICES ASSUME Range(deferred) \cap {"db", "limiter"} # {}, Config.otel
                 PROVE  Names \subseteq open
      BY ProviderNames
    <3>1. deferred \in {WithStore, WithLimiter}
      BY DEF IInv, Stacked, Stack, Range, Bare, WithTelemetry
    <3> QED
      BY <3>1, StacksDiffer DEF IInv, ProvidersOpen
  <2>2. ASSUME Returned
        PROVE  /\ open \subseteq {"limiter"}
               /\ open # {} => server = "off" /\ Config.backend = "redis"
    <3>1. at = "exited" /\ deferred = Bare
      BY <2>2 DEF Returned, IInv, Stacked
    <3> QED
      BY <3>1, StacksDiffer
         DEF IInv, Types, PartsOpen, ProvidersOpen, Names, Resources
  <2> QED
    BY <2>1, <2>2 DEF NothingLeftOpen
<1> QED
  BY <1>1, Invariance, PTL

(* A provider that fails keeps no other from being shut down; only one     *)
(* that hangs takes the time of those after it (telemetry.go:134-148).     *)
THEOREM ProvidersAreShutDown == Spec => []ProvidersAreFlushed
<1>1. IInv => ProvidersAreFlushed
  <2> SUFFICES ASSUME IInv, Returned, \E p \in DOMAIN flush : flush[p] # "none"
               PROVE  \A n \in 1..3 :
                        \/ flush[Providers[n]] \in {"flushed", "refused", "hung"}
                        \/ /\ flush[Providers[n]] = "cut"
                           /\ \E m \in 1..(n - 1) : flush[Providers[m]] = "hung"
    BY ProviderNames DEF ProvidersAreFlushed
  <2>1. deferred = Bare /\ DOMAIN flush = Names
    BY DEF Returned, IInv, Stacked, Types
  <2>2. \A p \in Names : flush[p] # "none"
    BY <2>1 DEF IInv, ProvidersOpen
  <2>3. \A p \in Names : flush[p] \in {"flushed", "refused", "hung", "cut"}
    BY <2>2 DEF IInv, Types
  <2> QED
    BY <2>3, ProviderNames DEF IInv, ProvidersOpen, Names
<1> QED
  BY <1>1, Invariance, PTL

(* Status 0 means a signal was taken and every request was answered        *)
(* (main.go:193-203).                                                      *)
THEOREM CleanExitsAnswerAll == Spec => []CleanExitAnswersAll
<1>1. IInv => CleanExitAnswersAll
  BY DEF IInv, ServerPlace, CleanExitAnswersAll
<1> QED
  BY <1>1, Invariance, PTL

=============================================================================
