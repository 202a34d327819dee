----------------------------- MODULE MCLifecycle -----------------------------
(* An instance of Lifecycle: a request with a key, and a registration that *)
(* looks up, inserts and mails.                                            *)
EXTENDS Lifecycle

CONSTANTS r1, r2

MCRequests == {r1, r2}

MCUses == (r1 :> <<"db", "limiter">>) @@ (r2 :> <<"limiter", "db", "mail", "db">>)

(* Production, development without a database, and ways to be wrong.       *)
MCEnvironments ==
  {[db |-> "url", otel |-> "",      backend |-> "redis", redis |-> "url"],
   [db |-> "",    otel |-> "false", backend |-> "",      redis |-> ""],
   [db |-> "url", otel |-> "bad",   backend |-> "other", redis |-> "bad"],
   [db |-> "url", otel |-> "true",  backend |-> "redis", redis |-> ""],
   [db |-> "",    otel |-> "true",  backend |-> "redis", redis |-> "bad"]}

=============================================================================
