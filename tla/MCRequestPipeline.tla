-------------------------- MODULE MCRequestPipeline --------------------------
(***************************************************************************)
(* Instances of RequestPipeline for TLC: one client that calls from two    *)
(* addresses, one of which it shares with anonymous requests.              *)
(***************************************************************************)
EXTENDS RequestPipeline

CONSTANTS here, there, key, first, second

To(route, address, credential, token) ==
  [route |-> route, address |-> address, credential |-> credential,
   token |-> token]

Everything ==
  {To("generate", here, c, FALSE) : c \in {"none", key, "stale"}}
    \cup {To("unknown", here, "none", FALSE)}
    \cup {To("admin", here, "none", t) : t \in BOOLEAN}
    \cup {To(route, here, "none", FALSE) :
            route \in {"verify", "preflight", "probe", "metrics"}}

Limited ==
  {To("generate", here, "none", FALSE), To("generate", there, key, FALSE),
   To("admin", here, "none", FALSE)}

OneOfEach ==
  [r \in Requests |-> CASE r = first  -> Everything
                        [] r = second -> Limited
                        [] OTHER      -> {To("generate", here, "none", FALSE)}]

=============================================================================
