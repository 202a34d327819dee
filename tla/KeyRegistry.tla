----------------------------- MODULE KeyRegistry -----------------------------
(***************************************************************************)
(* What the key service promises, without handlers, statements or faults:  *)
(* an address gets at most one key ever, a key belongs to one address, an  *)
(* account becomes active only after a link minted for its address was     *)
(* presented, a link counts once, and once there an account and its key    *)
(* stay: they can only be barred and unbarred.                             *)
(***************************************************************************)
CONSTANTS Emails, Secrets, None

VARIABLES
  account,   (* "none", "pending" or "active", by address.                 *)
  key,       (* The key of an active account.                              *)
  barred,    (* Addresses whose key is not honoured.                       *)
  minted,    (* The address a link was minted for.                         *)
  shown      (* Links that were presented.                                 *)

registryVars == <<account, key, barred, minted, shown>>

RegistryInit ==
  /\ account = [e \in Emails |-> "none"]
  /\ key = [e \in Emails |-> None]
  /\ barred = {}
  /\ minted = [t \in Secrets |-> None]
  /\ shown = {}

Register(e) ==
  /\ account[e] = "none"
  /\ account' = [account EXCEPT ![e] = "pending"]
  /\ UNCHANGED <<key, barred, minted, shown>>

Mint(e, t) ==
  /\ account[e] # "none"
  /\ minted[t] = None
  /\ minted' = [minted EXCEPT ![t] = e]
  /\ UNCHANGED <<account, key, barred, shown>>

Present(t) ==
  /\ minted[t] # None
  /\ t \notin shown
  /\ shown' = shown \cup {t}
  /\ UNCHANGED <<account, key, barred, minted>>

Claimed(e) == \E t \in shown : minted[t] = e

Activate(e, k) ==
  /\ account[e] = "pending"
  /\ Claimed(e)
  /\ \A x \in Emails : key[x] # k
  /\ account' = [account EXCEPT ![e] = "active"]
  /\ key' = [key EXCEPT ![e] = k]
  /\ UNCHANGED <<barred, minted, shown>>

(* Barring and unbarring touch neither the key nor the account.            *)
Bar(e) ==
  /\ account[e] # "none"
  /\ barred' = barred \cup {e}
  /\ UNCHANGED <<account, key, minted, shown>>

Unbar(e) ==
  /\ account[e] # "none"
  /\ barred' = barred \ {e}
  /\ UNCHANGED <<account, key, minted, shown>>

RegistryNext ==
  \/ \E e \in Emails : Register(e) \/ Bar(e) \/ Unbar(e)
  \/ \E e \in Emails, s \in Secrets : Mint(e, s) \/ Activate(e, s)
  \/ \E t \in Secrets : Present(t)

RegistrySpec == RegistryInit /\ [][RegistryNext]_registryVars

=============================================================================
