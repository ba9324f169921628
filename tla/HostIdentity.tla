---------------------------- MODULE HostIdentity ----------------------------
(***************************************************************************)
(* What enrollment promises about the identity of hosts (AUTHENTICATION.md), *)
(* without requests, responses, expiry or the tables.  A pending host has at  *)
(* most one pass; whoever presents it binds a key to the host, and then there *)
(* is no pass any more.  A bound key stays until the host is deleted, and no   *)
(* two hosts have the same.  A deleted host does not come back.               *)
(***************************************************************************)
CONSTANTS Hosts, Keys, Tokens, None

VARIABLES
  life,   \* a host is "unused", "present" or "deleted"
  key,    \* its key
  pass,   \* the token that binds it
  issued  \* tokens generated so far

vars == <<life, key, pass, issued>>

Bound(k) == \E h \in Hosts : key[h] = k

Init ==
  /\ life \in [Hosts -> {"unused", "present"}]
  /\ key = [h \in Hosts |-> None] /\ pass = [h \in Hosts |-> None]
  /\ issued = {}

Register(h, t) ==
  /\ life[h] = "unused" /\ t \notin issued
  /\ life' = [life EXCEPT ![h] = "present"]
  /\ pass' = [pass EXCEPT ![h] = t]
  /\ issued' = issued \cup {t}
  /\ UNCHANGED key

RegisterBound(h, k) ==
  /\ life[h] = "unused" /\ ~Bound(k)
  /\ life' = [life EXCEPT ![h] = "present"]
  /\ key' = [key EXCEPT ![h] = k]
  /\ UNCHANGED <<pass, issued>>

Renew(h, t) ==
  /\ life[h] = "present" /\ key[h] = None /\ t \notin issued
  /\ pass' = [pass EXCEPT ![h] = t]
  /\ issued' = issued \cup {t}
  /\ UNCHANGED <<life, key>>

Bind(h, k) ==
  /\ life[h] = "present" /\ key[h] = None /\ pass[h] # None /\ ~Bound(k)
  /\ key' = [key EXCEPT ![h] = k]
  /\ pass' = [pass EXCEPT ![h] = None]
  /\ UNCHANGED <<life, issued>>

Delete(h) ==
  /\ life[h] = "present"
  /\ life' = [life EXCEPT ![h] = "deleted"]
  /\ key' = [key EXCEPT ![h] = None]
  /\ pass' = [pass EXCEPT ![h] = None]
  /\ UNCHANGED issued

Next ==
  \E h \in Hosts :
    \/ \E t \in Tokens : Register(h, t) \/ Renew(h, t)
    \/ \E k \in Keys : RegisterBound(h, k) \/ Bind(h, k)
    \/ Delete(h)

Spec == Init /\ [][Next]_vars
=============================================================================
