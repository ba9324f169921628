----------------------------- MODULE Enrollment -----------------------------
(***************************************************************************)
(* How a host gets its key: the tables hosts and host_enrollments            *)
(* (store/host.go), the administrator's create, renew and delete requests    *)
(* (server/api.go), and the enrollment request of an agent                    *)
(* (server/enrollment.go).                                                    *)
(*                                                                         *)
(* Each transaction is one step: the connection pool has one connection.      *)
(* Between a commit and its response anything may happen, the response may    *)
(* be lost, and responses may arrive in another order than the commits.       *)
(* handleEnroll reads the clock before its transaction gets the connection.   *)
(* Public ids and tokens are random and never repeat; only who has seen a     *)
(* token can present it.  A token stands for its digest too.                  *)
(***************************************************************************)
CONSTANTS
  Hosts,     \* public ids, each given to one host
  Keys,      \* public keys of agents
  Tokens,    \* enrollment tokens
  Requests,  \* enrollment requests under way
  None

ASSUME NoneIsNew == None \notin Hosts \cup Keys \cup Tokens

VARIABLES
  life,      \* a host has no row yet, has one, or its row was deleted
  key,       \* hosts.public_key
  enroll,    \* host_enrollments: the token of a host
  consumed,  \* its column consumed
  overdue,   \* tokens whose expires_at has come
  issued,    \* tokens generated
  shown,     \* tokens whose response reached the administrator
  req,       \* the enrollment requests
  told,      \* the public id an agent was told for its key
  bindings   \* enrollments committed: <<token, key, host>> (history)

db   == <<life, key, enroll, consumed>>
vars == <<db, overdue, issued, shown, req, told, bindings>>

Idle == [step |-> "idle", token |-> None, key |-> None, late |-> FALSE]

TypeOK ==
  /\ life \in [Hosts -> {"unused", "present", "deleted"}]
  /\ key \in [Hosts -> Keys \cup {None}]
  /\ enroll \in [Hosts -> Tokens \cup {None}]
  /\ consumed \subseteq Tokens /\ overdue \subseteq Tokens
  /\ issued \subseteq Tokens /\ shown \subseteq issued
  /\ req \in [Requests -> {Idle} \cup [step : {"received", "bound"}, token : Tokens,
                                       key : Keys, late : BOOLEAN]]
  /\ told \in [Keys -> Hosts \cup {None}]
  /\ bindings \subseteq Tokens \X Keys \X Hosts

\* A database of an older version may have hosts without key or token.
Init ==
  /\ life \in [Hosts -> {"unused", "present"}]
  /\ key = [h \in Hosts |-> None] /\ enroll = [h \in Hosts |-> None]
  /\ consumed = {} /\ overdue = {} /\ issued = {} /\ shown = {}
  /\ req = [r \in Requests |-> Idle]
  /\ told = [k \in Keys |-> None]
  /\ bindings = {}

-----------------------------------------------------------------------------
(* The administrator *)

\* The unique index on public_key.
Bound(k) == \E h \in Hosts : key[h] = k

\* CreateEnrollmentHost: the host and its token in one transaction.
CreatePending(h, t) ==
  /\ life[h] = "unused" /\ t \notin issued
  /\ life' = [life EXCEPT ![h] = "present"]
  /\ enroll' = [enroll EXCEPT ![h] = t]
  /\ issued' = issued \cup {t}
  /\ UNCHANGED <<key, consumed, overdue, shown, req, told, bindings>>

\* CreateHost with a key.
CreateBound(h, k) ==
  /\ life[h] = "unused" /\ ~Bound(k)
  /\ life' = [life EXCEPT ![h] = "present"]
  /\ key' = [key EXCEPT ![h] = k]
  /\ UNCHANGED <<enroll, consumed, overdue, issued, shown, req, told, bindings>>

\* Mutant: a host that has its key gets a new token all the same.
RefreshableAlways(h) == life[h] = "present"

\* RefreshEnrollment: not found, or already bound, changes nothing.
Refreshable(h) == life[h] = "present" /\ key[h] = None

Refresh(h, t) ==
  /\ Refreshable(h) /\ t \notin issued
  /\ enroll' = [enroll EXCEPT ![h] = t]
  /\ issued' = issued \cup {t}
  /\ UNCHANGED <<life, key, consumed, overdue, shown, req, told, bindings>>

\* The response to a create or renew request arrives; or it never does.
Show(t) ==
  /\ t \in issued \ shown
  /\ shown' = shown \cup {t}
  /\ UNCHANGED <<db, overdue, issued, req, told, bindings>>

\* DeleteHost: the rows of both tables.
DeleteHost(h) ==
  /\ life[h] = "present"
  /\ life' = [life EXCEPT ![h] = "deleted"]
  /\ key' = [key EXCEPT ![h] = None]
  /\ enroll' = [enroll EXCEPT ![h] = None]
  /\ UNCHANGED <<consumed, overdue, issued, shown, req, told, bindings>>

-----------------------------------------------------------------------------
(* handleEnroll *)

Late(t) == t \in overdue

\* A request that is well-formed and signed; others are refused at once.
Receive(r, t, k) ==
  /\ req[r].step = "idle" /\ t \in shown
  /\ req' = [req EXCEPT ![r] = [step |-> "received", token |-> t, key |-> k,
                                late |-> Late(t)]]
  /\ UNCHANGED <<db, overdue, issued, shown, told, bindings>>

\* Mutant: a token is good again, for another key.
BindableAgain(r, h) ==
  /\ enroll[h] = req[r].token /\ ~req[r].late
  /\ life[h] = "present" /\ ~Bound(req[r].key)

\* What ConsumeEnrollment asks of the tables.
Bindable(r, h) ==
  /\ enroll[h] = req[r].token /\ req[r].token \notin consumed /\ ~req[r].late
  /\ life[h] = "present" /\ key[h] = None
  /\ ~Bound(req[r].key)

\* Mutant: the token is not marked.
ConsumeUnmarked(r, h) ==
  /\ req[r].step = "received" /\ Bindable(r, h)
  /\ key' = [key EXCEPT ![h] = req[r].key]
  /\ req' = [req EXCEPT ![r].step = "bound"]
  /\ bindings' = bindings \cup {<<req[r].token, req[r].key, h>>}
  /\ UNCHANGED <<life, enroll, consumed, overdue, issued, shown, told>>

ConsumeEnrollment(r, h) ==
  /\ req[r].step = "received" /\ Bindable(r, h)
  /\ key' = [key EXCEPT ![h] = req[r].key]
  /\ consumed' = consumed \cup {req[r].token}
  /\ req' = [req EXCEPT ![r].step = "bound"]
  /\ bindings' = bindings \cup {<<req[r].token, req[r].key, h>>}
  /\ UNCHANGED <<life, enroll, overdue, issued, shown, told>>

\* The agent reads the response: the id the transaction selected.
Answer(r, h) ==
  /\ req[r].step = "bound" /\ <<req[r].token, req[r].key, h>> \in bindings
  /\ told' = [told EXCEPT ![req[r].key] = h]
  /\ req' = [req EXCEPT ![r] = Idle]
  /\ UNCHANGED <<db, overdue, issued, shown, bindings>>

\* Invalid token or key in use, a database error, a server that ends, a response
\* that is lost.
GiveUp(r) ==
  /\ req[r].step # "idle"
  /\ req' = [req EXCEPT ![r] = Idle]
  /\ UNCHANGED <<db, overdue, issued, shown, told, bindings>>

\* 15 minutes have passed.
Expire(t) ==
  /\ t \in issued \ overdue
  /\ overdue' = overdue \cup {t}
  /\ UNCHANGED <<db, issued, shown, req, told, bindings>>

Next ==
  \/ \E h \in Hosts : \/ \E t \in Tokens : CreatePending(h, t) \/ Refresh(h, t)
                      \/ \E k \in Keys : CreateBound(h, k)
                      \/ DeleteHost(h)
  \/ \E t \in Tokens : Show(t) \/ Expire(t)
  \/ \E r \in Requests : \/ \E t \in Tokens, k \in Keys : Receive(r, t, k)
                         \/ \E h \in Hosts : ConsumeEnrollment(r, h) \/ Answer(r, h)
                         \/ GiveUp(r)

Spec == Init /\ [][Next]_vars

-----------------------------------------------------------------------------
(* Properties *)

\* No two hosts have the same key, whichever way they got it: the handshake
\* (PublicIDByPublicKey) identifies one host.
KeysAreUnique ==
  \A g, h \in Hosts : key[g] # None /\ key[g] = key[h] => g = h

\* A host that has its key, or is gone, has no token that is still good.
NoOpenDoor ==
  \A h \in Hosts :
    /\ key[h] # None => enroll[h] \in consumed \cup {None}
    /\ life[h] # "present" => key[h] = None /\ enroll[h] = None

\* A token binds one key to one host, once; a host is bound by one token; and as
\* long as the host exists it has that key.  An agent that never saw its
\* response therefore gets in with the key it kept (AUTHENTICATION.md).
OneBindingEach ==
  /\ \A a, b \in bindings : a[1] = b[1] \/ a[3] = b[3] => a = b
  /\ \A b \in bindings : life[b[3]] = "present" => key[b[3]] = b[2]

\* An agent that was told its public id is that host, as long as it exists.
AnswerIsTrue ==
  \A k \in Keys : told[k] # None /\ life[told[k]] = "present" => key[told[k]] = k

\* A bound key is never replaced; only the deletion of the host takes it away.
BoundKeyIsFinal ==
  [][\A h \in Hosts : key[h] # None => key'[h] = key[h] \/ life'[h] = "deleted"]_vars

\* A token that was replaced by a newer one, or was no longer good when its
\* request came, binds nothing: not even with requests that overlap the renewal.
OldTokensAreDead ==
  [][\A b \in bindings' \ bindings :
       /\ enroll[b[3]] = b[1]
       /\ \E r \in Requests : req[r].token = b[1] /\ req[r].key = b[2] /\ ~req[r].late
       /\ \A c \in bindings : c[1] # b[1]]_vars

-----------------------------------------------------------------------------
(* Refinement: a token is a pass until it is consumed. *)

Pass == [h \in Hosts |-> IF enroll[h] \in consumed THEN None ELSE enroll[h]]

Identity == INSTANCE HostIdentity WITH pass <- Pass

\* The two tables, requests, lost responses and expiry implement the promise.
KeepsIdentity == Identity!Spec
=============================================================================
