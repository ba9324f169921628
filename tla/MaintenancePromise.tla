------------------------- MODULE MaintenancePromise -------------------------
(***************************************************************************)
(* What remote maintenance promises, without sessions, frames or crashes     *)
(* (MAINTENANCE.md).  A task is open from its submission; either it expires   *)
(* before the host has heard of it, or the host works on it and keeps a log,  *)
(* of which the Monitor learns one entry after another.  The host's place is  *)
(* free for another task only when the Monitor knows the result.              *)
(***************************************************************************)
EXTENDS Naturals, Sequences

CONSTANTS Hosts, Tasks, None

VARIABLES
  fate,   \* a task is "none", "open" or "expired"
  place,  \* the host it is for
  log,    \* what its host recorded about it
  known   \* how many entries of the log the Monitor has

vars == <<fate, place, log, known>>

Entries == {"accepted", "running", "verifying", "unknown", "succeeded", "failed"}
Results == {"succeeded", "failed"}

Over(t)     == log[t] # <<>> /\ log[t][Len(log[t])] \in Results
Resolved(t) == Over(t) /\ known[t] = Len(log[t])
Pending(t)  == fate[t] = "open" /\ ~Resolved(t)

Init ==
  /\ fate = [t \in Tasks |-> "none"] /\ place = [t \in Tasks |-> None]
  /\ log = [t \in Tasks |-> <<>>] /\ known = [t \in Tasks |-> 0]

Submit(t, h) ==
  /\ fate[t] = "none"
  /\ \A u \in Tasks : place[u] = h => ~Pending(u)
  /\ fate' = [fate EXCEPT ![t] = "open"]
  /\ place' = [place EXCEPT ![t] = h]
  /\ UNCHANGED <<log, known>>

\* Several tasks, of several hosts, may expire at the same time.
Expire(S) ==
  /\ \A t \in S : fate[t] = "open" /\ log[t] = <<>>
  /\ fate' = [t \in Tasks |-> IF t \in S THEN "expired" ELSE fate[t]]
  /\ UNCHANGED <<place, log, known>>

\* The host takes a task on when it has finished all others.
Accept(t) ==
  /\ fate[t] = "open" /\ log[t] = <<>>
  /\ \A u \in Tasks : place[u] = place[t] => log[u] = <<>> \/ Over(u)
  /\ log' = [log EXCEPT ![t] = <<"accepted">>]
  /\ UNCHANGED <<fate, place, known>>

Work(t, entry) ==
  /\ log[t] # <<>> /\ ~Over(t) /\ entry # "accepted"
  /\ log' = [log EXCEPT ![t] = Append(@, entry)]
  /\ UNCHANGED <<fate, place, known>>

Learn(t) ==
  /\ known[t] < Len(log[t])
  /\ known' = [known EXCEPT ![t] = @ + 1]
  /\ UNCHANGED <<fate, place, log>>

Next ==
  \/ \E t \in Tasks : \/ \E h \in Hosts : Submit(t, h)
                      \/ Accept(t) \/ Learn(t)
                      \/ \E entry \in Entries : Work(t, entry)
  \/ \E S \in SUBSET Tasks : Expire(S)

Spec == Init /\ [][Next]_vars
=============================================================================
