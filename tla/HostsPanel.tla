----------------------------- MODULE HostsPanel -----------------------------
(***************************************************************************)
(* The administrator's page of hosts (HostsPanel in                            *)
(* pages/admin/AdminPage.tsx): the list, which several things have loaded      *)
(* again, and the enrollment credential of a host just created or renewed,     *)
(* which is shown once and never again.                                        *)
(*                                                                         *)
(* The Monitor is what HostIdentity says of enrollment; Enrollment implements   *)
(* it.  A request is a step when it is sent, one when it is served and one when *)
(* the answer is handled, and may fail in between.  Only the newest load of the *)
(* list counts (the counter hostRequest); one older load may be under way too.  *)
(* Nothing but this page renews credentials, though not always the same visit   *)
(* of it: a request outlives the page.                                         *)
(***************************************************************************)
CONSTANTS Hosts, Keys, Tokens, None

ASSUME PanelAssumption == None \notin Hosts \cup Keys \cup Tokens

VARIABLES
  life, key, pass, issued,  \* the Monitor (HostIdentity)
  active,     \* the page is on the screen
  hosts,      \* the list: hosts, and whether each has its key
  newest,     \* the newest load under way
  older,      \* an older one
  created,    \* the credential on the screen
  job,        \* a create or renew request and what it waits for (busy)
  removal,    \* a delete request
  stray,      \* renew requests under way that nobody waits for
  abandoned   \* hosts of such requests, served or not (history)

monitor == <<life, key, pass, issued>>
loads   == <<newest, older>>
lost    == <<stray, abandoned>>
panelVars == <<monitor, active, hosts, loads, created, job, removal, lost>>

Monitor == INSTANCE HostIdentity

HostLists == UNION {[S -> BOOLEAN] : S \in SUBSET Hosts}
NoLoad == [phase |-> "none", list |-> None]
Sent   == [phase |-> "sent", list |-> None]
Phases == [phase : {"none", "sent", "served"}, list : HostLists \cup {None}]

PanelTypeOK ==
  /\ life \in [Hosts -> {"unused", "present", "deleted"}]
  /\ key \in [Hosts -> Keys \cup {None}] /\ pass \in [Hosts -> Tokens \cup {None}]
  /\ issued \subseteq Tokens /\ active \in BOOLEAN
  /\ hosts \in HostLists \cup {None} /\ newest \in Phases /\ older \in Phases
  /\ created \in [host : Hosts, token : Tokens] \cup {None}
  /\ job \in [step : {"sent", "served", "newest", "older"}, host : Hosts \cup {None},
              token : Tokens \cup {None}] \cup {None}
  /\ removal \in [host : Hosts, mine : BOOLEAN, served : BOOLEAN] \cup {None}
  /\ stray \subseteq Hosts /\ abandoned \subseteq Hosts
  /\ ~active => /\ hosts = None /\ newest = NoLoad /\ created = None
                /\ job = None /\ removal = None

PanelInit ==
  /\ Monitor!Init
  /\ active = FALSE /\ hosts = None /\ newest = NoLoad /\ older = NoLoad
  /\ created = None /\ job = None /\ removal = None
  /\ stray = {} /\ abandoned = {}

-----------------------------------------------------------------------------
(* The Monitor *)

\* Agents enroll, and another administrator may delete hosts.
Others ==
  /\ \E h \in Hosts : Monitor!Delete(h) \/ \E k \in Keys : Monitor!Bind(h, k)
  /\ UNCHANGED <<active, hosts, loads, created, job, removal, lost>>

List == [h \in {g \in Hosts : life[g] = "present"} |-> key[h] # None]

ServeNewest ==
  /\ newest.phase = "sent" /\ newest' = [phase |-> "served", list |-> List]
  /\ UNCHANGED <<monitor, active, hosts, older, created, job, removal, lost>>

ServeOlder ==
  /\ older.phase = "sent" /\ older' = [phase |-> "served", list |-> List]
  /\ UNCHANGED <<monitor, active, hosts, newest, created, job, removal, lost>>

ServeJob ==
  /\ job # None /\ job.step = "sent"
  /\ \E h \in Hosts, t \in Tokens :
       /\ IF job.host = None THEN Monitor!Register(h, t) ELSE h = job.host /\ Monitor!Renew(h, t)
       /\ job' = [step |-> "served", host |-> h, token |-> t]
  /\ UNCHANGED <<active, hosts, loads, created, removal, lost>>

ServeStray(h) ==
  /\ h \in stray /\ stray' = stray \ {h}
  /\ \E t \in Tokens : Monitor!Renew(h, t)
  /\ UNCHANGED <<active, hosts, loads, created, job, removal, abandoned>>

ServeRemoval ==
  /\ removal # None /\ ~removal.served /\ Monitor!Delete(removal.host)
  /\ removal' = [removal EXCEPT !.served = TRUE]
  /\ UNCHANGED <<active, hosts, loads, created, job, lost>>

-----------------------------------------------------------------------------
(* The list *)

\* load: a load under way is the newest one no more.
Supersede(waiting) ==
  /\ newest.phase = "none" \/ older.phase = "none"
  /\ newest' = Sent /\ older' = IF newest.phase = "none" THEN older ELSE newest
  /\ job' = IF waiting # None /\ waiting.step = "newest" /\ newest.phase # "none"
            THEN [waiting EXCEPT !.step = "older"] ELSE waiting

Enter ==
  /\ ~active /\ active' = TRUE /\ Supersede(job)
  /\ UNCHANGED <<monitor, hosts, created, removal, lost>>

\* A renew request under way may be served later.
Leave ==
  /\ active /\ active' = FALSE
  /\ hosts' = None /\ newest' = NoLoad /\ older' = NoLoad
  /\ created' = None /\ job' = None /\ removal' = None
  /\ LET left == IF job # None /\ job.step = "sent" THEN {job.host} \ {None} ELSE {}
     IN stray' = stray \cup left /\ abandoned' = abandoned \cup left
  /\ UNCHANGED monitor

\* The timer of ten minutes, the buttons, a host that was edited.
Refresh ==
  /\ active /\ Supersede(job)
  /\ UNCHANGED <<monitor, active, hosts, created, removal, lost>>

Done(step) == IF job # None /\ job.step = step THEN None ELSE job

\* Mutant: the credential is looked at when it is set only.
ForgetsNever(credential, list) == credential

\* The effect of hosts and created: a host that has its key needs no credential.
Forgets(credential, list) ==
  IF credential # None /\ list # None /\ credential.host \in DOMAIN list
       /\ list[credential.host]
  THEN None ELSE credential

NewestAnswer ==
  /\ newest.phase = "served" /\ newest' = NoLoad
  /\ hosts' = newest.list /\ created' = Forgets(created, newest.list)
  /\ job' = Done("newest")
  /\ UNCHANGED <<monitor, active, older, removal, lost>>

NewestFails ==
  /\ newest.phase # "none" /\ newest' = NoLoad /\ job' = Done("newest")
  /\ UNCHANGED <<monitor, active, hosts, older, created, removal, lost>>

\* Mutant: every answer counts.
OlderCounts ==
  /\ older.phase # "none" /\ older' = NoLoad
  /\ IF older.phase = "served"
     THEN hosts' = older.list /\ created' = Forgets(created, older.list)
     ELSE UNCHANGED <<hosts, created>>
  /\ job' = Done("older")
  /\ UNCHANGED <<monitor, active, newest, removal, lost>>

\* request !== hostRequest.current: an answer or an error that is ignored.
OlderEnds ==
  /\ older.phase # "none" /\ older' = NoLoad /\ job' = Done("older")
  /\ UNCHANGED <<monitor, active, hosts, newest, created, removal, lost>>

-----------------------------------------------------------------------------
(* Credentials *)

\* What is on the screen is wiped first.
Create ==
  /\ hosts # None /\ job = None /\ created' = None
  /\ job' = [step |-> "sent", host |-> None, token |-> None]
  /\ UNCHANGED <<monitor, active, hosts, loads, removal, lost>>

\* Mutant: the button is not disabled while a request is under way.
RegenerateBusy(h) ==
  /\ hosts # None /\ h \in DOMAIN hosts /\ ~hosts[h] /\ created' = None
  /\ stray' = IF job # None /\ job.step = "sent" THEN stray \cup ({job.host} \ {None}) ELSE stray
  /\ job' = [step |-> "sent", host |-> h, token |-> None]
  /\ UNCHANGED <<monitor, active, hosts, loads, removal, abandoned>>

Regenerate(h) ==
  /\ hosts # None /\ h \in DOMAIN hosts /\ ~hosts[h] /\ job = None /\ created' = None
  /\ job' = [step |-> "sent", host |-> h, token |-> None]
  /\ UNCHANGED <<monitor, active, hosts, loads, removal, lost>>

\* The credential is shown and the list loaded again; the buttons stay disabled
\* until that load has ended, whether its answer counts or not.
JobAnswer ==
  /\ job # None /\ job.step = "served"
  /\ created' = Forgets([host |-> job.host, token |-> job.token], hosts)
  /\ newest.phase = "none" \/ older.phase = "none"
  /\ newest' = Sent /\ older' = IF newest.phase = "none" THEN older ELSE newest
  /\ job' = [job EXCEPT !.step = "newest"]
  /\ UNCHANGED <<monitor, active, hosts, removal, lost>>

\* The request was refused, or its answer is lost; it may still be under way.
JobFails ==
  /\ job # None /\ job.step \in {"sent", "served"} /\ job' = None
  /\ \/ UNCHANGED lost
     \/ /\ job.step = "sent" /\ job.host # None
        /\ stray' = stray \cup {job.host} /\ abandoned' = abandoned \cup {job.host}
  /\ UNCHANGED <<monitor, active, hosts, loads, created, removal>>

-----------------------------------------------------------------------------
(* Deletion *)

\* The handler keeps the credential it saw when it was called.
Remove(h) ==
  /\ hosts # None /\ h \in DOMAIN hosts /\ removal = None
  /\ removal' = [host |-> h, mine |-> created # None /\ created.host = h, served |-> FALSE]
  /\ UNCHANGED <<monitor, active, hosts, loads, created, job, lost>>

RemovalAnswer ==
  /\ removal # None /\ removal.served /\ removal' = None
  /\ created' = IF removal.mine THEN None ELSE created
  /\ Supersede(job)
  /\ UNCHANGED <<monitor, active, hosts, lost>>

RemovalFails ==
  /\ removal # None /\ removal' = None
  /\ UNCHANGED <<monitor, active, hosts, loads, created, job, lost>>

-----------------------------------------------------------------------------
PanelNext ==
  \/ Others \/ ServeNewest \/ ServeOlder \/ ServeJob \/ ServeRemoval
  \/ Enter \/ Leave \/ Refresh \/ NewestAnswer \/ NewestFails \/ OlderEnds
  \/ Create \/ JobAnswer \/ JobFails \/ RemovalAnswer \/ RemovalFails
  \/ \E h \in Hosts : ServeStray(h) \/ Regenerate(h) \/ Remove(h)

PanelSpec == PanelInit /\ [][PanelNext]_panelVars

\* The timer fires, and loads are answered now and then however often they fail or
\* are superseded.
FairPanelSpec ==
  /\ PanelSpec /\ SF_panelVars(Refresh) /\ SF_panelVars(ServeNewest)
  /\ SF_panelVars(NewestAnswer) /\ WF_panelVars(OlderEnds)

-----------------------------------------------------------------------------
(* Properties *)

\* A credential on the screen is the one that enrolls its host, as long as the host
\* exists and is pending: no answer of an earlier request replaces it, and nobody
\* is given a credential that was renewed since, unless a renewal was abandoned.
ShownTokenIsCurrent ==
  created # None =>
    LET h == created.host
    IN (life[h] = "present" /\ key[h] = None /\ h \notin abandoned) => pass[h] = created.token

\* The list never goes back: a host that was shown with its key is not shown as
\* pending later, in whatever order loads are served and answered.
ListNeverGoesBack ==
  [][(hosts # None /\ hosts' # None) =>
       \A h \in DOMAIN hosts \cap DOMAIN hosts' : hosts[h] => hosts'[h]]_hosts

\* The credential of a host that has enrolled disappears from the screen.
CredentialGoes ==
  \A h \in Hosts :
    (created # None /\ created.host = h /\ key[h] # None)
       ~> (created = None \/ created.host # h \/ key[h] = None)
=============================================================================
