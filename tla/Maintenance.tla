---------------------------- MODULE Maintenance ----------------------------
(***************************************************************************)
(* Remote maintenance tasks: the table maintenance_tasks and its events      *)
(* (store/maintenance.go), the maintenance_sync handler (server/ingest.go),  *)
(* apiCreateMaintenance (server/maintenance.go), and, as the environment,    *)
(* the agent on the host (not in this repository; MAINTENANCE.md).           *)
(*                                                                         *)
(* The Monitor's database and the agent's ledger are durable; sessions,      *)
(* frames and handlers are not.  The agent writes a task and each of its     *)
(* events to its ledger before anything else happens, numbers the events of  *)
(* a task from 1, and sends again whatever is not acknowledged.  An event is *)
(* immutable once written, so a frame names a range of events of a task and  *)
(* their content is read from the ledger.                                    *)
(*                                                                         *)
(* Every SQL statement or transaction is one step (the pool has a single     *)
(* connection), and anything may happen between two of them.  The sync       *)
(* handler holds lifecycle for reading throughout; a create request holds    *)
(* lifecycle and hub.mu for reading from its first check to its insert.      *)
(***************************************************************************)
EXTENDS Integers, Sequences, FiniteSets

CONSTANTS
  Hosts,     \* public ids
  Tasks,     \* task ids; every one is used once
  Requests,  \* create requests an administrator may have under way
  Batch,     \* events in one sync frame (16)
  MaxSeq,    \* highest event number the Monitor accepts (4096)
  AgentLog,  \* events the agent writes for one task
  Willing,   \* what a poll may say of maintenance being enabled on the host
  None

ASSUME BoundsAreNat == /\ Batch \in Nat \ {0} /\ MaxSeq \in Nat /\ AgentLog \in Nat
ASSUME WillingIsBoolean == Willing \subseteq BOOLEAN
ASSUME NoneIsNew == None \notin Hosts \cup Tasks \cup Requests

\* The agent bounds its log so that the final result still has a number.
ASSUME LogFits == AgentLog <= MaxSeq

VARIABLES
  \* the Monitor's database
  thost,      \* the host of a task
  status,     \* its status; "none" before the row exists
  delivered,  \* tasks with delivered=1
  overdue,    \* queued tasks created more than 60 seconds ago
  lastSeq,    \* last_seq
  rows,       \* maintenance_events of a task: pairs <<seq, status>>
  \* the Monitor's memory
  sess,       \* the registered session of a host
  supported,  \* Hub.maintenanceSupported
  sync,       \* the sync handler of a host's connection
  create,     \* the create requests
  \* frames in flight
  inbox,      \* from the agent of a host
  outbox,     \* to the agent of a host
  \* the agents
  ledger,     \* the statuses recorded for a task
  acked,      \* the highest event the agent knows the Monitor has
  running     \* tasks whose executor is running

db    == <<thost, status, delivered, overdue, lastSeq, rows>>
mem   == <<sess, supported, sync, create>>
net   == <<inbox, outbox>>
agent == <<ledger, acked, running>>
vars  == <<db, mem, net, agent>>

Reports  == {"accepted", "running", "verifying", "succeeded", "failed", "unknown"}
Terminal == {"succeeded", "failed"}
Closed   == Terminal \cup {"expired"}

SyncIdle   == [step |-> "idle", task |-> None, next |-> 1, last |-> 0,
               ack |-> 0, supported |-> FALSE, offer |-> None]
CreateIdle == [step |-> "idle", host |-> None]
NoFrame    == [task |-> None, first |-> 1, last |-> 0, supported |-> FALSE, sent |-> FALSE]
NoReply    == [task |-> None, ack |-> 0, offer |-> None, sent |-> FALSE]

TypeOK ==
  /\ thost \in [Tasks -> Hosts \cup {None}]
  /\ status \in [Tasks -> Reports \cup {"none", "queued", "delivered", "expired"}]
  /\ delivered \subseteq Tasks /\ overdue \subseteq Tasks
  /\ lastSeq \in [Tasks -> Nat]
  /\ rows \in [Tasks -> SUBSET (Nat \X Reports)]
  /\ sess \in [Hosts -> {"none", "up", "gone", "deleted"}]
  /\ supported \subseteq Hosts
  /\ sync \in [Hosts -> {SyncIdle} \cup
                         [step : {"apply", "expire", "offer", "reply"},
                          task : Tasks \cup {None}, next : Nat, last : Nat, ack : Nat,
                          supported : BOOLEAN, offer : Tasks \cup {None}]]
  /\ create \in [Requests -> {CreateIdle} \cup [step : {"expire", "insert"}, host : Hosts]]
  /\ inbox \in [Hosts -> [task : Tasks \cup {None}, first : Nat, last : Nat,
                          supported : BOOLEAN, sent : BOOLEAN]]
  /\ outbox \in [Hosts -> [task : Tasks \cup {None}, ack : Nat,
                           offer : Tasks \cup {None}, sent : BOOLEAN]]
  /\ ledger \in [Tasks -> Seq(Reports)]
  /\ acked \in [Tasks -> Nat]
  /\ running \subseteq Tasks

Init ==
  /\ thost = [t \in Tasks |-> None] /\ status = [t \in Tasks |-> "none"]
  /\ delivered = {} /\ overdue = {}
  /\ lastSeq = [t \in Tasks |-> 0] /\ rows = [t \in Tasks |-> {}]
  /\ sess = [h \in Hosts |-> "none"] /\ supported = {}
  /\ sync = [h \in Hosts |-> SyncIdle] /\ create = [r \in Requests |-> CreateIdle]
  /\ inbox = [h \in Hosts |-> NoFrame] /\ outbox = [h \in Hosts |-> NoReply]
  /\ ledger = [t \in Tasks |-> <<>>] /\ acked = [t \in Tasks |-> 0] /\ running = {}

-----------------------------------------------------------------------------
(* The store *)

Active(t) == status[t] \notin Closed \cup {"none"}

\* ExpireMaintenance, one statement: jobs never offered to an agent.
Expires(t) == status[t] = "queued" /\ t \notin delivered /\ t \in overdue

Expire ==
  /\ status' = [t \in Tasks |-> IF Expires(t) THEN "expired" ELSE status[t]]
  /\ overdue' = {t \in overdue : ~Expires(t)}

\* Mutant: a task is offered once only.
OfferableOnce(h) == {t \in Tasks : thost[t] = h /\ status[t] = "queued"}

\* The task PendingMaintenance selects for a host.
Offerable(h) == {t \in Tasks : /\ thost[t] = h
                               /\ status[t] \in {"queued", "delivered"}
                               /\ lastSeq[t] = 0}

\* validMaintenanceTransition
Rank == [accepted |-> 1, running |-> 2, verifying |-> 3, succeeded |-> 4, failed |-> 4]

\* Mutant: nothing is accepted after "unknown".
ValidTransitionFromKnown(old, next) ==
  IF old \in {"queued", "delivered"} THEN next = "accepted"
  ELSE /\ old \notin Closed \cup {"unknown"}
       /\ next # "unknown" => Rank[next] >= Rank[old]

ValidTransition(old, next) ==
  IF old \in {"queued", "delivered"} THEN next = "accepted"
  ELSE /\ old \notin Closed
       /\ next # "unknown" =>
            IF old = "unknown" THEN next # "accepted" ELSE Rank[next] >= Rank[old]

\* ApplyMaintenanceEvent, for event seq of task t reported by host h.  The
\* fields of an event that the agent writes are always within the limits, but
\* for its number.
Known(h, t, seq) == status[t] # "none" /\ thost[t] = h /\ seq \in 1 .. MaxSeq

Duplicate(t, seq) == seq <= lastSeq[t] /\ <<seq, ledger[t][seq]>> \in rows[t]

\* Mutant: gaps are not refused.
ExtendsOverGap(t, seq) == seq > lastSeq[t] /\ ValidTransition(status[t], ledger[t][seq])

Extends(t, seq) == seq = lastSeq[t] + 1 /\ ValidTransition(status[t], ledger[t][seq])

Accepts(h, t, seq) == Known(h, t, seq) /\ (Duplicate(t, seq) \/ Extends(t, seq))

Record(t, seq) ==
  /\ rows' = [rows EXCEPT ![t] = @ \cup {<<seq, ledger[t][seq]>>}]
  /\ status' = [status EXCEPT ![t] = ledger[t][seq]]
  /\ lastSeq' = [lastSeq EXCEPT ![t] = seq]

-----------------------------------------------------------------------------
(* The locks *)

HubFree       == \A r \in Requests : create[r].step = "idle"
LifecycleFree == HubFree /\ \A h \in Hosts : sync[h].step = "idle"

-----------------------------------------------------------------------------
(* apiCreateMaintenance.  The checks of host, platform and release read data  *)
(* nothing here changes; a refusal changes nothing.                           *)

CreateCheck(r, h) ==
  /\ create[r].step = "idle"
  /\ sess[h] \in {"up", "gone"} /\ h \in supported
  /\ \E t \in Tasks : status[t] = "none"
  /\ create' = [create EXCEPT ![r] = [step |-> "expire", host |-> h]]
  /\ UNCHANGED <<db, sess, supported, sync, net, agent>>

CreateExpire(r) ==
  /\ create[r].step = "expire"
  /\ Expire
  /\ create' = [create EXCEPT ![r].step = "insert"]
  /\ UNCHANGED <<thost, delivered, lastSeq, rows, sess, supported, sync, net, agent>>

\* Mutant: a task of unknown outcome does not keep others out.
ConflictUnlessUnknown(h) ==
  \E t \in Tasks : thost[t] = h /\ Active(t) /\ status[t] # "unknown"

Conflict(h) == \E t \in Tasks : thost[t] = h /\ Active(t)

CreateInsert(r, t) ==
  /\ create[r].step = "insert"
  /\ ~Conflict(create[r].host)
  /\ status[t] = "none"
  /\ status' = [status EXCEPT ![t] = "queued"]
  /\ thost' = [thost EXCEPT ![t] = create[r].host]
  /\ create' = [create EXCEPT ![r] = CreateIdle]
  /\ UNCHANGED <<delivered, overdue, lastSeq, rows, sess, supported, sync, net, agent>>

\* Conflict, or a database error.
CreateRefused(r) ==
  /\ create[r].step # "idle"
  /\ create' = [create EXCEPT ![r] = CreateIdle]
  /\ UNCHANGED <<db, sess, supported, sync, net, agent>>

\* The task pages expire tasks too.
ListExpire ==
  /\ \E t \in Tasks : Expires(t)
  /\ Expire
  /\ UNCHANGED <<thost, delivered, lastSeq, rows, mem, net, agent>>

-----------------------------------------------------------------------------
(* The maintenance_sync handler *)

Become(h, new) == sync' = [sync EXCEPT ![h] = new]

\* The frame is read, and what the agent supports is recorded under hub.mu.
SyncRead(h) ==
  /\ sess[h] \in {"up", "gone"} /\ sync[h].step = "idle" /\ inbox[h].sent /\ HubFree
  /\ supported' = IF inbox[h].supported THEN supported \cup {h} ELSE supported \ {h}
  /\ Become(h, [step |-> "apply", task |-> inbox[h].task, next |-> inbox[h].first,
                last |-> inbox[h].last, ack |-> 0, supported |-> inbox[h].supported,
                offer |-> None])
  /\ inbox' = [inbox EXCEPT ![h] = NoFrame]
  /\ UNCHANGED <<db, sess, create, outbox, agent>>

Applying(h) == sync[h].step = "apply" /\ sync[h].next <= sync[h].last

\* An event that is new or a duplicate is acknowledged.
SyncApply(h) ==
  LET s == sync[h] IN
  /\ Applying(h)
  /\ Accepts(h, s.task, s.next)
  /\ IF Duplicate(s.task, s.next) THEN UNCHANGED <<rows, status, lastSeq>>
                                  ELSE Record(s.task, s.next)
  /\ Become(h, [s EXCEPT !.next = s.next + 1, !.ack = s.next])
  /\ UNCHANGED <<thost, delivered, overdue, sess, supported, create, net, agent>>

\* A refused event, or a database error: no acknowledgement, and on to the next.
SyncSkip(h) ==
  /\ Applying(h)
  /\ Become(h, [sync[h] EXCEPT !.next = sync[h].next + 1])
  /\ UNCHANGED <<db, sess, supported, create, net, agent>>

SyncApplied(h) ==
  /\ sync[h].step = "apply" /\ ~Applying(h)
  /\ Become(h, [SyncIdle EXCEPT
                  !.step = IF sync[h].supported THEN "expire" ELSE "reply",
                  !.task = IF sync[h].ack > 0 THEN sync[h].task ELSE None,
                  !.ack = sync[h].ack])
  /\ UNCHANGED <<db, sess, supported, create, net, agent>>

\* PendingMaintenance: expire, then persist the intent to deliver, then (after
\* the handler has returned from the store) write to the network.
SyncExpire(h) ==
  /\ sync[h].step = "expire"
  /\ Expire
  /\ Become(h, [sync[h] EXCEPT !.step = "offer"])
  /\ UNCHANGED <<thost, delivered, lastSeq, rows, sess, supported, create, net, agent>>

\* Mutant: the intent to deliver is not persisted.
SyncOfferUnsaved(h, t) ==
  /\ sync[h].step = "offer" /\ t \in Offerable(h)
  /\ Become(h, [sync[h] EXCEPT !.step = "reply", !.offer = t])
  /\ UNCHANGED <<db, sess, supported, create, net, agent>>

SyncOffer(h, t) ==
  /\ sync[h].step = "offer" /\ t \in Offerable(h)
  /\ status' = [status EXCEPT ![t] = "delivered"]
  /\ delivered' = delivered \cup {t}
  /\ overdue' = overdue \ {t}
  /\ Become(h, [sync[h] EXCEPT !.step = "reply", !.offer = t])
  /\ UNCHANGED <<thost, lastSeq, rows, sess, supported, create, net, agent>>

\* The intent is persisted, but the task cannot be read back: it is not offered.
SyncOfferUnread(h, t) ==
  /\ sync[h].step = "offer" /\ t \in Offerable(h)
  /\ status' = [status EXCEPT ![t] = "delivered"]
  /\ delivered' = delivered \cup {t}
  /\ overdue' = overdue \ {t}
  /\ Become(h, [sync[h] EXCEPT !.step = "reply"])
  /\ UNCHANGED <<thost, lastSeq, rows, sess, supported, create, net, agent>>

\* Nothing to offer, or a database error before the commit: the reply carries the
\* acknowledgements alone.
SyncNoOffer(h) ==
  /\ sync[h].step \in {"expire", "offer"}
  /\ Become(h, [sync[h] EXCEPT !.step = "reply"])
  /\ UNCHANGED <<db, sess, supported, create, net, agent>>

SyncReply(h) ==
  /\ sync[h].step = "reply" /\ sess[h] = "up" /\ ~outbox[h].sent
  /\ outbox' = [outbox EXCEPT ![h] = [task |-> sync[h].task, ack |-> sync[h].ack,
                                      offer |-> sync[h].offer, sent |-> TRUE]]
  /\ Become(h, SyncIdle)
  /\ UNCHANGED <<db, sess, supported, create, inbox, agent>>

\* The write fails or times out; the connection is closed.
SyncReplyFails(h) ==
  /\ sync[h].step = "reply"
  /\ sess' = [sess EXCEPT ![h] = "gone"]
  /\ outbox' = [outbox EXCEPT ![h] = NoReply]
  /\ Become(h, SyncIdle)
  /\ UNCHANGED <<db, supported, create, inbox, agent>>

-----------------------------------------------------------------------------
(* Sessions, time, failures.  Module Presence has the life of a connection in *)
(* full; here a session is "up", or "gone" until the server notices.          *)

Forget(h) == /\ supported' = supported \ {h}
             /\ inbox' = [inbox EXCEPT ![h] = NoFrame]
             /\ outbox' = [outbox EXCEPT ![h] = NoReply]

\* AddAgent, whether or not an older session is still registered.
Connect(h) ==
  /\ sess[h] \in {"none", "gone"} /\ LifecycleFree
  /\ sess' = [sess EXCEPT ![h] = "up"]
  /\ Forget(h)
  /\ UNCHANGED <<db, sync, create, agent>>

\* RemoveAgent
Disconnect(h) ==
  /\ sess[h] = "gone" /\ LifecycleFree
  /\ sess' = [sess EXCEPT ![h] = "none"]
  /\ Forget(h)
  /\ UNCHANGED <<db, sync, create, agent>>

\* RevokeAgent: DeleteHost leaves the maintenance tables alone.
Delete(h) ==
  /\ sess[h] # "deleted" /\ LifecycleFree
  /\ sess' = [sess EXCEPT ![h] = "deleted"]
  /\ Forget(h)
  /\ UNCHANGED <<db, sync, create, agent>>

\* The network, or the agent's process, goes.  What the server has in its socket
\* buffer may still be read; what was on its way to the agent is lost.
Break(h) ==
  /\ sess[h] = "up"
  /\ sess' = [sess EXCEPT ![h] = "gone"]
  /\ outbox' = [outbox EXCEPT ![h] = NoReply]
  /\ UNCHANGED <<db, supported, sync, create, inbox, agent>>

\* The Monitor's process ends and starts again.
ServerCrash ==
  /\ sess' = [h \in Hosts |-> IF sess[h] = "deleted" THEN "deleted" ELSE "none"]
  /\ supported' = {}
  /\ sync' = [h \in Hosts |-> SyncIdle] /\ create' = [r \in Requests |-> CreateIdle]
  /\ inbox' = [h \in Hosts |-> NoFrame] /\ outbox' = [h \in Hosts |-> NoReply]
  /\ UNCHANGED <<db, agent>>

\* 60 seconds have passed since the creation of t.
Age(t) ==
  /\ status[t] = "queued" /\ t \notin overdue
  /\ overdue' = overdue \cup {t}
  /\ UNCHANGED <<thost, status, delivered, lastSeq, rows, mem, net, agent>>

-----------------------------------------------------------------------------
(* The agent (external).  It does not check that it has no other task: that   *)
(* is the Monitor's promise.                                                  *)

Last(t) == ledger[t][Len(ledger[t])]
Finished(t) == ledger[t] # <<>> /\ Last(t) \in Terminal

\* The last number is kept for the final result.
HasRoom(t, report) ==
  Len(ledger[t]) < IF report \in Terminal THEN AgentLog ELSE AgentLog - 1

Write(t, report) ==
  /\ HasRoom(t, report)
  /\ ledger' = [ledger EXCEPT ![t] = Append(@, report)]

Least(a, b) == IF a <= b THEN a ELSE b

\* The unacknowledged events of a task, at most a batch, or a frame without any.
AgentSync(h, t) ==
  /\ sess[h] = "up" /\ ~inbox[h].sent
  /\ thost[t] = h /\ acked[t] < Len(ledger[t])
  /\ inbox' = [inbox EXCEPT ![h] =
                 [task |-> t, first |-> acked[t] + 1,
                  last |-> Least(acked[t] + Batch, Len(ledger[t])),
                  supported |-> TRUE, sent |-> TRUE]]
  /\ UNCHANGED <<db, mem, outbox, agent>>

AgentPoll(h, willing) ==
  /\ sess[h] = "up" /\ ~inbox[h].sent
  /\ inbox' = [inbox EXCEPT ![h] = [NoFrame EXCEPT !.supported = willing, !.sent = TRUE]]
  /\ UNCHANGED <<db, mem, outbox, agent>>

\* A reply: note the acknowledgements, record a task seen for the first time.
AgentReceive(h) ==
  LET m == outbox[h] IN
  /\ sess[h] = "up" /\ m.sent
  /\ acked' = [t \in Tasks |-> IF t = m.task /\ m.ack > acked[t] THEN m.ack ELSE acked[t]]
  /\ ledger' = [t \in Tasks |-> IF t = m.offer /\ ledger[t] = <<>>
                                  THEN <<"accepted">> ELSE ledger[t]]
  /\ outbox' = [outbox EXCEPT ![h] = NoReply]
  /\ UNCHANGED <<db, mem, inbox, running>>

AgentStart(t) ==
  /\ ledger[t] = <<"accepted">> /\ Write(t, "running")
  /\ running' = running \cup {t}
  /\ UNCHANGED <<db, mem, net, acked>>

\* Progress, log lines, and an agent that restarts and cannot tell.
AgentReport(t, report) ==
  /\ t \in running /\ report \in {"running", "verifying", "unknown"}
  /\ Last(t) # "verifying" \/ report # "running"
  /\ Write(t, report)
  /\ UNCHANGED <<db, mem, net, acked, running>>

AgentFinish(t, report) ==
  /\ t \in running /\ report \in Terminal
  /\ Write(t, report)
  /\ running' = running \ {t}
  /\ UNCHANGED <<db, mem, net, acked>>

\* The host goes down with its executor: the outcome is unknown, until someone
\* reconciles it.  Nothing is executed again.
HostCrash(t) ==
  /\ ledger[t] # <<>> /\ ~Finished(t) /\ Last(t) # "unknown"
  /\ Write(t, "unknown")
  /\ running' = running \ {t}
  /\ UNCHANGED <<db, mem, net, acked>>

Reconcile(t, report) ==
  /\ ledger[t] # <<>> /\ Last(t) = "unknown" /\ t \notin running /\ report \in Terminal
  /\ Write(t, report)
  /\ UNCHANGED <<db, mem, net, acked, running>>

-----------------------------------------------------------------------------
Monitor ==
  \/ \E r \in Requests : \/ \E h \in Hosts : CreateCheck(r, h)
                         \/ CreateExpire(r) \/ CreateRefused(r)
                         \/ \E t \in Tasks : CreateInsert(r, t)
  \/ ListExpire
  \/ \E h \in Hosts : \/ SyncRead(h) \/ SyncApply(h) \/ SyncSkip(h) \/ SyncApplied(h)
                      \/ SyncExpire(h) \/ SyncNoOffer(h)
                      \/ \E t \in Tasks : SyncOffer(h, t) \/ SyncOfferUnread(h, t)
                      \/ SyncReply(h) \/ SyncReplyFails(h)

Environment ==
  \/ \E h \in Hosts : Connect(h) \/ Disconnect(h) \/ Delete(h) \/ Break(h)
  \/ ServerCrash
  \/ \E t \in Tasks : Age(t)

Agents ==
  \/ \E h \in Hosts : \/ \E b \in Willing : AgentPoll(h, b)
                      \/ AgentReceive(h)
                      \/ \E t \in Tasks : AgentSync(h, t)
  \/ \E t \in Tasks : \/ AgentStart(t) \/ HostCrash(t)
                      \/ \E x \in Reports : AgentReport(t, x) \/ AgentFinish(t, x)
                                            \/ Reconcile(t, x)

Next == Monitor \/ Environment \/ Agents

Spec == Init /\ [][Next]_vars

-----------------------------------------------------------------------------
(* Properties *)

\* MAINTENANCE.md: a host has at most one unfinished task at a time, whatever
\* requests overlap and whatever was lost.
OneActiveTask ==
  \A t, u \in Tasks :
    thost[t] = thost[u] /\ Active(t) /\ Active(u) => t = u

\* A task that has expired was never sent to an agent, and no frame that carries
\* it is on its way: it cannot be executed after the user was told it is over.
ExpiredIsNeverExecuted ==
  \A t \in Tasks : status[t] = "expired" =>
    /\ t \notin delivered /\ ledger[t] = <<>>
    /\ \A h \in Hosts : sync[h].offer # t /\ outbox[h].offer # t

\* The Monitor's events of a task are the first events of the agent's ledger,
\* each once and in order, through lost frames, lost acknowledgements, crashes
\* and refused events.
LogIsPrefix ==
  \A t \in Tasks :
    /\ lastSeq[t] <= Len(ledger[t])
    /\ rows[t] = {<<i, ledger[t][i]>> : i \in 1 .. lastSeq[t]}

\* An event the agent may drop because it was acknowledged is in the database.
AckedIsStored == \A t \in Tasks : acked[t] <= lastSeq[t]

\* The status of a task is that of its last event, and before the first event it
\* tells whether delivery was attempted.
StatusIsLastEvent ==
  \A t \in Tasks :
    IF lastSeq[t] > 0
      THEN <<lastSeq[t], status[t]>> \in rows[t]
      ELSE /\ status[t] \in {"none", "queued", "delivered", "expired"}
           /\ (t \in delivered) <=> (status[t] = "delivered")

\* The Monitor's record of a task is sound: together, what the user is shown, what
\* the agent has been told, and what the host wrote down never contradict.
StoredEvents == LogIsPrefix /\ AckedIsStored /\ StatusIsLastEvent

\* Events are never rewritten or lost, and a closed task stays as it is.
HistoryIsFinal ==
  [][\A t \in Tasks : /\ rows[t] \subseteq rows'[t]
                      /\ status[t] \in Closed => status'[t] = status[t]]_vars

-----------------------------------------------------------------------------
(* What the whole promises, as a specification of its own *)

Fate(t) == IF status[t] \in {"none", "expired"} THEN status[t] ELSE "open"

Promise == INSTANCE MaintenancePromise
             WITH fate <- [t \in Tasks |-> Fate(t)], place <- thost,
                  log <- ledger, known <- lastSeq

\* Sessions, batches, retries and crashes on both sides implement the promise.
KeepsPromise == Promise!Spec

-----------------------------------------------------------------------------
(* Liveness.  Handlers, and an agent that reconnects, polls, and sends what is *)
(* unacknowledged again and again (MAINTENANCE.md), go on: weak fairness, or   *)
(* strong where another step under way may be in between.  The promise is made *)
(* for a system whose failures, however many, come to an end.  The run that    *)
(* checks it has Willing = {TRUE}, a host on which maintenance stays enabled.  *)

Failure ==
  \/ ServerCrash
  \/ \E h \in Hosts :
       \/ Break(h)
       \/ SyncReplyFails(h) /\ sess[h] = "up"
       \/ SyncSkip(h) /\ Accepts(h, sync[h].task, sync[h].next)
       \/ \E t \in Tasks : SyncOfferUnread(h, t)
       \/ SyncNoOffer(h) /\ (sync[h].step = "expire" \/ Offerable(h) # {})

HandlerFairness ==
  /\ \A r \in Requests :
       WF_vars(CreateExpire(r) \/ CreateRefused(r) \/ \E t \in Tasks : CreateInsert(r, t))
  /\ \A h \in Hosts :
       /\ SF_vars(SyncRead(h))
       /\ WF_vars(SyncApply(h) \/ SyncSkip(h) \/ SyncApplied(h))
       /\ WF_vars(\/ SyncExpire(h) \/ SyncNoOffer(h)
                  \/ \E t \in Tasks : SyncOffer(h, t) \/ SyncOfferUnread(h, t))
       /\ WF_vars(SyncReply(h) \/ SyncReplyFails(h))

AgentFairness ==
  \A h \in Hosts : /\ SF_vars(Connect(h)) /\ SF_vars(AgentPoll(h, TRUE))
                   /\ WF_vars(AgentReceive(h))
                   /\ \A t \in Tasks : SF_vars(AgentSync(h, t))

FairSpec == Spec /\ HandlerFairness /\ AgentFairness

Calm == <>[][~Failure]_vars

Gone(t) == thost[t] # None /\ sess[thost[t]] = "deleted"

\* The result of a task reaches the Monitor, and the host's place is free again,
\* unless the host is deleted: no event is refused for ever.
ResultArrives ==
  Calm => \A t \in Tasks : Finished(t) ~> (status[t] \in Terminal \/ Gone(t))

\* A task whose delivery was attempted does not stay in doubt: the offer is
\* repeated until the agent's acceptance is recorded.
OfferIsAnswered ==
  Calm => \A t \in Tasks : (status[t] = "delivered") ~> (lastSeq[t] > 0 \/ Gone(t))
=============================================================================
