------------------------------ MODULE Presence ------------------------------
(***************************************************************************)
(* Agent sessions, host presence and the delayed offline notification.      *)
(*                                                                         *)
(* handleReport (server/ingest.go) runs once per WebSocket connection and   *)
(* goes through the steps of pc below.  It shares with the other handlers   *)
(* Hub.agents (server/hub.go), the hosts table, and the map of pending      *)
(* offline timers (server/notification.go).  apiDeleteHost (server/api.go)  *)
(* revokes a host while its connections are anywhere in that sequence.      *)
(*                                                                         *)
(* Locks.  lifecycle is the only lock held across several steps: a handler  *)
(* holds it for writing in "added" and "removed", for reading in            *)
(* "dispatch".  A section under hub.mu or offlineNotificationMu is one      *)
(* step: no other code runs inside it that touches what it touches.  A      *)
(* timer callback does not take lifecycle, so it interleaves with the       *)
(* sections of the handlers.                                                *)
(***************************************************************************)
EXTENDS Integers, FiniteSets

CONSTANTS
  Hosts,    \* public ids of the hosts created before the behaviour starts
  Conns,    \* connections; a connection that has ended may be used again
  Timers,   \* offline timers; a timer that is spent may be used again
  None      \* the nil of the Go maps

ASSUME NoneIsNew == None \notin Hosts \cup Conns \cup Timers

VARIABLES
  hosts,      \* the rows of table hosts (durable)
  agents,     \* Hub.agents: the registered connection of a host
  pc,         \* where the handler of a connection is
  owner,      \* the host whose key a running connection presented
  open,       \* connections whose socket neither side has closed
  timer,      \* Server.offlineNotificationTimers
  tstate,     \* a timer is free, armed, or fired (its callback has not locked yet)
  thost,      \* the host a timer in use was created for
  deleting,   \* hosts revoked whose timer apiDeleteHost has still to cancel
  published,  \* the last status event published for a host since the start
  announced   \* the last notification decided for a host since the start

vars == <<hosts, agents, pc, owner, open, timer, tstate, thost, deleting,
          published, announced>>

session == <<agents, pc, owner, open>>
alarm   == <<timer, tstate, thost>>

Steps == {"idle", "looked up", "proved", "added", "ack", "loop", "dispatch",
          "exiting", "removed"}

TypeOK ==
  /\ hosts \subseteq Hosts
  /\ agents \in [Hosts -> Conns \cup {None}]
  /\ pc \in [Conns -> Steps]
  /\ owner \in [Conns -> Hosts \cup {None}]
  /\ \A c \in Conns : pc[c] # "idle" => owner[c] \in Hosts
  /\ open \subseteq Conns
  /\ timer \in [Hosts -> Timers \cup {None}]
  /\ tstate \in [Timers -> {"free", "armed", "fired"}]
  /\ thost \in [Timers -> Hosts \cup {None}]
  /\ \A t \in Timers : tstate[t] # "free" => thost[t] \in Hosts
  /\ deleting \subseteq Hosts
  /\ published \in [Hosts -> {"none", "online", "offline"}]
  /\ announced \in [Hosts -> {"none", "online", "offline"}]

NoSession == [h \in Hosts |-> None]
AllIdle   == [c \in Conns |-> "idle"]
AllFree   == [t \in Timers |-> "free"]
NoNews    == [h \in Hosts |-> "none"]

Init ==
  /\ hosts = Hosts
  /\ agents = NoSession /\ pc = AllIdle
  /\ owner = [c \in Conns |-> None] /\ open = {}
  /\ timer = NoSession /\ tstate = AllFree /\ thost = [t \in Timers |-> None]
  /\ deleting = {}
  /\ published = NoNews /\ announced = NoNews

-----------------------------------------------------------------------------
(* The lifecycle lock *)

\* Mutants: lifecycle unlocked before the pending notification is settled; writers
\* that do not wait for readers.
WriteLockedBeforeSettle == \E c \in Conns : pc[c] = "removed"
MayLockDuringRead == ~\E c \in Conns : pc[c] \in {"added", "removed"}

WriteLocked == \E c \in Conns : pc[c] \in {"added", "removed"}
ReadLocked  == \E c \in Conns : pc[c] = "dispatch"
MayLock     == ~WriteLocked /\ ~ReadLocked
MayRLock    == ~WriteLocked

Goto(c, step) == pc' = [pc EXCEPT ![c] = step]

\* The handler returns, and its deferred conn.Close runs.
End(c) ==
  /\ Goto(c, "idle")
  /\ owner' = [owner EXCEPT ![c] = None]
  /\ open' = open \ {c}

\* Timer.Stop: a timer whose callback has started cannot be stopped any more.
Stoppable(h) == {t \in Timers : timer[h] = t /\ tstate[t] = "armed"}

StopTimer(h) ==
  /\ tstate' = [t \in Timers |-> IF t \in Stoppable(h) THEN "free" ELSE tstate[t]]
  /\ thost' = [t \in Timers |-> IF t \in Stoppable(h) THEN None ELSE thost[t]]

-----------------------------------------------------------------------------
(* The handler of a connection *)

\* Rate limiter, key lookup and upgrade.  A refused request changes nothing.
LookUp(c, h) ==
  /\ pc[c] = "idle" /\ h \in hosts
  /\ Goto(c, "looked up")
  /\ owner' = [owner EXCEPT ![c] = h]
  /\ open' = open \cup {c}
  /\ UNCHANGED <<hosts, agents, alarm, deleting, published, announced>>

\* The challenge is answered: the peer holds the private key.
Prove(c) ==
  /\ pc[c] = "looked up" /\ c \in open
  /\ Goto(c, "proved")
  /\ UNCHANGED <<hosts, agents, owner, open, alarm, deleting, published, announced>>

\* Bad proof, handshake deadline, or the socket is gone.
RefuseProof(c) ==
  /\ pc[c] = "looked up"
  /\ End(c)
  /\ UNCHANGED <<hosts, agents, alarm, deleting, published, announced>>

\* The host was deleted between the lookup and the lock.
Revoked(c) == owner[c] \notin hosts

\* Deleted, or the lookup fails.
RegisterRefused(c) ==
  /\ pc[c] = "proved" /\ MayLock
  /\ End(c)
  /\ UNCHANGED <<hosts, agents, alarm, deleting, published, announced>>

AddAgent(c) == agents' = [agents EXCEPT ![owner[c]] = c]

\* Mutant: the status event is suppressed together with the notification.
RegisterFirstQuietly(c) ==
  /\ pc[c] = "proved" /\ MayLock /\ ~Revoked(c)
  /\ agents[owner[c]] = None
  /\ AddAgent(c)
  /\ published' = IF timer[owner[c]] # None THEN published
                    ELSE [published EXCEPT ![owner[c]] = "online"]
  /\ Goto(c, "added")
  /\ UNCHANGED <<hosts, owner, open, alarm, deleting, announced>>

\* AddAgent finds no connection: the host comes online.  The handler keeps the
\* lock until it has settled the pending offline notification.
RegisterFirst(c) ==
  /\ pc[c] = "proved" /\ MayLock /\ ~Revoked(c)
  /\ agents[owner[c]] = None
  /\ AddAgent(c)
  /\ published' = [published EXCEPT ![owner[c]] = "online"]
  /\ Goto(c, "added")
  /\ UNCHANGED <<hosts, owner, open, alarm, deleting, announced>>

\* Mutant: the replaced connection is not closed.
RegisterReplacingOpen(c) ==
  /\ pc[c] = "proved" /\ MayLock /\ ~Revoked(c)
  /\ agents[owner[c]] # None
  /\ AddAgent(c)
  /\ Goto(c, "ack")
  /\ UNCHANGED <<hosts, owner, open, alarm, deleting, published, announced>>

\* AddAgent finds one: it is replaced and closed, and the host stays online.
RegisterReplacing(c) ==
  /\ pc[c] = "proved" /\ MayLock /\ ~Revoked(c)
  /\ agents[owner[c]] # None
  /\ AddAgent(c)
  /\ open' = open \ {agents[owner[c]]}
  /\ Goto(c, "ack")
  /\ UNCHANGED <<hosts, owner, alarm, deleting, published, announced>>

\* cancelOfflineNotification: stop and forget the pending timer.
Cancel(h) ==
  /\ StopTimer(h)
  /\ timer' = [timer EXCEPT ![h] = None]

\* The online notification is suppressed when a timer was pending, and sent
\* otherwise; then lifecycle is unlocked.
Settle(c) ==
  /\ pc[c] = "added"
  /\ Cancel(owner[c])
  /\ announced' = IF timer[owner[c]] # None THEN announced
                    ELSE [announced EXCEPT ![owner[c]] = "online"]
  /\ Goto(c, "ack")
  /\ UNCHANGED <<hosts, agents, owner, open, deleting, published>>

\* auth_ok is written outside the lock.
AckOk(c) ==
  /\ pc[c] = "ack" /\ c \in open
  /\ Goto(c, "loop")
  /\ UNCHANGED <<hosts, agents, owner, open, alarm, deleting, published, announced>>

\* Mutant: the removal is deferred only after auth_ok has been written.
AckFailsUnregistered(c) ==
  /\ pc[c] = "ack"
  /\ End(c)
  /\ UNCHANGED <<hosts, agents, alarm, deleting, published, announced>>

AckFails(c) ==
  /\ pc[c] = "ack"
  /\ Goto(c, "exiting")
  /\ UNCHANGED <<hosts, agents, owner, open, alarm, deleting, published, announced>>

\* ReadMessage returns a frame (buffered frames outlive a close); the handler
\* takes the read lock, and dispatches only if it is still the registered one.
Current(c) == agents[owner[c]] = c

Dispatch(c) ==
  /\ pc[c] = "loop" /\ MayRLock /\ Current(c)
  /\ Goto(c, "dispatch")
  /\ UNCHANGED <<hosts, agents, owner, open, alarm, deleting, published, announced>>

ReadStale(c) ==
  /\ pc[c] = "loop" /\ MayRLock /\ ~Current(c)
  /\ Goto(c, "exiting")
  /\ UNCHANGED <<hosts, agents, owner, open, alarm, deleting, published, announced>>

\* dispatchConn returns; a failed reply closes the connection.
Dispatched(c) ==
  /\ pc[c] = "dispatch"
  /\ Goto(c, "loop")
  /\ open' \in {open, open \ {c}}
  /\ UNCHANGED <<hosts, agents, owner, alarm, deleting, published, announced>>

\* Read error, read deadline, or the message budget is used up.
ReadFails(c) ==
  /\ pc[c] = "loop"
  /\ Goto(c, "exiting")
  /\ UNCHANGED <<hosts, agents, owner, open, alarm, deleting, published, announced>>

\* Mutant: a host without a connection counts as this handler's to take offline.
RemovesAgentOrNone(c) == agents[owner[c]] \in {c, None}

\* The deferred RemoveAgent acts only for the registered connection.
RemovesAgent(c) == agents[owner[c]] = c

Remove(c) ==
  /\ pc[c] = "exiting" /\ MayLock
  /\ RemovesAgent(c)
  /\ agents' = [agents EXCEPT ![owner[c]] = None]
  /\ published' = [published EXCEPT ![owner[c]] = "offline"]
  /\ Goto(c, "removed")
  /\ UNCHANGED <<hosts, owner, open, alarm, deleting, announced>>

RemoveNothing(c) ==
  /\ pc[c] = "exiting" /\ MayLock
  /\ ~RemovesAgent(c)
  /\ End(c)
  /\ UNCHANGED <<hosts, agents, alarm, deleting, published, announced>>

\* scheduleOfflineNotification: replace a pending timer, unlock, return.
Arm(h, t) ==
  /\ tstate' = [u \in Timers |-> IF u = t THEN "armed"
                  ELSE IF u \in Stoppable(h) THEN "free" ELSE tstate[u]]
  /\ thost' = [u \in Timers |-> IF u = t THEN h
                  ELSE IF u \in Stoppable(h) THEN None ELSE thost[u]]

\* Mutant: scheduling takes the lock its caller holds.
ScheduleRelocking(c, t) ==
  /\ pc[c] = "removed" /\ tstate[t] = "free" /\ MayLock
  /\ Arm(owner[c], t)
  /\ timer' = [timer EXCEPT ![owner[c]] = t]
  /\ End(c)
  /\ UNCHANGED <<hosts, agents, deleting, published, announced>>

Schedule(c, t) ==
  /\ pc[c] = "removed" /\ tstate[t] = "free"
  /\ Arm(owner[c], t)
  /\ timer' = [timer EXCEPT ![owner[c]] = t]
  /\ End(c)
  /\ UNCHANGED <<hosts, agents, deleting, published, announced>>

-----------------------------------------------------------------------------
(* Timers, deletion, the network, and the server process *)

\* The delay is over: the callback's goroutine starts.
Fire(t) ==
  /\ tstate[t] = "armed"
  /\ tstate' = [tstate EXCEPT ![t] = "fired"]
  /\ UNCHANGED <<hosts, session, timer, thost, deleting, published, announced>>

\* The callback under offlineNotificationMu: it gives up unless it is still the
\* timer of the map, and announces only a host without a connection.
StillOffline(h) == agents[h] = None

Callback(t) ==
  /\ tstate[t] = "fired"
  /\ tstate' = [tstate EXCEPT ![t] = "free"]
  /\ thost' = [thost EXCEPT ![t] = None]
  /\ IF timer[thost[t]] = t
       THEN /\ timer' = [timer EXCEPT ![thost[t]] = None]
            /\ announced' = IF StillOffline(thost[t])
                              THEN [announced EXCEPT ![thost[t]] = "offline"]
                              ELSE announced
       ELSE UNCHANGED <<timer, announced>>
  /\ UNCHANGED <<hosts, session, deleting, published>>

\* RevokeAgent under the write lock: the row and the registration go, and the
\* connection is closed.  No status event is published.  A failed DeleteHost
\* changes nothing.
Revoke(h) ==
  /\ MayLock /\ h \in hosts
  /\ hosts' = hosts \ {h}
  /\ agents' = [agents EXCEPT ![h] = None]
  /\ open' = open \ {agents[h]}
  /\ deleting' = deleting \cup {h}
  /\ UNCHANGED <<pc, owner, alarm, published, announced>>

\* After the lock is released the pending timer is cancelled.
RevokeCancel(h) ==
  /\ h \in deleting
  /\ deleting' = deleting \ {h}
  /\ Cancel(h)
  /\ UNCHANGED <<hosts, session, published, announced>>

\* The peer or the network closes the socket.
Drop(c) ==
  /\ c \in open
  /\ open' = open \ {c}
  /\ UNCHANGED <<hosts, agents, pc, owner, alarm, deleting, published, announced>>

\* Only the database survives the process.
Restart ==
  /\ agents' = NoSession /\ pc' = AllIdle
  /\ owner' = [c \in Conns |-> None] /\ open' = {}
  /\ timer' = NoSession /\ tstate' = AllFree /\ thost' = [t \in Timers |-> None]
  /\ deleting' = {}
  /\ published' = NoNews /\ announced' = NoNews
  /\ UNCHANGED hosts

Handler(c) ==
  \/ \E h \in Hosts : LookUp(c, h)
  \/ Prove(c) \/ RefuseProof(c)
  \/ RegisterRefused(c) \/ RegisterFirst(c) \/ RegisterReplacing(c)
  \/ Settle(c) \/ AckOk(c) \/ AckFails(c)
  \/ Dispatch(c) \/ ReadStale(c) \/ Dispatched(c) \/ ReadFails(c)
  \/ Remove(c) \/ RemoveNothing(c)
  \/ \E t \in Timers : Schedule(c, t)

Next ==
  \/ \E c \in Conns : Handler(c) \/ Drop(c)
  \/ \E t \in Timers : Fire(t) \/ Callback(t)
  \/ \E h \in Hosts : Revoke(h) \/ RevokeCancel(h)
  \/ Restart

Spec == Init /\ [][Next]_vars
-----------------------------------------------------------------------------
(* Properties *)

\* A registration never outlives its handler: whatever way a connection ends,
\* some handler is still on its way to the deferred RemoveAgent, so no host
\* stays online for ever without a connection behind it.
NoGhostSession ==
  \A h \in Hosts : agents[h] # None =>
    /\ owner[agents[h]] = h
    /\ pc[agents[h]] \in {"added", "ack", "loop", "dispatch", "exiting"}

\* A deleted host has no registered connection, even when the deletion overlaps
\* the handshake of one, and no message of it is being processed.
RevokedIsOut ==
  /\ \A h \in Hosts : agents[h] # None => h \in hosts
  /\ \A c \in Conns : pc[c] = "dispatch" => owner[c] \in hosts

\* Messages are processed for the registered connection only, until dispatch
\* returns: a new connection cannot take over in the middle of one.
DispatchIsCurrent ==
  \A c \in Conns : pc[c] = "dispatch" => agents[owner[c]] = c

\* What the event stream said last about a host that still exists agrees with
\* the hub: replacing a connection shows no gap, and losing it is not missed.
PublishedIsPresence ==
  \A h \in hosts : (published[h] = "online") <=> (agents[h] # None)

\* When the deletion of a host has returned, none of its notifications is
\* pending, and none is scheduled later by a handler that was still running.
DeletedIsSilent ==
  \A h \in Hosts \ hosts : h \notin deleting => timer[h] = None

\* A deletion is complete whatever it overlaps: handshakes, messages that are
\* being processed, and handlers on their way out.
DeletedIsOut == RevokedIsOut /\ DeletedIsSilent

Settled(h) == ~WriteLocked /\ h \in hosts

\* Every host that went offline is accounted for: its offline notification is
\* pending, or was decided.  No order of timers, reconnections and replaced
\* timers loses it.
OfflineAccounted ==
  \A h \in Hosts :
    Settled(h) /\ published[h] = "offline" =>
      timer[h] # None \/ announced[h] = "offline"

\* A pending offline notification belongs to a host that is offline; otherwise
\* the next return of the host would wrongly suppress its online notification.
PendingMeansOffline ==
  \A h \in Hosts : Settled(h) /\ timer[h] # None => agents[h] = None

\* The two together: between two sections under lifecycle, the timers are those
\* of the hosts whose disconnection has not been announced yet.
OfflineNotices == OfflineAccounted /\ PendingMeansOffline

\* The offline notification is decided for a disconnected host only, and only
\* by the timer of its latest disconnection: a timer that expired just before
\* the host came back says nothing, even if the host has left again since.
OfflineNewsIsTrue ==
  [][\A h \in Hosts : announced[h] # "offline" /\ announced'[h] = "offline"
       => /\ agents[h] = None /\ published[h] = "offline"
          /\ timer[h] # None /\ tstate[timer[h]] = "fired"]_vars

\* cancelOfflineNotification (notification.go:208) reports that no timer was
\* pending only when an offline notification was sent: a host announced online
\* is not announced online a second time without an offline one in between.  (The
\* code does not keep this: README.md, section 3.)
OnlineNewsIsNews ==
  [][\A c \in Conns :
       pc[c] = "added" /\ pc'[c] = "ack" /\ timer[owner[c]] = None
         => announced[owner[c]] # "online"]_vars

-----------------------------------------------------------------------------
(* Liveness.  A Go RWMutex lets no stream of readers or writers starve a      *)
(* waiting one: strong fairness on the steps that take the lock.  The other   *)
(* steps of a handler run once enabled; every network step has a deadline,    *)
(* after which one of its outcomes happens.  Nothing makes a peer connect,    *)
(* stay, or leave.                                                            *)

HandlerFairness(c) ==
  /\ WF_vars(Settle(c)) /\ WF_vars(AckOk(c) \/ AckFails(c))
  /\ WF_vars(Dispatched(c)) /\ SF_vars(c \notin open /\ ReadFails(c))
  /\ SF_vars(Remove(c)) /\ SF_vars(RemoveNothing(c))
  /\ SF_vars(\E t \in Timers : Schedule(c, t))

Fairness ==
  /\ \A c \in Conns : HandlerFairness(c)
  /\ \A t \in Timers : WF_vars(Fire(t)) /\ WF_vars(Callback(t))
  /\ \A h \in Hosts : WF_vars(RevokeCancel(h))

FairSpec == Spec /\ Fairness

\* A connection whose socket is gone, or that was replaced by a newer one, leaves
\* the hub, and its handler ends.
DeadSessionsEnd ==
  \A c \in Conns :
    (pc[c] \in {"added", "ack", "loop", "dispatch"} /\ (c \notin open \/ ~Current(c)))
      ~> (pc[c] = "idle")

\* A host that went offline is announced offline, unless it comes back, is
\* deleted, or the server restarts first.
OfflineIsAnnounced ==
  \A h \in Hosts :
    (h \in hosts /\ published[h] = "offline")
      ~> (announced[h] = "offline" \/ published[h] # "offline" \/ h \notin hosts)
=============================================================================
