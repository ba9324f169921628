------------------------------ MODULE LiveView ------------------------------
(***************************************************************************)
(* The live view of the browser: the event stream                             *)
(* (live/OverviewStreamProvider.tsx, live/events.ts over server/live.go and    *)
(* server/hub.go) and the overview page that shows it                          *)
(* (pages/overview/OverviewPage.tsx).                                          *)
(*                                                                         *)
(* The page loads the list of hosts and applies the events to it.  Nothing     *)
(* relates an event to a list: several loads may be in flight, none is         *)
(* aborted or recognised as old, and an event may be lost (the subscriber's     *)
(* buffer is full, the connection breaks or is not there yet).  The Monitor's   *)
(* side is one step per change with the event it publishes (Presence shows      *)
(* that events are published in the order of the changes); deleting a host      *)
(* publishes nothing.  What a host reports is not modelled, only that it does.  *)
(*                                                                         *)
(* For the list a host is online when it is connected or when it was seen       *)
(* lately, that is when its last report came less than OfflineTimeout ago        *)
(* (Server.isOnline); events follow the connection alone.                       *)
(***************************************************************************)
EXTENDS Naturals, Sequences

CONSTANTS
  Hosts,       \* ids of hosts
  Cap,         \* events a subscriber's buffer holds (64 in hub.go)
  MaxLoads,    \* bound: loads in flight
  MaxChanges,  \* bound: changes of the set of hosts and of their connections
  None

ASSUME LiveAssumption ==
  /\ None \notin Hosts
  /\ Cap \in Nat \ {0} /\ MaxLoads \in Nat \ {0} /\ MaxChanges \in Nat

VARIABLES
  row,       \* the Monitor: hosts not created yet, there, deleted
  up,        \* hosts with a connected agent
  recent,    \* hosts without one that were seen less than OfflineTimeout ago
  changes,   \* how often these have changed (bound)
  full,      \* no slot for a stream is free
  buffer,    \* events of the stream that the page has not seen
  stream,    \* the EventSource
  opened,    \* it has been open
  mounted,   \* the overview is on the screen
  hosts,     \* what it shows: hosts, and whether each is online
  error,     \* a load has failed: the error is shown instead
  loads,     \* loads in flight
  refresh,   \* the timer for an unknown host (unknownRefresh)
  clean,     \* no change has passed by what the page shows (history)
  seen,      \* hosts that it shows online for having been seen lately (history)
  gap        \* an event was dropped after those in the buffer (history)

server == <<row, up, recent, changes>>
source == <<stream, opened>>
page   == <<mounted, hosts, error, refresh>>
vars   == <<server, full, buffer, source, page, loads, clean, seen, gap>>

Lists == UNION {[S -> BOOLEAN] : S \in SUBSET Hosts}

\* type LiveEvent: "status", or "usage", which means that the host is online
Events == [host : Hosts, online : BOOLEAN, type : {"status", "usage"}]

NoLoad == [phase |-> "none", list |-> None, seen |-> {}, calm |-> FALSE]
Sent   == [phase |-> "sent", list |-> None, seen |-> {}, calm |-> FALSE]

TypeOK ==
  /\ row \in [Hosts -> {"none", "row", "gone"}]
  /\ up \subseteq {h \in Hosts : row[h] = "row"}
  /\ recent \subseteq {h \in Hosts : row[h] = "row"} \ up
  /\ changes \in 0..MaxChanges /\ full \in BOOLEAN
  /\ buffer \in Seq(Events) /\ Len(buffer) <= Cap
  /\ stream \in {"connecting", "open", "reconnecting", "failed"} /\ opened \in BOOLEAN
  /\ mounted \in BOOLEAN /\ hosts \in Lists \cup {None} /\ error \in BOOLEAN
  /\ loads \in [1..MaxLoads -> [phase : {"none", "sent", "served"},
                                list : Lists \cup {None}, seen : SUBSET Hosts, calm : BOOLEAN]]
  /\ refresh \in BOOLEAN /\ seen \subseteq Hosts /\ clean \in BOOLEAN /\ gap \in BOOLEAN

Init ==
  /\ row \in [Hosts -> {"none", "row"}] /\ up = {}
  /\ recent \in SUBSET {h \in Hosts : row[h] = "row"} /\ changes = 0 /\ full = FALSE
  /\ buffer = <<>> /\ stream = "connecting" /\ opened = FALSE
  /\ mounted = FALSE /\ hosts = None /\ error = FALSE /\ refresh = FALSE
  /\ loads = [i \in 1..MaxLoads |-> NoLoad] /\ clean = FALSE /\ seen = {} /\ gap = FALSE

-----------------------------------------------------------------------------
(* The Monitor *)

\* Lists that were served before a change has passed the page by.
Spoiled == [i \in DOMAIN loads |-> [loads[i] EXCEPT !.calm = FALSE]]

\* PublishOverview: an event for a full buffer is dropped.
Publish(event) ==
  IF stream = "open" /\ Len(buffer) < Cap
  THEN buffer' = Append(buffer, event) /\ UNCHANGED <<clean, loads, gap>>
  ELSE /\ UNCHANGED buffer
       /\ IF event.type = "usage" THEN UNCHANGED <<clean, loads, gap>>
          ELSE clean' = FALSE /\ loads' = Spoiled /\ gap' = (buffer # <<>>)

Change == changes < MaxChanges /\ changes' = changes + 1

Comes(h) ==
  /\ Change /\ row[h] = "row" /\ h \notin up /\ up' = up \cup {h} /\ recent' = recent \ {h}
  /\ Publish([host |-> h, online |-> TRUE, type |-> "status"])
  /\ UNCHANGED <<row, full, source, page, seen>>

\* Its last report may be recent, or not.
Goes(h) ==
  /\ Change /\ h \in up /\ up' = up \ {h} /\ recent' \in {recent, recent \cup {h}}
  /\ Publish([host |-> h, online |-> FALSE, type |-> "status"])
  /\ UNCHANGED <<row, full, source, page, seen>>

Report(h) ==
  /\ h \in up /\ Publish([host |-> h, online |-> TRUE, type |-> "usage"])
  /\ UNCHANGED <<server, full, source, page, seen>>

\* OfflineTimeout passes.
Fades(h) ==
  /\ h \in recent /\ recent' = recent \ {h}
  /\ UNCHANGED <<row, up, changes, full, buffer, source, page, loads, clean, seen, gap>>

CreateHost(h) ==
  /\ Change /\ row[h] = "none" /\ row' = [row EXCEPT ![h] = "row"]
  /\ UNCHANGED <<up, recent, full, buffer, source, page, loads, clean, seen, gap>>

DeleteHost(h) ==
  /\ Change /\ row[h] = "row" /\ row' = [row EXCEPT ![h] = "gone"] /\ up' = up \ {h}
  /\ recent' = recent \ {h}
  /\ UNCHANGED <<full, buffer, source, page, loads, clean, seen, gap>>

\* acquireEvents, releaseEvents: other viewers take the slots of an address.
Slots ==
  /\ full' = ~full
  /\ UNCHANGED <<server, buffer, source, page, loads, clean, seen, gap>>

\* apiListHosts, isOnline
Serve(i) ==
  /\ loads[i].phase = "sent"
  /\ loads' = [loads EXCEPT ![i] =
       [phase |-> "served", seen |-> recent, calm |-> ~gap,
        list |-> [h \in {k \in Hosts : row[k] = "row"} |-> h \in up \cup recent]]]
  /\ UNCHANGED <<server, full, buffer, source, page, clean, seen, gap>>

-----------------------------------------------------------------------------
(* The page *)

Idle == {i \in DOMAIN loads : loads[i].phase = "none"}
SendLoad == \E i \in Idle : (\A k \in Idle : i <= k) /\ loads' = [loads EXCEPT ![i] = Sent]

Enter ==
  /\ ~mounted /\ mounted' = TRUE /\ SendLoad
  /\ UNCHANGED <<server, full, buffer, source, hosts, error, refresh, clean, seen, gap>>

\* The timer is cleared; answers that are still to come are ignored.
Leave ==
  /\ mounted /\ mounted' = FALSE
  /\ hosts' = None /\ error' = FALSE /\ refresh' = FALSE /\ clean' = FALSE /\ seen' = {}
  /\ loads' = [i \in 1..MaxLoads |-> NoLoad]
  /\ UNCHANGED <<server, full, buffer, source, gap>>

LoadAnswer(i) ==
  /\ loads[i].phase = "served"
  /\ hosts' = loads[i].list /\ error' = FALSE /\ clean' = loads[i].calm /\ seen' = loads[i].seen
  /\ loads' = [loads EXCEPT ![i] = NoLoad]
  /\ UNCHANGED <<server, full, buffer, source, mounted, refresh, gap>>

LoadFails(i) ==
  /\ loads[i].phase # "none"
  /\ error' = TRUE /\ loads' = [loads EXCEPT ![i] = NoLoad]
  /\ UNCHANGED <<server, full, buffer, source, mounted, hosts, refresh, clean, seen, gap>>

\* The button on the error page.
Retry ==
  /\ error /\ error' = FALSE /\ SendLoad
  /\ UNCHANGED <<server, full, buffer, source, mounted, hosts, refresh, clean, seen, gap>>

\* Mutant: whatever the event, the host is online.
ShowsOnline(event) == [hosts EXCEPT ![event.host] = TRUE]

Shows(event) == [hosts EXCEPT ![event.host] = event.type = "usage" \/ event.online]

\* Mutant: an event of a host that is not in the list is ignored.
DeliverKnown ==
  /\ buffer # <<>> /\ buffer' = Tail(buffer) /\ seen' = seen \ {Head(buffer).host}
  /\ IF hosts # None /\ Head(buffer).host \in DOMAIN hosts
     THEN hosts' = Shows(Head(buffer)) ELSE UNCHANGED hosts
  /\ loads' = Spoiled /\ gap' = (gap /\ buffer' # <<>>)
  /\ UNCHANGED <<server, full, source, mounted, error, refresh, clean>>

\* An event of a host that is not in the list has the list loaded again; without a
\* list it is ignored.
Deliver ==
  /\ buffer # <<>> /\ buffer' = Tail(buffer) /\ seen' = seen \ {Head(buffer).host}
  /\ IF hosts # None /\ Head(buffer).host \in DOMAIN hosts
     THEN hosts' = Shows(Head(buffer)) /\ UNCHANGED refresh
     ELSE refresh' = (refresh \/ hosts # None) /\ UNCHANGED hosts
  /\ loads' = Spoiled /\ gap' = (gap /\ buffer' # <<>>)
  /\ UNCHANGED <<server, full, source, mounted, error, clean>>

RefreshTimer ==
  /\ refresh /\ refresh' = FALSE /\ SendLoad
  /\ UNCHANGED <<server, full, buffer, source, mounted, hosts, error, clean, seen, gap>>

-----------------------------------------------------------------------------
(* The stream *)

\* Mutant: the page is not told that the stream was interrupted.
ConnectSilently ==
  /\ stream \in {"connecting", "reconnecting"} /\ ~full
  /\ stream' = "open" /\ opened' = TRUE /\ UNCHANGED loads
  /\ UNCHANGED <<server, full, buffer, page, clean, seen, gap>>

\* onopen: after an interruption (another "generation") the page loads the list.
Connect ==
  /\ stream \in {"connecting", "reconnecting"} /\ ~full
  /\ stream' = "open" /\ opened' = TRUE
  /\ IF opened /\ mounted THEN SendLoad ELSE UNCHANGED loads
  /\ UNCHANGED <<server, full, buffer, page, clean, seen, gap>>

\* onerror: an EventSource tries again when the connection broke, not when the
\* answer was an error (too many event streams).
Refused ==
  /\ stream \in {"connecting", "reconnecting"} /\ full /\ stream' = "failed"
  /\ UNCHANGED <<server, full, buffer, opened, page, loads, clean, seen, gap>>

Break ==
  /\ stream \in {"connecting", "open"} /\ stream' = "reconnecting" /\ buffer' = <<>> /\ gap' = FALSE
  /\ IF \E i \in DOMAIN buffer : buffer[i].type = "status"
     THEN clean' = FALSE /\ loads' = Spoiled
     ELSE UNCHANGED <<clean, loads>>
  /\ UNCHANGED <<server, full, opened, page, seen>>

-----------------------------------------------------------------------------
Next ==
  \/ \E h \in Hosts : Comes(h) \/ Goes(h) \/ Report(h) \/ Fades(h) \/ CreateHost(h) \/ DeleteHost(h)
  \/ Slots
  \/ \E i \in 1..MaxLoads : Serve(i) \/ LoadAnswer(i) \/ LoadFails(i)
  \/ Enter \/ Leave \/ Retry \/ Deliver \/ RefreshTimer
  \/ Connect \/ Refused \/ Break

Spec == Init /\ [][Next]_vars

\* A host that is connected reports, and the subscriber is not slow for ever.
Heard(h) == Report(h) /\ buffer' # buffer

Fairness ==
  /\ \A h \in Hosts : SF_vars(Heard(h))
  /\ \A i \in 1..MaxLoads : WF_vars(Serve(i)) /\ WF_vars(LoadAnswer(i) \/ LoadFails(i))
  /\ WF_vars(Deliver) /\ SF_vars(RefreshTimer) /\ SF_vars(Connect \/ Refused)

FairSpec == Spec /\ Fairness

-----------------------------------------------------------------------------
(* Properties *)

\* The events of a host that are under way.
EventsOf(h) == {i \in DOMAIN buffer : buffer[i].host = h}

\* What is shown of a host once they have been handled.
Settled(h) ==
  IF EventsOf(h) = {} THEN hosts[h]
  ELSE buffer[CHOOSE i \in EventsOf(h) : \A j \in EventsOf(h) : j <= i].online

\* Unless a change has passed the page by, what it shows and the events under way
\* make up what the Monitor knows of every host that is still there: one that is
\* connected is online, and one that is not is offline, unless its list said otherwise
\* because the host had been seen lately, and no event of it came since.
CleanAgrees ==
  (clean /\ hosts # None) =>
     \A h \in DOMAIN hosts : row[h] = "row" =>
        /\ h \in up => Settled(h)
        /\ h \notin up => ~Settled(h) \/ (h \in seen /\ EventsOf(h) = {})

\* What is shown is right, but for hosts that the list has online for having been
\* seen lately.
Agrees ==
  /\ hosts # None
  /\ \A h \in Hosts : row[h] = "row" =>
        h \in DOMAIN hosts /\ (hosts[h] = (h \in up) \/ h \in seen \ up)

\* Whatever was missed before or during an interruption of the stream is corrected
\* after it, unless the error page is shown or the stream was refused.
InterruptionHeals ==
  (changes = MaxChanges /\ stream = "reconnecting" /\ opened /\ mounted)
     ~> (Agrees \/ error \/ ~mounted \/ stream = "failed")

\* Not a property of the code: unless a change has passed the page by, a host that has
\* been away for OfflineTimeout is shown offline.  Its list may have said that it was
\* online, for it had been seen lately, and no event and no timer corrects that.
OfflineIsShown ==
  (clean /\ hosts # None) =>
     \A h \in DOMAIN hosts : row[h] = "row" /\ h \notin up \cup recent => ~Settled(h)

\* A host that stays connected is shown online again and again, even one created
\* after the list was loaded and whatever events were lost before: it reports.
ReportingIsShown ==
  \A h \in Hosts :
    (<>[](h \in up /\ stream = "open" /\ mounted))
       => []<>(error \/ (hosts # None /\ h \in DOMAIN hosts /\ hosts[h]))
=============================================================================
