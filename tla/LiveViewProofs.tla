--------------------------- MODULE LiveViewProofs ---------------------------
(***************************************************************************)
(* LiveView, for every number of hosts, loads and events: unless a change has  *)
(* passed the page by, what it shows and the events under way are right.       *)
(***************************************************************************)
EXTENDS LiveView, SequenceTheorems, WellFoundedInduction, TLAPS

StatusOf(h) == {i \in EventsOf(h) : buffer[i].type = "status"}

\* What is said of a host is right, or it was said because the host had been seen lately.
Fits(online, h, lately) == (h \in up => online) /\ (online => h \in up \/ h \in lately)

\* A list was right when the events under way were still to come: where none of them
\* changes a host it is right now.
Right(shown, lately) ==
  \A h \in DOMAIN shown : row[h] = "row" /\ StatusOf(h) = {} => Fits(shown[h], h, lately)

\* Hosts that have not been created are in no list.
Created(shown) == shown # None => \A h \in DOMAIN shown : row[h] # "none"

\* Events are of hosts that have been created, and a host that reports is online.
EventsAreOfHosts ==
  \A i \in DOMAIN buffer :
    row[buffer[i].host] # "none" /\ (buffer[i].type = "usage" => buffer[i].online)

\* Unless one was dropped after them, what comes last in the buffer is how things are.
LastIsTrue ==
  ~gap => \A h \in Hosts : \A i \in EventsOf(h) :
            (row[h] = "row" /\ \A j \in StatusOf(h) : j <= i) => buffer[i].online = (h \in up)

ListsInv ==
  /\ Created(hosts) /\ \A i \in 1..MaxLoads : Created(loads[i].list)
  /\ clean => ~gap /\ (hosts # None => Right(hosts, seen))
  /\ \A i \in 1..MaxLoads : loads[i].calm => ~gap /\ (loads[i].list # None => Right(loads[i].list, loads[i].seen))

IInv == TypeOK /\ EventsAreOfHosts /\ LastIsTrue /\ ListsInv
-----------------------------------------------------------------------------
\* Init => IInv
LEMMA InitIInv == Init => IInv
<1> SUFFICES ASSUME Init PROVE IInv
    OBVIOUS
<1>1. buffer = <<>> /\ buffer \in Seq(Events) /\ Len(buffer) = 0 /\ DOMAIN buffer = {}
  BY DEF Init
<1>2. \A i \in 1..MaxLoads : loads[i] = NoLoad
  BY DEF Init
<1>3. TypeOK
  <2>1. row \in [Hosts -> {"none", "row", "gone"}] /\ up \subseteq {h \in Hosts : row[h] = "row"}
    BY DEF Init
  <2>2. loads \in [1..MaxLoads -> [phase : {"none", "sent", "served"},
                                   list : Lists \cup {None}, seen : SUBSET Hosts, calm : BOOLEAN]]
    BY DEF Init, NoLoad
  <2>3. Len(buffer) <= Cap /\ 0 \in 0..MaxChanges
    BY <1>1, LiveAssumption
  <2>4. buffer \in Seq(Events)
    BY <1>1
  <2>5. /\ changes \in 0..MaxChanges /\ full \in BOOLEAN /\ opened \in BOOLEAN /\ mounted \in BOOLEAN
        /\ stream \in {"connecting", "open", "reconnecting", "failed"}
        /\ hosts \in Lists \cup {None} /\ error \in BOOLEAN
        /\ refresh \in BOOLEAN /\ clean \in BOOLEAN /\ seen \subseteq Hosts /\ gap \in BOOLEAN
        /\ recent \subseteq {h \in Hosts : row[h] = "row"} \ up
    BY <2>3 DEF Init
  <2> QED
    BY <2>1, <2>2, <2>3, <2>4, <2>5 DEF TypeOK
<1>4. EventsAreOfHosts /\ LastIsTrue
  BY <1>1 DEF EventsAreOfHosts, LastIsTrue, EventsOf
<1>5. ListsInv
  BY <1>2 DEF Init, NoLoad, ListsInv, Created
<1> QED
  BY <1>3, <1>4, <1>5 DEF IInv

\* The indices of the buffer.
LEMMA Indices ==
  ASSUME TypeOK
  PROVE  /\ buffer \in Seq(Events) /\ Len(buffer) \in 0..Cap /\ DOMAIN buffer = 1..Len(buffer)
         /\ \A i \in DOMAIN buffer : buffer[i] \in Events
BY LiveAssumption DEF TypeOK

\* An event that is published comes after the others, which keep their places.
LEMMA Appended ==
  ASSUME TypeOK, NEW e \in Events, buffer' = Append(buffer, e)
  PROVE  /\ buffer' \in Seq(Events) /\ Len(buffer') = Len(buffer) + 1
         /\ DOMAIN buffer' = DOMAIN buffer \cup {Len(buffer) + 1}
         /\ \A i \in DOMAIN buffer : buffer'[i] = buffer[i] /\ i <= Len(buffer)
         /\ buffer'[Len(buffer) + 1] = e /\ Len(buffer) + 1 \notin DOMAIN buffer
         /\ \A g \in Hosts : EventsOf(g) \subseteq EventsOf(g)' /\ StatusOf(g) \subseteq StatusOf(g)'
         /\ \A g \in Hosts \ {e.host} : EventsOf(g)' = EventsOf(g) /\ StatusOf(g)' = StatusOf(g)
         /\ EventsOf(e.host)' = EventsOf(e.host) \cup {Len(buffer) + 1}
         /\ StatusOf(e.host)' = IF e.type = "status" THEN StatusOf(e.host) \cup {Len(buffer) + 1}
                                ELSE StatusOf(e.host)
<1>1. buffer \in Seq(Events) /\ Len(buffer) \in Nat /\ DOMAIN buffer = 1..Len(buffer)
  BY Indices, LiveAssumption
<1>2. /\ buffer' \in Seq(Events) /\ Len(buffer') = Len(buffer) + 1
      /\ \A i \in 1..Len(buffer) : buffer'[i] = buffer[i]
      /\ buffer'[Len(buffer) + 1] = e
  BY <1>1, AppendProperties
<1>3. DOMAIN buffer' = 1..(Len(buffer) + 1)
  BY <1>2
<1>4. DOMAIN buffer' = DOMAIN buffer \cup {Len(buffer) + 1} /\ Len(buffer) + 1 \notin DOMAIN buffer
  BY <1>1, <1>3
<1>5. \A i \in DOMAIN buffer : buffer'[i] = buffer[i] /\ i <= Len(buffer)
  BY <1>1, <1>2
<1>6. \A g : EventsOf(g)' = EventsOf(g) \cup (IF e.host = g THEN {Len(buffer) + 1} ELSE {})
  BY <1>2, <1>4, <1>5 DEF EventsOf
<1>7. \A g : StatusOf(g)' = StatusOf(g) \cup
               (IF e.host = g /\ e.type = "status" THEN {Len(buffer) + 1} ELSE {})
  BY <1>2, <1>4, <1>5, <1>6 DEF StatusOf, EventsOf
<1> QED
  BY <1>1, <1>2, <1>4, <1>5, <1>6, <1>7

\* When the first event has been taken the others move up.
LEMMA Taken ==
  ASSUME TypeOK, buffer # <<>>, buffer' = Tail(buffer)
  PROVE  /\ buffer' \in Seq(Events) /\ Len(buffer') = Len(buffer) - 1 /\ Len(buffer) \in Nat \ {0}
         /\ \A i \in DOMAIN buffer' : i \in Nat /\ i + 1 \in DOMAIN buffer /\ buffer'[i] = buffer[i + 1]
         /\ 1 \in DOMAIN buffer /\ Head(buffer) = buffer[1] /\ buffer[1] \in Events
         /\ \A g : \A i \in EventsOf(g)' : i + 1 \in EventsOf(g)
         /\ \A g : \A i \in StatusOf(g) : i = 1 \/ (i \in Nat /\ i - 1 \in StatusOf(g)')
<1>1. buffer \in Seq(Events) /\ Len(buffer) \in Nat /\ DOMAIN buffer = 1..Len(buffer)
  BY Indices, LiveAssumption
<1>2. /\ buffer' \in Seq(Events) /\ Len(buffer') = Len(buffer) - 1
      /\ \A i \in 1..Len(buffer') : buffer'[i] = buffer[i + 1]
      /\ Head(buffer) \in Events
  BY <1>1, HeadTailProperties
<1>3. Len(buffer) # 0 /\ Head(buffer) = buffer[1]
  BY <1>1
<1>4. DOMAIN buffer' = 1..(Len(buffer) - 1)
  BY <1>2
<1>5. \A i \in DOMAIN buffer' : i \in Nat /\ i + 1 \in DOMAIN buffer /\ buffer'[i] = buffer[i + 1]
  BY <1>1, <1>2, <1>4
<1>6. \A i \in DOMAIN buffer \ {1} : i \in Nat /\ i - 1 \in DOMAIN buffer' /\ buffer'[i - 1] = buffer[i]
  <2> TAKE i \in DOMAIN buffer \ {1}
  <2>1. i \in Nat /\ i - 1 \in 1..(Len(buffer) - 1) /\ (i - 1) + 1 = i
    BY <1>1
  <2> QED
    BY <2>1, <1>2, <1>4
<1>7. \A g : \A i \in EventsOf(g)' : i + 1 \in EventsOf(g)
  BY <1>5 DEF EventsOf
<1>8. \A g : \A i \in StatusOf(g) : i = 1 \/ (i \in Nat /\ i - 1 \in StatusOf(g)')
  BY <1>6 DEF StatusOf, EventsOf
<1> QED
  BY <1>1, <1>2, <1>3, <1>5, <1>7, <1>8

\* What is shown after an event is still a list, of the same hosts.
LEMMA ShowsIsList ==
  ASSUME TypeOK, NEW event \in Events, hosts # None, event.host \in DOMAIN hosts
  PROVE  Shows(event) \in Lists /\ DOMAIN Shows(event) = DOMAIN hosts
<1>1. PICK S \in SUBSET Hosts : hosts \in [S -> BOOLEAN]
  BY DEF TypeOK, Lists
<1>2. Shows(event) \in [S -> BOOLEAN] /\ DOMAIN Shows(event) = DOMAIN hosts
  BY <1>1 DEF Shows, Events
<1> QED
  BY <1>2 DEF Lists

\* A load that is sent leaves the others alone.
LEMMA Sending ==
  ASSUME TypeOK, SendLoad
  PROVE  /\ loads' \in [1..MaxLoads -> [phase : {"none", "sent", "served"},
                                        list : Lists \cup {None}, seen : SUBSET Hosts, calm : BOOLEAN]]
         /\ \A i \in 1..MaxLoads : loads'[i] \in {loads[i], Sent}
BY DEF TypeOK, SendLoad, Idle, Sent

\* What is spoiled is not calm any more, but keeps its list.
LEMMA Spoiling ==
  ASSUME TypeOK
  PROVE  /\ Spoiled \in [1..MaxLoads -> [phase : {"none", "sent", "served"},
                                         list : Lists \cup {None}, seen : SUBSET Hosts, calm : BOOLEAN]]
         /\ \A i \in 1..MaxLoads : Spoiled[i].list = loads[i].list /\ Spoiled[i].seen = loads[i].seen /\ ~Spoiled[i].calm
BY DEF TypeOK, Spoiled

\* Publishing an event keeps the types.
LEMMA PublishTypes ==
  ASSUME TypeOK, NEW event \in Events, Publish(event)
  PROVE  /\ buffer' \in Seq(Events) /\ Len(buffer') <= Cap
         /\ loads' \in [1..MaxLoads -> [phase : {"none", "sent", "served"},
                                        list : Lists \cup {None}, seen : SUBSET Hosts, calm : BOOLEAN]]
         /\ clean' \in BOOLEAN /\ gap' \in BOOLEAN
<1>1. CASE stream = "open" /\ Len(buffer) < Cap
  <2>1. buffer' = Append(buffer, event) /\ UNCHANGED <<clean, loads, gap>>
    BY <1>1 DEF Publish
  <2>2. buffer' \in Seq(Events) /\ Len(buffer') = Len(buffer) + 1 /\ Len(buffer) \in Nat
    BY <2>1, Appended, Indices, LiveAssumption
  <2> QED
    BY <1>1, <2>1, <2>2, LiveAssumption DEF TypeOK
<1>2. CASE ~(stream = "open" /\ Len(buffer) < Cap)
  <2>1. UNCHANGED buffer /\ (UNCHANGED <<clean, loads, gap>>
          \/ (clean' = FALSE /\ loads' = Spoiled /\ gap' = (buffer # <<>>)))
    BY <1>2 DEF Publish
  <2> QED
    BY <2>1, Spoiling DEF TypeOK
<1> QED
  BY <1>1, <1>2

\* Every step leads to a well-typed state.
LEMMA TypeStep == TypeOK /\ [Next]_vars => TypeOK'
<1> SUFFICES ASSUME TypeOK, [Next]_vars PROVE TypeOK'
    OBVIOUS
<1> USE LiveAssumption
<1>1. ASSUME NEW h \in Hosts, Comes(h) PROVE TypeOK'
  <2>1. [host |-> h, online |-> TRUE, type |-> "status"] \in Events
    BY DEF Events
  <2> QED
    BY <1>1, <2>1, PublishTypes DEF Comes, Change, TypeOK, source, page
<1>2. ASSUME NEW h \in Hosts, Goes(h) PROVE TypeOK'
  <2>1. [host |-> h, online |-> FALSE, type |-> "status"] \in Events
    BY DEF Events
  <2> QED
    BY <1>2, <2>1, PublishTypes DEF Goes, Change, TypeOK, source, page
<1>3. ASSUME NEW h \in Hosts, Report(h) PROVE TypeOK'
  <2>1. [host |-> h, online |-> TRUE, type |-> "usage"] \in Events
    BY DEF Events
  <2> QED
    BY <1>3, <2>1, PublishTypes DEF Report, TypeOK, server, source, page
<1>4. ASSUME NEW h \in Hosts, CreateHost(h) PROVE TypeOK'
  BY <1>4 DEF CreateHost, Change, TypeOK, source, page
<1>5. ASSUME NEW h \in Hosts, DeleteHost(h) PROVE TypeOK'
  BY <1>5 DEF DeleteHost, Change, TypeOK, source, page
<1>6. CASE Slots
  BY <1>6 DEF Slots, TypeOK, server, source, page
<1>19. ASSUME NEW h \in Hosts, Fades(h) PROVE TypeOK'
  BY <1>19 DEF Fades, TypeOK, source, page
<1>7. ASSUME NEW i \in 1..MaxLoads, Serve(i) PROVE TypeOK'
  <2>1. [h \in {k \in Hosts : row[k] = "row"} |-> h \in up \cup recent] \in Lists
    <3>1. {k \in Hosts : row[k] = "row"} \in SUBSET Hosts
      OBVIOUS
    <3>2. [h \in {k \in Hosts : row[k] = "row"} |-> h \in up \cup recent]
            \in [{k \in Hosts : row[k] = "row"} -> BOOLEAN]
      OBVIOUS
    <3> QED
      BY <3>1, <3>2 DEF Lists
  <2>2. loads' \in [1..MaxLoads -> [phase : {"none", "sent", "served"},
                                    list : Lists \cup {None}, seen : SUBSET Hosts, calm : BOOLEAN]]
    BY <1>7, <2>1 DEF Serve, TypeOK
  <2> QED
    BY <1>7, <2>2 DEF Serve, TypeOK, server, source, page
<1>8. ASSUME NEW i \in 1..MaxLoads, LoadAnswer(i) PROVE TypeOK'
  BY <1>8 DEF LoadAnswer, TypeOK, NoLoad, server, source
<1>9. ASSUME NEW i \in 1..MaxLoads, LoadFails(i) PROVE TypeOK'
  BY <1>9 DEF LoadFails, TypeOK, NoLoad, server, source
<1>10. CASE Enter
  BY <1>10, Sending DEF Enter, TypeOK, server, source
<1>11. CASE Leave
  BY <1>11 DEF Leave, TypeOK, NoLoad, server, source
<1>12. CASE Retry
  BY <1>12, Sending DEF Retry, TypeOK, server, source
<1>13. CASE Deliver
  <2>1. buffer' \in Seq(Events) /\ Len(buffer') <= Cap
    BY <1>13, Taken DEF Deliver, TypeOK
  <2>2. Head(buffer) \in Events
    BY <1>13, Taken DEF Deliver
  <2>3. hosts' \in Lists \cup {None} /\ refresh' \in BOOLEAN
    BY <1>13, <2>2, ShowsIsList DEF Deliver, TypeOK
  <2> QED
    BY <1>13, <2>1, <2>3, Spoiling DEF Deliver, TypeOK, server, source
<1>14. CASE RefreshTimer
  BY <1>14, Sending DEF RefreshTimer, TypeOK, server, source
<1>15. CASE Connect
  BY <1>15, Sending DEF Connect, TypeOK, server, page
<1>16. CASE Refused
  BY <1>16 DEF Refused, TypeOK, server, page
<1>17. CASE Break
  <2>1. buffer' = <<>> /\ <<>> \in Seq(Events) /\ Len(<<>>) = 0
    BY <1>17 DEF Break
  <2>2. buffer' \in Seq(Events) /\ Len(buffer') <= Cap
    BY <2>1
  <2>3. /\ clean' \in BOOLEAN /\ gap' \in BOOLEAN
        /\ loads' \in [1..MaxLoads -> [phase : {"none", "sent", "served"},
                                       list : Lists \cup {None}, seen : SUBSET Hosts, calm : BOOLEAN]]
    BY <1>17, Spoiling DEF Break, TypeOK
  <2>4. stream' = "reconnecting" /\ UNCHANGED <<server, full, opened, page, seen>>
    BY <1>17 DEF Break
  <2> QED
    BY <2>2, <2>3, <2>4 DEF TypeOK, server, page
<1>18. CASE UNCHANGED vars
  BY <1>18 DEF vars, server, source, page, TypeOK
<1> QED
  BY <1>1, <1>2, <1>3, <1>4, <1>5, <1>6, <1>7, <1>8, <1>9, <1>10, <1>11, <1>12, <1>13, <1>14, <1>15, <1>16, <1>17, <1>18, <1>19 DEF Next

\* What the steps below preserve.
Content == EventsAreOfHosts /\ LastIsTrue /\ ListsInv

\* An event of a change of connection is true, and spoils what is not told of it.
LEMMA StatusPublished ==
  ASSUME IInv, NEW h \in Hosts, NEW online \in BOOLEAN, row[h] = "row",
         online = (h \in up'), \A g \in Hosts \ {h} : (g \in up') = (g \in up),
         UNCHANGED <<row, hosts, seen>>,
         Publish([host |-> h, online |-> online, type |-> "status"])
  PROVE  Content'
<1> DEFINE e == [host |-> h, online |-> online, type |-> "status"]
<1>1. e \in Events /\ e.host = h /\ e.online = online /\ e.type = "status"
  BY DEF Events
<1> HIDE DEF e
<1>2. Publish(e)
  BY DEF e
<1>3. CASE stream = "open" /\ Len(buffer) < Cap
  <2>1. buffer' = Append(buffer, e) /\ UNCHANGED <<clean, loads, gap>>
    BY <1>2, <1>3 DEF Publish
  <2> DEFINE n == Len(buffer) + 1
  <2>2. /\ DOMAIN buffer' = DOMAIN buffer \cup {n}
        /\ \A i \in DOMAIN buffer : buffer'[i] = buffer[i]
        /\ buffer'[n] = e /\ n \in StatusOf(h)'
        /\ \A g \in Hosts \ {h} : EventsOf(g)' = EventsOf(g) /\ StatusOf(g)' = StatusOf(g)
    BY <1>1, <2>1, Appended DEF IInv
  <2>3. EventsOf(h)' = EventsOf(h) \cup {n} /\ \A i \in EventsOf(h) : i \in Nat /\ i < n
    <3>1. EventsOf(h) \subseteq 1..Len(buffer) /\ Len(buffer) \in Nat
      BY Indices, LiveAssumption DEF EventsOf, IInv
    <3>2. EventsOf(h)' = EventsOf(h) \cup {n}
      BY <1>1, <2>1, Appended DEF IInv
    <3>3. \A i \in EventsOf(h) : i \in Nat /\ i < n
      BY <3>1
    <3> QED
      BY <3>2, <3>3
  <2> HIDE DEF n
  <2>4. EventsAreOfHosts'
    BY <1>1, <2>2 DEF IInv, EventsAreOfHosts
  <2>5. LastIsTrue'
    <3> SUFFICES ASSUME ~gap, NEW g \in Hosts, NEW i \in EventsOf(g)', row[g] = "row",
                        \A j \in StatusOf(g)' : j <= i
                 PROVE  buffer'[i].online = (g \in up')
        BY <2>1 DEF LastIsTrue
    <3>1. CASE g = h
      <4>1. i = n
        <5>1. n <= i /\ n \in Nat
          BY <2>2, <3>1, Indices, LiveAssumption DEF n, IInv
        <5> QED
          BY <5>1, <2>3, <3>1
      <4> QED
        BY <4>1, <3>1, <2>2, <1>1
    <3>2. CASE g # h
      <4>1. i \in EventsOf(g) /\ StatusOf(g)' = StatusOf(g) /\ (g \in up') = (g \in up)
        BY <2>2, <3>2
      <4>2. buffer[i].online = (g \in up)
        BY <4>1 DEF IInv, LastIsTrue
      <4>3. buffer'[i] = buffer[i]
        BY <4>1, <2>2 DEF EventsOf
      <4> QED
        BY <4>1, <4>2, <4>3
    <3> QED
      BY <3>1, <3>2
  <2>6. ASSUME NEW shown \in Lists, NEW lately, Right(shown, lately)
        PROVE  Right(shown, lately)'
    <3>1. DOMAIN shown \subseteq Hosts
      BY DEF Lists
    <3> QED
      BY <3>1, <2>2, <2>6 DEF Right, Fits
  <2>7. ListsInv'
    <3>1. hosts # None => hosts \in Lists
      BY DEF IInv, TypeOK
    <3>2. \A i \in 1..MaxLoads : loads[i].list # None => loads[i].list \in Lists
      BY DEF IInv, TypeOK
    <3> QED
      BY <2>1, <2>6, <3>1, <3>2 DEF IInv, ListsInv, Created
  <2> QED
    BY <2>4, <2>5, <2>7 DEF Content
<1>4. CASE ~(stream = "open" /\ Len(buffer) < Cap)
  <2>1. UNCHANGED buffer /\ clean' = FALSE /\ loads' = Spoiled /\ gap' = (buffer # <<>>)
    BY <1>1, <1>2, <1>4 DEF Publish
  <2>2. EventsAreOfHosts'
    BY <2>1 DEF IInv, EventsAreOfHosts
  <2>3. LastIsTrue'
    <3>1. ~gap' => DOMAIN buffer' = {}
      <4>1. buffer' = buffer /\ gap' = (buffer # <<>>)
        BY <2>1
      <4>2. buffer = <<>> => DOMAIN buffer = {}
        OBVIOUS
      <4> QED
        BY <4>1, <4>2, Zenon
    <3>2. ~gap' => \A g \in Hosts : EventsOf(g)' = {}
      BY <3>1 DEF EventsOf
    <3> QED
      BY <3>2 DEF LastIsTrue
  <2>4. ListsInv'
    BY <2>1, Spoiling DEF IInv, ListsInv, Created
  <2> QED
    BY <2>2, <2>3, <2>4 DEF Content
<1> QED
  BY <1>3, <1>4

\* A report changes nothing, and says that its host is online.
LEMMA UsagePublished ==
  ASSUME IInv, NEW h \in Hosts, h \in up, UNCHANGED <<row, up, hosts, seen>>,
         Publish([host |-> h, online |-> TRUE, type |-> "usage"])
  PROVE  Content'
<1> DEFINE e == [host |-> h, online |-> TRUE, type |-> "usage"]
<1>1. e \in Events /\ e.host = h /\ e.online = TRUE /\ e.type = "usage"
  BY DEF Events
<1>2. row[h] = "row"
  BY DEF IInv, TypeOK
<1> HIDE DEF e
<1>3. Publish(e)
  BY DEF e
<1>4. CASE stream = "open" /\ Len(buffer) < Cap
  <2>1. buffer' = Append(buffer, e) /\ UNCHANGED <<clean, loads, gap>>
    BY <1>3, <1>4 DEF Publish
  <2> DEFINE n == Len(buffer) + 1
  <2>2. /\ DOMAIN buffer' = DOMAIN buffer \cup {n}
        /\ \A i \in DOMAIN buffer : buffer'[i] = buffer[i]
        /\ buffer'[n] = e
        /\ \A g \in Hosts : StatusOf(g)' = StatusOf(g)
        /\ \A g \in Hosts : EventsOf(g)' \subseteq EventsOf(g) \cup {n}
    <3>1. \A g \in Hosts : StatusOf(g)' = StatusOf(g)
      BY <1>1, <2>1, Appended DEF IInv
    <3> QED
      BY <1>1, <2>1, <3>1, Appended DEF IInv
  <2> HIDE DEF n
  <2>3. EventsAreOfHosts'
    BY <1>1, <1>2, <2>2 DEF IInv, EventsAreOfHosts
  <2>4. LastIsTrue'
    <3> SUFFICES ASSUME ~gap, NEW g \in Hosts, NEW i \in EventsOf(g)', row[g] = "row",
                        \A j \in StatusOf(g)' : j <= i
                 PROVE  buffer'[i].online = (g \in up)
        BY <2>1 DEF LastIsTrue
    <3>1. CASE i = n
      <4>1. g = h
        BY <3>1, <2>2, <1>1 DEF EventsOf
      <4> QED
        BY <3>1, <4>1, <2>2, <1>1
    <3>2. CASE i # n
      <4>1. i \in EventsOf(g) /\ StatusOf(g)' = StatusOf(g)
        BY <2>2, <3>2
      <4>2. buffer[i].online = (g \in up)
        BY <4>1 DEF IInv, LastIsTrue
      <4>3. buffer'[i] = buffer[i]
        BY <4>1, <2>2 DEF EventsOf
      <4> QED
        BY <4>2, <4>3
    <3> QED
      BY <3>1, <3>2
  <2>5. ASSUME NEW shown \in Lists, NEW lately, Right(shown, lately)
        PROVE  Right(shown, lately)'
    <3>1. DOMAIN shown \subseteq Hosts
      BY DEF Lists
    <3> QED
      BY <3>1, <2>2, <2>5 DEF Right, Fits
  <2>6. ListsInv'
    <3>1. hosts # None => hosts \in Lists
      BY DEF IInv, TypeOK
    <3>2. \A i \in 1..MaxLoads : loads[i].list # None => loads[i].list \in Lists
      BY DEF IInv, TypeOK
    <3> QED
      BY <2>1, <2>5, <3>1, <3>2 DEF IInv, ListsInv, Created
  <2> QED
    BY <2>3, <2>4, <2>6 DEF Content
<1>5. CASE ~(stream = "open" /\ Len(buffer) < Cap)
  <2>1. UNCHANGED <<buffer, clean, loads, gap>>
    BY <1>1, <1>3, <1>5 DEF Publish
  <2> QED
    BY <2>1 DEF IInv, Content, EventsAreOfHosts, LastIsTrue, ListsInv, Created, Right, Fits, StatusOf, EventsOf
<1> QED
  BY <1>4, <1>5

\* Nothing is known of a host that has not been created, so creating it is harmless.
LEMMA HostCreated ==
  ASSUME IInv, NEW h \in Hosts, CreateHost(h)
  PROVE  Content'
<1>1. /\ UNCHANGED <<up, hosts, seen, buffer, loads, clean, gap>>
      /\ row[h] = "none" /\ row' = [row EXCEPT ![h] = "row"] /\ row \in [Hosts -> {"none", "row", "gone"}]
  BY DEF CreateHost, page, IInv, TypeOK
<1>2. \A g : EventsOf(g)' = EventsOf(g) /\ StatusOf(g)' = StatusOf(g)
  BY <1>1 DEF EventsOf, StatusOf
<1>3. EventsOf(h) = {}
  BY <1>1 DEF EventsOf, IInv, EventsAreOfHosts
<1>4. EventsAreOfHosts'
  BY <1>1, Indices DEF IInv, EventsAreOfHosts, Events
<1>5. LastIsTrue'
  BY <1>1, <1>2, <1>3 DEF IInv, LastIsTrue
<1>6. ASSUME NEW shown \in Lists, NEW lately, shown # None
      PROVE  Created(shown) => Created(shown)' /\ (Right(shown, lately) => Right(shown, lately)')
  <2> SUFFICES ASSUME Created(shown)
               PROVE  Created(shown)' /\ (Right(shown, lately) => Right(shown, lately)')
      OBVIOUS
  <2>1. h \notin DOMAIN shown /\ DOMAIN shown \subseteq Hosts
    BY <1>1, <1>6 DEF Created, Lists
  <2> QED
    BY <1>1, <1>2, <2>1 DEF Created, Right, Fits
<1>7. ListsInv'
  <2>1. hosts # None => hosts \in Lists
    BY DEF IInv, TypeOK
  <2>2. \A i \in 1..MaxLoads : loads[i].list # None => loads[i].list \in Lists
    BY DEF IInv, TypeOK
  <2>3. Created(hosts)'
    BY <1>1, <1>6, <2>1 DEF IInv, ListsInv, Created
  <2>4. \A i \in 1..MaxLoads : Created(loads[i].list)'
    BY <1>1, <1>6, <2>2 DEF IInv, ListsInv, Created
  <2>5. (clean => ~gap /\ (hosts # None => Right(hosts, seen)))'
    BY <1>1, <1>6, <2>1 DEF IInv, ListsInv
  <2>6. (\A i \in 1..MaxLoads :
           loads[i].calm => ~gap /\ (loads[i].list # None => Right(loads[i].list, loads[i].seen)))'
    BY <1>1, <1>6, <2>2 DEF IInv, ListsInv
  <2> QED
    BY <2>3, <2>4, <2>5, <2>6 DEF ListsInv
<1> QED
  BY <1>4, <1>5, <1>7 DEF Content

\* Nothing is said of a host that has been deleted.
LEMMA HostDeleted ==
  ASSUME IInv, NEW h \in Hosts, DeleteHost(h)
  PROVE  Content'
<1>1. /\ UNCHANGED <<hosts, seen, buffer, loads, clean, gap>> /\ up' = up \ {h}
      /\ row' = [row EXCEPT ![h] = "gone"] /\ row \in [Hosts -> {"none", "row", "gone"}]
  BY DEF DeleteHost, page, IInv, TypeOK
<1>2. \A g : EventsOf(g)' = EventsOf(g) /\ StatusOf(g)' = StatusOf(g)
  BY <1>1 DEF EventsOf, StatusOf
<1>3. EventsAreOfHosts'
  BY <1>1, Indices DEF IInv, EventsAreOfHosts, Events
<1>4. LastIsTrue'
  BY <1>1, <1>2 DEF IInv, LastIsTrue
<1>5. ASSUME NEW shown \in Lists, NEW lately
      PROVE  (Created(shown) => Created(shown)') /\ (Right(shown, lately) => Right(shown, lately)')
  <2>1. DOMAIN shown \subseteq Hosts
    BY DEF Lists
  <2> QED
    BY <1>1, <1>2, <2>1 DEF Created, Right, Fits
<1>6. ListsInv'
  <2>1. hosts # None => hosts \in Lists
    BY DEF IInv, TypeOK
  <2>2. \A i \in 1..MaxLoads : loads[i].list # None => loads[i].list \in Lists
    BY DEF IInv, TypeOK
  <2>3. Created(hosts)' /\ \A i \in 1..MaxLoads : Created(loads[i].list)'
    BY <1>1, <1>5, <2>1, <2>2 DEF IInv, ListsInv, Created
  <2>4. (clean => ~gap /\ (hosts # None => Right(hosts, seen)))'
    BY <1>1, <1>5, <2>1 DEF IInv, ListsInv
  <2>5. (\A i \in 1..MaxLoads :
           loads[i].calm => ~gap /\ (loads[i].list # None => Right(loads[i].list, loads[i].seen)))'
    BY <1>1, <1>5, <2>2 DEF IInv, ListsInv
  <2> QED
    BY <2>3, <2>4, <2>5 DEF ListsInv
<1> QED
  BY <1>3, <1>4, <1>6 DEF Content

\* The list that the Monitor answers is right.
LEMMA ListServed ==
  ASSUME IInv, NEW i \in 1..MaxLoads, Serve(i)
  PROVE  Content'
<1> DEFINE list == [h \in {k \in Hosts : row[k] = "row"} |-> h \in up \cup recent]
<1>1. /\ UNCHANGED <<row, up, recent, hosts, seen, buffer, clean, gap>>
      /\ loads' = [loads EXCEPT ![i] = [phase |-> "served", seen |-> recent, calm |-> ~gap, list |-> list]]
  BY DEF Serve, server, page
<1>2. \A h \in DOMAIN list : row[h] = "row" /\ list[h] = (h \in up \cup recent)
  OBVIOUS
<1> HIDE DEF list
<1>3. Created(list) /\ Right(list, recent)
  BY <1>2 DEF Created, Right, Fits
<1>4. /\ loads'[i].list = list /\ loads'[i].seen = recent /\ loads'[i].calm = ~gap
      /\ \A k \in 1..MaxLoads \ {i} : loads'[k] = loads[k]
  BY <1>1 DEF IInv, TypeOK
<1>5. ListsInv'
  <2>1. Created(list)' /\ Right(list, recent)'
    BY <1>1, <1>3 DEF Created, Right, Fits, StatusOf, EventsOf, list
  <2>2. \A k \in 1..MaxLoads : /\ Created(loads'[k].list)
                               /\ loads'[k].calm => ~gap /\ (loads'[k].list # None => Right(loads'[k].list, loads'[k].seen))
    BY <1>3, <1>4 DEF IInv, ListsInv
  <2>3. Created(hosts) /\ (clean => ~gap /\ (hosts # None => Right(hosts, seen)))
    BY DEF IInv, ListsInv
  <2> QED
    BY <1>1, <2>2, <2>3 DEF ListsInv, Created, Right, Fits, StatusOf, EventsOf
<1> QED
  BY <1>1, <1>5 DEF Content, IInv, EventsAreOfHosts, LastIsTrue, StatusOf, EventsOf

\* What is on the screen stays there, is taken from an answer, or is gone; a load ends
\* or begins.
LEMMA PageKeeps ==
  ASSUME IInv, UNCHANGED <<row, up, buffer, gap>>,
         \/ UNCHANGED <<hosts, seen, clean>>
         \/ hosts' = None /\ clean' = FALSE
         \/ \E i \in 1..MaxLoads :
              hosts' = loads[i].list /\ seen' = loads[i].seen /\ clean' = loads[i].calm,
         \A i \in 1..MaxLoads : loads'[i] \in {loads[i], Sent, NoLoad}
  PROVE  Content'
<1>1. \A g : EventsOf(g)' = EventsOf(g) /\ StatusOf(g)' = StatusOf(g)
  BY DEF EventsOf, StatusOf
<1>2. EventsAreOfHosts' /\ LastIsTrue'
  BY <1>1 DEF IInv, EventsAreOfHosts, LastIsTrue
<1>3. ListsInv'
  <2>1. Created(hosts') /\ (clean' => ~gap /\ (hosts' # None => Right(hosts', seen')))
    <3>1. CASE UNCHANGED <<hosts, seen, clean>>
      BY <3>1 DEF IInv, ListsInv
    <3>2. CASE hosts' = None /\ clean' = FALSE
      BY <3>2 DEF Created
    <3>3. ASSUME NEW i \in 1..MaxLoads, hosts' = loads[i].list, seen' = loads[i].seen, clean' = loads[i].calm
          PROVE  Created(hosts') /\ (clean' => ~gap /\ (hosts' # None => Right(hosts', seen')))
      BY <3>3 DEF IInv, ListsInv
    <3> QED
      BY <3>1, <3>2, <3>3
  <2>2. ASSUME NEW i \in 1..MaxLoads
        PROVE  /\ Created(loads'[i].list)
               /\ loads'[i].calm => ~gap /\ (loads'[i].list # None => Right(loads'[i].list, loads'[i].seen))
    <3>1. CASE loads'[i] = loads[i]
      BY <3>1 DEF IInv, ListsInv
    <3>2. CASE loads'[i] \in {Sent, NoLoad}
      BY <3>2 DEF Sent, NoLoad, Created
    <3> QED
      BY <3>1, <3>2
  <2> QED
    BY <1>1, <2>1, <2>2 DEF ListsInv, Created, Right, Fits
<1> QED
  BY <1>2, <1>3 DEF Content

\* An event makes what is shown of its host right, unless more are to come.
LEMMA EventShown ==
  ASSUME IInv, Deliver
  PROVE  Content'
<1> DEFINE e == buffer[1]
<1>1. /\ UNCHANGED <<row, up, clean>> /\ buffer # <<>> /\ buffer' = Tail(buffer)
      /\ loads' = Spoiled /\ gap' = (gap /\ buffer' # <<>>) /\ seen' = seen \ {Head(buffer).host}
  BY DEF Deliver, server
<1>2. /\ \A i \in DOMAIN buffer' : i \in Nat /\ i + 1 \in DOMAIN buffer /\ buffer'[i] = buffer[i + 1]
      /\ 1 \in DOMAIN buffer /\ Head(buffer) = e /\ e \in Events
      /\ \A g : \A i \in EventsOf(g)' : i + 1 \in EventsOf(g)
      /\ \A g : \A i \in StatusOf(g) : i = 1 \/ (i \in Nat /\ i - 1 \in StatusOf(g)')
  BY <1>1, Taken DEF IInv
<1>3. EventsAreOfHosts'
  BY <1>1, <1>2 DEF IInv, EventsAreOfHosts
<1>4. LastIsTrue'
  <2> SUFFICES ASSUME ~gap', NEW g \in Hosts, NEW i \in EventsOf(g)', row[g] = "row",
                      \A j \in StatusOf(g)' : j <= i
               PROVE  buffer'[i].online = (g \in up)
      BY <1>1 DEF LastIsTrue
  <2>1. i \in DOMAIN buffer' /\ buffer' # <<>>
    BY DEF EventsOf
  <2>2. ~gap
    BY <1>1, <2>1
  <2>3. i \in Nat /\ i + 1 \in EventsOf(g) /\ buffer'[i] = buffer[i + 1]
    BY <1>2, <2>1
  <2>4. \A j \in StatusOf(g) : j <= i + 1
    <3> TAKE j \in StatusOf(g)
    <3>1. CASE j = 1
      BY <3>1, <2>3
    <3>2. CASE j \in Nat /\ j - 1 \in StatusOf(g)'
      <4>1. j - 1 <= i
        BY <3>2
      <4> QED
        BY <4>1, <3>2, <2>3
    <3> QED
      BY <1>2, <3>1, <3>2
  <2>5. buffer[i + 1].online = (g \in up)
    BY <2>2, <2>3, <2>4 DEF IInv, LastIsTrue
  <2> QED
    BY <2>3, <2>5
<1>5. Created(hosts') /\ (clean /\ hosts' # None => Right(hosts, seen)')
  <2>1. CASE hosts # None /\ e.host \in DOMAIN hosts
    <3>1. hosts' = [hosts EXCEPT ![e.host] = e.type = "usage" \/ e.online]
      BY <1>2, <2>1 DEF Deliver, Shows
    <3>2. hosts \in Lists
      BY <2>1 DEF IInv, TypeOK
    <3>3. PICK S \in SUBSET Hosts : hosts \in [S -> BOOLEAN]
      BY <3>2 DEF Lists
    <3>4. DOMAIN hosts' = S /\ \A h \in S \ {e.host} : hosts'[h] = hosts[h]
      BY <3>1, <3>3
    <3>5. hosts'[e.host] = e.online
      <4>1. e.type = "usage" => e.online
        BY <1>2 DEF IInv, EventsAreOfHosts
      <4>2. e.online \in BOOLEAN
        BY <1>2 DEF Events
      <4>3. (e.type = "usage" \/ e.online) = e.online
        BY <4>1, <4>2
      <4> QED
        BY <3>1, <3>3, <4>3, <2>1
    <3>6. Created(hosts')
      BY <2>1, <3>3, <3>4 DEF IInv, ListsInv, Created
    <3>7. ASSUME clean, NEW h \in S, row[h] = "row", StatusOf(h)' = {}
          PROVE  Fits(hosts'[h], h, seen')
      <4>1. Right(hosts, seen) /\ ~gap
        BY <2>1, <3>7 DEF IInv, ListsInv
      <4>2. \A i \in StatusOf(h) : i = 1
        BY <1>2, <3>7
      <4>3. CASE h = e.host
        <5>1. 1 \in EventsOf(h)
          BY <1>2, <4>3 DEF EventsOf
        <5>2. \A j \in StatusOf(h) : j <= 1
          BY <4>2
        <5>3. e.online = (h \in up)
          BY <3>7, <4>1, <5>1, <5>2 DEF IInv, LastIsTrue
        <5> QED
          BY <3>5, <4>3, <5>3 DEF Fits
      <4>4. CASE h # e.host
        <5>1. StatusOf(h) = {}
          BY <4>2, <4>4 DEF StatusOf, EventsOf
        <5>2. Fits(hosts[h], h, seen)
          BY <3>3, <3>7, <4>1, <5>1 DEF Right
        <5>3. h \in seen => h \in seen'
          BY <1>1, <1>2, <4>4
        <5> QED
          BY <3>4, <4>4, <5>2, <5>3 DEF Fits
      <4> QED
        BY <4>3, <4>4
    <3> QED
      BY <1>1, <3>4, <3>6, <3>7 DEF Right, Fits
  <2>2. CASE ~(hosts # None /\ e.host \in DOMAIN hosts)
    <3>1. hosts' = hosts
      BY <1>2, <2>2 DEF Deliver
    <3>2. Created(hosts')
      BY <3>1 DEF IInv, ListsInv
    <3>3. ASSUME clean, hosts # None, NEW h \in DOMAIN hosts, row[h] = "row", StatusOf(h)' = {}
          PROVE  Fits(hosts[h], h, seen')
      <4>1. StatusOf(h) = {} /\ h # e.host
        BY <1>2, <2>2, <3>3 DEF StatusOf, EventsOf
      <4>2. h \in seen => h \in seen'
        BY <1>1, <1>2, <4>1
      <4> QED
        BY <3>3, <4>1, <4>2 DEF IInv, ListsInv, Right, Fits
    <3> QED
      BY <1>1, <3>1, <3>2, <3>3 DEF Right, Fits
  <2> QED
    BY <2>1, <2>2
<1>6. ListsInv'
  <2>1. clean => ~gap'
    BY <1>1 DEF IInv, ListsInv
  <2>2. Created(hosts)' /\ (\A i \in 1..MaxLoads : Created(loads[i].list))'
    BY <1>1, <1>5, Spoiling DEF IInv, ListsInv, Created
  <2>3. \A i \in 1..MaxLoads : ~loads'[i].calm
    BY <1>1, Spoiling DEF IInv
  <2> QED
    BY <1>1, <1>5, <2>1, <2>2, <2>3 DEF ListsInv
<1> QED
  BY <1>3, <1>4, <1>6 DEF Content

\* When the connection breaks, events of usage are no loss.
LEMMA StreamBreaks ==
  ASSUME IInv, Break
  PROVE  Content'
<1>1. /\ UNCHANGED <<row, up, hosts, seen>> /\ buffer' = <<>> /\ gap' = FALSE
      /\ \/ clean' = FALSE /\ loads' = Spoiled
         \/ UNCHANGED <<clean, loads>> /\ \A i \in DOMAIN buffer : buffer[i].type # "status"
  BY DEF Break, server, page
<1>2. DOMAIN buffer' = {}
  BY <1>1
<1>3. EventsAreOfHosts' /\ LastIsTrue'
  BY <1>2 DEF EventsAreOfHosts, LastIsTrue, EventsOf
<1>4. CASE clean' = FALSE /\ loads' = Spoiled
  <2>1. ListsInv'
    BY <1>1, <1>4, Spoiling DEF IInv, ListsInv, Created
  <2> QED
    BY <1>3, <2>1 DEF Content
<1>5. CASE UNCHANGED <<clean, loads>> /\ \A i \in DOMAIN buffer : buffer[i].type # "status"
  <2>1. \A h : StatusOf(h) = {} /\ StatusOf(h)' = {}
    BY <1>2, <1>5 DEF StatusOf, EventsOf
  <2>2. ListsInv'
    BY <1>1, <1>5, <2>1 DEF IInv, ListsInv, Created, Right, Fits
  <2> QED
    BY <1>3, <2>2 DEF Content
<1> QED
  BY <1>1, <1>4, <1>5

\* IInv /\ [Next]_vars => IInv'
LEMMA IInvStep == IInv /\ [Next]_vars => IInv'
<1> SUFFICES ASSUME IInv, [Next]_vars PROVE Content'
    BY TypeStep DEF IInv, Content
<1> USE LiveAssumption
<1>0. TypeOK
  BY DEF IInv
<1>1. ASSUME NEW h \in Hosts, Comes(h) PROVE Content'
  <2>1. /\ row[h] = "row" /\ TRUE = (h \in up') /\ UNCHANGED <<row, hosts, seen>>
        /\ \A g \in Hosts \ {h} : (g \in up') = (g \in up)
        /\ Publish([host |-> h, online |-> TRUE, type |-> "status"])
    BY <1>1 DEF Comes, page
  <2> QED
    BY <2>1, StatusPublished
<1>2. ASSUME NEW h \in Hosts, Goes(h) PROVE Content'
  <2>1. /\ row[h] = "row" /\ FALSE = (h \in up') /\ UNCHANGED <<row, hosts, seen>>
        /\ \A g \in Hosts \ {h} : (g \in up') = (g \in up)
        /\ Publish([host |-> h, online |-> FALSE, type |-> "status"])
    BY <1>0, <1>2 DEF Goes, page, TypeOK
  <2> QED
    BY <2>1, StatusPublished
<1>3. ASSUME NEW h \in Hosts, Report(h) PROVE Content'
  BY <1>3, UsagePublished DEF Report, server, page
<1>4. ASSUME NEW h \in Hosts, CreateHost(h) PROVE Content'
  BY <1>4, HostCreated
<1>5. ASSUME NEW h \in Hosts, DeleteHost(h) PROVE Content'
  BY <1>5, HostDeleted
<1>6. CASE Slots
  BY <1>6, PageKeeps DEF Slots, server, page
<1>19. ASSUME NEW h \in Hosts, Fades(h) PROVE Content'
  BY <1>19, PageKeeps DEF Fades, page
<1>7. ASSUME NEW i \in 1..MaxLoads, Serve(i) PROVE Content'
  BY <1>7, ListServed
<1>8. ASSUME NEW i \in 1..MaxLoads, LoadAnswer(i) PROVE Content'
  <2>1. \A k \in 1..MaxLoads : loads'[k] \in {loads[k], Sent, NoLoad}
    BY <1>0, <1>8 DEF LoadAnswer, TypeOK
  <2> QED
    BY <1>8, <2>1, PageKeeps DEF LoadAnswer, server
<1>9. ASSUME NEW i \in 1..MaxLoads, LoadFails(i) PROVE Content'
  <2>1. \A k \in 1..MaxLoads : loads'[k] \in {loads[k], Sent, NoLoad}
    BY <1>0, <1>9 DEF LoadFails, TypeOK
  <2> QED
    BY <1>9, <2>1, PageKeeps DEF LoadFails, server
<1>10. CASE Enter
  BY <1>0, <1>10, Sending, PageKeeps DEF Enter, server
<1>11. CASE Leave
  BY <1>11, PageKeeps DEF Leave, server
<1>12. CASE Retry
  BY <1>0, <1>12, Sending, PageKeeps DEF Retry, server
<1>13. CASE Deliver
  BY <1>13, EventShown
<1>14. CASE RefreshTimer
  BY <1>0, <1>14, Sending, PageKeeps DEF RefreshTimer, server
<1>15. CASE Connect
  <2>1. \A k \in 1..MaxLoads : loads'[k] \in {loads[k], Sent, NoLoad}
    BY <1>0, <1>15, Sending DEF Connect
  <2> QED
    BY <1>15, <2>1, PageKeeps DEF Connect, server, page
<1>16. CASE Refused
  BY <1>16, PageKeeps DEF Refused, server, page
<1>17. CASE Break
  BY <1>17, StreamBreaks
<1>18. CASE UNCHANGED vars
  BY <1>18, PageKeeps DEF vars, server, page
<1> QED
  BY <1>1, <1>2, <1>3, <1>4, <1>5, <1>6, <1>7, <1>8, <1>9, <1>10, <1>11, <1>12, <1>13, <1>14, <1>15, <1>16, <1>17, <1>18, <1>19 DEF Next

-----------------------------------------------------------------------------
\* A set of natural numbers that is not empty has a least one.
LEMMA LeastNumber ==
  ASSUME NEW T \in SUBSET Nat, T # {}
  PROVE  \E m \in T : \A k \in T : m <= k
<1>1. \E m \in T : \A k \in T : <<k, m>> \notin OpToRel(<, Nat)
  BY NatLessThanWellFounded, WFMin
<1>2. \A k, m \in Nat : k < m => <<k, m>> \in OpToRel(<, Nat)
  BY DEF OpToRel
<1>3. PICK m \in T : \A k \in T : ~(k < m)
  BY <1>1, <1>2
<1> QED
  BY <1>3

\* Where a host has events under way, one of them is the last.
LEMMA LastExists ==
  ASSUME TypeOK, NEW h, EventsOf(h) # {}
  PROVE  \E m \in EventsOf(h) : \A k \in EventsOf(h) : k <= m
<1> DEFINE Behind == {Len(buffer) - i : i \in EventsOf(h)}
<1>1. EventsOf(h) \subseteq 1..Len(buffer) /\ Len(buffer) \in Nat
  BY Indices, LiveAssumption DEF EventsOf
<1>2. Behind \in SUBSET Nat /\ Behind # {}
  <2>1. \A i \in EventsOf(h) : Len(buffer) - i \in Nat
    BY <1>1
  <2> QED
    BY <2>1
<1>3. PICK least \in Behind : \A k \in Behind : least <= k
  BY <1>2, LeastNumber
<1>4. PICK m \in EventsOf(h) : least = Len(buffer) - m
  OBVIOUS
<1>5. \A k \in EventsOf(h) : Len(buffer) - m <= Len(buffer) - k
  BY <1>3, <1>4
<1>6. \A k \in EventsOf(h) : k <= m
  BY <1>1, <1>5
<1> QED
  BY <1>6

\* The invariant says that what is shown is right once the events have been handled.
LEMMA InvariantShows == IInv => CleanAgrees
<1> SUFFICES ASSUME IInv, clean, hosts # None, NEW h \in DOMAIN hosts, row[h] = "row"
             PROVE  /\ h \in up => Settled(h)
                    /\ h \notin up => ~Settled(h) \/ (h \in seen /\ EventsOf(h) = {})
    BY DEF CleanAgrees
<1>1. TypeOK /\ Right(hosts, seen) /\ ~gap
  BY DEF IInv, ListsInv
<1>2. h \in Hosts
  BY <1>1 DEF TypeOK, Lists
<1>3. CASE EventsOf(h) = {}
  <2>1. StatusOf(h) = {}
    BY <1>3 DEF StatusOf
  <2> QED
    BY <1>1, <1>3, <2>1 DEF Settled, Right, Fits
<1>4. CASE EventsOf(h) # {}
  <2> DEFINE last == CHOOSE i \in EventsOf(h) : \A j \in EventsOf(h) : j <= i
  <2>1. last \in EventsOf(h) /\ \A j \in EventsOf(h) : j <= last
    BY <1>1, <1>4, LastExists
  <2>2. Settled(h) = buffer[last].online
    BY <1>4 DEF Settled
  <2> HIDE DEF last
  <2>3. \A j \in StatusOf(h) : j <= last
    BY <2>1 DEF StatusOf
  <2>4. buffer[last].online = (h \in up)
    BY <1>1, <1>2, <2>1, <2>3 DEF IInv, LastIsTrue
  <2> QED
    BY <2>2, <2>4
<1> QED
  BY <1>3, <1>4

-----------------------------------------------------------------------------
\* Every reachable state of the stream and of the page is well typed; the buffer never
\* holds more events than it has room for.
THEOREM TypeCorrect == Spec => []TypeOK
<1>1. IInv => TypeOK
  BY DEF IInv
<1> QED
  BY InitIInv, IInvStep, <1>1, PTL DEF Spec

\* For every number of hosts, of loads in flight and of events under way: unless a
\* change has passed the page by, what the overview shows and the events it has not
\* seen make up what the Monitor knows (server/live.go, OverviewPage.tsx).
THEOREM CleanHolds == Spec => []CleanAgrees
BY InitIInv, IInvStep, InvariantShows, PTL DEF Spec
=============================================================================
