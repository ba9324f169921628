-------------------------- MODULE MaintenanceProofs --------------------------
(***************************************************************************)
(* Maintenance, for every number of hosts, tasks and requests, every batch    *)
(* size and every length of the agents' logs.                                 *)
(***************************************************************************)
EXTENDS Maintenance, TLAPS

\* A frame, and the handler that reads it, name events the agent has written.
FramesFit ==
  \A h \in Hosts :
    /\ inbox[h].first >= 1 /\ sync[h].next >= 1
    /\ IF inbox[h].task = None THEN inbox[h].last = 0
                               ELSE inbox[h].last <= Len(ledger[inbox[h].task])
    /\ IF sync[h].task = None THEN sync[h].last = 0
                              ELSE sync[h].last <= Len(ledger[sync[h].task])

Busy == [step : {"apply", "expire", "offer", "reply"}, task : Tasks \cup {None},
         next : Nat, last : Nat, ack : Nat, supported : BOOLEAN, offer : Tasks \cup {None}]

Shape == TypeOK /\ FramesFit

\* Records of a handler that goes on to its next event.
LEMMA BusyNext ==
  ASSUME NEW s \in Busy
  PROVE  /\ s.next \in Nat /\ s.last \in Nat /\ s.ack \in Nat
         /\ [s EXCEPT !.next = s.next + 1] \in Busy
         /\ [s EXCEPT !.next = s.next + 1, !.ack = s.next] \in Busy
<1>1. s.next \in Nat /\ s.last \in Nat /\ s.ack \in Nat
  BY DEF Busy
<1>2. ASSUME NEW n \in Nat, NEW a \in Nat
      PROVE  [s EXCEPT !.next = n] \in Busy /\ [s EXCEPT !.next = n, !.ack = a] \in Busy
  BY DEF Busy
<1>3. s.next + 1 \in Nat
  BY <1>1
<1> QED BY <1>1, <1>2, <1>3

\* What writing to the ledger of a task does.
LEMMA WriteFacts ==
  ASSUME ledger \in [Tasks -> Seq(Reports)], NEW t \in Tasks, NEW x \in Reports, Write(t, x)
  PROVE  /\ ledger' \in [Tasks -> Seq(Reports)]
         /\ \A u \in Tasks : u # t => ledger'[u] = ledger[u]
         /\ Len(ledger'[t]) = Len(ledger[t]) + 1
         /\ \A u \in Tasks : Len(ledger[u]) <= Len(ledger'[u])
         /\ \A i \in 1 .. Len(ledger[t]) : ledger'[t][i] = ledger[t][i]
         /\ ledger'[t][Len(ledger[t]) + 1] = x
<1>1. ledger' = [ledger EXCEPT ![t] = Append(ledger[t], x)]
  BY DEF Write
<1>2. ledger[t] \in Seq(Reports)
  OBVIOUS
<1>3. ledger'[t] = Append(ledger[t], x)
  BY <1>1
<1>4. /\ Append(ledger[t], x) \in Seq(Reports)
      /\ Len(Append(ledger[t], x)) = Len(ledger[t]) + 1
      /\ \A i \in 1 .. Len(ledger[t]) : Append(ledger[t], x)[i] = ledger[t][i]
      /\ Append(ledger[t], x)[Len(ledger[t]) + 1] = x
  BY <1>2
<1>5. \A u \in Tasks : u # t => ledger'[u] = ledger[u]
  BY <1>1
<1>6. ledger' \in [Tasks -> Seq(Reports)]
  BY <1>1, <1>4
<1>7. \A u \in Tasks : Len(ledger[u]) \in Nat
  OBVIOUS
<1>8. \A u \in Tasks : Len(ledger[u]) <= Len(ledger'[u])
  BY <1>3, <1>4, <1>5, <1>7
<1> QED BY <1>3, <1>4, <1>5, <1>6, <1>8

LEMMA RecordType ==
  ASSUME NEW t \in Tasks, NEW seq \in Nat, ledger[t][seq] \in Reports, Record(t, seq),
         status \in [Tasks -> Reports \cup {"none", "queued", "delivered", "expired"}],
         lastSeq \in [Tasks -> Nat], rows \in [Tasks -> SUBSET (Nat \X Reports)]
  PROVE  /\ status' \in [Tasks -> Reports \cup {"none", "queued", "delivered", "expired"}]
         /\ lastSeq' \in [Tasks -> Nat] /\ rows' \in [Tasks -> SUBSET (Nat \X Reports)]
<1>1. rows[t] \cup {<<seq, ledger[t][seq]>>} \in SUBSET (Nat \X Reports)
  OBVIOUS
<1> QED BY <1>1 DEF Record

LEMMA ShapeInit == Init => Shape
BY NoneIsNew DEF Init, Shape, TypeOK, FramesFit, SyncIdle, CreateIdle, NoFrame, NoReply

LEMMA TypeStep == Shape /\ [Next]_vars => TypeOK'
<1> SUFFICES ASSUME Shape, [Next]_vars PROVE TypeOK'
    OBVIOUS
<1> USE NoneIsNew, BoundsAreNat, WillingIsBoolean
    DEF Shape, TypeOK, db, mem, net, agent
<1>1. ASSUME NEW r \in Requests, NEW h \in Hosts, CreateCheck(r, h) PROVE TypeOK'
  BY <1>1 DEF CreateCheck, CreateIdle
<1>2. ASSUME NEW r \in Requests, CreateExpire(r) PROVE TypeOK'
  <2>1. create[r] \in [step : {"expire", "insert"}, host : Hosts]
    BY <1>2 DEF CreateExpire, CreateIdle
  <2>2. [create[r] EXCEPT !.step = "insert"] \in [step : {"expire", "insert"}, host : Hosts]
    BY <2>1
  <2> QED BY <1>2, <2>2 DEF CreateExpire, Expire
<1>3. ASSUME NEW r \in Requests, CreateRefused(r) PROVE TypeOK'
  BY <1>3 DEF CreateRefused, CreateIdle
<1>4. ASSUME NEW r \in Requests, NEW t \in Tasks, CreateInsert(r, t) PROVE TypeOK'
  BY <1>4 DEF CreateInsert, CreateIdle
<1>5. ASSUME ListExpire PROVE TypeOK'
  BY <1>5 DEF ListExpire, Expire
<1>6. ASSUME NEW h \in Hosts, SyncRead(h) PROVE TypeOK'
  BY <1>6 DEF SyncRead, Become, SyncIdle, NoFrame
<1>7. ASSUME NEW h \in Hosts, SyncApply(h) PROVE TypeOK'
  <2> DEFINE s == sync[h]
  <2>1. /\ s \in Busy /\ s.next <= s.last /\ s.next >= 1
        /\ s.task \in Tasks /\ s.last <= Len(ledger[s.task])
    BY <1>7 DEF SyncApply, Applying, SyncIdle, Busy, FramesFit
  <2>2. s.next \in 1 .. Len(ledger[s.task]) /\ ledger[s.task] \in Seq(Reports)
    <3>1. s.next \in Nat /\ s.last \in Nat
      BY <2>1, BusyNext
    <3>2. ledger[s.task] \in Seq(Reports)
      BY <2>1
    <3>3. Len(ledger[s.task]) \in Nat
      BY <3>2
    <3> QED BY <2>1, <3>1, <3>2, <3>3
  <2>3. UNCHANGED <<thost, delivered, overdue, sess, supported, create, net, agent>>
    BY <1>7 DEF SyncApply
  <2>4. sync' \in [Hosts -> {SyncIdle} \cup Busy]
    BY <1>7, <2>1, BusyNext DEF SyncApply, Become, Busy
  <2>5. /\ status' \in [Tasks -> Reports \cup {"none", "queued", "delivered", "expired"}]
        /\ lastSeq' \in [Tasks -> Nat] /\ rows' \in [Tasks -> SUBSET (Nat \X Reports)]
    <3>1. CASE Duplicate(s.task, s.next)
      BY <1>7, <3>1 DEF SyncApply
    <3>2. CASE ~Duplicate(s.task, s.next)
      <4>1. ledger[s.task][s.next] \in Reports /\ s.next \in Nat
        BY <2>2
      <4>2. Record(s.task, s.next)
        BY <1>7, <3>2 DEF SyncApply
      <4> QED BY <2>1, <4>1, <4>2, RecordType
    <3> QED BY <3>1, <3>2
  <2> QED BY <2>3, <2>4, <2>5 DEF Busy
<1>8. ASSUME NEW h \in Hosts, SyncSkip(h) PROVE TypeOK'
  <2>1. sync[h] \in Busy
    BY <1>8 DEF SyncSkip, Applying, SyncIdle, Busy
  <2> QED BY <1>8, <2>1, BusyNext DEF SyncSkip, Become, Busy
<1>9. ASSUME NEW h \in Hosts, SyncApplied(h) PROVE TypeOK'
  <2>1. sync[h] \in Busy
    BY <1>9 DEF SyncApplied, SyncIdle, Busy
  <2>2. [SyncIdle EXCEPT !.step = IF sync[h].supported THEN "expire" ELSE "reply",
                         !.task = IF sync[h].ack > 0 THEN sync[h].task ELSE None,
                         !.ack = sync[h].ack] \in Busy
    BY <2>1 DEF Busy, SyncIdle
  <2> QED BY <1>9, <2>2 DEF SyncApplied, Become, Busy
<1>10. ASSUME NEW h \in Hosts, SyncExpire(h) PROVE TypeOK'
  <2>1. sync[h] \in Busy
    BY <1>10 DEF SyncExpire, Expire, SyncIdle, Busy
  <2>2. [sync[h] EXCEPT !.step = "offer"] \in Busy
    BY <2>1 DEF Busy
  <2> QED BY <1>10, <2>1, <2>2 DEF SyncExpire, Expire, Become, Busy
<1>11. ASSUME NEW h \in Hosts, SyncNoOffer(h) PROVE TypeOK'
  <2>1. sync[h] \in Busy
    BY <1>11 DEF SyncNoOffer, SyncIdle, Busy
  <2>2. [sync[h] EXCEPT !.step = "reply"] \in Busy
    BY <2>1 DEF Busy
  <2> QED BY <1>11, <2>1, <2>2 DEF SyncNoOffer, Become, Busy
<1>12. ASSUME NEW h \in Hosts, NEW t \in Tasks, SyncOffer(h, t) PROVE TypeOK'
  <2>1. sync[h] \in Busy
    BY <1>12 DEF SyncOffer, Offerable, SyncIdle, Busy
  <2>2. [sync[h] EXCEPT !.step = "reply", !.offer = t] \in Busy
    BY <2>1 DEF Busy
  <2> QED BY <1>12, <2>1, <2>2 DEF SyncOffer, Offerable, Become, Busy
<1>12a. ASSUME NEW h \in Hosts, NEW t \in Tasks, SyncOfferUnread(h, t) PROVE TypeOK'
  <2>1. sync[h] \in Busy
    BY <1>12a DEF SyncOfferUnread, Offerable, SyncIdle, Busy
  <2>2. [sync[h] EXCEPT !.step = "reply"] \in Busy
    BY <2>1 DEF Busy
  <2> QED BY <1>12a, <2>1, <2>2 DEF SyncOfferUnread, Offerable, Become, Busy
<1>13. ASSUME NEW h \in Hosts, SyncReply(h) PROVE TypeOK'
  <2>1. sync[h] \in Busy
    BY <1>13 DEF SyncReply, SyncIdle, Busy
  <2>2. [task |-> sync[h].task, ack |-> sync[h].ack, offer |-> sync[h].offer, sent |-> TRUE]
          \in [task : Tasks \cup {None}, ack : Nat, offer : Tasks \cup {None}, sent : BOOLEAN]
    BY <2>1 DEF Busy
  <2> QED BY <1>13, <2>2 DEF SyncReply, Become, SyncIdle
<1>14. ASSUME NEW h \in Hosts, SyncReplyFails(h) PROVE TypeOK'
  BY <1>14 DEF SyncReplyFails, Become, SyncIdle, NoReply
<1>15. ASSUME NEW h \in Hosts, Connect(h) PROVE TypeOK'
  BY <1>15 DEF Connect, Forget, NoFrame, NoReply
<1>16. ASSUME NEW h \in Hosts, Disconnect(h) PROVE TypeOK'
  BY <1>16 DEF Disconnect, Forget, NoFrame, NoReply
<1>17. ASSUME NEW h \in Hosts, Delete(h) PROVE TypeOK'
  BY <1>17 DEF Delete, Forget, NoFrame, NoReply
<1>18. ASSUME NEW h \in Hosts, Break(h) PROVE TypeOK'
  BY <1>18 DEF Break, NoReply
<1>19. ASSUME ServerCrash PROVE TypeOK'
  BY <1>19 DEF ServerCrash, SyncIdle, CreateIdle, NoFrame, NoReply
<1>20. ASSUME NEW t \in Tasks, Age(t) PROVE TypeOK'
  BY <1>20 DEF Age
<1>21. ASSUME NEW h \in Hosts, NEW b \in Willing, AgentPoll(h, b) PROVE TypeOK'
  <2>1. [NoFrame EXCEPT !.supported = b, !.sent = TRUE]
          \in [task : Tasks \cup {None}, first : Nat, last : Nat, supported : BOOLEAN,
              sent : BOOLEAN]
    BY DEF NoFrame
  <2> QED BY <1>21, <2>1 DEF AgentPoll
<1>22. ASSUME NEW h \in Hosts, AgentReceive(h) PROVE TypeOK'
  <2>1. outbox[h].ack \in Nat /\ <<"accepted">> \in Seq(Reports)
    BY DEF Reports
  <2>2. acked' \in [Tasks -> Nat] /\ ledger' \in [Tasks -> Seq(Reports)]
    BY <1>22, <2>1 DEF AgentReceive
  <2> QED BY <1>22, <2>2 DEF AgentReceive, NoReply
<1>23. ASSUME NEW h \in Hosts, NEW t \in Tasks, AgentSync(h, t) PROVE TypeOK'
  <2> DEFINE last == Least(acked[t] + Batch, Len(ledger[t]))
  <2>1. acked[t] \in Nat /\ Len(ledger[t]) \in Nat
    OBVIOUS
  <2>2. acked[t] + 1 \in Nat /\ last \in Nat
    BY <2>1 DEF Least
  <2>3. [task |-> t, first |-> acked[t] + 1, last |-> last, supported |-> TRUE, sent |-> TRUE]
          \in [task : Tasks \cup {None}, first : Nat, last : Nat, supported : BOOLEAN,
              sent : BOOLEAN]
    BY <2>2
  <2>4. UNCHANGED <<db, mem, outbox, agent>>
    BY <1>23 DEF AgentSync
  <2>5. inbox' \in [Hosts -> [task : Tasks \cup {None}, first : Nat, last : Nat,
                             supported : BOOLEAN, sent : BOOLEAN]]
    BY <1>23, <2>3 DEF AgentSync
  <2> QED BY <2>4, <2>5
<1>24. ASSUME NEW t \in Tasks, AgentStart(t) PROVE TypeOK'
  <2> "running" \in Reports /\ Write(t, "running")
    BY <1>24 DEF AgentStart, Reports, Reports
  <2> QED BY <1>24, WriteFacts DEF AgentStart
<1>25. ASSUME NEW t \in Tasks, HostCrash(t) PROVE TypeOK'
  <2> "unknown" \in Reports /\ Write(t, "unknown")
    BY <1>25 DEF HostCrash, Reports, Reports
  <2> QED BY <1>25, WriteFacts DEF HostCrash
<1>26. ASSUME NEW t \in Tasks, NEW x \in Reports, AgentReport(t, x) PROVE TypeOK'
  <2> x \in Reports /\ Write(t, x)
    BY <1>26 DEF AgentReport, Reports
  <2> QED BY <1>26, WriteFacts DEF AgentReport
<1>27. ASSUME NEW t \in Tasks, NEW x \in Reports, AgentFinish(t, x) PROVE TypeOK'
  <2> x \in Reports /\ Write(t, x)
    BY <1>27 DEF AgentFinish, Reports
  <2> QED BY <1>27, WriteFacts DEF AgentFinish
<1>28. ASSUME NEW t \in Tasks, NEW x \in Reports, Reconcile(t, x) PROVE TypeOK'
  <2> x \in Reports /\ Write(t, x)
    BY <1>28 DEF Reconcile, Reports
  <2> QED BY <1>28, WriteFacts DEF Reconcile
<1>29. CASE UNCHANGED vars
  BY <1>29 DEF vars
<1> QED
  BY <1>1, <1>2, <1>3, <1>4, <1>5, <1>6, <1>7, <1>8, <1>9, <1>10, <1>11, <1>12, <1>12a,
     <1>13, <1>14, <1>15, <1>16, <1>17, <1>18, <1>19, <1>20, <1>21, <1>22, <1>23,
     <1>24, <1>25, <1>26, <1>27, <1>28, <1>29 DEF Next, Monitor, Environment,
     Agents

\* Frames still fit when ledgers grow, and when a handler takes up no new event.
LEMMA FramesKept ==
  ASSUME FramesFit, TypeOK, TypeOK',
         \A t \in Tasks : Len(ledger[t]) <= Len(ledger'[t]),
         \A h \in Hosts : inbox'[h] \in {inbox[h], NoFrame},
         \A h \in Hosts :
           \/ sync'[h] = sync[h]
           \/ /\ sync'[h].task = sync[h].task /\ sync'[h].last = sync[h].last
              /\ sync'[h].next >= 1
           \/ sync'[h].last = 0 /\ sync'[h].next >= 1
  PROVE  FramesFit'
<1>1. \A t \in Tasks : Len(ledger[t]) \in Nat /\ Len(ledger'[t]) \in Nat
  BY DEF TypeOK
<1>2. \A h \in Hosts : /\ inbox[h].last \in Nat /\ inbox[h].task \in Tasks \cup {None}
                       /\ sync[h].last \in Nat /\ sync[h].task \in Tasks \cup {None}
                       /\ sync'[h].task \in Tasks \cup {None}
  BY DEF TypeOK, SyncIdle
<1> SUFFICES ASSUME NEW h \in Hosts
    PROVE  /\ inbox'[h].first >= 1 /\ sync'[h].next >= 1
           /\ IF inbox'[h].task = None THEN inbox'[h].last = 0
                                       ELSE inbox'[h].last <= Len(ledger'[inbox'[h].task])
           /\ IF sync'[h].task = None THEN sync'[h].last = 0
                                      ELSE sync'[h].last <= Len(ledger'[sync'[h].task])
    BY DEF FramesFit
<1>3. /\ inbox'[h].first >= 1
      /\ IF inbox'[h].task = None THEN inbox'[h].last = 0
                                  ELSE inbox'[h].last <= Len(ledger'[inbox'[h].task])
  BY <1>1, <1>2 DEF FramesFit, NoFrame
<1>4. sync'[h].next >= 1
  BY DEF FramesFit
<1>5. IF sync'[h].task = None THEN sync'[h].last = 0
                              ELSE sync'[h].last <= Len(ledger'[sync'[h].task])
  BY <1>1, <1>2 DEF FramesFit
<1> QED BY <1>3, <1>4, <1>5

LEMMA FramesStep == Shape /\ [Next]_vars => FramesFit'
<1> SUFFICES ASSUME Shape, [Next]_vars PROVE FramesFit'
    OBVIOUS
<1> TypeOK'
    BY TypeStep
<1> USE NoneIsNew, BoundsAreNat, WillingIsBoolean DEF Shape, db, mem, net, agent
<1>1. ASSUME NEW r \in Requests, NEW h \in Hosts, CreateCheck(r, h) PROVE FramesFit'
  BY <1>1 DEF CreateCheck, TypeOK, FramesFit, SyncIdle, NoFrame
<1>2. ASSUME NEW r \in Requests, CreateExpire(r) PROVE FramesFit'
  BY <1>2 DEF CreateExpire, Expire, TypeOK, FramesFit, SyncIdle, NoFrame
<1>3. ASSUME NEW r \in Requests, CreateRefused(r) PROVE FramesFit'
  BY <1>3 DEF CreateRefused, TypeOK, FramesFit, SyncIdle, NoFrame
<1>4. ASSUME NEW r \in Requests, NEW t \in Tasks, CreateInsert(r, t) PROVE FramesFit'
  BY <1>4 DEF CreateInsert, TypeOK, FramesFit, SyncIdle, NoFrame
<1>5. ASSUME ListExpire PROVE FramesFit'
  BY <1>5 DEF ListExpire, Expire, TypeOK, FramesFit, SyncIdle, NoFrame
<1>6. ASSUME NEW h \in Hosts, SyncRead(h) PROVE FramesFit'
  BY <1>6 DEF SyncRead, Become, TypeOK, FramesFit, SyncIdle, NoFrame
<1>7. ASSUME NEW h \in Hosts, SyncApply(h) PROVE FramesFit'
  <2>1. sync[h] \in Busy /\ sync[h].next >= 1 /\ sync[h].next \in Nat
    BY <1>7 DEF SyncApply, Applying, Busy, TypeOK, FramesFit, SyncIdle
  <2>2. /\ sync'[h].task = sync[h].task /\ sync'[h].last = sync[h].last
        /\ sync'[h].next = sync[h].next + 1
        /\ \A g \in Hosts : g # h => sync'[g] = sync[g]
    BY <1>7, <2>1 DEF SyncApply, Become, Busy, TypeOK, SyncIdle
  <2>3. sync'[h].next >= 1
    BY <2>1, <2>2
  <2>4. UNCHANGED <<inbox, ledger>>
    BY <1>7 DEF SyncApply
  <2>5. \A t \in Tasks : Len(ledger[t]) <= Len(ledger'[t])
    BY <2>4 DEF TypeOK
  <2> QED BY <2>2, <2>3, <2>4, <2>5, FramesKept
<1>8. ASSUME NEW h \in Hosts, SyncSkip(h) PROVE FramesFit'
  <2>1. sync[h] \in Busy /\ sync[h].next >= 1 /\ sync[h].next \in Nat
    BY <1>8 DEF SyncSkip, Applying, Busy, TypeOK, FramesFit, SyncIdle
  <2>2. /\ sync'[h].task = sync[h].task /\ sync'[h].last = sync[h].last
        /\ sync'[h].next = sync[h].next + 1
        /\ \A g \in Hosts : g # h => sync'[g] = sync[g]
    BY <1>8, <2>1 DEF SyncSkip, Become, Busy, TypeOK, SyncIdle
  <2>3. sync'[h].next >= 1
    BY <2>1, <2>2
  <2>4. UNCHANGED <<inbox, ledger>>
    BY <1>8 DEF SyncSkip
  <2>5. \A t \in Tasks : Len(ledger[t]) <= Len(ledger'[t])
    BY <2>4 DEF TypeOK
  <2> QED BY <2>2, <2>3, <2>4, <2>5, FramesKept
<1>9. ASSUME NEW h \in Hosts, SyncApplied(h) PROVE FramesFit'
  <2>1. sync[h] \in Busy /\ sync[h].next >= 1 /\ sync[h].next \in Nat
    BY <1>9 DEF SyncApplied, Busy, TypeOK, FramesFit, SyncIdle
  <2>2. /\ sync'[h].last = 0 /\ sync'[h].next = 1
        /\ \A g \in Hosts : g # h => sync'[g] = sync[g]
    BY <1>9, <2>1 DEF SyncApplied, Become, Busy, TypeOK, SyncIdle
  <2>3. sync'[h].next >= 1
    BY <2>2
  <2>4. UNCHANGED <<inbox, ledger>>
    BY <1>9 DEF SyncApplied
  <2>5. \A t \in Tasks : Len(ledger[t]) <= Len(ledger'[t])
    BY <2>4 DEF TypeOK
  <2> QED BY <2>2, <2>3, <2>4, <2>5, FramesKept
<1>10. ASSUME NEW h \in Hosts, SyncExpire(h) PROVE FramesFit'
  <2>1. sync[h] \in Busy /\ sync[h].next >= 1 /\ sync[h].next \in Nat
    BY <1>10 DEF SyncExpire, Busy, TypeOK, FramesFit, SyncIdle
  <2>2. /\ sync'[h].task = sync[h].task /\ sync'[h].last = sync[h].last
        /\ sync'[h].next = sync[h].next
        /\ \A g \in Hosts : g # h => sync'[g] = sync[g]
    BY <1>10, <2>1 DEF SyncExpire, Become, Busy, TypeOK, SyncIdle
  <2>3. sync'[h].next >= 1
    BY <2>1, <2>2
  <2>4. UNCHANGED <<inbox, ledger>>
    BY <1>10 DEF SyncExpire
  <2>5. \A t \in Tasks : Len(ledger[t]) <= Len(ledger'[t])
    BY <2>4 DEF TypeOK
  <2> QED BY <2>2, <2>3, <2>4, <2>5, FramesKept
<1>11. ASSUME NEW h \in Hosts, SyncNoOffer(h) PROVE FramesFit'
  <2>1. sync[h] \in Busy /\ sync[h].next >= 1 /\ sync[h].next \in Nat
    BY <1>11 DEF SyncNoOffer, Busy, TypeOK, FramesFit, SyncIdle
  <2>2. /\ sync'[h].task = sync[h].task /\ sync'[h].last = sync[h].last
        /\ sync'[h].next = sync[h].next
        /\ \A g \in Hosts : g # h => sync'[g] = sync[g]
    BY <1>11, <2>1 DEF SyncNoOffer, Become, Busy, TypeOK, SyncIdle
  <2>3. sync'[h].next >= 1
    BY <2>1, <2>2
  <2>4. UNCHANGED <<inbox, ledger>>
    BY <1>11 DEF SyncNoOffer
  <2>5. \A t \in Tasks : Len(ledger[t]) <= Len(ledger'[t])
    BY <2>4 DEF TypeOK
  <2> QED BY <2>2, <2>3, <2>4, <2>5, FramesKept
<1>12. ASSUME NEW h \in Hosts, NEW t \in Tasks, SyncOffer(h, t) PROVE FramesFit'
  <2>1. sync[h] \in Busy /\ sync[h].next >= 1 /\ sync[h].next \in Nat
    BY <1>12 DEF SyncOffer, Busy, TypeOK, FramesFit, SyncIdle
  <2>2. /\ sync'[h].task = sync[h].task /\ sync'[h].last = sync[h].last
        /\ sync'[h].next = sync[h].next
        /\ \A g \in Hosts : g # h => sync'[g] = sync[g]
    BY <1>12, <2>1 DEF SyncOffer, Become, Busy, TypeOK, SyncIdle
  <2>3. sync'[h].next >= 1
    BY <2>1, <2>2
  <2>4. UNCHANGED <<inbox, ledger>>
    BY <1>12 DEF SyncOffer
  <2>5. \A u \in Tasks : Len(ledger[u]) <= Len(ledger'[u])
    BY <2>4 DEF TypeOK
  <2> QED BY <2>2, <2>3, <2>4, <2>5, FramesKept
<1>12a. ASSUME NEW h \in Hosts, NEW t \in Tasks, SyncOfferUnread(h, t) PROVE FramesFit'
  <2>1. sync[h] \in Busy /\ sync[h].next >= 1 /\ sync[h].next \in Nat
    BY <1>12a DEF SyncOfferUnread, Busy, TypeOK, FramesFit, SyncIdle
  <2>2. /\ sync'[h].task = sync[h].task /\ sync'[h].last = sync[h].last
        /\ sync'[h].next = sync[h].next
        /\ \A g \in Hosts : g # h => sync'[g] = sync[g]
    BY <1>12a, <2>1 DEF SyncOfferUnread, Become, Busy, TypeOK, SyncIdle
  <2>3. sync'[h].next >= 1
    BY <2>1, <2>2
  <2>4. UNCHANGED <<inbox, ledger>>
    BY <1>12a DEF SyncOfferUnread
  <2>5. \A u \in Tasks : Len(ledger[u]) <= Len(ledger'[u])
    BY <2>4 DEF TypeOK
  <2> QED BY <2>2, <2>3, <2>4, <2>5, FramesKept
<1>13. ASSUME NEW h \in Hosts, SyncReply(h) PROVE FramesFit'
  BY <1>13 DEF SyncReply, Become, TypeOK, FramesFit, SyncIdle, NoFrame
<1>14. ASSUME NEW h \in Hosts, SyncReplyFails(h) PROVE FramesFit'
  BY <1>14 DEF SyncReplyFails, Become, TypeOK, FramesFit, SyncIdle, NoFrame
<1>15. ASSUME NEW h \in Hosts, Connect(h) PROVE FramesFit'
  BY <1>15 DEF Connect, Forget, TypeOK, FramesFit, SyncIdle, NoFrame
<1>16. ASSUME NEW h \in Hosts, Disconnect(h) PROVE FramesFit'
  BY <1>16 DEF Disconnect, Forget, TypeOK, FramesFit, SyncIdle, NoFrame
<1>17. ASSUME NEW h \in Hosts, Delete(h) PROVE FramesFit'
  BY <1>17 DEF Delete, Forget, TypeOK, FramesFit, SyncIdle, NoFrame
<1>18. ASSUME NEW h \in Hosts, Break(h) PROVE FramesFit'
  BY <1>18 DEF Break, TypeOK, FramesFit, SyncIdle, NoFrame
<1>19. ASSUME ServerCrash PROVE FramesFit'
  BY <1>19 DEF ServerCrash, TypeOK, FramesFit, SyncIdle, NoFrame
<1>20. ASSUME NEW t \in Tasks, Age(t) PROVE FramesFit'
  BY <1>20 DEF Age, TypeOK, FramesFit, SyncIdle, NoFrame
<1>21. ASSUME NEW h \in Hosts, NEW b \in Willing, AgentPoll(h, b) PROVE FramesFit'
  BY <1>21 DEF AgentPoll, TypeOK, FramesFit, SyncIdle, NoFrame
<1>22. ASSUME NEW h \in Hosts, AgentReceive(h) PROVE FramesFit'
  <2>1. \A t \in Tasks : ledger'[t] = ledger[t] \/ (ledger[t] = <<>> /\ ledger'[t] = <<"accepted">>)
    BY <1>22 DEF AgentReceive, TypeOK
  <2>2. \A t \in Tasks : Len(ledger[t]) <= Len(ledger'[t])
    BY <2>1 DEF TypeOK
  <2>3. UNCHANGED <<inbox, sync>>
    BY <1>22 DEF AgentReceive
  <2> QED BY <2>2, <2>3, FramesKept
<1>23. ASSUME NEW h \in Hosts, NEW t \in Tasks, AgentSync(h, t) PROVE FramesFit'
  BY <1>23 DEF AgentSync, Least, TypeOK, FramesFit, SyncIdle, NoFrame
<1>24. ASSUME NEW t \in Tasks, AgentStart(t) PROVE FramesFit'
  <2>1. "running" \in Reports /\ Write(t, "running")
    BY <1>24 DEF AgentStart, Reports
  <2>2. \A u \in Tasks : Len(ledger[u]) <= Len(ledger'[u])
    BY <2>1, WriteFacts DEF TypeOK
  <2>3. UNCHANGED <<inbox, sync>>
    BY <1>24 DEF AgentStart
  <2> QED BY <2>2, <2>3, FramesKept
<1>25. ASSUME NEW t \in Tasks, HostCrash(t) PROVE FramesFit'
  <2>1. "unknown" \in Reports /\ Write(t, "unknown")
    BY <1>25 DEF HostCrash, Reports
  <2>2. \A u \in Tasks : Len(ledger[u]) <= Len(ledger'[u])
    BY <2>1, WriteFacts DEF TypeOK
  <2>3. UNCHANGED <<inbox, sync>>
    BY <1>25 DEF HostCrash
  <2> QED BY <2>2, <2>3, FramesKept
<1>26. ASSUME NEW t \in Tasks, NEW x \in Reports, AgentReport(t, x) PROVE FramesFit'
  <2>1. x \in Reports /\ Write(t, x)
    BY <1>26 DEF AgentReport, Reports
  <2>2. \A u \in Tasks : Len(ledger[u]) <= Len(ledger'[u])
    BY <2>1, WriteFacts DEF TypeOK
  <2>3. UNCHANGED <<inbox, sync>>
    BY <1>26 DEF AgentReport
  <2> QED BY <2>2, <2>3, FramesKept
<1>27. ASSUME NEW t \in Tasks, NEW x \in Reports, AgentFinish(t, x) PROVE FramesFit'
  <2>1. x \in Reports /\ Write(t, x)
    BY <1>27 DEF AgentFinish, Reports
  <2>2. \A u \in Tasks : Len(ledger[u]) <= Len(ledger'[u])
    BY <2>1, WriteFacts DEF TypeOK
  <2>3. UNCHANGED <<inbox, sync>>
    BY <1>27 DEF AgentFinish
  <2> QED BY <2>2, <2>3, FramesKept
<1>28. ASSUME NEW t \in Tasks, NEW x \in Reports, Reconcile(t, x) PROVE FramesFit'
  <2>1. x \in Reports /\ Write(t, x)
    BY <1>28 DEF Reconcile, Reports
  <2>2. \A u \in Tasks : Len(ledger[u]) <= Len(ledger'[u])
    BY <2>1, WriteFacts DEF TypeOK
  <2>3. UNCHANGED <<inbox, sync>>
    BY <1>28 DEF Reconcile
  <2> QED BY <2>2, <2>3, FramesKept
<1>29. CASE UNCHANGED vars
  BY <1>29 DEF vars, TypeOK, FramesFit, SyncIdle, NoFrame
<1> QED
  BY <1>1, <1>2, <1>3, <1>4, <1>5, <1>6, <1>7, <1>8, <1>9, <1>10, <1>11, <1>12, <1>12a,
     <1>13, <1>14, <1>15, <1>16, <1>17, <1>18, <1>19, <1>20, <1>21, <1>22, <1>23,
     <1>24, <1>25, <1>26, <1>27, <1>28, <1>29 DEF Next, Monitor, Environment,
     Agents

-----------------------------------------------------------------------------
(* One task at a time *)

LEMMA OneActiveStep == Shape /\ OneActiveTask /\ [Next]_vars => OneActiveTask'
<1> SUFFICES ASSUME Shape, OneActiveTask, [Next]_vars PROVE OneActiveTask'
    OBVIOUS
<1> USE DEF OneActiveTask, Active, db, mem, net, agent
<1>1. ASSUME NEW r \in Requests, NEW h \in Hosts, CreateCheck(r, h) PROVE OneActiveTask'
  BY <1>1 DEF CreateCheck
<1>2. ASSUME NEW r \in Requests, CreateExpire(r) PROVE OneActiveTask'
  <2>1. \A u \in Tasks : Active(u)' => Active(u)
    BY <1>2 DEF CreateExpire, Expire, Expires, Closed, Terminal
  <2> QED BY <1>2, <2>1 DEF CreateExpire
<1>3. ASSUME NEW r \in Requests, CreateRefused(r) PROVE OneActiveTask'
  BY <1>3 DEF CreateRefused
<1>4. ASSUME NEW r \in Requests, NEW t \in Tasks, CreateInsert(r, t) PROVE OneActiveTask'
  <2> DEFINE h == create[r].host
  <2>1. /\ \A u \in Tasks : u # t => status'[u] = status[u] /\ thost'[u] = thost[u]
        /\ thost'[t] = h
        /\ \A u \in Tasks : thost[u] = h => ~Active(u)
    BY <1>4 DEF CreateInsert, Conflict, Shape, TypeOK
  <2> QED BY <2>1
<1>5. ASSUME ListExpire PROVE OneActiveTask'
  <2>1. \A u \in Tasks : Active(u)' => Active(u)
    BY <1>5 DEF ListExpire, Expire, Expires, Closed, Terminal
  <2> QED BY <1>5, <2>1 DEF ListExpire
<1>6. ASSUME NEW h \in Hosts, SyncRead(h) PROVE OneActiveTask'
  BY <1>6 DEF SyncRead, Become
<1>7. ASSUME NEW h \in Hosts, SyncApply(h) PROVE OneActiveTask'
  <2>1. CASE UNCHANGED <<rows, status, lastSeq>>
    BY <1>7, <2>1 DEF SyncApply
  <2>2. CASE ~Duplicate(sync[h].task, sync[h].next)
    <3> DEFINE t == sync[h].task
    <3>1. t \in Tasks
      BY <1>7 DEF SyncApply, Applying, Shape, FramesFit, TypeOK, SyncIdle
    <3>2. Known(h, t, sync[h].next) /\ Extends(t, sync[h].next) /\ Record(t, sync[h].next)
      BY <1>7, <2>2 DEF SyncApply, Accepts
    <3>3. status' = [status EXCEPT ![t] = ledger[t][sync[h].next]]
      BY <3>2 DEF Record
    <3>4. status[t] \notin Closed \cup {"none"}
      BY <3>2 DEF Known, Extends, ValidTransition, Closed, Terminal
    <3>5. \A u \in Tasks : Active(u)' => Active(u)
      BY <3>1, <3>3, <3>4 DEF Shape, TypeOK
    <3> QED BY <1>7, <3>5 DEF SyncApply
  <2> QED BY <1>7, <2>1, <2>2 DEF SyncApply
<1>8. ASSUME NEW h \in Hosts, SyncSkip(h) PROVE OneActiveTask'
  BY <1>8 DEF SyncSkip, Become, Applying
<1>9. ASSUME NEW h \in Hosts, SyncApplied(h) PROVE OneActiveTask'
  BY <1>9 DEF SyncApplied, Become, Applying
<1>10. ASSUME NEW h \in Hosts, SyncExpire(h) PROVE OneActiveTask'
  <2>1. \A u \in Tasks : Active(u)' => Active(u)
    BY <1>10 DEF SyncExpire, Expire, Expires, Closed, Terminal
  <2> QED BY <1>10, <2>1 DEF SyncExpire
<1>11. ASSUME NEW h \in Hosts, SyncNoOffer(h) PROVE OneActiveTask'
  BY <1>11 DEF SyncNoOffer, Become
<1>12. ASSUME NEW h \in Hosts, NEW t \in Tasks, SyncOffer(h, t) PROVE OneActiveTask'
  <2>1. \A u \in Tasks : Active(u)' => Active(u)
    BY <1>12 DEF SyncOffer, Offerable, Shape, TypeOK, Closed, Terminal
  <2> QED BY <1>12, <2>1 DEF SyncOffer
<1>12a. ASSUME NEW h \in Hosts, NEW t \in Tasks, SyncOfferUnread(h, t) PROVE OneActiveTask'
  <2>1. \A u \in Tasks : Active(u)' => Active(u)
    BY <1>12a DEF SyncOfferUnread, Offerable, Shape, TypeOK, Closed, Terminal
  <2> QED BY <1>12a, <2>1 DEF SyncOfferUnread
<1>13. ASSUME NEW h \in Hosts, SyncReply(h) PROVE OneActiveTask'
  BY <1>13 DEF SyncReply, Become
<1>14. ASSUME NEW h \in Hosts, SyncReplyFails(h) PROVE OneActiveTask'
  BY <1>14 DEF SyncReplyFails, Become
<1>15. ASSUME NEW h \in Hosts, Connect(h) PROVE OneActiveTask'
  BY <1>15 DEF Connect, Forget
<1>16. ASSUME NEW h \in Hosts, Disconnect(h) PROVE OneActiveTask'
  BY <1>16 DEF Disconnect, Forget
<1>17. ASSUME NEW h \in Hosts, Delete(h) PROVE OneActiveTask'
  BY <1>17 DEF Delete, Forget
<1>18. ASSUME NEW h \in Hosts, Break(h) PROVE OneActiveTask'
  BY <1>18 DEF Break
<1>19. ASSUME ServerCrash PROVE OneActiveTask'
  BY <1>19 DEF ServerCrash
<1>20. ASSUME NEW t \in Tasks, Age(t) PROVE OneActiveTask'
  BY <1>20 DEF Age
<1>21. ASSUME NEW h \in Hosts, NEW b \in Willing, AgentPoll(h, b) PROVE OneActiveTask'
  BY <1>21 DEF AgentPoll
<1>22. ASSUME NEW h \in Hosts, AgentReceive(h) PROVE OneActiveTask'
  BY <1>22 DEF AgentReceive
<1>23. ASSUME NEW h \in Hosts, NEW t \in Tasks, AgentSync(h, t) PROVE OneActiveTask'
  BY <1>23 DEF AgentSync, Least
<1>24. ASSUME NEW t \in Tasks, AgentStart(t) PROVE OneActiveTask'
  BY <1>24 DEF AgentStart, Write
<1>25. ASSUME NEW t \in Tasks, HostCrash(t) PROVE OneActiveTask'
  BY <1>25 DEF HostCrash, Write
<1>26. ASSUME NEW t \in Tasks, NEW x \in Reports, AgentReport(t, x) PROVE OneActiveTask'
  BY <1>26 DEF AgentReport, Write
<1>27. ASSUME NEW t \in Tasks, NEW x \in Reports, AgentFinish(t, x) PROVE OneActiveTask'
  BY <1>27 DEF AgentFinish, Write, Terminal
<1>28. ASSUME NEW t \in Tasks, NEW x \in Reports, Reconcile(t, x) PROVE OneActiveTask'
  BY <1>28 DEF Reconcile, Write
<1>29. CASE UNCHANGED vars
  BY <1>29 DEF vars
<1> QED
  BY <1>1, <1>2, <1>3, <1>4, <1>5, <1>6, <1>7, <1>8, <1>9, <1>10, <1>11, <1>12, <1>12a,
     <1>13, <1>14, <1>15, <1>16, <1>17, <1>18, <1>19, <1>20, <1>21, <1>22, <1>23,
     <1>24, <1>25, <1>26, <1>27, <1>28, <1>29 DEF Next, Monitor, Environment,
     Agents

-----------------------------------------------------------------------------
(* What was offered is marked as delivered *)

\* Whatever an agent knows of, runs, or is being sent, was marked before.
Taken ==
  /\ \A t \in Tasks : ledger[t] # <<>> \/ t \in running => t \in delivered
  /\ \A h \in Hosts : {sync[h].offer, outbox[h].offer} \subseteq delivered \cup {None}

LEMMA TakenStep == Shape /\ Taken /\ [Next]_vars => Taken'
<1> SUFFICES ASSUME Shape, Taken, [Next]_vars PROVE Taken'
    OBVIOUS
<1> USE NoneIsNew DEF Taken, db, mem, net, agent
<1>1. ASSUME NEW r \in Requests, NEW h \in Hosts, CreateCheck(r, h) PROVE Taken'
  BY <1>1 DEF CreateCheck
<1>2. ASSUME NEW r \in Requests, CreateExpire(r) PROVE Taken'
  BY <1>2 DEF CreateExpire, Expire
<1>3. ASSUME NEW r \in Requests, CreateRefused(r) PROVE Taken'
  BY <1>3 DEF CreateRefused
<1>4. ASSUME NEW r \in Requests, NEW t \in Tasks, CreateInsert(r, t) PROVE Taken'
  BY <1>4 DEF CreateInsert
<1>5. ASSUME ListExpire PROVE Taken'
  BY <1>5 DEF ListExpire, Expire
<1>6. ASSUME NEW h \in Hosts, SyncRead(h) PROVE Taken'
  BY <1>6 DEF SyncRead, Become, Shape, TypeOK
<1>7. ASSUME NEW h \in Hosts, SyncApply(h) PROVE Taken'
  <2>1. /\ sync'[h].offer = sync[h].offer
        /\ \A g \in Hosts : g # h => sync'[g] = sync[g]
    BY <1>7 DEF SyncApply, Become, Applying, Expire, Busy, Shape, TypeOK, SyncIdle
  <2>2. UNCHANGED <<delivered, ledger, running, outbox>>
    BY <1>7 DEF SyncApply
  <2> QED BY <2>1, <2>2
<1>8. ASSUME NEW h \in Hosts, SyncSkip(h) PROVE Taken'
  <2>1. /\ sync'[h].offer = sync[h].offer
        /\ \A g \in Hosts : g # h => sync'[g] = sync[g]
    BY <1>8 DEF SyncSkip, Become, Applying, Expire, Busy, Shape, TypeOK, SyncIdle
  <2>2. UNCHANGED <<delivered, ledger, running, outbox>>
    BY <1>8 DEF SyncSkip
  <2> QED BY <2>1, <2>2
<1>9. ASSUME NEW h \in Hosts, SyncApplied(h) PROVE Taken'
  BY <1>9 DEF SyncApplied, SyncIdle, Become, Shape, TypeOK
<1>10. ASSUME NEW h \in Hosts, SyncExpire(h) PROVE Taken'
  <2>1. /\ sync'[h].offer = sync[h].offer
        /\ \A g \in Hosts : g # h => sync'[g] = sync[g]
    BY <1>10 DEF SyncExpire, Become, Applying, Expire, Busy, Shape, TypeOK, SyncIdle
  <2>2. UNCHANGED <<delivered, ledger, running, outbox>>
    BY <1>10 DEF SyncExpire
  <2> QED BY <2>1, <2>2
<1>11. ASSUME NEW h \in Hosts, SyncNoOffer(h) PROVE Taken'
  <2>1. /\ sync'[h].offer = sync[h].offer
        /\ \A g \in Hosts : g # h => sync'[g] = sync[g]
    BY <1>11 DEF SyncNoOffer, Become, Applying, Expire, Busy, Shape, TypeOK, SyncIdle
  <2>2. UNCHANGED <<delivered, ledger, running, outbox>>
    BY <1>11 DEF SyncNoOffer
  <2> QED BY <2>1, <2>2
<1>12. ASSUME NEW h \in Hosts, NEW t \in Tasks, SyncOffer(h, t) PROVE Taken'
  <2>1. /\ sync'[h].offer = t /\ \A g \in Hosts : g # h => sync'[g] = sync[g]
        /\ delivered' = delivered \cup {t}
    BY <1>12 DEF SyncOffer, Become, Busy, Shape, TypeOK, SyncIdle
  <2>2. UNCHANGED <<ledger, running, outbox>>
    BY <1>12 DEF SyncOffer
  <2> QED BY <2>1, <2>2
<1>12a. ASSUME NEW h \in Hosts, NEW t \in Tasks, SyncOfferUnread(h, t) PROVE Taken'
  <2>1. /\ sync'[h].offer = sync[h].offer /\ \A g \in Hosts : g # h => sync'[g] = sync[g]
        /\ delivered' = delivered \cup {t}
    BY <1>12a DEF SyncOfferUnread, Become, Busy, Shape, TypeOK, SyncIdle
  <2>2. UNCHANGED <<ledger, running, outbox>>
    BY <1>12a DEF SyncOfferUnread
  <2> QED BY <2>1, <2>2
<1>13. ASSUME NEW h \in Hosts, SyncReply(h) PROVE Taken'
  <2>1. /\ sync'[h].offer = None /\ \A g \in Hosts : g # h => sync'[g] = sync[g]
        /\ outbox'[h].offer = sync[h].offer /\ \A g \in Hosts : g # h => outbox'[g] = outbox[g]
    BY <1>13 DEF SyncReply, Become, SyncIdle, Shape, TypeOK
  <2>2. UNCHANGED <<delivered, ledger, running>>
    BY <1>13 DEF SyncReply
  <2> QED BY <2>1, <2>2
<1>14. ASSUME NEW h \in Hosts, SyncReplyFails(h) PROVE Taken'
  BY <1>14 DEF SyncReplyFails, SyncIdle, NoReply, Become, Shape, TypeOK
<1>15. ASSUME NEW h \in Hosts, Connect(h) PROVE Taken'
  BY <1>15 DEF Connect, Forget, NoReply, Shape, TypeOK
<1>16. ASSUME NEW h \in Hosts, Disconnect(h) PROVE Taken'
  BY <1>16 DEF Disconnect, Forget, NoReply, Shape, TypeOK
<1>17. ASSUME NEW h \in Hosts, Delete(h) PROVE Taken'
  BY <1>17 DEF Delete, Forget, NoReply, Shape, TypeOK
<1>18. ASSUME NEW h \in Hosts, Break(h) PROVE Taken'
  BY <1>18 DEF Break, NoReply, Shape, TypeOK
<1>19. ASSUME ServerCrash PROVE Taken'
  BY <1>19 DEF ServerCrash, SyncIdle, NoReply, Shape, TypeOK
<1>20. ASSUME NEW t \in Tasks, Age(t) PROVE Taken'
  BY <1>20 DEF Age
<1>21. ASSUME NEW h \in Hosts, NEW b \in Willing, AgentPoll(h, b) PROVE Taken'
  BY <1>21 DEF AgentPoll
<1>22. ASSUME NEW h \in Hosts, AgentReceive(h) PROVE Taken'
  BY <1>22 DEF AgentReceive, NoReply, Shape, TypeOK
<1>23. ASSUME NEW h \in Hosts, NEW t \in Tasks, AgentSync(h, t) PROVE Taken'
  BY <1>23 DEF AgentSync, Least
<1>24. ASSUME NEW t \in Tasks, AgentStart(t) PROVE Taken'
  <2>1. "running" \in Reports /\ Write(t, "running")
    BY <1>24 DEF AgentStart, Reports
  <2>2. \A u \in Tasks : u # t => ledger'[u] = ledger[u]
    BY <2>1, WriteFacts DEF Shape, TypeOK
  <2>3. t \in delivered /\ running' \subseteq running \cup {t} /\ UNCHANGED <<delivered, sync, outbox>>
    BY <1>24 DEF AgentStart
  <2> QED BY <2>2, <2>3
<1>25. ASSUME NEW t \in Tasks, HostCrash(t) PROVE Taken'
  <2>1. "unknown" \in Reports /\ Write(t, "unknown")
    BY <1>25 DEF HostCrash, Reports
  <2>2. \A u \in Tasks : u # t => ledger'[u] = ledger[u]
    BY <2>1, WriteFacts DEF Shape, TypeOK
  <2>3. t \in delivered /\ running' \subseteq running \cup {t} /\ UNCHANGED <<delivered, sync, outbox>>
    BY <1>25 DEF HostCrash
  <2> QED BY <2>2, <2>3
<1>26. ASSUME NEW t \in Tasks, NEW x \in Reports, AgentReport(t, x) PROVE Taken'
  <2>1. x \in Reports /\ Write(t, x)
    BY <1>26 DEF AgentReport, Reports
  <2>2. \A u \in Tasks : u # t => ledger'[u] = ledger[u]
    BY <2>1, WriteFacts DEF Shape, TypeOK
  <2>3. t \in delivered /\ running' \subseteq running \cup {t} /\ UNCHANGED <<delivered, sync, outbox>>
    BY <1>26 DEF AgentReport
  <2> QED BY <2>2, <2>3
<1>27. ASSUME NEW t \in Tasks, NEW x \in Reports, AgentFinish(t, x) PROVE Taken'
  <2>1. x \in Reports /\ Write(t, x)
    BY <1>27 DEF AgentFinish, Reports
  <2>2. \A u \in Tasks : u # t => ledger'[u] = ledger[u]
    BY <2>1, WriteFacts DEF Shape, TypeOK
  <2>3. t \in delivered /\ running' \subseteq running \cup {t} /\ UNCHANGED <<delivered, sync, outbox>>
    BY <1>27 DEF AgentFinish
  <2> QED BY <2>2, <2>3
<1>28. ASSUME NEW t \in Tasks, NEW x \in Reports, Reconcile(t, x) PROVE Taken'
  <2>1. x \in Reports /\ Write(t, x)
    BY <1>28 DEF Reconcile, Reports
  <2>2. \A u \in Tasks : u # t => ledger'[u] = ledger[u]
    BY <2>1, WriteFacts DEF Shape, TypeOK
  <2>3. t \in delivered /\ running' \subseteq running \cup {t} /\ UNCHANGED <<delivered, sync, outbox>>
    BY <1>28 DEF Reconcile
  <2> QED BY <2>2, <2>3
<1>29. CASE UNCHANGED vars
  BY <1>29 DEF vars
<1> QED
  BY <1>1, <1>2, <1>3, <1>4, <1>5, <1>6, <1>7, <1>8, <1>9, <1>10, <1>11, <1>12, <1>12a,
     <1>13, <1>14, <1>15, <1>16, <1>17, <1>18, <1>19, <1>20, <1>21, <1>22, <1>23,
     <1>24, <1>25, <1>26, <1>27, <1>28, <1>29 DEF Next, Monitor, Environment,
     Agents

\* An expired task was not marked.
Unsent == \A t \in Tasks : status[t] = "expired" => t \notin delivered

LEMMA UnsentStep == Shape /\ Unsent /\ [Next]_vars => Unsent'
<1> SUFFICES ASSUME Shape, Unsent, [Next]_vars PROVE Unsent'
    OBVIOUS
<1> USE DEF Unsent, db, mem, net, agent
<1>1. ASSUME NEW r \in Requests, NEW h \in Hosts, CreateCheck(r, h) PROVE Unsent'
  BY <1>1 DEF CreateCheck
<1>2. ASSUME NEW r \in Requests, CreateExpire(r) PROVE Unsent'
  BY <1>2 DEF CreateExpire, Expire, Expires
<1>3. ASSUME NEW r \in Requests, CreateRefused(r) PROVE Unsent'
  BY <1>3 DEF CreateRefused
<1>4. ASSUME NEW r \in Requests, NEW t \in Tasks, CreateInsert(r, t) PROVE Unsent'
  BY <1>4 DEF CreateInsert, Shape, TypeOK
<1>5. ASSUME ListExpire PROVE Unsent'
  BY <1>5 DEF ListExpire, Expire, Expires
<1>6. ASSUME NEW h \in Hosts, SyncRead(h) PROVE Unsent'
  BY <1>6 DEF SyncRead, Become
<1>7. ASSUME NEW h \in Hosts, SyncApply(h) PROVE Unsent'
  <2>1. CASE UNCHANGED <<rows, status, lastSeq>>
    BY <1>7, <2>1 DEF SyncApply
  <2>2. CASE ~Duplicate(sync[h].task, sync[h].next)
    <3> DEFINE t == sync[h].task
               s == sync[h]
    <3>1. t \in Tasks /\ s \in Busy /\ s.next <= s.last /\ s.next >= 1
          /\ s.last <= Len(ledger[t])
      BY <1>7 DEF SyncApply, Applying, Shape, FramesFit, TypeOK, SyncIdle, Busy
    <3>2. Known(h, t, s.next) /\ Extends(t, s.next) /\ Record(t, s.next)
      BY <1>7, <2>2 DEF SyncApply, Accepts
    <3>3. s.next \in Nat /\ s.last \in Nat /\ ledger[t] \in Seq(Reports)
      BY <3>1, BusyNext DEF Shape, TypeOK
    <3>4. ledger[t][s.next] \in Reports
      <4>1. Len(ledger[t]) \in Nat
        BY <3>3
      <4>2. s.next \in 1 .. Len(ledger[t])
        BY <3>1, <3>3, <4>1
      <4> QED BY <3>3, <4>2
    <3>5. status' = [status EXCEPT ![t] = ledger[t][s.next]]
      BY <3>2 DEF Record
    <3>6. UNCHANGED delivered
      BY <1>7 DEF SyncApply
    <3> QED BY <3>1, <3>4, <3>5, <3>6 DEF Shape, TypeOK, Reports
  <2> QED BY <1>7, <2>1, <2>2 DEF SyncApply
<1>8. ASSUME NEW h \in Hosts, SyncSkip(h) PROVE Unsent'
  BY <1>8 DEF SyncSkip, Become, Applying
<1>9. ASSUME NEW h \in Hosts, SyncApplied(h) PROVE Unsent'
  BY <1>9 DEF SyncApplied, Become, Applying
<1>10. ASSUME NEW h \in Hosts, SyncExpire(h) PROVE Unsent'
  BY <1>10 DEF SyncExpire, Expire, Expires
<1>11. ASSUME NEW h \in Hosts, SyncNoOffer(h) PROVE Unsent'
  BY <1>11 DEF SyncNoOffer, Become
<1>12. ASSUME NEW h \in Hosts, NEW t \in Tasks, SyncOffer(h, t) PROVE Unsent'
  BY <1>12 DEF SyncOffer, Offerable, Shape, TypeOK
<1>12a. ASSUME NEW h \in Hosts, NEW t \in Tasks, SyncOfferUnread(h, t) PROVE Unsent'
  BY <1>12a DEF SyncOfferUnread, Offerable, Shape, TypeOK
<1>13. ASSUME NEW h \in Hosts, SyncReply(h) PROVE Unsent'
  BY <1>13 DEF SyncReply, Become
<1>14. ASSUME NEW h \in Hosts, SyncReplyFails(h) PROVE Unsent'
  BY <1>14 DEF SyncReplyFails, Become
<1>15. ASSUME NEW h \in Hosts, Connect(h) PROVE Unsent'
  BY <1>15 DEF Connect, Forget
<1>16. ASSUME NEW h \in Hosts, Disconnect(h) PROVE Unsent'
  BY <1>16 DEF Disconnect, Forget
<1>17. ASSUME NEW h \in Hosts, Delete(h) PROVE Unsent'
  BY <1>17 DEF Delete, Forget
<1>18. ASSUME NEW h \in Hosts, Break(h) PROVE Unsent'
  BY <1>18 DEF Break
<1>19. ASSUME ServerCrash PROVE Unsent'
  BY <1>19 DEF ServerCrash
<1>20. ASSUME NEW t \in Tasks, Age(t) PROVE Unsent'
  BY <1>20 DEF Age
<1>21. ASSUME NEW h \in Hosts, NEW b \in Willing, AgentPoll(h, b) PROVE Unsent'
  BY <1>21 DEF AgentPoll
<1>22. ASSUME NEW h \in Hosts, AgentReceive(h) PROVE Unsent'
  BY <1>22 DEF AgentReceive
<1>23. ASSUME NEW h \in Hosts, NEW t \in Tasks, AgentSync(h, t) PROVE Unsent'
  BY <1>23 DEF AgentSync, Least
<1>24. ASSUME NEW t \in Tasks, AgentStart(t) PROVE Unsent'
  BY <1>24 DEF AgentStart, Write
<1>25. ASSUME NEW t \in Tasks, HostCrash(t) PROVE Unsent'
  BY <1>25 DEF HostCrash, Write
<1>26. ASSUME NEW t \in Tasks, NEW x \in Reports, AgentReport(t, x) PROVE Unsent'
  BY <1>26 DEF AgentReport, Write
<1>27. ASSUME NEW t \in Tasks, NEW x \in Reports, AgentFinish(t, x) PROVE Unsent'
  BY <1>27 DEF AgentFinish, Write, Terminal
<1>28. ASSUME NEW t \in Tasks, NEW x \in Reports, Reconcile(t, x) PROVE Unsent'
  BY <1>28 DEF Reconcile, Write
<1>29. CASE UNCHANGED vars
  BY <1>29 DEF vars
<1> QED
  BY <1>1, <1>2, <1>3, <1>4, <1>5, <1>6, <1>7, <1>8, <1>9, <1>10, <1>11, <1>12, <1>12a,
     <1>13, <1>14, <1>15, <1>16, <1>17, <1>18, <1>19, <1>20, <1>21, <1>22, <1>23,
     <1>24, <1>25, <1>26, <1>27, <1>28, <1>29 DEF Next, Monitor, Environment,
     Agents

-----------------------------------------------------------------------------
(* Theorems *)

IInv == Shape /\ OneActiveTask /\ Taken /\ Unsent

LEMMA InitIInv == Init => IInv
<1>1. Init => OneActiveTask /\ Unsent
  BY DEF Init, OneActiveTask, Active, Unsent
<1>2. Init => Taken
  BY DEF Init, Taken, SyncIdle, NoReply
<1> QED BY <1>1, <1>2, ShapeInit DEF IInv

LEMMA Invariance == Spec => []IInv
<1>1. IInv /\ [Next]_vars => IInv'
  BY TypeStep, FramesStep, OneActiveStep, TakenStep, UnsentStep DEF IInv, Shape
<1> QED BY InitIInv, <1>1, PTL DEF Spec

\* The tables, frames, handlers and ledgers have their types in every reachable
\* state.
THEOREM Typing == Spec => []TypeOK
BY Invariance, PTL DEF IInv, Shape

\* A host never has two unfinished tasks.
THEOREM OneAtATime == Spec => []OneActiveTask
BY Invariance, PTL DEF IInv

\* An expired task was never sent, is not on its way, and no agent knows it.
THEOREM ExpiredStaysUnsent == Spec => []ExpiredIsNeverExecuted
<1>1. IInv => ExpiredIsNeverExecuted
  BY NoneIsNew DEF IInv, Taken, Unsent, ExpiredIsNeverExecuted
<1> QED BY <1>1, Invariance, PTL

\* No step rewrites or loses an event, or changes a task that is closed.
THEOREM HistoryStays == Spec => HistoryIsFinal
<1> DEFINE Final == \A t \in Tasks : /\ rows[t] \subseteq rows'[t]
                                     /\ status[t] \in Closed => status'[t] = status[t]
<1>1. ASSUME Shape, [Next]_vars PROVE Final
  <2> USE <1>1 DEF db, mem, net, agent
  <2>1. ASSUME NEW r \in Requests, NEW h \in Hosts, CreateCheck(r, h) PROVE Final
    BY <2>1 DEF CreateCheck
  <2>2. ASSUME NEW r \in Requests, CreateExpire(r) PROVE Final
    BY <2>2 DEF CreateExpire, Expire, Expires, Closed, Terminal
  <2>3. ASSUME NEW r \in Requests, CreateRefused(r) PROVE Final
    BY <2>3 DEF CreateRefused
  <2>4. ASSUME NEW r \in Requests, NEW t \in Tasks, CreateInsert(r, t) PROVE Final
    BY <2>4 DEF CreateInsert, Closed, Terminal, Shape, TypeOK
  <2>5. ASSUME ListExpire PROVE Final
    BY <2>5 DEF ListExpire, Expire, Expires, Closed, Terminal
  <2>6. ASSUME NEW h \in Hosts, SyncRead(h) PROVE Final
    BY <2>6 DEF SyncRead, Become
  <2>7. ASSUME NEW h \in Hosts, SyncApply(h) PROVE Final
    <3>1. CASE UNCHANGED <<rows, status, lastSeq>>
      BY <3>1
    <3>2. CASE ~Duplicate(sync[h].task, sync[h].next)
      <4> DEFINE t == sync[h].task
      <4>1. Extends(t, sync[h].next) /\ Record(t, sync[h].next)
        BY <2>7, <3>2 DEF SyncApply, Accepts
      <4>2. status[t] \notin Closed
        BY <4>1 DEF Extends, ValidTransition, Closed, Terminal
      <4> QED BY <4>1, <4>2 DEF Record, Shape, TypeOK
    <3> QED BY <2>7, <3>1, <3>2 DEF SyncApply
  <2>8. ASSUME NEW h \in Hosts, SyncSkip(h) PROVE Final
    BY <2>8 DEF SyncSkip, Become, Applying
  <2>9. ASSUME NEW h \in Hosts, SyncApplied(h) PROVE Final
    BY <2>9 DEF SyncApplied, Become, Applying
  <2>10. ASSUME NEW h \in Hosts, SyncExpire(h) PROVE Final
    BY <2>10 DEF SyncExpire, Expire, Expires, Closed, Terminal
  <2>11. ASSUME NEW h \in Hosts, SyncNoOffer(h) PROVE Final
    BY <2>11 DEF SyncNoOffer, Become
  <2>12. ASSUME NEW h \in Hosts, NEW t \in Tasks, SyncOffer(h, t) PROVE Final
    BY <2>12 DEF SyncOffer, Offerable, Closed, Terminal, Shape, TypeOK
  <2>12a. ASSUME NEW h \in Hosts, NEW t \in Tasks, SyncOfferUnread(h, t) PROVE Final
    BY <2>12a DEF SyncOfferUnread, Offerable, Closed, Terminal, Shape, TypeOK
  <2>13. ASSUME NEW h \in Hosts, SyncReply(h) PROVE Final
    BY <2>13 DEF SyncReply, Become
  <2>14. ASSUME NEW h \in Hosts, SyncReplyFails(h) PROVE Final
    BY <2>14 DEF SyncReplyFails, Become
  <2>15. ASSUME NEW h \in Hosts, Connect(h) PROVE Final
    BY <2>15 DEF Connect, Forget
  <2>16. ASSUME NEW h \in Hosts, Disconnect(h) PROVE Final
    BY <2>16 DEF Disconnect, Forget
  <2>17. ASSUME NEW h \in Hosts, Delete(h) PROVE Final
    BY <2>17 DEF Delete, Forget
  <2>18. ASSUME NEW h \in Hosts, Break(h) PROVE Final
    BY <2>18 DEF Break
  <2>19. ASSUME ServerCrash PROVE Final
    BY <2>19 DEF ServerCrash
  <2>20. ASSUME NEW t \in Tasks, Age(t) PROVE Final
    BY <2>20 DEF Age
  <2>21. ASSUME NEW h \in Hosts, NEW b \in Willing, AgentPoll(h, b) PROVE Final
    BY <2>21 DEF AgentPoll
  <2>22. ASSUME NEW h \in Hosts, AgentReceive(h) PROVE Final
    BY <2>22 DEF AgentReceive
  <2>23. ASSUME NEW h \in Hosts, NEW t \in Tasks, AgentSync(h, t) PROVE Final
    BY <2>23 DEF AgentSync, Least
  <2>24. ASSUME NEW t \in Tasks, AgentStart(t) PROVE Final
    BY <2>24 DEF AgentStart, Write
  <2>25. ASSUME NEW t \in Tasks, HostCrash(t) PROVE Final
    BY <2>25 DEF HostCrash, Write
  <2>26. ASSUME NEW t \in Tasks, NEW x \in Reports, AgentReport(t, x) PROVE Final
    BY <2>26 DEF AgentReport, Write
  <2>27. ASSUME NEW t \in Tasks, NEW x \in Reports, AgentFinish(t, x) PROVE Final
    BY <2>27 DEF AgentFinish, Write, Terminal
  <2>28. ASSUME NEW t \in Tasks, NEW x \in Reports, Reconcile(t, x) PROVE Final
    BY <2>28 DEF Reconcile, Write
  <2>29. CASE UNCHANGED vars
    BY <2>29 DEF vars
  <2> QED
    BY <2>1, <2>2, <2>3, <2>4, <2>5, <2>6, <2>7, <2>8, <2>9, <2>10, <2>11, <2>12, <2>12a,
       <2>13, <2>14, <2>15, <2>16, <2>17, <2>18, <2>19, <2>20, <2>21, <2>22, <2>23,
       <2>24, <2>25, <2>26, <2>27, <2>28, <2>29 DEF Next, Monitor, Environment,
       Agents
<1> QED
  <2>1. IInv /\ [Next]_vars => [Final]_vars
    BY <1>1 DEF IInv
  <2> QED BY <2>1, Invariance, PTL DEF Spec, HistoryIsFinal

-----------------------------------------------------------------------------
(* The Monitor's record of a task agrees with what its host wrote down *)

\* An acknowledgement of a task names an event that is in the database.
Acknowledged(task, ack) == task # None => ack <= lastSeq[task]

AcksInv ==
  /\ AckedIsStored
  /\ \A h \in Hosts : /\ Acknowledged(sync[h].task, sync[h].ack)
                      /\ Acknowledged(outbox[h].task, outbox[h].ack)

\* The result of a task is the end of its log, and no executor goes on after it.
ResultIsLast ==
  \A t \in Tasks :
    /\ \A i \in 1 .. Len(ledger[t]) : ledger[t][i] \in Terminal => i = Len(ledger[t])
    /\ t \in running => ledger[t] # <<>> /\ Last(t) \notin Terminal

StoreInv == LogIsPrefix /\ StatusIsLastEvent /\ ResultIsLast

Sound == IInv /\ StoreInv /\ AcksInv

records == <<thost, status, delivered, lastSeq, rows>>

\* The host goes on with a task that it has accepted and not finished.
Works(t, x) ==
  /\ Write(t, x) /\ x # "accepted"
  /\ ledger[t] # <<>> /\ Last(t) \notin Terminal
  /\ running' \subseteq running \cup {t} /\ (x \in Terminal => t \notin running')
  /\ UNCHANGED <<records, acked>>

Expiry == Expire /\ UNCHANGED <<thost, delivered, lastSeq, rows, agent>>

\* What a step can do to the table, the events and the ledgers.
LEMMA Classes ==
  ASSUME Shape, ResultIsLast, [Next]_vars
  PROVE  \/ UNCHANGED <<records, agent>>
         \/ Expiry
         \/ \E r \in Requests, t \in Tasks : CreateInsert(r, t)
         \/ \E h \in Hosts : SyncApply(h) \/ AgentReceive(h)
         \/ \E h \in Hosts, t \in Tasks : SyncOffer(h, t) \/ SyncOfferUnread(h, t)
         \/ \E t \in Tasks, x \in Reports : Works(t, x)
<1> DEFINE Quiet == UNCHANGED <<records, agent>>
<1> USE DEF db, mem, net
<1>1. ASSUME NEW r \in Requests, (\E h \in Hosts : CreateCheck(r, h)) \/ CreateRefused(r)
      PROVE  Quiet
  BY <1>1 DEF CreateCheck, CreateRefused, records
<1>2. ASSUME NEW r \in Requests, CreateExpire(r) PROVE Expiry
  BY <1>2 DEF CreateExpire, Expiry
<1>3. CASE ListExpire
  BY <1>3 DEF ListExpire, Expiry
<1>4. ASSUME NEW h \in Hosts, SyncExpire(h) PROVE Expiry
  BY <1>4 DEF SyncExpire, Expiry
<1>5. ASSUME NEW h \in Hosts,
             \/ SyncRead(h) \/ SyncSkip(h) \/ SyncApplied(h) \/ SyncNoOffer(h)
             \/ SyncReply(h) \/ SyncReplyFails(h)
      PROVE  Quiet
  BY <1>5 DEF SyncRead, SyncSkip, SyncApplied, SyncNoOffer, SyncReply, SyncReplyFails, records
<1>6. ASSUME NEW h \in Hosts, Connect(h) \/ Disconnect(h) \/ Delete(h) \/ Break(h)
      PROVE  Quiet
  BY <1>6 DEF Connect, Disconnect, Delete, Break, records
<1>7. CASE ServerCrash \/ \E t \in Tasks : Age(t)
  BY <1>7 DEF ServerCrash, Age, records
<1>8. ASSUME NEW h \in Hosts,
             (\E b \in Willing : AgentPoll(h, b)) \/ \E t \in Tasks : AgentSync(h, t)
      PROVE  Quiet
  BY <1>8 DEF AgentPoll, AgentSync, records
<1>9. ASSUME NEW t \in Tasks, AgentStart(t) PROVE "running" \in Reports /\ Works(t, "running")
  BY <1>9 DEF AgentStart, Works, records, Reports, Terminal, Last
<1>10. ASSUME NEW t \in Tasks, HostCrash(t) PROVE "unknown" \in Reports /\ Works(t, "unknown")
  BY <1>10 DEF HostCrash, Works, Finished, records, Reports, Terminal
<1>11. ASSUME NEW t \in Tasks, NEW x \in Reports, AgentReport(t, x) PROVE Works(t, x)
  <2>1. ledger[t] # <<>> /\ Last(t) \notin Terminal
    BY <1>11 DEF AgentReport, ResultIsLast
  <2> QED
    BY <1>11, <2>1 DEF AgentReport, Works, records, Terminal
<1>12. ASSUME NEW t \in Tasks, NEW x \in Reports, AgentFinish(t, x) PROVE Works(t, x)
  <2>1. ledger[t] # <<>> /\ Last(t) \notin Terminal
    BY <1>12 DEF AgentFinish, ResultIsLast
  <2> QED
    BY <1>12, <2>1 DEF AgentFinish, Works, records, Terminal
<1>13. ASSUME NEW t \in Tasks, NEW x \in Reports, Reconcile(t, x) PROVE Works(t, x)
  BY <1>13 DEF Reconcile, Works, records, Terminal
<1>14. CASE UNCHANGED vars
  BY <1>14 DEF vars, records
<1> QED
  BY <1>1, <1>2, <1>3, <1>4, <1>5, <1>6, <1>7, <1>8, <1>9, <1>10, <1>11, <1>12, <1>13,
     <1>14 DEF Next, Monitor, Environment, Agents

\* The event a handler applies is one of the ledger; it is stored already, or stored
\* as the next one.
LEMMA ApplyFacts ==
  ASSUME Shape, NEW h \in Hosts, SyncApply(h)
  PROVE  LET t == sync[h].task
             n == sync[h].next
         IN  /\ t \in Tasks /\ n \in 1 .. Len(ledger[t]) /\ ledger[t][n] \in Reports
             /\ sync'[h].task = t /\ sync'[h].ack = n
             /\ \/ n <= lastSeq[t] /\ UNCHANGED <<rows, status, lastSeq>>
                \/ /\ n = lastSeq[t] + 1 /\ Record(t, n)
                   /\ status[t] \notin Closed \cup {"none"}
<1> DEFINE t == sync[h].task
           n == sync[h].next
<1>1. t \in Tasks /\ sync[h] \in Busy /\ n <= sync[h].last /\ n >= 1
      /\ sync[h].last <= Len(ledger[t])
  BY DEF SyncApply, Applying, Shape, FramesFit, TypeOK, SyncIdle, Busy
<1>2. n \in Nat /\ sync[h].last \in Nat /\ ledger[t] \in Seq(Reports)
  BY <1>1, BusyNext DEF Shape, TypeOK
<1>3. n \in 1 .. Len(ledger[t])
  <2>1. Len(ledger[t]) \in Nat
    BY <1>2
  <2> QED
    BY <1>1, <1>2, <2>1
<1>4. ledger[t][n] \in Reports
  BY <1>2, <1>3
<1>5. sync'[h].task = t /\ sync'[h].ack = n
  BY <1>1 DEF SyncApply, Become, Busy, Shape, TypeOK
<1>6. CASE Duplicate(t, n)
  BY <1>1, <1>3, <1>4, <1>5, <1>6 DEF SyncApply, Duplicate
<1>7. CASE ~Duplicate(t, n)
  <2>1. Known(h, t, n) /\ Extends(t, n) /\ Record(t, n)
    BY <1>7 DEF SyncApply, Accepts
  <2>2. status[t] \notin Closed \cup {"none"}
    BY <2>1 DEF Known, Extends, ValidTransition, Closed, Terminal
  <2> QED
    BY <1>1, <1>3, <1>4, <1>5, <2>1, <2>2 DEF Extends
<1> QED
  BY <1>6, <1>7

\* A table row that has no event tells so, and one that is closed by a result ends
\* its ledger.
LEMMA RowFacts ==
  ASSUME Shape, StoreInv, NEW t \in Tasks
  PROVE  /\ lastSeq[t] \in Nat /\ Len(ledger[t]) \in Nat /\ lastSeq[t] <= Len(ledger[t])
         /\ lastSeq[t] > 0 => status[t] = ledger[t][lastSeq[t]] /\ status[t] \in Reports
         /\ ledger[t] = <<>> => lastSeq[t] = 0
         /\ status[t] \in Terminal =>
              ledger[t] # <<>> /\ lastSeq[t] = Len(ledger[t]) /\ Last(t) \in Terminal
<1>1. /\ lastSeq[t] \in Nat /\ ledger[t] \in Seq(Reports) /\ Len(ledger[t]) \in Nat
      /\ lastSeq[t] <= Len(ledger[t])
  BY DEF Shape, TypeOK, StoreInv, LogIsPrefix
<1>2. ASSUME lastSeq[t] > 0 PROVE status[t] = ledger[t][lastSeq[t]] /\ status[t] \in Reports
  <2>1. <<lastSeq[t], status[t]>> \in {<<i, ledger[t][i]>> : i \in 1 .. lastSeq[t]}
    BY <1>2 DEF StoreInv, LogIsPrefix, StatusIsLastEvent
  <2>2. PICK i \in 1 .. lastSeq[t] : <<lastSeq[t], status[t]>> = <<i, ledger[t][i]>>
    BY <2>1
  <2>3. lastSeq[t] = i /\ status[t] = ledger[t][i]
    BY <2>2
  <2> QED
    BY <1>1, <1>2, <2>3
<1>3. ledger[t] = <<>> => lastSeq[t] = 0
  BY <1>1
<1>4. ASSUME status[t] \in Terminal
      PROVE  ledger[t] # <<>> /\ lastSeq[t] = Len(ledger[t]) /\ Last(t) \in Terminal
  <2>1. lastSeq[t] > 0
    BY <1>1, <1>4 DEF StoreInv, StatusIsLastEvent, Terminal
  <2>2. lastSeq[t] \in 1 .. Len(ledger[t]) /\ ledger[t][lastSeq[t]] \in Terminal
    BY <1>1, <1>2, <1>4, <2>1
  <2>3. lastSeq[t] = Len(ledger[t])
    BY <2>2 DEF StoreInv, ResultIsLast
  <2> QED
    BY <1>1, <2>1, <2>2, <2>3 DEF Last
<1> QED
  BY <1>1, <1>2, <1>3, <1>4

\* A step that writes an event to a ledger leaves what the Monitor has of it.
LEMMA LogStep ==
  ASSUME Shape, StoreInv, [Next]_vars
  PROVE  LogIsPrefix' /\ \A t \in Tasks : lastSeq[t] <= lastSeq'[t]
<1> DEFINE Stays(t) == lastSeq'[t] <= Len(ledger'[t])
                       /\ rows'[t] = {<<i, ledger'[t][i]>> : i \in 1 .. lastSeq'[t]}
                       /\ lastSeq[t] <= lastSeq'[t]
<1> SUFFICES ASSUME NEW t \in Tasks PROVE Stays(t)
    BY DEF LogIsPrefix
<1>1. /\ lastSeq[t] \in Nat /\ Len(ledger[t]) \in Nat /\ lastSeq[t] <= Len(ledger[t])
      /\ rows[t] = {<<i, ledger[t][i]>> : i \in 1 .. lastSeq[t]}
      /\ ledger[t] = <<>> => lastSeq[t] = 0
  BY RowFacts DEF StoreInv, LogIsPrefix
<1>2. ASSUME UNCHANGED <<rows, lastSeq>>, Len(ledger[t]) <= Len(ledger'[t]),
             \A i \in 1 .. Len(ledger[t]) : ledger'[t][i] = ledger[t][i],
             Len(ledger'[t]) \in Nat
      PROVE  Stays(t)
  <2>1. \A i \in 1 .. lastSeq[t] : ledger'[t][i] = ledger[t][i]
    BY <1>1, <1>2
  <2>2. {<<i, ledger[t][i]>> : i \in 1 .. lastSeq[t]}
          = {<<i, ledger'[t][i]>> : i \in 1 .. lastSeq[t]}
    BY <2>1
  <2> QED
    BY <1>1, <1>2, <2>2
<1>3. CASE UNCHANGED <<rows, lastSeq, ledger>>
  BY <1>1, <1>3
<1>4. ASSUME NEW h \in Hosts, SyncApply(h) PROVE Stays(t)
  <2> DEFINE u == sync[h].task
             n == sync[h].next
  <2>1. /\ u \in Tasks /\ n \in 1 .. Len(ledger[u]) /\ UNCHANGED ledger
        /\ \/ UNCHANGED <<rows, status, lastSeq>>
           \/ n = lastSeq[u] + 1 /\ Record(u, n)
    BY <1>4, ApplyFacts DEF SyncApply, agent
  <2>2. CASE UNCHANGED <<rows, status, lastSeq>>
    BY <1>3, <2>1, <2>2
  <2>3. CASE t # u /\ Record(u, n)
    BY <1>1, <2>1, <2>3 DEF Record, Shape, TypeOK
  <2>4. CASE t = u /\ n = lastSeq[u] + 1 /\ Record(u, n)
    <3>1. /\ rows'[t] = rows[t] \cup {<<n, ledger[t][n]>>} /\ lastSeq'[t] = n
      BY <2>1, <2>4 DEF Record, Shape, TypeOK
    <3>2. 1 .. n = (1 .. lastSeq[t]) \cup {n}
      BY <1>1, <2>4
    <3>3. {<<i, ledger[t][i]>> : i \in 1 .. n}
            = {<<i, ledger[t][i]>> : i \in 1 .. lastSeq[t]} \cup {<<n, ledger[t][n]>>}
      BY <3>2
    <3> QED
      BY <1>1, <2>1, <2>4, <3>1, <3>3
  <2> QED
    BY <2>1, <2>2, <2>3, <2>4
<1>5. ASSUME NEW h \in Hosts, AgentReceive(h) PROVE Stays(t)
  <2>1. /\ UNCHANGED <<rows, lastSeq>>
        /\ ledger'[t] = ledger[t] \/ (ledger[t] = <<>> /\ ledger'[t] = <<"accepted">>)
    BY <1>5 DEF AgentReceive, db
  <2>2. CASE ledger'[t] = ledger[t]
    BY <1>1, <2>1, <2>2
  <2>3. CASE ledger[t] = <<>> /\ ledger'[t] = <<"accepted">>
    BY <1>1, <2>1, <2>3
  <2> QED
    BY <2>1, <2>2, <2>3
<1>6. ASSUME NEW u \in Tasks, NEW x \in Reports, Works(u, x) PROVE Stays(t)
  <2>1. UNCHANGED <<rows, lastSeq>> /\ Write(u, x)
    BY <1>6 DEF Works, records
  <2>2. /\ Len(ledger[t]) <= Len(ledger'[t]) /\ ledger' \in [Tasks -> Seq(Reports)]
        /\ u # t => ledger'[t] = ledger[t]
        /\ u = t => \A i \in 1 .. Len(ledger[t]) : ledger'[t][i] = ledger[t][i]
    BY <2>1, WriteFacts DEF Shape, TypeOK
  <2>3. \A i \in 1 .. Len(ledger[t]) : ledger'[t][i] = ledger[t][i]
    BY <2>2
  <2>4. Len(ledger'[t]) \in Nat
    BY <2>2
  <2> QED
    BY <1>2, <2>1, <2>2, <2>3, <2>4
<1>7. ASSUME NEW r \in Requests, NEW u \in Tasks, CreateInsert(r, u)
      PROVE  UNCHANGED <<rows, lastSeq, ledger>>
  BY <1>7 DEF CreateInsert, agent
<1>8. ASSUME NEW h \in Hosts, NEW u \in Tasks, SyncOffer(h, u) \/ SyncOfferUnread(h, u)
      PROVE  UNCHANGED <<rows, lastSeq, ledger>>
  BY <1>8 DEF SyncOffer, SyncOfferUnread, agent
<1>9. CASE UNCHANGED <<records, agent>> \/ Expiry
  <2>1. UNCHANGED <<rows, lastSeq, ledger>>
    BY <1>9 DEF records, agent, Expiry
  <2> QED
    BY <1>3, <2>1
<1> QED
  BY <1>3, <1>4, <1>5, <1>6, <1>7, <1>8, <1>9, Classes DEF StoreInv

\* The status follows the last event.
LEMMA StatusStep ==
  ASSUME Shape, StoreInv, [Next]_vars
  PROVE  StatusIsLastEvent'
<1> DEFINE Tells(t) ==
      IF lastSeq'[t] > 0
        THEN <<lastSeq'[t], status'[t]>> \in rows'[t]
        ELSE /\ status'[t] \in {"none", "queued", "delivered", "expired"}
             /\ (t \in delivered') <=> (status'[t] = "delivered")
<1> SUFFICES ASSUME NEW t \in Tasks PROVE Tells(t)
    BY DEF StatusIsLastEvent
<1>1. /\ IF lastSeq[t] > 0
           THEN <<lastSeq[t], status[t]>> \in rows[t]
           ELSE /\ status[t] \in {"none", "queued", "delivered", "expired"}
                /\ (t \in delivered) <=> (status[t] = "delivered")
      /\ lastSeq[t] \in Nat /\ (lastSeq[t] > 0 => status[t] \in Reports)
  BY RowFacts DEF StoreInv, StatusIsLastEvent
<1>2. CASE UNCHANGED <<status, delivered, lastSeq, rows>>
  BY <1>1, <1>2
<1>3. CASE Expiry
  <2>1. UNCHANGED <<delivered, lastSeq, rows>>
    BY <1>3 DEF Expiry
  <2>2. CASE Expires(t)
    <3>1. status'[t] = "expired" /\ status[t] = "queued" /\ t \notin delivered
      BY <1>3, <2>2 DEF Expiry, Expire, Expires
    <3> QED
      BY <1>1, <2>1, <3>1 DEF Reports
  <2>3. CASE ~Expires(t)
    BY <1>1, <1>3, <2>1, <2>3 DEF Expiry, Expire
  <2> QED
    BY <2>2, <2>3
<1>4. ASSUME NEW r \in Requests, NEW u \in Tasks, CreateInsert(r, u) PROVE Tells(t)
  <2>1. /\ UNCHANGED <<delivered, lastSeq, rows>> /\ status[u] = "none"
        /\ status'[u] = "queued" /\ (t # u => status'[t] = status[t])
    BY <1>4 DEF CreateInsert, Shape, TypeOK
  <2> QED
    BY <1>1, <2>1 DEF Reports
<1>5. ASSUME NEW h \in Hosts, SyncApply(h) PROVE Tells(t)
  <2> DEFINE u == sync[h].task
             n == sync[h].next
  <2>1. /\ u \in Tasks /\ n \in 1 .. Len(ledger[u])
        /\ UNCHANGED <<rows, status, lastSeq>> \/ Record(u, n)
    BY <1>5, ApplyFacts
  <2>2. n \in Nat /\ n > 0 /\ UNCHANGED delivered
    BY <1>5, <2>1 DEF SyncApply
  <2>3. CASE Record(u, n) /\ t = u
    <3>1. /\ <<n, ledger[t][n]>> \in rows'[t] /\ lastSeq'[t] = n
          /\ status'[t] = ledger[t][n]
      BY <2>1, <2>3 DEF Record, Shape, TypeOK
    <3> QED
      BY <2>2, <3>1
  <2>4. CASE Record(u, n) /\ t # u
    BY <1>1, <2>2, <2>4 DEF Record, Shape, TypeOK
  <2> QED
    BY <1>2, <2>1, <2>2, <2>3, <2>4
<1>6. ASSUME NEW h \in Hosts, NEW u \in Tasks, SyncOffer(h, u) \/ SyncOfferUnread(h, u)
      PROVE  Tells(t)
  <2>1. /\ UNCHANGED <<lastSeq, rows>> /\ lastSeq[u] = 0
        /\ status'[u] = "delivered" /\ (t # u => status'[t] = status[t])
        /\ delivered' = delivered \cup {u}
    BY <1>6 DEF SyncOffer, SyncOfferUnread, Offerable, Shape, TypeOK
  <2> QED
    BY <1>1, <2>1
<1>7. CASE UNCHANGED <<records, agent>> \/ \E u \in Tasks, x \in Reports : Works(u, x)
  BY <1>2, <1>7 DEF records, Works
<1>8. ASSUME NEW h \in Hosts, AgentReceive(h) PROVE Tells(t)
  BY <1>2, <1>8 DEF AgentReceive, db
<1> QED
  BY <1>3, <1>4, <1>5, <1>6, <1>7, <1>8, Classes DEF StoreInv

\* Nothing is written after a result.
LEMMA ResultStep ==
  ASSUME Shape, StoreInv, [Next]_vars
  PROVE  ResultIsLast'
<1> DEFINE Ends(t) ==
      /\ \A i \in 1 .. Len(ledger'[t]) : ledger'[t][i] \in Terminal => i = Len(ledger'[t])
      /\ t \in running' => ledger'[t] # <<>> /\ ledger'[t][Len(ledger'[t])] \notin Terminal
<1> SUFFICES ASSUME NEW t \in Tasks PROVE Ends(t)
    BY DEF ResultIsLast, Last
<1>1. /\ \A i \in 1 .. Len(ledger[t]) : ledger[t][i] \in Terminal => i = Len(ledger[t])
      /\ t \in running => ledger[t] # <<>> /\ ledger[t][Len(ledger[t])] \notin Terminal
      /\ ledger[t] \in Seq(Reports) /\ Len(ledger[t]) \in Nat
  BY DEF StoreInv, ResultIsLast, Last, Shape, TypeOK
<1>2. CASE UNCHANGED <<ledger, running>>
  BY <1>1, <1>2
<1>3. ASSUME NEW h \in Hosts, AgentReceive(h) PROVE Ends(t)
  <2>1. /\ UNCHANGED running
        /\ ledger'[t] = ledger[t] \/ (ledger[t] = <<>> /\ ledger'[t] = <<"accepted">>)
    BY <1>3 DEF AgentReceive
  <2>2. CASE ledger'[t] = ledger[t]
    BY <1>1, <2>1, <2>2
  <2>3. CASE ledger[t] = <<>> /\ ledger'[t] = <<"accepted">>
    BY <1>1, <2>1, <2>3 DEF Terminal
  <2> QED
    BY <2>1, <2>2, <2>3
<1>4. ASSUME NEW u \in Tasks, NEW x \in Reports, Works(u, x) PROVE Ends(t)
  <2>1. /\ Write(u, x) /\ running' \subseteq running \cup {u}
        /\ x \in Terminal => u \notin running'
        /\ ledger[u] # <<>> /\ Last(u) \notin Terminal
    BY <1>4 DEF Works
  <2>2. /\ u # t => ledger'[t] = ledger[t]
        /\ u = t => /\ Len(ledger'[t]) = Len(ledger[t]) + 1
                    /\ \A i \in 1 .. Len(ledger[t]) : ledger'[t][i] = ledger[t][i]
                    /\ ledger'[t][Len(ledger[t]) + 1] = x
    BY <2>1, WriteFacts DEF Shape, TypeOK
  <2>3. CASE u # t
    BY <1>1, <2>1, <2>2, <2>3
  <2>4. CASE u = t
    <3>1. \A i \in 1 .. Len(ledger[t]) : ledger[t][i] \notin Terminal
      <4> SUFFICES ASSUME NEW i \in 1 .. Len(ledger[t]), ledger[t][i] \in Terminal
                   PROVE  FALSE
          OBVIOUS
      <4>1. i = Len(ledger[t])
        BY <1>1
      <4> QED
        BY <2>1, <2>4, <4>1 DEF Last
    <3>2. \A i \in 1 .. Len(ledger'[t]) : i \in 1 .. Len(ledger[t]) \/ i = Len(ledger[t]) + 1
      BY <1>1, <2>2, <2>4
    <3>3. \A i \in 1 .. Len(ledger'[t]) : ledger'[t][i] \in Terminal => i = Len(ledger'[t])
      BY <2>2, <2>4, <3>1, <3>2
    <3>4. ledger'[t] # <<>>
      BY <1>1, <2>2, <2>4
    <3> QED
      BY <2>1, <2>2, <2>4, <3>3, <3>4
  <2> QED
    BY <2>3, <2>4
<1>5. ASSUME NEW r \in Requests, NEW u \in Tasks, CreateInsert(r, u)
      PROVE  UNCHANGED <<ledger, running>>
  BY <1>5 DEF CreateInsert, agent
<1>6. ASSUME NEW h \in Hosts,
             SyncApply(h) \/ \E u \in Tasks : SyncOffer(h, u) \/ SyncOfferUnread(h, u)
      PROVE  UNCHANGED <<ledger, running>>
  BY <1>6 DEF SyncApply, SyncOffer, SyncOfferUnread, agent
<1>7. CASE UNCHANGED <<records, agent>> \/ Expiry
  <2>1. UNCHANGED <<ledger, running>>
    BY <1>7 DEF agent, Expiry
  <2> QED
    BY <1>2, <2>1
<1> QED
  BY <1>2, <1>3, <1>4, <1>5, <1>6, <1>7, Classes DEF StoreInv

\* A handler's acknowledgement is its last one, none, or that of the event it applies;
\* a reply carries its handler's.
LEMMA AckMoves ==
  ASSUME Shape, [Next]_vars, NEW h \in Hosts
  PROVE  /\ \/ sync'[h].task = sync[h].task /\ sync'[h].ack = sync[h].ack
            \/ sync'[h].task = None \/ sync'[h].ack = 0
            \/ SyncApply(h)
         /\ outbox'[h] \in {outbox[h], NoReply}
              \/ (outbox'[h].task = sync[h].task /\ outbox'[h].ack = sync[h].ack)
<1> DEFINE Moves ==
      /\ \/ sync'[h].task = sync[h].task /\ sync'[h].ack = sync[h].ack
         \/ sync'[h].task = None \/ sync'[h].ack = 0
         \/ SyncApply(h)
      /\ outbox'[h] \in {outbox[h], NoReply}
           \/ (outbox'[h].task = sync[h].task /\ outbox'[h].ack = sync[h].ack)
<1>1. CASE UNCHANGED <<sync, outbox>>
  BY <1>1
<1> USE DEF db, mem, net, agent
<1>2. ASSUME NEW r \in Requests,
             \/ CreateExpire(r) \/ CreateRefused(r) \/ (\E g \in Hosts : CreateCheck(r, g))
             \/ \E t \in Tasks : CreateInsert(r, t)
      PROVE  UNCHANGED <<sync, outbox>>
  BY <1>2 DEF CreateExpire, CreateRefused, CreateCheck, CreateInsert
<1>3. CASE ListExpire \/ (\E t \in Tasks : Age(t)) \/ UNCHANGED vars
  BY <1>1, <1>3 DEF ListExpire, Age, vars
<1>4. ASSUME NEW g \in Hosts, SyncRead(g) PROVE Moves
  BY <1>4 DEF SyncRead, Become, Shape, TypeOK
<1>5. ASSUME NEW g \in Hosts, SyncApply(g) PROVE Moves
  <2>1. (g # h => sync'[h] = sync[h]) /\ UNCHANGED outbox
    BY <1>5 DEF SyncApply, Become, Shape, TypeOK
  <2> QED
    BY <1>5, <2>1
<1>6. ASSUME NEW g \in Hosts, SyncSkip(g) PROVE Moves
  <2>1. sync[g] \in Busy
    BY <1>6 DEF SyncSkip, Applying, SyncIdle, Busy, Shape, TypeOK
  <2> QED
    BY <1>6, <2>1 DEF SyncSkip, Become, Busy, Shape, TypeOK
<1>7. ASSUME NEW g \in Hosts, SyncApplied(g) PROVE Moves
  <2>1. /\ sync'[g].ack = sync[g].ack
        /\ sync'[g].task = IF sync[g].ack > 0 THEN sync[g].task ELSE None
        /\ \A f \in Hosts : f # g => sync'[f] = sync[f]
    BY <1>7 DEF SyncApplied, Become, SyncIdle, Shape, TypeOK
  <2>2. UNCHANGED outbox
    BY <1>7 DEF SyncApplied
  <2> QED
    BY <2>1, <2>2
<1>8. ASSUME NEW g \in Hosts, SyncExpire(g) \/ SyncNoOffer(g) PROVE Moves
  <2>1. sync[g] \in Busy
    BY <1>8 DEF SyncExpire, SyncNoOffer, SyncIdle, Busy, Shape, TypeOK
  <2>2. /\ sync' = [sync EXCEPT ![g] = [sync[g] EXCEPT !.step = "offer"]]
           \/ sync' = [sync EXCEPT ![g] = [sync[g] EXCEPT !.step = "reply"]]
        /\ UNCHANGED outbox
    BY <1>8 DEF SyncExpire, SyncNoOffer, Become
  <2>3. CASE h # g
    BY <2>2, <2>3 DEF Shape, TypeOK
  <2>4. CASE h = g
    <3>1. sync'[g] \in {[sync[g] EXCEPT !.step = "offer"], [sync[g] EXCEPT !.step = "reply"]}
      BY <2>2, <2>4 DEF Shape, TypeOK
    <3> QED
      BY <2>1, <2>2, <2>4, <3>1 DEF Busy
  <2> QED
    BY <2>3, <2>4
<1>9. ASSUME NEW g \in Hosts, NEW t \in Tasks, SyncOffer(g, t) \/ SyncOfferUnread(g, t)
      PROVE  Moves
  <2>1. sync[g] \in Busy
    BY <1>9 DEF SyncOffer, SyncOfferUnread, SyncIdle, Busy, Shape, TypeOK
  <2>2. /\ sync' = [sync EXCEPT ![g] = [sync[g] EXCEPT !.step = "reply", !.offer = t]]
           \/ sync' = [sync EXCEPT ![g] = [sync[g] EXCEPT !.step = "reply"]]
        /\ UNCHANGED outbox
    BY <1>9 DEF SyncOffer, SyncOfferUnread, Become
  <2>3. CASE h # g
    BY <2>2, <2>3 DEF Shape, TypeOK
  <2>4. CASE h = g
    <3>1. sync'[g] \in {[sync[g] EXCEPT !.step = "reply", !.offer = t],
                     [sync[g] EXCEPT !.step = "reply"]}
      BY <2>2, <2>4 DEF Shape, TypeOK
    <3> QED
      BY <2>1, <2>2, <2>4, <3>1 DEF Busy
  <2> QED
    BY <2>3, <2>4
<1>10. ASSUME NEW g \in Hosts, SyncReply(g) PROVE Moves
  BY <1>10 DEF SyncReply, Become, SyncIdle, Shape, TypeOK
<1>11. ASSUME NEW g \in Hosts, SyncReplyFails(g) PROVE Moves
  BY <1>11 DEF SyncReplyFails, Become, SyncIdle, Shape, TypeOK
<1>12. ASSUME NEW g \in Hosts, Connect(g) \/ Disconnect(g) \/ Delete(g) \/ Break(g)
       PROVE  Moves
  BY <1>12 DEF Connect, Disconnect, Delete, Break, Forget, Shape, TypeOK
<1>13. CASE ServerCrash
  BY <1>13 DEF ServerCrash, SyncIdle
<1>14. ASSUME NEW g \in Hosts,
              (\E b \in Willing : AgentPoll(g, b)) \/ \E t \in Tasks : AgentSync(g, t)
       PROVE  UNCHANGED <<sync, outbox>>
  BY <1>14 DEF AgentPoll, AgentSync
<1>15. ASSUME NEW g \in Hosts, AgentReceive(g) PROVE Moves
  BY <1>15 DEF AgentReceive, Shape, TypeOK
<1>16. ASSUME NEW t \in Tasks,
              \/ AgentStart(t) \/ HostCrash(t)
              \/ \E x \in Reports : AgentReport(t, x) \/ AgentFinish(t, x) \/ Reconcile(t, x)
       PROVE  UNCHANGED <<sync, outbox>>
  BY <1>16 DEF AgentStart, HostCrash, AgentReport, AgentFinish, Reconcile
<1>17. Moves
  BY <1>1, <1>2, <1>3, <1>4, <1>5, <1>6, <1>7, <1>8, <1>9, <1>10, <1>11, <1>12, <1>13,
     <1>14, <1>15, <1>16 DEF Next, Monitor, Environment, Agents
<1> QED
  BY <1>17

\* Acknowledgements run after the events they name.
LEMMA AcksStep ==
  ASSUME Shape, Shape', StoreInv, AcksInv, [Next]_vars
  PROVE  AcksInv'
<1> USE DEF Shape, TypeOK
<1>1. /\ \A t \in Tasks : /\ lastSeq[t] \in Nat /\ lastSeq'[t] \in Nat
                          /\ lastSeq[t] <= lastSeq'[t]
      /\ \A t \in Tasks : acked[t] \in Nat /\ acked[t] <= lastSeq[t]
  BY LogStep DEF AcksInv, AckedIsStored
<1>2. ASSUME NEW task \in Tasks \cup {None}, NEW ack \in Nat, Acknowledged(task, ack)
      PROVE  task # None => ack <= lastSeq'[task]
  BY <1>1, <1>2 DEF Acknowledged
<1>3. \A h \in Hosts : /\ sync[h].task \in Tasks \cup {None} /\ sync[h].ack \in Nat
                       /\ outbox[h].task \in Tasks \cup {None} /\ outbox[h].ack \in Nat
                       /\ sync'[h].task \in Tasks \cup {None}
                       /\ outbox'[h].task \in Tasks \cup {None}
  BY DEF SyncIdle
<1>4. ASSUME NEW h \in Hosts PROVE sync'[h].task # None => sync'[h].ack <= lastSeq'[sync'[h].task]
  <2>1. CASE SyncApply(h)
    <3> DEFINE t == sync[h].task
               n == sync[h].next
    <3>1. /\ t \in Tasks /\ n \in 1 .. Len(ledger[t]) /\ sync'[h].task = t /\ sync'[h].ack = n
          /\ \/ n <= lastSeq[t]
             \/ Record(t, n)
      BY <2>1, ApplyFacts
    <3>2. Record(t, n) => lastSeq'[t] = n
      BY <3>1 DEF Record
    <3> QED
      BY <1>1, <3>1, <3>2
  <2>2. CASE sync'[h].task = sync[h].task /\ sync'[h].ack = sync[h].ack
    BY <1>2, <1>3, <2>2 DEF AcksInv
  <2>3. CASE sync'[h].task = None \/ sync'[h].ack = 0
    BY <1>1, <1>3, <2>3
  <2> QED
    BY <2>1, <2>2, <2>3, AckMoves
<1>5. ASSUME NEW h \in Hosts
      PROVE  outbox'[h].task # None => outbox'[h].ack <= lastSeq'[outbox'[h].task]
  <2>1. CASE outbox'[h] = outbox[h]
    BY <1>2, <1>3, <2>1 DEF AcksInv
  <2>2. CASE outbox'[h] = NoReply
    BY <2>2 DEF NoReply
  <2>3. CASE outbox'[h].task = sync[h].task /\ outbox'[h].ack = sync[h].ack
    BY <1>2, <1>3, <2>3 DEF AcksInv
  <2> QED
    BY <2>1, <2>2, <2>3, AckMoves
<1>6. ASSUME NEW t \in Tasks PROVE acked'[t] <= lastSeq'[t]
  <2>1. CASE UNCHANGED acked
    BY <1>1, <2>1
  <2>2. ASSUME NEW h \in Hosts, AgentReceive(h) PROVE acked'[t] <= lastSeq'[t]
    <3>1. acked'[t] = acked[t] \/ (outbox[h].task = t /\ acked'[t] = outbox[h].ack)
      BY <2>2 DEF AgentReceive
    <3>2. outbox[h].task = t => outbox[h].ack <= lastSeq'[t]
      BY <1>2, <1>3, NoneIsNew DEF AcksInv
    <3> QED
      BY <1>1, <3>1, <3>2
  <2>3. ASSUME NEW r \in Requests, NEW u \in Tasks, CreateInsert(r, u)
        PROVE  UNCHANGED acked
    BY <2>3 DEF CreateInsert, agent
  <2>4. ASSUME NEW h \in Hosts,
               SyncApply(h) \/ \E u \in Tasks : SyncOffer(h, u) \/ SyncOfferUnread(h, u)
        PROVE  UNCHANGED acked
    BY <2>4 DEF SyncApply, SyncOffer, SyncOfferUnread, agent
  <2>5. ASSUME \/ UNCHANGED <<records, agent>> \/ Expiry
               \/ \E u \in Tasks, x \in Reports : Works(u, x)
        PROVE  UNCHANGED acked
    BY <2>5 DEF agent, Expiry, Works
  <2> QED
    BY <2>1, <2>2, <2>3, <2>4, <2>5, Classes DEF StoreInv
<1> QED
  BY <1>4, <1>5, <1>6 DEF AcksInv, Acknowledged, AckedIsStored

LEMMA SoundInvariance == Spec => []Sound
<1>1. Init => StoreInv /\ AcksInv
  <2>1. Init => LogIsPrefix
    BY DEF Init, LogIsPrefix
  <2>2. Init => StatusIsLastEvent /\ ResultIsLast
    BY DEF Init, StatusIsLastEvent, ResultIsLast
  <2>3. Init => AcksInv
    BY DEF Init, AcksInv, AckedIsStored, Acknowledged, SyncIdle, NoReply
  <2> QED
    BY <2>1, <2>2, <2>3 DEF StoreInv
<1>2. Sound /\ [Next]_vars => Sound'
  <2> SUFFICES ASSUME Sound, [Next]_vars PROVE Sound'
      OBVIOUS
  <2>1. IInv'
    BY TypeStep, FramesStep, OneActiveStep, TakenStep, UnsentStep DEF Sound, IInv, Shape
  <2>2. StoreInv'
    BY LogStep, StatusStep, ResultStep DEF Sound, IInv, StoreInv
  <2>3. AcksInv'
    BY <2>1, AcksStep DEF Sound, IInv
  <2> QED
    BY <2>1, <2>2, <2>3 DEF Sound
<1> QED
  BY InitIInv, <1>1, <1>2, PTL DEF Spec, Sound

\* What the Monitor shows of a task, what it has acknowledged and what the host wrote
\* down never contradict.
THEOREM StoredHolds == Spec => []StoredEvents
<1>1. Sound => StoredEvents
  BY DEF Sound, StoreInv, AcksInv, StoredEvents
<1> QED
  BY <1>1, SoundInvariance, PTL

-----------------------------------------------------------------------------
(* Refinement *)

\* A task that its host knows is open, and every other task of the host has not been
\* taken on or is over.
LEMMA Alone ==
  ASSUME IInv, StoreInv, NEW t \in Tasks, t \in delivered, ledger[t] = <<>>
  PROVE  /\ Fate(t) = "open"
         /\ \A u \in Tasks : thost[u] = thost[t] => ledger[u] = <<>> \/ Promise!Over(u)
<1>1. status[t] = "delivered"
  <2>1. ~(lastSeq[t] > 0)
    BY RowFacts DEF IInv
  <2>2. (t \in delivered) <=> (status[t] = "delivered")
    BY <2>1, Zenon DEF StoreInv, StatusIsLastEvent
  <2> QED
    BY <2>2, Zenon
<1>2. Fate(t) = "open"
  BY <1>1 DEF Fate
<1> SUFFICES ASSUME NEW u \in Tasks, thost[u] = thost[t], ledger[u] # <<>>
             PROVE  Promise!Over(u)
    BY <1>2
<1>3. ~Active(u)
  BY <1>1 DEF IInv, OneActiveTask, Active, Closed, Terminal
<1>4. u \in delivered
  BY DEF IInv, Taken
<1>5. status[u] # "none"
  BY <1>4, RowFacts DEF StoreInv, StatusIsLastEvent, IInv, Reports
<1>6. status[u] # "expired"
  BY <1>4 DEF IInv, Unsent
<1>7. status[u] \in Terminal
  BY <1>3, <1>5, <1>6 DEF Active, Closed
<1> QED
  BY <1>7, RowFacts DEF IInv, Promise!Over, Promise!Results, Last, Terminal

\* A host's place is free in the promise when the table has no active task of it.
LEMMA PlaceIsFree ==
  ASSUME Shape, StoreInv, NEW u \in Tasks, ~Active(u)
  PROVE  ~Promise!Pending(u)
<1>1. CASE status[u] \in {"none", "expired"}
  BY <1>1 DEF Promise!Pending, Fate
<1>2. CASE status[u] \in Terminal
  BY <1>2, RowFacts
     DEF Promise!Pending, Promise!Resolved, Promise!Over, Promise!Results, Last, Terminal
<1> QED
  BY <1>1, <1>2 DEF Active, Closed

\* Sessions, batches, retries and crashes on both sides implement the promise: a
\* task is open, expires unseen or is worked on, and the Monitor learns its log entry
\* by entry.
THEOREM Refinement == Spec => KeepsPromise
<1>1. Init => Promise!Init
  BY DEF Init, Promise!Init, Fate
<1>2. Sound /\ [Next]_vars => [Promise!Next]_(Promise!vars)
  <2> SUFFICES ASSUME Sound, [Next]_vars PROVE Promise!Next \/ UNCHANGED Promise!vars
      OBVIOUS
  <2>0. Shape /\ IInv /\ StoreInv /\ TypeOK
    BY DEF Sound, IInv, Shape
  <2>1. CASE UNCHANGED <<records, agent>>
    BY <2>1 DEF records, agent, Promise!vars, Fate
  <2>2. CASE Expiry
    <3> DEFINE S == {t \in Tasks : Expires(t)}
    <3>1. \A t \in S : Fate(t) = "open" /\ ledger[t] = <<>>
      BY <2>0 DEF Expires, Fate, IInv, Taken
    <3>2. [t \in Tasks |-> Fate(t)]' = [t \in Tasks |-> IF t \in S THEN "expired" ELSE Fate(t)]
      BY <2>2 DEF Expiry, Expire, Fate
    <3>3. Promise!Expire(S)
      BY <2>2, <3>1, <3>2 DEF Expiry, agent, Promise!Expire
    <3> QED
      BY <3>3 DEF Promise!Next
  <2>3. ASSUME NEW r \in Requests, NEW t \in Tasks, CreateInsert(r, t) PROVE Promise!Next
    <3> DEFINE h == create[r].host
    <3>1. h \in Hosts
      BY <2>0, <2>3 DEF CreateInsert, TypeOK, CreateIdle
    <3>2. Fate(t) = "none"
      BY <2>3 DEF CreateInsert, Fate
    <3>3. \A u \in Tasks : thost[u] = h => ~Promise!Pending(u)
      BY <2>0, <2>3, PlaceIsFree DEF CreateInsert, Conflict
    <3>4. [u \in Tasks |-> Fate(u)]' = [[u \in Tasks |-> Fate(u)] EXCEPT ![t] = "open"]
      BY <2>0, <2>3 DEF CreateInsert, Fate, TypeOK
    <3>5. Promise!Submit(t, h)
      BY <2>3, <3>2, <3>3, <3>4 DEF CreateInsert, agent, Promise!Submit
    <3> QED
      BY <3>1, <3>5 DEF Promise!Next
  <2>4. ASSUME NEW h \in Hosts, SyncApply(h) PROVE Promise!Next \/ UNCHANGED Promise!vars
    <3> DEFINE t == sync[h].task
               n == sync[h].next
    <3>1. /\ t \in Tasks /\ n \in 1 .. Len(ledger[t]) /\ ledger[t][n] \in Reports
          /\ UNCHANGED <<thost, ledger>>
          /\ \/ UNCHANGED <<rows, status, lastSeq>>
             \/ n = lastSeq[t] + 1 /\ Record(t, n) /\ status[t] \notin Closed \cup {"none"}
      BY <2>0, <2>4, ApplyFacts DEF SyncApply, agent
    <3>2. CASE UNCHANGED <<rows, status, lastSeq>>
      BY <3>1, <3>2 DEF Promise!vars, Fate
    <3>3. CASE n = lastSeq[t] + 1 /\ Record(t, n) /\ status[t] \notin Closed \cup {"none"}
      <4>1. \A u \in Tasks : Fate(u)' = Fate(u)
        BY <2>0, <3>1, <3>3 DEF Record, Fate, TypeOK, Closed, Reports
      <4>2. lastSeq[t] < Len(ledger[t]) /\ lastSeq' = [lastSeq EXCEPT ![t] = lastSeq[t] + 1]
        BY <2>0, <3>1, <3>3 DEF Record, TypeOK
      <4>3. Promise!Learn(t)
        BY <3>1, <4>1, <4>2 DEF Promise!Learn
      <4> QED
        BY <3>1, <4>3 DEF Promise!Next
    <3> QED
      BY <3>1, <3>2, <3>3
  <2>5. ASSUME NEW h \in Hosts, NEW t \in Tasks, SyncOffer(h, t) \/ SyncOfferUnread(h, t)
        PROVE  UNCHANGED Promise!vars
    <3>1. /\ status' = [status EXCEPT ![t] = "delivered"]
          /\ status[t] \in {"queued", "delivered"} /\ UNCHANGED <<thost, lastSeq, ledger>>
      BY <2>5 DEF SyncOffer, SyncOfferUnread, Offerable, agent
    <3>2. \A u \in Tasks : Fate(u)' = Fate(u)
      BY <2>0, <3>1 DEF Fate, TypeOK
    <3> QED
      BY <3>1, <3>2 DEF Promise!vars
  <2>6. ASSUME NEW h \in Hosts, AgentReceive(h) PROVE Promise!Next \/ UNCHANGED Promise!vars
    <3> DEFINE t == outbox[h].offer
    <3>1. /\ UNCHANGED <<thost, status, lastSeq>>
          /\ ledger' = [u \in Tasks |-> IF u = t /\ ledger[u] = <<>>
                                          THEN <<"accepted">> ELSE ledger[u]]
      BY <2>6 DEF AgentReceive, db
    <3>2. [u \in Tasks |-> Fate(u)]' = [u \in Tasks |-> Fate(u)]
      BY <3>1 DEF Fate
    <3>3. CASE t \in Tasks /\ ledger[t] = <<>>
      <4>1. t \in delivered
        BY <2>0, <3>3, NoneIsNew DEF IInv, Taken
      <4>2. ledger' = [ledger EXCEPT ![t] = <<"accepted">>]
        BY <2>0, <3>1, <3>3 DEF TypeOK
      <4>3. /\ Fate(t) = "open"
            /\ \A u \in Tasks : thost[u] = thost[t] => ledger[u] = <<>> \/ Promise!Over(u)
        BY <2>0, <3>3, <4>1, Alone
      <4>4. Promise!Accept(t)
        BY <3>1, <3>2, <3>3, <4>2, <4>3 DEF Promise!Accept
      <4> QED
        BY <3>3, <4>4 DEF Promise!Next
    <3>4. CASE ~(t \in Tasks /\ ledger[t] = <<>>)
      <4>1. ledger' = ledger
        BY <2>0, <3>1, <3>4 DEF TypeOK
      <4> QED
        BY <3>1, <3>2, <4>1 DEF Promise!vars
    <3> QED
      BY <3>3, <3>4
  <2>7. ASSUME NEW t \in Tasks, NEW x \in Reports, Works(t, x) PROVE Promise!Next
    <3>1. /\ UNCHANGED <<thost, status, lastSeq>>
          /\ ledger' = [ledger EXCEPT ![t] = Append(@, x)]
          /\ ledger[t] # <<>> /\ Last(t) \notin Terminal /\ x # "accepted"
      BY <2>7 DEF Works, records, Write
    <3>2. [u \in Tasks |-> Fate(u)]' = [u \in Tasks |-> Fate(u)]
      BY <3>1 DEF Fate
    <3>3. Promise!Work(t, x)
      BY <3>1, <3>2 DEF Promise!Work, Promise!Over, Promise!Results, Last, Terminal
    <3>4. x \in Promise!Entries
      BY DEF Reports, Promise!Entries
    <3> QED
      BY <3>3, <3>4 DEF Promise!Next
  <2> QED
    BY <2>0, <2>1, <2>2, <2>3, <2>4, <2>5, <2>6, <2>7, Classes DEF StoreInv
<1> QED
  BY <1>1, <1>2, SoundInvariance, PTL DEF Spec, KeepsPromise, Promise!Spec
=============================================================================
