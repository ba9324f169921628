--------------------------- MODULE PresenceProofs ---------------------------
(***************************************************************************)
(* Presence, for every number of hosts, connections and timers: sessions,     *)
(* the published presence, and the accounting of offline notifications.       *)
(***************************************************************************)
EXTENDS Presence, TLAPS

\* What a holder of the write lock knows of its host.
HolderKnows ==
  \A c \in Conns :
    /\ pc[c] = "added" => owner[c] \in hosts /\ agents[owner[c]] = c
    /\ pc[c] = "removed" => /\ owner[c] \in hosts /\ agents[owner[c]] = None
                            /\ published[owner[c]] = "offline"

\* A timer is pending for a host that is offline, or that has just come back.
TimerMeaning ==
  \A h \in Hosts : timer[h] # None =>
    IF agents[h] = None THEN published[h] = "offline"
                        ELSE \E c \in Conns : pc[c] = "added" /\ owner[c] = h

\* An offline host has its timer or its announcement, or is about to.
OfflineOwed ==
  \A h \in hosts : published[h] = "offline" =>
    \/ timer[h] # None \/ announced[h] = "offline"
    \/ \E c \in Conns : pc[c] = "removed" /\ owner[c] = h

Registered == {"added", "ack", "loop", "dispatch", "exiting"}

SessionInv == NoGhostSession /\ RevokedIsOut /\ DispatchIsCurrent /\ PublishedIsPresence
AlarmInv   == /\ HolderKnows /\ TimerMeaning /\ OfflineOwed
              /\ DeletedIsSilent /\ deleting \cap hosts = {}

IInv == TypeOK /\ SessionInv /\ AlarmInv

LEMMA InitIInv == Init => IInv
BY NoneIsNew DEF Init, IInv, SessionInv, AlarmInv, TypeOK, Steps, NoSession, AllIdle, AllFree,
   NoNews, NoGhostSession, RevokedIsOut, DispatchIsCurrent, PublishedIsPresence,
   HolderKnows, TimerMeaning, OfflineOwed, DeletedIsSilent

\* Every step of the type-correct system leads to a type-correct state.
LEMMA TypeStep == TypeOK /\ [Next]_vars => TypeOK'
<1> SUFFICES ASSUME TypeOK, [Next]_vars PROVE TypeOK'
    OBVIOUS
<1> USE NoneIsNew DEF TypeOK, Steps, session, alarm
<1>1. ASSUME NEW c \in Conns, NEW h \in Hosts, LookUp(c, h) PROVE TypeOK'
  BY <1>1 DEF LookUp, Goto
<1>2. ASSUME NEW c \in Conns, Prove(c) PROVE TypeOK'
  BY <1>2 DEF Prove, Goto
<1>3. ASSUME NEW c \in Conns, RefuseProof(c) PROVE TypeOK'
  BY <1>3 DEF RefuseProof, Goto, End
<1>4. ASSUME NEW c \in Conns, RegisterRefused(c) PROVE TypeOK'
  BY <1>4 DEF RegisterRefused, Goto, End
<1>5. ASSUME NEW c \in Conns, RegisterFirst(c) PROVE TypeOK'
  BY <1>5 DEF RegisterFirst, Goto, AddAgent
<1>6. ASSUME NEW c \in Conns, RegisterReplacing(c) PROVE TypeOK'
  BY <1>6 DEF RegisterReplacing, Goto, AddAgent
<1>7. ASSUME NEW c \in Conns, Settle(c) PROVE TypeOK'
  BY <1>7 DEF Settle, Goto, Cancel, StopTimer
<1>8. ASSUME NEW c \in Conns, AckOk(c) PROVE TypeOK'
  BY <1>8 DEF AckOk, Goto
<1>9. ASSUME NEW c \in Conns, AckFails(c) PROVE TypeOK'
  BY <1>9 DEF AckFails, Goto
<1>10. ASSUME NEW c \in Conns, Dispatch(c) PROVE TypeOK'
  BY <1>10 DEF Dispatch, Goto
<1>11. ASSUME NEW c \in Conns, ReadStale(c) PROVE TypeOK'
  BY <1>11 DEF ReadStale, Goto
<1>12. ASSUME NEW c \in Conns, Dispatched(c) PROVE TypeOK'
  BY <1>12 DEF Dispatched, Goto
<1>13. ASSUME NEW c \in Conns, ReadFails(c) PROVE TypeOK'
  BY <1>13 DEF ReadFails, Goto
<1>14. ASSUME NEW c \in Conns, Remove(c) PROVE TypeOK'
  BY <1>14 DEF Remove, Goto
<1>15. ASSUME NEW c \in Conns, RemoveNothing(c) PROVE TypeOK'
  BY <1>15 DEF RemoveNothing, Goto, End
<1>16. ASSUME NEW c \in Conns, NEW t \in Timers, Schedule(c, t) PROVE TypeOK'
  BY <1>16 DEF Schedule, Goto, End, Arm
<1>17. ASSUME NEW c \in Conns, Drop(c) PROVE TypeOK'
  BY <1>17 DEF Drop
<1>18. ASSUME NEW t \in Timers, Fire(t) PROVE TypeOK'
  BY <1>18 DEF Fire
<1>19. ASSUME NEW t \in Timers, Callback(t) PROVE TypeOK'
  BY <1>19 DEF Callback
<1>20. ASSUME NEW h \in Hosts, Revoke(h) PROVE TypeOK'
  BY <1>20 DEF Revoke
<1>21. ASSUME NEW h \in Hosts, RevokeCancel(h) PROVE TypeOK'
  BY <1>21 DEF RevokeCancel, Cancel, StopTimer
<1>22. CASE Restart
  BY <1>22 DEF Restart, NoSession, AllIdle, AllFree, NoNews
<1>23. CASE UNCHANGED vars
  BY <1>23 DEF vars
<1> QED
  BY <1>1, <1>2, <1>3, <1>4, <1>5, <1>6, <1>7, <1>8, <1>9, <1>10, <1>11, <1>12,
     <1>13, <1>14, <1>15, <1>16, <1>17, <1>18, <1>19, <1>20, <1>21, <1>22, <1>23
     DEF Next, Handler

-----------------------------------------------------------------------------
(* Steps that touch one handler only, or none *)

Elsewhere(c) == \A d \in Conns \ {c} : pc'[d] = pc[d] /\ owner'[d] = owner[d]

Shared == <<hosts, agents, timer, deleting, published, announced>>

\* A step of one handler that changes nothing shared, neither takes nor gives up
\* the write lock, and does not make a registered handler leave.
LEMMA QuietStep ==
  ASSUME IInv, NEW c \in Conns, Elsewhere(c), UNCHANGED Shared,
         {pc[c], pc'[c]} \cap {"added", "removed"} = {},
         \A h \in Hosts : agents[h] = c => owner'[c] = owner[c] /\ pc'[c] \in Registered,
         pc'[c] = "dispatch" => owner'[c] \in Hosts /\ agents[owner'[c]] = c
  PROVE  (SessionInv /\ AlarmInv)'
<1>1. \A h \in Hosts : agents[h] \in Conns \cup {None}
  BY DEF IInv, TypeOK
<1> USE DEF IInv, SessionInv, AlarmInv, Elsewhere, Shared
<1>2. NoGhostSession'
  BY <1>1 DEF NoGhostSession, Registered
<1>3. RevokedIsOut' /\ DispatchIsCurrent' /\ PublishedIsPresence'
  BY NoneIsNew DEF RevokedIsOut, DispatchIsCurrent, PublishedIsPresence
<1>4. \A d \in Conns : \A step \in {"added", "removed"} :
        /\ (pc'[d] = step) <=> (pc[d] = step)
        /\ pc[d] = step => owner'[d] = owner[d]
  OBVIOUS
<1>5. HolderKnows' /\ TimerMeaning' /\ OfflineOwed'
  BY <1>4 DEF HolderKnows, TimerMeaning, OfflineOwed
<1>7. DeletedIsSilent' /\ (deleting \cap hosts = {})'
  BY DEF DeletedIsSilent
<1> QED BY <1>2, <1>3, <1>5, <1>7

\* The same for a step that leaves all handlers where they are.
LEMMA OutsideStep ==
  ASSUME IInv, UNCHANGED Shared, UNCHANGED <<pc, owner>>
  PROVE  (SessionInv /\ AlarmInv)'
BY DEF IInv, SessionInv, AlarmInv, Shared, NoGhostSession, RevokedIsOut, DispatchIsCurrent,
       PublishedIsPresence, HolderKnows, TimerMeaning, OfflineOwed, DeletedIsSilent

\* A connection that is not in a registered step is registered nowhere.
LEMMA NotRegistered ==
  ASSUME IInv, NEW c \in Conns, pc[c] \notin Registered
  PROVE  \A h \in Hosts : agents[h] # c
BY NoneIsNew DEF IInv, SessionInv, NoGhostSession, Registered

LEMMA QuietHandlers ==
  ASSUME IInv, NEW c \in Conns,
         \/ \E h \in Hosts : LookUp(c, h)
         \/ Prove(c) \/ RefuseProof(c) \/ RegisterRefused(c)
         \/ AckOk(c) \/ AckFails(c)
         \/ Dispatch(c) \/ ReadStale(c) \/ Dispatched(c) \/ ReadFails(c)
         \/ RemoveNothing(c)
  PROVE  (SessionInv /\ AlarmInv)'
<1> USE DEF IInv, TypeOK, Shared, Elsewhere, Goto, alarm, Registered
<1>1. ASSUME NEW h \in Hosts, LookUp(c, h) PROVE (SessionInv /\ AlarmInv)'
  <2>1. Elsewhere(c) /\ UNCHANGED Shared /\ pc[c] = "idle" /\ pc'[c] = "looked up"
    BY <1>1 DEF LookUp
  <2>2. \A g \in Hosts : agents[g] # c
    BY <2>1, NotRegistered
  <2> QED BY <2>1, <2>2, QuietStep
<1>2. CASE Prove(c)
  <2>1. Elsewhere(c) /\ UNCHANGED Shared /\ pc[c] = "looked up" /\ pc'[c] = "proved"
    BY <1>2 DEF Prove
  <2>2. \A g \in Hosts : agents[g] # c
    BY <2>1, NotRegistered
  <2> QED BY <2>1, <2>2, QuietStep
<1>3. CASE RefuseProof(c)
  <2>1. Elsewhere(c) /\ UNCHANGED Shared /\ pc[c] = "looked up" /\ pc'[c] = "idle"
    BY <1>3 DEF RefuseProof, End
  <2>2. \A g \in Hosts : agents[g] # c
    BY <2>1, NotRegistered
  <2> QED BY <2>1, <2>2, QuietStep
<1>4. CASE RegisterRefused(c)
  <2>1. Elsewhere(c) /\ UNCHANGED Shared /\ pc[c] = "proved" /\ pc'[c] = "idle"
    BY <1>4 DEF RegisterRefused, End
  <2>2. \A g \in Hosts : agents[g] # c
    BY <2>1, NotRegistered
  <2> QED BY <2>1, <2>2, QuietStep
<1>5. CASE AckOk(c)
  <2>1. Elsewhere(c) /\ UNCHANGED Shared /\ pc[c] = "ack" /\ pc'[c] = "loop" /\ owner' = owner
    BY <1>5 DEF AckOk
  <2> QED BY <2>1, QuietStep
<1>6. CASE AckFails(c)
  <2>1. Elsewhere(c) /\ UNCHANGED Shared /\ pc[c] = "ack" /\ pc'[c] = "exiting" /\ owner' = owner
    BY <1>6 DEF AckFails
  <2> QED BY <2>1, QuietStep
<1>7. CASE Dispatch(c)
  <2>1. /\ Elsewhere(c) /\ UNCHANGED Shared /\ pc[c] = "loop" /\ pc'[c] = "dispatch"
        /\ owner' = owner /\ owner[c] \in Hosts /\ agents[owner[c]] = c
    BY <1>7 DEF Dispatch, Current
  <2> QED BY <2>1, QuietStep
<1>8. CASE ReadStale(c)
  <2>1. Elsewhere(c) /\ UNCHANGED Shared /\ pc[c] = "loop" /\ pc'[c] = "exiting" /\ owner' = owner
    BY <1>8 DEF ReadStale
  <2> QED BY <2>1, QuietStep
<1>9. CASE Dispatched(c)
  <2>1. Elsewhere(c) /\ UNCHANGED Shared /\ pc[c] = "dispatch" /\ pc'[c] = "loop" /\ owner' = owner
    BY <1>9 DEF Dispatched
  <2> QED BY <2>1, QuietStep
<1>10. CASE ReadFails(c)
  <2>1. Elsewhere(c) /\ UNCHANGED Shared /\ pc[c] = "loop" /\ pc'[c] = "exiting" /\ owner' = owner
    BY <1>10 DEF ReadFails
  <2> QED BY <2>1, QuietStep
<1>11. CASE RemoveNothing(c)
  <2>1. /\ Elsewhere(c) /\ UNCHANGED Shared /\ pc[c] = "exiting" /\ pc'[c] = "idle"
        /\ agents[owner[c]] # c
    BY <1>11 DEF RemoveNothing, RemovesAgent, End
  <2>2. \A h \in Hosts : agents[h] # c
    BY <2>1, NoneIsNew DEF SessionInv, NoGhostSession
  <2> QED BY <2>1, <2>2, QuietStep
<1> QED
  BY <1>1, <1>2, <1>3, <1>4, <1>5, <1>6, <1>7, <1>8, <1>9, <1>10, <1>11

-----------------------------------------------------------------------------
(* Steps that register, remove, announce or delete *)

LEMMA RegisterFirstStep ==
  ASSUME IInv, NEW c \in Conns, RegisterFirst(c)
  PROVE  (SessionInv /\ AlarmInv)'
<1> DEFINE h == owner[c]
<1>1. /\ h \in hosts /\ h \in Hosts /\ agents[h] = None /\ pc[c] = "proved"
      /\ \A d \in Conns : pc[d] \notin {"added", "removed", "dispatch"}
  BY DEF IInv, TypeOK, RegisterFirst, Revoked, MayLock, ReadLocked, WriteLocked
<1>2. /\ agents' = [agents EXCEPT ![h] = c] /\ published' = [published EXCEPT ![h] = "online"]
      /\ pc'[c] = "added" /\ \A d \in Conns : d # c => pc'[d] = pc[d]
      /\ UNCHANGED <<hosts, owner, timer, deleting, announced>>
  BY DEF IInv, TypeOK, RegisterFirst, AddAgent, Goto, alarm
<1>3. \A g \in Hosts : agents[g] # c
  BY <1>1, NotRegistered DEF Registered
<1>4. /\ agents'[h] = c /\ published'[h] = "online"
      /\ \A g \in Hosts : g # h => agents'[g] = agents[g] /\ published'[g] = published[g]
      /\ \A g \in Hosts : agents[g] \in Conns \cup {None}
      /\ hosts \subseteq Hosts
  BY <1>1, <1>2 DEF IInv, TypeOK
<1> HIDE DEF h
<1> USE DEF IInv, SessionInv, AlarmInv
<1>5. NoGhostSession'
  BY <1>1, <1>2, <1>3, <1>4, NoneIsNew DEF NoGhostSession, h
<1>6. RevokedIsOut' /\ DispatchIsCurrent'
  BY <1>1, <1>2, <1>4 DEF RevokedIsOut, DispatchIsCurrent
<1>7. PublishedIsPresence'
  BY <1>1, <1>2, <1>4, NoneIsNew DEF PublishedIsPresence
<1>8. HolderKnows'
  BY <1>1, <1>2, <1>4 DEF HolderKnows, h
<1>9. TimerMeaning'
  <2> SUFFICES ASSUME NEW g \in Hosts, timer[g] # None
               PROVE  IF agents'[g] = None THEN published'[g] = "offline"
                        ELSE \E d \in Conns : pc'[d] = "added" /\ owner'[d] = g
      BY <1>2 DEF TimerMeaning
  <2>1. agents[g] = None /\ published[g] = "offline"
    BY <1>1 DEF TimerMeaning
  <2>2. CASE g = h
    BY <2>2, <1>2, <1>4, NoneIsNew DEF h
  <2>3. CASE g # h
    BY <2>1, <2>3, <1>4
  <2> QED BY <2>2, <2>3
<1>10. OfflineOwed'
  BY <1>1, <1>2, <1>4 DEF OfflineOwed
<1>11. DeletedIsSilent' /\ (deleting \cap hosts = {})'
  BY <1>2 DEF DeletedIsSilent
<1> QED BY <1>5, <1>6, <1>7, <1>8, <1>9, <1>10, <1>11

LEMMA RegisterReplacingStep ==
  ASSUME IInv, NEW c \in Conns, RegisterReplacing(c)
  PROVE  (SessionInv /\ AlarmInv)'
<1> DEFINE h == owner[c]
<1>1. /\ h \in hosts /\ h \in Hosts /\ agents[h] # None /\ pc[c] = "proved"
      /\ \A d \in Conns : pc[d] \notin {"added", "removed", "dispatch"}
  BY DEF IInv, TypeOK, RegisterReplacing, Revoked, MayLock, ReadLocked, WriteLocked
<1>2. /\ agents' = [agents EXCEPT ![h] = c]
      /\ pc'[c] = "ack" /\ \A d \in Conns : d # c => pc'[d] = pc[d]
      /\ UNCHANGED <<hosts, owner, timer, deleting, published, announced>>
  BY DEF IInv, TypeOK, RegisterReplacing, AddAgent, Goto, alarm
<1>3. \A g \in Hosts : agents[g] # c
  BY <1>1, NotRegistered DEF Registered
<1>4. /\ agents'[h] = c /\ \A g \in Hosts : g # h => agents'[g] = agents[g]
      /\ \A g \in Hosts : agents[g] \in Conns \cup {None}
      /\ hosts \subseteq Hosts
  BY <1>1, <1>2 DEF IInv, TypeOK
<1> HIDE DEF h
<1> USE DEF IInv, SessionInv, AlarmInv
<1>5. NoGhostSession'
  BY <1>1, <1>2, <1>3, <1>4, NoneIsNew DEF NoGhostSession, h
<1>6. RevokedIsOut' /\ DispatchIsCurrent'
  BY <1>1, <1>2, <1>4 DEF RevokedIsOut, DispatchIsCurrent
<1>7. PublishedIsPresence'
  BY <1>1, <1>2, <1>4, NoneIsNew DEF PublishedIsPresence
<1>8. HolderKnows'
  BY <1>1, <1>2 DEF HolderKnows
<1>9. TimerMeaning'
  <2> SUFFICES ASSUME NEW g \in Hosts, timer[g] # None
               PROVE  agents'[g] = None /\ published'[g] = "offline"
      BY <1>2 DEF TimerMeaning
  <2>1. agents[g] = None /\ published[g] = "offline"
    BY <1>1 DEF TimerMeaning
  <2> QED BY <2>1, <1>1, <1>2, <1>4
<1>10. OfflineOwed'
  BY <1>1, <1>2 DEF OfflineOwed
<1>11. DeletedIsSilent' /\ (deleting \cap hosts = {})'
  BY <1>2 DEF DeletedIsSilent
<1> QED BY <1>5, <1>6, <1>7, <1>8, <1>9, <1>10, <1>11

LEMMA SettleStep ==
  ASSUME IInv, NEW c \in Conns, Settle(c)
  PROVE  (SessionInv /\ AlarmInv)'
<1> DEFINE h == owner[c]
<1>1. h \in hosts /\ h \in Hosts /\ agents[h] = c /\ pc[c] = "added"
  BY DEF IInv, TypeOK, AlarmInv, HolderKnows, Settle
<1>2. /\ pc'[c] = "ack" /\ \A d \in Conns : d # c => pc'[d] = pc[d]
      /\ timer' = [timer EXCEPT ![h] = None]
      /\ \A g \in Hosts : g # h => announced'[g] = announced[g]
      /\ UNCHANGED <<hosts, agents, owner, deleting, published>>
  BY DEF IInv, TypeOK, Settle, Goto, Cancel
<1>3. /\ timer'[h] = None /\ \A g \in Hosts : g # h => timer'[g] = timer[g]
      /\ \A g \in Hosts : agents[g] \in Conns \cup {None}
      /\ hosts \subseteq Hosts
  BY <1>1, <1>2 DEF IInv, TypeOK
<1>4. published[h] = "online"
  BY <1>1, NoneIsNew DEF IInv, SessionInv, PublishedIsPresence
<1> HIDE DEF h
<1> USE DEF IInv, SessionInv, AlarmInv
<1>5. NoGhostSession'
  BY <1>2, <1>3 DEF NoGhostSession
<1>6. RevokedIsOut' /\ DispatchIsCurrent' /\ PublishedIsPresence'
  BY <1>2 DEF RevokedIsOut, DispatchIsCurrent, PublishedIsPresence
<1>7. HolderKnows'
  BY <1>2 DEF HolderKnows
<1>8. TimerMeaning'
  BY <1>2, <1>3 DEF TimerMeaning, h
<1>9. OfflineOwed'
  BY <1>1, <1>2, <1>3, <1>4 DEF OfflineOwed
<1>10. DeletedIsSilent' /\ (deleting \cap hosts = {})'
  BY <1>2, <1>3 DEF DeletedIsSilent
<1> QED BY <1>5, <1>6, <1>7, <1>8, <1>9, <1>10

LEMMA RemoveStep ==
  ASSUME IInv, NEW c \in Conns, Remove(c)
  PROVE  (SessionInv /\ AlarmInv)'
<1> DEFINE h == owner[c]
<1>1. /\ h \in Hosts /\ agents[h] = c /\ pc[c] = "exiting"
      /\ \A d \in Conns : pc[d] \notin {"added", "removed", "dispatch"}
  BY DEF IInv, TypeOK, Remove, RemovesAgent, MayLock, ReadLocked, WriteLocked
<1>2. /\ agents' = [agents EXCEPT ![h] = None]
      /\ published' = [published EXCEPT ![h] = "offline"]
      /\ pc'[c] = "removed" /\ \A d \in Conns : d # c => pc'[d] = pc[d]
      /\ UNCHANGED <<hosts, owner, timer, deleting, announced>>
  BY DEF IInv, TypeOK, Remove, Goto, alarm
<1>3. /\ agents'[h] = None /\ published'[h] = "offline"
      /\ \A g \in Hosts : g # h => agents'[g] = agents[g] /\ published'[g] = published[g]
      /\ \A g \in Hosts : agents[g] \in Conns \cup {None}
      /\ hosts \subseteq Hosts
  BY <1>1, <1>2 DEF IInv, TypeOK
<1>4. h \in hosts
  BY <1>1, NoneIsNew DEF IInv, SessionInv, RevokedIsOut
<1> HIDE DEF h
<1> USE DEF IInv, SessionInv, AlarmInv
<1>5. NoGhostSession'
  BY <1>1, <1>2, <1>3, NoneIsNew DEF NoGhostSession, h
<1>6. RevokedIsOut' /\ DispatchIsCurrent'
  BY <1>1, <1>2, <1>3 DEF RevokedIsOut, DispatchIsCurrent
<1>7. PublishedIsPresence'
  BY <1>1, <1>2, <1>3, NoneIsNew DEF PublishedIsPresence
<1>8. HolderKnows'
  BY <1>1, <1>2, <1>3, <1>4 DEF HolderKnows, h
<1>9. TimerMeaning'
  BY <1>1, <1>2, <1>3 DEF TimerMeaning
<1>10. OfflineOwed'
  BY <1>1, <1>2, <1>3 DEF OfflineOwed, h
<1>11. DeletedIsSilent' /\ (deleting \cap hosts = {})'
  BY <1>2 DEF DeletedIsSilent
<1> QED BY <1>5, <1>6, <1>7, <1>8, <1>9, <1>10, <1>11

LEMMA ScheduleStep ==
  ASSUME IInv, NEW c \in Conns, NEW t \in Timers, Schedule(c, t)
  PROVE  (SessionInv /\ AlarmInv)'
<1> DEFINE h == owner[c]
<1>1. /\ h \in hosts /\ h \in Hosts /\ agents[h] = None /\ published[h] = "offline"
      /\ pc[c] = "removed"
  BY DEF IInv, TypeOK, AlarmInv, HolderKnows, Schedule
<1>2. /\ timer' = [timer EXCEPT ![h] = t]
      /\ pc'[c] = "idle" /\ Elsewhere(c)
      /\ UNCHANGED <<hosts, agents, deleting, published, announced>>
  BY DEF IInv, TypeOK, Schedule, Goto, End, Elsewhere
<1>3. /\ timer'[h] = t /\ t # None /\ \A g \in Hosts : g # h => timer'[g] = timer[g]
      /\ \A g \in Hosts : agents[g] \in Conns \cup {None}
      /\ hosts \subseteq Hosts
  BY <1>1, <1>2, NoneIsNew DEF IInv, TypeOK
<1>4. \A g \in Hosts : agents[g] # c
  BY <1>1, NotRegistered DEF Registered
<1> HIDE DEF h
<1> USE DEF IInv, SessionInv, AlarmInv, Elsewhere
<1>5. NoGhostSession'
  BY <1>2, <1>3, <1>4 DEF NoGhostSession
<1>6. RevokedIsOut' /\ DispatchIsCurrent' /\ PublishedIsPresence'
  BY <1>2 DEF RevokedIsOut, DispatchIsCurrent, PublishedIsPresence
<1>7. HolderKnows'
  BY <1>2 DEF HolderKnows
<1>8. TimerMeaning'
  <2> SUFFICES ASSUME NEW g \in Hosts, timer'[g] # None
               PROVE  IF agents[g] = None THEN published[g] = "offline"
                        ELSE \E d \in Conns : pc'[d] = "added" /\ owner'[d] = g
      BY <1>2 DEF TimerMeaning
  <2>1. CASE g = h
    BY <2>1, <1>1
  <2>2. CASE g # h
    BY <2>2, <1>1, <1>2, <1>3 DEF TimerMeaning
  <2> QED BY <2>1, <2>2
<1>9. OfflineOwed'
  BY <1>2, <1>3 DEF OfflineOwed, h
<1>10. DeletedIsSilent' /\ (deleting \cap hosts = {})'
  BY <1>1, <1>2, <1>3 DEF DeletedIsSilent
<1> QED BY <1>5, <1>6, <1>7, <1>8, <1>9, <1>10

LEMMA CallbackStep ==
  ASSUME IInv, NEW t \in Timers, Callback(t)
  PROVE  (SessionInv /\ AlarmInv)'
<1> DEFINE h == thost[t]
<1>1. h \in Hosts
  BY DEF IInv, TypeOK, Callback
<1>2. UNCHANGED <<hosts, agents, pc, owner, deleting, published>>
  BY DEF Callback, session
<1>3. CASE timer[h] # t
  <2>1. UNCHANGED <<timer, announced>>
    BY <1>3 DEF Callback
  <2> QED BY <1>2, <2>1, OutsideStep DEF Shared
<1>4. CASE timer[h] = t
  <2>1. /\ timer'[h] = None /\ \A g \in Hosts : g # h => timer'[g] = timer[g]
        /\ agents[h] = None => announced'[h] = "offline"
        /\ \A g \in Hosts : g # h => announced'[g] = announced[g]
        /\ hosts \subseteq Hosts
    BY <1>1, <1>4 DEF IInv, TypeOK, Callback, StillOffline
  <2> HIDE DEF h
  <2> USE DEF IInv, SessionInv, AlarmInv
  <2>2. NoGhostSession' /\ RevokedIsOut' /\ DispatchIsCurrent' /\ PublishedIsPresence'
    BY <1>2 DEF NoGhostSession, RevokedIsOut, DispatchIsCurrent, PublishedIsPresence
  <2>3. HolderKnows' /\ TimerMeaning'
    BY <1>2, <2>1 DEF HolderKnows, TimerMeaning
  <2>4. OfflineOwed'
    <3> SUFFICES ASSUME NEW g \in hosts, published[g] = "offline"
                 PROVE  \/ timer'[g] # None \/ announced'[g] = "offline"
                        \/ \E c \in Conns : pc[c] = "removed" /\ owner[c] = g
        BY <1>2 DEF OfflineOwed
    <3>1. agents[g] = None
      BY DEF PublishedIsPresence
    <3> QED BY <3>1, <2>1 DEF OfflineOwed
  <2>5. DeletedIsSilent' /\ (deleting \cap hosts = {})'
    BY <1>2, <2>1 DEF DeletedIsSilent
  <2> QED BY <2>2, <2>3, <2>4, <2>5
<1> QED BY <1>3, <1>4

LEMMA RevokeStep ==
  ASSUME IInv, NEW h \in Hosts, Revoke(h)
  PROVE  (SessionInv /\ AlarmInv)'
<1>1. /\ h \in hosts /\ \A d \in Conns : pc[d] \notin {"added", "removed", "dispatch"}
  BY DEF IInv, TypeOK, Revoke, MayLock, ReadLocked, WriteLocked
<1>2. /\ hosts' = hosts \ {h} /\ deleting' = deleting \cup {h}
      /\ agents'[h] = None /\ \A g \in Hosts : g # h => agents'[g] = agents[g]
      /\ UNCHANGED <<pc, owner, timer, published, announced>>
      /\ hosts \subseteq Hosts
  BY DEF IInv, TypeOK, Revoke, alarm
<1> USE DEF IInv, SessionInv, AlarmInv
<1>3. NoGhostSession' /\ RevokedIsOut'
  BY <1>1, <1>2 DEF NoGhostSession, RevokedIsOut
<1>4. DispatchIsCurrent' /\ PublishedIsPresence'
  BY <1>1, <1>2 DEF DispatchIsCurrent, PublishedIsPresence
<1>5. HolderKnows' /\ OfflineOwed'
  BY <1>1, <1>2 DEF HolderKnows, OfflineOwed
<1>6. TimerMeaning'
  BY <1>1, <1>2 DEF TimerMeaning
<1>7. DeletedIsSilent' /\ (deleting \cap hosts = {})'
  BY <1>2 DEF DeletedIsSilent
<1> QED BY <1>3, <1>4, <1>5, <1>6, <1>7

LEMMA RevokeCancelStep ==
  ASSUME IInv, NEW h \in Hosts, RevokeCancel(h)
  PROVE  (SessionInv /\ AlarmInv)'
<1>1. /\ h \notin hosts /\ deleting' = deleting \ {h}
      /\ timer'[h] = None /\ \A g \in Hosts : g # h => timer'[g] = timer[g]
      /\ UNCHANGED <<hosts, agents, pc, owner, published, announced>>
      /\ hosts \subseteq Hosts
  BY DEF IInv, TypeOK, AlarmInv, RevokeCancel, Cancel, session
<1> USE DEF IInv, SessionInv, AlarmInv
<1>2. NoGhostSession' /\ RevokedIsOut' /\ DispatchIsCurrent' /\ PublishedIsPresence'
  BY <1>1 DEF NoGhostSession, RevokedIsOut, DispatchIsCurrent, PublishedIsPresence
<1>3. HolderKnows' /\ TimerMeaning' /\ OfflineOwed'
  BY <1>1 DEF HolderKnows, TimerMeaning, OfflineOwed
<1>4. DeletedIsSilent' /\ (deleting \cap hosts = {})'
  BY <1>1 DEF DeletedIsSilent
<1> QED BY <1>2, <1>3, <1>4

LEMMA RestartStep == IInv /\ Restart => (SessionInv /\ AlarmInv)'
BY NoneIsNew DEF IInv, Restart, NoSession, AllIdle, AllFree, NoNews, TypeOK, SessionInv,
   AlarmInv, NoGhostSession, RevokedIsOut, DispatchIsCurrent, PublishedIsPresence,
   HolderKnows, TimerMeaning, OfflineOwed, DeletedIsSilent

-----------------------------------------------------------------------------
LEMMA IInvStep == IInv /\ [Next]_vars => IInv'
<1> SUFFICES ASSUME IInv, [Next]_vars PROVE (SessionInv /\ AlarmInv)'
    BY TypeStep DEF IInv
<1>1. ASSUME NEW c \in Conns, Handler(c) PROVE (SessionInv /\ AlarmInv)'
  BY <1>1, QuietHandlers, RegisterFirstStep, RegisterReplacingStep, SettleStep, RemoveStep,
     ScheduleStep DEF Handler
<1>2. ASSUME NEW c \in Conns, Drop(c) PROVE (SessionInv /\ AlarmInv)'
  BY <1>2, OutsideStep DEF Drop, Shared, alarm
<1>3. ASSUME NEW t \in Timers, Fire(t) PROVE (SessionInv /\ AlarmInv)'
  BY <1>3, OutsideStep DEF Fire, Shared, session
<1>4. CASE UNCHANGED vars
  BY <1>4, OutsideStep DEF vars, Shared
<1> QED
  BY <1>1, <1>2, <1>3, <1>4, CallbackStep, RevokeStep, RevokeCancelStep, RestartStep DEF Next

LEMMA Invariance == Spec => []IInv
<1>1. Init => IInv
  BY InitIInv
<1>2. IInv /\ [Next]_vars => IInv'
  BY IInvStep
<1> QED BY <1>1, <1>2, PTL DEF Spec

-----------------------------------------------------------------------------
(* Theorems *)

\* Handlers, registrations and timers have their types in every reachable state;
\* a handler past its key lookup, and a timer in use, have a host.
THEOREM Typing == Spec => []TypeOK
BY Invariance, PTL DEF IInv

\* A registration never outlives its handler.
THEOREM NoGhosts == Spec => []NoGhostSession
BY Invariance, PTL DEF IInv, SessionInv

\* A deleted host is out, however the deletion overlaps its handshakes, and is
\* never announced after its deletion has returned.
THEOREM DeletionHolds == Spec => []DeletedIsOut
BY Invariance, PTL DEF IInv, SessionInv, AlarmInv, DeletedIsOut

\* Only the registered connection's messages are processed, each to its end.
THEOREM DispatchHolds == Spec => []DispatchIsCurrent
BY Invariance, PTL DEF IInv, SessionInv

\* The event stream agrees with the hub.
THEOREM PublishedHolds == Spec => []PublishedIsPresence
BY Invariance, PTL DEF IInv, SessionInv

\* No disconnection is forgotten: its notification is pending or was decided; and
\* a pending notification belongs to an offline host.
THEOREM NoticesHold == Spec => []OfflineNotices
<1>1. IInv => OfflineAccounted
  BY DEF IInv, AlarmInv, OfflineOwed, OfflineAccounted, Settled, WriteLocked
<1>2. IInv => PendingMeansOffline
  BY DEF IInv, AlarmInv, TimerMeaning, PendingMeansOffline, Settled, WriteLocked
<1> QED BY <1>1, <1>2, Invariance, PTL DEF OfflineNotices

\* The offline notification is decided for a disconnected host only, by the timer
\* of its latest disconnection.
THEOREM OfflineNewsHolds == Spec => OfflineNewsIsTrue
<1> DEFINE True(h) == /\ agents[h] = None /\ published[h] = "offline"
                      /\ timer[h] # None /\ tstate[timer[h]] = "fired"
<1>1. IInv /\ [Next]_vars =>
        [\A h \in Hosts : announced[h] # "offline" /\ announced'[h] = "offline"
           => True(h)]_vars
  <2> SUFFICES ASSUME IInv, Next, NEW h \in Hosts,
                      announced[h] # "offline", announced'[h] = "offline"
               PROVE  True(h)
      OBVIOUS
  <2>1. ASSUME NEW c \in Conns, Settle(c) PROVE FALSE
    BY <2>1 DEF Settle, IInv, TypeOK
  <2>2. ~Restart
    BY DEF Restart, NoNews
  <2>3. PICK t \in Timers : Callback(t)
    BY <2>1, <2>2 DEF Next, Handler, LookUp, Prove, RefuseProof, RegisterRefused,
       RegisterFirst, RegisterReplacing, AckOk, AckFails, Dispatch, ReadStale,
       Dispatched, ReadFails, Remove, RemoveNothing, Schedule, Drop, Fire, Revoke,
       RevokeCancel
  <2>4. thost[t] \in Hosts
    BY <2>3 DEF Callback, IInv, TypeOK
  <2>5. h = thost[t] /\ timer[h] = t /\ agents[h] = None
    BY <2>3, <2>4 DEF Callback, StillOffline, IInv, TypeOK
  <2>6. tstate[t] = "fired" /\ t # None
    BY <2>3, NoneIsNew DEF Callback
  <2> QED
    BY <2>5, <2>6 DEF IInv, AlarmInv, TimerMeaning
<1> QED
  BY <1>1, Invariance, PTL DEF Spec, OfflineNewsIsTrue
=============================================================================
