-------------------------- MODULE EnrollmentProofs --------------------------
(***************************************************************************)
(* Enrollment, for every number of hosts, keys, tokens and requests: its      *)
(* invariants, what no step does to a key, and that it implements             *)
(* HostIdentity.                                                              *)
(***************************************************************************)
EXTENDS Enrollment, TLAPS

\* A good token was generated, and for one host; a consumed one was generated.
TokensAreKnown ==
  /\ consumed \subseteq issued
  /\ \A h \in Hosts : enroll[h] # None => enroll[h] \in issued
  /\ \A g, h \in Hosts : enroll[g] # None /\ enroll[g] = enroll[h] => g = h

\* What happened concerns hosts that have been created, and consumed tokens.
HistoryIsKnown ==
  /\ \A b \in bindings : b[1] \in consumed /\ life[b[3]] # "unused"
  /\ \A k \in Keys : told[k] # None => life[told[k]] # "unused"

IInv == /\ TypeOK /\ KeysAreUnique /\ NoOpenDoor /\ OneBindingEach /\ AnswerIsTrue
        /\ TokensAreKnown /\ HistoryIsKnown

\* The initial database satisfies the invariant.
LEMMA InitIInv == Init => IInv
BY NoneIsNew DEF Init, IInv, TypeOK, KeysAreUnique, NoOpenDoor, OneBindingEach,
   AnswerIsTrue, TokensAreKnown, HistoryIsKnown, Idle

\* Every step of the type-correct system leads to a type-correct state.
LEMMA TypeStep == TypeOK /\ [Next]_vars => TypeOK'
<1> SUFFICES ASSUME TypeOK, [Next]_vars PROVE TypeOK'
    OBVIOUS
<1> USE NoneIsNew DEF TypeOK, db
<1>1. ASSUME NEW h \in Hosts, NEW t \in Tokens, CreatePending(h, t) PROVE TypeOK'
  BY <1>1 DEF CreatePending
<1>2. ASSUME NEW h \in Hosts, NEW t \in Tokens, Refresh(h, t) PROVE TypeOK'
  BY <1>2 DEF Refresh
<1>3. ASSUME NEW h \in Hosts, NEW k \in Keys, CreateBound(h, k) PROVE TypeOK'
  BY <1>3 DEF CreateBound
<1>4. ASSUME NEW h \in Hosts, DeleteHost(h) PROVE TypeOK'
  BY <1>4 DEF DeleteHost
<1>5. ASSUME NEW t \in Tokens, Show(t) PROVE TypeOK'
  BY <1>5 DEF Show
<1>6. ASSUME NEW t \in Tokens, Expire(t) PROVE TypeOK'
  BY <1>6 DEF Expire
<1>7. ASSUME NEW r \in Requests, NEW t \in Tokens, NEW k \in Keys, Receive(r, t, k)
      PROVE TypeOK'
  BY <1>7 DEF Receive, Late
<1>8. ASSUME NEW r \in Requests, NEW h \in Hosts, ConsumeEnrollment(r, h) PROVE TypeOK'
  <2> req[r] \in [step : {"received", "bound"}, token : Tokens, key : Keys, late : BOOLEAN]
    BY <1>8 DEF ConsumeEnrollment, Idle
  <2> QED
    BY <1>8 DEF ConsumeEnrollment
<1>9. ASSUME NEW r \in Requests, NEW h \in Hosts, Answer(r, h) PROVE TypeOK'
  BY <1>9 DEF Answer
<1>10. ASSUME NEW r \in Requests, GiveUp(r) PROVE TypeOK'
  BY <1>10 DEF GiveUp
<1>11. CASE UNCHANGED vars
  BY <1>11 DEF vars
<1> QED
  BY <1>1, <1>2, <1>3, <1>4, <1>5, <1>6, <1>7, <1>8, <1>9, <1>10, <1>11 DEF Next

\* A request that reaches its transaction carries a token and a key.
LEMMA RequestIsFull ==
  ASSUME TypeOK, NEW r \in Requests, req[r].step # "idle"
  PROVE  req[r].token \in Tokens /\ req[r].key \in Keys
BY DEF TypeOK, Idle

LEMMA IInvStep == IInv /\ [Next]_vars => IInv'
<1> SUFFICES ASSUME IInv, [Next]_vars PROVE IInv'
    OBVIOUS
<1> TypeOK'
    BY TypeStep DEF IInv
<1> USE NoneIsNew DEF IInv, db
<1>1. ASSUME NEW h \in Hosts, NEW t \in Tokens, CreatePending(h, t) PROVE IInv'
  <2> life[h] = "unused" /\ key[h] = None /\ key' = key /\ bindings' = bindings
    BY <1>1 DEF CreatePending, NoOpenDoor
  <2>1. KeysAreUnique' /\ OneBindingEach' /\ AnswerIsTrue' /\ HistoryIsKnown'
    BY <1>1 DEF CreatePending, TypeOK, KeysAreUnique, OneBindingEach, AnswerIsTrue,
                HistoryIsKnown
  <2>2. NoOpenDoor' /\ TokensAreKnown'
    BY <1>1 DEF CreatePending, TypeOK, NoOpenDoor, TokensAreKnown
  <2> QED BY <2>1, <2>2
<1>2. ASSUME NEW h \in Hosts, NEW t \in Tokens, Refresh(h, t) PROVE IInv'
  BY <1>2 DEF Refresh, Refreshable, TypeOK, KeysAreUnique, NoOpenDoor, OneBindingEach,
              AnswerIsTrue, TokensAreKnown, HistoryIsKnown
<1>3. ASSUME NEW h \in Hosts, NEW k \in Keys, CreateBound(h, k) PROVE IInv'
  <2>1. KeysAreUnique' /\ NoOpenDoor' /\ TokensAreKnown'
    BY <1>3 DEF CreateBound, Bound, TypeOK, KeysAreUnique, NoOpenDoor, TokensAreKnown
  <2>2. OneBindingEach' /\ AnswerIsTrue' /\ HistoryIsKnown'
    BY <1>3 DEF CreateBound, TypeOK, OneBindingEach, AnswerIsTrue, HistoryIsKnown
  <2> QED BY <2>1, <2>2
<1>4. ASSUME NEW h \in Hosts, DeleteHost(h) PROVE IInv'
  BY <1>4 DEF DeleteHost, TypeOK, KeysAreUnique, NoOpenDoor, OneBindingEach,
              AnswerIsTrue, TokensAreKnown, HistoryIsKnown
<1>5. ASSUME NEW t \in Tokens, Show(t) PROVE IInv'
  BY <1>5 DEF Show, KeysAreUnique, NoOpenDoor, OneBindingEach,
              AnswerIsTrue, TokensAreKnown, HistoryIsKnown
<1>6. ASSUME NEW t \in Tokens, Expire(t) PROVE IInv'
  BY <1>6 DEF Expire, KeysAreUnique, NoOpenDoor, OneBindingEach,
              AnswerIsTrue, TokensAreKnown, HistoryIsKnown
<1>7. ASSUME NEW r \in Requests, NEW t \in Tokens, NEW k \in Keys, Receive(r, t, k)
      PROVE IInv'
  BY <1>7 DEF Receive, KeysAreUnique, NoOpenDoor, OneBindingEach,
              AnswerIsTrue, TokensAreKnown, HistoryIsKnown
<1>8. ASSUME NEW r \in Requests, NEW h \in Hosts, ConsumeEnrollment(r, h) PROVE IInv'
  <2> DEFINE t == req[r].token
             k == req[r].key
  <2>1. /\ t \in Tokens /\ k \in Keys
        /\ enroll[h] = t /\ t \notin consumed /\ life[h] = "present" /\ key[h] = None
        /\ ~Bound(k)
        /\ key' = [key EXCEPT ![h] = k] /\ consumed' = consumed \cup {t}
        /\ bindings' = bindings \cup {<<t, k, h>>}
        /\ UNCHANGED <<life, enroll, issued, told>>
    BY <1>8, RequestIsFull DEF ConsumeEnrollment, Bindable
  <2> HIDE DEF t, k
  <2>2. KeysAreUnique'
    BY <2>1 DEF Bound, TypeOK, KeysAreUnique
  <2>3. NoOpenDoor' /\ TokensAreKnown'
    BY <2>1 DEF TypeOK, NoOpenDoor, TokensAreKnown
  <2>4. \A b \in bindings : b[1] # t /\ b[3] # h
    BY <2>1 DEF TypeOK, OneBindingEach, HistoryIsKnown
  <2>5. OneBindingEach'
    BY <2>1, <2>4 DEF TypeOK, OneBindingEach
  <2>6. AnswerIsTrue' /\ HistoryIsKnown'
    BY <2>1 DEF TypeOK, AnswerIsTrue, HistoryIsKnown
  <2> QED BY <2>2, <2>3, <2>5, <2>6
<1>9. ASSUME NEW r \in Requests, NEW h \in Hosts, Answer(r, h) PROVE IInv'
  <2> DEFINE k == req[r].key
  <2>1. /\ k \in Keys /\ <<req[r].token, k, h>> \in bindings
        /\ told' = [told EXCEPT ![k] = h]
        /\ UNCHANGED <<db, issued, bindings>>
    BY <1>9, RequestIsFull DEF Answer
  <2>2. life[h] # "unused" /\ (life[h] = "present" => key[h] = k)
    BY <2>1 DEF OneBindingEach, HistoryIsKnown
  <2> HIDE DEF k
  <2>3. AnswerIsTrue' /\ HistoryIsKnown'
    BY <2>1, <2>2 DEF TypeOK, AnswerIsTrue, HistoryIsKnown
  <2>4. KeysAreUnique' /\ NoOpenDoor' /\ OneBindingEach' /\ TokensAreKnown'
    BY <2>1 DEF KeysAreUnique, NoOpenDoor, OneBindingEach, TokensAreKnown
  <2> QED BY <2>3, <2>4
<1>10. ASSUME NEW r \in Requests, GiveUp(r) PROVE IInv'
  BY <1>10 DEF GiveUp, KeysAreUnique, NoOpenDoor, OneBindingEach,
               AnswerIsTrue, TokensAreKnown, HistoryIsKnown
<1>11. CASE UNCHANGED vars
  BY <1>11 DEF vars, KeysAreUnique, NoOpenDoor, OneBindingEach,
               AnswerIsTrue, TokensAreKnown, HistoryIsKnown
<1> QED
  BY <1>1, <1>2, <1>3, <1>4, <1>5, <1>6, <1>7, <1>8, <1>9, <1>10, <1>11 DEF Next

LEMMA Invariance == Spec => []IInv
<1>1. Init => IInv
  BY InitIInv
<1>2. IInv /\ [Next]_vars => IInv'
  BY IInvStep
<1> QED BY <1>1, <1>2, PTL DEF Spec

\* The tables, requests and histories have their types in every reachable state.
THEOREM Typing == Spec => []TypeOK
BY Invariance, PTL DEF IInv

\* The handshake identifies one host: no two hosts ever have the same key.
THEOREM UniqueKeys == Spec => []KeysAreUnique
BY Invariance, PTL DEF IInv

\* No good token exists for a host that has its key or that is gone.
THEOREM ClosedDoors == Spec => []NoOpenDoor
BY Invariance, PTL DEF IInv

\* A token binds once, a host is bound once, and the binding lasts as long as it.
THEOREM SingleUse == Spec => []OneBindingEach
BY Invariance, PTL DEF IInv

\* What an agent was told about its identity stays true.
THEOREM TrueAnswers == Spec => []AnswerIsTrue
BY Invariance, PTL DEF IInv

-----------------------------------------------------------------------------
(* What a step never does *)

\* No step replaces a bound key, or takes it from a host that stays.
THEOREM FinalKeys == Spec => BoundKeyIsFinal
<1>1. IInv /\ [Next]_vars =>
        [\A h \in Hosts : key[h] # None => key'[h] = key[h] \/ life'[h] = "deleted"]_vars
  <2> SUFFICES ASSUME IInv, Next, NEW g \in Hosts, key[g] # None
               PROVE  key'[g] = key[g] \/ life'[g] = "deleted"
      OBVIOUS
  <2> USE DEF IInv, TypeOK, db
  <2>1. ASSUME NEW h \in Hosts, NEW t \in Tokens, CreatePending(h, t) \/ Refresh(h, t)
        PROVE  key' = key
    BY <2>1 DEF CreatePending, Refresh
  <2>2. ASSUME NEW h \in Hosts, NEW k \in Keys, CreateBound(h, k)
        PROVE  key'[g] = key[g]
    BY <2>2 DEF CreateBound, NoOpenDoor
  <2>3. ASSUME NEW h \in Hosts, DeleteHost(h)
        PROVE  key'[g] = key[g] \/ life'[g] = "deleted"
    BY <2>3 DEF DeleteHost
  <2>4. ASSUME NEW r \in Requests, NEW h \in Hosts, ConsumeEnrollment(r, h)
        PROVE  key'[g] = key[g]
    BY <2>4 DEF ConsumeEnrollment, Bindable
  <2>5. ASSUME NEW r \in Requests, NEW h \in Hosts, Answer(r, h)
        PROVE  key' = key
    BY <2>5 DEF Answer
  <2>6. ASSUME NEW r \in Requests,
               GiveUp(r) \/ \E t \in Tokens, k \in Keys : Receive(r, t, k)
        PROVE  key' = key
    BY <2>6 DEF GiveUp, Receive
  <2>7. ASSUME NEW t \in Tokens, Show(t) \/ Expire(t) PROVE key' = key
    BY <2>7 DEF Show, Expire
  <2> QED
    BY <2>1, <2>2, <2>3, <2>4, <2>5, <2>6, <2>7 DEF Next
<1> QED
  BY <1>1, Invariance, PTL DEF Spec, BoundKeyIsFinal

\* A renewed, consumed or expired token binds nothing, in whatever order the
\* requests that carry it overlap the renewal.
THEOREM DeadTokens == Spec => OldTokensAreDead
<1> DEFINE Rightful(b) ==
      /\ enroll[b[3]] = b[1]
      /\ \E r \in Requests : req[r].token = b[1] /\ req[r].key = b[2] /\ ~req[r].late
      /\ \A c \in bindings : c[1] # b[1]
<1>1. IInv /\ [Next]_vars => [\A b \in bindings' \ bindings : Rightful(b)]_vars
  <2> SUFFICES ASSUME IInv, Next, NEW b \in bindings' \ bindings PROVE Rightful(b)
      OBVIOUS
  <2>1. PICK r \in Requests, h \in Hosts : ConsumeEnrollment(r, h)
    BY DEF Next, CreatePending, Refresh, CreateBound, DeleteHost, Show, Expire,
           Receive, Answer, GiveUp
  <2>2. b = <<req[r].token, req[r].key, h>>
    BY <2>1 DEF ConsumeEnrollment
  <2>3. enroll[h] = req[r].token /\ ~req[r].late /\ req[r].token \notin consumed
    BY <2>1 DEF ConsumeEnrollment, Bindable
  <2> QED
    BY <2>2, <2>3 DEF IInv, HistoryIsKnown
<1> QED
  BY <1>1, Invariance, PTL DEF Spec, OldTokensAreDead

-----------------------------------------------------------------------------
(* Refinement *)

\* Every behaviour of the tables and requests is one the promise allows.
THEOREM Refinement == Spec => KeepsIdentity
<1>1. Init => Identity!Init
  BY NoneIsNew DEF Init, Identity!Init, Pass
<1>2. IInv /\ [Next]_vars => [Identity!Next]_(Identity!vars)
  <2> SUFFICES ASSUME IInv, [Next]_vars PROVE Identity!Next \/ UNCHANGED Identity!vars
      OBVIOUS
  <2> USE NoneIsNew DEF IInv, TypeOK, db, Identity!vars
  <2>1. ASSUME NEW h \in Hosts, NEW t \in Tokens, CreatePending(h, t)
        PROVE  Identity!Register(h, t)
    <3>1. t \notin consumed
      BY <2>1 DEF CreatePending, TokensAreKnown
    <3> QED
      BY <2>1, <3>1 DEF CreatePending, Identity!Register, Pass
  <2>2. ASSUME NEW h \in Hosts, NEW t \in Tokens, Refresh(h, t)
        PROVE  Identity!Renew(h, t)
    <3>1. t \notin consumed
      BY <2>2 DEF Refresh, TokensAreKnown
    <3> QED
      BY <2>2, <3>1 DEF Refresh, Refreshable, Identity!Renew, Pass
  <2>3. ASSUME NEW h \in Hosts, NEW k \in Keys, CreateBound(h, k)
        PROVE  Identity!RegisterBound(h, k)
    BY <2>3 DEF CreateBound, Bound, Identity!RegisterBound, Identity!Bound, Pass
  <2>4. ASSUME NEW h \in Hosts, DeleteHost(h) PROVE Identity!Delete(h)
    BY <2>4 DEF DeleteHost, Identity!Delete, Pass
  <2>5. ASSUME NEW r \in Requests, NEW h \in Hosts, ConsumeEnrollment(r, h)
        PROVE  Identity!Bind(h, req[r].key)
    <3>1. req[r].token \in Tokens /\ req[r].key \in Keys
      BY <2>5, RequestIsFull DEF ConsumeEnrollment
    <3>2. Pass[h] = req[r].token
      BY <2>5 DEF ConsumeEnrollment, Bindable, Pass
    <3>3. Pass' = [Pass EXCEPT ![h] = None]
      BY <2>5, <3>1 DEF ConsumeEnrollment, Bindable, Pass, TokensAreKnown
    <3> QED
      BY <2>5, <3>1, <3>2, <3>3
         DEF ConsumeEnrollment, Bindable, Bound, Identity!Bind, Identity!Bound
  <2>6. ASSUME NEW r \in Requests, NEW h \in Hosts, Answer(r, h)
        PROVE  UNCHANGED Identity!vars
    BY <2>6 DEF Answer, Pass
  <2>7. ASSUME NEW r \in Requests,
               GiveUp(r) \/ \E t \in Tokens, k \in Keys : Receive(r, t, k)
        PROVE  UNCHANGED Identity!vars
    BY <2>7 DEF GiveUp, Receive, Pass
  <2>8. ASSUME NEW t \in Tokens, Show(t) \/ Expire(t) PROVE UNCHANGED Identity!vars
    BY <2>8 DEF Show, Expire, Pass
  <2>9. CASE UNCHANGED vars
    BY <2>9 DEF vars, Pass
  <2>10. \A r \in Requests : req[r].step # "idle" => req[r].key \in Keys
    BY RequestIsFull
  <2>11. ASSUME NEW r \in Requests, NEW h \in Hosts, ConsumeEnrollment(r, h)
         PROVE  Identity!Next
    <3>1. req[r].key \in Keys
      BY <2>10, <2>11 DEF ConsumeEnrollment
    <3> QED
      BY <2>5, <2>11, <3>1 DEF Identity!Next
  <2> QED
    BY <2>1, <2>2, <2>3, <2>4, <2>6, <2>7, <2>8, <2>9, <2>11 DEF Next, Identity!Next
<1> QED
  BY <1>1, <1>2, Invariance, PTL DEF Spec, KeepsIdentity, Identity!Spec
=============================================================================
