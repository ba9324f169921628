----------------------------- MODULE StoreProofs -----------------------------
(***************************************************************************)
(* The tables of hosts, for all values of the constants.  First Tags: its      *)
(* types, that an update leaves exactly the tags that were asked for, and that  *)
(* readers see what TagPromise says.  Then Downsample, which shares nothing with *)
(* Tags: no usage is skipped, and nothing is left of a deleted host.            *)
(***************************************************************************)
EXTENDS Tags, Downsample, FiniteSetTheorems, TLAPS

\* Tags have one name each, and none has an id that was not given yet.
NamesInv ==
  /\ \A s, t \in Live : name[s] = name[t] => s = t
  /\ \A t \in Live : t <= autoinc

\* Nothing runs beside the migration; and hosts without a row have nothing else.
LifeInv ==
  /\ column => ~up
  /\ ~up => \A r \in Requests : req[r] = Idle
  /\ id # 0 => column /\ pos <= Len(Legacy)
  /\ \A i \in DOMAIN Legacy : life[Legacy[i][1]] # "unused"
  /\ column => \A h \in Hosts : life[h] # "deleted"
  /\ \A w \in rows : life[w[1]] # "unused"
  /\ IsFiniteSet(rows)

\* Request r knows, of every tag that is steady, whether the host is to have it.
Exact(r) ==
  \A t \in req[r].steady :
    /\ t \in Live
    /\ (IF req[r].step = "looked" THEN t \in req[r].ids ELSE name[t] \in req[r].found)
         <=> name[t] \in req[r].want

\* A request that creates a host is the only one for it, and the host is not there
\* yet; an update is of a host that was there.
HostIsRight(r) ==
  /\ req[r].step = "creating" =>
       /\ req[r].host # None /\ life[req[r].host] = "unused"
       /\ \A q \in Requests : req[q].host = req[r].host => q = r
  /\ req[r].step \in {"named", "updated", "looked"} => life[req[r].host] # "unused"

RequestInv ==
  \A r \in Requests :
    HostIsRight(r) /\ Exact(r) /\ \A t \in req[r].ids : t <= autoinc

TagsInv == TypeOK /\ NamesInv /\ LifeInv /\ RequestInv

\* No two hosts of the older version share a tag, and no host has one twice.
NoSharedNames == \A i, j \in DOMAIN Legacy : Legacy[i][2] = Legacy[j][2] => i = j

\* The item has its tag, and the host of the item has that tag.
Linked(i) == \E t \in Live : name[t] = Legacy[i][2] /\ <<Legacy[i][1], t>> \in rows

\* What the migration has done so far, as long as the column is there.  An item that
\* is Held has been imported, with all before it; and a last id is not taken for the
\* tag of another item.
Moved ==
  /\ \A w \in rows : w[2] \in Live /\ \E i \in DOMAIN Legacy : Legacy[i] = <<w[1], name[w[2]]>>
  /\ \A i \in 1..pos - 1 : Linked(i)
  /\ \A i, j \in DOMAIN Legacy : i < j /\ Legacy[j][2] \in Held => Linked(i)
  /\ id # 0 => id \in Live /\ name[id] = Item[2]
  /\ last # 0 => \A i \in DOMAIN Legacy :
                   pos <= i /\ Legacy[i][2] \in Held => id # 0 /\ i = pos

\* No row has an id that was not given yet: a new tag is on no host.  (The migration
\* may take the number of a row for an id, but an id has been used up for every row.)
RowsInv ==
  /\ \A w \in rows : w[2] \in 1..autoinc
  /\ column => /\ last <= autoinc /\ (id # 0 => id \in 1..autoinc)
               /\ Cardinality(rows) + (IF id = 0 THEN 0 ELSE 1) <= autoinc

MigrationInv == RowsInv /\ (column => Moved)

-----------------------------------------------------------------------------
(* Type correctness *)

Busy == [step : {"creating", "named", "updated", "looked"}, host : Hosts, want : Wants,
         found : SUBSET Names, ids : SUBSET Ids, steady : SUBSET Ids]

\* The type invariant, with a name for the requests under way.
LEMMA TypeIs ==
  TypeOK <=>
    /\ life \in [Hosts -> {"unused", "present", "deleted"}]
    /\ name \in [Ids -> Names \cup {None}]
    /\ autoinc \in 0..MaxId
    /\ rows \subseteq Hosts \X Nat
    /\ column \in BOOLEAN /\ up \in BOOLEAN
    /\ pos \in 1..Len(Legacy) + 1 /\ id \in Nat /\ last \in Nat
    /\ req \in [Requests -> {Idle} \cup Busy]
  BY DEF TypeOK, Busy

\* A request that is not idle is a full record ...
LEMMA IsBusy ==
  ASSUME TypeOK, NEW r \in Requests, req[r].step # "idle" PROVE req[r] \in Busy
  BY DEF TypeOK, Busy, Idle

\* ... and one that is has nothing in it.
LEMMA IsIdle ==
  ASSUME TypeOK, NEW r \in Requests, req[r].step = "idle" PROVE req[r] = Idle
  BY DEF TypeOK, Idle

\* The item that the migration is at, unless it is through.
LEMMA ItemIs ==
  ASSUME pos \in 1..Len(Legacy) PROVE Item \in Hosts \X Names
  BY LegacyIsPairs DEF Item

\* What changes the steps of one request keeps the type of all.
LEMMA OneRequest ==
  ASSUME TypeOK, NEW r \in Requests, NEW v \in {Idle} \cup Busy
  PROVE  [req EXCEPT ![r] = v] \in [Requests -> {Idle} \cup Busy]
  BY DEF TypeOK, Busy

\* Forgetting that a tag was steady keeps the types.
LEMMA UnsteadyType ==
  ASSUME TypeOK, NEW t, Unsteady(t) PROVE req' \in [Requests -> {Idle} \cup Busy]
  <1>1. ASSUME NEW r \in Requests
        PROVE  [req[r] EXCEPT !.steady = @ \ {t}] \in {Idle} \cup Busy
    <2>1. CASE req[r].step = "idle"
      <3>1. req[r] = Idle
        BY <2>1, IsIdle
      <3>2. [Idle EXCEPT !.steady = @ \ {t}] = Idle
        BY DEF Idle
      <3> QED
        BY <3>1, <3>2
    <2>2. CASE req[r].step # "idle"
      BY <2>2, IsBusy DEF Busy
    <2> QED
      BY <2>1, <2>2
  <1> QED
    BY <1>1 DEF Unsteady

\* The database, old or new, before the process starts.
LEMMA TagsTypeInit == Init => TypeOK
  <1> SUFFICES ASSUME Init PROVE TypeOK
    OBVIOUS
  <1>1. life \in [Hosts -> {"unused", "present", "deleted"}]
    BY DEF Init
  <1>2. pos \in 1..Len(Legacy) + 1 /\ id \in Nat /\ last \in Nat /\ autoinc \in 0..MaxId
    BY BoundIsId, LegacyIsPairs DEF Init
  <1>3. /\ name \in [Ids -> Names \cup {None}] /\ rows \subseteq Hosts \X Nat
        /\ column \in BOOLEAN /\ up \in BOOLEAN
    BY DEF Init
  <1>4. req \in [Requests -> {Idle} \cup Busy]
    BY DEF Init
  <1> QED
    BY <1>1, <1>2, <1>3, <1>4, TypeIs

\* An import gives the next id, which is one.
LEMMA ImportType ==
  ASSUME TypeOK, Import
  PROVE  /\ name' \in [Ids -> Names \cup {None}] /\ autoinc' \in 0..MaxId
         /\ id' \in Nat /\ last' \in Nat
         /\ autoinc' = autoinc + 1
         /\ UNCHANGED <<life, rows, column, up, pos, req>>
  <1>1. Item \in Hosts \X Names
    BY ItemIs, LegacyIsPairs DEF Import, TypeOK
  <1>2. autoinc \in Nat /\ autoinc < MaxId /\ MaxId \in Nat
    BY BoundIsId DEF Import, TypeOK
  <1>3. NextId \in Ids /\ NextId \in Nat /\ NextId = autoinc + 1
    BY <1>2 DEF NextId, Ids
  <1>4. autoinc' \in 0..MaxId /\ autoinc' = autoinc + 1
    BY <1>2 DEF Import
  <1>5. CASE Item[2] \in Held
    <2>1. FoundId(Item[2]) \in Nat
      BY <1>5 DEF FoundId, Held, Live, Ids, TypeOK
    <2>2. id' = FoundId(Item[2]) /\ UNCHANGED <<name, last>>
      BY <1>5 DEF Import
    <2> QED
      BY <1>4, <2>1, <2>2 DEF TypeOK, Import
  <1>6. CASE Item[2] \notin Held
    <2>1. id' = NextId /\ last' = NextId /\ name' = [name EXCEPT ![NextId] = Item[2]]
      BY <1>6 DEF Import
    <2>2. name' \in [Ids -> Names \cup {None}]
      BY <1>1, <2>1 DEF TypeOK
    <2> QED
      BY <1>3, <1>4, <2>1, <2>2 DEF Import
  <1> QED
    BY <1>5, <1>6

\* Every step keeps the types.
LEMMA TagsTypeStep == ASSUME TypeOK, LifeInv, [Next]_vars PROVE TypeOK'
  <1> USE DEF tables, migration
  <1>0. /\ life \in [Hosts -> {"unused", "present", "deleted"}]
        /\ name \in [Ids -> Names \cup {None}] /\ autoinc \in 0..MaxId
        /\ rows \subseteq Hosts \X Nat /\ column \in BOOLEAN /\ up \in BOOLEAN
        /\ pos \in 1..Len(Legacy) + 1 /\ id \in Nat /\ last \in Nat
        /\ req \in [Requests -> {Idle} \cup Busy]
    BY TypeIs
  <1>1. CASE Import
    BY <1>0, <1>1, ImportType DEF TypeOK
  <1>2. CASE Link
    <2>1. pos \in 1..Len(Legacy) /\ pos' = pos + 1 /\ id' = 0
      BY <1>0, <1>2, LegacyIsPairs DEF Link
    <2>2. rows' \subseteq Hosts \X Nat
      BY <1>0, <1>2, <2>1, ItemIs DEF Link
    <2>3. last' \in Nat
      <3>1. Cardinality(rows) \in Nat
        BY FS_CardinalityType DEF LifeInv
      <3> QED
        BY <1>0, <1>2, <3>1 DEF Link
    <2>4. pos' \in 1..Len(Legacy) + 1
      BY <2>1, LegacyIsPairs
    <2> QED
      BY <1>2, <2>1, <2>2, <2>3, <2>4 DEF Link, TypeOK
  <1>3. CASE Open
    <2>1. pos' \in 1..Len(Legacy) + 1 /\ last' \in Nat
      BY <1>3, LegacyIsPairs DEF Open
    <2> QED
      BY <1>3, <2>1 DEF Open, TypeOK
  <1>4. CASE Restart
    <2>1. req' \in [Requests -> {Idle} \cup Busy] /\ pos' \in 1..Len(Legacy) + 1
      BY <1>4, LegacyIsPairs DEF Restart
    <2> QED
      BY <1>0, <1>4, <2>1 DEF Restart, TypeOK, Busy
  <1>5. ASSUME NEW n \in Names, CreateTag(n) PROVE TypeOK'
    <2>1. NextId \in Ids /\ NextId \in 0..MaxId
      BY <1>0, <1>5, BoundIsId DEF CreateTag, NextId, Ids
    <2> QED
      BY <1>5, <2>1 DEF CreateTag, TypeOK
  <1>6. ASSUME NEW n \in Names, NEW t \in Ids, UpdateTag(t, n) PROVE TypeOK'
    <2>1. name' \in [Ids -> Names \cup {None}]
      BY <1>0, <1>6 DEF UpdateTag
    <2>2. req' \in [Requests -> {Idle} \cup Busy]
      BY <1>6, UnsteadyType DEF UpdateTag
    <2> QED
      BY <1>6, <2>1, <2>2 DEF UpdateTag, TypeOK, Busy
  <1>7. ASSUME NEW t \in Ids, DeleteTag(t) PROVE TypeOK'
    <2>1. name' \in [Ids -> Names \cup {None}] /\ rows' \subseteq Hosts \X Nat
      BY <1>0, <1>7 DEF DeleteTag
    <2>2. req' \in [Requests -> {Idle} \cup Busy]
      BY <1>7, UnsteadyType DEF DeleteTag
    <2> QED
      BY <1>7, <2>1, <2>2 DEF DeleteTag, TypeOK, Busy
  <1>8. ASSUME NEW h \in Hosts, DeleteHost(h) PROVE TypeOK'
    BY <1>8 DEF DeleteHost, TypeOK
  <1>9. ASSUME NEW r \in Requests, NEW h \in Hosts, NEW N \in Wants,
               CreateRead(r, h, N) \/ UpdateRead(r, h, N)
        PROVE  TypeOK'
    <2>1. PICK step \in {"creating", "named"} : Read(r, step, h, N)
      BY <1>9 DEF CreateRead, UpdateRead
    <2> DEFINE v == [step |-> step, host |-> h, want |-> N, found |-> N \cap Held,
                     ids |-> {}, steady |-> Live]
    <2>2. v \in Busy
      BY WantsAreNames DEF Busy, Live
    <2>3. req' = [req EXCEPT ![r] = v]
      BY <2>1 DEF Read
    <2>4. req' \in [Requests -> {Idle} \cup Busy]
      BY <2>2, <2>3, OneRequest
    <2> QED
      BY <2>1, <2>4 DEF Read, TypeOK, Busy
  <1>10. ASSUME NEW r \in Requests, Create(r) PROVE TypeOK'
    <2>1. req[r].host \in Hosts
      BY <1>10, IsBusy DEF Create, Busy
    <2>2. life' \in [Hosts -> {"unused", "present", "deleted"}]
      BY <1>0, <1>10, <2>1 DEF Create
    <2>3. rows' \subseteq Hosts \X Nat
      <3>1. Live \subseteq Nat
        BY DEF Live, Ids
      <3> QED
        BY <1>0, <1>10, <2>1, <3>1 DEF Create
    <2>4. req' \in [Requests -> {Idle} \cup Busy]
      BY <1>10, OneRequest DEF Create
    <2> QED
      BY <1>10, <2>2, <2>3, <2>4 DEF Create, TypeOK, Busy
  <1>11. ASSUME NEW r \in Requests, UpdateRow(r) PROVE TypeOK'
    <2>1. [req[r] EXCEPT !.step = "updated"] \in Busy
      BY <1>11, IsBusy DEF UpdateRow, Busy
    <2>2. req' \in [Requests -> {Idle} \cup Busy]
      BY <1>11, <2>1, OneRequest DEF UpdateRow
    <2> QED
      BY <1>11, <2>2 DEF UpdateRow, TypeOK, Busy
  <1>12. ASSUME NEW r \in Requests, Look(r) PROVE TypeOK'
    <2> DEFINE S == {t \in Live : name[t] \in req[r].found}
    <2>1. S \in SUBSET Ids
      BY DEF Live
    <2>2. [req[r] EXCEPT !.step = "looked", !.found = {}, !.ids = S] \in Busy
      BY <1>12, <2>1, IsBusy DEF Look, Busy
    <2>3. req' = [req EXCEPT ![r] = [req[r] EXCEPT !.step = "looked", !.found = {}, !.ids = S]]
      BY <1>0, <1>12 DEF Look
    <2>4. req' \in [Requests -> {Idle} \cup Busy]
      BY <2>2, <2>3, OneRequest
    <2> QED
      BY <1>12, <2>4 DEF Look, TypeOK, Busy
  <1>13. ASSUME NEW r \in Requests, Replace(r) PROVE TypeOK'
    <2>1. req[r].host \in Hosts /\ req[r].ids \subseteq Nat
      BY <1>13, IsBusy DEF Replace, Busy, Ids
    <2>2. rows' \subseteq Hosts \X Nat
      BY <1>0, <1>13, <2>1 DEF Replace, Replaced
    <2>3. req' \in [Requests -> {Idle} \cup Busy]
      BY <1>13, OneRequest DEF Replace
    <2> QED
      BY <1>13, <2>2, <2>3 DEF Replace, TypeOK, Busy
  <1>14. ASSUME NEW r \in Requests, GiveUp(r) PROVE TypeOK'
    <2>1. req' \in [Requests -> {Idle} \cup Busy]
      BY <1>14, OneRequest DEF GiveUp
    <2> QED
      BY <1>14, <2>1 DEF GiveUp, TypeOK, Busy
  <1>15. CASE UNCHANGED vars
    BY <1>15 DEF vars, TypeOK
  <1> QED
    BY <1>1, <1>2, <1>3, <1>4, <1>5, <1>6, <1>7, <1>8, <1>9, <1>10, <1>11, <1>12, <1>13,
       <1>14, <1>15 DEF Next


-----------------------------------------------------------------------------
(* Names and ids of tags *)

\* Every step keeps names and ids apart, and no id is ever given twice.
LEMMA NamesStep ==
  ASSUME TagsInv, [Next]_vars
  PROVE  /\ NamesInv' /\ autoinc <= autoinc'
  <1> USE DEF tables, migration
  <1>0. /\ name \in [Ids -> Names \cup {None}] /\ autoinc \in Nat /\ MaxId \in Nat
        /\ \A s, t \in Live : name[s] = name[t] => s = t
        /\ \A t \in Live : t <= autoinc
        /\ Live \subseteq Ids /\ Ids \subseteq Nat
        /\ autoinc <= autoinc
    BY BoundIsId DEF TagsInv, TypeOK, NamesInv, Live, Ids
  <1>1. ASSUME NEW t \in Ids, NEW n \in Names, n \notin Held \ {name[t]}, t <= autoinc',
               name' = [name EXCEPT ![t] = n], autoinc' \in Nat, autoinc <= autoinc'
        PROVE  NamesInv'
    <2>1. Live' = Live \cup {t} /\ \A s \in Ids : name'[s] = IF s = t THEN n ELSE name[s]
      BY <1>0, <1>1, NoneIsNoName DEF Live
    <2>2. \A s \in Live : s # t => name[s] # n
      <3>1. ASSUME NEW s \in Live, s # t, name[s] = n PROVE FALSE
        <4>1. n \in Held
          BY <3>1 DEF Held
        <4>2. n = name[t] /\ t \in Live
          BY <1>1, <4>1, NoneIsNoName DEF Live
        <4> QED
          BY <1>0, <3>1, <4>2
      <3> QED
        BY <3>1
    <2>3. \A s, u \in Live' : name'[s] = name'[u] => s = u
      BY <1>0, <2>1, <2>2
    <2>4. \A s \in Live' : s <= autoinc'
      BY <1>0, <1>1, <2>1
    <2> QED
      BY <2>3, <2>4 DEF NamesInv
  <1>2. ASSUME autoinc < MaxId, NEW n \in Names, n \notin Held,
               name' = [name EXCEPT ![NextId] = n], autoinc' = autoinc + 1
        PROVE  NamesInv' /\ autoinc <= autoinc'
    <2>1. NextId \in Ids /\ NextId <= autoinc' /\ autoinc' \in Nat /\ autoinc <= autoinc'
      BY <1>0, <1>2 DEF NextId, Ids
    <2> QED
      BY <1>1, <1>2, <2>1
  <1>3. ASSUME UNCHANGED name, autoinc' \in Nat, autoinc <= autoinc' PROVE NamesInv'
    BY <1>0, <1>3 DEF NamesInv, Live
  <1>4. CASE Import
    <2>1. Item[2] \in Names /\ autoinc < MaxId /\ autoinc' = autoinc + 1
      BY <1>4, ItemIs, LegacyIsPairs DEF Import, TagsInv, TypeOK
    <2>2. \/ Item[2] \notin Held /\ name' = [name EXCEPT ![NextId] = Item[2]]
          \/ UNCHANGED name
      BY <1>4 DEF Import
    <2>3. autoinc' \in Nat /\ autoinc <= autoinc'
      BY <1>0, <2>1
    <2> QED
      BY <1>2, <1>3, <2>1, <2>2, <2>3
  <1>5. ASSUME NEW n \in Names, CreateTag(n) PROVE NamesInv' /\ autoinc <= autoinc'
    BY <1>2, <1>5 DEF CreateTag, NextId
  <1>6. ASSUME NEW n \in Names, NEW t \in Ids, UpdateTag(t, n)
        PROVE  NamesInv' /\ autoinc <= autoinc'
    BY <1>0, <1>1, <1>6 DEF UpdateTag
  <1>7. ASSUME NEW t \in Ids, DeleteTag(t) PROVE NamesInv' /\ autoinc <= autoinc'
    <2>1. name' = [name EXCEPT ![t] = None] /\ autoinc' = autoinc
      BY <1>7 DEF DeleteTag
    <2>2. Live' \subseteq Live /\ \A s \in Live' : name'[s] = name[s]
      BY <1>0, <2>1 DEF Live
    <2> QED
      BY <1>0, <2>1, <2>2 DEF NamesInv
  <1>8. ASSUME UNCHANGED <<name, autoinc>> PROVE NamesInv' /\ autoinc <= autoinc'
    BY <1>0, <1>3, <1>8
  <1>9. \/ Import \/ \E n \in Names : CreateTag(n) \/ \E t \in Ids : UpdateTag(t, n)
        \/ \E t \in Ids : DeleteTag(t)
        \/ UNCHANGED <<name, autoinc>>
    BY DEF Next, vars, Link, Open, Restart, DeleteHost, Read, CreateRead, UpdateRead, Create,
       UpdateRow, Look, Replace, GiveUp
  <1> QED
    BY <1>4, <1>5, <1>6, <1>7, <1>8, <1>9

-----------------------------------------------------------------------------
(* Hosts and their rows *)

\* No step makes a host that has a row one that never had one.
LEMMA LifeStaysUsed ==
  ASSUME TagsInv, [Next]_vars, NEW h \in Hosts, life[h] # "unused" PROVE life'[h] # "unused"
  <1> USE DEF tables, migration
  <1>1. life \in [Hosts -> {"unused", "present", "deleted"}]
    BY DEF TagsInv, TypeOK
  <1>2. \/ \E g \in Hosts : life' = [life EXCEPT ![g] = "deleted"]
        \/ \E r \in Requests : life' = [life EXCEPT ![req[r].host] = "present"]
        \/ life' = life
    BY DEF Next, vars, Import, Link, Open, Restart, CreateTag, UpdateTag, DeleteTag,
       DeleteHost, Read, CreateRead, UpdateRead, Create, UpdateRow, Look, Replace, GiveUp
  <1> QED
    BY <1>1, <1>2

\* The items of the older version.
LEMMA LegacyHosts ==
  ASSUME NEW i \in DOMAIN Legacy
  PROVE  Legacy[i][1] \in Hosts /\ Legacy[i][2] \in Names /\ i \in 1..Len(Legacy)
  BY LegacyIsPairs

\* The rows a request adds are finitely many.
LEMMA FiniteRows ==
  ASSUME NEW h, NEW S \in SUBSET Ids PROVE IsFiniteSet({<<h, t>> : t \in S})
  <1>1. IsFiniteSet(Ids)
    BY BoundIsId, FS_Interval DEF Ids
  <1>2. IsFiniteSet(S)
    BY <1>1, FS_Subset
  <1>3. IsFiniteSet({h})
    BY FS_Singleton
  <1>4. IsFiniteSet({h} \X S)
    BY <1>2, <1>3, FS_Product
  <1>5. {<<h, t>> : t \in S} = {h} \X S
    OBVIOUS
  <1> QED
    BY <1>4, <1>5

\* Every step keeps what belongs to hosts apart from the migration.
LEMMA LifeStep == ASSUME TagsInv, [Next]_vars PROVE LifeInv'
  <1> USE DEF tables, migration
  <1>0. /\ column \in BOOLEAN /\ up \in BOOLEAN /\ TypeOK /\ LifeInv
        /\ life \in [Hosts -> {"unused", "present", "deleted"}]
        /\ rows \subseteq Hosts \X Nat /\ pos \in 1..Len(Legacy) + 1
    BY DEF TagsInv, TypeOK
  <1>1. (column => ~up)'
    BY <1>0 DEF LifeInv, Next, vars, Import, Link, Open, Restart, CreateTag, UpdateTag,
       DeleteTag, DeleteHost, Read, CreateRead, UpdateRead, Create, UpdateRow, Look, Replace,
       GiveUp
  <1>2. (~up => \A r \in Requests : req[r] = Idle)'
    <2>1. CASE Restart
      BY <2>1 DEF Restart
    <2>2. CASE req' = req /\ up' = up
      BY <1>0, <2>2 DEF LifeInv
    <2>3. CASE up'
      BY <2>3
    <2>4. ASSUME NEW r \in Requests, req[r].step # "idle" PROVE up
      BY <1>0, <2>4 DEF LifeInv, Idle
    <2>5. ASSUME NEW r \in Requests,
                 \/ Create(r) \/ UpdateRow(r) \/ Look(r) \/ Replace(r) \/ GiveUp(r)
                 \/ \E h \in Hosts, N \in Wants : CreateRead(r, h, N) \/ UpdateRead(r, h, N)
          PROVE  up'
      BY <2>4, <2>5 DEF Read, CreateRead, UpdateRead, Create, UpdateRow, Look, Replace, GiveUp
    <2>6. ASSUME \/ Import \/ Link \/ (\E h \in Hosts : DeleteHost(h))
                 \/ (\E n \in Names : CreateTag(n)) \/ UNCHANGED vars
          PROVE  UNCHANGED <<req, up>>
      BY <2>6 DEF vars, Import, Link, DeleteHost, CreateTag
    <2>7. Open \/ (\E t \in Ids : DeleteTag(t) \/ \E n \in Names : UpdateTag(t, n)) => up'
      BY DEF Open, UpdateTag, DeleteTag
    <2> QED
      BY <2>1, <2>2, <2>3, <2>5, <2>6, <2>7 DEF Next
  <1>3. (id # 0 => column /\ pos <= Len(Legacy))'
    <2>1. CASE Import
      BY <2>1, ImportType, <1>0 DEF Import
    <2>2. CASE Link \/ Restart
      BY <2>2 DEF Link, Restart
    <2>3. CASE Open
      <3>1. id = 0
        BY <1>0, <2>3, LegacyIsPairs DEF Open, AllLinked, LifeInv
      <3> QED
        BY <2>3, <3>1 DEF Open
    <2>4. CASE UNCHANGED <<id, column, pos>>
      BY <1>0, <2>4 DEF LifeInv
    <2>5. Import \/ Link \/ Restart \/ Open \/ UNCHANGED <<id, column, pos>>
      BY DEF Next, vars, CreateTag, UpdateTag, DeleteTag,
         DeleteHost, Read, CreateRead, UpdateRead, Create, UpdateRow, Look, Replace, GiveUp
    <2> QED
      BY <2>1, <2>2, <2>3, <2>4, <2>5
  <1>4. \A i \in DOMAIN Legacy : life'[Legacy[i][1]] # "unused"
    BY <1>0, LegacyHosts, LifeStaysUsed DEF LifeInv
  <1>5. (column => \A h \in Hosts : life[h] # "deleted")'
    <2>1. CASE life' = life /\ (column' => column)
      BY <1>0, <2>1 DEF LifeInv
    <2>2. ASSUME NEW r \in Requests, Create(r) PROVE ~column'
      BY <1>0, <2>2 DEF Create, LifeInv, Idle
    <2>3. ASSUME NEW h \in Hosts, DeleteHost(h) PROVE ~column'
      BY <1>0, <2>3 DEF DeleteHost, LifeInv
    <2>4. \/ life' = life /\ (column' => column)
          \/ \E r \in Requests : Create(r)
          \/ \E h \in Hosts : DeleteHost(h)
      BY DEF Next, vars, Import, Link, Open, Restart, CreateTag, UpdateTag, DeleteTag,
         Read, CreateRead, UpdateRead, UpdateRow, Look, Replace, GiveUp
    <2> QED
      BY <2>1, <2>2, <2>3, <2>4
  <1>6. (\A w \in rows : life[w[1]] # "unused")' /\ IsFiniteSet(rows')
    <2>0. /\ \A w \in rows : w[1] \in Hosts /\ life[w[1]] # "unused" /\ life'[w[1]] # "unused"
          /\ IsFiniteSet(rows)
      BY <1>0, LifeStaysUsed DEF LifeInv
    <2>1. CASE Link
      <3>1. Item[1] \in Hosts /\ Item[1] = Legacy[pos][1] /\ pos \in DOMAIN Legacy
        BY <1>0, <2>1, ItemIs, LegacyIsPairs DEF Link, Item
      <3>2. rows' = rows \cup {<<Item[1], id>>}
        BY <2>1 DEF Link
      <3>3. IsFiniteSet(rows')
        BY <2>0, <3>2, FS_AddElement
      <3>4. \A w \in rows' : w \in rows \/ w[1] = Item[1]
        BY <3>2
      <3>5. life'[Item[1]] # "unused"
        BY <1>4, <3>1
      <3> QED
        BY <2>0, <3>3, <3>4, <3>5
    <2>2. ASSUME NEW r \in Requests, Create(r)
          PROVE  (\A w \in rows : life[w[1]] # "unused")' /\ IsFiniteSet(rows')
      <3> DEFINE S == {s \in Live : name[s] \in req[r].found}
      <3>1. /\ rows' = rows \cup {<<req[r].host, t>> : t \in S}
            /\ life' = [life EXCEPT ![req[r].host] = "present"]
        BY <2>2 DEF Create
      <3>2. S \in SUBSET Ids /\ req[r].host \in Hosts
        BY <1>0, <2>2, IsBusy DEF Create, Live, Busy
      <3>3. IsFiniteSet({<<req[r].host, t>> : t \in S})
        BY <3>2, FiniteRows
      <3>4. IsFiniteSet(rows')
        BY <2>0, <3>1, <3>3, FS_Union
      <3>5. \A w \in rows' : w \in rows \/ w[1] = req[r].host
        BY <3>1
      <3> QED
        BY <1>0, <2>0, <3>1, <3>2, <3>4, <3>5
    <2>3. ASSUME NEW r \in Requests, Replace(r)
          PROVE  (\A w \in rows : life[w[1]] # "unused")' /\ IsFiniteSet(rows')
      <3> DEFINE h == req[r].host
                 S == req[r].ids
      <3>1. rows' = {w \in rows : w[1] # h} \cup {<<h, t>> : t \in S} /\ life' = life
        BY <2>3 DEF Replace, Replaced
      <3>2. S \in SUBSET Ids /\ life[h] # "unused"
        BY <1>0, <2>3, IsBusy DEF Replace, Busy, TagsInv, RequestInv, HostIsRight
      <3>3. IsFiniteSet({<<h, t>> : t \in S})
        BY <3>2, FiniteRows
      <3>4. IsFiniteSet({w \in rows : w[1] # h})
        BY <2>0, FS_Subset
      <3>5. IsFiniteSet(rows')
        BY <3>1, <3>3, <3>4, FS_Union
      <3> QED
        BY <2>0, <3>1, <3>2, <3>5
    <2>4. CASE rows' \in SUBSET rows
      BY <2>0, <2>4, FS_Subset
    <2>5. rows' \in SUBSET rows \/ Link \/ \E r \in Requests : Create(r) \/ Replace(r)
      BY DEF Next, vars, Import, Open, Restart, CreateTag, UpdateTag, DeleteTag,
         DeleteHost, Read, CreateRead, UpdateRead, UpdateRow, Look, GiveUp
    <2> QED
      BY <2>1, <2>2, <2>3, <2>4, <2>5
  <1> QED
    BY <1>1, <1>2, <1>3, <1>4, <1>5, <1>6 DEF LifeInv

-----------------------------------------------------------------------------
(* Requests *)

\* Nothing is asked of a request that has not started.
LEMMA IdleIsRight ==
  ASSUME NEW r \in Requests, req[r] = Idle
  PROVE  HostIsRight(r) /\ Exact(r) /\ \A t \in req[r].ids : t <= autoinc
  BY DEF HostIsRight, Exact, Idle

\* A request goes on undisturbed when others change tags, as long as those it calls
\* steady are as they were.
LEMMA StaysExact ==
  ASSUME NEW r \in Requests, Exact(r),
         req'[r].step = req[r].step, req'[r].found = req[r].found,
         req'[r].ids = req[r].ids, req'[r].want = req[r].want,
         req'[r].steady \subseteq req[r].steady,
         \A t \in req'[r].steady : t \in Live => t \in Live' /\ name'[t] = name[t]
  PROVE  Exact(r)'
  BY DEF Exact

\* Steps that are no request's.
LEMMA OthersLeaveRequests ==
  ASSUME TagsInv,
         \/ Import \/ Link \/ Open \/ UNCHANGED vars
         \/ \E n \in Names : CreateTag(n) \/ \E t \in Ids : UpdateTag(t, n)
         \/ \E t \in Ids : DeleteTag(t)
         \/ \E h \in Hosts : DeleteHost(h),
         autoinc <= autoinc', autoinc' \in Nat
  PROVE  RequestInv'
  <1> USE DEF tables, migration
  <1>0. /\ name \in [Ids -> Names \cup {None}] /\ autoinc \in Nat
        /\ life \in [Hosts -> {"unused", "present", "deleted"}]
        /\ req \in [Requests -> {Idle} \cup Busy]
        /\ \A t \in Live : t <= autoinc
        /\ TypeOK /\ LifeInv
    BY TypeIs DEF TagsInv, TypeOK, NamesInv
  <1>1. CASE Import \/ Link
    <2>1. \A r \in Requests : req'[r] = Idle
      BY <1>0, <1>1 DEF LifeInv, Import, Link
    <2> QED
      BY <2>1 DEF RequestInv, HostIsRight, Exact, Idle
  <1> SUFFICES ASSUME ~Import, ~Link, NEW r \in Requests
               PROVE  /\ HostIsRight(r)' /\ Exact(r)'
                      /\ \A t \in req'[r].ids : t <= autoinc'
    BY <1>1 DEF RequestInv
  <1>2. HostIsRight(r) /\ Exact(r) /\ \A t \in req[r].ids : t <= autoinc
    BY DEF TagsInv, RequestInv
  <1>3. \/ req' = req
        \/ \E t \in Ids : Unsteady(t)
    BY DEF vars, Open, CreateTag, UpdateTag, DeleteTag, DeleteHost
  <1>4. \A q \in Requests :
          /\ req'[q].step = req[q].step /\ req'[q].found = req[q].found
          /\ req'[q].host = req[q].host
          /\ req'[q].ids = req[q].ids /\ req'[q].want = req[q].want
          /\ req'[q].steady \subseteq req[q].steady
    BY <1>0, <1>3 DEF Unsteady, Idle, Busy
  <1>5. HostIsRight(r)'
    <2>1. \/ life' = life
          \/ \E h \in Hosts : life[h] = "present" /\ life' = [life EXCEPT ![h] = "deleted"]
      BY DEF vars, Open, CreateTag, UpdateTag, DeleteTag, DeleteHost
    <2>2. CASE req[r].step = "idle"
      BY <1>4, <2>2 DEF HostIsRight
    <2>3. CASE req[r].step # "idle"
      <3>1. req[r].host \in Hosts
        BY <1>0, <2>3, IsBusy DEF Busy
      <3>2. life'[req[r].host] = "unused" <=> life[req[r].host] = "unused"
        BY <1>0, <2>1, <3>1
      <3> QED
        BY <1>2, <1>4, <3>2 DEF HostIsRight
    <2> QED
      BY <2>2, <2>3
  <1>6. ASSUME NEW t \in Ids, NEW n \in Names, UpdateTag(t, n) \/ DeleteTag(t)
        PROVE  Exact(r)'
    <2>1. t \notin req'[r].steady
      BY <1>0, <1>6 DEF UpdateTag, DeleteTag, Unsteady, Idle, Busy
    <2>2. \A s \in Ids \ {t} : name'[s] = name[s]
      BY <1>0, <1>6 DEF UpdateTag, DeleteTag
    <2>3. \A s \in req'[r].steady : s \in Live => s \in Live' /\ name'[s] = name[s]
      BY <2>1, <2>2 DEF Live
    <2> QED
      BY <1>2, <1>4, <2>3, StaysExact
  <1>7. ASSUME NEW n \in Names, CreateTag(n) PROVE Exact(r)'
    <2>1. NextId \notin Live /\ name' = [name EXCEPT ![NextId] = n]
      BY <1>0, <1>7 DEF CreateTag, NextId
    <2>2. \A s \in Live : s \in Live' /\ name'[s] = name[s]
      BY <1>0, <2>1 DEF Live
    <2> QED
      BY <1>2, <1>4, <2>2, StaysExact
  <1>8. ASSUME name' = name PROVE Exact(r)'
    <2>1. \A s \in Live : s \in Live' /\ name'[s] = name[s]
      BY <1>8 DEF Live
    <2> QED
      BY <1>2, <1>4, <2>1, StaysExact
  <1>9. \A t \in req'[r].ids : t <= autoinc'
    <2>1. req[r].ids \subseteq Nat
      BY <1>0, IsBusy, IsIdle DEF Busy, Ids, Idle
    <2> QED
      BY <1>0, <1>2, <1>4, <2>1
  <1>10. \/ name' = name
         \/ \E n \in Names : CreateTag(n)
         \/ \E t \in Ids : DeleteTag(t) \/ \E n \in Names : UpdateTag(t, n)
    BY DEF vars, Open, DeleteHost
  <1>11. Exact(r)'
    <2>1. ASSUME NEW t \in Ids, DeleteTag(t) PROVE Exact(r)'
      <3>1. Names # {}
        BY <1>0, <2>1, NoneIsNoName DEF DeleteTag, Live
      <3> QED
        BY <1>6, <2>1, <3>1
    <2> QED
      BY <1>6, <1>7, <1>8, <1>10, <2>1
  <1> QED
    BY <1>5, <1>9, <1>11

\* What a request reads names every tag there is, so it knows which it wants.
LEMMA ReadIsRight ==
  ASSUME TagsInv, NEW r \in Requests, NEW h \in Hosts, NEW N \in Wants,
         CreateRead(r, h, N) \/ UpdateRead(r, h, N)
  PROVE  HostIsRight(r)' /\ Exact(r)' /\ \A t \in req'[r].ids : t <= autoinc'
  <1> USE DEF tables, migration
  <1>1. PICK step \in {"creating", "named"} :
          /\ Read(r, step, h, N)
          /\ step = "creating" => life[h] = "unused" /\ \A q \in Requests : req[q].host # h
          /\ step = "named" => life[h] # "unused"
    BY DEF CreateRead, UpdateRead
  <1>2. /\ req[r].step = "idle" /\ req \in [Requests -> {Idle} \cup Busy]
        /\ req' = [req EXCEPT ![r] = [step |-> step, host |-> h, want |-> N,
                        found |-> N \cap Held, ids |-> {}, steady |-> Live]]
        /\ UNCHANGED <<life, name>>
    BY <1>1, TypeIs DEF Read, TagsInv
  <1>3. /\ req'[r].step = step /\ req'[r].host = h /\ req'[r].want = N
        /\ req'[r].found = N \cap Held /\ req'[r].ids = {} /\ req'[r].steady = Live
        /\ \A q \in Requests \ {r} : req'[q] = req[q]
    BY <1>2
  <1>4. req[r].host = None
    BY <1>2, IsIdle DEF TagsInv, Idle
  <1>5. HostIsRight(r)'
    BY <1>1, <1>2, <1>3, <1>4 DEF HostIsRight
  <1>6. Exact(r)'
    BY <1>2, <1>3 DEF Exact, Live, Held
  <1> QED
    BY <1>3, <1>5, <1>6

\* One request moves on.
LEMMA MoveIsRight ==
  ASSUME TagsInv, NEW r \in Requests, UpdateRow(r) \/ Look(r)
  PROVE  HostIsRight(r)' /\ Exact(r)' /\ \A t \in req'[r].ids : t <= autoinc'
  <1> USE DEF tables, migration
  <1>1. req[r] \in Busy /\ req \in [Requests -> {Idle} \cup Busy]
    BY IsBusy, TypeIs DEF TagsInv, UpdateRow, Look
  <1>2. HostIsRight(r) /\ Exact(r) /\ \A t \in req[r].ids : t <= autoinc
    BY DEF TagsInv, RequestInv
  <1>3. \A t \in Live : t <= autoinc
    BY DEF TagsInv, NamesInv
  <1>4. CASE UpdateRow(r)
    <2>1. /\ req'[r] = [req[r] EXCEPT !.step = "updated"] /\ req[r].step = "named"
          /\ UNCHANGED <<life, name, autoinc>>
      BY <1>1, <1>4 DEF UpdateRow
    <2>2. /\ req'[r].step = "updated" /\ req'[r].host = req[r].host
          /\ req'[r].ids = req[r].ids /\ req'[r].want = req[r].want
          /\ req'[r].found = req[r].found /\ req'[r].steady = req[r].steady
      BY <1>1, <2>1 DEF Busy
    <2>3. Exact(r)'
      BY <1>2, <2>1, <2>2 DEF Exact, Live
    <2> QED
      BY <1>2, <2>1, <2>2, <2>3 DEF HostIsRight
  <1>5. CASE Look(r)
    <2> DEFINE S == {t \in Live : name[t] \in req[r].found}
    <2>1. /\ req'[r] = [req[r] EXCEPT !.step = "looked", !.found = {}, !.ids = S]
          /\ req[r].step = "updated" /\ UNCHANGED <<life, name, autoinc>>
      BY <1>1, <1>5 DEF Look
    <2>2. /\ req'[r].step = "looked" /\ req'[r].host = req[r].host
          /\ req'[r].ids = S /\ req'[r].want = req[r].want
          /\ req'[r].steady = req[r].steady
      BY <1>1, <2>1 DEF Busy
    <2>3. Exact(r)'
      BY <1>2, <2>1, <2>2 DEF Exact, Live
    <2> QED
      BY <1>2, <1>3, <2>1, <2>2, <2>3 DEF HostIsRight
  <1> QED
    BY <1>4, <1>5

\* Every step leaves each request with what it needs to be exact.
LEMMA RequestsStep ==
  ASSUME TagsInv, [Next]_vars, autoinc <= autoinc', autoinc' \in Nat PROVE RequestInv'
  <1> USE DEF tables, migration
  <1>0. /\ req \in [Requests -> {Idle} \cup Busy]
        /\ life \in [Hosts -> {"unused", "present", "deleted"}]
        /\ TypeOK
    BY TypeIs DEF TagsInv
  <1>1. CASE Restart
    BY <1>1 DEF Restart, RequestInv, HostIsRight, Exact, Idle
  <1>2. ASSUME NEW r \in Requests, NEW v,
               req' = [req EXCEPT ![r] = v], UNCHANGED <<name, autoinc>>,
               HostIsRight(r)', Exact(r)', \A t \in req'[r].ids : t <= autoinc',
               \A h \in Hosts : life[h] # "unused" => life'[h] # "unused",
               \A q \in Requests \ {r} : req[q].step = "creating" =>
                 v.host # req[q].host /\ life'[req[q].host] = "unused"
        PROVE  RequestInv'
    <2> SUFFICES ASSUME NEW q \in Requests \ {r}
                 PROVE  HostIsRight(q)' /\ Exact(q)' /\ \A t \in req'[q].ids : t <= autoinc'
      BY <1>2 DEF RequestInv
    <2>1. req'[q] = req[q] /\ req'[r] = v /\ \A p \in Requests \ {r} : req'[p] = req[p]
      BY <1>0, <1>2
    <2>2. HostIsRight(q) /\ Exact(q) /\ \A t \in req[q].ids : t <= autoinc
      BY DEF TagsInv, RequestInv
    <2>3. Exact(q)'
      BY <1>2, <2>1, <2>2 DEF Exact, Live
    <2>4. HostIsRight(q)'
      <3>1. CASE req[q].step = "creating"
        BY <1>2, <2>1, <2>2, <3>1 DEF HostIsRight
      <3>2. CASE req[q].step \in {"named", "updated", "looked"}
        <4>1. req[q].host \in Hosts
          BY <1>0, <3>2, IsBusy DEF Busy
        <4> QED
          BY <1>2, <2>1, <2>2, <3>2, <4>1 DEF HostIsRight
      <3> QED
        BY <2>1, <3>1, <3>2 DEF HostIsRight
    <2> QED
      BY <1>2, <2>1, <2>2, <2>3, <2>4
  <1>3. \A q \in Requests : req[q].step = "creating" =>
          /\ req[q].host # None /\ req[q].host \in Hosts /\ life[req[q].host] = "unused"
          /\ \A p \in Requests : req[p].host = req[q].host => p = q
    BY <1>0, IsBusy DEF TagsInv, RequestInv, HostIsRight, Busy
  <1>4. \A h \in Hosts : life[h] # "unused" => life'[h] # "unused"
    BY LifeStaysUsed
  <1>5. ASSUME NEW r \in Requests, NEW h \in Hosts, NEW N \in Wants,
               CreateRead(r, h, N) \/ UpdateRead(r, h, N)
        PROVE  RequestInv'
    <2>1. PICK v : /\ req' = [req EXCEPT ![r] = v] /\ v.host = h
                   /\ UNCHANGED <<name, autoinc, life>>
      <3>1. PICK step \in {"creating", "named"} : Read(r, step, h, N)
        BY <1>5 DEF CreateRead, UpdateRead
      <3> DEFINE u == [step |-> step, host |-> h, want |-> N, found |-> N \cap Held,
                       ids |-> {}, steady |-> Live]
      <3>2. u.host = h
        OBVIOUS
      <3>3. req' = [req EXCEPT ![r] = u] /\ UNCHANGED <<name, autoinc, life>>
        BY <3>1 DEF Read
      <3> HIDE DEF u
      <3> QED
        BY <3>2, <3>3
    <2>2. \/ life[h] # "unused"
          \/ \A q \in Requests : req[q].host # h
      BY <1>5 DEF CreateRead, UpdateRead
    <2>3. \A q \in Requests \ {r} : req[q].step = "creating" =>
            v.host # req[q].host /\ life'[req[q].host] = "unused"
      BY <1>3, <2>1, <2>2
    <2> QED
      BY <1>2, <1>4, <1>5, <2>1, <2>3, ReadIsRight
  <1>6. ASSUME NEW r \in Requests, UpdateRow(r) \/ Look(r) PROVE RequestInv'
    <2>1. PICK v : /\ req' = [req EXCEPT ![r] = v] /\ v.host = req[r].host
                   /\ UNCHANGED <<name, autoinc, life>>
      <3>1. req[r] \in Busy
        BY <1>0, <1>6, IsBusy DEF UpdateRow, Look
      <3> DEFINE S == {t \in Live : name[t] \in req[r].found}
                 u == [req[r] EXCEPT !.step = "updated"]
                 w == [req[r] EXCEPT !.step = "looked", !.found = {}, !.ids = S]
      <3>2. u.host = req[r].host /\ w.host = req[r].host
        BY <3>1 DEF Busy
      <3>3. /\ req' = [req EXCEPT ![r] = u] \/ req' = [req EXCEPT ![r] = w]
            /\ UNCHANGED <<name, autoinc, life>>
        BY <1>0, <1>6 DEF UpdateRow, Look
      <3> QED
        BY <3>2, <3>3
    <2>2. \A q \in Requests \ {r} : req[q].step = "creating" =>
            v.host # req[q].host /\ life'[req[q].host] = "unused"
      BY <1>3, <2>1
    <2> QED
      BY <1>2, <1>4, <1>6, <2>1, <2>2, MoveIsRight
  <1>7. ASSUME NEW r \in Requests, Create(r) \/ Replace(r) \/ GiveUp(r) PROVE RequestInv'
    <2>1. /\ req' = [req EXCEPT ![r] = Idle] /\ UNCHANGED <<name, autoinc>>
      BY <1>7 DEF Create, Replace, GiveUp
    <2>2. req'[r] = Idle
      BY <1>0, <2>1
    <2>3. HostIsRight(r)' /\ Exact(r)' /\ \A t \in req'[r].ids : t <= autoinc'
      BY <2>2 DEF HostIsRight, Exact, Idle
    <2>4. \A q \in Requests \ {r} : req[q].step = "creating" =>
            Idle.host # req[q].host /\ life'[req[q].host] = "unused"
      <3>1. life' = life \/ life' = [life EXCEPT ![req[r].host] = "present"]
        BY <1>7 DEF Create, Replace, GiveUp
      <3> QED
        BY <1>0, <1>3, <3>1 DEF Idle
    <2> QED
      BY <1>2, <1>4, <2>1, <2>3, <2>4
  <1> QED
    BY <1>1, <1>5, <1>6, <1>7, OthersLeaveRequests DEF Next

\* The invariant holds at first ...
LEMMA TagsInvInit == Init => TagsInv
  <1> SUFFICES ASSUME Init PROVE TagsInv
    OBVIOUS
  <1>1. TypeOK
    BY TagsTypeInit
  <1>2. NamesInv
    BY DEF Init, NamesInv, Live
  <1>3. LifeInv
    <2>1. IsFiniteSet({})
      BY FS_EmptySet
    <2> QED
      BY <2>1, LegacyHosts DEF Init, LifeInv
  <1>4. RequestInv
    BY IdleIsRight DEF Init, RequestInv
  <1> QED
    BY <1>1, <1>2, <1>3, <1>4 DEF TagsInv

\* ... every step keeps it ...
LEMMA TagsInvStep == TagsInv /\ [Next]_vars => TagsInv'
  <1> SUFFICES ASSUME TagsInv, [Next]_vars PROVE TagsInv'
    OBVIOUS
  <1>1. TypeOK'
    BY TagsTypeStep DEF TagsInv
  <1>2. autoinc' \in Nat
    BY <1>1, BoundIsId DEF TypeOK
  <1> QED
    BY <1>1, <1>2, NamesStep, LifeStep, RequestsStep DEF TagsInv

\* ... and so it always holds.
LEMMA TagsInvHolds == Spec => []TagsInv
  BY TagsInvInit, TagsInvStep, PTL DEF Spec

\* The variables of Tags keep their types; no two tags have one name, and none an id that
\* was not given yet; and a request holds what it has found of every tag that was neither
\* created nor deleted since it looked.
THEOREM TagsTypeCorrect == Spec => [](TypeOK /\ NamesInv /\ RequestInv)
  <1>1. TagsInv => TypeOK /\ NamesInv /\ RequestInv
    BY DEF TagsInv
  <1> QED
    BY <1>1, TagsInvHolds, PTL

-----------------------------------------------------------------------------
(* What an update leaves *)

\* A host without a row has no tags, so a creation gives exactly those it found.
LEMMA CreateIsExact ==
  ASSUME TagsInv, NEW r \in Requests, Create(r), NEW t \in req[r].steady
  PROVE  <<req[r].host, t>> \in rows' <=> name[t] \in req[r].want
  <1>1. req[r] \in Busy
    BY IsBusy DEF TagsInv, Create
  <1>2. req[r].step = "creating" /\ HostIsRight(r) /\ Exact(r)
    BY DEF Create, TagsInv, RequestInv
  <1>3. t \in Live /\ (name[t] \in req[r].found <=> name[t] \in req[r].want)
    BY <1>2 DEF Exact
  <1>4. <<req[r].host, t>> \notin rows
    BY <1>1, <1>2 DEF HostIsRight, TagsInv, LifeInv
  <1>5. rows' = rows \cup {<<req[r].host, u>> : u \in {s \in Live : name[s] \in req[r].found}}
    BY DEF Create
  <1> QED
    BY <1>3, <1>4, <1>5

\* An update replaces all rows of the host by the ids it has looked up.
LEMMA ReplaceIsExact ==
  ASSUME TagsInv, NEW r \in Requests, Replace(r), NEW t \in req[r].steady
  PROVE  <<req[r].host, t>> \in rows' <=> name[t] \in req[r].want
  <1>1. req[r].step = "looked" /\ Exact(r)
    BY DEF Replace, TagsInv, RequestInv
  <1>2. t \in req[r].ids <=> name[t] \in req[r].want
    BY <1>1 DEF Exact
  <1>3. rows' = {w \in rows : w[1] # req[r].host} \cup ({req[r].host} \X req[r].ids)
    BY DEF Replace, Replaced
  <1> QED
    BY <1>2, <1>3

\* When an update or a creation is done, every tag nobody touched meanwhile is on
\* the host exactly if the request asked for it, whatever else went on.
THEOREM UpdatesAreExact == Spec => UpdateIsExact
  <1>1. TagsInv => (\A r \in Requests :
                      Create(r) \/ Replace(r) =>
                        \A t \in req[r].steady :
                          <<req[r].host, t>> \in rows' <=> name[t] \in req[r].want)
    BY CreateIsExact, ReplaceIsExact
  <1> QED
    BY <1>1, TagsInvHolds, PTL DEF UpdateIsExact

-----------------------------------------------------------------------------
(* The migration *)

\* While the column is there only the migration and restarts change anything.
LEMMA OnlyMigration ==
  ASSUME TagsInv, [Next]_vars, column'
  PROVE  column /\ (Import \/ Link \/ Restart \/ UNCHANGED <<tables, migration>>)
  <1> USE DEF tables, migration
  <1>1. column \in BOOLEAN /\ (column => ~up)
    BY DEF TagsInv, TypeOK, LifeInv
  <1>2. ASSUME NEW r \in Requests, req[r].step # "idle" PROVE up
    BY <1>2 DEF TagsInv, LifeInv, Idle
  <1>3. ~Open
    BY DEF Open
  <1>4. column = column'
    BY <1>3 DEF Next, vars, Import, Link, Restart, CreateTag, UpdateTag, DeleteTag,
       DeleteHost, Read, CreateRead, UpdateRead, Create, UpdateRow, Look, Replace, GiveUp
  <1>5. ~up
    BY <1>1, <1>4
  <1>6. ASSUME NEW r \in Requests
        PROVE  ~Create(r) /\ ~UpdateRow(r) /\ ~Look(r) /\ ~Replace(r) /\ ~GiveUp(r)
    BY <1>2, <1>5 DEF Create, UpdateRow, Look, Replace, GiveUp
  <1>7. Import \/ Link \/ Restart \/ UNCHANGED vars
    BY <1>3, <1>5, <1>6 DEF Next, CreateTag, UpdateTag, DeleteTag, DeleteHost, CreateRead,
       UpdateRead, Read
  <1> QED
    BY <1>4, <1>7 DEF vars

\* Every row that the migration adds has used up an id.
LEMMA CountStep ==
  ASSUME TagsInv, RowsInv, [Next]_vars, column'
  PROVE  /\ last' <= autoinc' /\ (id' # 0 => id' \in 1..autoinc')
         /\ Cardinality(rows') + (IF id' = 0 THEN 0 ELSE 1) <= autoinc'
  <1> USE DEF tables, migration
  <1>0. /\ column /\ last <= autoinc /\ (id # 0 => id \in 1..autoinc)
        /\ Cardinality(rows) + (IF id = 0 THEN 0 ELSE 1) <= autoinc
        /\ autoinc \in Nat /\ id \in Nat /\ last \in Nat /\ Cardinality(rows) \in Nat
        /\ IsFiniteSet(rows) /\ \A t \in Live : t \in 1..autoinc
    <2>1. IsFiniteSet(rows) /\ autoinc \in Nat /\ id \in Nat /\ last \in Nat
      BY DEF TagsInv, TypeOK, LifeInv
    <2>2. Cardinality(rows) \in Nat
      BY <2>1, FS_CardinalityType
    <2>3. \A t \in Live : t \in 1..autoinc
      BY <2>1 DEF TagsInv, NamesInv, Live, Ids
    <2>4. column
      BY OnlyMigration
    <2> QED
      BY <2>1, <2>2, <2>3, <2>4 DEF RowsInv
  <1>1. CASE Import
    <2>1. id = 0 /\ rows' = rows /\ autoinc' = autoinc + 1
      BY <1>1 DEF Import
    <2>2. CASE Item[2] \in Held
      <3>1. last' = last /\ id' = FoundId(Item[2])
        BY <1>1, <2>2 DEF Import
      <3>2. ASSUME last = 0 PROVE id' \in 1..autoinc
        <4>1. PICK t \in Live : name[t] = Item[2]
          BY <2>2 DEF Held
        <4>2. (CHOOSE u \in Ids : name[u] = Item[2]) \in Live
          BY <4>1 DEF Live
        <4> QED
          BY <1>0, <3>1, <3>2, <4>2 DEF FoundId
      <3>3. last # 0 => id' = last
        BY <3>1 DEF FoundId
      <3>4. id' \in 1..autoinc
        BY <1>0, <3>2, <3>3
      <3> QED
        BY <1>0, <2>1, <3>1, <3>4
    <2>3. CASE Item[2] \notin Held
      <3>1. last' = autoinc + 1 /\ id' = autoinc + 1
        BY <1>1, <2>3 DEF Import, NextId
      <3> QED
        BY <1>0, <2>1, <3>1
    <2> QED
      BY <2>2, <2>3
  <1>2. CASE Link
    <2>1. /\ id # 0 /\ id' = 0 /\ autoinc' = autoinc
          /\ rows' = rows \cup {<<Item[1], id>>}
          /\ last' = IF <<Item[1], id>> \in rows THEN last ELSE Cardinality(rows) + 1
      BY <1>2 DEF Link
    <2>2. /\ IsFiniteSet(rows') /\ Cardinality(rows') \in Nat
          /\ Cardinality(rows') = Cardinality(rows) \/ Cardinality(rows') = Cardinality(rows) + 1
      <3>1. /\ IsFiniteSet(rows')
            /\ Cardinality(rows') = IF <<Item[1], id>> \in rows THEN Cardinality(rows)
                                     ELSE Cardinality(rows) + 1
        BY <1>0, <2>1, FS_AddElement
      <3> QED
        BY <1>0, <3>1
    <2> QED
      BY <1>0, <2>1, <2>2
  <1>3. CASE Restart
    BY <1>0, <1>3 DEF Restart
  <1>4. CASE UNCHANGED <<tables, migration>>
    BY <1>0, <1>4
  <1> QED
    BY <1>1, <1>2, <1>3, <1>4, OnlyMigration

\* No row is of a tag that has no id yet.
LEMMA RowsStep == ASSUME TagsInv, RowsInv, [Next]_vars PROVE RowsInv'
  <1> USE DEF tables, migration
  <1>0. /\ \A w \in rows : w[2] \in 1..autoinc
        /\ autoinc \in Nat /\ autoinc' \in Nat /\ autoinc <= autoinc'
        /\ \A t \in Live : t \in 1..autoinc
    BY NamesStep, TagsTypeStep DEF TagsInv, TypeOK, NamesInv, Live, Ids, RowsInv
  <1>1. ASSUME Link PROVE \A w \in rows' : w[2] \in 1..autoinc'
    <2>1. id \in 1..autoinc
      BY <1>0, <1>1 DEF Link, TagsInv, LifeInv, RowsInv
    <2>2. rows' = rows \cup {<<Item[1], id>>} /\ autoinc' = autoinc
      BY <1>1 DEF Link
    <2> QED
      BY <1>0, <2>1, <2>2
  <1>2. ASSUME NEW r \in Requests, Create(r) PROVE \A w \in rows' : w[2] \in 1..autoinc'
    BY <1>0, <1>2 DEF Create
  <1>3. ASSUME NEW r \in Requests, Replace(r) PROVE \A w \in rows' : w[2] \in 1..autoinc'
    <2>1. \A t \in req[r].ids : t \in 1..autoinc
      BY <1>0, <1>3, IsBusy DEF Replace, TagsInv, RequestInv, Busy, Ids
    <2> QED
      BY <1>0, <1>3, <2>1 DEF Replace, Replaced
  <1>4. rows' \in SUBSET rows \/ Link \/ \E r \in Requests : Create(r) \/ Replace(r)
    BY DEF Next, vars, Import, Open, Restart, CreateTag, UpdateTag, DeleteTag,
       DeleteHost, Read, CreateRead, UpdateRead, UpdateRow, Look, GiveUp
  <1>5. ASSUME rows' \in SUBSET rows PROVE \A w \in rows' : w[2] \in 1..autoinc'
    BY <1>0, <1>5
  <1>6. \A w \in rows' : w[2] \in 1..autoinc'
    BY <1>1, <1>2, <1>3, <1>4, <1>5
  <1> QED
    BY <1>6, CountStep DEF RowsInv

\* An older database has no tags, and no rows.
LEMMA RowsInit == Init => RowsInv
  BY FS_EmptySet DEF Init, RowsInv

\* So rows never get ahead of ids.
LEMMA RowsHold == Spec => [](TagsInv /\ RowsInv)
  <1>1. Init => TagsInv /\ RowsInv
    BY TagsInvInit, RowsInit
  <1>2. TagsInv /\ RowsInv /\ [Next]_vars => (TagsInv /\ RowsInv)'
    BY TagsInvStep, RowsStep
  <1> QED
    BY <1>1, <1>2, PTL DEF Spec

\* An import finds the tag of its own item, or makes it.
LEMMA MoveImport ==
  ASSUME NoSharedNames, TagsInv, Moved, Import PROVE Moved'
  <1>0. /\ name \in [Ids -> Names \cup {None}] /\ autoinc \in Nat /\ MaxId \in Nat
        /\ autoinc < MaxId /\ pos \in 1..Len(Legacy) /\ id = 0 /\ last \in Nat
        /\ \A t \in Live : t <= autoinc
        /\ UNCHANGED <<rows, pos>>
    BY BoundIsId, LegacyIsPairs DEF TagsInv, TypeOK, NamesInv, Import
  <1>1. pos \in DOMAIN Legacy /\ Item = Legacy[pos] /\ Item[2] \in Names
    BY <1>0, LegacyIsPairs, ItemIs DEF Item
  <1>2. CASE Item[2] \in Held
    <2>1. last = 0
      BY <1>0, <1>1, <1>2 DEF Moved
    <2>2. FoundId(Item[2]) \in Live /\ name[FoundId(Item[2])] = Item[2]
      BY <1>1, <1>2, <2>1, NoneIsNoName DEF FoundId, Held, Live
    <2>3. UNCHANGED <<name, last>> /\ id' = FoundId(Item[2])
      BY <1>2 DEF Import
    <2>4. UNCHANGED <<Live, Held>> /\ \A i : Linked(i)' <=> Linked(i)
      BY <1>0, <2>3 DEF Live, Held, Linked
    <2>5. Item' = Item
      BY <1>0 DEF Item
    <2> QED
      BY <1>0, <2>1, <2>2, <2>3, <2>4, <2>5 DEF Moved
  <1>3. CASE Item[2] \notin Held
    <2>1. id' = NextId /\ last' = NextId /\ name' = [name EXCEPT ![NextId] = Item[2]]
      BY <1>3 DEF Import
    <2>2. NextId \in Ids /\ NextId \notin Live /\ NextId # 0
      BY <1>0 DEF NextId, Ids
    <2>3. /\ Live' = Live \cup {NextId} /\ name'[NextId] = Item[2]
          /\ \A t \in Live : name'[t] = name[t]
      BY <1>0, <1>1, <2>1, <2>2, NoneIsNoName DEF Live
    <2>4. Held' = Held \cup {Item[2]}
      BY <2>2, <2>3 DEF Held
    <2>5. ASSUME NEW i, Linked(i) PROVE Linked(i)'
      BY <1>0, <2>3, <2>5 DEF Linked
    <2>6. ASSUME NEW w \in rows'
          PROVE  w[2] \in Live' /\ \E i \in DOMAIN Legacy : Legacy[i] = <<w[1], name'[w[2]]>>
      BY <1>0, <2>3, <2>6 DEF Moved
    <2>7. \A i \in 1..pos' - 1 : Linked(i)'
      BY <1>0, <2>5 DEF Moved
    <2>8. ASSUME NEW i \in DOMAIN Legacy, NEW j \in DOMAIN Legacy, i < j,
                 Legacy[j][2] \in Held'
          PROVE  Linked(i)'
      <3>1. CASE Legacy[j][2] \in Held
        BY <2>5, <2>8, <3>1 DEF Moved
      <3>2. CASE Legacy[j][2] = Item[2]
        <4>1. j = pos
          BY <1>1, <3>2 DEF NoSharedNames
        <4>2. i \in 1..pos - 1
          BY <2>8, <4>1, LegacyIsPairs
        <4> QED
          BY <2>5, <4>2 DEF Moved
      <3> QED
        BY <2>4, <2>8, <3>1, <3>2
    <2>9. id' \in Live' /\ name'[id'] = Item'[2]
      BY <1>0, <2>1, <2>3 DEF Item
    <2>10. ASSUME NEW i \in DOMAIN Legacy, pos <= i, Legacy[i][2] \in Held' PROVE i = pos
      <3>1. CASE Legacy[i][2] = Item[2]
        BY <1>1, <3>1 DEF NoSharedNames
      <3>2. CASE Legacy[i][2] \in Held
        <4>1. ASSUME pos < i PROVE FALSE
          <5>1. Linked(pos)
            BY <1>1, <3>2, <4>1 DEF Moved
          <5> QED
            BY <1>1, <1>3, <5>1 DEF Linked, Held
        <4> QED
          BY <1>0, <2>10, <4>1, LegacyIsPairs
      <3> QED
        BY <2>4, <2>10, <3>1, <3>2
    <2> QED
      BY <1>0, <2>1, <2>2, <2>6, <2>7, <2>8, <2>9, <2>10 DEF Moved
  <1> QED
    BY <1>2, <1>3

\* A row for the item: the last id is that of another table from now on, but the next
\* item has no tag yet, so nobody asks for it.
LEMMA MoveLink == ASSUME TagsInv, Moved, Link PROVE Moved'
  <1>0. /\ pos \in 1..Len(Legacy) /\ id # 0 /\ UNCHANGED name
        /\ rows' = rows \cup {<<Item[1], id>>} /\ pos' = pos + 1 /\ id' = 0
        /\ last' = IF <<Item[1], id>> \in rows THEN last ELSE Cardinality(rows) + 1
        /\ \A s, t \in Live : name[s] = name[t] => s = t
    BY LegacyIsPairs DEF TagsInv, TypeOK, NamesInv, Link
  <1>1. /\ pos \in DOMAIN Legacy /\ Item = Legacy[pos] /\ Item \in Hosts \X Names
    BY <1>0, LegacyIsPairs, ItemIs DEF Item
  <1>2. id \in Live /\ name[id] = Item[2]
    BY <1>0 DEF Moved
  <1>3. UNCHANGED <<Live, Held>>
    BY <1>0 DEF Live, Held
  <1>4. ASSUME NEW i, Linked(i) PROVE Linked(i)'
    BY <1>0, <1>3, <1>4 DEF Linked
  <1>5. ASSUME NEW i, i = pos PROVE Linked(i)'
    BY <1>0, <1>1, <1>2, <1>3, <1>5 DEF Linked
  <1>6. ASSUME NEW w \in rows'
        PROVE  w[2] \in Live' /\ \E i \in DOMAIN Legacy : Legacy[i] = <<w[1], name'[w[2]]>>
    <2>1. CASE w \in rows
      BY <1>0, <1>3, <2>1 DEF Moved
    <2>2. CASE w = <<Item[1], id>>
      <3>1. Legacy[pos] = <<w[1], name[w[2]]>>
        BY <1>1, <1>2, <2>2
      <3> QED
        BY <1>0, <1>1, <1>2, <1>3, <2>2, <3>1
    <2> QED
      BY <1>0, <1>6, <2>1, <2>2
  <1>7. \A i \in 1..pos' - 1 : Linked(i)'
    <2>1. \A i \in 1..pos' - 1 : i \in 1..pos - 1 \/ i = pos
      BY <1>0
    <2> QED
      BY <1>4, <1>5, <2>1 DEF Moved
  <1>8. \A i, j \in DOMAIN Legacy : i < j /\ Legacy[j][2] \in Held' => Linked(i)'
    BY <1>3, <1>4 DEF Moved
  <1>9. ASSUME last' # 0, NEW i \in DOMAIN Legacy, pos' <= i, Legacy[i][2] \in Held'
        PROVE  FALSE
    <2>1. pos < i /\ pos <= i /\ i # pos
      BY <1>0, <1>9, LegacyIsPairs
    <2>2. Linked(pos)
      BY <1>1, <1>3, <1>9, <2>1 DEF Moved
    <2>3. <<Item[1], id>> \in rows
      BY <1>0, <1>1, <1>2, <2>2 DEF Linked
    <2>4. last # 0
      BY <1>0, <1>9, <2>3
    <2> QED
      BY <1>3, <1>9, <2>1, <2>4 DEF Moved
  <1> QED
    BY <1>0, <1>6, <1>7, <1>8, <1>9 DEF Moved

\* A migration cut off starts from the first item with what is there.
LEMMA MoveRestart == ASSUME Moved, Restart PROVE Moved'
  <1>1. UNCHANGED <<rows, name>> /\ pos' = 1 /\ id' = 0 /\ last' = 0
    BY DEF Restart, tables
  <1>2. UNCHANGED <<Live, Held>> /\ \A i : Linked(i)' <=> Linked(i)
    BY <1>1 DEF Live, Held, Linked
  <1> QED
    BY <1>1, <1>2 DEF Moved

\* At first the migration has done nothing.
LEMMA MigrationInit == Init => MigrationInv
  BY RowsInit DEF Init, MigrationInv, Moved, Held, Live

\* Every step keeps what the migration has done.
LEMMA MigrationStep ==
  ASSUME NoSharedNames, TagsInv, MigrationInv, [Next]_vars PROVE MigrationInv'
  <1>1. ASSUME column' PROVE Moved'
    <2>1. Moved
      BY <1>1, OnlyMigration DEF MigrationInv
    <2>2. CASE UNCHANGED <<tables, migration>>
      <3>1. UNCHANGED <<Live, Held, Item>> /\ \A i : Linked(i)' <=> Linked(i)
        BY <2>2 DEF Live, Held, Linked, Item, tables, migration
      <3> QED
        BY <2>1, <2>2, <3>1 DEF Moved, tables, migration
    <2> QED
      BY <1>1, <2>1, <2>2, OnlyMigration, MoveImport, MoveLink, MoveRestart
  <1> QED
    BY <1>1, RowsStep DEF MigrationInv

\* So it always holds, beside the invariant.
LEMMA MigrationHolds ==
  ASSUME NoSharedNames PROVE Spec => [](TagsInv /\ MigrationInv)
  <1>1. Init => TagsInv /\ MigrationInv
    BY TagsInvInit, MigrationInit
  <1>2. TagsInv /\ MigrationInv /\ [Next]_vars => (TagsInv /\ MigrationInv)'
    BY NoSharedNames, TagsInvStep, MigrationStep
  <1> QED
    BY <1>1, <1>2, PTL DEF Spec

-----------------------------------------------------------------------------
(* What readers see *)

ShownName == [t \in Ids |-> IF column THEN None ELSE name[t]]
ShownTags == [h \in Hosts |-> IF column \/ life[h] # "present" THEN {} ELSE Shown(h)]

\* The actions of TagPromise, of what is shown.
LEMMA Ideal ==
  /\ Promise!vars = <<~column, life, ShownName, ShownTags>>
  /\ Promise!Ids = Ids /\ Promise!Live = {t \in Ids : ShownName[t] # None}
  BY DEF Promise!vars, Promise!Ids, Promise!Live, Ids, ShownName, ShownTags

\* What readers see does not change.
LEMMA SameShown ==
  ASSUME UNCHANGED <<column, life, ShownName, ShownTags>> PROVE UNCHANGED Promise!vars
  BY Ideal DEF Promise!vars, ShownName, ShownTags

\* When the column is gone, readers see the tables.
LEMMA ShownIs ==
  ASSUME TypeOK, ~column
  PROVE  /\ ShownName = name /\ Promise!Live = Live
         /\ \A h \in Hosts : ShownTags[h] = IF life[h] = "present" THEN Shown(h) ELSE {}
         /\ ShownTags \in [Hosts -> SUBSET Live]
  <1>1. ShownName = name
    BY DEF ShownName, TypeOK
  <1>2. \A h \in Hosts : Shown(h) \subseteq Live
    BY DEF Shown
  <1> QED
    BY <1>1, <1>2, Ideal DEF ShownTags, Live

\* Before, they see hosts without tags.
LEMMA ShownBefore ==
  ASSUME column
  PROVE  ShownName = [t \in Ids |-> None] /\ ShownTags = [h \in Hosts |-> {}]
  BY DEF ShownName, ShownTags

\* Names of tags are unique ...
LEMMA UniqueNames ==
  ASSUME TypeOK, NamesInv PROVE Promise!Unique(name)
  BY Ideal DEF Promise!Unique, Promise!Ids, NamesInv, Live, Ids

\* At first hosts show no tags.
LEMMA StartsShown == Init => Promise!Init
  BY Ideal DEF Init, Promise!Init, Ids

\* The same of the next state.
LEMMA ShownNext ==
  ASSUME TypeOK', ~column'
  PROVE  /\ ShownName' = name'
         /\ \A h \in Hosts : ShownTags'[h] = IF life'[h] = "present" THEN Shown(h)' ELSE {}
         /\ ShownTags' \in [Hosts -> SUBSET Live']
  <1>1. ShownName' = name'
    BY DEF ShownName, TypeOK
  <1>2. \A h \in Hosts : Shown(h)' \subseteq Live'
    BY DEF Shown
  <1> QED
    BY <1>1, <1>2 DEF ShownTags, Live

\* ... and stay so.
LEMMA UniqueNext ==
  ASSUME TypeOK', NamesInv', ~column' PROVE Promise!Unique(ShownName')
  BY ShownNext DEF Promise!Unique, Promise!Ids, NamesInv, Live, Ids

\* The tags that a host had.
LEMMA LegacyIs ==
  ASSUME NEW h \in Hosts, NEW n
  PROVE  n \in LegacyOf[h] <=> \E i \in DOMAIN Legacy : Legacy[i] = <<h, n>>
  <1>1. ASSUME NEW i \in DOMAIN Legacy, Legacy[i] = <<h, n>> PROVE n \in Names
    BY <1>1, LegacyHosts
  <1> QED
    BY <1>1 DEF LegacyOf

\* When the server opens an older database the migration is complete: the hosts show
\* the tags they had.
LEMMA OpenTakesOver ==
  ASSUME TagsInv, MigrationInv, TagsInv', Open, column PROVE Promise!TakeOver
  <1> USE DEF tables, migration
  <1>0. /\ ~column' /\ pos > Len(Legacy) /\ pos \in Nat /\ Moved /\ TypeOK /\ TypeOK' /\ NamesInv'
        /\ UNCHANGED <<life, name, rows>>
    BY LegacyIsPairs DEF MigrationInv, Open, AllLinked, TagsInv, TypeOK
  <1>1. ShownName' \in [Ids -> Names \cup {None}] /\ Promise!Unique(ShownName')
    <2>1. name' \in [Ids -> Names \cup {None}]
      BY <1>0 DEF TypeOK
    <2> QED
      BY <1>0, <2>1, ShownNext, UniqueNext
  <1>2. ShownTags' \in [Hosts -> SUBSET {t \in Ids : ShownName'[t] # None}]
    <2>1. Live' = {t \in Ids : ShownName'[t] # None}
      BY <1>0, ShownNext DEF Live
    <2> QED
      BY <1>0, <2>1, ShownNext
  <1>3. \A i \in DOMAIN Legacy : Linked(i)
    BY <1>0, LegacyIsPairs DEF Moved
  <1>4. ASSUME NEW h \in Hosts PROVE {ShownName'[t] : t \in ShownTags'[h]} = LegacyOf[h]
    <2>0. \A t : t \in Shown(h)' <=> t \in Live /\ <<h, t>> \in rows
      BY <1>0 DEF Shown, Live
    <2>1. CASE life[h] = "present"
      <3>0. ShownTags'[h] = Shown(h)' /\ ShownName' = name
        BY <1>0, <2>1, ShownNext
      <3>1. ASSUME NEW t \in ShownTags'[h] PROVE name[t] \in LegacyOf[h]
        <4>1. <<h, t>> \in rows
          BY <2>0, <3>0, <3>1
        <4>2. \E i \in DOMAIN Legacy : Legacy[i] = <<h, name[t]>>
          BY <1>0, <4>1 DEF Moved
        <4> QED
          BY <4>2, LegacyIs
      <3>2. ASSUME NEW n \in LegacyOf[h] PROVE \E t \in ShownTags'[h] : name[t] = n
        <4>1. PICK i \in DOMAIN Legacy : Legacy[i] = <<h, n>>
          BY LegacyIs
        <4>2. Legacy[i][1] = h /\ Legacy[i][2] = n
          BY <4>1
        <4>3. PICK t \in Live : name[t] = n /\ <<h, t>> \in rows
          BY <1>3, <4>2 DEF Linked
        <4>4. t \in ShownTags'[h]
          BY <2>0, <3>0, <4>3
        <4> QED
          BY <4>3, <4>4
      <3> QED
        BY <3>0, <3>1, <3>2
    <2>2. CASE life[h] # "present"
      <3>1. life[h] = "unused"
        BY <2>2 DEF TagsInv, TypeOK, LifeInv
      <3>2. ~\E i \in DOMAIN Legacy : Legacy[i][1] = h
        BY <3>1 DEF TagsInv, LifeInv
      <3>3. \A n : n \notin LegacyOf[h]
        BY <3>2, LegacyIs
      <3>4. ShownTags'[h] = {}
        BY <1>0, <2>2, ShownNext
      <3> QED
        BY <3>3, <3>4
    <2> QED
      BY <2>1, <2>2
  <1> QED
    BY <1>0, <1>1, <1>2, <1>4, Ideal DEF Promise!TakeOver, Promise!Ids, Ids, ShownName, ShownTags

\* New, renamed and deleted tags are those of TagPromise.
LEMMA TagSteps ==
  ASSUME TagsInv, RowsInv, TagsInv',
         \/ \E n \in Names : CreateTag(n) \/ \E t \in Ids : UpdateTag(t, n)
         \/ \E t \in Ids : DeleteTag(t)
  PROVE  Promise!Next
  <1> USE DEF tables, migration
  <1>0. /\ ~column /\ ~column' /\ column' = column /\ life' = life /\ TypeOK /\ TypeOK' /\ NamesInv'
        /\ name \in [Ids -> Names \cup {None}]
        /\ life \in [Hosts -> {"unused", "present", "deleted"}]
        /\ \A w \in rows : w[2] \in 1..autoinc
        /\ \A t \in Live : t <= autoinc
        /\ autoinc \in Nat /\ MaxId \in Nat
    BY BoundIsId DEF TagsInv, TypeOK, NamesInv, LifeInv, RowsInv, CreateTag, UpdateTag,
       DeleteTag
  <1>1. /\ ShownName = name /\ ShownName' = name' /\ Promise!Live = Live
        /\ Promise!Unique(ShownName')
    BY <1>0, ShownIs, ShownNext, UniqueNext
  <1>2. ASSUME \A h \in Hosts : Shown(h)' = Shown(h) PROVE ShownTags' = ShownTags
    BY <1>0, <1>2 DEF ShownTags
  <1>3. ASSUME NEW n \in Names, CreateTag(n) PROVE Promise!Next
    <2>1. NextId \in Ids /\ NextId \notin Live /\ name' = [name EXCEPT ![NextId] = n]
          /\ rows' = rows /\ NextId > autoinc
      BY <1>0, <1>3 DEF CreateTag, NextId, Ids
    <2>2. \A h \in Hosts : Shown(h)' = Shown(h)
      <3>1. \A t : <<t, NextId>> \notin rows
        BY <1>0, <2>1
      <3>2. Live' = Live \cup {NextId}
        BY <1>0, <2>1, NoneIsNoName DEF Live
      <3> QED
        BY <2>1, <3>1, <3>2 DEF Shown
    <2>3. ShownTags' = ShownTags
      BY <1>2, <2>2
    <2>4. ASSUME NEW t \in Ids, t = NextId PROVE Promise!NewTag(t, n)
      BY <1>0, <1>1, <2>1, <2>3, <2>4, Ideal
      DEF Promise!NewTag, Promise!Give, ShownName, ShownTags
    <2> QED
      BY <2>1, <2>4, Ideal DEF Promise!Next
  <1>4. ASSUME NEW n \in Names, NEW t \in Ids, UpdateTag(t, n) PROVE Promise!Next
    <2>1. t \in Live /\ name' = [name EXCEPT ![t] = n] /\ rows' = rows
      BY <1>4 DEF UpdateTag
    <2>2. Live' = Live
      BY <1>0, <2>1, NoneIsNoName DEF Live
    <2>3. ShownTags' = ShownTags
      BY <1>2, <2>1, <2>2 DEF Shown
    <2>4. Promise!Rename(t, n)
      BY <1>0, <1>1, <2>1, <2>3, Ideal DEF Promise!Rename, Promise!Give, ShownName, ShownTags
    <2> QED
      BY <2>4, Ideal DEF Promise!Next
  <1>5. ASSUME NEW t \in Ids, DeleteTag(t) PROVE Promise!Next
    <2>1. /\ t \in Live /\ name' = [name EXCEPT ![t] = None]
          /\ rows' = {w \in rows : w[2] # t}
      BY <1>5 DEF DeleteTag
    <2>2. Live' = Live \ {t}
      BY <1>0, <2>1 DEF Live
    <2>3. \A h \in Hosts : Shown(h)' = Shown(h) \ {t}
      BY <2>1, <2>2 DEF Shown
    <2>4. ShownTags' = [h \in Hosts |-> ShownTags[h] \ {t}]
      BY <1>0, <2>3 DEF ShownTags
    <2>5. Promise!DropTag(t)
      BY <1>0, <1>1, <2>1, <2>4, Ideal DEF Promise!DropTag, ShownName, ShownTags
    <2> QED
      BY <2>5, Ideal DEF Promise!Next
  <1> QED
    BY <1>3, <1>4, <1>5

\* So are new, changed and deleted hosts; an update of a deleted host does not show.
LEMMA HostSteps ==
  ASSUME TagsInv, TagsInv',
         \/ \E h \in Hosts : DeleteHost(h)
         \/ \E r \in Requests : Create(r) \/ Replace(r)
  PROVE  [Promise!Next]_(Promise!vars)
  <1> USE DEF tables, migration
  <1>0. /\ ~column /\ ~column' /\ column' = column /\ name' = name /\ TypeOK /\ TypeOK'
        /\ life \in [Hosts -> {"unused", "present", "deleted"}]
    <2>1. up
      BY DEF TagsInv, LifeInv, DeleteHost, Create, Replace, Idle
    <2> QED
      BY <2>1 DEF TagsInv, TypeOK, LifeInv, DeleteHost, Create, Replace
  <1>1. /\ ShownName' = ShownName /\ Promise!Live = Live /\ Live' = Live
        /\ \A h \in Hosts : ShownTags[h] = IF life[h] = "present" THEN Shown(h) ELSE {}
        /\ \A h \in Hosts : ShownTags'[h] = IF life'[h] = "present" THEN Shown(h)' ELSE {}
        /\ ShownTags \in [Hosts -> SUBSET Live]
        /\ ShownTags' \in [Hosts -> SUBSET Live]
    <2>1. Live' = Live
      BY <1>0 DEF Live
    <2> QED
      BY <1>0, <2>1, ShownIs, ShownNext
  <1>2. ASSUME NEW h \in Hosts, NEW S, ShownTags'[h] = S,
               \A g \in Hosts \ {h} : ShownTags'[g] = ShownTags[g]
        PROVE  ShownTags' = [ShownTags EXCEPT ![h] = S] /\ S \in SUBSET Live
    BY <1>1, <1>2
  <1>3. ASSUME NEW h \in Hosts,
               \A g \in Hosts \ {h} : \A t : <<g, t>> \in rows' <=> <<g, t>> \in rows,
               \A g \in Hosts \ {h} : life'[g] = life[g]
        PROVE  \A g \in Hosts \ {h} : ShownTags'[g] = ShownTags[g]
    BY <1>1, <1>3 DEF Shown
  <1>4. ASSUME NEW h \in Hosts, DeleteHost(h) PROVE Promise!Next
    <2>1. /\ life[h] = "present" /\ life' = [life EXCEPT ![h] = "deleted"]
          /\ rows' = {w \in rows : w[1] # h}
      BY <1>4 DEF DeleteHost
    <2>2. ShownTags' = [ShownTags EXCEPT ![h] = {}]
      BY <1>0, <1>1, <1>2, <1>3, <2>1
    <2>3. Promise!DropHost(h)
      BY <1>0, <1>1, <2>1, <2>2, Ideal DEF Promise!DropHost, ShownName, ShownTags
    <2> QED
      BY <2>3 DEF Promise!Next
  <1>5. ASSUME NEW r \in Requests, Create(r) PROVE Promise!Next
    <2>0. PICK h \in Hosts : h = req[r].host
      BY <1>5, IsBusy DEF Create, Busy, TagsInv
    <2>1. life[h] = "unused"
      BY <1>5, <2>0 DEF Create, TagsInv, RequestInv, HostIsRight
    <2>2. /\ life' = [life EXCEPT ![h] = "present"]
          /\ rows' = rows \cup {<<h, t>> : t \in {s \in Live : name[s] \in req[r].found}}
      BY <1>5, <2>0 DEF Create
    <2>3. \A g \in Hosts \ {h} : ShownTags'[g] = ShownTags[g]
      BY <1>0, <1>3, <2>1, <2>2
    <2>4. PICK S \in SUBSET Live : S = ShownTags'[h] /\ ShownTags' = [ShownTags EXCEPT ![h] = S]
      BY <1>2, <2>3
    <2>5. Promise!NewHost(h, S)
      BY <1>0, <1>1, <2>1, <2>2, <2>4, Ideal DEF Promise!NewHost, ShownName, ShownTags
    <2> QED
      BY <1>1, <2>1, <2>4, <2>5 DEF Promise!Next
  <1>6. ASSUME NEW r \in Requests, Replace(r) PROVE [Promise!Next]_(Promise!vars)
    <2>0. PICK h \in Hosts : h = req[r].host
      BY <1>6, IsBusy DEF Replace, Busy, TagsInv
    <2>1. life' = life
      BY <1>6 DEF Replace
    <2>2. rows' = {w \in rows : w[1] # h} \cup ({h} \X req[r].ids)
      BY <1>6, <2>0 DEF Replace, Replaced
    <2>3. \A g \in Hosts \ {h} : ShownTags'[g] = ShownTags[g]
      BY <1>3, <2>1, <2>2
    <2>4. PICK S \in SUBSET Live : S = ShownTags'[h] /\ ShownTags' = [ShownTags EXCEPT ![h] = S]
      BY <1>2, <2>3
    <2>5. CASE life[h] = "present"
      <3>1. Promise!SetTags(h, S)
        BY <1>0, <1>1, <2>1, <2>4, <2>5, Ideal DEF Promise!SetTags, ShownName, ShownTags
      <3> QED
        BY <1>1, <2>1, <2>4, <3>1 DEF Promise!Next
    <2>6. CASE life[h] # "present"
      <3>1. ShownTags'[h] = {} /\ ShownTags[h] = {}
        BY <1>1, <2>1, <2>6
      <3>2. ShownTags' = ShownTags
        BY <1>1, <2>3, <3>1
      <3> QED
        BY <1>0, <1>1, <2>1, <3>2, SameShown
    <2> QED
      BY <2>5, <2>6
  <1> QED
    BY <1>4, <1>5, <1>6

\* Every step is one that readers may see, or none, if the migration that it ends has
\* moved all tags.
LEMMA PromiseStep ==
  ASSUME TagsInv, RowsInv, TagsInv', [Next]_vars, column => Moved
  PROVE  [Promise!Next]_(Promise!vars)
  <1> USE DEF tables, migration
  <1>0. column \in BOOLEAN /\ (id # 0 => column)
    BY DEF TagsInv, TypeOK, LifeInv
  <1>1. CASE UNCHANGED <<column, life>> /\ (column \/ UNCHANGED <<name, rows>>)
    <2>1. UNCHANGED <<ShownName, ShownTags>>
      BY <1>1 DEF ShownName, ShownTags, Shown, Live
    <2> QED
      BY <1>1, <2>1, SameShown
  <1>2. CASE Import \/ Link
    BY <1>0, <1>1, <1>2 DEF Import, Link
  <1>3. CASE Open
    <2>1. CASE column
      BY <1>3, <2>1, OpenTakesOver DEF Promise!Next, MigrationInv
    <2>2. CASE ~column
      BY <1>0, <1>1, <1>3, <2>2 DEF Open
    <2> QED
      BY <2>1, <2>2
  <1>4. \/ Import \/ Link \/ Open
        \/ \E n \in Names : CreateTag(n) \/ \E t \in Ids : UpdateTag(t, n)
        \/ \E t \in Ids : DeleteTag(t)
        \/ \E h \in Hosts : DeleteHost(h)
        \/ \E r \in Requests : Create(r) \/ Replace(r)
        \/ UNCHANGED tables
    BY DEF Next, vars, Restart, Read, CreateRead, UpdateRead, UpdateRow, Look, GiveUp
  <1> QED
    BY <1>1, <1>2, <1>3, <1>4, TagSteps, HostSteps

\* Readers see hosts with sets of named tags, which change as TagPromise says and in
\* no other way: half-done updates, rows left behind and the migration do not show.
\* Hosts of an older version that share a tag are excluded: those lose it.
THEOREM TagsKeepPromise == ASSUME NoSharedNames PROVE Spec => KeepsPromise
  <1>1. TagsInv /\ MigrationInv /\ TagsInv' /\ [Next]_vars => [Promise!Next]_(Promise!vars)
    BY PromiseStep DEF MigrationInv
  <1> QED
    BY NoSharedNames, <1>1, StartsShown, MigrationHolds, PTL DEF Spec, KeepsPromise, Promise!Spec

\* Whatever the older database was and the migration has made of it: from then on
\* readers see only what TagPromise says.  Rows of tags that do not exist stay hidden.
THEOREM OpenKeepsPromise == Spec => [][~column => [Promise!Next]_(Promise!vars)]_vars
  <1>1. TagsInv /\ RowsInv /\ TagsInv' /\ [Next]_vars
          => [~column => [Promise!Next]_(Promise!vars)]_vars
    BY PromiseStep
  <1> QED
    BY <1>1, RowsHold, PTL DEF Spec

-----------------------------------------------------------------------------
(* Usage history: the module Downsample *)
-----------------------------------------------------------------------------
(* The inductive invariant *)

\* The rows that aggregation has to find: all that were accepted and are not gone,
\* except those it has overtaken.
Due == (raw \cup waiting) \ missed

\* Every row before p has its 5-minute bucket, as NoBucketSkipped says of point5 ...
Passed5m(p, due, fives, cut) ==
  \A ts \in due : ts < p =>
    fives[Floor(ts, Bucket5m)] # {} \/ Floor(ts, Bucket5m) < cut

\* ... and every 5-minute bucket its hour, as NoHourSkipped says of point1.
Passed1h(p, fives, over, hours, cut, time) ==
  \A b \in {c \in Buckets(Bucket5m) : fives[c] \ over # {}} :
    b < p /\ cut <= b /\ time - Keep1h <= Floor(b, Bucket1h) =>
      hours[Floor(b, Bucket1h)] # {}

\* The point follows the time of the last pass: no row that is accepted from now on
\* comes before it, and the next pass does not set it back.
Clocks == at <= now /\ point5 <= at - Bucket5m

\* When a point is about to advance, what it will pass has been aggregated; and
\* hours are next only when the 5-minute point has advanced.
Point5mMayAdvance ==
  pc = "point 5m" => Passed5m(Floor(at - Bucket5m, Bucket5m), Due, tier5, cut5)
HoursMayFollow ==
  pc \in {"into 1h", "point 1h"} => Floor(at - Bucket5m, Bucket5m) <= point5
Point1hMayAdvance ==
  pc = "point 1h" => Passed1h(Floor(at - Bucket1h, Bucket1h), tier5, missed, tier1, cut5, now)

HistoryInv ==
  /\ HistoryTypeOK /\ Passed5m(point5, Due, tier5, cut5) /\ NoHourSkipped
  /\ HoursFollowBuckets /\ DeletedLeavesNothing /\ Clocks
  /\ Point5mMayAdvance /\ HoursMayFollow /\ Point1hMayAdvance

-----------------------------------------------------------------------------
(* Multiples of a width *)

\* Floor(t, w) is the largest multiple of w that is not above t.
LEMMA FloorIsMultiple ==
  ASSUME NEW t \in Nat, NEW w \in Nat \ {0}
  PROVE  /\ Floor(t, w) \in Nat /\ Floor(t, w) <= t /\ t < Floor(t, w) + w
         /\ \E q \in Nat : Floor(t, w) = q * w
  BY DEF Floor

\* A multiple is its own floor,
LEMMA FloorOfMultiple ==
  ASSUME NEW q \in Nat, NEW w \in Nat \ {0}
  PROVE  Floor(q * w, w) = q * w
  BY DEF Floor

\* no multiple lies between a time and its floor,
LEMMA FloorIsLargest ==
  ASSUME NEW q \in Nat, NEW t \in Nat, NEW w \in Nat \ {0}, q * w <= t
  PROVE  q * w <= Floor(t, w)
  <1>1. PICK p \in Nat : Floor(t, w) = p * w
    BY FloorIsMultiple
  <1>2. t < p * w + w
    BY <1>1, FloorIsMultiple
  <1>3. ASSUME p < q PROVE FALSE
    <2>1. p + 1 <= q
      BY <1>3
    <2>2. p * w + w <= q * w
      BY <2>1
    <2>3. p * w \in Nat /\ q * w \in Nat
      OBVIOUS
    <2> QED
      BY <2>2, <2>3, <1>2
  <1>4. q <= p
    BY <1>3
  <1> QED
    BY <1>1, <1>4

\* the floor of a floor is that floor,
LEMMA FloorTwice ==
  ASSUME NEW t \in Nat, NEW w \in Nat \ {0}
  PROVE  Floor(Floor(t, w), w) = Floor(t, w)
  BY FloorIsMultiple, FloorOfMultiple

\* and floors keep the order.
LEMMA FloorMonotone ==
  ASSUME NEW s \in Nat, NEW t \in Nat, NEW w \in Nat \ {0}, s <= t
  PROVE  Floor(s, w) <= Floor(t, w)
  <1>1. PICK q \in Nat : Floor(s, w) = q * w
    BY FloorIsMultiple
  <1>2. q * w <= t
    BY <1>1, FloorIsMultiple
  <1> QED
    BY <1>1, <1>2, FloorIsLargest

\* A multiple of v is one of w if w divides v.
LEMMA FloorOfCoarser ==
  ASSUME NEW t \in Nat, NEW w \in Nat \ {0}, NEW v \in Nat \ {0}, v % w = 0
  PROVE  Floor(Floor(t, v), w) = Floor(t, v)
  <1>1. PICK q \in Nat : Floor(t, v) = q * v
    BY FloorIsMultiple
  <1>2. PICK k \in Nat : v = k * w
    OBVIOUS
  <1>3. q * k \in Nat /\ Floor(t, v) = (q * k) * w
    BY <1>1, <1>2
  <1> QED
    BY <1>3, FloorOfMultiple

-----------------------------------------------------------------------------
(* Times and buckets *)

\* An hour is a number of buckets.
LEMMA HourOfBuckets == Bucket1h % Bucket5m = 0
  BY BoundsAssumption

\* What the bounds say, one by one.
LEMMA Numbers ==
  /\ Bucket5m \in Nat \ {0} /\ Bucket1h \in Nat \ {0}
  /\ Skew \in Nat /\ KeepRaw \in Nat /\ Keep5m \in Nat /\ Keep1h \in Nat
  /\ Start \in Nat /\ MaxTime \in Nat
  /\ Bucket5m <= Bucket1h
  /\ Skew <= Bucket5m /\ Skew <= Start /\ Bucket1h <= Start /\ Start <= MaxTime
  /\ Times \subseteq Nat /\ 0 \in Times
  <1>1. Bucket5m \in Nat \ {0} /\ Bucket1h \in Nat \ {0} /\ Bucket1h % Bucket5m = 0
    BY BoundsAssumption
  <1>2. Bucket5m <= Bucket1h
    BY <1>1
  <1> QED
    BY BoundsAssumption, <1>1, <1>2 DEF Times

\* A bucket begins at a time, in the bucket of its own.
LEMMA BucketsAreTimes ==
  ASSUME NEW w \in {Bucket5m, Bucket1h}
  PROVE  /\ \A ts \in Times : Floor(ts, w) \in Buckets(w) /\ Floor(ts, w) <= ts
         /\ \A b \in Buckets(w) : b \in Times /\ Floor(b, w) = b
  <1>1. w \in Nat \ {0}
    BY Numbers
  <1>2. ASSUME NEW ts \in Times
        PROVE  /\ Floor(ts, w) \in Buckets(w) /\ Floor(ts, w) <= ts
               /\ Floor(ts, w) \in Times
               /\ Floor(Floor(ts, w), w) = Floor(ts, w)
    <2>1. ts \in Nat /\ MaxTime + Skew \in Nat
      BY Numbers
    <2>2. Floor(ts, w) \in Nat /\ Floor(ts, w) <= ts
      BY <1>1, <2>1, FloorIsMultiple
    <2>3. Floor(Floor(ts, w), w) = Floor(ts, w)
      BY <1>1, <2>1, FloorTwice
    <2> QED
      BY <2>1, <2>2, <2>3 DEF Buckets, Times
  <1> QED
    BY <1>2 DEF Buckets

\* The points that a pass of aggregation at time t sets.
LEMMA PointsOf ==
  ASSUME NEW t \in Start .. MaxTime
  PROVE  /\ t - Bucket5m \in Times /\ t - Bucket1h \in Times
         /\ Floor(t - Bucket5m, Bucket5m) \in Buckets(Bucket5m)
         /\ Floor(t - Bucket1h, Bucket1h) \in Buckets(Bucket1h)
         /\ Floor(t - Bucket5m, Bucket5m) \in Nat
         /\ Floor(t - Bucket5m, Bucket5m) <= t - Bucket5m
         /\ Floor(t - Bucket1h, Bucket1h) <= Floor(t - Bucket5m, Bucket5m)
  <1> DEFINE p == Floor(t - Bucket1h, Bucket1h)
  <1>1. /\ t - Bucket5m \in Times /\ t - Bucket1h \in Times
        /\ t - Bucket5m \in Nat /\ t - Bucket1h \in Nat /\ t - Bucket1h <= t - Bucket5m
    BY Numbers DEF Times
  <1>2. /\ Floor(t - Bucket5m, Bucket5m) \in Nat
        /\ Floor(t - Bucket5m, Bucket5m) <= t - Bucket5m
    BY <1>1, Numbers, FloorIsMultiple
  <1>3. p \in Nat /\ p <= t - Bucket5m /\ Floor(p, Bucket5m) = p
    <2>1. p \in Nat /\ p <= t - Bucket1h
      BY <1>1, Numbers, FloorIsMultiple
    <2>2. Floor(p, Bucket5m) = p
      BY <1>1, Numbers, HourOfBuckets, FloorOfCoarser
    <2> QED
      BY <1>1, <2>1, <2>2
  <1>4. p <= Floor(t - Bucket5m, Bucket5m)
    <2>1. Floor(p, Bucket5m) <= Floor(t - Bucket5m, Bucket5m)
      BY <1>1, <1>3, Numbers, FloorMonotone
    <2> QED
      BY <2>1, <1>3
  <1> QED
    BY <1>1, <1>2, <1>4, BucketsAreTimes

-----------------------------------------------------------------------------
(* Type correctness *)

\* A tier without buckets is a tier ...
LEMMA EmptyIsTier ==
  ASSUME NEW w PROVE Empty(w) \in [Buckets(w) -> SUBSET Times]
  BY DEF Empty

\* A tier stays one when buckets are added to it or taken from it.
LEMMA AggregateIsTier ==
  ASSUME NEW w, NEW tier \in [Buckets(w) -> SUBSET Times],
         NEW raws \in SUBSET Times,
         NEW from, NEW to
  PROVE  AggregateInto(tier, raws, w, from, to) \in [Buckets(w) -> SUBSET Times]
  BY DEF AggregateInto, Grouped

\* ... and so is one that was pruned.
LEMMA PruneIsTier ==
  ASSUME NEW w, NEW tier \in [Buckets(w) -> SUBSET Times], NEW upTo
  PROVE  PruneTier(tier, w, upTo) \in [Buckets(w) -> SUBSET Times]
  BY DEF PruneTier

\* The tables at first.
LEMMA HistoryTypeInit == ASSUME HistoryInit PROVE HistoryTypeOK
  <1>1. 0 \in Buckets(Bucket5m) /\ 0 \in Buckets(Bucket1h)
    <2>1. Floor(0, Bucket5m) = 0 /\ Floor(0, Bucket1h) = 0
      BY Numbers DEF Floor
    <2> QED
      BY <2>1, Numbers DEF Buckets
  <1>2. /\ tier5 \in [Buckets(Bucket5m) -> SUBSET Times]
        /\ tier1 \in [Buckets(Bucket1h) -> SUBSET Times]
    BY EmptyIsTier DEF HistoryInit
  <1>3. now \in Start .. MaxTime /\ at \in Start .. MaxTime /\ cut5 \in Times
    <2>1. now = Start /\ at = Start /\ cut5 = 0
      BY DEF HistoryInit
    <2> QED
      BY <2>1, Numbers
  <1> QED
    BY <1>1, <1>2, <1>3 DEF HistoryInit, HistoryTypeOK

\* Every step keeps the types.
LEMMA HistoryTypeStep ==
  ASSUME HistoryTypeOK, [HistoryNext]_historyVars
  PROVE HistoryTypeOK'
  <1>0. /\ tier5 \in [Buckets(Bucket5m) -> SUBSET Times]
        /\ tier1 \in [Buckets(Bucket1h) -> SUBSET Times]
        /\ raw \in SUBSET Times /\ cut5 \in Times /\ now \in Start .. MaxTime
        /\ at \in Start .. MaxTime
        /\ waiting \in SUBSET Times /\ missed \in SUBSET Times
    BY DEF HistoryTypeOK
  <1>1. ASSUME NEW ts \in Times, Receive(ts) \/ Insert(ts) PROVE HistoryTypeOK'
    BY <1>1 DEF Receive, Insert, HistoryTypeOK
  <1>19. CASE InsertFails
    BY <1>19 DEF InsertFails, HistoryTypeOK
  <1>2. CASE DeleteUsages
    BY <1>2, EmptyIsTier DEF DeleteUsages, HistoryTypeOK, reportVars, Goto
  <1>3. CASE Wake
    BY <1>3 DEF Wake, HistoryTypeOK, reportVars, Goto
  <1>4. CASE Into5m
    <2>1. tier5' \in [Buckets(Bucket5m) -> SUBSET Times]
      <3>1. \/ tier5' = tier5
            \/ \E from \in AggPoint(point5) :
                 tier5' = AggregateInto(tier5, raw, Bucket5m, from, Cutoff5m)
        BY <1>4 DEF Into5m
      <3> QED
        BY <1>0, <3>1, AggregateIsTier
    <2>2. pc' \in {"point 5m", "into 1h"}
      BY <1>4 DEF Into5m, Goto
    <2>3. missed' \in SUBSET Times
      BY <1>0, <1>4 DEF Into5m
    <2> QED
      BY <1>4, <2>1, <2>2, <2>3 DEF Into5m, HistoryTypeOK, reportVars, Goto
  <1>5. CASE Point5m
    <2>1. point5' = Floor(at - Bucket5m, Bucket5m)
      BY <1>5 DEF Point5m, Cutoff5m
    <2>2. point5' \in Buckets(Bucket5m)
      BY <2>1, <1>0, PointsOf
    <2> QED
      BY <1>5, <2>2 DEF Point5m, HistoryTypeOK, reportVars, Goto
  <1>6. CASE Into1h
    <2>1. Rows5m \in SUBSET Times
      BY BucketsAreTimes DEF Rows5m
    <2>2. tier1' \in [Buckets(Bucket1h) -> SUBSET Times]
      <3>1. \/ tier1' = tier1
            \/ \E from \in AggPoint(point1) :
                 tier1' = AggregateInto(tier1, Rows5m, Bucket1h, from, Cutoff1h)
        BY <1>6 DEF Into1h
      <3>2. ASSUME NEW from PROVE
              AggregateInto(tier1, Rows5m, Bucket1h, from, Cutoff1h)
                \in [Buckets(Bucket1h) -> SUBSET Times]
        BY <1>0, <2>1, AggregateIsTier
      <3> QED
        BY <1>0, <3>1, <3>2
    <2>3. pc' \in {"point 1h", "prune raw"}
      BY <1>6 DEF Into1h, Goto
    <2> QED
      BY <1>6, <2>2, <2>3 DEF Into1h, HistoryTypeOK, reportVars, Goto
  <1>7. CASE Point1h
    <2>1. point1' = Floor(at - Bucket1h, Bucket1h)
      BY <1>7 DEF Point1h, Cutoff1h
    <2>2. point1' \in Buckets(Bucket1h)
      BY <2>1, <1>0, PointsOf
    <2> QED
      BY <1>7, <2>2 DEF Point1h, HistoryTypeOK, reportVars, Goto
  <1>8. CASE AggregateFails
    BY <1>8 DEF AggregateFails, HistoryTypeOK, reportVars, Goto
  <1>9. CASE PruneRaw
    BY <1>9 DEF PruneRaw, HistoryTypeOK, reportVars, Goto
  <1>10. CASE Prune5m
    <2>1. tier5' = tier5 \/ tier5' = PruneTier(tier5, Bucket5m, now - Keep5m)
      BY <1>10 DEF Prune5m
    <2>2. tier5' \in [Buckets(Bucket5m) -> SUBSET Times]
      BY <1>0, <2>1, PruneIsTier
    <2>3. cut5' = cut5 \/ (now - Keep5m > cut5 /\ cut5' = now - Keep5m)
      BY <1>10 DEF Prune5m
    <2>4. cut5' \in Times
      <3>1. now - Keep5m > cut5 => now - Keep5m \in Times
        BY <1>0, Numbers DEF Times
      <3> QED
        BY <1>0, <2>3, <3>1
    <2> QED
      BY <1>10, <2>2, <2>4 DEF Prune5m, HistoryTypeOK, reportVars, Goto
  <1>11. CASE Prune1h
    BY <1>11, PruneIsTier DEF Prune1h, HistoryTypeOK, reportVars, Goto
  <1>12. ASSUME NEW ts \in Times, RawBatch(ts) PROVE HistoryTypeOK'
    BY <1>12 DEF RawBatch, HistoryTypeOK, reportVars, Goto
  <1>13. ASSUME NEW ts \in Times, Batch5m(ts) PROVE HistoryTypeOK'
    BY <1>13, PruneIsTier DEF Batch5m, HistoryTypeOK, reportVars, Goto
  <1>14. ASSUME NEW ts \in Times, Batch1h(ts) PROVE HistoryTypeOK'
    BY <1>14, PruneIsTier DEF Batch1h, HistoryTypeOK, reportVars, Goto
  <1>15. CASE PruneFails
    BY <1>15 DEF PruneFails, HistoryTypeOK, reportVars, Goto
  <1>16. CASE RestartLoop
    BY <1>16 DEF RestartLoop, HistoryTypeOK, reportVars, Goto
  <1>17. CASE Tick
    <2>1. now < MaxTime /\ now' = now + 1
      BY <1>17 DEF Tick
    <2>2. now' \in Start .. MaxTime
      BY <1>0, <2>1, Numbers
    <2> QED
      BY <1>17, <2>2 DEF Tick, HistoryTypeOK, reportVars, Goto
  <1>18. CASE UNCHANGED historyVars
    BY <1>18 DEF historyVars, HistoryTypeOK, reportVars, Goto
  <1> QED
    BY <1>1, <1>2, <1>3, <1>4, <1>5, <1>6, <1>7, <1>8, <1>9, <1>10, <1>11, <1>12,
       <1>13, <1>14, <1>15, <1>16, <1>17, <1>18, <1>19 DEF HistoryNext, Aggregate, Prune

-----------------------------------------------------------------------------
(* What aggregation and pruning do to the buckets of a tier *)

\* A bucket that exists stays as it is.
LEMMA AggregateKeeps ==
  ASSUME NEW w, NEW tier, NEW raws, NEW from, NEW to, NEW b \in Buckets(w), tier[b] # {}
  PROVE  AggregateInto(tier, raws, w, from, to)[b] = tier[b]
  BY DEF AggregateInto

\* The rows of the window have buckets afterwards.
LEMMA AggregateCovers ==
  ASSUME NEW w \in {Bucket5m, Bucket1h}, NEW tier, NEW raws, NEW from, NEW to,
         NEW ts \in raws, ts \in Times, from <= ts, ts < to
  PROVE  AggregateInto(tier, raws, w, from, to)[Floor(ts, w)] # {}
  <1>1. Floor(ts, w) \in Buckets(w)
    BY BucketsAreTimes
  <1>2. ts \in Grouped(raws, w, from, to, Floor(ts, w))
    BY DEF Grouped
  <1> QED
    BY <1>1, <1>2 DEF AggregateInto

\* A new bucket is made of rows of the window.
LEMMA AggregateAdds ==
  ASSUME NEW w, NEW tier, NEW raws, NEW from, NEW to, NEW b \in Buckets(w), tier[b] = {}
  PROVE  \A ts \in AggregateInto(tier, raws, w, from, to)[b] :
           ts \in raws /\ from <= ts /\ ts < to /\ Floor(ts, w) = b
  BY DEF AggregateInto, Grouped

\* Pruning adds nothing to a bucket, ...
LEMMA PruneTakes ==
  ASSUME NEW w, NEW tier, NEW upTo, NEW b \in Buckets(w)
  PROVE  PruneTier(tier, w, upTo)[b] \subseteq tier[b]
  BY DEF PruneTier

\* ... and takes none from upTo on.
LEMMA PruneSpares ==
  ASSUME NEW w, NEW tier, NEW upTo, NEW b \in Buckets(w), tier[b] # {}
  PROVE  PruneTier(tier, w, upTo)[b] # {} \/ b < upTo
  BY DEF PruneTier, Before

\* Passed5m is kept when no early row is added and no bucket goes but by pruning ...
LEMMA Passed5mKept ==
  ASSUME NEW p, NEW due, NEW due2 \in SUBSET Times,
         NEW fives, NEW fives2, NEW cut, NEW cut2,
         Passed5m(p, due, fives, cut),
         \A ts \in due2 : ts < p => ts \in due,
         \A b \in Buckets(Bucket5m) : fives[b] # {} => fives2[b] # {} \/ b < cut2,
         \A b \in Buckets(Bucket5m) : b < cut => b < cut2
  PROVE  Passed5m(p, due2, fives2, cut2)
  BY BucketsAreTimes DEF Passed5m

\* ... and Passed1h when what comes before p is too old, and no hour goes but by
\* pruning.
LEMMA Passed1hKept ==
  ASSUME NEW p, NEW fives, NEW fives2, NEW over, NEW over2, NEW hours, NEW hours2,
         NEW cut \in Nat, NEW cut2 \in Nat, NEW time \in Nat, NEW time2 \in Nat,
         Passed1h(p, fives, over, hours, cut, time), cut <= cut2, time <= time2,
         \A b \in Buckets(Bucket5m) :
           fives2[b] \ over2 # {} => fives[b] \ over # {} \/ p <= b \/ b < cut2,
         \A h \in Buckets(Bucket1h) :
           hours[h] # {} => hours2[h] # {} \/ h < time2 - Keep1h,
         p \in Nat
  PROVE  Passed1h(p, fives2, over2, hours2, cut2, time2)
  <1> SUFFICES ASSUME NEW b \in Buckets(Bucket5m), fives2[b] \ over2 # {}, b < p, cut2 <= b,
                      time2 - Keep1h <= Floor(b, Bucket1h)
               PROVE  hours2[Floor(b, Bucket1h)] # {}
    BY DEF Passed1h
  <1>1. b \in Nat /\ Keep1h \in Nat
    BY BucketsAreTimes, Numbers
  <1>2. Floor(b, Bucket1h) \in Buckets(Bucket1h) /\ Floor(b, Bucket1h) \in Nat
    BY BucketsAreTimes, Numbers
  <1>3. fives[b] \ over # {} /\ cut <= b /\ time - Keep1h <= Floor(b, Bucket1h)
    BY <1>1, <1>2
  <1>4. hours[Floor(b, Bucket1h)] # {}
    BY <1>3 DEF Passed1h
  <1>5. ~(Floor(b, Bucket1h) < time2 - Keep1h)
    BY <1>1, <1>2
  <1> QED
    BY <1>2, <1>4, <1>5

\* The tiers' invariants, in these terms.
LEMMA SkippedIs ==
  /\ Passed5m(point5, Due, tier5, cut5) => NoBucketSkipped
  /\ NoHourSkipped <=> Passed1h(point1, tier5, missed, tier1, cut5, now)
  /\ NoHourSkipped' <=> Passed1h(point1', tier5', missed', tier1', cut5', now')
  BY DEF NoBucketSkipped, NoHourSkipped, Bucketed, Passed5m, Passed1h, Rows5m, Due

-----------------------------------------------------------------------------
(* Each part of the invariant, action by action *)

\* What the times are, now and after the step.
LEMMA TimesAre ==
  ASSUME HistoryTypeOK
  PROVE  /\ now \in Nat /\ at \in Nat /\ at \in Start .. MaxTime
         /\ cut5 \in Nat /\ point5 \in Nat /\ point1 \in Nat
         /\ raw \in SUBSET Times /\ Due \in SUBSET Times
         /\ Floor(point5, Bucket5m) = point5
  <1>1. /\ now \in Start .. MaxTime /\ at \in Start .. MaxTime /\ cut5 \in Times
        /\ raw \in SUBSET Times /\ Due \in SUBSET Times
        /\ point5 \in Buckets(Bucket5m) /\ point1 \in Buckets(Bucket1h)
    BY DEF HistoryTypeOK, Due
  <1>2. point5 \in Times /\ point1 \in Times /\ Floor(point5, Bucket5m) = point5
    BY <1>1, BucketsAreTimes
  <1> QED
    BY <1>1, <1>2, Numbers

\* The 5-minute point stays a window behind the last pass.
LEMMA ClocksStep == ASSUME HistoryInv, [HistoryNext]_historyVars PROVE Clocks'
  <1>1. /\ now \in Nat /\ at \in Start .. MaxTime /\ at \in Nat /\ Bucket5m \in Nat
        /\ point5 \in Nat /\ at <= now /\ point5 <= at - Bucket5m
    BY TimesAre, Numbers DEF HistoryInv, Clocks
  <1>2. CASE Point5m
    <2>1. /\ point5' = Floor(at - Bucket5m, Bucket5m) /\ at' = at /\ now' = now
      BY <1>2 DEF Point5m, Cutoff5m
    <2>2. point5' <= at - Bucket5m
      BY <1>1, <2>1, PointsOf
    <2> QED
      BY <1>1, <2>1, <2>2 DEF Clocks
  <1>3. CASE point5' = point5 /\ now' = now /\ (at' = at \/ at' = now)
    BY <1>1, <1>3 DEF Clocks
  <1>4. CASE Tick
    <2>1. now' = now + 1 /\ at' = at /\ point5' = point5
      BY <1>4 DEF Tick
    <2> QED
      BY <1>1, <2>1 DEF Clocks
  <1>5. Point5m \/ Tick \/ (point5' = point5 /\ now' = now /\ (at' = at \/ at' = now))
    BY DEF HistoryNext, historyVars, Receive, Insert, InsertFails, DeleteUsages, Aggregate, Wake,
       Into5m, Into1h, Point1h,
       AggregateFails, Prune, PruneRaw, Prune5m, Prune1h,
       RawBatch, Batch5m, Batch1h,
       PruneFails, RestartLoop
  <1> QED
    BY <1>2, <1>3, <1>4, <1>5

\* No early row is added, no 5-minute bucket goes but by pruning, the point stays.
Keeps5m ==
  /\ \A ts \in Due' : ts \in Due \/ now - Skew <= ts
  /\ \A b \in Buckets(Bucket5m) : tier5[b] # {} => tier5'[b] # {} \/ b < cut5'
  /\ cut5 <= cut5' /\ UNCHANGED point5

\* The pass does not come to "point 5m", and stays with its time if it is there.
PointWaits == pc' = "point 5m" => pc = "point 5m" /\ at' = at

\* A step that adds no row before the point, and takes buckets only by pruning, skips none.
LEMMA EarlyRowsKept ==
  ASSUME HistoryInv, HistoryTypeOK', Keeps5m
  PROVE  /\ Passed5m(point5', Due', tier5', cut5')
         /\ PointWaits => Point5mMayAdvance'
  <1>1. /\ now \in Nat /\ cut5 \in Nat /\ cut5' \in Nat /\ point5 \in Nat /\ Skew \in Nat
        /\ Due \in SUBSET Times /\ Due' \in SUBSET Times /\ at \in Start .. MaxTime
    BY TimesAre, Numbers, BucketsAreTimes DEF HistoryInv, HistoryTypeOK, Due
  <1>2. at <= now /\ point5 + Skew <= now /\ Times \subseteq Nat
    <2>1. at <= now /\ point5 <= at - Bucket5m
      BY DEF HistoryInv, Clocks
    <2>2. at \in Nat /\ Bucket5m \in Nat /\ Skew <= Bucket5m /\ Times \subseteq Nat
      BY <1>1, Numbers
    <2> QED
      BY <1>1, <2>1, <2>2
  <1>3. \A b \in Buckets(Bucket5m) : b < cut5 => b < cut5'
    <2>1. cut5 <= cut5' /\ \A b \in Buckets(Bucket5m) : b \in Nat
      BY BucketsAreTimes, Numbers DEF Keeps5m
    <2> QED
      BY <1>1, <2>1
  <1>4. ASSUME NEW p \in Nat, p + Skew <= now, Passed5m(p, Due, tier5, cut5)
        PROVE  Passed5m(p, Due', tier5', cut5')
    <2>1. \A ts \in Due' : ts < p => ts \in Due
      BY <1>1, <1>2, <1>4 DEF Keeps5m
    <2>2. \A b \in Buckets(Bucket5m) : tier5[b] # {} => tier5'[b] # {} \/ b < cut5'
      BY DEF Keeps5m
    <2> QED
      BY <1>1, <1>3, <1>4, <2>1, <2>2, Passed5mKept
  <1>5. Passed5m(point5', Due', tier5', cut5')
    BY <1>1, <1>2, <1>4 DEF HistoryInv, Keeps5m
  <1>6. ASSUME PointWaits, pc' = "point 5m" PROVE Point5mMayAdvance'
    <2> DEFINE p == Floor(at - Bucket5m, Bucket5m)
    <2>1. p \in Nat /\ p <= at - Bucket5m
      BY <1>1, PointsOf
    <2>2. at \in Nat /\ Bucket5m \in Nat /\ Skew <= Bucket5m
      BY <1>1, Numbers
    <2>3. p + Skew <= now
      BY <1>1, <1>2, <2>1, <2>2
    <2>4. Passed5m(p, Due, tier5, cut5)
      BY <1>6 DEF PointWaits, HistoryInv, Point5mMayAdvance
    <2>5. Passed5m(p, Due', tier5', cut5')
      BY <1>4, <2>1, <2>3, <2>4
    <2> QED
      BY <1>6, <2>5 DEF PointWaits, Point5mMayAdvance
  <1> QED
    BY <1>5, <1>6 DEF Point5mMayAdvance

\* All other actions keep the buckets, and wait with the point for none.
LEMMA OthersKeep5m ==
  ASSUME HistoryInv, [HistoryNext]_historyVars
  PROVE  DeleteUsages \/ Into5m \/ Point5m \/ (Keeps5m /\ PointWaits)
  <1>0. /\ Due \in SUBSET Times /\ now \in Nat /\ Skew \in Nat /\ cut5 \in Nat
    BY TimesAre, Numbers DEF HistoryInv
  <1>1. ASSUME UNCHANGED <<tier5, cut5, point5>>,
               \A ts \in Due' : ts \in Due \/ now - Skew <= ts
        PROVE  Keeps5m
    BY <1>0, <1>1 DEF Keeps5m
  <1>2. ASSUME NEW upTo \in Int, tier5' = PruneTier(tier5, Bucket5m, upTo),
               cut5' = (IF upTo > cut5 THEN upTo ELSE cut5), UNCHANGED <<Due, point5>>
        PROVE  Keeps5m
    <2>1. upTo <= cut5' /\ cut5' \in Int /\ cut5 <= cut5'
      BY <1>0, <1>2
    <2>2. ASSUME NEW b \in Buckets(Bucket5m), tier5[b] # {}
          PROVE  tier5'[b] # {} \/ b < cut5'
      <3>1. b \in Nat
        BY BucketsAreTimes, Numbers
      <3>2. tier5'[b] # {} \/ b < upTo
        BY <1>2, <2>2, PruneSpares
      <3> QED
        BY <2>1, <3>1, <3>2
    <2> QED
      BY <1>2, <2>1, <2>2 DEF Keeps5m
  <1>3. ASSUME NEW ts \in Times, Receive(ts) PROVE Keeps5m /\ PointWaits
    <2>1. Due' \subseteq Due \cup {ts} /\ now - Skew <= ts
      BY <1>3 DEF Receive, InSkew, Due
    <2>2. UNCHANGED <<tier5, cut5, point5, pc, at>>
      BY <1>3 DEF Receive
    <2> QED
      BY <1>1, <2>1, <2>2 DEF PointWaits
  <1>8. ASSUME InsertFails \/ \E ts \in Times : Insert(ts) PROVE Keeps5m /\ PointWaits
    <2>1. Due' \subseteq Due
      BY <1>8 DEF Insert, InsertFails, Due
    <2>2. UNCHANGED <<tier5, cut5, point5, pc, at>>
      BY <1>8 DEF Insert, InsertFails
    <2> QED
      BY <1>1, <2>1, <2>2 DEF PointWaits
  <1>4. ASSUME PruneRaw \/ \E ts \in Times : RawBatch(ts)
        PROVE Keeps5m /\ PointWaits
    <2>1. Due' \subseteq Due
      BY <1>4 DEF PruneRaw, RawBatch, reportVars, Due
    <2>2. UNCHANGED <<tier5, cut5, point5>> /\ pc' # "point 5m"
      BY <1>4 DEF PruneRaw, RawBatch, Goto
    <2> QED
      BY <1>1, <2>1, <2>2 DEF PointWaits
  <1>5. ASSUME NEW ts \in Times, Batch5m(ts) PROVE Keeps5m /\ PointWaits
    <2>1. /\ tier5' = PruneTier(tier5, Bucket5m, ts)
          /\ cut5' = IF ts > cut5 THEN ts ELSE cut5
      BY <1>5 DEF Batch5m
    <2>2. UNCHANGED <<Due, point5>> /\ pc' # "point 5m"
      BY <1>5 DEF Batch5m, reportVars, Due
    <2>3. ts \in Int
      BY Numbers
    <2> QED
      BY <1>2, <2>1, <2>2, <2>3 DEF PointWaits
  <1>6. ASSUME Prune5m PROVE Keeps5m /\ PointWaits
    <2>1. UNCHANGED <<Due, point5>> /\ pc' # "point 5m"
      BY <1>6 DEF Prune5m, reportVars, Due, Goto
    <2>2. \/ UNCHANGED <<tier5, cut5>>
          \/ /\ tier5' = PruneTier(tier5, Bucket5m, now - Keep5m)
             /\ cut5' = IF now - Keep5m > cut5 THEN now - Keep5m ELSE cut5
      BY <1>6 DEF Prune5m
    <2>3. now - Keep5m \in Int
      BY <1>0, Numbers
    <2>4. Keeps5m
      BY <1>1, <1>2, <2>1, <2>2, <2>3
    <2> QED
      BY <2>1, <2>4 DEF PointWaits
  <1>7. ASSUME \/ Wake \/ Into1h \/ Point1h \/ AggregateFails
               \/ Prune1h \/ PruneFails
               \/ RestartLoop \/ Tick \/ UNCHANGED historyVars
               \/ \E ts \in Times : Batch1h(ts)
        PROVE  Keeps5m /\ PointWaits
    <2>3. Due' \subseteq Due
      BY <1>7 DEF historyVars, reportVars, Wake, Into1h, Point1h, AggregateFails,
         Batch1h, Prune1h, PruneFails, RestartLoop, Tick, Due
    <2>1. UNCHANGED <<tier5, cut5, point5>>
      BY <1>7 DEF historyVars, Wake, Into1h, Point1h, AggregateFails,
         Batch1h, Prune1h,
         PruneFails, RestartLoop, Tick
    <2>2. PointWaits
      BY <1>7 DEF historyVars, Wake, Into1h, Point1h, AggregateFails,
         Batch1h, Prune1h,
         PruneFails, RestartLoop, Tick, Goto, PointWaits
    <2> QED
      BY <1>1, <2>1, <2>2, <2>3
  <1> QED
    BY <1>3, <1>4, <1>5, <1>6, <1>7, <1>8 DEF HistoryNext, Aggregate, Prune

\* Every step keeps that every row before the 5-minute point is in its bucket.
LEMMA BucketsStep ==
  ASSUME HistoryInv, HistoryTypeOK', [HistoryNext]_historyVars
  PROVE  Passed5m(point5', Due', tier5', cut5') /\ Point5mMayAdvance'
  <1>0. /\ raw \in SUBSET Times /\ Due \in SUBSET Times /\ now \in Nat /\ Skew \in Nat /\ cut5 \in Nat
        /\ point5 \in Nat /\ at \in Start .. MaxTime
        /\ Passed5m(point5, Due, tier5, cut5)
    BY TimesAre, Numbers DEF HistoryInv
  <1>2. CASE DeleteUsages
    BY <1>2 DEF DeleteUsages, Point5mMayAdvance, Passed5m, Due
  <1>3. CASE Into5m
    <2>1. PICK from \in {point5, 0} :
            \/ /\ from < Cutoff5m
               /\ tier5' = AggregateInto(tier5, raw, Bucket5m, from, Cutoff5m)
               /\ missed' = missed \cup
                    {ts \in waiting \ raw : ts < Floor(Cutoff5m, Bucket5m)}
            \/ pc' = "into 1h" /\ tier5' = tier5 /\ missed' = missed
      BY <1>3 DEF Into5m, AggPoint, Goto
    <2>2. UNCHANGED <<raw, waiting, cut5, point5, at>>
      BY <1>3 DEF Into5m
    <2>6. Due' \subseteq Due
      BY <2>1, <2>2 DEF Due
    <2>3. \A b \in Buckets(Bucket5m) : tier5[b] # {} => tier5'[b] # {}
      <3>1. ASSUME NEW b \in Buckets(Bucket5m), tier5[b] # {}
            PROVE  AggregateInto(tier5, raw, Bucket5m, from, Cutoff5m)[b] # {}
        BY <3>1, AggregateKeeps
      <3> QED
        BY <2>1, <3>1
    <2>4. Keeps5m
      BY <1>0, <2>2, <2>3, <2>6 DEF Keeps5m
    <2>5. ASSUME pc' = "point 5m" PROVE Point5mMayAdvance'
      <3> DEFINE p == Floor(at - Bucket5m, Bucket5m)
      <3>1. tier5' = AggregateInto(tier5, raw, Bucket5m, from, at - Bucket5m)
        BY <2>1, <2>5 DEF Cutoff5m
      <3>4. \A ts \in Due' : ts < p => ts \in raw /\ ts \in Due
        BY <2>1, <2>2, <2>5 DEF Cutoff5m, Due
      <3>2. p \in Nat /\ p <= at - Bucket5m /\ at - Bucket5m \in Nat
        BY <1>0, PointsOf, Numbers
      <3>3. ASSUME NEW ts \in Due', ts < p
            PROVE  tier5'[Floor(ts, Bucket5m)] # {} \/ Floor(ts, Bucket5m) < cut5'
        <4>0. ts \in raw /\ ts \in Due
          BY <3>3, <3>4
        <4>1. /\ ts \in Nat /\ ts \in Times /\ ts < at - Bucket5m
              /\ Floor(ts, Bucket5m) \in Buckets(Bucket5m)
          BY <1>0, <3>2, <3>3, <4>0, Numbers, BucketsAreTimes
        <4>2. CASE from <= ts
          BY <1>0, <3>1, <4>0, <4>1, <4>2, AggregateCovers
        <4>3. CASE ts < point5
          <5>1. tier5[Floor(ts, Bucket5m)] # {} \/ Floor(ts, Bucket5m) < cut5
            BY <1>0, <4>0, <4>3 DEF Passed5m
          <5> QED
            BY <2>2, <2>3, <4>1, <5>1
        <4>4. from \in Nat /\ (from = point5 \/ from = 0)
          BY <1>0
        <4> QED
          BY <1>0, <4>1, <4>2, <4>3, <4>4
      <3> QED
        BY <2>2, <3>3 DEF Point5mMayAdvance, Passed5m
    <2> QED
      BY <2>4, <2>5, EarlyRowsKept DEF Point5mMayAdvance
  <1>4. CASE Point5m
    <2>1. point5' = Floor(at - Bucket5m, Bucket5m) /\ UNCHANGED <<Due, tier5, cut5>>
      BY <1>4 DEF Point5m, Cutoff5m, reportVars, Due
    <2>2. Passed5m(Floor(at - Bucket5m, Bucket5m), Due, tier5, cut5)
      BY <1>4 DEF Point5m, HistoryInv, Point5mMayAdvance
    <2>3. Passed5m(point5', Due', tier5', cut5')
      BY <2>1, <2>2
    <2> QED
      BY <1>4, <2>3 DEF Point5m, Goto, Point5mMayAdvance
  <1> QED
    BY <1>2, <1>3, <1>4, OthersKeep5m, EarlyRowsKept DEF Point5mMayAdvance

\* Every step keeps the hourly point behind the 5-minute point.
LEMMA OrderStep ==
  ASSUME HistoryInv, [HistoryNext]_historyVars
  PROVE  HoursFollowBuckets' /\ HoursMayFollow'
  <1> DEFINE p == Floor(at - Bucket5m, Bucket5m)
             q == Floor(at - Bucket1h, Bucket1h)
  <1>1. /\ at \in Start .. MaxTime /\ at \in Nat /\ Bucket5m \in Nat
        /\ point5 \in Nat /\ point1 \in Nat /\ Floor(point5, Bucket5m) = point5
        /\ point1 <= point5 /\ point5 <= at - Bucket5m
    BY TimesAre, Numbers DEF HistoryInv, HoursFollowBuckets, Clocks
  <1>2. p \in Nat /\ p <= at - Bucket5m /\ q <= p /\ q \in Nat
    BY <1>1, PointsOf, BucketsAreTimes, Numbers
  <1>3. CASE Into5m
    <2>1. /\ pc' = "point 5m" \/ pc' = "into 1h"
          /\ pc' = "into 1h" => ~(point5 < at - Bucket5m) \/ ~(0 < at - Bucket5m)
          /\ UNCHANGED <<point5, point1, at>>
      BY <1>3 DEF Into5m, AggPoint, Goto, Cutoff5m
    <2>2. ASSUME pc' = "into 1h" PROVE p <= point5
      <3>1. ~(point5 < at - Bucket5m) \/ ~(0 < at - Bucket5m)
        BY <2>1, <2>2
      <3>2. at - Bucket5m \in Int
        BY <1>1
      <3> QED
        BY <1>1, <1>2, <3>1, <3>2
    <2>3. HoursMayFollow'
      BY <2>1, <2>2 DEF HoursMayFollow
    <2> QED
      BY <1>1, <2>1, <2>3 DEF HoursFollowBuckets
  <1>4. CASE Point5m
    <2>1. point5' = p /\ UNCHANGED <<point1, at>>
      BY <1>4 DEF Point5m, Cutoff5m
    <2>2. point5 <= p
      <3>1. at - Bucket5m \in Nat /\ Bucket5m \in Nat \ {0}
        BY <1>1, Numbers
      <3>2. Floor(point5, Bucket5m) <= p
        BY <1>1, <3>1, FloorMonotone
      <3> QED
        BY <1>1, <3>2
    <2>3. HoursFollowBuckets'
      BY <1>1, <1>2, <2>1, <2>2 DEF HoursFollowBuckets
    <2>4. p <= p
      BY <1>2
    <2>5. HoursMayFollow'
      BY <2>1, <2>4 DEF HoursMayFollow
    <2> QED
      BY <2>3, <2>5
  <1>5. CASE Point1h
    <2>1. point1' = q /\ UNCHANGED <<point5, at>> /\ pc' = "prune raw" /\ pc = "point 1h"
      BY <1>5 DEF Point1h, Cutoff1h, Goto
    <2>2. p <= point5
      BY <2>1 DEF HistoryInv, HoursMayFollow
    <2>3. HoursFollowBuckets'
      <3>1. q <= point5
        BY <1>1, <1>2, <2>2
      <3> QED
        BY <2>1, <3>1 DEF HoursFollowBuckets
    <2>4. HoursMayFollow'
      BY <2>1 DEF HoursMayFollow
    <2> QED
      BY <2>3, <2>4
  <1>6. \/ Into5m \/ Point5m \/ Point1h
        \/ /\ UNCHANGED <<point5, point1>>
           /\ pc' \in {"into 1h", "point 1h"} =>
                pc \in {"into 1h", "point 1h"} /\ at' = at
    BY DEF HistoryNext, historyVars, Receive, Insert, InsertFails, DeleteUsages, Aggregate, Wake,
       Into1h, AggregateFails, Prune,
       PruneRaw, Prune5m, Prune1h, RawBatch, Batch5m,
       Batch1h, PruneFails, RestartLoop, Tick, Goto
  <1>7. CASE /\ UNCHANGED <<point5, point1>>
             /\ pc' \in {"into 1h", "point 1h"} =>
                  pc \in {"into 1h", "point 1h"} /\ at' = at
    BY <1>1, <1>7 DEF HistoryInv, HoursFollowBuckets, HoursMayFollow
  <1> QED
    BY <1>3, <1>4, <1>5, <1>6, <1>7

\* What goes in the hourly tier is old, and the 5-minute tier gets only buckets that
\* come after the hourly point, or were pruned before.
Keeps1h ==
  /\ \A b \in Buckets(Bucket5m) :
       tier5'[b] \ missed' # {} => tier5[b] \ missed # {} \/ point1 <= b \/ b < cut5'
  /\ \A h \in Buckets(Bucket1h) : tier1[h] # {} => tier1'[h] # {} \/ h < now' - Keep1h
  /\ cut5 <= cut5' /\ now <= now' /\ UNCHANGED point1

\* The pass does not come to "point 1h", and stays with its time and its buckets if it
\* is there.
HourWaits ==
  pc' = "point 1h" =>
    /\ pc = "point 1h" /\ at' = at
    /\ \A b \in Buckets(Bucket5m) : tier5'[b] \ missed' # {} => tier5[b] \ missed # {}

\* The same of hours.
LEMMA HoursKept ==
  ASSUME HistoryInv, HistoryTypeOK', Keeps1h
  PROVE  /\ NoHourSkipped'
         /\ HourWaits => Point1hMayAdvance'
  <1>1. /\ now \in Nat /\ now' \in Nat /\ cut5 \in Nat /\ cut5' \in Nat /\ point1 \in Nat
        /\ at \in Start .. MaxTime
    <2>1. now' \in Start .. MaxTime /\ cut5' \in Times
      BY DEF HistoryTypeOK
    <2> QED
      BY <2>1, TimesAre, Numbers DEF HistoryInv
  <1>2. \A h \in Buckets(Bucket1h) : tier1[h] # {} => tier1'[h] # {} \/ h < now' - Keep1h
    BY DEF Keeps1h
  <1>3. cut5 <= cut5' /\ now <= now' /\ point1' = point1
    BY DEF Keeps1h
  <1>4. NoHourSkipped'
    <2>1. Passed1h(point1, tier5, missed, tier1, cut5, now)
      BY SkippedIs DEF HistoryInv
    <2>2. \A b \in Buckets(Bucket5m) :
            tier5'[b] \ missed' # {} => tier5[b] \ missed # {} \/ point1 <= b \/ b < cut5'
      BY DEF Keeps1h
    <2>3. Passed1h(point1, tier5', missed', tier1', cut5', now')
      BY <1>1, <1>2, <1>3, <2>1, <2>2, Passed1hKept
    <2> QED
      BY <1>3, <2>3, SkippedIs
  <1>5. ASSUME HourWaits, pc' = "point 1h" PROVE Point1hMayAdvance'
    <2> DEFINE q == Floor(at - Bucket1h, Bucket1h)
    <2>1. Passed1h(q, tier5, missed, tier1, cut5, now) /\ at' = at
      BY <1>5 DEF HourWaits, HistoryInv, Point1hMayAdvance
    <2>2. \A b \in Buckets(Bucket5m) :
            tier5'[b] \ missed' # {} => tier5[b] \ missed # {} \/ q <= b \/ b < cut5'
      BY <1>5 DEF HourWaits
    <2>3. q \in Nat
      BY <1>1, PointsOf, BucketsAreTimes, Numbers
    <2>4. Passed1h(q, tier5', missed', tier1', cut5', now')
      BY <1>1, <1>2, <1>3, <2>1, <2>2, <2>3, Passed1hKept
    <2> QED
      BY <2>1, <2>4 DEF Point1hMayAdvance
  <1> QED
    BY <1>4, <1>5 DEF Point1hMayAdvance

\* All actions but three keep the hours, and wait with the point for none.
LEMMA OthersKeep1h ==
  ASSUME HistoryInv, HistoryTypeOK', [HistoryNext]_historyVars
  PROVE  DeleteUsages \/ Into1h \/ Point1h \/ (Keeps1h /\ HourWaits)
  <1>0. /\ now \in Nat /\ cut5 \in Nat /\ point1 \in Nat /\ point5 \in Nat
        /\ raw \in SUBSET Times /\ Passed5m(point5, Due, tier5, cut5) /\ at \in Start .. MaxTime
        /\ Keep1h \in Nat /\ Floor(point5, Bucket5m) = point5
    BY TimesAre, Numbers DEF HistoryInv
  <1>1. ASSUME UNCHANGED <<tier1, point1>>, cut5 <= cut5', now <= now',
               \A b \in Buckets(Bucket5m) : tier5'[b] \subseteq tier5[b], missed \subseteq missed'
        PROVE  /\ Keeps1h
               /\ \A b \in Buckets(Bucket5m) :
                    tier5'[b] \ missed' # {} => tier5[b] \ missed # {}
    BY <1>0, <1>1 DEF Keeps1h
  <1>2. cut5 <= cut5 /\ now <= now
    BY <1>0
  <1>3. CASE Into5m
    <2>1. PICK from \in {point5, 0} :
            \/ tier5' = AggregateInto(tier5, raw, Bucket5m, from, Cutoff5m)
            \/ tier5' = tier5
      BY <1>3 DEF Into5m, AggPoint
    <2>2. UNCHANGED <<tier1, point1, cut5, now>> /\ pc' # "point 1h"
      BY <1>3 DEF Into5m, Goto, reportVars
    <2>4. missed \subseteq missed'
      BY <1>3 DEF Into5m
    <2>3. ASSUME NEW b \in Buckets(Bucket5m), tier5'[b] \ missed' # {},
                 tier5[b] \ missed = {}
          PROVE  point1 <= b \/ b < cut5'
      <3>0. PICK ts \in tier5'[b] : ts \notin missed
        BY <2>3, <2>4
      <3>5. tier5[b] = {}
        <4>1. ts \notin tier5[b]
          BY <2>3, <3>0
        <4>2. tier5'[b] # tier5[b]
          BY <3>0, <4>1
        <4> QED
          BY <2>1, <4>2, AggregateKeeps
      <3>1. ts \in raw /\ from <= ts /\ Floor(ts, Bucket5m) = b /\ ts \in Due
        <4>1. tier5' = AggregateInto(tier5, raw, Bucket5m, from, Cutoff5m)
          BY <2>1, <3>0, <3>5
        <4>2. ts \in raw /\ from <= ts /\ Floor(ts, Bucket5m) = b
          BY <3>0, <3>5, <4>1, AggregateAdds
        <4> QED
          BY <3>0, <4>2 DEF Due
      <3>2. ts \in Nat /\ b \in Nat /\ Bucket5m \in Nat \ {0}
        BY <1>0, <3>1, Numbers, BucketsAreTimes
      <3>3. CASE ts < point5
        BY <1>0, <2>2, <3>1, <3>3, <3>5 DEF Passed5m
      <3>4. CASE point5 <= ts
        <4>1. Floor(point5, Bucket5m) <= Floor(ts, Bucket5m)
          BY <1>0, <3>2, <3>4, FloorMonotone
        <4>2. point1 <= point5
          BY DEF HistoryInv, HoursFollowBuckets
        <4> QED
          BY <1>0, <3>1, <3>2, <4>1, <4>2
      <3> QED
        BY <1>0, <3>2, <3>3, <3>4
    <2> QED
      BY <1>2, <2>2, <2>3 DEF Keeps1h, HourWaits
  <1>4. ASSUME NEW ts \in Times, Batch5m(ts) PROVE Keeps1h /\ HourWaits
    <2>1. /\ tier5' = PruneTier(tier5, Bucket5m, ts)
          /\ cut5' = IF ts > cut5 THEN ts ELSE cut5
      BY <1>4 DEF Batch5m
    <2>2. UNCHANGED <<tier1, point1, now>> /\ pc' # "point 1h"
      BY <1>4 DEF Batch5m
    <2>3. ts \in Nat
      BY Numbers
    <2>4. cut5 <= cut5'
      BY <1>0, <2>1, <2>3
    <2>5. (\A b \in Buckets(Bucket5m) : tier5'[b] \subseteq tier5[b]) /\ missed' = missed
      BY <1>4, <2>1, PruneTakes DEF Batch5m, reportVars
    <2> QED
      BY <1>1, <1>2, <2>2, <2>4, <2>5 DEF HourWaits
  <1>5. ASSUME Prune5m PROVE Keeps1h /\ HourWaits
    <2>1. \/ UNCHANGED <<tier5, cut5>>
          \/ /\ tier5' = PruneTier(tier5, Bucket5m, now - Keep5m)
             /\ cut5' = IF now - Keep5m > cut5 THEN now - Keep5m ELSE cut5
      BY <1>5 DEF Prune5m
    <2>2. UNCHANGED <<tier1, point1, now>> /\ pc' # "point 1h"
      BY <1>5 DEF Prune5m, Goto
    <2>3. cut5 <= cut5'
      BY <1>0, <2>1, Numbers
    <2>4. (\A b \in Buckets(Bucket5m) : tier5'[b] \subseteq tier5[b]) /\ missed' = missed
      BY <1>5, <2>1, PruneTakes DEF Prune5m, reportVars
    <2> QED
      BY <1>1, <1>2, <2>2, <2>3, <2>4 DEF HourWaits
  <1>6. ASSUME NEW upTo \in Int, upTo <= now - Keep1h,
               tier1' = PruneTier(tier1, Bucket1h, upTo),
               UNCHANGED <<tier5, missed, point1, cut5, now>>, pc' # "point 1h"
        PROVE  Keeps1h /\ HourWaits
    <2>1. ASSUME NEW h \in Buckets(Bucket1h), tier1[h] # {}
          PROVE  tier1'[h] # {} \/ h < now' - Keep1h
      <3>1. h \in Nat
        BY BucketsAreTimes, Numbers
      <3>2. tier1'[h] # {} \/ h < upTo
        BY <1>6, <2>1, PruneSpares
      <3>3. h < upTo => h < now - Keep1h
        <4>1. upTo <= now - Keep1h
          BY <1>6
        <4> QED
          BY <1>0, <3>1, <4>1
      <3> QED
        BY <1>6, <3>2, <3>3
    <2> QED
      BY <1>2, <1>6, <2>1 DEF Keeps1h, HourWaits
  <1>7. ASSUME NEW ts \in Times, Batch1h(ts) PROVE Keeps1h /\ HourWaits
    <2>1. ts \in Int
      BY Numbers
    <2>2. /\ ts <= now - Keep1h /\ tier1' = PruneTier(tier1, Bucket1h, ts)
          /\ UNCHANGED <<tier5, missed, point1, cut5, now>> /\ pc' # "point 1h"
      BY <1>7 DEF Batch1h, reportVars
    <2> QED
      BY <1>6, <2>1, <2>2
  <1>8. ASSUME Prune1h PROVE Keeps1h /\ HourWaits
    <2>1. now - Keep1h \in Int /\ now - Keep1h <= now - Keep1h
      BY <1>0
    <2>2. /\ tier1' = PruneTier(tier1, Bucket1h, now - Keep1h)
          /\ UNCHANGED <<tier5, missed, point1, cut5, now>> /\ pc' # "point 1h"
      BY <1>8 DEF Prune1h, Goto, reportVars
    <2> QED
      BY <1>6, <2>1, <2>2
  <1>9. ASSUME \/ \E ts \in Times : Receive(ts) \/ Insert(ts) \/ RawBatch(ts)
               \/ InsertFails
               \/ Wake \/ Point5m \/ AggregateFails \/ PruneRaw
               \/ PruneFails
               \/ RestartLoop \/ Tick \/ UNCHANGED historyVars
        PROVE  Keeps1h /\ HourWaits
    <2>1. UNCHANGED <<tier1, point1, tier5, cut5, missed>>
      BY <1>9 DEF historyVars, reportVars, Receive, Insert, InsertFails, RawBatch, Wake, Point5m,
         AggregateFails, PruneRaw,
         PruneFails, RestartLoop, Tick
    <2>2. now' = now \/ now' = now + 1
      BY <1>9 DEF historyVars, reportVars, Receive, Insert, InsertFails, RawBatch, Wake, Point5m,
         AggregateFails, PruneRaw,
         PruneFails, RestartLoop, Tick
    <2>3. pc' = "point 1h" => pc = "point 1h" /\ at' = at
      BY <1>9 DEF historyVars, reportVars, Receive, Insert, InsertFails, RawBatch, Wake, Point5m,
         AggregateFails, PruneRaw,
         PruneFails, RestartLoop, Tick, Goto
    <2>4. now <= now' /\ cut5 <= cut5'
      BY <1>0, <2>1, <2>2
    <2> QED
      BY <1>1, <2>1, <2>3, <2>4 DEF HourWaits
  <1> QED
    BY <1>3, <1>4, <1>5, <1>7, <1>8, <1>9 DEF HistoryNext, Aggregate, Prune

\* Every step keeps that every bucket before the hourly point is in its hour.
LEMMA HoursStep ==
  ASSUME HistoryInv, HistoryTypeOK', [HistoryNext]_historyVars
  PROVE  NoHourSkipped' /\ Point1hMayAdvance'
  <1>0. /\ now \in Nat /\ cut5 \in Nat /\ point1 \in Nat /\ at \in Start .. MaxTime
        /\ Passed1h(point1, tier5, missed, tier1, cut5, now)
    BY TimesAre, SkippedIs DEF HistoryInv
  <1>1. CASE DeleteUsages
    <2>1. \A b \in Buckets(Bucket5m) : tier5'[b] = {}
      BY <1>1 DEF DeleteUsages, Empty
    <2> QED
      BY <2>1, SkippedIs DEF Passed1h, Point1hMayAdvance
  <1>2. CASE Into1h
    <2>1. PICK from \in {point1, 0} :
            \/ /\ from < Cutoff1h
               /\ tier1' = AggregateInto(tier1, Rows5m, Bucket1h, from, Cutoff1h)
            \/ pc' = "prune raw" /\ tier1' = tier1
      BY <1>2 DEF Into1h, AggPoint, Goto
    <2>2. UNCHANGED <<tier5, missed, cut5, point1, at, now>>
      BY <1>2 DEF Into1h, reportVars
    <2>3. \A h \in Buckets(Bucket1h) : tier1[h] # {} => tier1'[h] # {}
      <3>1. \A h \in Buckets(Bucket1h) :
              tier1[h] # {} => AggregateInto(tier1, Rows5m, Bucket1h, from, Cutoff1h)[h] # {}
        BY AggregateKeeps
      <3> QED
        BY <2>1, <3>1
    <2>4. Keeps1h
      <3>1. cut5 <= cut5 /\ now <= now
        BY <1>0
      <3> QED
        BY <2>2, <2>3, <3>1 DEF Keeps1h
    <2>5. ASSUME pc' = "point 1h" PROVE Point1hMayAdvance'
      <3> DEFINE q == Floor(at - Bucket1h, Bucket1h)
      <3>1. tier1' = AggregateInto(tier1, Rows5m, Bucket1h, from, at - Bucket1h)
        BY <2>1, <2>5 DEF Cutoff1h
      <3>2. q \in Nat /\ q <= at - Bucket1h /\ at - Bucket1h \in Nat
        BY <1>0, PointsOf, BucketsAreTimes, Numbers
      <3>3. ASSUME NEW b \in Buckets(Bucket5m), tier5[b] \ missed # {}, b < q, cut5 <= b,
                   now - Keep1h <= Floor(b, Bucket1h)
            PROVE  tier1'[Floor(b, Bucket1h)] # {}
        <4>1. b \in Rows5m /\ b \in Times
          BY <3>3, BucketsAreTimes DEF Rows5m
        <4>2. b \in Nat /\ b < at - Bucket1h /\ Floor(b,
        Bucket1h) \in Buckets(Bucket1h)
          BY <3>2, <3>3, <4>1, Numbers, BucketsAreTimes
        <4>3. CASE from <= b
          BY <3>1, <4>1, <4>2, <4>3, AggregateCovers
        <4>4. CASE b < point1
          <5>1. tier1[Floor(b, Bucket1h)] # {}
            BY <1>0, <3>3, <4>4 DEF Passed1h
          <5> QED
            BY <2>3, <4>2, <5>1
        <4>5. from \in Nat /\ (from = point1 \/ from = 0)
          BY <1>0
        <4> QED
          BY <1>0, <4>2, <4>3, <4>4, <4>5
      <3>4. Passed1h(q, tier5, missed, tier1', cut5, now)
        BY <3>3 DEF Passed1h
      <3> QED
        BY <2>2, <3>4 DEF Point1hMayAdvance
    <2> QED
      BY <2>4, <2>5, HoursKept DEF Point1hMayAdvance
  <1>3. CASE Point1h
    <2>1. point1' = Floor(at - Bucket1h, Bucket1h) /\ UNCHANGED <<tier5, missed, tier1, cut5, now>>
      BY <1>3 DEF Point1h, Cutoff1h, reportVars
    <2>2. Passed1h(Floor(at - Bucket1h, Bucket1h), tier5, missed, tier1, cut5, now)
      BY <1>3 DEF Point1h, HistoryInv, Point1hMayAdvance
    <2>3. NoHourSkipped'
      BY <2>1, <2>2, SkippedIs
    <2> QED
      BY <1>3, <2>3 DEF Point1h, Goto, Point1hMayAdvance
  <1> QED
    BY <1>1, <1>2, <1>3, OthersKeep1h, HoursKept

\* The tiers of a deleted host: empty, in terms of their buckets.
Nothing(raws, fives, hours) ==
  /\ raws = {} /\ \A b \in Buckets(Bucket5m) : fives[b] = {}
  /\ \A h \in Buckets(Bucket1h) : hours[h] = {}

\* What DeletedLeavesNothing says, bucket by bucket.
LEMMA DeletedIs ==
  ASSUME HistoryTypeOK
  PROVE DeletedLeavesNothing <=> (~enrolled => Nothing(raw, tier5, tier1))
  <1>1. tier1 \in [Buckets(Bucket1h) -> SUBSET Times]
    BY DEF HistoryTypeOK
  <1>2. (\A h \in Buckets(Bucket1h) : tier1[h] = {}) <=> tier1 = Empty(Bucket1h)
    BY <1>1 DEF Empty
  <1>3. (\A b \in Buckets(Bucket5m) : tier5[b] = {}) <=> Rows5m = {}
    BY DEF Rows5m
  <1> QED
    BY <1>2, <1>3 DEF DeletedLeavesNothing, Nothing

\* Nothing adds to the history of a deleted host.
LEMMA DeletedStep ==
  ASSUME HistoryInv, HistoryTypeOK', [HistoryNext]_historyVars
  PROVE  ~enrolled' => Nothing(raw', tier5', tier1')
  <1>1. CASE DeleteUsages
    BY <1>1 DEF DeleteUsages, Empty, Nothing
  <1>2. ASSUME ~DeleteUsages, ~enrolled' PROVE ~enrolled /\ Nothing(raw, tier5, tier1)
    <2>1. ~enrolled
      BY <1>2 DEF HistoryNext, historyVars, reportVars, Receive, Insert, InsertFails, Aggregate, Wake,
         Into5m, Point5m, Into1h, Point1h,
         AggregateFails, Prune, PruneRaw, Prune5m, Prune1h,
         RawBatch, Batch5m, Batch1h,
         PruneFails, RestartLoop, Tick
    <2> QED
      BY <2>1, DeletedIs DEF HistoryInv
  <1>3. ASSUME ~enrolled, Nothing(raw, tier5, tier1), ~DeleteUsages
        PROVE  Nothing(raw', tier5', tier1')
    <2>1. CASE Into5m
      <3>1. \/ tier5' = tier5
            \/ \E from \in {point5, 0} :
                 tier5' = AggregateInto(tier5, raw, Bucket5m, from, Cutoff5m)
        BY <2>1 DEF Into5m, AggPoint
      <3>2. \A b \in Buckets(Bucket5m) : tier5'[b] = {}
        BY <1>3, <3>1, AggregateAdds DEF Nothing
      <3> QED
        BY <1>3, <2>1, <3>2 DEF Into5m, Nothing
    <2>2. CASE Into1h
      <3>1. \/ tier1' = tier1
            \/ \E from \in {point1, 0} :
                 tier1' = AggregateInto(tier1, Rows5m, Bucket1h, from, Cutoff1h)
        BY <2>2 DEF Into1h, AggPoint
      <3>2. Rows5m = {}
        BY <1>3 DEF Nothing, Rows5m
      <3>3. \A h \in Buckets(Bucket1h) : tier1'[h] = {}
        BY <1>3, <3>1, <3>2, AggregateAdds DEF Nothing
      <3> QED
        BY <1>3, <2>2, <3>3 DEF Into1h, Nothing
    <2>3. CASE PruneRaw \/ \E ts \in Times : RawBatch(ts)
      BY <1>3, <2>3 DEF PruneRaw, RawBatch, Nothing
    <2>4. ASSUME Prune5m \/ \E ts \in Times : Batch5m(ts)
          PROVE  Nothing(raw', tier5', tier1')
      <3>1. /\ tier5' = tier5 \/ \E upTo : tier5' = PruneTier(tier5, Bucket5m, upTo)
            /\ UNCHANGED <<raw, tier1>>
        BY <2>4 DEF Prune5m, Batch5m
      <3> QED
        BY <1>3, <3>1, PruneTakes DEF Nothing
    <2>5. ASSUME Prune1h \/ \E ts \in Times : Batch1h(ts)
          PROVE  Nothing(raw', tier5', tier1')
      <3>1. (\E upTo : tier1' = PruneTier(tier1, Bucket1h, upTo)) /\ UNCHANGED <<raw, tier5>>
        BY <2>5 DEF Prune1h, Batch1h
      <3> QED
        BY <1>3, <3>1, PruneTakes DEF Nothing
    <2>6. CASE UNCHANGED <<raw, tier5, tier1>>
      BY <1>3, <2>6 DEF Nothing
    <2>7. ASSUME \/ Wake \/ Point5m \/ Point1h \/ AggregateFails
                 \/ PruneFails
                 \/ RestartLoop \/ Tick \/ UNCHANGED historyVars
                 \/ InsertFails \/ \E ts \in Times : Receive(ts) \/ Insert(ts)
          PROVE  UNCHANGED <<raw, tier5, tier1>>
      BY <1>3, <2>7 DEF historyVars, Receive, Insert, InsertFails, Wake, Point5m, Point1h, AggregateFails,
         PruneFails, RestartLoop, Tick
    <2> QED
      BY <1>3, <2>1, <2>2, <2>3, <2>4, <2>5, <2>6, <2>7 DEF HistoryNext, Aggregate,
         Prune
  <1> QED
    BY <1>1, <1>2, <1>3

-----------------------------------------------------------------------------
(* Theorems *)

\* The invariant holds at first ...
LEMMA HistoryInvInit == ASSUME HistoryInit PROVE HistoryInv
  <1>1. HistoryTypeOK
    BY HistoryTypeInit
  <1>2. /\ raw = {} /\ waiting = {} /\ enrolled = TRUE /\ point5 = 0 /\ point1 = 0 /\ pc = "into 5m"
        /\ now = Start /\ at = Start /\ tier5 = Empty(Bucket5m)
    BY DEF HistoryInit
  <1>3. Passed5m(point5, Due, tier5, cut5) /\ NoHourSkipped /\ HoursFollowBuckets
    <2>1. Rows5m = {}
      BY <1>2 DEF Rows5m, Empty
    <2>2. 0 <= 0
      OBVIOUS
    <2> QED
      BY <1>2, <2>1, <2>2 DEF Passed5m, Due, NoHourSkipped,
         HoursFollowBuckets
  <1>4. Clocks
    <2>1. Start <= Start /\ 0 <= Start - Bucket5m
      BY Numbers
    <2> QED
      BY <1>2, <2>1 DEF Clocks
  <1> QED
    BY <1>1, <1>2, <1>3, <1>4 DEF HistoryInv, DeletedLeavesNothing, Point5mMayAdvance,
       HoursMayFollow, Point1hMayAdvance

\* ... every step keeps it ...
LEMMA HistoryInvStep ==
  ASSUME HistoryInv, [HistoryNext]_historyVars
  PROVE HistoryInv'
  <1>1. HistoryTypeOK'
    BY HistoryTypeStep DEF HistoryInv
  <1>2. (Passed5m(point5, Due, tier5, cut5) /\ NoHourSkipped /\ HoursFollowBuckets)'
    BY <1>1, BucketsStep, HoursStep, OrderStep
  <1>3. DeletedLeavesNothing'
    <2>1. ~enrolled' => raw' = {} /\ Rows5m' = {} /\ tier1' = Empty(Bucket1h)
      <3>1. tier1' \in [Buckets(Bucket1h) -> SUBSET Times]
        BY <1>1 DEF HistoryTypeOK
      <3>2. ~enrolled' => Nothing(raw', tier5', tier1')
        BY <1>1, DeletedStep
      <3>3. ~enrolled' => raw' = {} /\ Rows5m' = {}
        BY <3>2 DEF Nothing, Rows5m
      <3>4. ~enrolled' => tier1' = Empty(Bucket1h)
        BY <3>1, <3>2 DEF Nothing, Empty
      <3> QED
        BY <3>3, <3>4
    <2> QED
      BY <2>1 DEF DeletedLeavesNothing
  <1> QED
    BY <1>1, <1>2, <1>3, ClocksStep, BucketsStep, OrderStep, HoursStep DEF HistoryInv

\* ... and so it always holds.
LEMMA HistoryInvHolds == HistorySpec => []HistoryInv
  BY HistoryInvInit, HistoryInvStep, PTL DEF HistorySpec

\* The variables of Downsample keep their types.
THEOREM HistoryTypeCorrect == HistorySpec => []HistoryTypeOK
  <1>1. HistoryInv => HistoryTypeOK
    BY DEF HistoryInv
  <1> QED
    BY <1>1, HistoryInvHolds, PTL

\* Before the points that are stored, every row has its 5-minute bucket and every bucket
\* its hour, unless it was pruned, or aggregation overtook the row on its way to the
\* table: wherever a pass fails, or the process is restarted, nothing else of the history
\* is skipped.
THEOREM HistorySkipsNothing == HistorySpec => []NothingSkipped
  <1>1. HistoryInv => NothingSkipped
    BY SkippedIs DEF HistoryInv, NothingSkipped
  <1> QED
    BY <1>1, HistoryInvHolds, PTL

\* A host that was deleted leaves no usage behind, even if it is deleted in the middle
\* of a pass.
THEOREM DeletedHistoryIsGone == HistorySpec => []DeletedLeavesNothing
  <1>1. HistoryInv => DeletedLeavesNothing
    BY DEF HistoryInv
  <1> QED
    BY <1>1, HistoryInvHolds, PTL
=============================================================================
