--------------------------------- MODULE Tags ---------------------------------
(***************************************************************************)
(* Tags of hosts: the tables tags and host_tags (store/tag.go), the creation, *)
(* change and deletion of hosts (store/host.go), and the take-over of the     *)
(* tags an older version kept in the column hosts.tags.                       *)
(*                                                                         *)
(* The pool has one connection: a statement or a transaction is one step.      *)
(* CreateHost and UpdateHost consist of several, with others in between.       *)
(* migrateHostTags runs alone, before the server listens, but may be cut off.  *)
(***************************************************************************)
EXTENDS Integers, Sequences, FiniteSets

CONSTANTS
  Hosts,     \* public ids
  Names,     \* of tags, trimmed and not empty
  Requests,  \* create and update requests under way
  Wants,     \* sets of names a request may carry
  Legacy,    \* <<host, name>> as the column hosts.tags has them, in order
  MaxId,     \* bound on the ids that are ever given to tags
  None

ASSUME NoneIsNoName == None \notin Names
ASSUME WantsAreNames == Wants \subseteq SUBSET Names
ASSUME LegacyIsPairs == Legacy \in Seq(Hosts \X Names)
ASSUME BoundIsId == MaxId \in Nat

VARIABLES
  life,     \* a host has no row yet, has one, or its row was deleted
  name,     \* tags: the name of an id, None without a row
  autoinc,  \* the largest id ever given (AUTOINCREMENT)
  rows,     \* host_tags
  column,   \* hosts.tags still has the legacy tags
  up,       \* the server listens
  pos, id,  \* migrateHostTags: the item, and the tag id found for it (or 0)
  last,     \* last_insert_rowid of the connection
  req       \* the requests

tables == <<life, name, autoinc, rows, column>>
migration == <<pos, id, last>>
vars == <<tables, up, migration, req>>

Ids  == 1..MaxId
Live == {t \in Ids : name[t] # None}
Held == {name[t] : t \in Live}
Item == Legacy[pos]
LegacyOf == [h \in Hosts |-> {n \in Names : \E i \in DOMAIN Legacy : Legacy[i] = <<h, n>>}]

\* steady (history): the tags that have been there, unchanged, since the request
\* read them first.
Idle == [step |-> "idle", host |-> None, want |-> {}, found |-> {}, ids |-> {}, steady |-> {}]

TypeOK ==
  /\ life \in [Hosts -> {"unused", "present", "deleted"}]
  /\ name \in [Ids -> Names \cup {None}]
  /\ autoinc \in 0..MaxId
  /\ rows \subseteq Hosts \X Nat
  /\ column \in BOOLEAN /\ up \in BOOLEAN
  /\ pos \in 1..Len(Legacy) + 1 /\ id \in Nat /\ last \in Nat
  /\ req \in [Requests ->
       {Idle} \cup [step : {"creating", "named", "updated", "looked"},
                    host : Hosts, want : Wants, found : SUBSET Names,
                    ids : SUBSET Ids, steady : SUBSET Ids]]

Init ==
  /\ life \in [Hosts -> {"unused", "present"}]
  /\ \A i \in DOMAIN Legacy : life[Legacy[i][1]] = "present"
  /\ name = [t \in Ids |-> None] /\ autoinc = 0 /\ rows = {}
  /\ column = TRUE /\ up = FALSE
  /\ pos = 1 /\ id = 0 /\ last = 0
  /\ req = [r \in Requests |-> Idle]

\* Mutant: ids without AUTOINCREMENT.
NextIdReused == CHOOSE t \in 1..MaxId + 1 : \A s \in 1..MaxId + 1 : (s >= t) <=> (\A u \in Live : u < s)

NextId == autoinc + 1

-----------------------------------------------------------------------------
(* migrateHostTags *)

\* INSERT OR IGNORE that inserted nothing leaves last_insert_rowid as it was; the
\* id is looked up only if that is 0.
FoundId(n) == IF last = 0 THEN CHOOSE t \in Ids : name[t] = n ELSE last

Import ==
  /\ ~up /\ column /\ pos <= Len(Legacy) /\ id = 0 /\ autoinc < MaxId
  /\ LET n == Item[2] IN
       IF n \in Held
         THEN id' = FoundId(n) /\ UNCHANGED <<name, last>>
         ELSE id' = NextId /\ last' = NextId /\ name' = [name EXCEPT ![NextId] = n]
  /\ autoinc' = autoinc + 1    \* an ignored row uses up an id, too
  /\ UNCHANGED <<life, rows, column, up, pos, req>>

Link ==
  /\ ~up /\ pos <= Len(Legacy) /\ id # 0
  /\ rows' = rows \cup {<<Item[1], id>>}
  /\ last' = IF <<Item[1], id>> \in rows THEN last ELSE Cardinality(rows) + 1
  /\ pos' = pos + 1 /\ id' = 0
  /\ UNCHANGED <<life, name, autoinc, column, up, req>>

AllLinked == pos > Len(Legacy)

\* The column is emptied, and the server starts to listen.
Open ==
  /\ ~up /\ (column => AllLinked)
  /\ column' = FALSE /\ up' = TRUE
  /\ pos' = 1 /\ last' = 0    \* not used any more
  /\ UNCHANGED <<life, name, autoinc, rows, id, req>>

\* The process ends, or Open fails, and it is started again: a new connection.
Restart ==
  /\ up' = FALSE /\ pos' = 1 /\ id' = 0 /\ last' = 0
  /\ req' = [r \in Requests |-> Idle]
  /\ UNCHANGED tables

-----------------------------------------------------------------------------
(* Tags *)

Unsteady(t) == req' = [r \in Requests |-> [req[r] EXCEPT !.steady = @ \ {t}]]

\* CreateTag; a name in use is refused by the unique index.
CreateTag(n) ==
  /\ up /\ n \notin Held /\ autoinc < MaxId
  /\ name' = [name EXCEPT ![NextId] = n]
  /\ autoinc' = NextId
  /\ UNCHANGED <<life, rows, column, up, migration, req>>

\* UpdateTag.
UpdateTag(t, n) ==
  /\ up /\ t \in Live /\ n \notin Held \ {name[t]}
  /\ name' = [name EXCEPT ![t] = n]
  /\ Unsteady(t)
  /\ UNCHANGED <<life, autoinc, rows, column, up, migration>>

DeleteTag(t) ==
  /\ up /\ t \in Live
  /\ rows' = {w \in rows : w[2] # t}
  /\ name' = [name EXCEPT ![t] = None]
  /\ Unsteady(t)
  /\ UNCHANGED <<life, autoinc, column, up, migration>>

-----------------------------------------------------------------------------
(* Hosts *)

\* existingTagNames, at the beginning of createHost and UpdateHost.
Read(r, step, h, N) ==
  /\ up /\ req[r].step = "idle"
  /\ req' = [req EXCEPT ![r] = [step |-> step, host |-> h, want |-> N,
                                found |-> N \cap Held, ids |-> {}, steady |-> Live]]
  /\ UNCHANGED <<tables, up, migration>>

CreateRead(r, h, N) ==
  life[h] = "unused" /\ (\A q \in Requests : req[q].host # h) /\ Read(r, "creating", h, N)

UpdateRead(r, h, N) == life[h] # "unused" /\ Read(r, "named", h, N)

\* createHost: the transaction looks the ids up again.
Create(r) ==
  LET h == req[r].host IN
  /\ req[r].step = "creating"
  /\ life' = [life EXCEPT ![h] = "present"]
  /\ rows' = rows \cup {<<h, t>> : t \in {s \in Live : name[s] \in req[r].found}}
  /\ req' = [req EXCEPT ![r] = Idle]
  /\ UNCHANGED <<name, autoinc, column, up, migration>>

\* UpdateHost: the row of the host must be there.
UpdateRow(r) ==
  /\ req[r].step = "named" /\ life[req[r].host] = "present"
  /\ req' = [req EXCEPT ![r].step = "updated"]
  /\ UNCHANGED <<tables, up, migration>>

\* replaceHostTags: tagIDsByNames.
Look(r) ==
  /\ req[r].step = "updated"
  /\ req' = [req EXCEPT ![r].step = "looked", ![r].found = {},
                        ![r].ids = {t \in Live : name[t] \in req[r].found}]
  /\ UNCHANGED <<tables, up, migration>>

\* Mutant: the DELETE is missing.
ReplacedAdding(h, S) == rows \cup ({h} \X S)

Replaced(h, S) == {w \in rows : w[1] # h} \cup ({h} \X S)

\* replaceHostTags: the transaction.  It asks neither for the tags nor the host.
Replace(r) ==
  /\ req[r].step = "looked"
  /\ rows' = Replaced(req[r].host, req[r].ids)
  /\ req' = [req EXCEPT ![r] = Idle]
  /\ UNCHANGED <<life, name, autoinc, column, up, migration>>

\* Mutant: what a request carried is kept for the next one.
GiveUpKeeping(r) ==
  /\ req[r].step # "idle"
  /\ req' = [req EXCEPT ![r].step = "idle"]
  /\ UNCHANGED <<tables, up, migration>>

\* Not found, or a database error.
GiveUp(r) ==
  /\ req[r].step # "idle"
  /\ req' = [req EXCEPT ![r] = Idle]
  /\ UNCHANGED <<tables, up, migration>>

DeleteHost(h) ==
  /\ up /\ life[h] = "present"
  /\ life' = [life EXCEPT ![h] = "deleted"]
  /\ rows' = {w \in rows : w[1] # h}
  /\ UNCHANGED <<name, autoinc, column, up, migration, req>>

Next ==
  \/ Import \/ Link \/ Open \/ Restart
  \/ \E n \in Names : CreateTag(n) \/ \E t \in Ids : UpdateTag(t, n)
  \/ \E t \in Ids : DeleteTag(t)
  \/ \E h \in Hosts : DeleteHost(h)
  \/ \E r \in Requests :
       \/ \E h \in Hosts, N \in Wants : CreateRead(r, h, N) \/ UpdateRead(r, h, N)
       \/ Create(r) \/ UpdateRow(r) \/ Look(r) \/ Replace(r) \/ GiveUp(r)

Spec == Init /\ [][Next]_vars

-----------------------------------------------------------------------------
(* Properties *)

\* What loadTagsForHostContext and loadTagsForHostsContext join.
Shown(h) == {t \in Live : <<h, t>> \in rows}

\* An update or a creation that overlaps changes of tags and other requests:
\* every tag that nobody touched meanwhile is on the host exactly if asked for.
UpdateIsExact ==
  [][\A r \in Requests :
       Create(r) \/ Replace(r) =>
         \A t \in req[r].steady : <<req[r].host, t>> \in rows' <=> name[t] \in req[r].want]_vars

\* Not kept, and not checked in a run: when the server opens an older database, its
\* hosts show the tags they had (README.md, section 3).
MigrationKeepsTags ==
  [][column /\ ~column' => \A h \in Hosts : {name[t] : t \in Shown(h)} = LegacyOf[h]]_vars

-----------------------------------------------------------------------------
(* Refinement.  Rows of a tag or a host that is gone may stay behind, when an   *)
(* update overlaps the deletion; ids are not used twice, so nobody sees them.    *)

Promise == INSTANCE TagPromise WITH
  open <- ~column,
  name <- [t \in Ids |-> IF column THEN None ELSE name[t]],
  has  <- [h \in Hosts |-> IF column \/ life[h] # "present" THEN {} ELSE Shown(h)]

\* What readers see is what TagPromise allows, step by step.
KeepsPromise == Promise!Spec
=============================================================================
