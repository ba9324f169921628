------------------------------ MODULE TagPromise ------------------------------
(***************************************************************************)
(* What the tags of hosts are for those who read them: hosts have sets of    *)
(* tags, a tag has one name, a new tag is on no host, a renamed one stays     *)
(* where it is, a deleted one is nowhere.  Hosts of an older version bring    *)
(* their tags along.                                                          *)
(***************************************************************************)
EXTENDS Naturals

CONSTANTS Hosts, Names, None, MaxId, LegacyOf

VARIABLES
  open,  \* the tags of the older version have been taken over
  life,  \* "unused", "present", "deleted"
  name,  \* of a tag, None if there is no such tag
  has    \* the tags of a host

vars == <<open, life, name, has>>
Ids  == 1..MaxId
Live == {t \in Ids : name[t] # None}

Init ==
  /\ ~open
  /\ life \in [Hosts -> {"unused", "present"}]
  /\ name = [t \in Ids |-> None] /\ has = [h \in Hosts |-> {}]

Unique(f) == \A s, t \in Ids : f[s] # None /\ f[s] = f[t] => s = t

TakeOver ==
  /\ ~open /\ open' = TRUE
  /\ name' \in [Ids -> Names \cup {None}] /\ Unique(name')
  /\ has' \in [Hosts -> SUBSET {t \in Ids : name'[t] # None}]
  /\ \A h \in Hosts : {name'[t] : t \in has'[h]} = LegacyOf[h]
  /\ UNCHANGED life

Give(t, n) ==
  /\ name' = [name EXCEPT ![t] = n] /\ Unique(name')
  /\ UNCHANGED <<open, life, has>>

NewTag(t, n) == open /\ t \notin Live /\ Give(t, n)

Rename(t, n) == open /\ t \in Live /\ Give(t, n)

DropTag(t) ==
  /\ t \in Live
  /\ name' = [name EXCEPT ![t] = None]
  /\ has' = [h \in Hosts |-> has[h] \ {t}]
  /\ UNCHANGED <<open, life>>

SetTags(h, S) ==
  /\ life[h] = "present"
  /\ has' = [has EXCEPT ![h] = S]
  /\ UNCHANGED <<open, life, name>>

NewHost(h, S) ==
  /\ open /\ life[h] = "unused"
  /\ life' = [life EXCEPT ![h] = "present"]
  /\ has' = [has EXCEPT ![h] = S]
  /\ UNCHANGED <<open, name>>

DropHost(h) ==
  /\ open /\ life[h] = "present"
  /\ life' = [life EXCEPT ![h] = "deleted"]
  /\ has' = [has EXCEPT ![h] = {}]
  /\ UNCHANGED <<open, name>>

Next ==
  \/ TakeOver
  \/ \E t \in Ids : DropTag(t) \/ \E n \in Names : NewTag(t, n) \/ Rename(t, n)
  \/ \E h \in Hosts : DropHost(h) \/ \E S \in SUBSET Live : SetTags(h, S) \/ NewHost(h, S)

Spec == Init /\ [][Next]_vars
=============================================================================
