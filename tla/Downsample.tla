----------------------------- MODULE Downsample -----------------------------
(***************************************************************************)
(* The three tiers of usage history of one host: raw rows, 5-minute buckets  *)
(* and hourly buckets (store/downsample.go), fed by system_usage reports      *)
(* (server/ingest.go, store/usage.go), rolled up and pruned by                *)
(* maintenanceLoop (main.go).  Hosts do not interact: every statement groups  *)
(* by host.                                                                  *)
(*                                                                         *)
(* A row is its timestamp, a bucket is the set of rows it was computed from:  *)
(* the averages and maxima depend on nothing else.  An empty set is a bucket  *)
(* that does not exist.  Each statement is one step; the process may end      *)
(* between two of them, and the settings table keeps the aggregation points.  *)
(***************************************************************************)
EXTENDS Integers, FiniteSets

CONSTANTS
  Bucket5m,   \* downsampleBucket5mSeconds, also the window that must have passed
  Bucket1h,   \* downsampleBucket1hSeconds, also the hourly window
  Skew,       \* maxUsageClockSkew
  KeepRaw,    \* retention of raw rows (one day)
  Keep5m,     \* retentionDays; 0 keeps buckets for ever
  Keep1h,     \* hourlyRetentionSeconds
  MayFail,    \* whether statements fail and the process restarts
  Start,      \* when the behaviour begins
  MaxTime,    \* bound: when it ends
  MaxRows     \* bound: rows received

\* Five minutes divide an hour; the accepted skew is within the window; there is an
\* hour of history, and the clock starts before it ends.
ASSUME BoundsAssumption ==
  /\ {Bucket5m, Bucket1h} \subseteq Nat \ {0}
  /\ {Skew, KeepRaw, Keep5m, Keep1h, Start, MaxTime, MaxRows} \subseteq Nat
  /\ Bucket1h % Bucket5m = 0
  /\ Skew <= Bucket5m /\ Skew <= Start /\ Bucket1h <= Start
  /\ Start <= MaxTime

ASSUME MayFailIsBoolean == MayFail \in BOOLEAN

VARIABLES
  now,       \* the clock
  enrolled,  \* the host exists
  waiting,   \* the row of the message under way, accepted and not yet written
  received,  \* rows ever accepted (history)
  missed,    \* rows that still waited when aggregation passed their time (history)
  raw,       \* table usages
  tier5,     \* table usages_5m
  tier1,     \* table usages_1h
  point5,    \* setting usage5mAggTs
  point1,    \* setting usage1hAggTs
  pc,        \* the step of maintenanceLoop
  at,        \* nowUnix of the AggregateUsage under way
  cut5       \* buckets of usages_5m before this time were pruned (history)

reportVars == <<enrolled, waiting, received, missed>>
historyVars == <<now, reportVars, raw, tier5, tier1, point5, point1, pc, at, cut5>>

Times == 0 .. (MaxTime + Skew)
Floor(t, width) == (t \div width) * width
Buckets(width) == {Floor(t, width) : t \in Times}
Empty(width) == [b \in Buckets(width) |-> {}]

HistoryTypeOK ==
  /\ now \in Start .. MaxTime /\ at \in Start .. MaxTime
  /\ enrolled \in BOOLEAN
  /\ {waiting, received, missed, raw} \subseteq SUBSET Times
  /\ tier5 \in [Buckets(Bucket5m) -> SUBSET Times]
  /\ tier1 \in [Buckets(Bucket1h) -> SUBSET Times]
  /\ point5 \in Buckets(Bucket5m) /\ point1 \in Buckets(Bucket1h) /\ cut5 \in Times
  /\ pc \in {"sleep", "into 5m", "point 5m", "into 1h", "point 1h",
             "prune raw", "prune 5m", "prune 1h"}

HistoryInit ==
  /\ now = Start /\ enrolled = TRUE
  /\ raw = {} /\ waiting = {} /\ received = {} /\ missed = {}
  /\ tier5 = Empty(Bucket5m) /\ tier1 = Empty(Bucket1h)
  /\ point5 = 0 /\ point1 = 0 /\ cut5 = 0
  /\ pc = "into 5m" /\ at = now

-----------------------------------------------------------------------------
(* Reports *)

\* Mutant: reports may be as late as they like.
InSkewLate(ts) == ts <= now + Skew

InSkew(ts) == ts >= now - Skew /\ ts <= now + Skew

\* dispatchConn accepts a report: the clock is read, and the row waits for the
\* database.  The message is handled under the lifecycle lock (read), so a host has
\* one at a time.
Receive(ts) ==
  /\ enrolled /\ waiting = {} /\ Cardinality(received) < MaxRows
  /\ InSkew(ts)
  /\ waiting' = {ts} /\ received' = received \cup {ts}
  /\ UNCHANGED <<now, enrolled, missed, raw, tier5, tier1, point5, point1, pc, at, cut5>>

\* InsertUsage, when the connection is free: nobody looks at the time again.  A row
\* of a host that is no longer there is dropped.
Insert(ts) ==
  /\ ts \in waiting /\ waiting' = {}
  /\ raw' = IF enrolled THEN raw \cup {ts} ELSE raw
  /\ UNCHANGED <<now, enrolled, received, missed, tier5, tier1, point5, point1, pc, at, cut5>>

\* The statement fails: the report is lost.
InsertFails ==
  /\ MayFail /\ waiting # {} /\ waiting' = {}
  /\ UNCHANGED <<now, enrolled, received, missed, raw, tier5, tier1, point5, point1, pc, at, cut5>>

\* Mutant: the hourly table is not among those DeleteHost clears.
DeleteUsagesKeeping1h ==
  /\ enrolled /\ enrolled' = FALSE /\ waiting = {}
  /\ raw' = {} /\ tier5' = Empty(Bucket5m)
  /\ received' = {} /\ missed' = {}
  /\ UNCHANGED <<now, waiting, tier1, point5, point1, pc, at, cut5>>

\* DeleteHost, one transaction: its statements about usage.  RevokeAgent holds the
\* lifecycle lock (write), so no report of the host is under way.
DeleteUsages ==
  /\ enrolled /\ enrolled' = FALSE /\ waiting = {}
  /\ raw' = {} /\ tier5' = Empty(Bucket5m) /\ tier1' = Empty(Bucket1h)
  /\ received' = {} /\ missed' = {}
  /\ UNCHANGED <<now, waiting, point5, point1, pc, at, cut5>>

-----------------------------------------------------------------------------
(* AggregateUsage *)

Goto(step) == pc' = step

\* aggregateInto: buckets of the rows in [from, to); ON CONFLICT DO NOTHING
\* leaves a bucket that exists as it is.
Grouped(rows, width, from, to, b) ==
  {ts \in rows : from <= ts /\ ts < to /\ Floor(ts, width) = b}

AggregateInto(tier, rows, width, from, to) ==
  [b \in Buckets(width) |->
     IF tier[b] # {} THEN tier[b] ELSE Grouped(rows, width, from, to, b)]

\* aggPoint: a setting that cannot be read counts as 0.
AggPoint(point) == IF MayFail THEN {point, 0} ELSE {point}

Cutoff5m == at - Bucket5m
Cutoff1h == at - Bucket1h

Wake ==
  /\ pc = "sleep"
  /\ Goto("into 5m") /\ at' = now
  /\ UNCHANGED <<now, reportVars, raw, tier5, tier1, point5, point1, cut5>>

Into5m ==
  /\ pc = "into 5m"
  /\ \E from \in AggPoint(point5) :
       IF from < Cutoff5m
         THEN /\ tier5' = AggregateInto(tier5, raw, Bucket5m, from, Cutoff5m)
              /\ missed' = missed \cup {ts \in waiting \ raw : ts < Floor(Cutoff5m, Bucket5m)}
              /\ Goto("point 5m")
         ELSE /\ Goto("into 1h") /\ UNCHANGED <<tier5, missed>>
  /\ UNCHANGED <<now, enrolled, waiting, received, raw, tier1, point5, point1, at, cut5>>

\* Mutant: the point is in the middle of a bucket.
Point5mUnfloored ==
  /\ pc = "point 5m"
  /\ point5' = Cutoff5m
  /\ Goto("into 1h")
  /\ UNCHANGED <<now, reportVars, raw, tier5, tier1, point1, at, cut5>>

Point5m ==
  /\ pc = "point 5m"
  /\ point5' = Floor(Cutoff5m, Bucket5m)
  /\ Goto("into 1h")
  /\ UNCHANGED <<now, reportVars, raw, tier5, tier1, point1, at, cut5>>

Rows5m == {b \in Buckets(Bucket5m) : tier5[b] # {}}

Into1h ==
  /\ pc = "into 1h"
  /\ \E from \in AggPoint(point1) :
       IF from < Cutoff1h
         THEN /\ tier1' = AggregateInto(tier1, Rows5m, Bucket1h, from, Cutoff1h)
              /\ Goto("point 1h")
         ELSE /\ Goto("prune raw") /\ UNCHANGED tier1
  /\ UNCHANGED <<now, reportVars, raw, tier5, point5, point1, at, cut5>>

Point1h ==
  /\ pc = "point 1h"
  /\ point1' = Floor(Cutoff1h, Bucket1h)
  /\ Goto("prune raw")
  /\ UNCHANGED <<now, reportVars, raw, tier5, tier1, point5, at, cut5>>

\* A statement fails: AggregateUsage returns, and the loop goes on to prune.
AggregateFails ==
  /\ MayFail /\ pc \in {"into 5m", "point 5m", "into 1h", "point 1h"}
  /\ Goto("prune raw")
  /\ UNCHANGED <<now, reportVars, raw, tier5, tier1, point5, point1, at, cut5>>

-----------------------------------------------------------------------------
(* PruneUsages and PruneDownsampled *)

Before(b, cutoff) == b < cutoff
PruneTier(tier, width, cutoff) ==
  [b \in Buckets(width) |-> IF Before(b, cutoff) THEN {} ELSE tier[b]]

\* pruneByTs deletes the oldest rows in batches, each a statement of its own.
RawBatch(upTo) ==
  /\ pc = "prune raw" /\ upTo <= now - KeepRaw
  /\ raw' = {ts \in raw : ~Before(ts, upTo)} /\ raw' # raw
  /\ UNCHANGED <<now, reportVars, tier5, tier1, point5, point1, pc, at, cut5>>

Batch5m(upTo) ==
  /\ pc = "prune 5m" /\ Keep5m > 0 /\ upTo <= now - Keep5m
  /\ tier5' = PruneTier(tier5, Bucket5m, upTo) /\ tier5' # tier5
  /\ cut5' = IF upTo > cut5 THEN upTo ELSE cut5
  /\ UNCHANGED <<now, reportVars, raw, tier1, point5, point1, pc, at>>

Batch1h(upTo) ==
  /\ pc = "prune 1h" /\ upTo <= now - Keep1h
  /\ tier1' = PruneTier(tier1, Bucket1h, upTo) /\ tier1' # tier1
  /\ UNCHANGED <<now, reportVars, raw, tier5, point5, point1, pc, at, cut5>>

PruneRaw ==
  /\ pc = "prune raw"
  /\ raw' = {ts \in raw : ~Before(ts, now - KeepRaw)}
  /\ Goto("prune 5m")
  /\ UNCHANGED <<now, reportVars, tier5, tier1, point5, point1, at, cut5>>

Prune5m ==
  /\ pc = "prune 5m"
  /\ IF Keep5m > 0
       THEN /\ tier5' = PruneTier(tier5, Bucket5m, now - Keep5m)
            /\ cut5' = IF now - Keep5m > cut5 THEN now - Keep5m ELSE cut5
       ELSE UNCHANGED <<tier5, cut5>>
  /\ Goto("prune 1h")
  /\ UNCHANGED <<now, reportVars, raw, tier1, point5, point1, at>>

Prune1h ==
  /\ pc = "prune 1h"
  /\ tier1' = PruneTier(tier1, Bucket1h, now - Keep1h)
  /\ Goto("sleep")
  /\ UNCHANGED <<now, reportVars, raw, tier5, point5, point1, at, cut5>>

\* A prune statement fails, and the rest of that prune is left out; or the
\* process ends and maintenanceLoop starts from the beginning.
PruneFails ==
  /\ MayFail /\ pc \in {"prune raw", "prune 5m", "prune 1h"}
  /\ Goto(IF pc = "prune raw" THEN "prune 5m" ELSE "sleep")
  /\ UNCHANGED <<now, reportVars, raw, tier5, tier1, point5, point1, at, cut5>>

RestartLoop ==
  /\ MayFail /\ Goto("into 5m") /\ at' = now /\ waiting' = {}
  /\ UNCHANGED <<now, enrolled, received, missed, raw, tier5, tier1, point5, point1, cut5>>

Tick ==
  /\ now < MaxTime /\ now' = now + 1
  /\ UNCHANGED <<reportVars, raw, tier5, tier1, point5, point1, pc, at, cut5>>

Aggregate == Wake \/ Into5m \/ Point5m \/ Into1h \/ Point1h
Prune     == \/ PruneRaw \/ Prune5m \/ Prune1h
             \/ \E ts \in Times : RawBatch(ts) \/ Batch5m(ts) \/ Batch1h(ts)

HistoryNext ==
  \/ \E ts \in Times : Receive(ts) \/ Insert(ts)
  \/ InsertFails \/ DeleteUsages
  \/ Aggregate \/ AggregateFails \/ Prune \/ PruneFails
  \/ RestartLoop \/ Tick

HistorySpec == HistoryInit /\ [][HistoryNext]_historyVars

-----------------------------------------------------------------------------
(* Properties *)

\* A row has its 5-minute bucket, if aggregation has passed it.
Bucketed(ts) ==
  ts < point5 => tier5[Floor(ts, Bucket5m)] # {} \/ Floor(ts, Bucket5m) < cut5

\* A row is skipped only if it still waited for the database when aggregation read the
\* rows up to a later time: not because it came late, and not by a crash between the
\* insert of the buckets and the new aggregation point.
NoBucketSkipped == \A ts \in raw \ missed : Bucketed(ts)

\* The same one tier up, of buckets with another row, although the 5-minute tier may be
\* late or failing.  (A 5-minute bucket that was pruned before can come back without
\* its hour: when the aggregation point cannot be read, everything is aggregated
\* anew.)
NoHourSkipped ==
  \A b \in Rows5m :
    /\ tier5[b] \ missed # {}
    /\ b < point1 /\ cut5 <= b /\ now - Keep1h <= Floor(b, Bucket1h)
    => tier1[Floor(b, Bucket1h)] # {}

\* Hours are aggregated from 5-minute buckets that were aggregated before,
\* whatever failed in between.
HoursFollowBuckets == point1 <= point5

\* Whatever fails or is cut off by a crash, and however late a report is within the
\* accepted skew, neither tier skips what it should have aggregated, and the tiers are
\* aggregated in their order.
NothingSkipped == NoBucketSkipped /\ NoHourSkipped /\ HoursFollowBuckets

\* Every row accepted is aggregated before aggregation passes it.  The code does not
\* keep this: the skew is checked before the row waits for the database's only
\* connection (ingest.go:227, usage.go:23), and a pass of aggregation that comes
\* first moves the point past it.
AcceptedIsAggregated == \A ts \in raw : Bucketed(ts)

\* A deleted host leaves nothing behind in any tier, and an aggregation under way
\* does not bring any of it back.
DeletedLeavesNothing ==
  ~enrolled => raw = {} /\ Rows5m = {} /\ tier1 = Empty(Bucket1h)

\* downsample.go:17: "only aggregate full buckets": a 5-minute bucket, once written,
\* has every row of its time that aggregation did not overtake.  (The end of the window
\* is not that of a bucket, so a bucket is written from its first rows; nothing is
\* added to it later, and when the raw rows are pruned the rest of its time is gone,
\* against main.go:162.)
BucketsAreFull ==
  \A ts \in received \ (waiting \cup missed) :
    tier5[Floor(ts, Bucket5m)] # {} => ts \in tier5[Floor(ts, Bucket5m)]
=============================================================================
