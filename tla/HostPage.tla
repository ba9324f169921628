------------------------------ MODULE HostPage ------------------------------
(***************************************************************************)
(* The page of one host: its record, the charts and what they mark as offline  *)
(* (pages/host/HostDetailPage.tsx, pages/host/chartData.ts).                   *)
(*                                                                         *)
(* The page loads the host and its usage in a window, and appends what the      *)
(* stream tells.  Going to another host or range aborts the load under way and  *)
(* starts another one, but what was loaded stays on the screen until the answer *)
(* comes.  The charts have a sample for every report in a short range and one   *)
(* for every 5-minute bucket in a long one; "reported now" samples are raw in    *)
(* both.                                                                     *)
(*                                                                         *)
(* The unit of time is what lies between two reports of a host (a minute).      *)
(* The samples of a chart are a set; the code keeps them as a list, in which a  *)
(* report that was loaded and heard as well occurs twice at the same place.     *)
(***************************************************************************)
EXTENDS Integers, FiniteSets

CONSTANTS
  Hosts,       \* ids of hosts
  Short, Long, \* RANGES: spans of the ranges
  RawSpan,     \* rawUsageSpanSeconds: longer spans are served from buckets
  Bucket,      \* downsampleBucket5mSeconds, also the largest interval estimated
  MinGap,      \* the shortest gap that counts as offline (60 s)
  OfflineTimeout,  \* how long a host counts as online after a report (90 s)
  Default,     \* the interval that is assumed of a single sample (60 s)
  Start, End,  \* the page is used from Start to End (bound)
  MaxChanges,  \* bound: how often hosts connect and disconnect
  None

Times == 0..End
RANGES == [short |-> Short, long |-> Long]

\* A sample stands for what was reported from its time on, as long as it is wide.
Samples == [of : Hosts, ts : Times, width : {1, Bucket}]
Windows == {w \in [from : Int, to : Times] : w.from < w.to}
Records == [of : Hosts, online : BOOLEAN]
Answers == [online : BOOLEAN, points : SUBSET Samples]
Loads   == [of : Hosts, window : Windows, answer : Answers \cup {None}]

ASSUME PageAssumption ==
  /\ Short \in Nat \ {0} /\ Long \in Nat \ {0} /\ RawSpan \in Nat /\ Bucket \in Nat \ {0}
  /\ MinGap \in Nat \ {0} /\ Default \in 1..Bucket /\ OfflineTimeout \in Nat
  /\ End \in Nat /\ Start \in 0..End /\ MaxChanges \in Nat
  /\ None \notin Records \cup Loads

VARIABLES
  now,
  up,       \* connected hosts
  changes,  \* how often these have changed (bound)
  reports,  \* times at which a host has reported
  cutoff,   \* reports before it are in 5-minute buckets
  url,      \* publicId
  key,      \* the range
  window,   \* windowRange
  host,     \* the record on the screen
  points,   \* the samples on the screen
  error,    \* a load has failed: the error is shown instead
  load      \* the load under way, served or not

monitor == <<now, up, changes, reports, cutoff>>
vars    == <<monitor, url, key, window, host, points, error, load>>

TypeOK ==
  /\ now \in Times /\ up \subseteq Hosts /\ changes \in 0..MaxChanges
  /\ reports \in [Hosts -> SUBSET Times] /\ cutoff \in Int
  /\ url \in Hosts /\ key \in DOMAIN RANGES /\ window \in Windows
  /\ host \in Records \cup {None}
  /\ points \subseteq Samples /\ error \in BOOLEAN
  /\ load \in Loads \cup {None}

-----------------------------------------------------------------------------
(* chartData.ts *)

\* Samples with none between them.
Pairs(times) ==
  {pair \in times \X times :
     pair[1] < pair[2] /\ \A t \in times : t <= pair[1] \/ t >= pair[2]}

\* The delta at index floor(n / 4) of the n deltas in ascending order.
LowerQuartile(times) ==
  CHOOSE d \in {p[2] - p[1] : p \in Pairs(times)} :
    LET at == Cardinality(Pairs(times)) \div 4
    IN /\ Cardinality({p \in Pairs(times) : p[2] - p[1] < d}) <= at
       /\ at < Cardinality({p \in Pairs(times) : p[2] - p[1] <= d})

Least(a, b) == IF a < b THEN a ELSE b
Greatest(a, b) == IF a > b THEN a ELSE b

EstimateSampleInterval(times) ==
  IF Pairs(times) = {} THEN Default
  ELSE Least(Bucket, Greatest(1, LowerQuartile(times)))

\* Mutant: every gap longer than the interval is marked.
ThresholdOne(interval) == interval

Threshold(interval) == Greatest(interval * 3, MinGap)

\* The stretches that buildTimeline marks as offline.
OfflineStretches(times, w) ==
  IF times = {} THEN {[from |-> w.from, to |-> w.to]}
  ELSE LET i      == EstimateSampleInterval(times)
           first  == CHOOSE t \in times : \A u \in times : t <= u
           last   == CHOOSE t \in times : \A u \in times : u <= t
       IN {[from |-> w.from, to |-> Greatest(w.from + 1, t - i)] :
             t \in {u \in {first} : u - w.from > Threshold(i)}}
          \cup {[from |-> p[1] + i, to |-> Greatest(p[1] + i + 1, p[2] - i)] :
                  p \in {q \in Pairs(times) : q[2] - q[1] > Threshold(i)}}
          \cup {[from |-> t + i, to |-> w.to] :
                  t \in {u \in {last} : w.to - u > Threshold(i)}}

-----------------------------------------------------------------------------
(* The Monitor *)

Floor(t) == (t \div Bucket) * Bucket

\* QueryUsageContext
QueryUsage(h, w) ==
  IF w.to - w.from <= RawSpan
  THEN {[of |-> h, ts |-> t, width |-> 1] : t \in {u \in reports[h] : w.from <= u /\ u <= w.to}}
  ELSE {[of |-> h, ts |-> Floor(t), width |-> Bucket] :
          t \in {u \in reports[h] : u < cutoff /\ w.from <= Floor(u) /\ Floor(u) <= w.to}}

\* A host is online when it is connected or was seen lately.
IsOnline(h) == h \in up \/ \E t \in reports[h] : now - t < OfflineTimeout

Aggregate ==
  /\ cutoff' = now - Bucket
  /\ UNCHANGED <<now, up, changes, reports, url, key, window, host, points, error, load>>

WindowAt(to, range) == [from |-> to - RANGES[range], to |-> to]

\* The host of the page is shown online or offline; another one's record, too, until
\* it is replaced.
ShowOnline(online) == IF host = None THEN None ELSE [host EXCEPT !.online = online]

\* Connected hosts report.  A report may not reach the page.
Tick ==
  /\ now < End /\ now' = now + 1
  /\ reports' = [h \in Hosts |-> IF h \in up THEN reports[h] \cup {now'} ELSE reports[h]]
  /\ \/ /\ url \in up
        /\ host' = ShowOnline(TRUE) /\ window' = WindowAt(now', key)
        /\ points' = {p \in points \cup {[of |-> url, ts |-> now', width |-> 1]} :
                        p.ts >= now' - RANGES[key]}
     \/ UNCHANGED <<host, window, points>>
  /\ UNCHANGED <<up, changes, cutoff, url, key, error, load>>

Connection(h) ==
  /\ changes < MaxChanges /\ changes' = changes + 1
  /\ up' = IF h \in up THEN up \ {h} ELSE up \cup {h}
  /\ \/ h = url /\ host' = ShowOnline(h \in up')
     \/ UNCHANGED host
  /\ UNCHANGED <<now, reports, cutoff, url, key, window, points, error, load>>

-----------------------------------------------------------------------------
(* The page *)

\* load, for the host and the range that the address has from now on
Load(h, range) ==
  /\ url' = h /\ key' = range /\ error' = FALSE
  /\ window' = WindowAt(now, range)
  /\ load' = [of |-> h, window |-> window', answer |-> None]
  /\ UNCHANGED <<monitor, host, points>>

\* Mutant: a load under way is not aborted and not repeated.
GoUnlessLoading(h, range) ==
  /\ <<h, range>> # <<url, key>>
  /\ IF load = None THEN Load(h, range)
     ELSE url' = h /\ key' = range /\ UNCHANGED <<monitor, window, host, points, error, load>>

Go(h, range) == <<h, range>> # <<url, key>> /\ Load(h, range)

\* The stream was interrupted ("generation").
Reload == Load(url, key)

\* apiGetHost and the usage of the window
Serve ==
  /\ load # None /\ load.answer = None
  /\ load' = [load EXCEPT !.answer = [online |-> IsOnline(load.of),
                                      points |-> QueryUsage(load.of, load.window)]]
  /\ UNCHANGED <<monitor, url, key, window, host, points, error>>

Answer ==
  /\ load # None /\ load.answer # None /\ load' = None
  /\ host' = [of |-> load.of, online |-> load.answer.online]
  /\ points' = load.answer.points
  /\ UNCHANGED <<monitor, url, key, window, error>>

Fail ==
  /\ load # None /\ load' = None /\ error' = TRUE
  /\ UNCHANGED <<monitor, url, key, window, host, points>>

Init ==
  /\ now = Start /\ up \in SUBSET Hosts /\ changes = 0
  /\ reports \in [Hosts -> {{}, 0..Start}] /\ cutoff = Start - Bucket
  /\ url \in Hosts /\ key \in DOMAIN RANGES
  /\ window = WindowAt(Start, key) /\ host = None /\ points = {} /\ error = FALSE
  /\ load = [of |-> url, window |-> window, answer |-> None]

Next ==
  \/ Tick \/ Aggregate \/ Reload \/ Serve \/ Answer \/ Fail
  \/ \E h \in Hosts : Connection(h)
  \/ \E h \in Hosts, range \in DOMAIN RANGES : Go(h, range)

Spec == Init /\ [][Next]_vars

-----------------------------------------------------------------------------
(* Properties *)

\* What is on the screen once no load is under way is the host of the address and
\* samples of that host alone, and a load under way is for the address: however
\* fast the user goes from host to host and whatever the stream told meanwhile.
SettledIsMine ==
  /\ load # None => load.of = url /\ load.window.to - load.window.from = RANGES[key]
  /\ (load = None /\ ~error) =>
       host # None /\ host.of = url /\ \A p \in points : p.of = url

Marked == OfflineStretches({p.ts : p \in points}, window)

\* A stretch that is marked as offline has a beginning and a later end, and there is
\* no sample in it: the line of a chart never runs backwards.
StretchesAreGaps ==
  \A s \in Marked :
    /\ s.from < s.to
    /\ \A p \in points : p.ts < s.from \/ p.ts > s.to

\* Not kept, and not checked in a run: nothing that a sample on the screen stands for
\* was reported in a stretch that is marked as offline.  Buckets beside live samples
\* break it (README.md, section 3).
OfflineIsReal ==
  (load = None /\ ~error) =>
    \A s \in Marked, p \in points :
      \A t \in reports[url] : p.ts <= t /\ t < p.ts + p.width => t < s.from \/ t > s.to
=============================================================================
