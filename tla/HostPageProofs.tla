--------------------------- MODULE HostPageProofs ---------------------------
(***************************************************************************)
(* HostPage, for every number of hosts and all spans and times: what is on the *)
(* screen belongs to the address, and what is marked as offline is a gap.      *)
(***************************************************************************)
EXTENDS HostPage, FiniteSetTheorems, WellFoundedInduction, TLAPS

\* An answer on its way has samples of the host that was asked for.
AnswerIsOfHost ==
  (load # None /\ load.answer # None) => \A p \in load.answer.points : p.of = load.of

IInv == TypeOK /\ SettledIsMine /\ AnswerIsOfHost

\* The beginning of a bucket is no later than any time in it, and not negative.
LEMMA FloorBound == \A t \in Nat : Floor(t) \in 0..t
<1> SUFFICES ASSUME NEW t \in Nat PROVE Floor(t) \in 0..t
    OBVIOUS
<1>1. Bucket \in Nat \ {0}
  BY PageAssumption
<1>2. t \div Bucket \in Nat /\ t = (t \div Bucket) * Bucket + (t % Bucket) /\ t % Bucket \in Nat
  BY <1>1
<1> QED
  BY <1>1, <1>2 DEF Floor

\* The window of a range is one.
LEMMA WindowIsOne ==
  ASSUME NEW to \in Times, NEW range \in DOMAIN RANGES
  PROVE  /\ WindowAt(to, range) \in Windows
         /\ WindowAt(to, range).to - WindowAt(to, range).from = RANGES[range]
<1>1. RANGES[range] \in Nat \ {0} /\ to \in Nat
  BY PageAssumption DEF RANGES, Times
<1> QED
  BY <1>1 DEF WindowAt, Windows

\* What the Monitor answers are samples of the host that was asked for.
LEMMA UsageIsOfHost ==
  ASSUME TypeOK, NEW h \in Hosts, NEW w \in Windows
  PROVE  /\ QueryUsage(h, w) \in SUBSET Samples
         /\ \A p \in QueryUsage(h, w) : p.of = h
<1>1. reports[h] \subseteq Times /\ \A t \in reports[h] : Floor(t) \in Times
  BY FloorBound, PageAssumption DEF TypeOK, Times
<1>2. \A p \in QueryUsage(h, w) : p.of = h
  BY DEF QueryUsage
<1>3. QueryUsage(h, w) \in SUBSET Samples
  BY <1>1 DEF QueryUsage, Samples
<1> QED
  BY <1>2, <1>3

\* A load is begun for the host and the range of the address.
LEMMA LoadStep ==
  ASSUME IInv, NEW h \in Hosts, NEW range \in DOMAIN RANGES, Load(h, range)
  PROVE  IInv'
<1>1. now \in Times /\ UNCHANGED <<monitor, host, points>>
  BY DEF IInv, TypeOK, Load
<1>2. load' \in Loads /\ load'.of = h /\ load'.window = WindowAt(now, range) /\ load'.answer = None
  BY <1>1, WindowIsOne DEF Load, Loads
<1>3. load' # None
  BY <1>2, PageAssumption
<1>4. TypeOK'
  BY <1>1, <1>2, WindowIsOne DEF IInv, TypeOK, Load, monitor
<1>5. SettledIsMine' /\ AnswerIsOfHost'
  BY <1>1, <1>2, <1>3, WindowIsOne DEF Load, SettledIsMine, AnswerIsOfHost
<1> QED
  BY <1>4, <1>5 DEF IInv

\* The record on the screen stays one of the same host.
LEMMA ShowOnlineKeeps ==
  ASSUME TypeOK, NEW online \in BOOLEAN
  PROVE  /\ ShowOnline(online) \in Records \cup {None}
         /\ host # None => ShowOnline(online) # None /\ ShowOnline(online).of = host.of
<1>1. CASE host = None
  BY <1>1 DEF ShowOnline
<1>2. CASE host # None
  <2>1. ShowOnline(online) \in Records /\ ShowOnline(online).of = host.of
    BY <1>2 DEF TypeOK, ShowOnline, Records
  <2> QED
    BY <1>2, <2>1, PageAssumption
<1> QED
  BY <1>1, <1>2

\* Init => IInv
LEMMA InitIInv == Init => IInv
<1> SUFFICES ASSUME Init PROVE IInv
    OBVIOUS
<1>1. Start \in Times /\ Start \in Nat
  BY PageAssumption DEF Times
<1>2. window \in Windows /\ window.to - window.from = RANGES[key]
  BY <1>1, WindowIsOne DEF Init
<1>3. load \in Loads /\ load.of = url /\ load.window = window /\ load.answer = None
  BY <1>2 DEF Init, Loads
<1>4. load # None
  BY <1>3, PageAssumption
<1>5. TypeOK
  <2>1. {{}, 0..Start} \subseteq SUBSET Times
    BY PageAssumption DEF Times
  <2>2. reports \in [Hosts -> SUBSET Times]
    BY <2>1 DEF Init
  <2>3. cutoff \in Int /\ changes \in 0..MaxChanges
    BY PageAssumption DEF Init
  <2> QED
    BY <1>1, <1>2, <1>3, <2>2, <2>3 DEF Init, TypeOK
<1>6. SettledIsMine /\ AnswerIsOfHost
  BY <1>2, <1>3, <1>4 DEF SettledIsMine, AnswerIsOfHost
<1> QED
  BY <1>5, <1>6 DEF IInv

\* IInv /\ [Next]_vars => IInv'
LEMMA IInvStep == IInv /\ [Next]_vars => IInv'
<1> SUFFICES ASSUME IInv, [Next]_vars PROVE IInv'
    OBVIOUS
<1> USE DEF IInv
<1>1. CASE Tick
  <2>1. now' \in Times /\ now' \in Nat
    BY <1>1, PageAssumption DEF Tick, TypeOK, Times
  <2>2. reports' \in [Hosts -> SUBSET Times] /\ UNCHANGED <<up, changes, cutoff, url, key, error, load>>
    BY <1>1, <2>1 DEF Tick, TypeOK
  <2>3. CASE UNCHANGED <<host, window, points>>
    BY <2>1, <2>2, <2>3 DEF TypeOK, SettledIsMine, AnswerIsOfHost
  <2>4. CASE /\ host' = ShowOnline(TRUE) /\ window' = WindowAt(now', key)
             /\ points' = {p \in points \cup {[of |-> url, ts |-> now', width |-> 1]} :
                             p.ts >= now' - RANGES[key]}
    <3>1. points' \subseteq Samples
      BY <2>1, <2>4 DEF TypeOK, Samples
    <3>2. window' \in Windows
      BY <2>1, <2>4, WindowIsOne DEF TypeOK
    <3>3. TypeOK'
      BY <2>1, <2>2, <2>4, <3>1, <3>2, ShowOnlineKeeps DEF TypeOK
    <3>4. host # None => host' # None /\ host'.of = host.of
      BY <2>4, ShowOnlineKeeps
    <3>5. (\A p \in points : p.of = url) => \A p \in points' : p.of = url
      BY <2>4
    <3>6. SettledIsMine'
      BY <2>2, <3>4, <3>5 DEF SettledIsMine
    <3> QED
      BY <2>2, <3>3, <3>6 DEF AnswerIsOfHost
  <2> QED
    BY <1>1, <2>3, <2>4 DEF Tick
<1>2. CASE Aggregate
  BY <1>2, PageAssumption DEF Aggregate, TypeOK, SettledIsMine, AnswerIsOfHost, Times
<1>3. CASE Reload
  BY <1>3, LoadStep DEF Reload, TypeOK
<1>4. CASE Serve
  <2>1. load \in Loads /\ load.of \in Hosts /\ load.window \in Windows
    BY <1>4 DEF Serve, TypeOK, Loads
  <2>0. IsOnline(load.of) \in BOOLEAN
    BY DEF IsOnline
  <2>4. [online |-> IsOnline(load.of), points |-> QueryUsage(load.of, load.window)] \in Answers
    BY <2>0, <2>1, UsageIsOfHost DEF Answers
  <2>2. load' \in Loads /\ load'.of = load.of /\ load'.window = load.window
        /\ load'.answer.points = QueryUsage(load.of, load.window)
    BY <1>4, <2>1, <2>4 DEF Serve, Loads
  <2>3. TypeOK'
    BY <1>4, <2>2 DEF Serve, TypeOK, monitor
  <2> QED
    BY <1>4, <2>1, <2>2, <2>3, UsageIsOfHost, PageAssumption
    DEF Serve, monitor, SettledIsMine, AnswerIsOfHost
<1>5. CASE Answer
  <2>1. load \in Loads /\ load.answer \in Answers
    BY <1>5 DEF Answer, TypeOK, Loads
  <2>2. host' \in Records /\ host'.of = load.of /\ points' \subseteq Samples
    BY <1>5, <2>1 DEF Answer, Loads, Answers, Records
  <2>3. host' # None
    BY <2>2, PageAssumption
  <2>4. TypeOK'
    BY <1>5, <2>2 DEF Answer, TypeOK, monitor
  <2> QED
    BY <1>5, <2>2, <2>3, <2>4 DEF Answer, SettledIsMine, AnswerIsOfHost
<1>6. CASE Fail
  BY <1>6 DEF Fail, TypeOK, SettledIsMine, AnswerIsOfHost, monitor
<1>7. ASSUME NEW h \in Hosts, Connection(h) PROVE IInv'
  <2>1. host' = host \/ \E online \in BOOLEAN : host' = ShowOnline(online)
    <3>1. (h \in up') \in BOOLEAN
      OBVIOUS
    <3> QED
      BY <1>7, <3>1, Zenon DEF Connection
  <2>2. host' \in Records \cup {None} /\ (host # None => host' # None /\ host'.of = host.of)
    BY <2>1, ShowOnlineKeeps DEF TypeOK
  <2> QED
    BY <1>7, <2>2, PageAssumption DEF Connection, TypeOK, SettledIsMine, AnswerIsOfHost
<1>8. ASSUME NEW h \in Hosts, NEW range \in DOMAIN RANGES, Go(h, range) PROVE IInv'
  BY <1>8, LoadStep DEF Go
<1>9. CASE UNCHANGED vars
  BY <1>9 DEF vars, monitor, TypeOK, SettledIsMine, AnswerIsOfHost
<1> QED
  BY <1>1, <1>2, <1>3, <1>4, <1>5, <1>6, <1>7, <1>8, <1>9 DEF Next

\* The invariant holds in every reachable state.
LEMMA Invariance == Spec => []IInv
BY InitIInv, IInvStep, PTL DEF Spec

\* Every reachable state of the page is well typed.
THEOREM TypeCorrect == Spec => []TypeOK
<1>1. IInv => TypeOK
  BY DEF IInv
<1> QED
  BY <1>1, Invariance, PTL

\* What is on the screen once no load is under way belongs to the address.
THEOREM SettledHolds == Spec => []SettledIsMine
<1>1. IInv => SettledIsMine
  BY DEF IInv
<1> QED
  BY <1>1, Invariance, PTL

-----------------------------------------------------------------------------
(* What is marked as offline *)

\* A set of numbers has a least one.
LEMMA LeastNumber ==
  ASSUME NEW T \in SUBSET Nat, T # {}
  PROVE  \E m \in T : \A k \in T : m <= k
<1>1. \E m \in T : \A k \in T : <<k, m>> \notin OpToRel(<, Nat)
  BY NatLessThanWellFounded, WFMin
<1>2. \A k, m \in Nat : k < m => <<k, m>> \in OpToRel(<, Nat)
  BY DEF OpToRel
<1>3. PICK m \in T : \A k \in T : ~(k < m)
  BY <1>1, <1>2
<1> QED
  BY <1>3

\* A bounded one has a greatest, too.
LEMMA GreatestNumber ==
  ASSUME NEW b \in Nat, NEW T \in SUBSET 0..b, T # {}
  PROVE  \E m \in T : \A k \in T : k <= m
<1> DEFINE U == {b - t : t \in T}
<1>1. U \in SUBSET Nat /\ U # {}
  <2>1. \A t \in T : b - t \in Nat
    OBVIOUS
  <2> QED
    BY <2>1
<1>2. PICK u \in U : \A v \in U : u <= v
  BY <1>1, LeastNumber
<1>3. PICK m \in T : u = b - m
  OBVIOUS
<1>4. \A k \in T : b - k \in U
  OBVIOUS
<1>5. \A k \in T : b - m <= b - k
  BY <1>2, <1>3, <1>4
<1>6. \A k \in T : k <= m
  BY <1>5
<1> QED
  BY <1>6

\* Where there is a gap, there is a lower quartile of the gaps.
LEMMA QuartileExists ==
  ASSUME NEW times \in SUBSET Times, Pairs(times) # {}
  PROVE  LowerQuartile(times) \in Nat \ {0}
<1> DEFINE P == Pairs(times)
           D == {p[2] - p[1] : p \in P}
           at == Cardinality(P) \div 4
           Upto(d) == {p \in P : p[2] - p[1] <= d}
           Below(d) == {p \in P : p[2] - p[1] < d}
<1>1. End \in Nat /\ times \subseteq 0..End
  BY PageAssumption DEF Times
<1>2. \A p \in P : p[2] - p[1] \in 1..End
  <2> TAKE p \in P
  <2>1. p[1] \in times /\ p[2] \in times /\ p[1] < p[2]
    BY DEF Pairs
  <2>2. \A a, b \in times : a < b => b - a \in 1..End
    BY <1>1
  <2> QED
    BY <2>1, <2>2
<1>3. D \subseteq 0..End /\ D # {}
  BY <1>1, <1>2
<1>4. IsFiniteSet(P) /\ Cardinality(P) \in Nat /\ Cardinality(P) # 0
  <2>1. IsFiniteSet(times)
    <3>1. IsFiniteSet(0..End)
      BY <1>1, FS_Interval
    <3> QED
      BY <1>1, <3>1, FS_Subset
  <2>2. IsFiniteSet(times \X times) /\ P \in SUBSET (times \X times)
    BY <2>1, FS_Product DEF Pairs
  <2>3. IsFiniteSet(P)
    BY <2>2, FS_Subset
  <2> QED
    BY <2>3, FS_CardinalityType, FS_EmptySet
<1>5. at \in Nat /\ at < Cardinality(P)
  <2> DEFINE n == Cardinality(P)
  <2> n \in Nat /\ n # 0
    BY <1>4
  <2> HIDE DEF n
  <2> n \div 4 \in Nat /\ n \div 4 < n
    OBVIOUS
  <2> QED
    BY DEF n
<1>6. \A d \in D : Cardinality(Below(d)) \in Nat
  <2>1. \A d \in D : Below(d) \in SUBSET P
    OBVIOUS
  <2> QED
    BY <1>4, <2>1, FS_Subset, FS_CardinalityType
<1>7. PICK m \in D : \A d \in D : d <= m
  BY <1>1, <1>3, GreatestNumber
<1>8. Upto(m) = P
  BY <1>7
<1> DEFINE E == {d \in D : at < Cardinality(Upto(d))}
<1>9. E # {} /\ E \in SUBSET Nat
  <2>1. m \in E
    BY <1>5, <1>7, <1>8
  <2>2. D \in SUBSET Nat
    BY <1>1, <1>3
  <2> QED
    BY <2>1, <2>2
<1>10. PICK q \in E : \A d \in E : q <= d
  BY <1>9, LeastNumber
<1>11. Cardinality(Below(q)) <= at
  <2> SUFFICES ASSUME at < Cardinality(Below(q)) PROVE FALSE
    <3>1. Cardinality(Below(q)) \in Nat
      BY <1>6
    <3> QED
      BY <1>5, <3>1
  <2> DEFINE C == {d \in D : d < q}
  <2>1. Below(q) # {}
    <3>1. Below(q) = {} => Cardinality(Below(q)) = 0
      BY FS_EmptySet, Zenon
    <3>2. Cardinality(Below(q)) # 0
      BY <1>5
    <3> QED
      BY <3>1, <3>2, Zenon
  <2>2. C # {} /\ C \in SUBSET 0..End
    BY <1>3, <2>1
  <2>3. PICK c \in C : \A d \in C : d <= c
    BY <1>1, <2>2, GreatestNumber
  <2>4. \A p \in P : p[2] - p[1] \in D
    OBVIOUS
  <2>5. \A p \in P : p[2] - p[1] <= c <=> p[2] - p[1] < q
    <3> TAKE p \in P
    <3>1. p[2] - p[1] \in Int /\ c \in Int /\ q \in Int /\ c < q
      BY <1>2, <1>3, <2>3, <1>10, <1>1
    <3>2. p[2] - p[1] < q => p[2] - p[1] <= c
      BY <2>3, <2>4
    <3> QED
      BY <3>1, <3>2
  <2>6. Upto(c) = Below(q)
    BY <2>5
  <2>7. c \in E /\ c < q
    BY <2>3, <2>6
  <2> QED
    <3>1. q <= c /\ c \in Nat /\ q \in Nat
      BY <1>10, <1>9, <2>7
    <3> QED
      BY <2>7, <3>1
<1>12. q \in D /\ Cardinality(Below(q)) <= at /\ at < Cardinality(Upto(q))
  BY <1>10, <1>11
<1>13. LowerQuartile(times) \in D
  BY <1>12 DEF LowerQuartile
<1> QED
  BY <1>2, <1>13

\* The interval is estimated between one and a bucket.
LEMMA IntervalBound ==
  ASSUME NEW times \in SUBSET Times
  PROVE  EstimateSampleInterval(times) \in 1..Bucket
BY QuartileExists, PageAssumption DEF EstimateSampleInterval, Least, Greatest

\* Every stretch that is marked in a window is one, with no sample in it.
LEMMA StretchesAreEmpty ==
  ASSUME NEW times \in SUBSET Times, NEW w \in Windows, NEW s \in OfflineStretches(times, w)
  PROVE  s.from < s.to /\ \A t \in times : t < s.from \/ t > s.to
<1>1. w.from \in Int /\ w.to \in Int /\ w.from < w.to /\ times \subseteq 0..End /\ End \in Nat
  BY PageAssumption DEF Windows, Times
<1>2. CASE times = {}
  BY <1>1, <1>2 DEF OfflineStretches
<1>3. CASE times # {}
  <2> DEFINE i == EstimateSampleInterval(times)
             first == CHOOSE t \in times : \A u \in times : t <= u
             last == CHOOSE t \in times : \A u \in times : u <= t
  <2>1. first \in times /\ \A u \in times : first <= u
    <3>1. times \in SUBSET Nat
      BY <1>1
    <3> QED
      BY <1>3, <3>1, LeastNumber
  <2>2. last \in times /\ \A u \in times : u <= last
    BY <1>1, <1>3, GreatestNumber
  <2>3. i \in Int /\ i >= 1
    BY IntervalBound, PageAssumption
  <2>4. Threshold(i) \in Int /\ Threshold(i) >= i * 3
    BY <2>3, PageAssumption DEF Threshold, Greatest
  <2>5. \/ /\ s = [from |-> w.from, to |-> Greatest(w.from + 1, first - i)]
           /\ first - w.from > Threshold(i)
        \/ \E p \in Pairs(times) :
             /\ s = [from |-> p[1] + i, to |-> Greatest(p[1] + i + 1, p[2] - i)]
             /\ p[2] - p[1] > Threshold(i)
        \/ s = [from |-> last + i, to |-> w.to] /\ w.to - last > Threshold(i)
    BY <1>3 DEF OfflineStretches
  <2> HIDE DEF i, first, last
  <2>6. CASE /\ s = [from |-> w.from, to |-> Greatest(w.from + 1, first - i)]
             /\ first - w.from > Threshold(i)
    BY <1>1, <2>1, <2>3, <2>4, <2>6 DEF Greatest
  <2>7. ASSUME NEW p \in Pairs(times),
               s = [from |-> p[1] + i, to |-> Greatest(p[1] + i + 1, p[2] - i)],
               p[2] - p[1] > Threshold(i)
        PROVE  s.from < s.to /\ \A t \in times : t < s.from \/ t > s.to
    <3>0. p[1] \in times /\ p[2] \in times /\ \A t \in times : t <= p[1] \/ t >= p[2]
      BY DEF Pairs
    <3>1. p[1] \in Int /\ p[2] \in Int /\ \A t \in times : t <= p[1] \/ t >= p[2]
      <4>1. \A t \in times : t \in Int
        BY <1>1
      <4> QED
        BY <3>0, <4>1, Zenon
    <3> QED
      BY <1>1, <2>3, <2>4, <2>7, <3>1 DEF Greatest
  <2>8. CASE s = [from |-> last + i, to |-> w.to] /\ w.to - last > Threshold(i)
    BY <1>1, <2>2, <2>3, <2>4, <2>8
  <2> QED
    BY <2>5, <2>6, <2>7, <2>8
<1> QED
  BY <1>2, <1>3

\* The line of a chart never runs backwards, and no sample lies in a marked stretch.
THEOREM StretchesHold == Spec => []StretchesAreGaps
<1>1. TypeOK => StretchesAreGaps
  <2> SUFFICES ASSUME TypeOK, NEW s \in Marked
               PROVE  s.from < s.to /\ \A p \in points : p.ts < s.from \/ p.ts > s.to
    BY DEF StretchesAreGaps
  <2>1. {p.ts : p \in points} \in SUBSET Times /\ window \in Windows
    BY DEF TypeOK, Samples
  <2> QED
    BY <2>1, StretchesAreEmpty DEF Marked
<1> QED
  BY <1>1, TypeCorrect, PTL
=============================================================================
