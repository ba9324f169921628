--------------------------- MODULE ReleasesProofs ---------------------------
(***************************************************************************)
(* Releases, for all releases, hosts and times: what the page claims is news,  *)
(* what the pages offer is what the Monitor accepts, an upgrade that is created  *)
(* was complete on GitHub a short time ago, and the choice of the administrator  *)
(* stays.  Then the rest of the hosts page, HostsPanel: the credential on the    *)
(* screen is the one that enrolls, and the list never goes back.                *)
(***************************************************************************)
EXTENDS Releases, HostsPanel, SequenceTheorems, FiniteSetTheorems, WellFoundedInduction, TLAPS

-----------------------------------------------------------------------------
(* Helpers *)

LEMMA LeastOfTwo ==
  ASSUME NEW a \in Nat, NEW b \in Nat
  PROVE  Min({a, b}) = IF a <= b THEN a ELSE b
<1>1. CASE a <= b
  <2>1. /\ a \in {a, b} /\ \A y \in {a, b} : a =< y
        /\ \A x \in {a, b} : (\A y \in {a, b} : x =< y) => x = a
    BY <1>1
  <2> QED BY <2>1, <1>1 DEF Min
<1>2. CASE ~(a <= b)
  <2>1. /\ b \in {a, b} /\ \A y \in {a, b} : b =< y
        /\ \A x \in {a, b} : (\A y \in {a, b} : x =< y) => x = b
    BY <1>2
  <2> QED BY <2>1, <1>2 DEF Min
<1> QED BY <1>1, <1>2

\* Two numbers of versions that are not the same differ at a place both have.
LEMMA CoresDiffer ==
  ASSUME NEW a \in Versions, NEW b \in Versions, a.core # b.core
  PROVE  LET i == FirstDifference(a.core, b.core)
         IN  /\ i \in 1..3 /\ a.core[i] \in Nat /\ b.core[i] \in Nat /\ a.core[i] # b.core[i]
             /\ \A j \in 1..3 : j < i => a.core[j] = b.core[j]
<1> DEFINE S == {i \in 1..(Len(a.core) + Len(b.core) + 1) :
                   i > Len(a.core) \/ i > Len(b.core) \/ a.core[i] # b.core[i]}
<1>1. /\ a.core \in Seq(Nat) /\ b.core \in Seq(Nat) /\ Len(a.core) = 3 /\ Len(b.core) = 3
  BY DEF Versions
<1>2. a.core \in [1..3 -> Nat] /\ b.core \in [1..3 -> Nat]
  BY <1>1, LenProperties
<1>3. \E i \in 1..3 : a.core[i] # b.core[i]
  BY <1>2
<1>4. /\ S \subseteq 1..7
      /\ \A i \in 1..3 : i \in S <=> a.core[i] # b.core[i]
  BY <1>1
<1> HIDE DEF S
<1>5. \E i \in 1..3 : i \in S /\ \A y \in S : i <= y
  <2>1. CASE 1 \in S
    BY <2>1, <1>4
  <2>2. CASE 1 \notin S /\ 2 \in S
    BY <2>2, <1>4
  <2>3. CASE 1 \notin S /\ 2 \notin S
    <3>1. 3 \in S
      BY <2>3, <1>3, <1>4
    <3> QED BY <2>3, <3>1, <1>4
  <2> QED BY <2>1, <2>2, <2>3
<1>6. PICK i \in 1..3 : i \in S /\ \A y \in S : i <= y
  BY <1>5
<1>7. Min(S) = i
  <2>1. \A x \in S : (\A y \in S : x <= y) => x = i
    BY <1>4, <1>6
  <2> QED BY <1>6, <2>1 DEF Min
<1>8. FirstDifference(a.core, b.core) = i
  BY <1>7 DEF FirstDifference, S
<1>9. a.core[i] \in Nat /\ b.core[i] \in Nat /\ a.core[i] # b.core[i]
  BY <1>2, <1>4, <1>6
<1>10. \A j \in 1..3 : j < i => a.core[j] = b.core[j]
  BY <1>4, <1>6
<1> QED BY <1>8, <1>9, <1>10

\* The two comparisons agree on stable tags, whichever side the page starts from.
LEMMA ComparisonsAgree ==
  ASSUME NEW a \in Versions, NEW b \in Versions, Stable(a), Stable(b)
  PROVE  /\ Compare(a, b) = 1 <=> Greater(a, b)
         /\ Compare(a, b) = -1 => Greater(b, a)
<1>1. a # Unknown /\ b # Unknown /\ a.pre = <<>> /\ b.pre = <<>>
  BY DEF Stable
<1>2. CASE a.core = b.core
  <2>1. Compare(a, b) = 0
    BY <1>1, <1>2 DEF Compare, ComparePre
  <2> QED BY <1>2, <2>1 DEF Greater
<1>3. CASE a.core # b.core
  <2> DEFINE i == FirstDifference(a.core, b.core)
  <2>1. i \in 1..3 /\ a.core[i] \in Nat /\ b.core[i] \in Nat /\ a.core[i] # b.core[i]
    BY <1>3, CoresDiffer
  <2>2. FirstDifference(b.core, a.core) = i
    <3>1. /\ a.core \in Seq(Nat) /\ b.core \in Seq(Nat) /\ Len(a.core) = 3 /\ Len(b.core) = 3
      BY DEF Versions
    <3>2. {j \in 1..(Len(b.core) + Len(a.core) + 1) :
             j > Len(b.core) \/ j > Len(a.core) \/ b.core[j] # a.core[j]}
          = {j \in 1..(Len(a.core) + Len(b.core) + 1) :
             j > Len(a.core) \/ j > Len(b.core) \/ a.core[j] # b.core[j]}
      BY <3>1
    <3> QED BY <3>2 DEF FirstDifference
  <2>3. Compare(a, b) = Sign(a.core[i] - b.core[i])
    BY <1>1, <1>3 DEF Compare
  <2>4. Greater(a, b) <=> a.core[i] > b.core[i]
    BY <1>3 DEF Greater
  <2>5. Greater(b, a) <=> b.core[i] > a.core[i]
    BY <1>3, <2>2 DEF Greater
  <2> HIDE DEF i
  <2> QED BY <2>1, <2>3, <2>4, <2>5 DEF Sign
<1> QED BY <1>2, <1>3

-----------------------------------------------------------------------------
(* Lists of releases *)

LEMMA ListsAreFunctions ==
  ASSUME NEW list \in Lists
  PROVE  /\ DOMAIN list \subseteq Tags /\ list \in [DOMAIN list -> SUBSET Assets]
BY DEF Lists

\* What the Monitor keeps of a list is a list, and supports nothing more.
LEMMA ReadKeepsSome ==
  ASSUME NEW list \in Lists
  PROVE  /\ Read(list) \in Lists
         /\ \A t, mode, binary : Supports(Read(list), t, mode, binary)
                                  => Supports(list, t, mode, binary)
<1> DEFINE S == {t \in DOMAIN list : Stable(t)}
<1>1. Read(list) = [t \in S |-> list[t]]
  BY DEF Read, Restrict
<1>2. S \in SUBSET Tags /\ S \subseteq DOMAIN list /\ \A t \in S : list[t] \in SUBSET Assets
  BY ListsAreFunctions
<1> HIDE DEF S
<1>3. Read(list) \in [S -> SUBSET Assets]
  BY <1>1, <1>2
<1>4. \A t \in S : Read(list)[t] = list[t]
  BY <1>1
<1>5. DOMAIN Read(list) = S
  BY <1>1
<1>6. Read(list) \in Lists
  BY <1>2, <1>3 DEF Lists
<1>7. ASSUME NEW t, NEW mode, NEW binary, Supports(Read(list), t, mode, binary)
      PROVE  Supports(list, t, mode, binary)
  BY <1>2, <1>4, <1>5, <1>7 DEF Supports
<1> QED BY <1>6, <1>7

LEMMA NoListIsList == NoList \in Lists
<1>1. NoList \in [{} -> SUBSET Assets]
  BY DEF NoList, Restrict
<1> QED BY <1>1 DEF Lists

LEMMA NewestIsTag ==
  ASSUME NEW S \in SUBSET Tags
  PROVE  Newest(S) \in Tags \cup {Unknown}
BY DEF Newest

LEMMA DefaultIsTag ==
  ASSUME NEW list \in Lists, page.selected \in Tags \cup {Unknown}
  PROVE  Default(list) \in Tags \cup {Unknown}
<1>1. {t \in DOMAIN list : Supports(list, t, "install.sh", Nothing)} \in SUBSET Tags
  BY ListsAreFunctions
<1> QED BY <1>1, NewestIsTag DEF Default

-----------------------------------------------------------------------------
(* Types *)

\* Ages stop at their bound.
LEMMA AgesAreBounded ==
  ASSUME NEW most \in Nat, NEW age \in 0..most \cup {Nothing}
  PROVE  /\ Older(age, most) \in 0..most \cup {Nothing}
         /\ age # Nothing => Older(age, most) = IF age < most THEN age + 1 ELSE most
<1>1. CASE age = Nothing
  BY <1>1 DEF Older
<1>2. CASE age # Nothing
  <2>1. age + 1 \in Nat /\ Min({age + 1, most}) = IF age + 1 <= most THEN age + 1 ELSE most
    BY <1>2, LeastOfTwo
  <2> QED BY <1>2, <2>1 DEF Older
<1> QED BY <1>1, <1>2

\* Parts of the types that many steps need.
LEMMA ConstantsHaveTypes ==
  /\ TTL \in Nat \ {0} /\ Cooldown \in 1..TTL /\ Interval \in Nat /\ FetchTime \in Nat
  /\ Interval >= TTL /\ Tags \subseteq Versions /\ Listings \subseteq Lists
  /\ Reported \subseteq HostRecords /\ Opened \subseteq Reported
  /\ Unknown \notin Versions /\ Nothing \notin Nat /\ Nothing \notin STRING
  /\ Nothing \notin Lists /\ Nothing \notin Answers
BY ReleasesAssumption

LEMMA AgingKeepsType ==
  ASSUME NEW c \in Caches
  PROVE  [c EXCEPT !.age = Older(@, TTL + 1)] \in Caches
<1>1. TTL + 1 \in Nat /\ c.age \in 0..(TTL + 1) \cup {Nothing}
  BY ConstantsHaveTypes DEF Caches
<1>2. Older(c.age, TTL + 1) \in 0..(TTL + 1) \cup {Nothing}
  BY <1>1, AgesAreBounded
<1> QED BY <1>2 DEF Caches

LEMMA OfflineIsPage ==
  /\ Offline \in Pages /\ Offline.phase # "served" /\ Offline.answer = Nothing
  /\ [Offline EXCEPT !.phase = "sent"] \in Pages
  /\ [Offline EXCEPT !.phase = "sent"].answer = Nothing
  /\ [Offline EXCEPT !.phase = "sent"].phase = "sent"
<1>1. Offline \in Pages /\ Offline.phase # "served" /\ Offline.answer = Nothing
  BY ConstantsHaveTypes DEF Offline, Pages
<1> QED BY <1>1 DEF Pages

LEMMA AnswersOfCache ==
  ASSUME cache \in Caches
  PROVE  [list |-> cache.list, stale |-> cache.stale] \in Answers
BY DEF Caches, Answers

\* Every step keeps the types.
LEMMA TypeKept ==
  ASSUME TypeOK, [Next]_vars
  PROVE  TypeOK'
<1> USE ConstantsHaveTypes
<1>1. CASE Publish
  BY <1>1 DEF TypeOK, Publish, server, create
<1>2. CASE Tick
  <2>1. cache' \in Caches
    BY <1>2, AgingKeepsType DEF TypeOK, Tick
  <2>2. wait' \in 0..TTL /\ page' \in Pages /\ (page'.phase = "served" <=> page'.answer # Nothing)
    BY <1>2 DEF TypeOK, Tick, Lower, Pages
  <2>3. fetch' \in [list : Lists \cup {Nothing}, left : 0..FetchTime] \cup {Nothing}
    BY <1>2 DEF TypeOK, Tick
  <2>4. post' \in Posts \cup {Nothing}
    <3>1. CASE post = Nothing \/ post.answer = Nothing
      BY <1>2, <3>1 DEF TypeOK, Tick
    <3>2. CASE ~(post = Nothing \/ post.answer = Nothing)
      <4>1. post.answer \in Caches /\ post \in Posts
        BY <3>2 DEF TypeOK, Posts
      <4>2. [post.answer EXCEPT !.age = Older(@, TTL + 1)] \in Caches
        BY <4>1, AgingKeepsType
      <4>3. post' = [post EXCEPT !.answer = [post.answer EXCEPT !.age = Older(@, TTL + 1)]]
        BY <1>2, <3>2 DEF Tick
      <4> QED BY <4>1, <4>2, <4>3 DEF Posts
    <3> QED BY <3>1, <3>2
  <2>5. gone' \in [Tags -> [Binaries -> 0..(TTL + FetchTime + 1)]]
    <3>1. \A n \in 0..(TTL + FetchTime + 1) :
            Min({n + 1, TTL + FetchTime + 1}) \in 0..(TTL + FetchTime + 1)
      BY LeastOfTwo
    <3> DEFINE G(t, b) == IF Complete(github, t, b) THEN 0
                           ELSE Min({gone[t][b] + 1, TTL + FetchTime + 1})
    <3>2. \A t \in Tags, b \in Binaries : G(t, b) \in 0..(TTL + FetchTime + 1)
      <4> TAKE t \in Tags, b \in Binaries
      <4>1. gone[t][b] \in 0..(TTL + FetchTime + 1)
        BY DEF TypeOK
      <4>2. Min({gone[t][b] + 1, TTL + FetchTime + 1}) \in 0..(TTL + FetchTime + 1)
        BY <3>1, <4>1
      <4> QED BY <4>2
    <3>3. gone' = [t \in Tags |-> [b \in Binaries |-> G(t, b)]]
      BY <1>2 DEF Tick
    <3> HIDE DEF G
    <3> QED BY <3>2, <3>3
  <2> QED BY <1>2, <2>1, <2>2, <2>3, <2>4, <2>5 DEF TypeOK, Tick
<1>3. CASE FetchStarts
  BY <1>3 DEF TypeOK, FetchStarts, create
<1>4. CASE FetchReads
  BY <1>4, ReadKeepsSome DEF TypeOK, FetchReads, create
<1>5. CASE FetchEnds
  BY <1>5 DEF TypeOK, FetchEnds, create, Caches
<1>6. CASE FetchFails
  <2>1. cache' \in Caches
    BY <1>6 DEF TypeOK, FetchFails, Caches
  <2> QED BY <1>6, <2>1 DEF TypeOK, FetchFails, create
<1>7. ASSUME NEW v \in {"none", "hosts", "host"}, Show(v)
      PROVE  TypeOK'
  <2>1. page' \in Pages /\ (page'.phase = "served" <=> page'.answer # Nothing)
    BY <1>7, OfflineIsPage DEF Show
  <2> QED BY <1>7, <2>1 DEF TypeOK, Show, server, create
<1>8. CASE PageRetry
  <2>1. page' \in Pages /\ (page'.phase = "served" <=> page'.answer # Nothing)
    BY <1>8 DEF TypeOK, PageRetry, Pages
  <2> QED BY <1>8, <2>1 DEF TypeOK, PageRetry, server, create
<1>9. CASE PageTimer
  <2>1. page' \in Pages /\ (page'.phase = "served" <=> page'.answer # Nothing)
    BY <1>9 DEF TypeOK, PageTimer, Pages
  <2> QED BY <1>9, <2>1 DEF TypeOK, PageTimer, server, create
<1>10. CASE ServePage
  <2>1. page' \in Pages /\ (page'.phase = "served" <=> page'.answer # Nothing)
    BY <1>10, AnswersOfCache DEF TypeOK, ServePage, Pages
  <2> QED BY <1>10, <2>1 DEF TypeOK, ServePage, server, create
<1>11. CASE PageAnswer
  <2>1. page.answer \in Answers
    BY <1>11 DEF TypeOK, PageAnswer, Pages
  <2>2. /\ page.answer.list \in Lists /\ page.answer.stale \in BOOLEAN
        /\ Default(page.answer.list) \in Tags \cup {Unknown}
    <3>1. page.selected \in Tags \cup {Unknown}
      BY DEF TypeOK, Pages
    <3>2. page.answer.list \in Lists /\ page.answer.stale \in BOOLEAN
      BY <2>1 DEF Answers
    <3> QED BY <3>1, <3>2, DefaultIsTag
  <2>3. page' \in Pages
    <3> DEFINE p == [page EXCEPT !.phase = "waiting", !.timer = Interval]
               q == [p EXCEPT !.answer = Nothing, !.list = page.answer.list]
    <3>1. p \in Pages
      <4>1. page \in Pages /\ Interval \in 0..Interval
        BY DEF TypeOK
      <4> QED BY <4>1 DEF Pages
    <3>2. q \in Pages
      BY <2>2, <3>1 DEF Pages
    <3>3. page' = [q EXCEPT !.failed = page.answer.stale, !.selected = Default(page.answer.list)]
      BY <1>11 DEF PageAnswer
    <3> HIDE DEF q
    <3> QED BY <2>2, <3>2, <3>3 DEF Pages
  <2>4. page'.phase = "waiting" /\ page'.answer = Nothing
    BY <1>11 DEF TypeOK, PageAnswer, Pages
  <2> QED BY <1>11, <2>3, <2>4 DEF TypeOK, PageAnswer, server, create
<1>12. CASE PageFails
  <2>2. page' \in Pages
    <3> DEFINE p == [page EXCEPT !.phase = "waiting", !.timer = Interval]
               q == [p EXCEPT !.answer = Nothing, !.failed = TRUE]
    <3>1. p \in Pages
      <4>1. page \in Pages /\ Interval \in 0..Interval
        BY DEF TypeOK
      <4> QED BY <4>1 DEF Pages
    <3>2. q \in Pages
      BY <3>1 DEF Pages
    <3>3. page' = [q EXCEPT !.renewed = FALSE]
      BY <1>12 DEF PageFails
    <3> HIDE DEF q
    <3> QED BY <3>2, <3>3 DEF Pages
  <2>1. page'.phase = "waiting" /\ page'.answer = Nothing
    BY <1>12 DEF TypeOK, PageFails, Pages
  <2> QED BY <1>12, <2>1, <2>2 DEF TypeOK, PageFails, server, create
<1>13. ASSUME NEW t \in Tags \cup {Unknown}, Choose(t)
       PROVE  TypeOK'
  <2>1. page' \in Pages /\ (page'.phase = "served" <=> page'.answer # Nothing)
    BY <1>13 DEF TypeOK, Choose, Pages
  <2> QED BY <1>13, <2>1 DEF TypeOK, Choose, server, create
<1>14. CASE PanelLoads
  BY <1>14, AnswersOfCache DEF TypeOK, PanelLoads, server, create
<1>15. CASE Post
  <2>1. panel \in Answers
    BY <1>15 DEF TypeOK, Post
  <2>2. \A known : Offers(panel.list, known) \subseteq Tags
    BY <2>1, ListsAreFunctions DEF Offers, Answers
  <2> QED BY <1>15, <2>2 DEF TypeOK, Post, server, Posts
<1>16. CASE PostListed
  <2>1. post' \in Posts
    BY <1>16 DEF TypeOK, PostListed, Posts
  <2> QED BY <1>16, <2>1 DEF TypeOK, PostListed, server
<1>21. CASE HostReports
  BY <1>21 DEF TypeOK, HostReports, server
<1>22. CASE PostReads
  <2>1. post' \in Posts
    BY <1>22 DEF TypeOK, PostReads, Posts
  <2> QED BY <1>22, <2>1 DEF TypeOK, PostReads, server
<1>23. CASE PostPasses
  <2>1. post' \in Posts
    BY <1>23 DEF TypeOK, PostPasses, Posts
  <2> QED BY <1>23, <2>1 DEF TypeOK, PostPasses, server
<1>17. CASE CreateTask
  BY <1>17 DEF TypeOK, CreateTask, server, Posts
<1>18. CASE RefuseTask
  BY <1>18 DEF TypeOK, RefuseTask, server
<1>19. CASE TaskEnds
  BY <1>19 DEF TypeOK, TaskEnds, server, HostRecords
<1>20. CASE UNCHANGED vars
  BY <1>20 DEF TypeOK, vars, server, create
<1> QED
  BY <1>1, <1>2, <1>3, <1>4, <1>5, <1>6, <1>7, <1>8, <1>9, <1>10, <1>11, <1>12, <1>13,
     <1>14, <1>15, <1>16, <1>17, <1>18, <1>19, <1>20, <1>21, <1>22, <1>23 DEF Next

LEMMA TypeAtStart == Init => TypeOK
<1> USE ConstantsHaveTypes
<1>1. ASSUME Init PROVE cache \in Caches
  BY <1>1, NoListIsList DEF Init, Caches
<1>2. ASSUME Init PROVE gone \in [Tags -> [Binaries -> 0..(TTL + FetchTime + 1)]]
  BY <1>2 DEF Init
<1>3. ASSUME Init PROVE page \in Pages /\ (page.phase = "served" <=> page.answer # Nothing)
  BY <1>3, OfflineIsPage DEF Init
<1>4. ASSUME Init PROVE TypeOK
  <2>1. wait \in 0..TTL /\ fetch = Nothing /\ view \in {"none", "hosts", "host"} /\ panel = Nothing
    BY <1>4 DEF Init
  <2>2. /\ host \in HostRecords /\ post = Nothing /\ task = Nothing
        /\ news \in BOOLEAN /\ github \in Listings
    BY <1>4 DEF Init
  <2> QED BY <1>1, <1>2, <1>3, <1>4, <2>1, <2>2 DEF TypeOK
<1> QED BY <1>4

\* Every value the cache, the pages and a request hold is of its type, for all
\* releases, hosts and times.
THEOREM TypeCorrect == Spec => []TypeOK
<1>1. TypeOK /\ [Next]_vars => TypeOK'
  BY TypeKept
<1> QED BY TypeAtStart, <1>1, PTL DEF Spec
-----------------------------------------------------------------------------
(* What the page claims is news.  The page waits Interval from an answer, the    *)
(* cache keeps a list TTL from its reading and Interval is no less: unless the   *)
(* cache has been read since, its time is over before the timer of the page is.   *)

NewsInv ==
  /\ page.phase # "off" => view = "hosts"
  /\ ~news /\ ~cache.stale =>
       /\ page.phase = "waiting" => wait <= page.timer
       /\ page.phase = "sent" /\ page.timed => wait = 0
  /\ page.phase = "served" /\ page.timed /\ ~page.answer.stale => page.renewed
  /\ page.phase = "waiting" /\ page.timed /\ ~page.failed => page.renewed

LEMMA NewsKept ==
  ASSUME TypeOK, NewsInv, [Next]_vars
  PROVE  NewsInv'
<1> USE ConstantsHaveTypes
<1>1. page \in Pages /\ wait \in 0..TTL
  BY DEF TypeOK
<1>2. CASE Publish \/ FetchStarts \/ FetchReads \/ PanelLoads \/ Post \/ PostListed
           \/ PostReads \/ PostPasses \/ HostReports \/ CreateTask \/ RefuseTask \/ TaskEnds \/ UNCHANGED vars
  <2>1. page' = page /\ wait' = wait /\ cache' = cache /\ view' = view /\ news' = news
    BY <1>2 DEF Publish, FetchStarts, FetchReads, PanelLoads, Post, PostListed,
                PostReads, PostPasses, HostReports, CreateTask, RefuseTask, TaskEnds, vars,
                server, create
  <2> QED BY <2>1 DEF NewsInv
<1>3. CASE Tick
  <2>1. /\ page'.timer = Lower(page.timer) /\ wait' = Lower(wait)
        /\ page'.phase = page.phase /\ page'.timed = page.timed /\ page'.failed = page.failed
        /\ page'.renewed = page.renewed /\ page'.answer = page.answer
    BY <1>1, <1>3 DEF Tick, Pages
  <2>2. cache'.stale = cache.stale /\ view' = view /\ news' = news
    BY <1>3 DEF Tick, TypeOK, Caches
  <2>3. page.timer \in Nat
    BY <1>1 DEF Pages
  <2> QED BY <1>1, <2>1, <2>2, <2>3 DEF NewsInv, Lower
<1>4. CASE FetchEnds
  <2>1. page' = page /\ view' = view /\ news' = (view = "hosts")
    BY <1>4 DEF FetchEnds
  <2> QED BY <2>1 DEF NewsInv
<1>5. CASE FetchFails
  <2>1. page' = page /\ view' = view /\ news' = news /\ cache'.stale
    BY <1>5 DEF FetchFails, TypeOK, Caches
  <2> QED BY <2>1 DEF NewsInv
<1>6. ASSUME NEW v \in {"none", "hosts", "host"}, Show(v)
      PROVE  NewsInv'
  <2>1. CASE v = "hosts"
    <3>1. view' = "hosts" /\ page'.phase = "sent" /\ ~page'.timed
      BY <1>6, <2>1 DEF Show, Offline
    <3> QED BY <3>1 DEF NewsInv
  <2>2. CASE v # "hosts"
    <3>1. page'.phase = "off"
      BY <1>6, <2>2 DEF Show, Offline
    <3> QED BY <3>1 DEF NewsInv
  <2> QED BY <2>1, <2>2
<1>7. CASE PageRetry
  <2>1. page'.phase = "sent" /\ ~page'.timed /\ view' = view /\ page.phase # "off"
    BY <1>1, <1>7 DEF PageRetry, Pages
  <2> QED BY <2>1 DEF NewsInv
<1>8. CASE PageTimer
  <2>1. /\ page'.phase = "sent" /\ view' = view /\ page.phase = "waiting" /\ page.timer = 0
        /\ wait' = wait /\ cache' = cache /\ news' = news
    BY <1>1, <1>8 DEF PageTimer, Pages, server
  <2> QED BY <1>1, <2>1 DEF NewsInv
<1>9. CASE ServePage
  <2>1. /\ page.phase = "sent" /\ wait > 0
        /\ page'.phase = "served" /\ page'.timed = page.timed
        /\ page'.renewed = (page.timed /\ news) /\ page'.answer.stale = cache.stale
        /\ view' = view
    BY <1>1, <1>9 DEF ServePage, Served, Pages
  <2>2. page.timed /\ ~cache.stale => news
    BY <1>1, <2>1 DEF NewsInv
  <2> QED BY <2>1, <2>2 DEF NewsInv
<1>10. CASE PageAnswer
  <2>1. /\ page.phase = "served" /\ page'.phase = "waiting" /\ page'.timer = Interval
        /\ page'.timed = page.timed /\ page'.failed = page.answer.stale
        /\ page'.renewed = page.renewed /\ view' = view /\ wait' = wait
    BY <1>1, <1>10 DEF PageAnswer, Pages, server
  <2> QED BY <1>1, <2>1 DEF NewsInv
<1>11. CASE PageFails
  <2>1. /\ page.phase # "off" /\ page'.phase = "waiting" /\ page'.timer = Interval
        /\ page'.failed /\ view' = view /\ wait' = wait
    BY <1>1, <1>11 DEF PageFails, Pages, server
  <2> QED BY <1>1, <2>1 DEF NewsInv
<1>12. ASSUME NEW t \in Tags \cup {Unknown}, Choose(t)
       PROVE  NewsInv'
  <2>1. /\ page'.phase = page.phase /\ page'.timed = page.timed /\ page'.failed = page.failed
        /\ page'.renewed = page.renewed /\ page'.answer = page.answer /\ page'.timer = page.timer
        /\ view' = view /\ wait' = wait /\ cache' = cache /\ news' = news
    BY <1>1, <1>12 DEF Choose, Pages, server
  <2> QED BY <2>1 DEF NewsInv
<1> QED
  BY <1>2, <1>3, <1>4, <1>5, <1>6, <1>7, <1>8, <1>9, <1>10, <1>11, <1>12 DEF Next

LEMMA NewsMeansClaims == NewsInv => ClaimsAreNews
BY DEF NewsInv, ClaimsAreNews, Status

\* However requests, failures and GitHub's answers fall: what HostsPanel says of a
\* host's version after an update by its timer comes from a list read since the answer
\* before (AdminPage.tsx:42-55 and agent_releases.go:86-125 together).
THEOREM ClaimsHold == Spec => []ClaimsAreNews
<1>1. Init => NewsInv
  BY DEF Init, NewsInv, Offline
<1>2. TypeOK /\ NewsInv /\ [Next]_vars => NewsInv'
  BY NewsKept
<1> QED BY <1>1, <1>2, TypeCorrect, NewsMeansClaims, PTL DEF Spec

-----------------------------------------------------------------------------
(* What the pages offer is what the Monitor accepts *)

LEMMA OffersMatch ==
  ASSUME NEW list \in Lists, NEW h \in Reported, NEW t, t \notin Long,
         Stable(h.version), h.os = "linux", BinaryAsset(h) # Nothing,
         Supports(list, t, "upgrade.sh", BinaryAsset(h)),
         Compare(t, h.version) = 1 \/ Compare(h.version, t) = -1
  PROVE  ValidUpgrade(h, t, list)
<1>1. h.version \in Versions
  BY ConstantsHaveTypes DEF HostRecords, Stable
<1>2. t \in Versions /\ Stable(t) /\ t \in DOMAIN list
  BY ConstantsHaveTypes, ListsAreFunctions DEF Supports
<1>3. Greater(t, h.version)
  BY <1>1, <1>2, ComparisonsAgree
<1>4. BinaryAsset(h) = Arch(h.arch)
  BY DEF BinaryAsset, Linux
<1>5. Needed("upgrade.sh") \cup {Arch(h.arch)} \subseteq list[t]
  BY <1>4 DEF Supports
<1> QED BY <1>2, <1>3, <1>4, <1>5 DEF ValidUpgrade

LEMMA TypesMeanOffers == TypeOK => OffersAreValid
<1> SUFFICES ASSUME TypeOK, NEW h \in Reported, Stable(h.version), h.os = "linux"
             PROVE  /\ panel # Nothing =>
                         \A t \in Offers(panel.list, h) \ Long : ValidUpgrade(h, t, panel.list)
                    /\ page.list # Nothing /\ page.selected \notin Long /\ CanUpgrade(page.list, page.selected, h)
                         => ValidUpgrade(h, page.selected, page.list)
  BY DEF OffersAreValid
<1>1. ASSUME panel # Nothing, NEW t \in Offers(panel.list, h) \ Long
      PROVE  ValidUpgrade(h, t, panel.list)
  <2>1. panel.list \in Lists
    BY <1>1 DEF TypeOK, Answers
  <2>2. BinaryAsset(h) # Nothing
    BY <1>1 DEF Offers
  <2>3. Supports(panel.list, t, "upgrade.sh", BinaryAsset(h)) /\ Compare(t, h.version) = 1
    BY <1>1, <2>2 DEF Offers
  <2> QED BY <2>1, <2>2, <2>3, OffersMatch
<1>2. ASSUME page.list # Nothing, page.selected \notin Long, CanUpgrade(page.list, page.selected, h)
      PROVE  ValidUpgrade(h, page.selected, page.list)
  <2>1. page.list \in Lists
    BY <1>2 DEF TypeOK, Pages
  <2> QED BY <1>2, <2>1, OffersMatch DEF CanUpgrade
<1> QED BY <1>1, <1>2

\* The comparison of versions in the browser (releases.ts) and the one in the Monitor
\* (maintenance.go) never disagree about an upgrade of a stable version.
THEOREM OffersHold == Spec => []OffersAreValid
BY TypeCorrect, TypesMeanOffers, PTL
-----------------------------------------------------------------------------
(* An upgrade is created from a list that was true a short time ago.  A list is  *)
(* as old as its request when it is read, and everything that holds one ages     *)
(* with the clock.                                                            *)

\* What the list offers completely GitHub has offered so in the last "ticks", by "since".
Recent(since, list, ticks) ==
  \A t \in Tags, b \in Binaries : Complete(list, t, b) => since[t][b] <= ticks

RecentAnswer(since, answer) ==
  answer.age # Nothing /\ answer.age <= TTL
    => Recent(since, answer.list, FetchTime + answer.age)

GoneInv ==
  /\ Recent(gone, github, 0)
  /\ fetch # Nothing /\ fetch.list # Nothing => Recent(gone, fetch.list, FetchTime - fetch.left)
  /\ RecentAnswer(gone, cache)
  /\ post # Nothing /\ post.answer # Nothing => RecentAnswer(gone, post.answer)
  /\ post # Nothing /\ post.checked =>
       post.answer = Nothing /\ post.host # Nothing /\ Compare(post.target, post.host.version) = 1

\* A tick later it has been offered in one tick more.
LEMMA RecentAges ==
  ASSUME TypeOK, Tick, NEW list, NEW n \in Nat, Recent(gone, list, n)
  PROVE  Recent(gone', list, n + 1)
<1>1. SUFFICES ASSUME NEW t \in Tags, NEW b \in Binaries, Complete(list, t, b)
               PROVE  gone'[t][b] <= n + 1
  BY DEF Recent
<1>2. gone[t][b] \in Nat /\ TTL + FetchTime + 1 \in Nat
  BY ConstantsHaveTypes DEF TypeOK
<1>3. gone[t][b] <= n
  BY <1>1 DEF Recent
<1>4. /\ Min({gone[t][b] + 1, TTL + FetchTime + 1}) <= gone[t][b] + 1
      /\ Min({gone[t][b] + 1, TTL + FetchTime + 1}) \in Nat
  BY <1>2, LeastOfTwo
<1>5. gone'[t][b] = IF Complete(github, t, b) THEN 0
                    ELSE Min({gone[t][b] + 1, TTL + FetchTime + 1})
  BY DEF Tick
<1> QED BY <1>2, <1>3, <1>4, <1>5

\* What the cache or a request holds ages with the clock.
LEMMA AnswersAge ==
  ASSUME TypeOK, Tick, NEW answer \in Caches, RecentAnswer(gone, answer)
  PROVE  RecentAnswer(gone', [answer EXCEPT !.age = Older(@, TTL + 1)])
<1> DEFINE next == [answer EXCEPT !.age = Older(@, TTL + 1)]
<1>1. next.list = answer.list /\ next.age = Older(answer.age, TTL + 1)
  BY DEF Caches
<1> HIDE DEF next
<1>2. SUFFICES ASSUME next.age # Nothing, next.age <= TTL
               PROVE  Recent(gone', answer.list, FetchTime + next.age)
  BY <1>1 DEF RecentAnswer, next
<1>3. answer.age \in 0..(TTL + 1) \cup {Nothing} /\ TTL + 1 \in Nat
  BY ConstantsHaveTypes DEF Caches
<1>4. answer.age # Nothing
  BY <1>1, <1>2 DEF Older
<1>5. next.age = IF answer.age < TTL + 1 THEN answer.age + 1 ELSE TTL + 1
  BY <1>1, <1>3, <1>4, AgesAreBounded
<1>6. answer.age \in Nat /\ answer.age <= TTL /\ next.age = answer.age + 1
  BY <1>2, <1>3, <1>4, <1>5, ConstantsHaveTypes
<1>7. FetchTime + answer.age \in Nat /\ (FetchTime + answer.age) + 1 = FetchTime + next.age
  BY <1>6, ConstantsHaveTypes
<1>8. Recent(gone, answer.list, FetchTime + answer.age)
  BY <1>4, <1>6 DEF RecentAnswer
<1>9. Recent(gone', answer.list, (FetchTime + answer.age) + 1)
  BY <1>7, <1>8, RecentAges
<1> QED BY <1>7, <1>9

\* A release that passes the check is newer than the host by the browser's comparison, too.
LEMMA PassesNewer ==
  ASSUME TypeOK, PostPasses
  PROVE  Compare(post.target, post.host.version) = 1
<1>1. /\ post.target \in Versions /\ post.host \in HostRecords
      /\ ValidUpgrade(post.host, post.target, post.answer.list)
  BY ConstantsHaveTypes DEF PostPasses, TypeOK, Posts
<1>2. /\ post.host.version \in Versions /\ Stable(post.target) /\ Stable(post.host.version)
      /\ Greater(post.target, post.host.version)
  BY <1>1 DEF ValidUpgrade, HostRecords, Stable
<1> QED BY <1>1, <1>2, ComparisonsAgree

LEMMA GoneKept ==
  ASSUME TypeOK, GoneInv, [Next]_vars
  PROVE  GoneInv'
<1> USE ConstantsHaveTypes
<1>1. CASE Publish
  <2>1. /\ fetch' = fetch /\ cache' = cache /\ post' = post
        /\ gone' = [t \in Tags |-> [b \in Binaries |->
                      IF Complete(github', t, b) THEN 0 ELSE gone[t][b]]]
    BY <1>1 DEF Publish, server, create
  <2>2. \A t \in Tags, b \in Binaries :
          gone[t][b] \in Nat /\ gone'[t][b] \in Nat /\ gone'[t][b] <= gone[t][b]
    BY <2>1 DEF TypeOK
  <2>3. ASSUME NEW list, NEW n \in Int, Recent(gone, list, n)
        PROVE  Recent(gone', list, n)
    BY <2>2, <2>3 DEF Recent
  <2>4. Recent(gone', github', 0)
    BY <2>1 DEF Recent
  <2>5. fetch # Nothing /\ fetch.list # Nothing =>
          Recent(gone', fetch.list, FetchTime - fetch.left)
    <3>1. fetch # Nothing => FetchTime - fetch.left \in Int
      BY DEF TypeOK
    <3> QED BY <2>3, <3>1 DEF GoneInv
  <2>6. ASSUME NEW answer \in Caches, RecentAnswer(gone, answer)
        PROVE  RecentAnswer(gone', answer)
    <3>1. answer.age # Nothing => FetchTime + answer.age \in Int
      BY DEF Caches
    <3> QED BY <2>3, <2>6, <3>1 DEF RecentAnswer
  <2>7. post # Nothing /\ post.answer # Nothing => RecentAnswer(gone', post.answer)
    BY <2>6 DEF GoneInv, TypeOK, Posts
  <2>8. RecentAnswer(gone', cache)
    BY <2>6 DEF GoneInv, TypeOK
  <2> QED BY <2>1, <2>4, <2>5, <2>7, <2>8 DEF GoneInv
<1>2. CASE Tick
  <2>1. Recent(gone', github', 0)
    <3>1. github' = github
      BY <1>2 DEF Tick
    <3>2. \A t \in Tags, b \in Binaries : Complete(github, t, b) => gone'[t][b] = 0
      BY <1>2 DEF Tick
    <3> QED BY <3>1, <3>2 DEF Recent
  <2>2. fetch' # Nothing /\ fetch'.list # Nothing =>
          Recent(gone', fetch'.list, FetchTime - fetch'.left)
    <3>1. SUFFICES ASSUME fetch' # Nothing, fetch'.list # Nothing
                   PROVE  Recent(gone', fetch'.list, FetchTime - fetch'.left)
      OBVIOUS
    <3>2. fetch # Nothing
      BY <1>2, <3>1 DEF Tick
    <3>3. fetch'.list = fetch.list /\ fetch'.left = fetch.left - 1 /\ fetch.left \in 1..FetchTime
      BY <1>2, <3>2 DEF Tick, TypeOK
    <3>4. /\ FetchTime - fetch.left \in Nat
          /\ (FetchTime - fetch.left) + 1 = FetchTime - fetch'.left
      BY <3>3
    <3>5. Recent(gone, fetch.list, FetchTime - fetch.left)
      BY <3>1, <3>2, <3>3 DEF GoneInv
    <3>6. Recent(gone', fetch.list, (FetchTime - fetch.left) + 1)
      BY <1>2, <3>4, <3>5, RecentAges
    <3> QED BY <3>3, <3>4, <3>6
  <2>3. RecentAnswer(gone', cache')
    <3>1. cache' = [cache EXCEPT !.age = Older(@, TTL + 1)] /\ cache \in Caches
      BY <1>2 DEF Tick, TypeOK
    <3> QED BY <1>2, <3>1, AnswersAge DEF GoneInv
  <2>4. post' # Nothing /\ post'.answer # Nothing => RecentAnswer(gone', post'.answer)
    <3>1. SUFFICES ASSUME post' # Nothing, post'.answer # Nothing
                   PROVE  RecentAnswer(gone', post'.answer)
      OBVIOUS
    <3>2. post # Nothing /\ post.answer # Nothing
      BY <1>2, <3>1 DEF Tick
    <3>3. post'.answer = [post.answer EXCEPT !.age = Older(@, TTL + 1)] /\ post.answer \in Caches
      BY <1>2, <3>2 DEF Tick, TypeOK, Posts
    <3> QED BY <1>2, <3>2, <3>3, AnswersAge DEF GoneInv
  <2>5. post' # Nothing /\ post'.checked =>
          /\ post'.answer = Nothing /\ post'.host # Nothing
          /\ Compare(post'.target, post'.host.version) = 1
    <3>1. SUFFICES ASSUME post' # Nothing, post'.checked = TRUE PROVE post' = post
      <4>1. post' = post /\ post # Nothing /\ post.checked =>
              /\ post'.answer = Nothing /\ post'.host # Nothing
          /\ Compare(post'.target, post'.host.version) = 1
        BY DEF GoneInv
      <4>2. post \in Posts => post.checked \in BOOLEAN
        BY DEF Posts
      <4>3. post # Nothing => post'.checked = post.checked
        BY <1>2 DEF Tick, TypeOK, Posts
      <4> QED BY <4>1, <4>2, <4>3, <1>2 DEF TypeOK, Tick
    <3>2. post # Nothing /\ post'.checked = post.checked
      BY <1>2, <3>1 DEF Tick, TypeOK, Posts
    <3>3. post.answer = Nothing
      BY <3>1, <3>2 DEF GoneInv
    <3> QED BY <1>2, <3>3 DEF Tick
  <2> QED BY <2>1, <2>2, <2>3, <2>4, <2>5 DEF GoneInv
<1>3. CASE FetchStarts
  BY <1>3 DEF GoneInv, FetchStarts, create
<1>4. CASE FetchReads
  <2>1. /\ fetch'.list = Read(github) /\ fetch.left \in 0..FetchTime /\ fetch'.left = fetch.left
        /\ gone' = gone /\ github' = github /\ cache' = cache /\ post' = post
    BY <1>4 DEF FetchReads, TypeOK, create
  <2>2. github \in Lists
    BY DEF TypeOK
  <2>3. Recent(gone, Read(github), FetchTime - fetch.left)
    <3> SUFFICES ASSUME NEW t \in Tags, NEW b \in Binaries, Complete(Read(github), t, b)
                 PROVE  gone[t][b] <= FetchTime - fetch.left
      BY DEF Recent
    <3>1. Complete(github, t, b)
      BY <2>2, ReadKeepsSome DEF Complete
    <3>2. gone[t][b] <= 0 /\ gone[t][b] \in Nat
      BY <3>1 DEF GoneInv, Recent, TypeOK
    <3> QED BY <2>1, <3>2
  <2> QED BY <2>1, <2>3 DEF GoneInv
<1>5. CASE FetchEnds
  <2>1. /\ cache'.list = fetch.list /\ cache'.age = 0 /\ fetch' = Nothing
        /\ gone' = gone /\ github' = github /\ post' = post
        /\ fetch # Nothing /\ fetch.list # Nothing /\ fetch.left \in 0..FetchTime
    BY <1>5 DEF FetchEnds, TypeOK, create
  <2>2. Recent(gone, fetch.list, FetchTime + 0)
    <3>1. Recent(gone, fetch.list, FetchTime - fetch.left)
      BY <2>1 DEF GoneInv
    <3>2. \A t \in Tags, b \in Binaries : gone[t][b] \in Nat
      BY DEF TypeOK
    <3> QED BY <2>1, <3>1, <3>2 DEF Recent
  <2>3. RecentAnswer(gone', cache')
    BY <2>1, <2>2 DEF RecentAnswer
  <2> QED BY <2>1, <2>3 DEF GoneInv
<1>6. CASE FetchFails
  <2>1. /\ cache'.list = cache.list /\ cache'.age = cache.age /\ fetch' = Nothing
        /\ gone' = gone /\ github' = github /\ post' = post
    BY <1>6 DEF FetchFails, TypeOK, Caches, create
  <2> QED BY <2>1 DEF GoneInv, RecentAnswer
<1>7. CASE PostListed
  <2>1. /\ post'.answer = cache /\ cache' = cache /\ fetch' = fetch
        /\ post'.checked = post.checked /\ post'.target = post.target /\ post'.host = post.host
        /\ gone' = gone /\ github' = github /\ post # Nothing
    BY <1>7 DEF PostListed, TypeOK, Posts, server
  <2>2. ~post.checked
    BY <1>7, <2>1 DEF PostListed, GoneInv
  <2> QED BY <2>1, <2>2 DEF GoneInv
<1>8. CASE Post
  <2>1. /\ post'.answer = Nothing /\ post'.checked = FALSE /\ cache' = cache /\ fetch' = fetch
        /\ gone' = gone /\ github' = github
    BY <1>8 DEF Post, server
  <2> QED BY <2>1 DEF GoneInv
<1>9. CASE CreateTask \/ RefuseTask
  <2>1. /\ post' = Nothing /\ cache' = cache /\ fetch' = fetch
        /\ gone' = gone /\ github' = github
    BY <1>9 DEF CreateTask, RefuseTask, server
  <2> QED BY <2>1 DEF GoneInv
<1>11. CASE PostReads
  <2>1. /\ post # Nothing /\ post.answer # Nothing
        /\ post'.answer = post.answer /\ cache' = cache /\ fetch' = fetch
        /\ post'.checked = post.checked /\ gone' = gone /\ github' = github
    BY <1>11 DEF PostReads, TypeOK, Posts, server
  <2>2. ~post.checked
    BY <2>1 DEF GoneInv
  <2> QED BY <2>1, <2>2 DEF GoneInv
<1>12. CASE PostPasses
  <2>1. /\ post # Nothing /\ post'.answer = Nothing /\ post'.target = post.target
        /\ post'.host = post.host /\ post.host # Nothing
        /\ cache' = cache /\ fetch' = fetch /\ gone' = gone /\ github' = github
    BY <1>12 DEF PostPasses, TypeOK, Posts, server
  <2> QED BY <1>12, <2>1, PassesNewer DEF GoneInv
<1>10. CASE \/ \E v \in {"none", "hosts", "host"} \ {view} : Show(v)
            \/ PageRetry \/ PageTimer \/ ServePage \/ PageAnswer \/ PageFails
            \/ \E t \in Tags \cup {Unknown} : Choose(t)
            \/ PanelLoads \/ HostReports \/ TaskEnds \/ UNCHANGED vars
  <2>1. /\ post' = post /\ cache' = cache /\ fetch' = fetch
        /\ gone' = gone /\ github' = github
    BY <1>10 DEF Show, PageRetry, PageTimer, ServePage, PageAnswer, PageFails, Choose,
                 PanelLoads, HostReports, TaskEnds, vars, server, create
  <2> QED BY <2>1 DEF GoneInv
<1> QED
  BY <1>1, <1>2, <1>3, <1>4, <1>5, <1>6, <1>7, <1>8, <1>9, <1>10, <1>11, <1>12 DEF Next

\* Only PostPasses lets a request pass: the release is complete for the host in a list
\* that is no older than TTL.
LEMMA PassesFromRecent ==
  ASSUME TypeOK, GoneInv, PostPasses
  PROVE  gone[post'.target][Arch(post'.host.arch)] <= TTL + FetchTime
<1>1. /\ post'.target = post.target /\ post'.host = post.host
      /\ post.target \in Tags /\ post.answer \in Caches
      /\ Fresh(post.answer) /\ ValidUpgrade(post.host, post.target, post.answer.list)
      /\ RecentAnswer(gone, post.answer)
  BY DEF PostPasses, TypeOK, Posts, GoneInv
<1> DEFINE arch == Arch(post.host.arch)
<1>2. arch \in Binaries /\ Complete(post.answer.list, post.target, arch)
  <2>1. arch \in Binaries
    BY <1>1 DEF ValidUpgrade, Arch, Binaries
  <2>2. arch # Nothing
    BY <1>1 DEF ValidUpgrade
  <2> QED BY <1>1, <2>1, <2>2 DEF ValidUpgrade, Complete, Supports
<1> HIDE DEF arch
<1>3. post.answer.age \in Nat /\ post.answer.age <= TTL
  BY <1>1, ConstantsHaveTypes DEF Fresh, Caches
<1>4. gone[post.target][arch] <= FetchTime + post.answer.age
  BY <1>1, <1>2, <1>3 DEF RecentAnswer, Recent, Fresh
<1>5. gone[post.target][arch] \in Nat
  BY <1>1, <1>2 DEF TypeOK
<1>6. gone[post.target][arch] <= TTL + FetchTime
  BY <1>3, <1>4, <1>5, ConstantsHaveTypes
<1> QED BY <1>1, <1>6 DEF arch

\* The steps that let a request pass, and that create its task.
UpgradeStep ==
  /\ post # Nothing /\ post' # Nothing /\ ~post.checked /\ post'.checked =>
       gone[post'.target][Arch(post'.host.arch)] <= TTL + FetchTime
  /\ task = Nothing /\ task' # Nothing =>
       /\ post # Nothing /\ post.checked /\ post.target = task'
       /\ Compare(task', post.host.version) = 1

LEMMA UpgradesFromRecent ==
  ASSUME TypeOK, GoneInv, [Next]_vars
  PROVE  UpgradeStep
<1>1. ASSUME post # Nothing, post' # Nothing, ~post.checked, post'.checked PROVE PostPasses
  <2>1. CASE Tick
    BY <1>1, <2>1 DEF Tick, TypeOK, Posts
  <2>2. CASE PostListed \/ PostReads
    BY <1>1, <2>2 DEF PostListed, PostReads, TypeOK, Posts
  <2> QED
    BY <1>1, <2>1, <2>2 DEF Next, Publish, FetchStarts, FetchReads, FetchEnds, FetchFails, Show,
       PageRetry, PageTimer, ServePage, PageAnswer, PageFails, Choose, PanelLoads, Post,
       HostReports, CreateTask, RefuseTask, TaskEnds, vars, create
<1>2. ASSUME task = Nothing, task' # Nothing PROVE CreateTask
  BY <1>2 DEF Next, Publish, Tick, FetchStarts, FetchReads, FetchEnds, FetchFails, Show,
     PageRetry, PageTimer, ServePage, PageAnswer, PageFails, Choose, PanelLoads, Post,
     HostReports, PostListed, PostReads, PostPasses, RefuseTask, TaskEnds, vars, create
<1>3. CreateTask => /\ post # Nothing /\ post.checked /\ post.target = task'
                    /\ Compare(task', post.host.version) = 1
  BY DEF CreateTask, GoneInv
<1> QED BY <1>1, <1>2, <1>3, PassesFromRecent DEF UpgradeStep

\* However long a request waits for the locks and for the store (maintenance.go:108-147),
\* the release was complete on GitHub at most a kept list and a request before it was
\* looked for, and newer than what the host said when it was read.
THEOREM UpgradesHold == Spec => UpgradesAreCurrent
<1>1. Init => GoneInv
  BY ConstantsHaveTypes DEF Init, GoneInv, Recent, RecentAnswer
<1>2. TypeOK /\ GoneInv /\ [Next]_vars => GoneInv'
  BY GoneKept
<1>3. TypeOK /\ GoneInv /\ [Next]_vars => [UpgradeStep]_<<post, task>>
  BY UpgradesFromRecent
<1> QED BY <1>1, <1>2, <1>3, TypeCorrect, PTL DEF Spec, UpgradesAreCurrent, UpgradeStep

-----------------------------------------------------------------------------
(* The selected release *)

\* Numbers are compared from the left.
LEMMA GreaterIsLexical ==
  ASSUME NEW a \in Versions, NEW b \in Versions
  PROVE  /\ a.core \in [1..3 -> Nat] /\ b.core \in [1..3 -> Nat]
         /\ Greater(a, b) <=>
              \/ a.core[1] > b.core[1]
              \/ a.core[1] = b.core[1] /\ a.core[2] > b.core[2]
              \/ a.core[1] = b.core[1] /\ a.core[2] = b.core[2] /\ a.core[3] > b.core[3]
<1>1. /\ a.core \in Seq(Nat) /\ b.core \in Seq(Nat) /\ Len(a.core) = 3 /\ Len(b.core) = 3
  BY DEF Versions
<1>2. a.core \in [1..3 -> Nat] /\ b.core \in [1..3 -> Nat]
  BY <1>1, LenProperties
<1>3. \A i \in 1..3 : a.core[i] \in Nat /\ b.core[i] \in Nat
  BY <1>2
<1>4. CASE a.core = b.core
  BY <1>3, <1>2, <1>4 DEF Greater
<1>5. CASE a.core # b.core
  <2> DEFINE i == FirstDifference(a.core, b.core)
  <2>1. i \in 1..3 /\ a.core[i] # b.core[i]
    BY <1>5, CoresDiffer
  <2>2. \A j \in 1..3 : j < i => a.core[j] = b.core[j]
    BY <1>5, CoresDiffer
  <2>3. Greater(a, b) <=> a.core[i] > b.core[i]
    BY <1>5 DEF Greater
  <2> HIDE DEF i
  <2>4. i = 1 \/ i = 2 \/ i = 3
    BY <2>1
  <2> QED
    BY <1>2, <1>3, <2>1, <2>2, <2>3, <2>4
<1> QED
  BY <1>4, <1>5

LEMMA GreaterIsTransitive ==
  ASSUME NEW a \in Versions, NEW b \in Versions, NEW c \in Versions,
         Greater(a, b), Greater(b, c)
  PROVE  Greater(a, c)
<1>1. \A v \in {a, b, c} : v.core[1] \in Nat /\ v.core[2] \in Nat /\ v.core[3] \in Nat
  BY GreaterIsLexical
<1>2. /\ \/ a.core[1] > b.core[1]
         \/ a.core[1] = b.core[1] /\ a.core[2] > b.core[2]
         \/ a.core[1] = b.core[1] /\ a.core[2] = b.core[2] /\ a.core[3] > b.core[3]
      /\ \/ b.core[1] > c.core[1]
         \/ b.core[1] = c.core[1] /\ b.core[2] > c.core[2]
         \/ b.core[1] = c.core[1] /\ b.core[2] = c.core[2] /\ b.core[3] > c.core[3]
  BY GreaterIsLexical
<1>3. \/ a.core[1] > c.core[1]
      \/ a.core[1] = c.core[1] /\ a.core[2] > c.core[2]
      \/ a.core[1] = c.core[1] /\ a.core[2] = c.core[2] /\ a.core[3] > c.core[3]
  BY <1>1, <1>2
<1> QED
  BY <1>3, GreaterIsLexical

IsGreatest(g, S) == g \in S /\ \A u \in S \ {g} : Greater(g, u)

\* Of any releases that are stable one is the newest.
LEMMA GreatestExists ==
  ASSUME NEW S \in SUBSET {t \in Tags : Stable(t)}, S # {}
  PROVE  \E g \in S : IsGreatest(g, S)
<1> DEFINE Bad == {T \in SUBSET S : T # {} /\ \A g \in T : ~IsGreatest(g, T)}
<1>1. /\ S \subseteq Versions /\ IsFiniteSet(S)
      /\ \A t, u \in S : t = u \/ Greater(t, u) \/ Greater(u, t)
  <2>1. IsFiniteSet(S)
    BY ReleasesAssumption, FS_Subset
  <2> QED
    BY <2>1, ReleasesAssumption
<1>2. IsWellFoundedOn(StrictSubsetOrdering(S), SUBSET S)
  BY <1>1, FS_FiniteSubsetsOfFinite, FS_StrictSubsetOrderingWellFounded
<1> SUFFICES ASSUME Bad # {} PROVE FALSE
  <2>1. Bad = {} => ~(S \in Bad)
    OBVIOUS
  <2> QED
    BY <2>1
<1>3. PICK M \in Bad : \A T \in Bad : <<T, M>> \notin StrictSubsetOrdering(S)
  <2>1. Bad \subseteq SUBSET S
    OBVIOUS
  <2> HIDE DEF Bad
  <2> QED
    BY <1>2, <2>1, WFMin
<1>4. PICK x \in M : TRUE
  OBVIOUS
<1>5. M \ {x} # {}
  <2> SUFFICES ASSUME M = {x} PROVE FALSE
    BY <1>4
  <2> QED
    BY DEF IsGreatest
<1>6. M \ {x} \notin Bad
  <2>1. <<M \ {x}, M>> \in StrictSubsetOrdering(S)
    BY <1>4 DEF StrictSubsetOrdering
  <2> QED
    BY <1>3, <2>1
<1>7. PICK g \in M \ {x} : IsGreatest(g, M \ {x})
  BY <1>5, <1>6
<1>8. CASE Greater(x, g)
  <2>1. \A u \in M \ {x} : Greater(x, u)
    BY <1>1, <1>7, <1>8, GreaterIsTransitive DEF IsGreatest
  <2> QED
    BY <1>4, <2>1 DEF IsGreatest
<1>9. CASE Greater(g, x)
  <2>1. \A u \in M \ {g} : Greater(g, u)
    BY <1>7, <1>9 DEF IsGreatest
  <2> QED
    BY <1>7, <2>1 DEF IsGreatest
<1> QED
  BY <1>1, <1>7, <1>8, <1>9

LEMMA NewestIsGreatest ==
  ASSUME NEW S \in SUBSET {t \in Tags : Stable(t)}, NEW u \in S
  PROVE  Newest(S) \in S /\ (Newest(S) = u \/ Greater(Newest(S), u))
<1> DEFINE first == {t \in S : \A w \in S \ {t} : Greater(t, w)}
<1>1. first # {}
  BY GreatestExists DEF IsGreatest
<1>2. Newest(S) \in first
  BY <1>1 DEF Newest
<1> QED
  BY <1>2

\* Without a choice the page has the newest release that can be installed.
Follows(list, selected) ==
  \A t \in DOMAIN list :
    Supports(list, t, "install.sh", Nothing) => selected = t \/ Compare(selected, t) = 1

FollowInv == page.list # Nothing /\ ~page.chosen => Follows(page.list, page.selected)

LEMMA DefaultFollows ==
  ASSUME NEW list \in Lists, ~page.chosen
  PROVE  Follows(list, Default(list))
<1> DEFINE S == {t \in DOMAIN list : Supports(list, t, "install.sh", Nothing)}
<1>1. S \in SUBSET {t \in Tags : Stable(t)}
  BY ListsAreFunctions DEF Supports
<1> SUFFICES ASSUME NEW t \in S PROVE Newest(S) = t \/ Compare(Newest(S), t) = 1
    BY DEF Follows, Default
<1>2. Newest(S) \in S /\ (Newest(S) = t \/ Greater(Newest(S), t))
  BY <1>1, NewestIsGreatest
<1>3. \A u \in S : u \in Versions /\ Stable(u)
  BY <1>1, ConstantsHaveTypes
<1> HIDE DEF S
<1> QED
  BY <1>2, <1>3, ComparisonsAgree

\* A choice stays until the page is left, and without one the newest is followed.
Chosen == page.chosen /\ page'.chosen /\ page'.phase # page.phase =>
            page'.selected = page.selected

LEMMA FollowKept ==
  ASSUME TypeOK, FollowInv, [Next]_vars
  PROVE  FollowInv' /\ Chosen
<1>1. page \in Pages
  BY DEF TypeOK
<1>2. ASSUME page'.list = page.list, page'.selected = page.selected, page'.chosen = page.chosen
      PROVE  FollowInv' /\ Chosen
  BY <1>2 DEF FollowInv, Chosen
<1>3. CASE Publish \/ FetchStarts \/ FetchReads \/ FetchEnds \/ FetchFails \/ PanelLoads \/ Post
           \/ PostListed \/ PostReads \/ PostPasses \/ HostReports \/ CreateTask \/ RefuseTask \/ TaskEnds \/ UNCHANGED vars
  <2>1. page' = page
    BY <1>3 DEF Publish, FetchStarts, FetchReads, FetchEnds, FetchFails, PanelLoads, Post,
                PostListed, PostReads, PostPasses, HostReports, CreateTask, RefuseTask,
                TaskEnds, vars
  <2> QED
    BY <1>2, <2>1
<1>4. CASE Tick \/ PageRetry \/ PageTimer \/ ServePage \/ PageFails
  <2>1. /\ page'.list = page.list /\ page'.selected = page.selected
        /\ page'.chosen = page.chosen
    BY <1>1, <1>4 DEF Tick, PageRetry, PageTimer, ServePage, PageFails, Pages
  <2> QED
    BY <1>2, <2>1
<1>5. ASSUME NEW v \in {"none", "hosts", "host"}, Show(v)
      PROVE  FollowInv' /\ Chosen
  <2>1. page'.list = Nothing /\ ~page'.chosen
    BY <1>5 DEF Show, Offline
  <2> QED
    BY <2>1 DEF FollowInv, Chosen
<1>6. CASE PageAnswer
  <2>1. /\ page.answer \in Answers /\ page'.list = page.answer.list
        /\ page'.selected = Default(page.answer.list) /\ page'.chosen = page.chosen
    BY <1>1, <1>6 DEF PageAnswer, Pages, TypeOK
  <2>2. page.answer.list \in Lists
    BY <2>1 DEF Answers
  <2>3. page.chosen => Default(page.answer.list) = page.selected
    BY DEF Default
  <2>4. ~page.chosen => Follows(page'.list, page'.selected)
    BY <2>1, <2>2, DefaultFollows
  <2> QED
    BY <2>1, <2>3, <2>4 DEF FollowInv, Chosen
<1>7. ASSUME NEW t \in Tags \cup {Unknown}, Choose(t)
      PROVE  FollowInv' /\ Chosen
  <2>1. page'.chosen /\ page'.phase = page.phase
    BY <1>1, <1>7 DEF Choose, Pages
  <2> QED
    BY <2>1 DEF FollowInv, Chosen
<1> QED
  BY <1>3, <1>4, <1>5, <1>6, <1>7 DEF Next

\* A choice of the administrator stays, and without one the page follows the newest
\* release that can be installed, for all lists and however answers are delayed
\* (AdminPage.tsx:42-55, setAgentRelease).
THEOREM SelectionHolds == Spec => SelectionFollows
<1> DEFINE A == /\ Chosen
                /\ page'.list # Nothing /\ ~page'.chosen =>
                     \A t \in DOMAIN page'.list :
                       Supports(page'.list, t, "install.sh", Nothing) =>
                         page'.selected = t \/ Compare(page'.selected, t) = 1
<1>1. Init => FollowInv
  BY DEF Init, FollowInv, Offline
<1>2. TypeOK /\ FollowInv /\ [Next]_vars => FollowInv'
  BY FollowKept
<1>3. TypeOK /\ FollowInv /\ [Next]_vars => [A]_page
  BY FollowKept DEF FollowInv, Follows
<1> QED
  BY <1>1, <1>2, <1>3, TypeCorrect, PTL DEF Spec, SelectionFollows, Chosen

-----------------------------------------------------------------------------
(* The list and the credential of the same page: the module HostsPanel *)

\* A request that was served has a host and a token, a load that was served a list.
ServedIsFull ==
  /\ (job # None /\ job.step = "served") => job.host \in Hosts /\ job.token \in Tokens
  /\ newest.phase = "served" => newest.list \in HostLists
  /\ older.phase = "served" => older.list \in HostLists

\* A host that has been created, and is enrolled by token t unless it has its key, is
\* gone, or a renewal of it was abandoned.
Enrolls(h, t) ==
  /\ life[h] # "unused"
  /\ (life[h] = "present" /\ key[h] = None /\ h \notin abandoned) => pass[h] = t

\* The credential on the screen and the one on its way enroll; there is only one of
\* them, and renewals nobody waits for are known.
TokensInv ==
  /\ created # None => Enrolls(created.host, created.token)
  /\ (job # None /\ job.step = "served") => Enrolls(job.host, job.token)
  /\ (job # None /\ job.step \in {"sent", "served"}) => created = None
  /\ stray \subseteq abandoned

\* A host has had its key for good.
Keyed(h) == key[h] # None \/ life[h] = "deleted"

\* The host list tells of keys is one that has had it.
Truthful(list) == \A h \in DOMAIN list : list[h] => Keyed(h)

\* What is on the screen and what the newest answer says is true, and the answer is
\* not behind the screen.
ListInv ==
  /\ hosts # None => Truthful(hosts)
  /\ newest.phase = "served" =>
       /\ Truthful(newest.list)
       /\ hosts # None =>
            \A h \in DOMAIN hosts \cap DOMAIN newest.list : hosts[h] => newest.list[h]

PanelInv == PanelTypeOK /\ ServedIsFull /\ TokensInv /\ ListInv
\* Every reachable state satisfies the invariant.
LEMMA PanelInvInit == PanelInit => PanelInv
<1> SUFFICES ASSUME PanelInit PROVE PanelInv
    OBVIOUS
<1>1. PanelTypeOK
  BY PanelAssumption DEF PanelInit, Monitor!Init, PanelTypeOK, Phases, NoLoad
<1>2. ServedIsFull /\ TokensInv /\ ListInv
  BY DEF PanelInit, NoLoad, ServedIsFull, TokensInv, ListInv
<1> QED
  BY <1>1, <1>2 DEF PanelInv

\* The list that the Monitor gives out is one, and tells the truth.
LEMMA ListIsTrue == List \in HostLists /\ Truthful(List)
<1>1. List \in [{g \in Hosts : life[g] = "present"} -> BOOLEAN]
  BY DEF List
<1>2. {g \in Hosts : life[g] = "present"} \in SUBSET Hosts
  OBVIOUS
<1>3. List \in HostLists
  BY <1>1, <1>2 DEF HostLists
<1> QED
  BY <1>3 DEF List, Truthful, Keyed

\* What the effect leaves of a credential.
LEMMA ForgetsSome ==
  ASSUME NEW credential, NEW list
  PROVE  Forgets(credential, list) \in {credential, None}
BY DEF Forgets

\* Every step leads to a well-typed state in which answers are complete.
LEMMA PanelTypeStep ==
  PanelTypeOK /\ ServedIsFull /\ [PanelNext]_panelVars => (PanelTypeOK /\ ServedIsFull)'
<1> SUFFICES ASSUME PanelTypeOK /\ ServedIsFull, [PanelNext]_panelVars
             PROVE  (PanelTypeOK /\ ServedIsFull)'
    OBVIOUS
<1> USE PanelAssumption DEF PanelTypeOK, ServedIsFull, Phases
<1>1. CASE Others
  BY <1>1 DEF Others, Monitor!Delete, Monitor!Bind, loads, lost
<1>2. CASE ServeNewest
  BY <1>2, ListIsTrue DEF ServeNewest, NoLoad, monitor, lost
<1>3. CASE ServeOlder
  BY <1>3, ListIsTrue DEF ServeOlder, monitor, lost
<1>4. CASE ServeJob
  BY <1>4 DEF ServeJob, Monitor!Register, Monitor!Renew, loads, lost
<1>5. CASE ServeRemoval
  BY <1>5 DEF ServeRemoval, Monitor!Delete, loads, lost
<1>6. CASE Enter
  BY <1>6 DEF Enter, Supersede, Sent, monitor, lost
<1>7. CASE Leave
  BY <1>7 DEF Leave, NoLoad, monitor
<1>8. CASE Refresh
  BY <1>8 DEF Refresh, Supersede, Sent, monitor, lost
<1>9. CASE NewestAnswer
  BY <1>9 DEF NewestAnswer, NoLoad, Done, Forgets, monitor, lost
<1>10. CASE NewestFails
  BY <1>10 DEF NewestFails, NoLoad, Done, monitor, lost
<1>11. CASE OlderEnds
  BY <1>11 DEF OlderEnds, NoLoad, Done, monitor, lost
<1>12. CASE Create
  BY <1>12 DEF Create, monitor, loads, lost
<1>13. CASE JobAnswer
  BY <1>13 DEF JobAnswer, Forgets, Sent, monitor, lost
<1>14. CASE JobFails
  BY <1>14 DEF JobFails, monitor, loads, lost
<1>15. CASE RemovalAnswer
  BY <1>15 DEF RemovalAnswer, Supersede, Sent, monitor, lost
<1>16. CASE RemovalFails
  BY <1>16 DEF RemovalFails, monitor, loads, lost
<1>17. ASSUME NEW h \in Hosts, ServeStray(h) PROVE (PanelTypeOK /\ ServedIsFull)'
  BY <1>17 DEF ServeStray, Monitor!Renew, loads
<1>18. ASSUME NEW h \in Hosts, Regenerate(h) PROVE (PanelTypeOK /\ ServedIsFull)'
  BY <1>18 DEF Regenerate, monitor, loads, lost
<1>19. ASSUME NEW h \in Hosts, Remove(h) PROVE (PanelTypeOK /\ ServedIsFull)'
  BY <1>19 DEF Remove, monitor, loads, lost
<1>20. CASE UNCHANGED panelVars
  BY <1>20 DEF panelVars, monitor, loads, lost
<1> QED
  BY <1>1, <1>2, <1>3, <1>4, <1>5, <1>6, <1>7, <1>8, <1>9, <1>10, <1>11, <1>12, <1>13, <1>14,
     <1>15, <1>16, <1>17, <1>18, <1>19, <1>20 DEF PanelNext

\* Every step keeps what is known of credentials.
LEMMA TokensStep ==
  PanelTypeOK /\ ServedIsFull /\ TokensInv /\ [PanelNext]_panelVars => TokensInv'
<1> SUFFICES ASSUME PanelTypeOK /\ ServedIsFull /\ TokensInv, [PanelNext]_panelVars
             PROVE  TokensInv'
    OBVIOUS
<1> USE PanelAssumption DEF PanelTypeOK, ServedIsFull, TokensInv, Enrolls
<1>1. CASE Others
  BY <1>1 DEF Others, Monitor!Delete, Monitor!Bind, loads, lost
<1>2. CASE ServeNewest
  BY <1>2 DEF ServeNewest, monitor, lost
<1>3. CASE ServeOlder
  BY <1>3 DEF ServeOlder, monitor, lost
<1>4. CASE ServeJob
  BY <1>4 DEF ServeJob, Monitor!Register, Monitor!Renew, loads, lost
<1>5. CASE ServeRemoval
  BY <1>5 DEF ServeRemoval, Monitor!Delete, loads, lost
<1>6. CASE Enter
  BY <1>6 DEF Enter, Supersede, Sent, monitor, lost
<1>7. CASE Leave
  BY <1>7 DEF Leave, NoLoad, monitor
<1>8. CASE Refresh
  BY <1>8 DEF Refresh, Supersede, Sent, monitor, lost
<1>9. CASE NewestAnswer
  BY <1>9 DEF NewestAnswer, NoLoad, Done, Forgets, monitor, lost
<1>10. CASE NewestFails
  BY <1>10 DEF NewestFails, NoLoad, Done, monitor, lost
<1>11. CASE OlderEnds
  BY <1>11 DEF OlderEnds, NoLoad, Done, monitor, lost
<1>12. CASE Create
  BY <1>12 DEF Create, monitor, loads, lost
<1>13. CASE JobAnswer
  BY <1>13 DEF JobAnswer, Forgets, Sent, monitor, lost
<1>14. CASE JobFails
  BY <1>14 DEF JobFails, monitor, loads, lost
<1>15. CASE RemovalAnswer
  BY <1>15 DEF RemovalAnswer, Supersede, Sent, monitor, lost
<1>16. CASE RemovalFails
  BY <1>16 DEF RemovalFails, monitor, loads, lost
<1>17. ASSUME NEW h \in Hosts, ServeStray(h) PROVE TokensInv'
  BY <1>17 DEF ServeStray, Monitor!Renew, loads
<1>18. ASSUME NEW h \in Hosts, Regenerate(h) PROVE TokensInv'
  BY <1>18 DEF Regenerate, monitor, loads, lost
<1>19. ASSUME NEW h \in Hosts, Remove(h) PROVE TokensInv'
  BY <1>19 DEF Remove, monitor, loads, lost
<1>20. CASE UNCHANGED panelVars
  BY <1>20 DEF panelVars, monitor, loads, lost
<1> QED
  BY <1>1, <1>2, <1>3, <1>4, <1>5, <1>6, <1>7, <1>8, <1>9, <1>10, <1>11, <1>12, <1>13, <1>14,
     <1>15, <1>16, <1>17, <1>18, <1>19, <1>20 DEF PanelNext

\* What has been true of a host's key stays true.
LEMMA KeysStay ==
  ASSUME PanelTypeOK, [PanelNext]_panelVars, NEW h \in Hosts, Keyed(h)
  PROVE  Keyed(h)'
<1> USE PanelAssumption DEF PanelTypeOK, Keyed
<1>1. CASE UNCHANGED monitor
  BY <1>1 DEF monitor
<1>2. ASSUME NEW g \in Hosts, Monitor!Delete(g) PROVE Keyed(h)'
  BY <1>2 DEF Monitor!Delete
<1>3. ASSUME NEW g \in Hosts, NEW k \in Keys, Monitor!Bind(g, k) PROVE Keyed(h)'
  BY <1>3 DEF Monitor!Bind
<1>4. ASSUME NEW g \in Hosts, NEW t \in Tokens, Monitor!Register(g, t) \/ Monitor!Renew(g, t)
      PROVE Keyed(h)'
  BY <1>4 DEF Monitor!Register, Monitor!Renew
<1>5. CASE Others \/ ServeRemoval
  BY <1>2, <1>3, <1>5 DEF Others, ServeRemoval
<1>6. CASE ServeJob \/ \E g \in Hosts : ServeStray(g)
  BY <1>4, <1>6 DEF ServeJob, ServeStray
<1>7. CASE UNCHANGED panelVars
  BY <1>1, <1>7 DEF panelVars
<1>8. CASE ServeNewest \/ ServeOlder \/ Enter \/ Leave \/ Refresh \/ NewestAnswer
  BY <1>1, <1>8 DEF ServeNewest, ServeOlder, Enter, Leave, Refresh, NewestAnswer
<1>9. CASE NewestFails \/ OlderEnds \/ Create \/ JobAnswer \/ JobFails
  BY <1>1, <1>9 DEF NewestFails, OlderEnds, Create, JobAnswer, JobFails
<1>10. CASE \/ RemovalAnswer \/ RemovalFails
            \/ \E g \in Hosts : Regenerate(g) \/ Remove(g)
  BY <1>1, <1>10 DEF RemovalAnswer, RemovalFails, Regenerate, Remove
<1> QED
  BY <1>5, <1>6, <1>7, <1>8, <1>9, <1>10 DEF PanelNext

\* Every step keeps what is known of lists.
LEMMA ListStep == PanelTypeOK /\ ServedIsFull /\ ListInv /\ [PanelNext]_panelVars => ListInv'
<1> SUFFICES ASSUME PanelTypeOK, ServedIsFull, ListInv, [PanelNext]_panelVars PROVE ListInv'
    OBVIOUS
<1> USE KeysStay
<1>0. /\ hosts # None => DOMAIN hosts \subseteq Hosts
      /\ newest.phase = "served" => DOMAIN newest.list \subseteq Hosts
  BY DEF PanelTypeOK, ServedIsFull, HostLists
<1>1. CASE UNCHANGED <<hosts, newest>>
  BY <1>0, <1>1 DEF ListInv, Truthful
<1>2. CASE ServeNewest
  <2>1. newest' = [phase |-> "served", list |-> List] /\ hosts' = hosts
    BY <1>2 DEF ServeNewest
  <2>2. newest'.phase = "served" /\ newest'.list = List
    BY <2>1
  <2>3. \A h \in DOMAIN List : List[h] => Keyed(h)'
    BY <1>2, ListIsTrue DEF ServeNewest, monitor, List, Truthful, Keyed
  <2>4. ASSUME hosts # None, NEW h \in DOMAIN hosts \cap DOMAIN List, hosts[h]
        PROVE List[h]
    BY <2>4 DEF ListInv, Truthful, Keyed, List
  <2> QED
    BY <2>1, <2>2, <2>3, <2>4, <1>0 DEF ListInv, Truthful
<1>3. CASE NewestAnswer
  BY <1>0, <1>3 DEF NewestAnswer, ListInv, Truthful, NoLoad
<1>4. CASE Enter \/ Refresh \/ JobAnswer \/ RemovalAnswer \/ NewestFails
  BY <1>0, <1>4 DEF Enter, Refresh, JobAnswer, RemovalAnswer, NewestFails, Supersede, Sent,
                    NoLoad, ListInv, Truthful
<1>5. CASE Leave
  BY <1>5 DEF Leave, NoLoad, ListInv
<1>6. CASE Others \/ ServeOlder \/ ServeJob \/ ServeRemoval \/ \E h \in Hosts : ServeStray(h)
  BY <1>1, <1>6 DEF Others, ServeOlder, ServeJob, ServeRemoval, ServeStray, loads
<1>7. CASE OlderEnds \/ Create \/ JobFails \/ RemovalFails
  BY <1>1, <1>7 DEF OlderEnds, Create, JobFails, RemovalFails, loads
<1>8. CASE UNCHANGED panelVars \/ \E h \in Hosts : Regenerate(h) \/ Remove(h)
  BY <1>1, <1>8 DEF panelVars, Regenerate, Remove, loads
<1> QED
  BY <1>2, <1>3, <1>4, <1>5, <1>6, <1>7, <1>8 DEF PanelNext

\* The three parts are one inductive invariant.
LEMMA PanelInvHolds == PanelSpec => []PanelInv
<1>1. PanelInit => PanelInv
  BY PanelInvInit
<1>2. PanelInv /\ [PanelNext]_panelVars => PanelInv'
  BY PanelTypeStep, TokensStep, ListStep DEF PanelInv
<1> QED
  BY <1>1, <1>2, PTL DEF PanelSpec

\* Every reachable state of the page is well typed.
THEOREM PanelTypeCorrect == PanelSpec => []PanelTypeOK
<1>1. PanelInv => PanelTypeOK
  BY DEF PanelInv
<1> QED
  BY <1>1, PanelInvHolds, PTL

\* The credential on the screen is the one that enrolls its host.
THEOREM ShownTokenHolds == PanelSpec => []ShownTokenIsCurrent
<1>1. PanelInv => ShownTokenIsCurrent
  BY DEF PanelInv, TokensInv, Enrolls, ShownTokenIsCurrent
<1> QED
  BY <1>1, PanelInvHolds, PTL

\* A host that was shown with its key is not shown as pending later.
THEOREM ListOfHostsHolds == PanelSpec => ListNeverGoesBack
<1>1. ASSUME PanelInv, [PanelNext]_panelVars
      PROVE  [(hosts # None /\ hosts' # None) =>
                \A h \in DOMAIN hosts \cap DOMAIN hosts' : hosts[h] => hosts'[h]]_hosts
  <2>1. CASE UNCHANGED hosts
    BY <2>1
  <2>2. CASE NewestAnswer
    BY <1>1, <2>2 DEF NewestAnswer, PanelInv, ListInv
  <2>3. CASE Leave
    BY <2>3 DEF Leave
  <2>4. CASE Others \/ ServeNewest \/ ServeOlder \/ ServeJob \/ ServeRemoval \/ Enter \/ Refresh
    BY <2>1, <2>4 DEF Others, ServeNewest, ServeOlder, ServeJob, ServeRemoval, Enter, Refresh
  <2>5. CASE NewestFails \/ OlderEnds \/ Create \/ JobAnswer \/ JobFails \/ RemovalAnswer
    BY <2>1, <2>5 DEF NewestFails, OlderEnds, Create, JobAnswer, JobFails, RemovalAnswer
  <2>6. CASE \/ RemovalFails \/ UNCHANGED panelVars
             \/ \E h \in Hosts : ServeStray(h) \/ Regenerate(h) \/ Remove(h)
    BY <2>1, <2>6 DEF RemovalFails, panelVars, ServeStray, Regenerate, Remove
  <2> QED
    BY <1>1, <2>2, <2>3, <2>4, <2>5, <2>6 DEF PanelNext
<1> QED
  BY <1>1, PanelInvHolds, PTL DEF PanelSpec, ListNeverGoesBack
=============================================================================
