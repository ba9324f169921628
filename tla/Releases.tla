------------------------------ MODULE Releases ------------------------------
(***************************************************************************)
(* The releases of the Agent: the Monitor's cache of GitHub's list            *)
(* (server/agent_releases.go), the two pages that offer them                  *)
(* (frontend/src/pages/admin/AdminPage.tsx, HostsPanel, and                   *)
(* frontend/src/pages/maintenance/Maintenance.tsx, HostControls) with the     *)
(* comparison of versions they use (frontend/src/utils/releases.ts), and the  *)
(* check a task of kind agent_upgrade has to pass (server/maintenance.go).     *)
(*                                                                         *)
(* Time is a number of ticks.  Nothing counts from the beginning: the cache    *)
(* and the page have timers that run down, and a list has an age that stops    *)
(* one above what anything compares it with.  Who asks does not matter to the   *)
(* cache: any request may make it read GitHub's list, under its lock, and the  *)
(* requests that wait are answered when the lock is free.                     *)
(***************************************************************************)
EXTENDS Integers, Sequences, FiniteSets, FiniteSetsExt, Functions

CONSTANTS
  Tags,       \* the tags of releases
  Listings,   \* what GitHub may list: functions from tags to assets
  Reported,   \* what hosts say of themselves
  Opened,     \* bound: what the host says whose page is opened, and may come to say
  Long,       \* the tags of more than 64 letters
  TTL,        \* agentReleaseTTL
  Cooldown,   \* agentReleaseCooldown
  Interval,   \* the page's 600000 ms
  FetchTime,  \* bound: ticks a request to GitHub can last (10 s in the code)
  Unknown,    \* a version that is none: "dev", "unknown", ""
  Nothing

VARIABLES
  github,   \* what GitHub lists
  cache,    \* c.response: the list, the age of CheckedAt, Stale
  wait,     \* ticks to c.nextCheck
  fetch,    \* the request to GitHub that holds c.mu
  view,     \* what the browser shows: HostsPanel, HostControls or neither
  page,     \* the releases in HostsPanel
  panel,    \* the releases in HostControls
  host,     \* what the host has reported
  post,     \* a request for an upgrade that is being handled
  task,     \* the target of the upgrade under way
  gone,     \* ticks since GitHub offered an upgrade completely (history)
  news      \* GitHub's list was read after the page's last answer (history)

server == <<cache, wait, fetch>>
create == <<host, post, task>>
vars   == <<github, server, view, page, panel, create, gone, news>>

-----------------------------------------------------------------------------
(* Versions: the three numbers, the identifiers of a prerelease, each a number *)
(* or a word, words being in the order of their numbers here, and whether the   *)
(* text begins with a "v".  Build metadata does not count and is left out.      *)

Versions == [core : {s \in Seq(Nat) : Len(s) = 3},
             pre : Seq([number : BOOLEAN, value : Nat]), v : BOOLEAN]

Sign(n) == IF n < 0 THEN -1 ELSE IF n > 0 THEN 1 ELSE 0

\* The first place where two sequences are not alike.
FirstDifference(s, t) ==
  Min({i \in 1..(Len(s) + Len(t) + 1) :
         i > Len(s) \/ i > Len(t) \/ s[i] # t[i]})

\* Identifiers of prereleases: a number comes before a word.
CompareIdentifiers(x, y) ==
  IF x.number = y.number THEN Sign(x.value - y.value) ELSE IF x.number THEN -1 ELSE 1

\* The version that is no prerelease, or has more identifiers, is the later one.
ComparePre(p, q) ==
  IF p = <<>> \/ q = <<>> THEN IF p # <<>> THEN -1 ELSE IF q # <<>> THEN 1 ELSE 0
  ELSE LET i == FirstDifference(p, q) IN
       IF p = q THEN 0
       ELSE IF i > Len(p) THEN -1 ELSE IF i > Len(q) THEN 1
       ELSE CompareIdentifiers(p[i], q[i])

\* compareVersions; Nothing for a version that is none
Compare(a, b) ==
  IF a = Unknown \/ b = Unknown THEN Nothing
  ELSE IF a.core = b.core THEN ComparePre(a.pre, b.pre)
  ELSE LET i == FirstDifference(a.core, b.core) IN Sign(a.core[i] - b.core[i])

\* stableAgentTag, stableRelease
Stable(v) == v # Unknown /\ v.v /\ v.pre = <<>>

\* agentVersionGreater, of stable tags
Greater(a, b) ==
  a.core # b.core /\
    LET i == FirstDifference(a.core, b.core) IN a.core[i] > b.core[i]

-----------------------------------------------------------------------------
(* Assets and hosts *)

Binaries == {"amd64", "arm64"}

Arch(kernelArch) ==
  CASE kernelArch \in {"x86_64", "amd64"} -> "amd64"
    [] kernelArch \in {"aarch64", "arm64"} -> "arm64"
    [] OTHER -> Nothing

\* The page looks at the system in any case, the Monitor at "linux" only.
Linux(h) == h.os \in {"linux", "Linux"}

BinaryAsset(h) == IF Linux(h) THEN Arch(h.arch) ELSE Nothing

Assets == Binaries \cup {"bootstrap.sh", "checksums.txt", "install.sh", "upgrade.sh"}

HostRecords == [version : Versions \cup {Unknown}, os : STRING, arch : STRING, bound : BOOLEAN]

\* interface AgentRelease, by its tag
Lists == UNION {[S -> SUBSET Assets] : S \in SUBSET Tags}

\* What a page gets, and what the Monitor keeps.
Answers == [list : Lists, stale : BOOLEAN]
Caches  == [list : Lists, age : 0..(TTL + 1) \cup {Nothing}, stale : BOOLEAN]

\* GitHub's list is finite.  Two releases with one number and other metadata are not
\* told apart.  The page waits no less than the cache keeps a list.
ASSUME ReleasesAssumption ==
  /\ Tags \subseteq Versions /\ IsFiniteSet(Tags) /\ Listings \subseteq Lists
  /\ \A t, u \in {s \in Tags : Stable(s)} : t = u \/ Greater(t, u) \/ Greater(u, t)
  /\ Reported \subseteq HostRecords /\ Opened \subseteq Reported /\ Long \subseteq Tags
  /\ TTL \in Nat \ {0} /\ Cooldown \in 1..TTL /\ Interval \in Nat /\ FetchTime \in Nat
  /\ Interval >= TTL
  /\ Unknown \notin Versions /\ Nothing \notin Nat \cup STRING \cup Lists \cup Answers

Needed(mode) == {"bootstrap.sh", "checksums.txt", mode}

\* releaseSupports(release, mode, binary)
Supports(list, t, mode, binary) ==
  /\ t \in DOMAIN list /\ Stable(t)
  /\ Needed(mode) \subseteq list[t]
  /\ IF binary = Nothing THEN list[t] \cap Binaries # {} ELSE binary \in list[t]

Complete(list, t, binary) == Supports(list, t, "upgrade.sh", binary)

\* Drafts are not in Listings; what GitHub marks a prerelease has such a tag.
Read(list) == Restrict(list, {t \in DOMAIN list : Stable(t)})

\* The list is sorted, so the first with a property is the newest with it.
Newest(S) ==
  LET first == {t \in S : \A u \in S \ {t} : Greater(t, u)} IN
  IF first = {} THEN Unknown ELSE CHOOSE t \in first : TRUE

\* latestVersion
Latest(list) == Newest(DOMAIN list)

NoList == Restrict(<<>>, {})
Older(age, most) == IF age = Nothing THEN Nothing ELSE Min({age + 1, most})
Lower(ticks) == IF ticks = 0 THEN 0 ELSE ticks - 1

Offline == [phase |-> "off", timer |-> 0, list |-> Nothing,
            failed |-> FALSE, chosen |-> FALSE, selected |-> Unknown,
            timed |-> FALSE, renewed |-> FALSE, answer |-> Nothing]

Pages == [phase : {"off", "sent", "served", "waiting"}, timer : 0..Interval,
          list : Lists \cup {Nothing}, failed : BOOLEAN, chosen : BOOLEAN,
          selected : Tags \cup {Unknown}, timed : BOOLEAN, renewed : BOOLEAN,
          answer : Answers \cup {Nothing}]
Posts == [target : Tags, answer : Caches \cup {Nothing},
          host : HostRecords \cup {Nothing}, checked : BOOLEAN]

TypeOK ==
  /\ github \in Listings /\ cache \in Caches /\ wait \in 0..TTL
  /\ fetch \in [list : Lists \cup {Nothing}, left : 0..FetchTime] \cup {Nothing}
  /\ view \in {"none", "hosts", "host"}
  /\ page \in Pages
  /\ page.phase = "served" <=> page.answer # Nothing
  /\ panel \in Answers \cup {Nothing}
  /\ host \in HostRecords
  /\ post \in Posts \cup {Nothing}
  /\ task \in Tags \cup {Nothing}
  /\ gone \in [Tags -> [Binaries -> 0..(TTL + FetchTime + 1)]] /\ news \in BOOLEAN

Init ==
  /\ github \in Listings
  /\ cache = [list |-> NoList, age |-> Nothing, stale |-> FALSE]
  /\ wait = 0 /\ fetch = Nothing
  /\ view = "none" /\ page = Offline /\ panel = Nothing
  /\ host \in Opened /\ post = Nothing /\ task = Nothing
  /\ gone = [t \in Tags |-> [b \in Binaries |->
               IF Complete(github, t, b) THEN 0 ELSE TTL + FetchTime + 1]]
  /\ news = FALSE

-----------------------------------------------------------------------------
(* GitHub and the clock *)

Publish ==
  /\ github' \in Listings \ {github}
  /\ gone' = [t \in Tags |-> [b \in Binaries |->
                IF Complete(github', t, b) THEN 0 ELSE gone[t][b]]]
  /\ UNCHANGED <<server, view, page, panel, create, news>>

\* A request to GitHub times out before it lasts longer than FetchTime.
Tick ==
  /\ fetch # Nothing => fetch.left > 0
  /\ cache' = [cache EXCEPT !.age = Older(@, TTL + 1)]
  /\ wait' = Lower(wait)
  /\ fetch' = IF fetch = Nothing THEN Nothing ELSE [fetch EXCEPT !.left = @ - 1]
  /\ page' = [page EXCEPT !.timer = Lower(@)]
  /\ post' = IF post = Nothing \/ post.answer = Nothing THEN post
             ELSE [post EXCEPT !.answer.age = Older(@, TTL + 1)]
  /\ gone' = [t \in Tags |-> [b \in Binaries |->
                IF Complete(github, t, b) THEN 0 ELSE Min({gone[t][b] + 1, TTL + FetchTime + 1})]]
  /\ UNCHANGED <<github, view, panel, host, task, news>>

-----------------------------------------------------------------------------
(* agentReleaseCache.get: the lock is held from FetchStarts to the end *)

FetchStarts ==
  /\ fetch = Nothing /\ wait = 0
  /\ fetch' = [list |-> Nothing, left |-> FetchTime]
  /\ UNCHANGED <<github, cache, wait, view, page, panel, create, gone, news>>

\* GitHub answers.
FetchReads ==
  /\ fetch # Nothing /\ fetch.list = Nothing
  /\ fetch' = [fetch EXCEPT !.list = Read(github)]
  /\ UNCHANGED <<github, cache, wait, view, page, panel, create, gone, news>>

FetchEnds ==
  /\ fetch # Nothing /\ fetch.list # Nothing
  /\ cache' = [list |-> fetch.list, age |-> 0, stale |-> FALSE]
  /\ wait' = TTL /\ fetch' = Nothing /\ news' = (view = "hosts")
  /\ UNCHANGED <<github, view, page, panel, create, gone>>

\* Mutant: the old list is served as if it were a new one.
FetchFailsSilently ==
  /\ fetch # Nothing
  /\ UNCHANGED cache
  /\ wait' = Cooldown /\ fetch' = Nothing
  /\ UNCHANGED <<github, view, page, panel, create, gone, news>>

FetchFails ==
  /\ fetch # Nothing
  /\ cache' = [cache EXCEPT !.stale = TRUE]
  /\ wait' = Cooldown /\ fetch' = Nothing
  /\ UNCHANGED <<github, view, page, panel, create, gone, news>>

\* A request gets the lock and finds the time of the next check not come.
Served == fetch = Nothing /\ wait > 0

-----------------------------------------------------------------------------
(* The releases in HostsPanel *)

\* The browser goes to another page.  (Bound: not while an upgrade is asked for or
\* under way.  The two pages have only the cache in common, which everybody may ask.)
Show(v) ==
  /\ post = Nothing /\ task = Nothing
  /\ view' = v /\ panel' = Nothing
  /\ page' = IF v = "hosts" THEN [Offline EXCEPT !.phase = "sent"] ELSE Offline
  /\ UNCHANGED <<github, server, create, gone>>
  /\ news' = FALSE

\* The effect runs again: the button, which is disabled while loading.
PageRetry ==
  /\ page.phase = "waiting"
  /\ page' = [page EXCEPT !.phase = "sent", !.timed = FALSE, !.renewed = FALSE]
  /\ UNCHANGED <<github, server, view, panel, create, gone, news>>

PageTimer ==
  /\ page.phase = "waiting" /\ page.timer = 0
  /\ page' = [page EXCEPT !.phase = "sent", !.timed = TRUE, !.renewed = FALSE]
  /\ UNCHANGED <<github, server, view, panel, create, gone, news>>

\* apiAgentReleases
ServePage ==
  /\ page.phase = "sent" /\ Served
  /\ page' = [page EXCEPT !.phase = "served", !.renewed = page.timed /\ news,
                          !.answer = [list |-> cache.list, stale |-> cache.stale]]
  /\ UNCHANGED <<github, server, view, panel, create, gone, news>>

\* Mutant: the page follows the newest release whatever was chosen.
DefaultAlways(list) == Newest({t \in DOMAIN list : Supports(list, t, "install.sh", Nothing)})

\* setAgentRelease
Default(list) ==
  IF page.chosen THEN page.selected
  ELSE Newest({t \in DOMAIN list : Supports(list, t, "install.sh", Nothing)})

PageAnswer ==
  /\ page.phase = "served"
  /\ page' = [page EXCEPT !.phase = "waiting", !.timer = Interval, !.answer = Nothing,
                          !.list = page.answer.list,
                          !.failed = page.answer.stale,   \* stale and error come together
                          !.selected = Default(page.answer.list)]
  /\ news' = FALSE
  /\ UNCHANGED <<github, server, view, panel, create, gone>>

\* Mutant: only an answer sets the timer.
PageFailsForGood ==
  /\ page.phase \in {"sent", "served"}
  /\ page' = [page EXCEPT !.phase = "off", !.answer = Nothing, !.failed = TRUE]
  /\ news' = FALSE
  /\ UNCHANGED <<github, server, view, panel, create, gone>>

PageFails ==
  /\ page.phase \in {"sent", "served"}
  /\ page' = [page EXCEPT !.phase = "waiting", !.timer = Interval, !.answer = Nothing,
                          !.failed = TRUE, !.renewed = FALSE]
  /\ news' = FALSE
  /\ UNCHANGED <<github, server, view, panel, create, gone>>

\* The administrator chooses a release of the list, or none.
Choose(t) ==
  /\ page.phase # "off"
  /\ t \in {Unknown} \cup (IF page.list = Nothing THEN {} ELSE DOMAIN page.list)
  /\ page' = [page EXCEPT !.chosen = TRUE, !.selected = t]
  /\ UNCHANGED <<github, server, view, panel, create, gone, news>>

\* The row of a host offers the command that upgrades it.
CanUpgrade(list, t, h) ==
  /\ h.bound /\ BinaryAsset(h) # Nothing
  /\ Supports(list, t, "upgrade.sh", BinaryAsset(h))
  /\ Compare(h.version, t) = -1

\* versionStatus
Status(current, latest, uncertain) ==
  IF current = Unknown THEN "unknown version"
  ELSE IF uncertain \/ Compare(current, latest) = Nothing THEN "unknown releases"
  ELSE IF Compare(current, latest) < 0 THEN "older"
  ELSE IF Compare(current, latest) = 0 THEN "newest" ELSE "newer"

-----------------------------------------------------------------------------
(* An upgrade of the host, in HostControls and in the Monitor *)

\* The panel reads the releases once.
PanelLoads ==
  /\ view = "host" /\ panel = Nothing /\ Served
  /\ panel' = [list |-> cache.list, stale |-> cache.stale]
  /\ UNCHANGED <<github, server, view, page, create, gone, news>>

\* Mutant: a host that has the version is offered it again.
OffersSame(list, h) ==
  IF BinaryAsset(h) = Nothing THEN {}
  ELSE {t \in DOMAIN list : /\ Supports(list, t, "upgrade.sh", BinaryAsset(h))
                            /\ Compare(t, h.version) \in {0, 1}}

\* versions
Offers(list, h) ==
  IF BinaryAsset(h) = Nothing THEN {}
  ELSE {t \in DOMAIN list : /\ Supports(list, t, "upgrade.sh", BinaryAsset(h))
                            /\ Compare(t, h.version) = 1}

\* target: the version chosen, or the newest; what the page knows of the host may be
\* what it said earlier.
Post ==
  /\ view = "host" /\ panel # Nothing /\ ~panel.stale /\ post = Nothing
  /\ \E known \in Opened \cup {host} : \E t \in Offers(panel.list, known) :
       post' = [target |-> t, answer |-> Nothing, host |-> Nothing, checked |-> FALSE]
  /\ UNCHANGED <<github, server, view, page, panel, host, task, gone, news>>

\* The host has another agent, which sends its system_info.
HostReports ==
  /\ post # Nothing /\ host' \in Opened \ {host}
  /\ UNCHANGED <<github, server, view, page, panel, post, task, gone, news>>

\* apiMaintenanceCreate asks for the releases before it takes the locks.
PostListed ==
  /\ post # Nothing /\ post.answer = Nothing /\ post.host = Nothing /\ Served
  /\ post' = [post EXCEPT !.answer = cache]
  /\ UNCHANGED <<github, server, view, page, panel, host, task, gone, news>>

\* Under the locks, with the host online: GetHost.
PostReads ==
  /\ post # Nothing /\ post.answer # Nothing /\ post.host = Nothing /\ host.os = "linux"
  /\ post' = [post EXCEPT !.host = host]
  /\ UNCHANGED <<github, server, view, page, panel, host, task, gone, news>>

\* Mutant: what was fresh when it was asked for is fresh.
FreshWhenAsked(answer) == ~answer.stale /\ answer.age # Nothing

Fresh(answer) == ~answer.stale /\ answer.age # Nothing /\ answer.age <= TTL

\* validMaintenanceUpgrade
ValidUpgrade(h, t, list) ==
  /\ t \notin Long /\ Stable(t) /\ Stable(h.version) /\ Greater(t, h.version)
  /\ Arch(h.arch) # Nothing /\ t \in DOMAIN list
  /\ Needed("upgrade.sh") \cup {Arch(h.arch)} \subseteq list[t]

\* The clock is read, and the release is looked for in the list.
PostPasses ==
  /\ post # Nothing /\ post.answer # Nothing /\ post.host # Nothing
  /\ Fresh(post.answer) /\ ValidUpgrade(post.host, post.target, post.answer.list)
  /\ post' = [post EXCEPT !.checked = TRUE, !.answer = Nothing]   \* not needed any more
  /\ UNCHANGED <<github, server, view, page, panel, host, task, gone, news>>

\* CreateMaintenance; tasks of the host that have expired are no more (Maintenance).
CreateTask ==
  /\ post # Nothing /\ post.checked /\ task = Nothing
  /\ task' = post.target /\ post' = Nothing
  /\ UNCHANGED <<github, server, view, page, panel, host, gone, news>>

\* An error status, or the request is lost.
RefuseTask ==
  /\ post # Nothing /\ post' = Nothing
  /\ UNCHANGED <<github, server, view, page, panel, host, task, gone, news>>

\* The upgrade has failed, or the host reports the new version.
TaskEnds ==
  /\ task # Nothing /\ task' = Nothing
  /\ host' \in {host, [host EXCEPT !.version = task]}
  /\ UNCHANGED <<github, server, view, page, panel, post, gone, news>>

-----------------------------------------------------------------------------
Next ==
  \/ Publish \/ Tick
  \/ FetchStarts \/ FetchReads \/ FetchEnds \/ FetchFails
  \/ \E v \in {"none", "hosts", "host"} \ {view} : Show(v)
  \/ PageRetry \/ PageTimer \/ ServePage \/ PageAnswer \/ PageFails
  \/ \E t \in Tags \cup {Unknown} : Choose(t)
  \/ PanelLoads \/ Post \/ HostReports
  \/ PostListed \/ PostReads \/ PostPasses \/ CreateTask \/ RefuseTask
  \/ TaskEnds

Spec == Init /\ [][Next]_vars

\* Time passes, requests are served and answered in the end, whoever else asks, and
\* GitHub answers now and then.
Fairness ==
  /\ WF_vars(Tick) /\ WF_vars(PageTimer)
  /\ WF_vars(page.phase = "sent" /\ FetchStarts)
  /\ SF_vars(FetchReads) /\ SF_vars(FetchEnds)
  /\ SF_vars(ServePage) /\ WF_vars(PageAnswer)

FairSpec == Spec /\ Fairness

-----------------------------------------------------------------------------
(* Properties *)

\* What the page asks for by its timer is news: a list that the Monitor has read
\* from GitHub after the answer before, or one the page calls uncertain.  (The page
\* waits as long as the cache keeps a list, from the time it has the answer:
\* DESIGN.md:110.)  So a host is said to be up to date only by a list that is no
\* older than the one before.
ClaimsAreNews ==
  \A h \in Reported :
    LET uncertain == page.phase \in {"sent", "served"} \/ page.failed IN
    /\ view = "hosts" /\ page.phase = "waiting" /\ page.timed
    /\ Status(h.version, Latest(page.list), uncertain) \in {"older", "newest", "newer"}
    => page.renewed

\* A choice of the administrator stays, and without one the page follows the
\* newest release that can be installed: an answer on its way does not undo it.
SelectionFollows ==
  [][ /\ page.chosen /\ page'.chosen /\ page'.phase # page.phase =>
           page'.selected = page.selected
      /\ page'.list # Nothing /\ ~page'.chosen =>
           \A t \in DOMAIN page'.list :
             Supports(page'.list, t, "install.sh", Nothing) =>
               page'.selected = t \/ Compare(page'.selected, t) = 1 ]_page

\* The Monitor creates no upgrade to a release that GitHub had withdrawn, or taken an
\* asset of, longer ago than a list may be kept when the release was looked for, however
\* long the request had waited for the locks; and none to a version that was not newer
\* than what the host said when it was read.
UpgradesAreCurrent ==
  [][ /\ post # Nothing /\ post' # Nothing /\ ~post.checked /\ post'.checked =>
           gone[post'.target][Arch(post'.host.arch)] <= TTL + FetchTime
      /\ task = Nothing /\ task' # Nothing =>
           /\ post # Nothing /\ post.checked /\ post.target = task'
           /\ Compare(task', post.host.version) = 1 ]_<<post, task>>

\* Not kept, and not checked: the target is newer than what the host says when the task
\* is created.  The host may have another agent by then, and the agent decides.
UpgradesAreNewer ==
  [][ task = Nothing /\ task' # Nothing => Compare(task', host.version) = 1 ]_task

\* What the two pages offer for a host is what the Monitor, with its own comparison
\* of versions, would accept from the same list: for a host that has reported a
\* stable tag and "linux", and a tag of no more than 64 letters.  (Without that the
\* pages offer more, see the README.)
OffersAreValid ==
  \A h \in Reported :
    Stable(h.version) /\ h.os = "linux" =>
      /\ panel # Nothing => \A t \in Offers(panel.list, h) \ Long : ValidUpgrade(h, t, panel.list)
      /\ page.list # Nothing /\ page.selected \notin Long /\ CanUpgrade(page.list, page.selected, h)
           => ValidUpgrade(h, page.selected, page.list)

\* Not kept, and not checked: what HostControls offers would be accepted whatever the
\* host has reported.  A prerelease or "Linux" is offered an upgrade and refused, and
\* so is a release with a long tag.
OffersAreAccepted ==
  \A h \in Reported : panel # Nothing =>
    \A t \in Offers(panel.list, h) : h.os = "linux" /\ ValidUpgrade(h, t, panel.list)

\* A page that stays open shows what GitHub lists in the end, whatever requests have
\* failed before, and GitHub may still fail.
Steady == view = "hosts"
ReleasesAreShown ==
  (<>[]Steady /\ <>[][FALSE]_github /\ <>[][~PageFails]_vars)
    => <>[](page.list = Read(github))
=============================================================================
