-------------------------- MODULE MaintenancePanel --------------------------
(***************************************************************************)
(* The controls of remote maintenance in the browser                          *)
(* (frontend/src/pages/maintenance/Maintenance.tsx): HostControls on the page  *)
(* of one host, MaintenanceList, the page of all tasks, and TaskDetail, the      *)
(* log of a selected task on either of them.  They poll the                    *)
(* Monitor, which is here what MaintenancePromise says of it; another          *)
(* administrator may use it too.                                              *)
(*                                                                         *)
(* A callback of the browser is one step.  A request is a step when it is      *)
(* sent, one when the Monitor serves it and one when the answer is handled; it  *)
(* may fail in between, and a create request whose answer is lost may be        *)
(* served later all the same, even after the page was left.  Serving a read of  *)
(* the log is one step with handling its answer: the log only grows, and nobody *)
(* else looks at the cursor, so an older answer is one handled earlier.         *)
(*                                                                         *)
(* The counter "revision" is not modelled as a number: a poll is fresh as long  *)
(* as the counter is what it was when the poll started.                        *)
(***************************************************************************)
EXTENDS Naturals, Sequences, FiniteSets

CONSTANTS
  Host,      \* the host whose page it is
  Tasks,     \* ids of tasks; a create request is known by the id its task gets
  Others,    \* those that another administrator asks for
  Outcomes,  \* what hosts record about a task they have accepted
  MaxLog,    \* bound: entries of the log of a task
  MaxElsewhere,  \* bound: tasks of other hosts
  Page,      \* events in one answer (200 in server/maintenance.go)
  ListPage,  \* tasks in one answer (200, too)
  None

ASSUME PanelAssumption ==
  /\ None \notin Tasks /\ Others \subseteq Tasks
  /\ Outcomes \subseteq {"running", "verifying", "unknown", "succeeded", "failed"}
  /\ MaxLog \in Nat /\ MaxElsewhere \in Nat
  /\ Page \in Nat \ {0} /\ ListPage \in Nat \ {0}

VARIABLES
  fate, place, log, known,  \* the Monitor's tasks (MaintenancePromise)
  rows,        \* the tasks in the order of their rowids, None for those of other hosts
  ready,       \* the agent is connected and supports maintenance
  posts,       \* the create requests
  mounted,     \* the panel is on the screen
  online,      \* host.online, which the page passes down
  target,      \* the list of releases has come and has a version for the host
  state,       \* what the panel knows of the host
  poll,        \* the polling of the host
  confirm,     \* the kind of task in the dialog
  mine,        \* the create request under way (submitting, pending)
  uncertain,   \* a create request failed
  asked,       \* create requests of this panel since it was mounted (history)
  selected,    \* the task whose log is shown
  shown,       \* numbers of the events on the screen
  after,       \* the cursor
  read,        \* the polling of the log
  list         \* the page of all tasks; walked: rowids shown since its first page

monitor == <<fate, place, log, known, rows>>
panel   == <<mounted, online, target, state, poll, confirm, mine, uncertain, asked>>
detail  == <<selected, shown, after, read>>
vars    == <<monitor, ready, posts, panel, detail, list>>

Monitor == INSTANCE MaintenancePromise WITH Hosts <- {Host}

\* interface MaintenanceKind
Kinds == {"agent_upgrade", "system_update"}

\* interface HostMaintenance; open: tasks that have not ended
HostStates == [usable : BOOLEAN, tasks : SUBSET Tasks, open : SUBSET Tasks]

Off   == [phase |-> "off", fresh |-> FALSE, answer |-> None]
Begun == [phase |-> "sent", fresh |-> TRUE, answer |-> None]

NoList == [phase |-> "off", before |-> 0, next |-> 0, tasks |-> {}, walked |-> {}]

Closed(t) == fate[t] = "expired" \/ Monitor!Resolved(t)

TypeOK ==
  /\ fate \in [Tasks -> {"none", "open", "expired"}]
  /\ place \in [Tasks -> {Host, None}]
  /\ log \in [Tasks -> Seq(Monitor!Entries)] /\ known \in [Tasks -> Nat]
  /\ ready \in BOOLEAN
  /\ posts \in [Tasks -> {"unused", "sent", "created", "refused"}]
  /\ mounted \in BOOLEAN /\ online \in BOOLEAN /\ uncertain \in BOOLEAN
  /\ target \in BOOLEAN
  /\ state \in HostStates \cup {None}
  /\ poll \in [phase : {"off", "sent", "served", "waiting"}, fresh : BOOLEAN,
               answer : HostStates \cup {None}]
  /\ confirm \in Kinds \cup {None}
  /\ mine \in Tasks \cup {None} /\ asked \subseteq Tasks
  /\ selected \in Tasks \cup {None}
  /\ shown \in Seq(Nat) /\ after \in Nat
  /\ read \in {"off", "sent", "waiting"}
  /\ rows \in Seq(Tasks \cup {None})
  /\ list \in [phase : {"off", "sent", "waiting", "done"}, before : Nat, next : Nat,
               tasks : SUBSET (1..Len(rows)), walked : SUBSET (1..Len(rows))]

Init ==
  /\ Monitor!Init /\ ready \in BOOLEAN /\ rows = <<>> /\ list = NoList
  /\ posts = [t \in Tasks |-> "unused"]
  /\ mounted = FALSE /\ online = FALSE /\ target = FALSE
  /\ state = None /\ poll = Off /\ confirm = None
  /\ mine = None /\ uncertain = FALSE /\ asked = {}
  /\ selected = None /\ shown = <<>> /\ after = 0 /\ read = "off"

-----------------------------------------------------------------------------
(* The Monitor, the agent and another administrator *)

Toggle ==
  /\ ready' = ~ready
  /\ UNCHANGED <<monitor, posts, panel, detail, list>>

Work ==
  /\ \/ \E t \in Tasks :
          \/ Monitor!Accept(t) \/ Monitor!Learn(t)
          \/ \E e \in Outcomes : Len(log[t]) < MaxLog /\ Monitor!Work(t, e)
     \/ \E S \in SUBSET Tasks \ {{}} : Monitor!Expire(S)
  /\ UNCHANGED rows
  /\ UNCHANGED <<ready, posts, panel, detail, list>>

Inserts(t) == Monitor!Submit(t, Host) /\ rows' = Append(rows, t)

OtherCreates(t) ==
  /\ t \in Others /\ posts[t] = "unused" /\ ready /\ Inserts(t)
  /\ posts' = [posts EXCEPT ![t] = "created"]
  /\ UNCHANGED <<ready, panel, detail, list>>

\* A task is asked for on another host.
CreatedElsewhere ==
  /\ Cardinality({i \in DOMAIN rows : rows[i] = None}) < MaxElsewhere
  /\ rows' = Append(rows, None)
  /\ UNCHANGED <<fate, place, log, known, ready, posts, panel, detail, list>>

\* A create request is served: "created" or an error status.
ServePost(t) ==
  /\ posts[t] = "sent" /\ ready /\ Inserts(t)
  /\ posts' = [posts EXCEPT ![t] = "created"]
  /\ UNCHANGED <<ready, panel, detail, list>>

RefusePost(t) ==
  /\ posts[t] = "sent"
  /\ posts' = [posts EXCEPT ![t] = "refused"]
  /\ UNCHANGED <<monitor, ready, panel, detail, list>>

ServePoll ==
  /\ poll.phase = "sent"
  /\ poll' = [poll EXCEPT
       !.phase = "served",
       !.answer = [usable |-> ready, tasks |-> {t \in Tasks : fate[t] # "none"},
                   open |-> {t \in Tasks : fate[t] # "none" /\ ~Closed(t)}]]
  /\ UNCHANGED <<monitor, ready, posts, mounted, online, target, state, confirm,
                 mine, uncertain, asked, detail, list>>

-----------------------------------------------------------------------------
(* HostControls *)

CloseDetail == selected' = None /\ shown' = <<>> /\ after' = 0 /\ read' = "off"

\* The page of the host is opened, or left; requests under way are aborted.
Mount ==
  /\ ~mounted /\ list.phase = "off" /\ mounted' = TRUE /\ online' \in BOOLEAN
  /\ poll' = Begun
  /\ UNCHANGED <<monitor, ready, posts, target, state, confirm, mine, uncertain,
                 asked, detail, list>>

Unmount ==
  /\ mounted /\ mounted' = FALSE /\ online' = FALSE /\ target' = FALSE
  /\ state' = None /\ poll' = Off /\ confirm' = None
  /\ mine' = None /\ uncertain' = FALSE /\ asked' = {}
  /\ CloseDetail
  /\ UNCHANGED <<monitor, ready, posts, list>>

\* The property changes with an event of the stream.
Props ==
  /\ mounted /\ online' = ~online
  /\ UNCHANGED <<monitor, ready, posts, mounted, target, state, poll, confirm, mine,
                 uncertain, asked, detail, list>>

\* The list of releases comes once, with a version for this host; without one, or
\* when it fails, nothing changes.
Releases ==
  /\ mounted /\ ~target /\ target' = TRUE
  /\ UNCHANGED <<monitor, ready, posts, mounted, online, state, poll, confirm, mine,
                 uncertain, asked, detail, list>>

\* Mutant: an answer is taken when no request is under way now.
AppliesNow == mine = None

\* started === revision.current && !submitting.current
Applies == poll.fresh /\ mine = None

PollAnswer ==
  /\ poll.phase = "served"
  /\ state' = IF Applies THEN poll.answer ELSE state
  /\ poll' = [Off EXCEPT !.phase = "waiting"]
  /\ UNCHANGED <<monitor, ready, posts, mounted, online, target, confirm, mine,
                 uncertain, asked, detail, list>>

\* Mutant: a failure ends the polling.
PollFailsForGood ==
  /\ poll.phase \in {"sent", "served"}
  /\ state' = IF state = None THEN None ELSE [state EXCEPT !.usable = FALSE]
  /\ poll' = Off
  /\ UNCHANGED <<monitor, ready, posts, mounted, online, target, confirm, mine,
                 uncertain, asked, detail, list>>

PollFails ==
  /\ poll.phase \in {"sent", "served"}
  /\ state' = IF state = None THEN None ELSE [state EXCEPT !.usable = FALSE]
  /\ poll' = [Off EXCEPT !.phase = "waiting"]
  /\ UNCHANGED <<monitor, ready, posts, mounted, online, target, confirm, mine,
                 uncertain, asked, detail, list>>

PollTimer ==
  /\ poll.phase = "waiting"
  /\ poll' = Begun
  /\ UNCHANGED <<monitor, ready, posts, mounted, online, target, state, confirm, mine,
                 uncertain, asked, detail, list>>

Blocked == state = None \/ ~state.usable \/ ~online \/ state.open # {}
Disabled == Blocked \/ mine # None \/ uncertain
Lacking(kind) == kind = "agent_upgrade" /\ ~target

\* A button opens the dialog, which may be closed again.
Ask(kind) ==
  /\ mounted /\ confirm = None /\ ~Disabled /\ ~Lacking(kind)
  /\ confirm' = kind
  /\ UNCHANGED <<monitor, ready, posts, mounted, online, target, state, poll, mine,
                 uncertain, asked, detail, list>>

\* Cancelled, or confirmed when the controls are disabled by now.
Dismiss ==
  /\ confirm # None /\ confirm' = None
  /\ UNCHANGED <<monitor, ready, posts, mounted, online, target, state, poll, mine,
                 uncertain, asked, detail, list>>

Create(t) ==
  /\ confirm # None /\ ~Disabled /\ ~Lacking(confirm)
  /\ t \notin Others /\ posts[t] = "unused"
  /\ confirm' = None
  /\ mine' = t /\ asked' = asked \cup {t}
  /\ posts' = [posts EXCEPT ![t] = "sent"]
  /\ poll' = [poll EXCEPT !.fresh = FALSE]
  /\ UNCHANGED <<monitor, ready, mounted, online, target, state, uncertain, detail, list>>

\* Mutant: the component is kept.
OpenKept(t) ==
  /\ selected' = t /\ UNCHANGED <<shown, after>>
  /\ read' = "sent"

\* The component of the log is a new one for another task (its key).
Open(t) ==
  IF t = selected THEN UNCHANGED detail
  ELSE /\ selected' = t /\ shown' = <<>> /\ after' = 0
       /\ read' = "sent"

Created ==
  /\ mine # None /\ posts[mine] = "created"
  /\ state' = IF state = None THEN None
              ELSE [state EXCEPT !.tasks = @ \cup {mine}, !.open = @ \cup {mine}]
  /\ Open(mine)
  /\ mine' = None /\ poll' = [poll EXCEPT !.fresh = FALSE]
  /\ UNCHANGED <<monitor, ready, posts, mounted, online, target, confirm, uncertain, asked, list>>

\* Refused, or the answer does not arrive: both are an error.
CreateFails ==
  /\ mine # None /\ uncertain' = TRUE
  /\ mine' = None /\ poll' = [poll EXCEPT !.fresh = FALSE]
  /\ UNCHANGED <<monitor, ready, posts, mounted, online, target, state, confirm,
                 asked, detail, list>>

-----------------------------------------------------------------------------
(* TaskDetail *)

Select(t) ==
  /\ state # None /\ t \in state.tasks /\ Open(t)
  /\ UNCHANGED <<monitor, ready, posts, panel, list>>

\* apiMaintenanceDetail: nextAfter and hasMore
Last == IF known[selected] > after + Page THEN after + Page ELSE known[selected]
More == Last < known[selected] /\ Last > after

\* Events that are on the screen already are left out; the others stay in order.
Unseen == {s \in after + 1 .. Last : \A i \in 1..Len(shown) : shown[i] # s}
Fresh == [i \in 1..Cardinality(Unseen) |->
            CHOOSE s \in Unseen : Cardinality({u \in Unseen : u < s}) = i - 1]

\* Mutant: after a full page the next one waits for no timer, and for nothing else.
ReadAnswerStuck ==
  /\ read = "sent"
  /\ shown' = shown \o Fresh /\ after' = Last
  /\ read' = IF Last > after THEN "sent" ELSE "off"
  /\ UNCHANGED <<monitor, ready, posts, panel, selected, list>>

ReadAnswer ==
  /\ read = "sent"
  /\ shown' = shown \o Fresh /\ after' = Last
  /\ read' = IF More THEN "sent" ELSE "waiting"
  /\ UNCHANGED <<monitor, ready, posts, panel, selected, list>>

ReadFails ==
  /\ read = "sent"
  /\ read' = "waiting"
  /\ UNCHANGED <<monitor, ready, posts, panel, selected, shown, after, list>>

ReadTimer ==
  /\ read = "waiting"
  /\ read' = "sent"
  /\ UNCHANGED <<monitor, ready, posts, panel, selected, shown, after, list>>

-----------------------------------------------------------------------------
(* MaintenanceList and its pages, each polled until it has come once; the first *)
(* page goes on.  Serving and handling are one step, as for the log: the table   *)
(* only grows, and a page shows one answer after the other.                     *)

Top(before) == IF before = 0 THEN Len(rows) ELSE before - 1

\* Mutant: the cursor is the row that was read to see whether there are more.
CursorBeyond(before) == IF Top(before) > ListPage THEN Top(before) - ListPage ELSE 0

\* nextBefore: the last row of an answer that is not the last one
Cursor(before) == IF Top(before) > ListPage THEN Top(before) - ListPage + 1 ELSE 0

\* ListMaintenance: rowid < before, in descending order, no more than a page
PageOf(before) == {i \in 1..Top(before) : i + ListPage > Top(before)}

EnterList ==
  /\ ~mounted /\ list.phase = "off"
  /\ list' = [NoList EXCEPT !.phase = "sent"]
  /\ UNCHANGED <<monitor, ready, posts, panel, detail>>

LeaveList ==
  /\ list.phase # "off" /\ list' = NoList
  /\ CloseDetail
  /\ UNCHANGED <<monitor, ready, posts, panel>>

ListAnswer ==
  /\ list.phase = "sent"
  /\ list' = [list EXCEPT !.phase = IF list.before = 0 THEN "waiting" ELSE "done",
                          !.next = Cursor(list.before), !.tasks = PageOf(list.before),
                          !.walked = @ \cup PageOf(list.before)]
  /\ UNCHANGED <<monitor, ready, posts, panel, detail>>

ListFails ==
  /\ list.phase = "sent" /\ list' = [list EXCEPT !.phase = "waiting"]
  /\ UNCHANGED <<monitor, ready, posts, panel, detail>>

ListTimer ==
  /\ list.phase = "waiting" /\ list' = [list EXCEPT !.phase = "sent"]
  /\ UNCHANGED <<monitor, ready, posts, panel, detail>>

\* Another page is another component (its key), and so is its log.
NextPage ==
  /\ list.next # 0
  /\ list' = [NoList EXCEPT !.phase = "sent", !.before = list.next, !.walked = list.walked]
  /\ CloseDetail
  /\ UNCHANGED <<monitor, ready, posts, panel>>

FirstPage ==
  /\ list.before # 0
  /\ list' = [NoList EXCEPT !.phase = "sent"]
  /\ CloseDetail
  /\ UNCHANGED <<monitor, ready, posts, panel>>

\* The logs of tasks of other hosts are not followed.
SelectRow(i) ==
  /\ i \in list.tasks
  /\ IF rows[i] = None THEN CloseDetail ELSE Open(rows[i])
  /\ UNCHANGED <<monitor, ready, posts, panel, list>>

-----------------------------------------------------------------------------
Next ==
  \/ Toggle \/ CreatedElsewhere \/ Work \/ ServePoll
  \/ \E t \in Tasks : OtherCreates(t) \/ ServePost(t) \/ RefusePost(t)
  \/ Mount \/ Unmount \/ Props \/ Releases
  \/ PollAnswer \/ PollFails \/ PollTimer
  \/ \E kind \in Kinds : Ask(kind)
  \/ Dismiss \/ Created \/ CreateFails
  \/ \E t \in Tasks : Create(t) \/ Select(t)
  \/ ReadAnswer \/ ReadFails \/ ReadTimer
  \/ EnterList \/ LeaveList \/ ListAnswer \/ ListFails \/ ListTimer
  \/ NextPage \/ FirstPage \/ \E i \in DOMAIN rows : SelectRow(i)

Spec == Init /\ [][Next]_vars

\* Timers fire and requests are handled.  A network that fails again and again
\* still lets a request through now and then.
Fairness ==
  /\ WF_vars(PollTimer) /\ SF_vars(ServePoll) /\ SF_vars(PollAnswer)
  /\ WF_vars(ReadTimer) /\ SF_vars(ReadAnswer)
  /\ WF_vars(Created \/ CreateFails)

FairSpec == Spec /\ Fairness

-----------------------------------------------------------------------------
(* Properties *)

Enabled == mounted /\ ~Disabled

\* While the buttons can be pressed, every task this panel has asked for was
\* created and has ended: no answer is outstanding or was lost, and no answer of
\* a poll that began earlier has made it forget one.  (The test "locks uncertain
\* requests without retrying" is one case.)
EnabledMeansSettled ==
  Enabled => \A t \in asked : posts[t] = "created" /\ Closed(t)

\* The screen shows the first events of the selected task, each once and in
\* order, whatever was selected before and however often reading failed.
DetailIsLog ==
  /\ shown = [i \in 1..after |-> i]
  /\ selected # None => after <= known[selected]

\* The controls of a host that stays online, supported and without a task come
\* back, unless a request has failed: whatever polls failed before.
Free == mounted /\ ready /\ online /\ ~uncertain /\ \A t \in Tasks : fate[t] = "none" \/ Closed(t)
ControlsReturn == (<>[]Free) => []<>(Enabled \/ mine # None)

\* Whoever goes from page to page has seen, when a page is there, every task between
\* the first one seen and the last of the page, and on the last page all of them:
\* tasks created meanwhile push none over the edge of a page.
PagesLeaveNoGap ==
  \A j \in DOMAIN rows, k \in list.walked :
    /\ j < k
    /\ (\E i \in list.tasks : i < j) \/ (list.phase = "done" /\ list.next = 0)
    => j \in list.walked

\* The log on the screen catches up with the Monitor's again and again, page after
\* page and however often reading fails, unless other tasks are selected all the time.
DetailCatchesUp ==
  \/ []<>(selected = None \/ after = known[selected])
  \/ []<><<selected' # selected>>_selected
=============================================================================
