----------------------- MODULE MaintenancePanelProofs -----------------------
(***************************************************************************)
(* MaintenancePanel, for every number of tasks and all sizes of pages: the     *)
(* controls are never enabled in ignorance of a task the panel has asked for,  *)
(* and going from page to page misses no task.                                *)
(***************************************************************************)
EXTENDS MaintenancePanel, SequenceTheorems, FiniteSetTheorems, TLAPS

\* The types that the proofs need.
PanelTypes ==
  /\ fate \in [Tasks -> {"none", "open", "expired"}]
  /\ log \in [Tasks -> Seq(Monitor!Entries)] /\ known \in [Tasks -> Nat]
  /\ posts \in [Tasks -> {"unused", "sent", "created", "refused"}] /\ ready \in BOOLEAN
  /\ state \in HostStates \cup {None}
  /\ poll \in [phase : {"off", "sent", "served", "waiting"}, fresh : BOOLEAN,
               answer : HostStates \cup {None}]
  /\ poll.phase = "served" => poll.answer \in HostStates
  /\ mine \in Tasks \cup {None} /\ asked \subseteq Tasks

\* The panel knows of a task it has asked for, or that it does not know.
Knows(t) ==
  uncertain \/ (posts[t] = "created" /\ (Closed(t) \/ state = None \/ t \in state.open))

\* What is on the screen and what a fresh answer says leaves out no open task that
\* this panel has asked for, and tasks that were created are known to the Monitor.
AskedInv ==
  /\ \A t \in Tasks : posts[t] = "created" => fate[t] # "none"
  /\ \A t \in asked : t # mine => Knows(t)
  /\ (poll.phase = "served" /\ poll.fresh) =>
       \A t \in asked : t # mine => uncertain \/ Closed(t) \/ t \in poll.answer.open

ControlInv == PanelTypes /\ AskedInv

\* The rowids that whoever goes from page to page has passed: those above the
\* oldest task on the screen, from the next cursor or the present one on, or all.
Passed(j) ==
  \/ \E i \in list.tasks : i < j
  \/ list.next # 0 /\ j >= list.next
  \/ list.before # 0 /\ j >= list.before
  \/ list.phase = "done" /\ list.next = 0

WalkInv ==
  /\ rows \in Seq(Tasks \cup {None})
  /\ list \in [phase : {"off", "sent", "waiting", "done"}, before : 0..Len(rows),
               next : 0..Len(rows), tasks : SUBSET (1..Len(rows)),
               walked : SUBSET (1..Len(rows))]
  /\ \A j \in 1..Len(rows), k \in list.walked : j < k /\ Passed(j) => j \in list.walked

-----------------------------------------------------------------------------
(* The controls *)

\* Every reachable state satisfies the first part.
LEMMA InitControl == Init => ControlInv
BY PanelAssumption DEF Init, Monitor!Init, Off, ControlInv, PanelTypes, AskedInv

\* Logs stay logs.
LEMMA LogTypes ==
  ASSUME PanelTypes, Work
  PROVE  /\ log' \in [Tasks -> Seq(Monitor!Entries)] /\ known' \in [Tasks -> Nat]
         /\ fate' \in [Tasks -> {"none", "open", "expired"}]
<1> USE DEF PanelTypes
<1>1. ASSUME NEW t \in Tasks, Monitor!Accept(t)
      PROVE  /\ log' \in [Tasks -> Seq(Monitor!Entries)] /\ known' \in [Tasks -> Nat]
             /\ fate' \in [Tasks -> {"none", "open", "expired"}]
  <2>1. <<"accepted">> \in Seq(Monitor!Entries)
    BY DEF Monitor!Entries
  <2> QED
    BY <1>1, <2>1 DEF Monitor!Accept
<1>2. ASSUME NEW t \in Tasks, Monitor!Learn(t)
      PROVE  /\ log' \in [Tasks -> Seq(Monitor!Entries)] /\ known' \in [Tasks -> Nat]
             /\ fate' \in [Tasks -> {"none", "open", "expired"}]
  BY <1>2 DEF Monitor!Learn
<1>3. ASSUME NEW t \in Tasks, NEW e \in Outcomes, Monitor!Work(t, e)
      PROVE  /\ log' \in [Tasks -> Seq(Monitor!Entries)] /\ known' \in [Tasks -> Nat]
             /\ fate' \in [Tasks -> {"none", "open", "expired"}]
  <2>1. e \in Monitor!Entries
    BY PanelAssumption DEF Monitor!Entries
  <2>2. Append(log[t], e) \in Seq(Monitor!Entries)
    BY <2>1, AppendProperties
  <2> QED
    BY <1>3, <2>2 DEF Monitor!Work
<1>4. ASSUME NEW S \in SUBSET Tasks, Monitor!Expire(S)
      PROVE  /\ log' \in [Tasks -> Seq(Monitor!Entries)] /\ known' \in [Tasks -> Nat]
             /\ fate' \in [Tasks -> {"none", "open", "expired"}]
  BY <1>4 DEF Monitor!Expire
<1> QED
  BY <1>1, <1>2, <1>3, <1>4 DEF Work

\* A task that has ended has ended for good, and one that was created stays so.
LEMMA FatesStay ==
  ASSUME PanelTypes, [Next]_vars, NEW t \in Tasks
  PROVE  /\ Closed(t) => Closed(t)'
         /\ fate[t] # "none" => fate'[t] # "none"
<1> USE DEF PanelTypes, Closed, Monitor!Resolved, Monitor!Over
<1>1. CASE UNCHANGED <<fate, log, known>>
  BY <1>1
<1>2. ASSUME NEW u \in Tasks, Inserts(u)
      PROVE  /\ Closed(t) => Closed(t)'
             /\ fate[t] # "none" => fate'[t] # "none"
  BY <1>2 DEF Inserts, Monitor!Submit
<1>3. CASE Work
  <2>1. ASSUME NEW u \in Tasks, Monitor!Accept(u)
        PROVE  /\ Closed(t) => Closed(t)'
               /\ fate[t] # "none" => fate'[t] # "none"
    BY <2>1 DEF Monitor!Accept
  <2>2. ASSUME NEW u \in Tasks, Monitor!Learn(u)
        PROVE  /\ Closed(t) => Closed(t)'
               /\ fate[t] # "none" => fate'[t] # "none"
    BY <2>2 DEF Monitor!Learn
  <2>3. ASSUME NEW u \in Tasks, NEW e \in Outcomes, Monitor!Work(u, e)
        PROVE  /\ Closed(t) => Closed(t)'
               /\ fate[t] # "none" => fate'[t] # "none"
    BY <2>3 DEF Monitor!Work
  <2>4. ASSUME NEW S \in SUBSET Tasks, Monitor!Expire(S)
        PROVE  /\ Closed(t) => Closed(t)'
               /\ fate[t] # "none" => fate'[t] # "none"
    BY <2>4 DEF Monitor!Expire
  <2> QED
    BY <1>3, <2>1, <2>2, <2>3, <2>4 DEF Work
<1>4. CASE \E u \in Tasks : OtherCreates(u) \/ ServePost(u)
  BY <1>2, <1>4 DEF OtherCreates, ServePost
<1>5. CASE \E u \in Tasks : RefusePost(u) \/ Create(u) \/ Select(u)
  BY <1>1, <1>5 DEF RefusePost, Create, Select, monitor
<1>6. CASE \/ Toggle \/ CreatedElsewhere \/ ServePoll \/ Mount \/ Unmount \/ Props \/ Releases \/ PollAnswer
           \/ PollFails \/ PollTimer \/ Dismiss \/ Created \/ CreateFails
  BY <1>1, <1>6 DEF Toggle, CreatedElsewhere, ServePoll, Mount, Unmount, Props, Releases, PollAnswer, PollFails,
                    PollTimer, Dismiss, Created, CreateFails, monitor
<1>7. CASE \/ ReadAnswer \/ ReadFails \/ ReadTimer \/ EnterList \/ LeaveList \/ ListAnswer
           \/ ListFails \/ ListTimer \/ NextPage \/ FirstPage
  BY <1>1, <1>7 DEF ReadAnswer, ReadFails, ReadTimer, EnterList, LeaveList, ListAnswer,
                    ListFails, ListTimer, NextPage, FirstPage, monitor
<1>8. CASE \/ \E kind \in Kinds : Ask(kind)
           \/ \E i \in DOMAIN rows : SelectRow(i)
           \/ UNCHANGED vars
  BY <1>1, <1>8 DEF Ask, SelectRow, vars, monitor
<1> QED
  BY <1>3, <1>4, <1>5, <1>6, <1>7, <1>8 DEF Next

\* Every step keeps the types.
LEMMA TypeStep == PanelTypes /\ [Next]_vars => PanelTypes'
<1> SUFFICES ASSUME PanelTypes, [Next]_vars PROVE PanelTypes'
    OBVIOUS
<1> USE PanelAssumption DEF PanelTypes
<1>1. CASE UNCHANGED <<fate, log, known, posts, ready, state, poll, mine, asked>>
  BY <1>1
<1>2. CASE Work
  BY <1>2, LogTypes DEF Work, panel
<1>3. ASSUME NEW t \in Tasks, OtherCreates(t) \/ ServePost(t) \/ RefusePost(t) PROVE PanelTypes'
  <2>1. CASE OtherCreates(t)
    BY <2>1 DEF OtherCreates, Inserts, Monitor!Submit, panel
  <2>2. CASE ServePost(t)
    BY <2>2 DEF ServePost, Inserts, Monitor!Submit, panel
  <2>3. CASE RefusePost(t)
    BY <2>3 DEF RefusePost, monitor, panel
  <2> QED
    BY <1>3, <2>1, <2>2, <2>3
<1>4. CASE ServePoll
  <2>1. [usable |-> ready, tasks |-> {t \in Tasks : fate[t] # "none"},
         open |-> {t \in Tasks : fate[t] # "none" /\ ~Closed(t)}] \in HostStates
    BY DEF HostStates
  <2> QED
    BY <1>4, <2>1 DEF ServePoll, monitor
<1>5. CASE Mount \/ PollTimer
  <2>1. poll' = Begun /\ UNCHANGED <<fate, log, known, ready, posts, state, mine, asked>>
    BY <1>5 DEF Mount, PollTimer, monitor
  <2>2. /\ Begun \in [phase : {"off", "sent", "served", "waiting"}, fresh : BOOLEAN,
                      answer : HostStates \cup {None}]
        /\ Begun.phase # "served"
    BY DEF Begun
  <2> QED
    BY <2>1, <2>2
<1>6. CASE PollAnswer \/ PollFails
  <2>1. /\ poll' = [Off EXCEPT !.phase = "waiting"]
        /\ UNCHANGED <<fate, log, known, posts, ready, mine, asked>>
    BY <1>6 DEF PollAnswer, PollFails, monitor
  <2>2. /\ poll' \in [phase : {"off", "sent", "served", "waiting"}, fresh : BOOLEAN,
                      answer : HostStates \cup {None}]
        /\ poll'.phase # "served"
    BY <2>1 DEF Off
  <2>3. CASE PollAnswer
    <3>1. state' \in HostStates \cup {None}
      BY <2>3 DEF PollAnswer
    <3> QED
      BY <2>1, <2>2, <3>1
  <2>4. CASE PollFails
    <3>1. state # None => [state EXCEPT !.usable = FALSE] \in HostStates
      BY DEF HostStates
    <3>2. state' \in HostStates \cup {None}
      BY <2>4, <3>1 DEF PollFails
    <3> QED
      BY <2>1, <2>2, <3>2
  <2> QED
    BY <1>6, <2>3, <2>4
<1>7. CASE Created
  <2>1. state # None => [state EXCEPT !.tasks = @ \cup {mine}, !.open = @ \cup {mine}]
                          \in HostStates
    BY <1>7 DEF Created, HostStates
  <2> QED
    BY <1>7, <2>1 DEF Created, monitor
<1>8. CASE CreateFails
  BY <1>8 DEF CreateFails, monitor
<1>9. ASSUME NEW t \in Tasks, Create(t) PROVE PanelTypes'
  BY <1>9 DEF Create, monitor
<1>10. CASE Toggle \/ CreatedElsewhere
  BY <1>10 DEF Toggle, CreatedElsewhere, monitor, panel
<1>11. CASE Unmount
  BY <1>11 DEF Unmount, Off, monitor
<1>12. CASE \/ Props \/ Releases \/ Dismiss \/ UNCHANGED vars
            \/ (\E kind \in Kinds : Ask(kind)) \/ (\E t \in Tasks : Select(t))
            \/ \E i \in DOMAIN rows : SelectRow(i)
  BY <1>1, <1>12 DEF Props, Releases, Dismiss, Ask, Select, SelectRow, vars, monitor, panel
<1>13. CASE \/ ReadAnswer \/ ReadFails \/ ReadTimer \/ EnterList \/ LeaveList \/ ListAnswer
            \/ ListFails \/ ListTimer \/ NextPage \/ FirstPage
  BY <1>1, <1>13 DEF ReadAnswer, ReadFails, ReadTimer, EnterList, LeaveList, ListAnswer,
                     ListFails, ListTimer, NextPage, FirstPage, monitor, panel
<1> QED
  BY <1>2, <1>3, <1>4, <1>5, <1>6, <1>7, <1>8, <1>9, <1>10, <1>11, <1>12, <1>13 DEF Next

\* Every step keeps what the panel knows.
LEMMA AskedStep == ControlInv /\ [Next]_vars => AskedInv'
<1> SUFFICES ASSUME ControlInv, [Next]_vars PROVE AskedInv'
    OBVIOUS
<1>0. /\ \A t \in Tasks : Closed(t) => Closed(t)'
      /\ \A t \in Tasks : fate[t] # "none" => fate'[t] # "none"
  BY FatesStay DEF ControlInv
<1> USE PanelAssumption DEF ControlInv, PanelTypes, AskedInv, Knows
<1>1. CASE UNCHANGED <<posts, state, poll, mine, asked, uncertain>>
  BY <1>0, <1>1
<1>2. ASSUME NEW t \in Tasks, OtherCreates(t) \/ ServePost(t) PROVE AskedInv'
  <2>1. fate'[t] = "open" /\ posts' = [posts EXCEPT ![t] = "created"]
    BY <1>2 DEF OtherCreates, ServePost, Inserts, Monitor!Submit
  <2>2. UNCHANGED <<state, poll, mine, asked, uncertain>>
    BY <1>2 DEF OtherCreates, ServePost, panel
  <2> QED
    BY <1>0, <2>1, <2>2
<1>3. ASSUME NEW t \in Tasks, RefusePost(t) PROVE AskedInv'
  BY <1>0, <1>3 DEF RefusePost, panel
<1>4. CASE ServePoll
  BY <1>0, <1>4 DEF ServePoll
<1>5. CASE Mount \/ PollTimer
  BY <1>0, <1>5 DEF Mount, PollTimer, Begun, monitor
<1>6. CASE Unmount
  BY <1>0, <1>6 DEF Unmount, Off
<1>7. CASE PollAnswer
  BY <1>0, <1>7 DEF PollAnswer, Applies, Off
<1>8. CASE PollFails
  BY <1>0, <1>8 DEF PollFails, Off, HostStates
<1>9. CASE Created
  BY <1>0, <1>9 DEF Created, HostStates
<1>10. CASE CreateFails
  BY <1>0, <1>10 DEF CreateFails
<1>11. ASSUME NEW t \in Tasks, Create(t) PROVE AskedInv'
  BY <1>0, <1>11 DEF Create, Disabled
<1>12. CASE \/ Toggle \/ CreatedElsewhere \/ Work \/ Props \/ Releases \/ Dismiss \/ UNCHANGED vars
            \/ (\E kind \in Kinds : Ask(kind)) \/ (\E t \in Tasks : Select(t))
            \/ \E i \in DOMAIN rows : SelectRow(i)
  BY <1>1, <1>12 DEF Toggle, CreatedElsewhere, Work, Props, Releases, Dismiss, Ask, Select, SelectRow, vars, panel
<1>13. CASE \/ ReadAnswer \/ ReadFails \/ ReadTimer \/ EnterList \/ LeaveList \/ ListAnswer
            \/ ListFails \/ ListTimer \/ NextPage \/ FirstPage
  BY <1>1, <1>13 DEF ReadAnswer, ReadFails, ReadTimer, EnterList, LeaveList, ListAnswer,
                     ListFails, ListTimer, NextPage, FirstPage, panel
<1> QED
  BY <1>2, <1>3, <1>4, <1>5, <1>6, <1>7, <1>8, <1>9, <1>10, <1>11, <1>12, <1>13 DEF Next

\* While the buttons can be pressed, what the panel has asked for is over.
THEOREM EnabledHolds == Spec => []EnabledMeansSettled
<1>1. ControlInv /\ [Next]_vars => ControlInv'
  BY TypeStep, AskedStep DEF ControlInv
<1>2. ControlInv => EnabledMeansSettled
  <2> SUFFICES ASSUME ControlInv, Enabled, NEW t \in asked
               PROVE  posts[t] = "created" /\ Closed(t)
    BY DEF EnabledMeansSettled
  <2>1. state # None /\ state.open = {} /\ mine = None /\ ~uncertain
    BY DEF Enabled, Disabled, Blocked
  <2>2. t # mine
    BY <2>1, PanelAssumption DEF ControlInv, PanelTypes
  <2>3. Knows(t)
    BY <2>2 DEF ControlInv, AskedInv
  <2> QED
    BY <2>1, <2>3 DEF Knows
<1> QED
  BY InitControl, <1>1, <1>2, PTL DEF Spec

-----------------------------------------------------------------------------
(* The page of all tasks *)

\* The page that is not on the screen satisfies the second part.
LEMMA InitWalk == Init => WalkInv
<1> SUFFICES ASSUME Init PROVE WalkInv
    OBVIOUS
<1>1. rows = <<>> /\ rows \in Seq(Tasks \cup {None}) /\ Len(rows) = 0
  BY EmptySeq DEF Init
<1>2. list = NoList
  BY DEF Init
<1> QED
  BY <1>1, <1>2 DEF NoList, WalkInv

\* A new row comes after all that were seen.
LEMMA RowsGrow ==
  ASSUME WalkInv, NEW t \in Tasks \cup {None}, rows' = Append(rows, t), UNCHANGED list
  PROVE  WalkInv'
<1>1. rows' \in Seq(Tasks \cup {None}) /\ Len(rows') = Len(rows) + 1 /\ Len(rows) \in Nat
  BY AppendProperties, LenProperties DEF WalkInv
<1>2. list' \in [phase : {"off", "sent", "waiting", "done"}, before : 0..Len(rows'),
                 next : 0..Len(rows'), tasks : SUBSET (1..Len(rows')),
                 walked : SUBSET (1..Len(rows'))]
  <2>1. 0..Len(rows) \subseteq 0..Len(rows') /\ 1..Len(rows) \subseteq 1..Len(rows')
    BY <1>1
  <2> QED
    BY <2>1 DEF WalkInv
<1>3. ASSUME NEW j \in 1..Len(rows'), NEW k \in list.walked, j < k, Passed(j)
      PROVE  j \in list.walked
  <2>1. k \in 1..Len(rows) /\ j \in 1..Len(rows)
    BY <1>1, <1>3 DEF WalkInv
  <2> QED
    BY <1>3, <2>1 DEF WalkInv
<1>4. \A j : Passed(j)' <=> Passed(j)
  BY DEF Passed
<1> QED
  BY <1>1, <1>2, <1>3, <1>4 DEF WalkInv

\* Another page is asked for.
LEMMA PageTurns ==
  ASSUME WalkInv, rows' = rows, list.next # 0,
         list' = [NoList EXCEPT !.phase = "sent", !.before = list.next, !.walked = list.walked]
  PROVE  WalkInv'
<1>0. /\ NoList.next = 0 /\ NoList.tasks = {}
      /\ NoList \in [phase : {"off", "sent", "waiting", "done"}, before : 0..Len(rows),
                     next : 0..Len(rows), tasks : SUBSET (1..Len(rows)),
                     walked : SUBSET (1..Len(rows))]
  BY LenProperties DEF NoList, WalkInv
<1>1. /\ list'.phase = "sent" /\ list'.before = list.next /\ list'.next = 0
      /\ list'.tasks = {} /\ list'.walked = list.walked
      /\ list' \in [phase : {"off", "sent", "waiting", "done"}, before : 0..Len(rows),
                    next : 0..Len(rows), tasks : SUBSET (1..Len(rows)),
                    walked : SUBSET (1..Len(rows))]
  BY <1>0 DEF WalkInv
<1>2. \A j \in 1..Len(rows) : Passed(j)' => Passed(j)
  BY <1>1 DEF Passed
<1> QED
  BY <1>1, <1>2 DEF WalkInv

\* A page comes: with what was passed before it leaves nothing out.
LEMMA PageComes == ASSUME WalkInv, ListAnswer, rows' = rows PROVE WalkInv'
<1> DEFINE n == Len(rows)
           before == list.before
           page == PageOf(before)
<1>1. n \in Nat /\ before \in 0..n /\ Top(before) \in 0..n /\ ListPage \in Nat \ {0}
  BY PanelAssumption, LenProperties DEF WalkInv, Top
<1>2. page \subseteq 1..n
  BY <1>1 DEF PageOf
<1>3. Cursor(before) \in 0..n
  BY <1>1 DEF Cursor
<1>4. /\ list'.phase = IF before = 0 THEN "waiting" ELSE "done"
      /\ list'.before = before /\ list'.next = Cursor(before)
      /\ list'.tasks = page /\ list'.walked = list.walked \cup page
  BY DEF ListAnswer, WalkInv
<1>5. list' \in [phase : {"off", "sent", "waiting", "done"}, before : 0..n,
                 next : 0..n, tasks : SUBSET (1..n), walked : SUBSET (1..n)]
  BY <1>2, <1>3 DEF ListAnswer, WalkInv
<1>6. ASSUME NEW j \in 1..n, NEW k \in list.walked \cup page, j < k, Passed(j)'
      PROVE  j \in list.walked \cup page
  <2>1. k \in 1..n
    BY <1>2 DEF WalkInv
  <2>2. CASE before # 0 /\ j >= before
    <3>1. k \in list.walked
      BY <1>1, <1>6, <2>1, <2>2 DEF PageOf, Top
    <3>2. Passed(j)
      BY <2>2 DEF Passed
    <3> QED
      BY <1>6, <3>1, <3>2 DEF WalkInv
  <2>3. CASE before = 0 \/ j < before
    <3>1. j <= Top(before)
      BY <1>1, <2>3 DEF Top
    <3>2. j + ListPage > Top(before)
      <4>1. ASSUME NEW i \in page, i < j PROVE j + ListPage > Top(before)
        BY <1>1, <1>2, <4>1 DEF PageOf
      <4>2. CASE Cursor(before) # 0 /\ j >= Cursor(before)
        BY <1>1, <4>2 DEF Cursor
      <4>3. CASE Cursor(before) = 0
        BY <1>1, <4>3 DEF Cursor
      <4> QED
        BY <1>1, <1>4, <1>6, <2>3, <4>1, <4>2, <4>3 DEF Passed
    <3> QED
      BY <1>1, <3>1, <3>2 DEF PageOf
  <2> QED
    BY <1>1, <2>2, <2>3
<1> QED
  BY <1>4, <1>5, <1>6 DEF WalkInv

\* Every step keeps it.
LEMMA WalkStep == WalkInv /\ [Next]_vars => WalkInv'
<1> SUFFICES ASSUME WalkInv, [Next]_vars PROVE WalkInv'
    OBVIOUS
<1>1. CASE UNCHANGED <<rows, list>>
  BY <1>1 DEF WalkInv, Passed
<1>2. ASSUME NEW t \in Tasks, OtherCreates(t) \/ ServePost(t) PROVE WalkInv'
  BY <1>2, RowsGrow DEF OtherCreates, ServePost, Inserts
<1>9. CASE CreatedElsewhere
  BY <1>9, RowsGrow DEF CreatedElsewhere
<1>3. CASE EnterList \/ LeaveList \/ FirstPage
  <2>1. list' = [NoList EXCEPT !.phase = "sent"] \/ list' = NoList
    BY <1>3 DEF EnterList, LeaveList, FirstPage
  <2>2. rows' = rows
    BY <1>3 DEF EnterList, LeaveList, FirstPage, monitor
  <2> QED
    BY <2>1, <2>2, LenProperties DEF NoList, WalkInv
<1>4. CASE ListAnswer
  BY <1>4, PageComes DEF ListAnswer, monitor
<1>5. CASE ListFails \/ ListTimer
  <2>1. rows' = rows /\ list'.phase \in {"waiting", "sent"} /\ list' = [list EXCEPT !.phase = list'.phase]
    BY <1>5 DEF ListFails, ListTimer, WalkInv, monitor
  <2>2. \A j \in 1..Len(rows) : Passed(j)' => Passed(j)
    BY <2>1 DEF Passed, WalkInv
  <2> QED
    BY <2>1, <2>2 DEF WalkInv
<1>6. CASE NextPage
  BY <1>6, PageTurns DEF NextPage, monitor
<1>7. CASE \/ Toggle \/ Work \/ ServePoll \/ Mount \/ Unmount \/ Props \/ Releases \/ PollAnswer
           \/ PollFails \/ PollTimer \/ Dismiss \/ Created \/ CreateFails
  BY <1>1, <1>7 DEF Toggle, Work, ServePoll, Mount, Unmount, Props, Releases, PollAnswer,
                    PollFails, PollTimer, Dismiss, Created, CreateFails, monitor
<1>8. CASE \/ ReadAnswer \/ ReadFails \/ ReadTimer \/ UNCHANGED vars
           \/ (\E kind \in Kinds : Ask(kind)) \/ \E i \in DOMAIN rows : SelectRow(i)
           \/ \E t \in Tasks : RefusePost(t) \/ Create(t) \/ Select(t)
  BY <1>1, <1>8 DEF ReadAnswer, ReadFails, ReadTimer, vars, Ask, SelectRow, RefusePost, Create,
                    Select, monitor
<1> QED
  BY <1>2, <1>3, <1>4, <1>5, <1>6, <1>7, <1>8, <1>9 DEF Next

\* Going from page to page misses no task.
THEOREM PagesHold == Spec => []PagesLeaveNoGap
<1>1. WalkInv => PagesLeaveNoGap
  BY DEF WalkInv, Passed, PagesLeaveNoGap
<1> QED
  BY InitWalk, WalkStep, <1>1, PTL DEF Spec

-----------------------------------------------------------------------------
(* The log of a task *)

\* A read is of a task; what is on the screen are the first events of its log.
LogInv ==
  /\ known \in [Tasks -> Nat] /\ after \in Nat /\ selected \in Tasks \cup {None}
  /\ read # "off" => selected # None
  /\ DetailIsLog

\* Of an interval, the i-th number is the i-th from its beginning.
LEMMA InOrder ==
  ASSUME NEW a \in Nat, NEW n \in Nat
  PROVE  /\ Cardinality(a + 1 .. a + n) = n
         /\ \A s \in a + 1 .. a + n : Cardinality({u \in a + 1 .. a + n : u < s}) = s - a - 1
<1>1. Cardinality(a + 1 .. a + n) = n
  <2>1. CASE n = 0
    <3>1. a + 1 .. a + n = {}
      BY <2>1
    <3> QED
      BY <2>1, <3>1, FS_EmptySet
  <2>2. CASE n # 0
    BY <2>2, FS_Interval
  <2> QED
    BY <2>1, <2>2
<1>2. ASSUME NEW s \in a + 1 .. a + n
      PROVE  Cardinality({u \in a + 1 .. a + n : u < s}) = s - a - 1
  <2>1. {u \in a + 1 .. a + n : u < s} = a + 1 .. s - 1
    OBVIOUS
  <2>2. CASE s = a + 1
    <3>1. a + 1 .. s - 1 = {}
      BY <2>2
    <3> QED
      BY <2>1, <2>2, <3>1, FS_EmptySet
  <2>3. CASE s # a + 1
    <3>1. a + 1 <= s - 1 /\ a + 1 \in Int /\ s - 1 \in Int
      BY <2>3
    <3>2. Cardinality(a + 1 .. s - 1) = (s - 1) - (a + 1) + 1
      BY <3>1, FS_Interval
    <3>3. (s - 1) - (a + 1) + 1 = s - a - 1
      OBVIOUS
    <3> QED
      BY <2>1, <3>2, <3>3
  <2> QED
    BY <2>2, <2>3
<1> QED
  BY <1>1, <1>2

\* An answer brings what comes next in the log.
LEMMA FreshIsNext ==
  ASSUME LogInv, selected # None
  PROVE  /\ Last \in Nat /\ after <= Last /\ Last <= known[selected]
         /\ Fresh = [i \in 1..(Last - after) |-> after + i]
<1>1. Last \in Nat /\ after <= Last /\ Last <= known[selected] /\ after \in Nat
  <2>1. known[selected] \in Nat /\ after \in Nat /\ after <= known[selected]
    BY DEF LogInv, DetailIsLog
  <2> QED
    BY <2>1, PanelAssumption DEF Last
<1>2. Unseen = after + 1 .. Last
  <2>1. Len(shown) = after /\ \A i \in 1..after : shown[i] = i
    BY DEF LogInv, DetailIsLog
  <2> QED
    BY <1>1, <2>1 DEF Unseen
<1>3. PICK n \in Nat : Last = after + n /\ n = Last - after
  BY <1>1
<1>4. /\ Cardinality(Unseen) = n
      /\ \A s \in Unseen : Cardinality({u \in Unseen : u < s}) = s - after - 1
  BY <1>1, <1>2, <1>3, InOrder
<1>5. ASSUME NEW i \in 1..n
      PROVE  (CHOOSE s \in Unseen : Cardinality({u \in Unseen : u < s}) = i - 1) = after + i
  <2>1. after + i \in Unseen
    BY <1>1, <1>2, <1>3
  <2>2. ASSUME NEW s \in Unseen
        PROVE  Cardinality({u \in Unseen : u < s}) = i - 1 <=> s = after + i
    <3>1. Cardinality({u \in Unseen : u < s}) = s - after - 1
      BY <1>4
    <3>2. s \in Int /\ after \in Int /\ i \in Int
      BY <1>1, <1>2
    <3>3. s - after - 1 = i - 1 <=> s = after + i
      BY <3>2
    <3> QED
      BY <3>1, <3>3
  <2> QED
    BY <2>1, <2>2
<1>6. Fresh = [i \in 1..n |->
                CHOOSE s \in Unseen : Cardinality({u \in Unseen : u < s}) = i - 1]
  BY <1>4 DEF Fresh
<1>7. Fresh = [i \in 1..n |-> after + i]
  BY <1>5, <1>6
<1> QED
  BY <1>1, <1>3, <1>7

\* At first no log is shown.
LEMMA InitLog == Init => LogInv
<1> SUFFICES ASSUME Init PROVE LogInv
    OBVIOUS
<1>1. shown = <<>> /\ after = 0 /\ selected = None /\ read = "off"
  BY DEF Init
<1>2. known \in [Tasks -> Nat]
  BY DEF Init, Monitor!Init
<1>3. shown = [i \in 1..after |-> i]
  BY <1>1
<1> QED
  BY <1>1, <1>2, <1>3 DEF LogInv, DetailIsLog

\* The Monitor never knows less of a log.
LEMMA KnownGrows ==
  ASSUME LogInv, [Next]_vars
  PROVE  known' \in [Tasks -> Nat] /\ \A t \in Tasks : known[t] <= known'[t]
<1>1. known \in [Tasks -> Nat]
  BY DEF LogInv
<1>2. known' = known \/ \E t \in Tasks : Monitor!Learn(t)
  BY DEF Next, vars, Toggle, CreatedElsewhere, Work, ServePoll, OtherCreates, ServePost, RefusePost, Mount,
         Unmount, Props, Releases, PollAnswer, PollFails, PollTimer, Ask, Dismiss, Created,
         CreateFails, Create, Select, ReadAnswer, ReadFails, ReadTimer, EnterList, LeaveList,
         ListAnswer, ListFails, ListTimer, NextPage, FirstPage, SelectRow, monitor, Inserts,
         Monitor!Accept, Monitor!Work, Monitor!Expire, Monitor!Submit
<1> QED
  BY <1>1, <1>2 DEF Monitor!Learn

\* The first events of the log of t are on the screen.
LEMMA LogStep ==
  ASSUME ControlInv, WalkInv, LogInv, [Next]_vars PROVE LogInv'
<1>0. /\ known \in [Tasks -> Nat] /\ after \in Nat /\ selected \in Tasks \cup {None}
      /\ shown = [i \in 1..after |-> i] /\ (selected # None => after <= known[selected])
      /\ known' \in [Tasks -> Nat] /\ \A t \in Tasks : known[t] <= known'[t]
      /\ None \notin Tasks
  BY KnownGrows, PanelAssumption DEF LogInv, DetailIsLog
<1>1. CASE UNCHANGED <<selected, shown, after>> /\ (read' # "off" => read # "off")
  <2>1. selected # None => after <= known'[selected]
    BY <1>0
  <2> QED
    BY <1>0, <1>1, <2>1 DEF LogInv, DetailIsLog
<1>2. CASE CloseDetail
  <2>1. shown' = [i \in 1..after' |-> i] /\ after' \in Nat /\ selected' = None /\ read' = "off"
    BY <1>2 DEF CloseDetail
  <2> QED
    BY <1>0, <2>1 DEF LogInv, DetailIsLog
<1>3. ASSUME NEW t \in Tasks, Open(t) PROVE LogInv'
  <2>1. CASE t = selected
    BY <1>1, <1>3, <2>1 DEF Open, detail
  <2>2. CASE t # selected
    <3>1. shown' = <<>> /\ after' = 0 /\ selected' = t
      BY <1>3, <2>2 DEF Open
    <3>2. shown' = [i \in 1..after' |-> i]
      BY <3>1
    <3>3. after' <= known'[t]
      BY <1>0, <3>1
    <3> QED
      BY <1>0, <3>1, <3>2, <3>3 DEF LogInv, DetailIsLog
  <2> QED
    BY <2>1, <2>2
<1>4. CASE ReadAnswer
  <2>1. selected # None /\ selected' = selected
    BY <1>4 DEF ReadAnswer, LogInv
  <2>2. /\ Last \in Nat /\ after <= Last /\ Last <= known[selected]
        /\ Fresh = [i \in 1..(Last - after) |-> after + i]
    BY <2>1, FreshIsNext
  <2>3. shown' = shown \o [i \in 1..(Last - after) |-> after + i] /\ after' = Last
    BY <1>4, <2>2 DEF ReadAnswer
  <2>4. shown' = [i \in 1..Last |-> i]
    <3> DEFINE f == [i \in 1..(Last - after) |-> after + i]
    <3>1. f \in Seq(Nat) /\ Len(f) = Last - after /\ shown \in Seq(Nat) /\ Len(shown) = after
      BY <1>0, <2>2
    <3>2. /\ shown \o f \in Seq(Nat) /\ Len(shown \o f) = Last
          /\ \A i \in 1..Last : (shown \o f)[i] = IF i <= after THEN shown[i] ELSE f[i - after]
      BY <1>0, <2>2, <3>1
    <3>3. \A i \in 1..Last : (shown \o f)[i] = i
      BY <1>0, <2>2, <3>2
    <3> HIDE DEF f
    <3>4. shown \o f \in [1..Last -> Nat]
      BY <3>2, LenProperties
    <3>5. shown \o f = [i \in 1..Last |-> i]
      BY <3>3, <3>4
    <3> QED
      BY <2>3, <3>5 DEF f
  <2>5. after' <= known'[selected']
    BY <1>0, <2>1, <2>2, <2>3
  <2> QED
    BY <1>0, <2>1, <2>2, <2>3, <2>4, <2>5 DEF LogInv, DetailIsLog
<1>5. mine \in Tasks \cup {None} /\ \A i \in DOMAIN rows : rows[i] \in Tasks \cup {None}
  BY DEF ControlInv, PanelTypes, WalkInv
<1>6. CASE Created
  BY <1>3, <1>5, <1>6 DEF Created
<1>7. CASE \E i \in DOMAIN rows : SelectRow(i)
  BY <1>2, <1>3, <1>5, <1>7 DEF SelectRow
<1>8. CASE \E t \in Tasks : Select(t)
  BY <1>3, <1>8 DEF Select
<1>9. CASE Unmount \/ LeaveList \/ NextPage \/ FirstPage
  BY <1>2, <1>9 DEF Unmount, LeaveList, NextPage, FirstPage
<1>10. CASE \/ ReadFails \/ ReadTimer \/ Toggle \/ CreatedElsewhere \/ Work \/ ServePoll \/ Mount \/ Props \/ Releases
            \/ PollAnswer \/ PollFails \/ PollTimer \/ Dismiss \/ CreateFails \/ UNCHANGED vars
  BY <1>1, <1>10 DEF ReadFails, ReadTimer, Toggle, CreatedElsewhere, Work, ServePoll, Mount, Props, Releases,
                     PollAnswer, PollFails, PollTimer, Dismiss, CreateFails, vars, detail
<1>11. CASE \/ EnterList \/ ListAnswer \/ ListFails \/ ListTimer \/ (\E kind \in Kinds : Ask(kind))
            \/ \E t \in Tasks : OtherCreates(t) \/ ServePost(t) \/ RefusePost(t) \/ Create(t)
  BY <1>1, <1>11 DEF EnterList, ListAnswer, ListFails, ListTimer, Ask, OtherCreates, ServePost,
                     RefusePost, Create, detail
<1> QED
  BY <1>4, <1>6, <1>7, <1>8, <1>9, <1>10, <1>11 DEF Next

\* Every reachable state satisfies the third part.
LEMMA LogHolds == Spec => [](ControlInv /\ WalkInv /\ LogInv)
<1>1. Init => ControlInv /\ WalkInv /\ LogInv
  BY InitControl, InitWalk, InitLog
<1>2. ControlInv /\ WalkInv /\ LogInv /\ [Next]_vars => (ControlInv /\ WalkInv /\ LogInv)'
  BY TypeStep, AskedStep, WalkStep, LogStep DEF ControlInv
<1> QED
  BY <1>1, <1>2, PTL DEF Spec

\* The screen shows the first events of the selected task, each once and in order.
THEOREM DetailHolds == Spec => []DetailIsLog
<1>1. LogInv => DetailIsLog
  BY DEF LogInv
<1> QED
  BY <1>1, LogHolds, PTL

=============================================================================
