---------------------------- MODULE TaskAssignment ----------------------------
(***************************************************************************)
(* The leader's task management (internal/serviceBots/task_assignment.go), *)
(* the service bots it sends to work (ServiceBot), and the MQTT queues and *)
(* gRPC calls between them.                                                *)
(*                                                                         *)
(* One action is one critical section of bot.TaskMu with what is published *)
(* inside it.  A handler reads bot.LeaderState before it takes TaskMu; as  *)
(* nothing under TaskMu changes LeaderState the two are one action.        *)
(* Who leads is not decided here but in Election: bots take office and     *)
(* leave it at any time, within a bound.                                   *)
(***************************************************************************)
EXTENDS ServiceBot, Integers, Sequences, FiniteSets

CONSTANTS
  Candidate,   \* bots that may lead
  First,       \* those that lead from the start
  CanDo,       \* CanDo[t]: the workers of the type that t requires
  Known,       \* workers whose metadata every candidate has from the start
  NoBot,       \* RobotID -1
  NoTask,      \* the task of a message that is about none
  Mortal,      \* candidates whose process may die
  Deposable,   \* candidates that may lose office and take it again
  MaxLate,     \* bound: how often a time limit passes for what is only slow
  MaxOffices,  \* bound: how often a bot takes office
  MaxTries,    \* bound: goroutines that wait to retry a task
  MaxInbox     \* bound: no ticker does anything while a queue is this long

ASSUME CanDoAssumption == CanDo \in [Task -> SUBSET Worker]
ASSUME NothingAssumption == NoBot \notin Worker /\ NoTask \notin Task
ASSUME TasksBoundAssumption == {MaxLate, MaxOffices, MaxTries, MaxInbox} \subseteq Nat

VARIABLES
  unseen,   \* tasks no detector has announced yet
  office,   \* what a candidate is; it acts on tasks only as a leader
  offices,  \* how often a bot has taken office
  ledger,   \* which of PendingTasks and AssignedTasks a task is in
  robot,    \* task.RobotID
  known,    \* the Status in KnownBots
  tries,    \* goroutines that sleep before they retry a task
  sweep,    \* a goroutine is to run tryAssignPendingTasks
  turns,    \* the tasks a running tryAssignPendingTasks has yet to try
  calls,    \* AssignTask calls under way
  lates,    \* how often a time limit has passed for what was slow
  inbox,    \* messages on their way to the candidate, oldest first
  handler   \* the tasks a callback still has to try, or to fail

terms == <<office, offices>>
books == <<ledger, robot, known, tries, sweep, turns>>
vars == <<botVars, unseen, terms, books, calls, lates, inbox, handler>>

-----------------------------------------------------------------------------
Message == [kind : {"new", "completed", "failed", "timeout"},
            task : Task, bot : Worker \cup {NoBot}, status : {"none"}] \cup
           [kind : {"metadata"}, task : {NoTask}, bot : Worker, status : Status] \cup
           [kind : {"kill"}, task : {NoTask}, bot : Worker, status : {"none"}]

Call == [leader : Candidate, task : Task, bot : Worker,
         at : {"sent", "late", "accepted", "declined"}]

CallAt(l, t, w, at) == [leader |-> l, task |-> t, bot |-> w, at |-> at]
Now(c, at) == CallAt(c.leader, c.task, c.bot, at)

TaskMessage(kind, t, w) == [kind |-> kind, task |-> t, bot |-> w, status |-> "none"]
BotMessage(kind, w, s) == [kind |-> kind, task |-> NoTask, bot |-> w, status |-> s]

AtRest == [does |-> "idle", tasks |-> {}]

Leads(l) == office[l] = "leader"

\* "assigned" events change nothing where they arrive and are left out.
Routed(queues, m) ==
  [l \in Candidate |-> IF office[l] # "crashed" THEN Append(queues[l], m) ELSE queues[l]]
Send(m) == inbox' = Routed(inbox, m)
Popped(l) == [inbox EXCEPT ![l] = Tail(@)]

Receives(l, kind) ==
  /\ office[l] # "crashed"
  /\ handler[l] = AtRest
  /\ inbox[l] # <<>>
  /\ Head(inbox[l]).kind = kind

Assigned(l, t) == ledger[l][t] = "assigned"
AssignedTo(l, w) == {t \in Task : Assigned(l, t) /\ robot[l][t] = w}

\* The news of t's end is still on its way to l.
EndIn(queue, t) == \E i \in DOMAIN queue : /\ queue[i].kind = "completed"
                                           /\ queue[i].task = t

\* So is w's report of it.
ReportIn(queue, t, w) == \E i \in DOMAIN queue : queue[i] = TaskMessage("completed", t, w)

\* What stands behind l's assignment of t to w: a call that was not accepted yet,
\* the execution, or the news of its end.
Asked(l, t, w) == CallAt(l, t, w, "sent") \in calls \/ CallAt(l, t, w, "declined") \in calls
Backed(l, t, w) == Asked(l, t, w) \/ exec[w][t] # "none" \/ EndIn(inbox[l], t)

\* A bot that cannot be expected to report.
Lost(w) == life[w] # "up"

\* A time limit passes: unless something was lost, it was only slow.
Late(coming) == IF coming THEN lates < MaxLate /\ lates' = lates + 1
                          ELSE UNCHANGED lates

-----------------------------------------------------------------------------
(***************************************************************************)
(* The critical sections the handlers and goroutines share.                *)
(***************************************************************************)
\* tryAssignTask of the TaskInfo t, wherever t has got to meanwhile.  Which of
\* the idle bots is nearest is not modelled, and LastSeen only grows old for a
\* bot that no longer publishes.  Bound: one call at a time per task and bot.
TryAssign(l, t) ==
  LET silent == {w \in Worker : ~Connected(w)}
      idle == {w \in CanDo[t] : known[l][w] = "idle"}
  IN  \/ /\ idle \ silent = {}
         /\ UNCHANGED <<ledger, robot, known, calls>>
      \/ \E w \in idle :
           /\ \A c \in calls : c # CallAt(l, t, w, c.at)
           /\ ledger' = [ledger EXCEPT ![l][t] = "assigned"]
           /\ robot' = [robot EXCEPT ![l][t] = w]
           /\ known' = [known EXCEPT ![l][w] = "busy"]
           /\ calls' = calls \cup {CallAt(l, t, w, "sent")}

\* A variant of Requeue with a bug: the task waits for a bot to become free.
RequeueWithoutRetry(l, t) ==
  /\ tries[l][t] < MaxTries
  /\ ledger' = [ledger EXCEPT ![l][t] = "pending"]
  /\ robot' = [robot EXCEPT ![l][t] = NoBot]
  /\ UNCHANGED tries

\* Back to PendingTasks, with a retry in a second.
Requeue(l, t) ==
  /\ tries[l][t] < MaxTries
  /\ ledger' = [ledger EXCEPT ![l][t] = "pending"]
  /\ robot' = [robot EXCEPT ![l][t] = NoBot]
  /\ tries' = [tries EXCEPT ![l][t] = @ + 1]

\* handleTaskAssignmentFailure, when the queues are as given: RobotID is already
\* -1 where the bot's status would be set to idle, so it stays busy.
Fail(l, t, queues) ==
  /\ IF Assigned(l, t)
       THEN /\ Requeue(l, t)
            /\ inbox' = Routed(queues, TaskMessage("failed", t, NoBot))
       ELSE inbox' = queues /\ UNCHANGED <<ledger, robot, tries>>
  /\ UNCHANGED <<known, sweep, turns>>

-----------------------------------------------------------------------------
(***************************************************************************)
(* Variants with a bug, to be put in the place of a definition below.      *)
(***************************************************************************)
\* HandleCompletion: the bot is freed, and the task stays in AssignedTasks.
CompletionKeepsTask(l) ==
  /\ Receives(l, "completed") \/ Receives(l, "failed")
  /\ inbox' = Popped(l)
  /\ known' = [known EXCEPT ![l] =
       [w \in Worker |-> IF w = Head(inbox[l]).bot /\ @[w] # "none" THEN "idle" ELSE @[w]]]
  /\ sweep' = [sweep EXCEPT ![l] = Leads(l)]
  /\ UNCHANGED <<botVars, unseen, terms, ledger, robot, tries, turns, calls, lates, handler>>

\* CallFails: an error of the call is only logged.
CallErrorIgnored(c) ==
  /\ c.at # "late"
  /\ Late(Runs(c.bot))
  /\ calls' = calls \ {c}
  /\ UNCHANGED <<botVars, unseen, terms, books, inbox, handler>>

\* Monitor: only bots known to be offline are given up.
MonitorOffline(l, t) ==
  /\ Leads(l) /\ Assigned(l, t)
  /\ known[l][robot[l][t]] = "offline"
  /\ Len(inbox[l]) < MaxInbox
  /\ Late(Backed(l, t, robot[l][t]))
  /\ Requeue(l, t)
  /\ Send(TaskMessage("timeout", t, NoBot))
  /\ UNCHANGED <<botVars, unseen, terms, known, sweep, turns, calls, handler>>

\* ReadMetadata: the ticker runs only while the bot works.
ReadWhileBusy(w) ==
  /\ \A l \in Candidate : Len(inbox[l]) < MaxInbox
  /\ \A v \in Worker : snaps[v] = {}
  /\ status[w] = "busy"
  /\ Read(w)
  /\ UNCHANGED <<unseen, terms, books, calls, lates, inbox, handler>>

-----------------------------------------------------------------------------
Init ==
  /\ BotInit
  /\ unseen = Task
  /\ office = [l \in Candidate |-> IF l \in First THEN "leader" ELSE "follower"]
  /\ offices = 0
  /\ ledger = [l \in Candidate |-> [t \in Task |-> "none"]]
  /\ robot = [l \in Candidate |-> [t \in Task |-> NoBot]]
  /\ known = [l \in Candidate |-> [w \in Worker |-> IF w \in Known THEN "idle" ELSE "none"]]
  /\ tries = [l \in Candidate |-> [t \in Task |-> 0]]
  /\ sweep = [l \in Candidate |-> FALSE]
  /\ turns = [l \in Candidate |-> {}]
  /\ calls = {}
  /\ lates = 0
  /\ inbox = [l \in Candidate |-> <<>>]
  /\ handler = [l \in Candidate |-> AtRest]

(***************************************************************************)
(* The callbacks of a candidate.                                           *)
(***************************************************************************)
\* handleNewTask up to its first unlock.
HandleNewTask(l) ==
  /\ Receives(l, "new")
  /\ inbox' = Popped(l)
  /\ LET t == Head(inbox[l]).task
     IN  IF Leads(l) /\ ledger[l][t] = "none"
           THEN /\ ledger' = [ledger EXCEPT ![l][t] = "pending"]
                /\ handler' = [handler EXCEPT ![l] = [does |-> "try", tasks |-> {t}]]
           ELSE UNCHANGED <<ledger, handler>>
  /\ UNCHANGED <<botVars, unseen, terms, robot, known, tries, sweep, turns, calls, lates>>

TryNewTask(l) ==
  /\ handler[l].does = "try"
  /\ \E t \in handler[l].tasks : TryAssign(l, t)
  /\ handler' = [handler EXCEPT ![l] = AtRest]
  /\ UNCHANGED <<botVars, unseen, terms, tries, sweep, turns, lates, inbox>>

\* handleTaskEvent and OnTaskCompletion, "completed" and "failed" alike; the
\* leader's own "failed" events come back to it, too.
HandleCompletion(l) ==
  /\ Receives(l, "completed") \/ Receives(l, "failed")
  /\ inbox' = Popped(l)
  /\ LET event == Head(inbox[l])
     IN  IF Leads(l) /\ Assigned(l, event.task)
           THEN /\ ledger' = [ledger EXCEPT ![l][event.task] = "none"]
                /\ robot' = [robot EXCEPT ![l][event.task] = NoBot]
                /\ known' = [known EXCEPT ![l] =
                     [w \in Worker |-> IF w = event.bot /\ @[w] # "none" THEN "idle" ELSE @[w]]]
                /\ sweep' = [sweep EXCEPT ![l] = TRUE]
           ELSE UNCHANGED <<ledger, robot, known, sweep>>
  /\ UNCHANGED <<botVars, unseen, terms, tries, turns, calls, lates, handler>>

HandleTimeout(l) ==
  /\ Receives(l, "timeout")
  /\ IF Leads(l) THEN Fail(l, Head(inbox[l]).task, Popped(l))
                 ELSE inbox' = Popped(l) /\ UNCHANGED books
  /\ UNCHANGED <<botVars, unseen, terms, calls, lates, handler>>

HandleBotMetadata(l) ==
  /\ Receives(l, "metadata")
  /\ inbox' = Popped(l)
  /\ known' = [known EXCEPT ![l][Head(inbox[l]).bot] = Head(inbox[l]).status]
  /\ UNCHANGED <<botVars, unseen, terms, ledger, robot, tries, sweep, turns, calls, lates, handler>>

\* handleKillCommand for another bot and the first section of handleBotDeath.
HandleBotDeath(l) ==
  /\ Receives(l, "kill")
  /\ inbox' = Popped(l)
  /\ LET w == Head(inbox[l]).bot
     IN  IF Leads(l)
           THEN /\ known' = [known EXCEPT ![l][w] = IF @ = "none" THEN @ ELSE "offline"]
                /\ handler' = [handler EXCEPT ![l] =
                     IF AssignedTo(l, w) = {} THEN AtRest
                     ELSE [does |-> "fail", tasks |-> AssignedTo(l, w)]]
           ELSE UNCHANGED <<known, handler>>
  /\ UNCHANGED <<botVars, unseen, terms, ledger, robot, tries, sweep, turns, calls, lates>>

\* The tasks are failed one by one, TaskMu being free in between.
FailTask(l) ==
  /\ handler[l].does = "fail"
  /\ \E t \in handler[l].tasks :
       /\ Fail(l, t, inbox)
       /\ handler' = [handler EXCEPT ![l] =
            IF handler[l].tasks = {t} THEN AtRest
            ELSE [does |-> "fail", tasks |-> handler[l].tasks \ {t}]]
  /\ UNCHANGED <<botVars, unseen, terms, calls, lates>>

Handle(l) == \/ HandleNewTask(l) \/ TryNewTask(l) \/ HandleCompletion(l)
             \/ HandleTimeout(l) \/ HandleBotMetadata(l)
             \/ HandleBotDeath(l) \/ FailTask(l)

-----------------------------------------------------------------------------
(***************************************************************************)
(* The goroutines of a candidate; they do not ask whether it still leads.  *)
(***************************************************************************)
\* A second after a failure.  Where nothing is slow, the event of the failure
\* has come back by then.
Retry(l, t) ==
  /\ tries[l][t] > 0
  /\ MaxLate = 0 => \A i \in DOMAIN inbox[l] :
       inbox[l][i] \notin {TaskMessage("failed", t, NoBot), TaskMessage("timeout", t, NoBot)}
  /\ tries' = [tries EXCEPT ![l][t] = @ - 1]
  /\ TryAssign(l, t)
  /\ UNCHANGED <<botVars, unseen, terms, sweep, turns, lates, inbox, handler>>

\* tryAssignPendingTasks: what is pending now is tried one by one later.
\* Bound: one such goroutine at a time, one more waiting for TaskMu.
TryAssignPending(l) ==
  /\ sweep[l] /\ turns[l] = {}
  /\ sweep' = [sweep EXCEPT ![l] = FALSE]
  /\ turns' = [turns EXCEPT ![l] = {t \in Task : ledger[l][t] = "pending"}]
  /\ UNCHANGED <<botVars, unseen, terms, ledger, robot, known, tries, calls, lates, inbox, handler>>

TryNext(l) ==
  /\ \E t \in turns[l] : /\ turns' = [turns EXCEPT ![l] = @ \ {t}]
                         /\ TryAssign(l, t)
  /\ UNCHANGED <<botVars, unseen, terms, tries, sweep, lates, inbox, handler>>

\* One overdue task of monitorTaskTimeouts; the 30 s are not counted.
Monitor(l, t) ==
  /\ Leads(l)
  /\ Assigned(l, t)
  /\ Len(inbox[l]) < MaxInbox
  /\ Late(Backed(l, t, robot[l][t]))
  /\ Requeue(l, t)
  /\ known' = [known EXCEPT ![l] =
       [w \in Worker |-> IF w = robot[l][t] /\ @[w] # "none" THEN "idle" ELSE @[w]]]
  /\ Send(TaskMessage("timeout", t, NoBot))
  /\ UNCHANGED <<botVars, unseen, terms, sweep, turns, calls, handler>>

(***************************************************************************)
(* assignTaskViaGRPC, and the bot's end of it.                             *)
(***************************************************************************)
\* After the deadline a request may still be executed, but nobody reads the
\* answer.
Answer(c, at) == calls' = (calls \ {c}) \cup
  (IF c.at = "late" THEN {} ELSE {Now(c, at)})

AcceptCall(c) ==
  /\ c.at \in {"sent", "late"}
  /\ Accept(c.bot, c.task)
  /\ Answer(c, "accepted")
  /\ UNCHANGED <<unseen, terms, books, lates, inbox, handler>>

DeclineCall(c) ==
  /\ c.at \in {"sent", "late"}
  /\ Declines(c.bot)
  /\ Answer(c, "declined")
  /\ UNCHANGED <<botVars, unseen, terms, books, lates, inbox, handler>>

Accepted(c) ==
  /\ c.at = "accepted"
  /\ calls' = calls \ {c}
  /\ UNCHANGED <<botVars, unseen, terms, books, lates, inbox, handler>>

Declined(c) ==
  /\ c.at = "declined"
  /\ calls' = calls \ {c}
  /\ Fail(c.leader, c.task, inbox)
  /\ UNCHANGED <<botVars, unseen, terms, lates, handler>>

\* The bot cannot be reached, the connection breaks, or five seconds are over.
CallFails(c) ==
  /\ c.at # "late"
  /\ Late(Runs(c.bot))
  /\ \/ calls' = calls \ {c}
     \/ c.at = "sent" /\ Runs(c.bot) /\ calls' = (calls \ {c}) \cup {Now(c, "late")}
  /\ Fail(c.leader, c.task, inbox)
  /\ UNCHANGED <<botVars, unseen, terms, handler>>

\* A request given up by the leader is given up on the way.
DropCall(c) ==
  /\ c.at = "late"
  /\ calls' = calls \ {c}
  /\ UNCHANGED <<botVars, unseen, terms, books, lates, inbox, handler>>

AssignTask(c) == AcceptCall(c) \/ DeclineCall(c) \/ DropCall(c)
CallEnds(c) == Accepted(c) \/ Declined(c) \/ CallFails(c)

(***************************************************************************)
(* The service bots, with what they publish.                               *)
(***************************************************************************)
Work(w, t) ==
  /\ \/ Quiet(w, t) /\ UNCHANGED inbox
     \/ /\ PublishOwn(w, t)
        /\ IF Connected(w) THEN Send(BotMessage("metadata", w, exec[w][t])) ELSE UNCHANGED inbox
     \/ /\ Report(w, t)
        /\ IF Tells(w) THEN Send(TaskMessage("completed", t, w)) ELSE UNCHANGED inbox
  /\ UNCHANGED <<unseen, terms, books, calls, lates, handler>>

PublishMetadata(w) ==
  /\ \E s \in Status :
       /\ Publish(w, s)
       /\ IF Connected(w) THEN Send(BotMessage("metadata", w, s)) ELSE UNCHANGED inbox
  /\ UNCHANGED <<unseen, terms, books, calls, lates, handler>>

\* The periodic reading.  Bound: one unpublished reading of all bots at a time.
ReadMetadata(w) ==
  /\ \A l \in Candidate : Len(inbox[l]) < MaxInbox
  /\ \A v \in Worker : snaps[v] = {}
  /\ Read(w)
  /\ UNCHANGED <<unseen, terms, books, calls, lates, inbox, handler>>

\* A bot learns of its leader, or is stopping.
BotLives(w) ==
  /\ Hear(w) \/ Dying(w)
  /\ UNCHANGED <<unseen, terms, books, calls, lates, inbox, handler>>

-----------------------------------------------------------------------------
(***************************************************************************)
(* The environment: detectors, kill requests, elections, crashes.          *)
(***************************************************************************)
\* WalkMQTT reports a place once.
Announce(t) ==
  /\ t \in unseen
  /\ unseen' = unseen \ {t}
  /\ Send(TaskMessage("new", t, NoBot))
  /\ UNCHANGED <<botVars, terms, books, calls, lates, handler>>

KillBot(w) ==
  /\ Kill(w)
  /\ Send(BotMessage("kill", w, "none"))
  /\ UNCHANGED <<unseen, terms, books, calls, lates, handler>>

CrashBot(w) ==
  /\ Crash(w)
  /\ UNCHANGED <<unseen, terms, books, calls, lates, inbox, handler>>

TakeOffice(l) ==
  /\ office[l] = "follower"
  /\ offices < MaxOffices
  /\ office' = [office EXCEPT ![l] = "leader"]
  /\ offices' = offices + 1
  /\ UNCHANGED <<botVars, unseen, books, calls, lates, inbox, handler>>

LeaveOffice(l) ==
  /\ l \in Deposable
  /\ Leads(l)
  /\ office' = [office EXCEPT ![l] = "follower"]
  /\ UNCHANGED <<botVars, unseen, offices, books, calls, lates, inbox, handler>>

\* Its memory is gone; requests already sent may still be executed.
CrashLeader(l) ==
  /\ l \in Mortal
  /\ office[l] # "crashed"
  /\ office' = [office EXCEPT ![l] = "crashed"]
  /\ ledger' = [ledger EXCEPT ![l] = [t \in Task |-> "none"]]
  /\ robot' = [robot EXCEPT ![l] = [t \in Task |-> NoBot]]
  /\ tries' = [tries EXCEPT ![l] = [t \in Task |-> 0]]
  /\ sweep' = [sweep EXCEPT ![l] = FALSE]
  /\ turns' = [turns EXCEPT ![l] = {}]
  /\ calls' = {c \in calls : c.leader # l} \cup
              {Now(c, "late") : c \in {d \in calls : d.leader = l /\ d.at = "sent"}}
  /\ inbox' = [inbox EXCEPT ![l] = <<>>]
  /\ handler' = [handler EXCEPT ![l] = AtRest]
  /\ UNCHANGED <<botVars, unseen, offices, known, lates>>

LeaderStep(l) == \/ Handle(l)
                 \/ TryAssignPending(l) \/ TryNext(l)
                 \/ \E t \in Task : Retry(l, t) \/ Monitor(l, t)

WorkerStep(w) == \/ \E t \in Task : Work(w, t)
                 \/ PublishMetadata(w) \/ ReadMetadata(w) \/ BotLives(w)

Next == \/ \E l \in Candidate : LeaderStep(l) \/ TakeOffice(l) \/ LeaveOffice(l) \/ CrashLeader(l)
        \/ \E w \in Worker : WorkerStep(w) \/ KillBot(w) \/ CrashBot(w)
        \/ \E c \in calls : AssignTask(c) \/ CallEnds(c)
        \/ \E t \in Task : Announce(t)

Spec == Init /\ [][Next]_vars

\* Whatever a goroutine, a callback or a ticker has to do, it does in the end;
\* calls are answered or fail.  Tickers wait for room in a queue only here, hence
\* strong fairness for what they do.
Progress ==
  /\ \A l \in Candidate : /\ WF_vars(Handle(l))
                          /\ WF_vars(TryAssignPending(l)) /\ WF_vars(TryNext(l))
                          /\ \A t \in Task : WF_vars(Retry(l, t)) /\ SF_vars(Monitor(l, t))
  /\ \A w \in Worker : /\ \A t \in Task : WF_vars(Work(w, t))
                       /\ WF_vars(PublishMetadata(w)) /\ SF_vars(ReadMetadata(w))
                       /\ WF_vars(BotLives(w))
  /\ \A l \in Candidate : \A t \in Task : \A w \in Worker :
       WF_vars(\E c \in calls : /\ c.leader = l /\ c.task = t /\ c.bot = w
                                /\ AssignTask(c) \/ CallEnds(c))

\* While nobody leads, somebody is elected (FirstLeader of Election).
Elections == WF_vars((\A l \in Candidate : ~Leads(l)) /\ \E l \in Candidate : TakeOffice(l))

FairSpec == Spec /\ Progress /\ Elections

-----------------------------------------------------------------------------
(***************************************************************************)
(* Properties.                                                             *)
(***************************************************************************)
\* The books of every candidate, the calls and the queues keep their types.
TypeOK ==
  /\ BotTypeOK
  /\ unseen \subseteq Task
  /\ office \in [Candidate -> {"follower", "leader", "crashed"}]
  /\ offices \in Nat /\ lates \in Nat
  /\ ledger \in [Candidate -> [Task -> {"none", "pending", "assigned"}]]
  /\ robot \in [Candidate -> [Task -> Worker \cup {NoBot}]]
  /\ known \in [Candidate -> [Worker -> Status \cup {"none"}]]
  /\ tries \in [Candidate -> [Task -> Nat]]
  /\ sweep \in [Candidate -> BOOLEAN]
  /\ turns \in [Candidate -> SUBSET Task]
  /\ calls \subseteq Call
  /\ inbox \in [Candidate -> Seq(Message)]
  /\ handler \in [Candidate -> [does : {"idle", "try", "fail"}, tasks : SUBSET Task]]

\* An assignment in the books of a leader that was never out of office is not
\* hollow: as long as its bot lives, and if it knew of a leader from the start, the
\* call to exactly that bot, its execution or the news of its end is under way,
\* however retries, sweeps and events about earlier assignments of the task were
\* interleaved.
AssignedIsBacked ==
  \A l \in Candidate \ Deposable : \A t \in Task : Assigned(l, t) =>
    /\ robot[l][t] \in Worker
    /\ robot[l][t] \in Unaware \/ Lost(robot[l][t]) \/ Backed(l, t, robot[l][t])

\* l counts on w to do t, and in vain.
Hollow(l, t, w) ==
  /\ Assigned(l, t) /\ robot[l][t] = w
  /\ w \notin Unaware /\ ~Lost(w) /\ ~Backed(l, t, w)

\* While a bot leads, no step makes one of its assignments hollow: not the kill of
\* another bot, whose tasks are failed one by one while retries and sweeps hand them
\* out again, nor what a second leader does with the same tasks and bots.  Only out
\* of office, when it ignores events, a bot misses the end of what it assigned.
BooksStaySound ==
  [][\A l \in Candidate : Leads(l) =>
       \A t \in Task : \A w \in Worker : Hollow(l, t, w)' => Hollow(l, t, w)]_vars

\* A leader that hears of a completion can rely on it, although a bot deletes the
\* place where it happens to stand when it is done, and neither the leader nor the
\* bot compares that with the task's: the bot takes one task at a time and stays.
\* A kill that reaches the reporting bot exempts it, that of another does not.
CompletedIsRepaired ==
  \A l \in Candidate : \A t \in Task : \A w \in Worker :
    ReportIn(inbox[l], t, w) /\ Trusted(w) => t \notin problems

\* No assignment stays in a leader's books for good, whatever is lost.
AssignmentsEnd ==
  \A l \in Candidate : \A t \in Task : Assigned(l, t) ~> ~Assigned(l, t) \/ ~Leads(l)

\* A leader does not take an idle bot for busy for good, although readings of
\* metadata overtake each other and a failed call leaves the bot marked busy.
KnownCatchesUp ==
  \A l \in Candidate : \A w \in Worker :
    known[l][w] = "busy" /\ status[w] = "idle" ~> \/ known[l][w] # "busy" \/ status[w] # "idle"
                                                  \/ Lost(w) \/ office[l] = "crashed"

\* Every announced problem gets repaired, whichever bot dies meanwhile.  It holds
\* for one task at a time; with several it does not.
EverythingRepaired == \A t \in Task : t \notin unseen ~> t \notin problems

-----------------------------------------------------------------------------
(***************************************************************************)
(* What the documents and comments say and the code does not do.           *)
(***************************************************************************)
\* Whatever might still bring t back into l's books, or see to it that it is done.
Underway(l, t) ==
  \/ \E i \in DOMAIN inbox[l] : inbox[l][i].task = t
  \/ t \in turns[l] \/ t \in handler[l].tasks \/ tries[l][t] > 0
  \/ \E c \in calls : c.task = t
  \/ \E w \in Worker : exec[w][t] # "none"

\* BULLY_ALGORITHM.md:87, "Failed: gRPC-Fehler -> zurueck zu Pending": a task
\* stays in the leader's books until it is done.  So a problem that was announced
\* and is still there is in them, unless nothing about it is settled yet.
LeaderKnowsAll ==
  \A l \in Candidate : Leads(l) =>
    \A t \in problems \ unseen : ledger[l][t] # "none" \/ Underway(l, t)
=============================================================================
