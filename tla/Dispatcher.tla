------------------------------ MODULE Dispatcher ------------------------------
(***************************************************************************)
(* The coordinator's own dispatcher (internal/coordinator/coordinator.go)  *)
(* with the MQTT handlers that feed its State (cmd/coordinator/main.go),   *)
(* and the service bots it calls (ServiceBot).  It gets its events over    *)
(* HTTP, beside the leader that gets its own over MQTT: the same bots also *)
(* work for the leader and report everything to the coordinator.           *)
(*                                                                         *)
(* One action is one critical section of State.Mu.  Every gRPC call, every *)
(* HTTP request and every goroutine is a step of its own.                  *)
(***************************************************************************)
EXTENDS ServiceBot

CONSTANTS
  CanDo,    \* CanDo[t]: the bots of the type that the problem of t requires
  Foreign,  \* tasks of the leader; the others are those the coordinator creates
  NoBot     \* RobotID -1

ASSUME DispatchAssumption == /\ CanDo \in [Task -> SUBSET Worker]
                             /\ Foreign \subseteq Task
                             /\ NoBot \notin Worker

VARIABLES
  found,    \* KnownProblems
  ledger,   \* the Status in Tasks; "new" is a goroutine about to run AssignTask
  robot,    \* task.RobotID
  listed,   \* the Status in Robots, "none" before the bot has registered
  sweep,    \* sweep[t]: the tryAssignPendingTasks started on t's completion
  turns,    \* turns[t]: the tasks it has yet to visit
  calls,    \* callRobotGRPC under way, as <<task, bot>>
  reports,  \* ReportCompletion requests on their way
  cleanups  \* deleteProblemFromWorld about to run, by place

state == <<found, ledger, robot, listed>>
sweeps == <<sweep, turns>>
vars == <<botVars, state, sweeps, calls, reports, cleanups>>

-----------------------------------------------------------------------------
Own == Task \ Foreign
Completion == [task : Task, bot : Worker, place : Cell]

\* What is in the map Tasks; a completed task is taken out.
Listed == {t \in Task : ledger[t] \in {"pending", "assigned"}}

\* Which of them is nearest is not modelled.
Idle(t) == {w \in CanDo[t] : listed[w] = "idle"}

\* The task is given to the bot, and a goroutine calls it.
Book(t, w) ==
  /\ ledger' = [ledger EXCEPT ![t] = "assigned"]
  /\ robot' = [robot EXCEPT ![t] = w]
  /\ listed' = [listed EXCEPT ![w] = "busy"]
  /\ calls' = calls \cup {<<t, w>>}

-----------------------------------------------------------------------------
(***************************************************************************)
(* Variants with a bug, to be put in the place of a definition below.      *)
(***************************************************************************)
\* VisitTask: a task that was pending when the sweep came by it is assigned.
VisitUnchecked(s, left) ==
  \E u \in left : \E w \in Idle(u) :
    /\ Book(u, w)
    /\ sweep' = [sweep EXCEPT ![s] = "on"]
    /\ turns' = [turns EXCEPT ![s] = {v \in left \ {u} : ledger[v] = "pending"}]

\* HandleMetadata: what the coordinator has booked it knows better.
MetadataOfIdle(w, s) ==
  listed' = [listed EXCEPT ![w] = IF @ = "busy" THEN @ ELSE s]

-----------------------------------------------------------------------------
Init ==
  /\ BotInit
  /\ found = {}
  /\ ledger = [t \in Task |-> "none"]
  /\ robot = [t \in Task |-> NoBot]
  /\ listed = [w \in Worker |-> "none"]
  /\ sweep = [t \in Task |-> "none"]
  /\ turns = [t \in Task |-> {}]
  /\ calls = {}
  /\ reports = {}
  /\ cleanups = {}

\* registerServiceBot; a bot does nothing before.
Register(w) ==
  /\ listed[w] = "none"
  /\ listed' = [listed EXCEPT ![w] = "idle"]
  /\ UNCHANGED <<botVars, found, ledger, robot, sweeps, calls, reports, cleanups>>

\* handleEventMessage: known, but no task; the leader assigns it.
Observe(c) ==
  /\ c \notin found
  /\ found' = found \cup {c}
  /\ UNCHANGED <<botVars, ledger, robot, listed, sweeps, calls, reports, cleanups>>

\* handleEvent: what is known is not assigned again.
HandleEvent(t) ==
  /\ t \in Own
  /\ ledger[t] = "none"
  /\ Target[t] \notin found
  /\ found' = found \cup {Target[t]}
  /\ ledger' = [ledger EXCEPT ![t] = "new"]
  /\ UNCHANGED <<botVars, robot, listed, sweeps, calls, reports, cleanups>>

\* A sweep may come by a task that enters the map while it waits for the lock.
Pend(t) ==
  /\ ledger' = [ledger EXCEPT ![t] = "pending"]
  /\ \E S \in SUBSET {s \in Task : sweep[s] = "on"} :
       turns' = [s \in Task |-> IF s \in S THEN turns[s] \cup {t} ELSE turns[s]]

\* AssignTask.  An event of neither type makes no task.
AssignTask(t) ==
  /\ ledger[t] = "new"
  /\ \/ ledger' = [ledger EXCEPT ![t] = "dropped"] /\ UNCHANGED <<robot, listed, turns, calls>>
     \/ \E w \in Idle(t) : Book(t, w) /\ UNCHANGED turns
     \/ Idle(t) = {} /\ Pend(t) /\ UNCHANGED <<robot, listed, calls>>
  /\ UNCHANGED <<botVars, found, sweep, reports, cleanups>>

(***************************************************************************)
(* tryAssignPendingTasks.  The lock is given up whenever a task has been   *)
(* assigned; a task is looked at when its turn comes.                      *)
(***************************************************************************)
Assignable(u) == ledger[u] = "pending" /\ Idle(u) # {}

\* Up to the next assignment, from some of the tasks that cannot be assigned.
VisitTask(s, left) ==
  \E u \in left : \E w \in Idle(u) :
    /\ ledger[u] = "pending"
    /\ Book(u, w)
    /\ sweep' = [sweep EXCEPT ![s] = "on"]
    /\ \E later \in SUBSET (left \ {u}) :
         /\ {v \in left \ {u} : Assignable(v)} \subseteq later
         /\ turns' = [turns EXCEPT ![s] = later]

TryAssignPending(s) ==
  /\ sweep[s] # "none"
  /\ LET left == IF sweep[s] = "ready" THEN Listed ELSE turns[s]
     IN  \/ VisitTask(s, left)
         \/ /\ \A u \in left : ~Assignable(u)
            /\ sweep' = [sweep EXCEPT ![s] = "none"]
            /\ turns' = [turns EXCEPT ![s] = {}]
            /\ UNCHANGED <<ledger, robot, listed, calls>>
  /\ UNCHANGED <<botVars, found, reports, cleanups>>

(***************************************************************************)
(* callRobotGRPC: whatever comes of it is only logged.                     *)
(***************************************************************************)
AcceptCall(t, w) ==
  /\ <<t, w>> \in calls
  /\ Accept(w, t)
  /\ calls' = calls \ {<<t, w>>}
  /\ UNCHANGED <<state, sweeps, reports, cleanups>>

\* The bot declines, cannot be reached, or ten seconds are over.
CallFails(t, w) ==
  /\ <<t, w>> \in calls
  /\ calls' = calls \ {<<t, w>>}
  /\ UNCHANGED <<botVars, state, sweeps, reports, cleanups>>

\* The leader calls.
AcceptForeign(t, w) ==
  /\ t \in Foreign
  /\ listed[w] # "none"
  /\ Accept(w, t)
  /\ UNCHANGED <<state, sweeps, calls, reports, cleanups>>

(***************************************************************************)
(* ReportCompletion and what it starts.                                    *)
(***************************************************************************)
ReportCompletion(r) ==
  /\ r \in reports
  /\ reports' = reports \ {r}
  /\ found' = found \ {r.place}
  /\ listed' = [listed EXCEPT ![r.bot] = "idle"]
  /\ IF r.task \in Listed
       THEN /\ ledger' = [ledger EXCEPT ![r.task] = "done"]
            /\ sweep' = [sweep EXCEPT ![r.task] = "ready"]
       ELSE UNCHANGED <<ledger, sweep>>
  /\ cleanups' = cleanups \cup {r.place}
  /\ UNCHANGED <<botVars, robot, turns, calls>>

LoseReport(r) ==
  /\ r \in reports
  /\ reports' = reports \ {r}
  /\ UNCHANGED <<botVars, state, sweeps, calls, cleanups>>

\* deleteProblemFromWorld, by then for whatever is at the place.
DeleteProblem(c) ==
  /\ c \in cleanups
  /\ cleanups' = cleanups \ {c}
  /\ \/ DeleteAt(c)
     \/ WorldFails /\ UNCHANGED botVars
  /\ UNCHANGED <<state, sweeps, calls, reports>>

(***************************************************************************)
(* The service bots, with what they publish and report.                    *)
(***************************************************************************)
\* handleBotMetadataMessage, by the time the message is published.
HandleMetadata(w, s) == listed' = [listed EXCEPT ![w] = s]

\* The place is read when the bot reports, and may not be the task's any more.
Work(w, t) ==
  /\ \/ Quiet(w, t) /\ UNCHANGED <<listed, reports>>
     \/ /\ PublishOwn(w, t)
        /\ IF Connected(w) THEN HandleMetadata(w, exec[w][t]) ELSE UNCHANGED listed
        /\ UNCHANGED reports
     \/ /\ Report(w, t)
        /\ reports' = reports \cup {[task |-> t, bot |-> w, place |-> pos[w]]}
        /\ UNCHANGED listed
  /\ UNCHANGED <<found, ledger, robot, sweeps, calls, cleanups>>

PublishMetadata(w) ==
  /\ \E s \in Status :
       /\ Publish(w, s)
       /\ IF Connected(w) THEN HandleMetadata(w, s) ELSE UNCHANGED listed
  /\ UNCHANGED <<found, ledger, robot, sweeps, calls, reports, cleanups>>

ReadMetadata(w) ==
  /\ listed[w] # "none"
  /\ Read(w)
  /\ UNCHANGED <<state, sweeps, calls, reports, cleanups>>

\* Whether a bot knows of a leader makes no difference here.
BotStops(w) ==
  /\ Kill(w) \/ Dying(w) \/ Crash(w)
  /\ UNCHANGED <<state, sweeps, calls, reports, cleanups>>

Next == \/ \E w \in Worker : \/ Register(w) \/ PublishMetadata(w)
                              \/ ReadMetadata(w) \/ BotStops(w)
        \/ \E t \in Task : HandleEvent(t) \/ AssignTask(t) \/ TryAssignPending(t)
        \/ \E t \in Task, w \in Worker : \/ AcceptCall(t, w) \/ CallFails(t, w)
                                         \/ AcceptForeign(t, w) \/ Work(w, t)
        \/ \E r \in reports : ReportCompletion(r) \/ LoseReport(r)
        \/ \E c \in Cell : Observe(c) \/ DeleteProblem(c)

Spec == Init /\ [][Next]_vars

\* The goroutines of a bot go on and its ticker ticks.  Nothing is asked of the
\* coordinator, of calls or of requests.
Progress == \A w \in Worker : /\ \A t \in Task : WF_vars(Work(w, t))
                              /\ WF_vars(ReadMetadata(w)) /\ WF_vars(PublishMetadata(w))

FairSpec == Spec /\ Progress

-----------------------------------------------------------------------------
(***************************************************************************)
(* Properties.                                                             *)
(***************************************************************************)
\* The coordinator's state and what is on its way keep their types.
TypeOK ==
  /\ BotTypeOK
  /\ found \subseteq Cell
  /\ ledger \in [Task -> {"none", "new", "dropped", "pending", "assigned", "done"}]
  /\ robot \in [Task -> Worker \cup {NoBot}]
  /\ listed \in [Worker -> Status \cup {"none"}]
  /\ sweep \in [Task -> {"none", "ready", "on"}]
  /\ turns \in [Task -> SUBSET Task]
  /\ calls \subseteq Task \X Worker
  /\ reports \subseteq Completion
  /\ cleanups \subseteq Cell

\* Where a task of the coordinator's is on its way.
At(t, w) == \/ <<t, w>> \in calls \/ exec[w][t] # "none"
            \/ \E r \in reports : r.task = t /\ r.bot = w

\* Whatever sweeps, completions and metadata do to the list of robots meanwhile,
\* a task of the coordinator's is called, executed or reported by the one robot the
\* coordinator has given it to and while it counts as assigned: no two sweeps give
\* one task to two robots, and no completion comes for a task that is pending.
WorkIsBooked ==
  \A t \in Own : \A w \in Worker : At(t, w) => ledger[t] = "assigned" /\ robot[t] = w

\* A task the coordinator counts as completed is one whose problem is gone, unless
\* a kill has reached the very robot that reported it: robots, problems at one place,
\* and the coordinator's own deletions do not mix up whose problem a robot deletes.
DoneIsRepaired ==
  \A t \in Own : ledger[t] = "done" /\ Trusted(robot[t]) => t \notin problems

\* However sweeps, completions and lost calls are interleaved, the coordinator gives
\* each of its tasks to one robot and once, and a completion is by work that it gave
\* away and leaves none of it behind.
Bookings == INSTANCE Booking WITH
              Task  <- Own,
              owner <- [t \in Own |-> robot[t]],
              work  <- {p \in Own \X Worker : At(p[1], p[2])},
              done  <- {t \in Own : ledger[t] = "done"}
GivenOnce == Bookings!Spec

\* No robot is taken for busy for good while it is idle, whatever was declined,
\* failed or reported meanwhile.
RobotsComeBack ==
  \A w \in Worker : listed[w] = "busy" /\ status[w] = "idle" ~>
                      listed[w] # "busy" \/ status[w] # "idle" \/ ~Connected(w)
=============================================================================
