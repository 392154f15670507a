# RobotSimulation: specifications and proofs

TLA+ models of the robot simulation in `src/`: service bots that elect a leader
among themselves over MQTT, the leader that sends bots to repair what detectors
find, and the world and coordinator services around them. TLC checks the models
on small instances; TLAPS proves the main safety properties for every value of
the constants. Paths below are relative to the repository, with its files under
`src/`; BULLY stands for `src/BULLY_ALGORITHM.md`.

    tlc -workers 2 -config Election_faults.cfg MCElection.tla
    tlapm ElectionProofs.tla

## 1. The system

| Component | Source | State it keeps | Operations |
|---|---|---|---|
| Service bot, election | `internal/serviceBots/election.go` | LeaderState, LeaderID, Term, ElectionInProgress, VotesReceived, election timer, heartbeat ticker | startElection, becomeLeader, becomeFollower, handlers of HEARTBEAT, ELECTION, ANSWER, VICTORY and kill |
| Service bot, leader's tasks | `internal/serviceBots/task_assignment.go`, `election.go:495-551` | PendingTasks, AssignedTasks, KnownBots, sleeping retries, calls | handleNewTask, tryAssignTask, assignTaskViaGRPC, failure, timeout, completion, death, metadata |
| Service bot, execution | `internal/serviceBots/servicebot.go` | Status, TaskStop, position, running executions | AssignTask, executeTaskMQTT, PublishMetadata, reportTaskCompletion |
| MQTT wrapper | `internal/mqtt/client.go` | session | Publish (waits for the acknowledgement), Subscribe, auto-reconnect |
| World | `internal/world/world.go` | Problems, last leader seen | place, query and delete a problem, forward a kill |
| Detector | `internal/detector/detector.go` | position, direction, reported places | walk, report, announce |
| Coordinator, observer | `cmd/coordinator/main.go`, `internal/coordinator/coordinator.go` | KnownProblems, Robots | register, handleEventMessage, ReportCompletion |
| Coordinator, own dispatcher | `internal/coordinator/coordinator.go:426-641` | Tasks, Robots, KnownProblems | handleEvent, AssignTask, callRobotGRPC, ReportCompletion, tryAssignPendingTasks |
| Entry points, gRPC stubs, HTML, Docker | `cmd/*`, `internal/taskpb` | none | wiring, generated code |

How they interact. A person places problems at the world service over HTTP.
Detectors walk the grid, ask the world about every place they stand on, tell the
coordinator (`events/...`) and announce a task (`tasks/new`). Every bot subscribes
to tasks; the one that leads assigns each to an idle bot of the right type over
gRPC, and publishes what it does on `tasks/events`, which all bots (itself too)
receive. Bots publish metadata when something changes and every five seconds, from
which every bot learns who is idle. A bot that has repaired a problem deletes it
from the world, reports on `tasks/events`, and calls the coordinator, which clears
its map and deletes the problem once more. Beside all this the coordinator still has the
dispatcher it had before bots elected leaders: an event that comes over HTTP
(`handleEvent`) makes a task of its own, which it gives to the nearest idle robot of its
list, over the same gRPC call the leader uses.

Threads. Each bot has an election loop, election goroutines started by
`handleElection`, a heartbeat goroutine, one MQTT callback thread (callbacks of a
client are ordered), goroutines for calls, retries, sweeps and timeouts, gRPC
handlers and executions. `bot.Mu` and `bot.TaskMu` protect some of the fields,
some of the time.

What makes each part correct, and what is hard about it:

* Election: someone leads; two leaders do not stay; a flag or a timer is never left
  in a state in which a bot is out of the game. Hard: locks given up in the middle
  of a transition, elections that sleep two seconds and find another world, crossing
  VICTORY messages, crashes between ANSWER and VICTORY, killed bots whose goroutines
  live on, sessions that come back without subscriptions.
* Leader's tasks: an assignment in the books is really under way; it ends; a
  problem is repaired whoever dies; a task is not forgotten. Hard: the leader hears
  its own events late, retries hold pointers to tasks that have moved on, calls that
  fail after they were accepted, timeouts for bots that are only slow, two leaders.
* Execution: one task at a time; busy exactly while working; a report is true.
  Hard: the kill changes the status in the middle, metadata is read and published in two
  steps, and the place that is reported is read when the next task may have moved the bot.
* Detection: every problem is found, no task is announced twice, a phantom on the map has a reason.
  Hard: the corners of the zigzag, publications that fail, two detectors, two DELETEs.
* Dispatcher: a task is at one robot at most, the one it is booked for; a robot does not
  count as busy for good. Hard: the lock is given up inside the iteration over the tasks,
  every completion starts such an iteration, calls that fail are only logged, and bots
  publish over what the coordinator has booked.

`PROJECT.json` lists every hazard at its line with the properties that are about it.

## 2. The modules

| Module | What it is |
|---|---|
| `Leadership` | abstract specification: rivalry between leaders is never silent |
| `Election` | the election, at the grain of critical sections; implements `Leadership` |
| `ServiceBot` | bots on their own: any call may come at any time; the specification of a bot as the leader sees it |
| `TaskAssignment` | the leader's task management, the calls and queues, with the bots of `ServiceBot`, whose specification it implements |
| `Detection` | world, detectors, coordinator's map |
| `DetectionHistory` | the same with a history variable, the age of each problem in a detector's steps |
| `Booking` | abstract specification: a task is given to one robot and once |
| `Dispatcher` | the coordinator's own dispatcher, with the bots of `ServiceBot`, whose specification it implements, and the leader as a second caller; implements `Booking` |
| `MC...` | the instances: sets of bots, bounds on their elections, a state constraint, symmetry, the maps from tasks to bots and places |
| `...Proofs` | theorems |

Composition. `TaskAssignment` EXTENDS `ServiceBot` and shares its variables: the
step in which a bot accepts a call, executes, reports, publishes or dies is the
bot's action conjoined with what it does to the leader's queues and calls, so
`BotSpec` holds of it by construction. That is said by a lemma (`BotsImplemented`), by which
what is proved of bots on their own is carried over. `Dispatcher` composes the same bots with
the coordinator in the same way (lemma `DispatchedBotsImplemented`).
`TaskAssignment` takes from `Election` only what matters to tasks: candidates take
and leave office at any time, also two at once. `Detection` takes from
`TaskAssignment` that an announced task is repaired some time, or never.

### Election

| Model | Code |
|---|---|
| `leaderState, leaderID, term, inProgress, votes` | the fields of ServiceBot |
| `timer[b]` | `bot.ElectionTimeout` is armed or has fired unread |
| `heartbeat[b]`, `hbOut[b]` | a ticker with its goroutine; a term read under the lock and not published yet |
| `link[b]` | process and session: `boot, up, deaf` (reconnected without subscriptions), `killed`, `crashed` |
| `inbox[b]` | what the broker has for the bot's callback thread, in order |
| `handler[b]` | where a callback that gave up the lock in the middle is |
| `run[b][g]` | where a goroutine in startElection is: the loop, or one of `Spawn` |
| `Start .. End` | startElection with becomeLeader and becomeFollower, one action per critical section or publication |
| `Handle...`, `Contest`, `Follow`, `Followed`, `Disconnect` | the handlers, split where they give up the lock |
| `Crash`, `Kill`, `Reconnect` | faults |

Abstractions. Time limits are untimed: an armed timer may fire at any moment, and a
sleeping election may wake at any moment. The loop that blocks on a timer which has
meanwhile been replaced (it re-reads the field when the metadata ticker fires) is
only slow, hence covered. Data races of the Go code are writes and reads of one word and
treated as atomic; `LeaderID`, read without the lock at `election.go:185`, is either
the value seen before or the present one. ELECTION and ANSWER carry terms nobody
reads; they are left out. The broker delivers a publication to all subscribers in
one step and keeps their order; a session that is re-established is clean, which is
paho's default. QoS 1 duplicates are not modelled. A bot that restarts gets a new ID
from the coordinator, so a crash is final.

### ServiceBot

| Model | Code |
|---|---|
| `life[w]` | `up`, then the four steps of a kill: `told, offline, stopped, killed`; or `crashed` |
| `aware[w]` | LeaderID is not 0 |
| `pos[w]` | `bot.X`, `bot.Y`; anywhere at first |
| `status`, `stop` | `bot.Status`; the channel `bot.TaskStop` |
| `exec[w][t]` | where the goroutine that executes a task is |
| `snaps[w]` | metadata that was read and not published yet |
| `problems` | what the world still has |

`Walk` is one iteration of the loop at `servicebot.go:343`: one step of whatever
execution runs it, from wherever the bot is (`Toward`: along x first, then y). A DELETE
takes the problem from where the bot stands (`Here`), which is the task's own place as long as
one execution moves the bot. `DeleteAt` is a DELETE from elsewhere; only the coordinator
sends one.

### TaskAssignment

| Model | Code |
|---|---|
| `ledger[l][t]`, `robot[l][t]` | in PendingTasks, in AssignedTasks, or in neither; `task.RobotID` |
| `known[l][w]` | Status in KnownBots, or `none` |
| `tries`, `sweep`, `turns` | sleeping retries; a tryAssignPendingTasks to come; what a running one has left |
| `calls` | AssignTask calls: sent, accepted, declined, not yet returned |
| `inbox[l]`, `handler[l]` | MQTT queue; the tasks a callback still has to try or fail |
| `office[l]` | whether the candidate leads |
| `unseen` | problems no detector has announced yet |

Abstractions. The nearest idle bot is any idle bot of the type. `LastSeen` grows old
only for bots without a session. A handler reads LeaderState under `bot.Mu` and
then enters `bot.TaskMu`; as nothing under TaskMu changes LeaderState, and a change
in between has the effect of one just after, the two are one step. "assigned" events
change nothing in any receiver and are left out, as is TaskEventLog. Candidates and
workers are disjoint sets in the model although each bot is both; what a kill does to
a leader is in `Election`. A time limit (5 s of a call, 30 s of a task) may pass when
what it waits for was lost, and besides at most `MaxLate` times for what is only slow:
on the 20 by 20 grid a walk takes at most 19 s and a repair 2 s, so in the code a
timeout without a loss takes an unusual delay.

### Detection

| Model | Code |
|---|---|
| `problems`, `placed` | State.Problems of the world; how many were placed (bound) |
| `known`, `cleanups` | KnownProblems of the coordinator; its DELETE requests under way |
| `stage, pos, forward, steps, reported` | WalkMQTT |
| `event[<<d, c>>]`, `task[<<d, c>>]` | the two goroutines a find starts, and what became of the task |
| `Look, Move` | one iteration of the loop before and after its pause |
| `Step` | the zigzag |

`Prompt` says that publications end within the half second between two steps. It says
nothing of bots: in `ReportCompletion` the report of a task names any place, since the bot has
been idle for a while when it reads its own, or never arrives (`Failing`), as one call is all the bot
tries. `DeleteProblem` is the DELETE of bot and coordinator, which may fail as well.

### Dispatcher

| Model | Code |
|---|---|
| `found` | KnownProblems |
| `ledger[t]`, `robot[t]` | the task's Status in Tasks, `new` while the goroutine of handleEvent has not run yet; `task.RobotID` |
| `listed[w]` | the Status in Robots, `none` before the bot has registered |
| `sweep[t]`, `turns[t]` | the tryAssignPendingTasks started on t's completion: about to take the lock, or in its iteration with these tasks left |
| `calls` | goroutines in callRobotGRPC |
| `reports`, `cleanups` | ReportCompletion requests; deleteProblemFromWorld about to run |
| `HandleEvent`, `Observe` | `handleEvent`; `handleEventMessage` of the observer |
| `AssignTask` | AssignTask under the lock |
| `TryAssignPending` | the stretch of tryAssignPendingTasks from one assignment to the next |
| `AcceptCall`, `CallFails` | callRobotGRPC; nothing follows from an error or a refusal |
| `AcceptForeign` | a call of the leader, for a task in `Foreign` |
| `HandleMetadata` | handleBotMetadataMessage |

Abstractions. The nearest idle robot is any idle robot of the type (`CanDo`). Go's range
over a map visits the tasks in any order, and may or may not visit one that is added
meanwhile (`Pend`). Between two assignments the code holds the lock, so a stretch of
visits that assign nothing is one step (`VisitTask`). Every bot registers with its gRPC
address, so the branch for an empty `GRPCAddr`, which would assign without a call, is left
out. The Task's own RobotID after completion and LastSeen are read by nobody. A message a bot
publishes is handled by the coordinator in the step in which it is published, as it has
one subscriber only; a request over HTTP or gRPC may take any time. Robots are
never removed from the list. A restart of the coordinator is not modelled.

## 3. What the runs check

Every run fits in a few minutes on a small machine. `CHECK_DEADLOCK FALSE` throughout: the
system may come to rest (all tasks done, a walk over, every bot dead), and all
bounds stop the models sooner or later.

### Runs that pass

| Run | Instance | Properties | States |
|---|---|---|---|
| `Election_faults` | 2 bots with heartbeats, 1 election each; bot 1 may crash or reconnect, bot 2 be killed | `TypeOK`, `NoSilentSplitBrain`, `LeaderKnowsItself`, `NoOrphanedElection`, `OnlyHigherBotsOutvote`, `RivalriesAreSettled` (refinement of `Leadership`) | 979 k |
| `Election_three` | 3 bots, the second standing twice, no heartbeats or faults | `NoOrphanedElection`, `TermsAreReached`, `RivalriesAreSettled` | 794 k |
| `Election_live` | 2 bots with heartbeats, 1 election each, no faults | `FirstLeader`, `SplitBrainHeals`, `DeposedFallSilent` | 107 k |
| `Tasks_late` | 1 leader, 2 bots, 1 task, 1 late time limit | `AssignedIsBacked`, `ReportedIsRepaired` | 1.4 M |
| `Tasks_upset` | 2 bots, 2 tasks in 2 places; 2 candidates that may lose office, regain it, die and lead beside each other; or one leader, a bot that is killed, and 1 late time limit | `TypeOK`, `CompletedIsRepaired`, `BooksStaySound` | 660 k |
| `Tasks_survive` | 1 leader, 2 bots, one may crash or know no leader | `EverythingRepaired`, `AssignmentsEnd`, `KnownCatchesUp` | 30 k |
| `Detection_found` | 1 detector, 3 by 3, no failures | `FoundWithinARound`, `EveryProblemIsFound`, `EveryPlaceInTurn` | 73 k |
| `Detection_walk` | 2 detectors, 2 by 2, failures, one may stop | `TypeOK`, `MarksAreExplained`, `AnnouncedOnce`, `EveryPlaceInTurn` | 1.5 M |
| `Dispatch_work` | 2 bots, one may be killed; 3 tasks in 2 places | `TypeOK`, `WorkIsBooked`, `BusyWithOneTask`, `DoneIsRepaired`, `GivenOnce` (refinement of `Booking`), `EveryStepNearer` | 602 k |
| `Dispatch_live` | 1 bot that may crash, one task of the coordinator's, one of the leader's, a world that may not answer | `ExecutionsEnd`, `RobotsComeBack` | 119 k |

What the less obvious properties say:

* `NoSilentSplitBrain`: of any two subscribed leaders one has not yet published its
  VICTORY, or has not yet read the other's, or is stepping down. The election may make
  two leaders; this is why they do not stay. It depends on VICTORY being accepted
  whatever its term, which BULLY:49 denies.
* `RivalriesAreSettled`: `Leadership!Spec` under the mapping `office` = subscribed
  leaders, `owed` = pairs one of whose news the other has yet to take in. A debt
  disappears only when one of the two leaves office.
* `NoOrphanedElection`: with the flag set and no goroutine to reset it the bot would
  return at `election.go:135` for ever.
* `OnlyHigherBotsOutvote`: `VotesReceived` counts answers to whichever election of the bot
  they were meant for, as they carry no number. All the same a bot is outvoted only if a
  higher one has joined, and the highest one never is.
* `TermsAreReached`: a term is read under the lock and published after it, and callbacks adopt
  terms of others in between. What is published is never ahead of its sender, nor does the
  sender ever fall behind what it has published.
* `AssignedIsBacked`: for every task in `AssignedTasks` of a leader, a call to exactly
  the bot in `RobotID`, its execution there, or the completion on its way to that
  leader exists, or the bot is dead. Calls that fail late, declined calls, events of
  earlier assignments and retries of old pointers all try to break it.
  Bots that began without knowing a leader (`Unaware`) and leaders that may be deposed are
  excepted: there it does not hold, and `AssignmentsEnd` is what holds instead.
* `BooksStaySound`: no step makes an assignment of a bot that leads *hollow*, one with nothing
  of the above behind it. This is what remains of `AssignedIsBacked` for leaders that come
  and go: only while a bot is out of office, and ignores events, can it miss the end of what it
  assigned. `Tasks_upset` checks it with two leaders that take up the same task, and with a
  kill: a task that `handleBotDeath` collected may have been given to a living bot before its
  turn comes, a sweep and a handler may hold the same task, and the killed bot may go on
  executing.
* `CompletedIsRepaired`, `ReportedIsRepaired`, `DoneIsRepaired`: a bot deletes the place where
  it stands, and reports the task. That the two agree depends on one execution at a time
  moving it, so it is said of a bot until a kill has reached it (`Trusted`), whatever
  happens to others: of what it reports (`Tasks_late`, where late requeues send two bots to
  one place), of what is on its way to the leader (`Tasks_upset`, where there are two places to
  confuse and a walk between them), and of what the coordinator marks as completed. All three
  assume that the world answers: a DELETE that fails is only logged, and the completion is false then.
* `EverythingRepaired` is checked for one task, where it holds although any bot may
  die or report to nobody. With several tasks it does not hold: see `Tasks_forgotten`
  and "stranded" below.
* `KnownCatchesUp`: a leader does not believe an idle bot busy for good, although
  a failed assignment leaves the mark (`task_assignment.go:218-222`).
* `EveryProblemIsFound`: wherever a detector stands and whichever way it walks, a
  problem at a place it has not reported is announced within `2 * Width * Height`
  further steps, provided that many are left and no request or publication fails (see "lost"
  below). Of the code's 1000 steps on 20 by 20 the first 200 leave so many; of problems that
  appear later nothing is said.
* `FoundWithinARound`: the same as an invariant of `DetectionHistory`. A problem that stands
  where a detector has not reported one is younger than `2 * Width * Height` steps of that
  detector, and the bound is tight. Steps are what the walk's limit of 1000 counts.
* `EveryPlaceInTurn`: number the places row by row in the direction in which a row is walked on
  the way down, and count on along the way up; each step of a detector leads to the place whose
  turn is next. This is the safety side of `EveryProblemIsFound`: no corner or edge of a grid
  of any shape makes the walk leave out a place.
* `BusyWithOneTask`: until a kill reaches it a bot works on one task at a time and is busy
  exactly while it does, although two callers ask it and the end of an execution meets the
  next request.
* `EveryStepNearer`: each cell such a bot moves brings it nearer to the problem of the one task
  it executes; no goroutine of an earlier task still steers it. With it goes `ExecutionsEnd`.
* `ExecutionsEnd`: every walk ends. It depends on one execution at a time moving the bot:
  after a kill two may, and it fails (see "endless" below).
* `WorkIsBooked`: a task of the coordinator's is called, executed or reported only by the
  robot it is booked for, and while it is booked. Sweeps that gave up the lock, metadata
  that frees a robot early, and tasks that are visited twice all try to break it.
* `GivenOnce`: `Booking!Spec` under the mapping `owner` = `task.RobotID`, `work` = calls,
  executions and reports under way, `done` = tasks marked as completed. A task gets one
  robot and never another; work may get lost but does not start again; a completion is
  by work of the owner and leaves none behind.
* `RobotsComeBack`: a robot that is idle is not listed as busy for good, whatever call failed
  or report was lost; its metadata puts it right. Of its task nothing is said: see
  "stuck" below.
* `MarksAreExplained`: the coordinator clears a place of its map when a bot reports it, and never
  otherwise. A place on the map where the problem is gone has a task whose report is yet to come,
  or one of three things has happened: the task was not announced, its report was lost, or it
  named another place. There is no fourth: not the second detector's event about what is repaired, nor
  wrong reports of other tasks, nor DELETEs that fail or come late. It needs `Prompt`: an event
  published after the repair was reported leaves a phantom.

### Runs that find a disagreement with the documents

| Run | Property | Said | Done by the code |
|---|---|---|---|
| `Election_orphaned` | `SurvivorsElect` | BULLY:123-124 | an answered candidate does not re-arm its timer; if the bot that answered dies, nobody stands again |
| `Tasks_forgotten` | `LeaderKnowsAll` | BULLY:87 | the leader's own "failed" event ends the task's next assignment; the call and the retry come to nothing, and the task is nowhere |

The trace of `Tasks_forgotten`: a bot crashes and is given `t1`; the other one completes `t2`, which
starts a sweep. The call for `t1` fails, so `t1` is pending again, a retry sleeps and "failed" is on its
way. The sweep gives `t1` to the living bot, and the event then takes that assignment out of the
books (`task_assignment.go:363`). The retry finds both bots busy and does not put `t1` back among the
pending tasks (`task_assignment.go:127`). The living bot crashes before the call reaches it; the call fails,
and the failure is ignored because `t1` is not assigned (`task_assignment.go:209`). `LeaderKnowsAll`
counts as known whatever could still bring the task back (`Underway`): a message, a retry, a sweep,
a handler, a call, an execution. There is none at the end.

### Further disagreements

Met while modelling, and found by TLC as counterexamples in these models. They are
consequences of single lines that a reader can check, and no run is kept for them.

| | Said | Done by the code |
|---|---|---|
| duplicate | `servicebot.go:56`, ElectionInProgress "Prevents duplicate elections" | `handleVictory` and `handleAnswer` reset the flag under a sleeping election; a second one starts |
| old term | BULLY:49, only messages of the current or a higher term | `handleVictory` compares no terms (which is what makes rivalries end) |
| lower ID | BULLY:130, 137, the higher ID wins | neither `handleVictory` nor `handleHeartbeat` compares IDs |
| dethroned | BULLY:40, a follower without heartbeats stands | the loop does not look whether the bot leads, and its timer stays armed: a leader makes itself a candidate |
| echo | `servicebot.go:51`, LeaderID is the current leader | a deposed leader believes its own late heartbeat (`election.go:335`) |
| deaf | BULLY:136, after a partition both see heartbeats; `mqtt_nonfunctional_test.go:385` | nothing subscribes again after a reconnection: two leaders stay |
| killed | `election.go:446-469`, a killed bot shuts down | the process goes on: a sleeping election may still make it leader, it still accepts tasks over gRPC, and as "offline" has overwritten "busy" it executes two at a time |
| cancelled | `servicebot.go:65`, TaskStop cancels the current task | a task accepted around the kill replaces the channel, and both are carried out |
| stranded | BULLY:83, a pending task waits for an idle bot | metadata do not make the leader try pending tasks |
| failover | BULLY:104-111, a new leader recovers the state | its books are empty: "assigned" is ignored and followers ignore `tasks/new` |
| twice | BULLY:193, no double assignments | `tryAssignTask` does not look whether the task is pending |
| left busy | `task_assignment.go:221` | RobotID is cleared before it is used to find the bot |
| undead | `README.md:222`, a dead bot is marked offline | late metadata and the timeout of its task make it idle again |
| lost | `README.md:526`, reliable delivery | a place is marked as reported before a publication that may fail |
| vanished | `README.md:137`, a problem is removed after it was repaired | the coordinator deletes the place once more when it is told, and hits a new problem (`coordinator.go:578`) |
| endless | `servicebot.go:65`, TaskStop cancels the current task | of two executions after a kill each takes back the other's step, and neither ends |
| elsewhere | `proto/task.proto:35-36`, a report names the problem's place | `servicebot.go:402` reads the bot's place after the status became idle; if the next task has moved the bot by then the coordinator clears its map, and deletes a problem, at another place |
| stuck | `internal/coordinator/robot_failure_test.go:13`, tasks of crashed robots are reassigned in the end | a call that fails or is declined is only logged (`coordinator.go:522`), and the task stays assigned for good |
| steps | `README.md:181`, a detector walks 100 steps | the loop has 1000 |

### Mutants

Each property of a passing run is broken by a variant of one definition of the model
that has a bug of the kind a change could bring in (`mutants` in `PROJECT.json`); the
variants stand in a section of their own in each module and nothing uses them.

## 4. Bounds, and why they are enough

* Election. Two bots show every pairwise race, and `NoSilentSplitBrain` is about pairs; a
  third one is needed only for an election that wakes outvoted while a second one of the same
  bot has set the flag again (`Yield`). `MaxTerm[b]` is the term from which b starts no
  election: each bot stands once in `Election_faults` and `Election_live`; the lower one
  twice in `Election_orphaned`; in `Election_three` bot 1 once, bot 2 twice, and bot 3
  only answers. `Spawn` has one goroutine beside the loop: with two, a bot runs two elections
  at a time, which is what the races need. `MaxInbox` only delays heartbeat ticks; 0 means
  that no heartbeats are sent. `FewWaiting`, the state constraint of `Election_faults`, lets at
  most two messages wait for a bot and three for both; `Crowd`, that of `Election_three`, has
  all bots subscribed before the first election besides. The theorems have none of these bounds.
* Tasks. Two bots so that a task can move from one to another; two tasks in
  `Tasks_upset` and `Tasks_forgotten`, where a bot is free for one while another waits. With
  `MaxOffices` 2 a leader may be deposed and come back while the other leads. `MaxTries`
  bounds the sleeping retries of a task. `MaxInbox` delays tickers, that is metadata and the
  timeout monitor; in `Tasks_upset` and `Tasks_forgotten` it is 0 and there are none, since two
  leaders, or a kill, with tickers are out of reach. `OneUpset`, the state constraint of
  `Tasks_upset`, allows one kind of upset in a behaviour. Either there are changes of office,
  until the second task is announced: what two leaders do with one task is seen in full. Or one
  bot is killed under one leader, with all announced tasks and the bots in one place from then
  on, at most two messages waiting, and one time limit that passes too early. In
  `Tasks_late` and `Tasks_survive` walking is not the question and all is in one place (`AllHere`).
* Dispatcher. Three tasks for two bots, so that one waits and is found by the sweep that
  another's completion starts, while the third is in the middle of its own; one problem is
  at one end of a row of two places and two are at the other, so that bots walk and a report
  may name the wrong end (`Ends`). A walk is one step there; for longer ones
  `EveryStepNearer` rests on its theorem. `Calm`, the constraint of `Dispatch_work`: one bot at a time
  has metadata of its ticker on its way, and while a bot is killed there is but one task of the
  coordinator's, one request and no other kill. `Dispatch_live` has
  one task of each caller, which meet at the one bot. The theorems have none of these bounds.
* Detection. 3 by 3 has a corner, an edge and an inner row. The walk over an even number
  of rows, which turns at the other side, is in `Detection_walk`, where `EveryPlaceInTurn`
  says of its steps that they leave nothing out; the theorem says so of every grid. `Steps` is one
  round of the walk and a little more in `Detection_found`; 3 in `Detection_walk`, with all starting
  places, is enough to meet each corner and for both detectors to find the one problem that is placed.

Symmetry: workers and tasks are interchangeable in the runs of `MCTaskAssignment` that
check safety only; bots of the election are ordered by ID and are not.

## 5. Fairness

* `Election!Progress`: weak fairness for goroutines and callbacks, which the Go scheduler
  gives; strong for heartbeat ticks, because only the bound `MaxInbox` disables them.
  `TimersFire`: an armed timer fires while nobody leads. Nothing is assumed about timers
  while somebody leads, since heartbeats reset them.
* `ServiceBot!BotProgress`: an execution goes on; a kill once begun is finished. Nothing
  makes calls come.
* `TaskAssignment!Progress`: handlers, sweeps, retries, calls (they have a deadline),
  executions and tickers go on; strong fairness for the tickers, for the same reason as above.
  `Elections`: while nobody leads somebody takes office, which is `FirstLeader` (and
  which `Election_orphaned` shows to be too kind to the code after some crashes).
* `Dispatcher!Progress`: the executions of a bot go on, and its ticker reads and publishes its
  metadata, as long as the process runs. Nothing is asked of calls, of requests or of the coordinator.
* `Detection!Progress`: walks and publications go on; nothing is said of bots.

## 6. What is proved

| Theorem | Statement | Assumes |
|---|---|---|
| `ElectionProofs!Typing` | `Spec => []TypeOK` | |
| `ElectionProofs!SplitBrainIsNeverSilent` | `Spec => []NoSilentSplitBrain` | |
| `ElectionProofs!LeadersKnowThemselves` | `Spec => []LeaderKnowsItself` | |
| `ElectionProofs!ElectionsAreNeverOrphaned` | `Spec => []NoOrphanedElection` | |
| `ElectionProofs!ElectionsAreLostToHigherBots` | `Spec => []OnlyHigherBotsOutvote` | |
| `ElectionProofs!TermsComeFromElections` | `Spec => []TermsAreReached` | |
| `LeadershipProofs!RivalsAreNeverSilent` | `Leadership!Spec => []NoSilentRivals` | |
| `RivalryProofs!RivalriesSettled` | `Spec => RivalriesAreSettled`, that is `Leadership!Spec` under the mapping | |
| `ServiceBotProofs!BotTyping` | `BotSpec => []BotTypeOK` | |
| `ServiceBotProofs!BusyTheorem` | `BotSpec => []BusyWithOneTask` | |
| `ServiceBotProofs!ReportsAreTrue` | `BotSpec => []ReportedIsRepaired` | `~WorldFails` |
| `ServiceBotProofs!StepsLeadToTask` | `BotSpec => EveryStepNearer` | |
| `TaskAssignmentProofs!Typing` | `Spec => []TypeOK` | |
| `TaskAssignmentProofs!BotsBusyWithOneTask` | `Spec => []BusyWithOneTask` | |
| `TaskAssignmentProofs!AssignmentsAreBacked` | `Spec => []AssignedIsBacked` | |
| `TaskAssignmentProofs!LeadersBooksStaySound` | `Spec => BooksStaySound` | |
| `TaskAssignmentProofs!CompletionsAreTrue` | `Spec => []CompletedIsRepaired` | `~WorldFails` |
| `DetectionProofs!DetectionTyping` | `Spec => []TypeOK` | |
| `DetectionProofs!TasksAreAnnouncedOnce` | `Spec => AnnouncedOnce` | |
| `DetectionProofs!MarksHaveReasons` | `Spec => []MarksAreExplained` | `Prompt` |
| `DetectionProofs!ZigzagLeavesNothingOut` | `Spec => EveryPlaceInTurn` | |
| `DetectionHistoryProofs!NothingIsMissed` | `HistorySpec => []FoundWithinARound` | `~Failing` |
| `DispatcherProofs!DispatcherTyping` | `Spec => []TypeOK` | |
| `DispatcherProofs!DispatchedBusyWithOneTask` | `Spec => []BusyWithOneTask` | |
| `DispatcherProofs!DispatchedStepsLeadToTask` | `Spec => EveryStepNearer` | |
| `DispatcherProofs!BookedWork` | `Spec => []WorkIsBooked` | |
| `DispatcherProofs!TasksAreGivenOnce` | `Spec => GivenOnce`, that is `Booking!Spec` under the mapping | |
| `DispatcherProofs!CompletedTasksAreRepaired` | `Spec => []DoneIsRepaired` | `~WorldFails` |

All rest on the named assumptions of the modules only (bots are positive integers,
bounds are naturals, the grid is not empty, `NoBot` is no worker). They hold for any
number of bots, tasks, leaders and detectors, on any grid, and for any sets of bots that
crash, are killed or reconnect, where not listed otherwise.

The arguments:

* Split brain. The invariant is `TypeOK`, the property, and that a bot which has not
  subscribed yet does not lead. A step either makes a bot leader, which then owes everyone
  its VICTORY (`PendingTo` by its first disjunct), or brings nobody to office. News in a
  queue is kept by other messages, and is taken up only into the stage of a callback that
  steps down (`Frame`, `Kept`, and one lemma for each of the two kinds of threads).
* Rivalries. That no debt is lost is the argument above; the refinement also needs that none
  appears from nowhere, and that one step settles nothing between other bots. Every step is
  sorted into taking office (`Take`), learning of a leader (`Learn`), leaving, or none of them;
  for the last kind the lemmas say that what is owed between any two bots stays as it is.
* Orphaned elections. The flag is set together with the stage in which a goroutine must
  reset it; the property is inductive on top of the types.
* Elections lost and terms. `Sounding` adds what is on its way: a message comes from a bot that
  has joined, an ELECTION from a lower bot, an ANSWER from a higher one, and no message
  carries a term its sender has not reached. An answer is sent to a lower bot because what it
  answers came from one; what was sound when it was sent stays so, as no term falls
  and no bot goes back to where it has not joined (`NextRises`, `SoundStays`).
* Busy with one task. Needs `OpenUntilKilled`: before a kill no channel is closed, so no
  execution is cancelled while the status says busy.
* Bots under a leader and under the coordinator. Every action of leaders leaves the
  variables of bots alone; every action of workers and every call that is accepted is an
  action of `ServiceBot` (`StepsAreBots`). What is proved of bots carries over.
* Every step nearer. A bot moves only while it executes, `BusyWithOneTask` leaves one task
  it can be, and `Toward` takes one off the distance (`TowardNearer`).
* Assignments are not hollow. For every candidate and task a step either leaves the assignment
  and what stands behind it (`Chain`), or makes a new one that has a call behind it (`Kept`). The
  exception is a candidate out of office that handles an event. It needs `Sound`: no execution is
  cancelled before a kill, and bots which began with a leader know one to report to. The lemmas
  go through what happens to the chain: a call is sent, accepted, declined or fails, an execution
  ends and reports, and lemmas on the queue show that the report is never overtaken.
  `BooksStaySound` is this of leaders; `AssignedIsBacked` follows for those that are
  never deposed, since out of office they have nothing in their books (`OnlyLeadersKeepBooks`).
* Completions. A report follows its repair in the goroutine, problems never come back, and
  once a kill has reached a bot it does not count as `Trusted` again: a completion
  that is true stays true, or nobody relies on it any more. The same three facts, for the report
  on its way and for the task marked as completed, are `ReportsHold` and `DoneIsRepaired`
  in the dispatcher; that a completion is by the robot in the books is `Booked`.
* Marks. `MarksAreExplained` is not inductive: a find's event must not come after the repair
  was reported. `ToldInTime` adds that a find whose event is still on its way has a task
  that was not carried out yet, which `Prompt` gives.
* The zigzag. Places are numbered row by row; a step on the way down leads to the next number
  (`StepDown`), one on the way up to the one before (`StepUp`), by cases for the inside of
  a row, its end, and the last row. `TurnsAreUnique` says that no two places
  have the same turn in one direction: a round visits each place once going down and once going up.
* Booked work. `WorkIsBooked` allows two goroutines for one task as long as both are at the
  booked robot, and one of them could end the booking under the other. `OneToken` says
  that a task has one call, or one execution, or one report, and never two. A sweep assigns only
  what is pending when it holds the lock, and what is pending has none of the three.
* Given once. On top of that, `GivenToRobots` says that what is assigned or completed has a
  robot. Every step gives a pending task away (`Give`), is the completion of a booked task, which
  leaves no work behind (`CompletionLeavesNothing`), or at most loses work (`Lose`).
* Found within a round. `PlacedSince` bounds the age of a problem in each of the two directions
  of the walk: it is at most the number of steps since the detector's turn passed the turn of
  that place, or a whole round if that turn is the present one and is yet to be looked at. A
  step adds one to both (`SinceGrows`), and where it would come round to the place, the
  detector stands on it (`TurnsBelongToOne`) and reports it before it moves on.
* Announced once. What a detector made a task of is in `reported`, which only grows.

Not provable with the tools at hand: liveness under fairness and ENABLED. These stay
with TLC: `FirstLeader`, `SplitBrainHeals`, `DeposedFallSilent`, `ExecutionsEnd`,
`EverythingRepaired`, `AssignmentsEnd`, `KnownCatchesUp`, `EveryProblemIsFound`,
`RobotsComeBack`. Every invariant and every action property of the runs has its theorem.

## 7. What is not modelled

* Time. A property such as "a new leader within so many seconds" is out of reach, and so
  are races that only a certain relation between time limits excludes: the models
  contain them.
* Delivery twice (QoS 1) and broker failure. Paho's own threads: its ordered callbacks
  publish and wait for the acknowledgement (`election.go:374`, `task_assignment.go:156`),
  which may block the client; the code is not in the repository.
* Which robot is nearest, problem types, IDs given out again after a restart of the
  coordinator, HTML, Docker, and the UDP listener of the coordinator, which nothing starts.
* The world's leader status (`world.go:316`): it is only shown, nothing depends on it.
* A restart of the coordinator, which loses all it knows.
* Retained messages, as far as a bot that joins later would read them.
* A bot as leader and worker at once: a leader's kill is in `Election`, its tasks' fate
  is that of a leader that dies in `TaskAssignment`.

## 8. Plan

Done: `Election` and `Leadership`, `ServiceBot` with its walk, `TaskAssignment`, `Detection`,
`Dispatcher`, the abstract specifications `Leadership` and `Booking`, with their runs and the
theorems above. What could follow:

1. Retained messages: metadata of a bot that is gone, seen by a new leader
   (`TaskAssignment` with the broker's last value per topic).
2. `WorldStatus`: what `/leader-status` says, over the heartbeats of `Election`, with two
   leaders and with none.
3. Pure operators: the nearest idle bot against its definition by minimum.
4. Proofs: an abstract specification of the leader's books, as `Booking` is one of the
   coordinator's: which assignments may end without a completion, and how.
