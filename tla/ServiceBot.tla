------------------------------ MODULE ServiceBot ------------------------------
(***************************************************************************)
(* A service bot at work (internal/serviceBots/servicebot.go): it accepts  *)
(* a task over gRPC, walks, repairs, deletes the problem from the world,   *)
(* and reports.  handleKillCommand (election.go) interferes with it.       *)
(*                                                                         *)
(* The gRPC server, the goroutine of each accepted task, the goroutines    *)
(* that publish metadata and the MQTT callback thread share the fields     *)
(* Status and TaskStop.  What the bot publishes is not here: a module that *)
(* composes bots with a leader says where it goes.                         *)
(***************************************************************************)
EXTENDS Integers

CONSTANTS
  Worker,     \* the service bots
  Task,       \* task IDs; each stands for the problem it is about, too
  Width,      \* size of the grid
  Height,
  Target,     \* Target[t]: where the problem of t is
  Killable,   \* bots that may be told to stop over bots/kill/<id>
  Crashable,  \* bots whose process may die
  Unaware,    \* bots that at first know of no leader
  WorldFails  \* whether a DELETE to the world service may fail

\* Places, as <<x, y>>.
Cell == (0 .. Width - 1) \X (0 .. Height - 1)

ASSUME WorldAssumption == WorldFails \in BOOLEAN
ASSUME GridAssumption == /\ Width \in Nat \ {0} /\ Height \in Nat \ {0}
                         /\ Target \in [Task -> Cell]

VARIABLES
  life,      \* the process and its MQTT session
  aware,     \* bot.LeaderID # 0
  pos,       \* bot.X, bot.Y
  status,    \* bot.Status
  stop,      \* the channel bot.TaskStop
  exec,      \* where the goroutine executing a task is
  snaps,     \* metadata a goroutine has read but not yet published
  problems   \* the problems the world service still has

botVars == <<life, aware, pos, status, stop, exec, snaps, problems>>

-----------------------------------------------------------------------------
Status == {"idle", "busy", "offline"}

\* "idle", "busy" and "offline" are the metadata executeTask is publishing.
Stage == {"none", "move", "repair", "delete", "rest", "read", "report"} \cup Status

\* The part of executeTask in which bot.Status is to be "busy".
Working == {"move", "repair", "delete", "rest"}
Doing(w) == {t \in Task : exec[w][t] \in Working}

\* A killed bot has closed its MQTT session, but its process goes on.
Runs(w) == life[w] # "crashed"
Connected(w) == life[w] \notin {"killed", "crashed"}

\* A kill has not reached the bot: it takes one task at a time.
Trusted(w) == w \notin Killable \/ life[w] \in {"up", "told"}

\* Variant of Toward with a bug: the axis is chosen, the direction is not.
TowardHigher(p, q) ==
  IF p[1] # q[1] THEN <<p[1] + 1, p[2]>>
  ELSE IF p[2] # q[2] THEN <<p[1], p[2] + 1>>
  ELSE p

\* One step of the way from p to q, along the rows first.
Toward(p, q) ==
  LET nearer(i) == IF p[i] < q[i] THEN p[i] + 1 ELSE p[i] - 1
  IN  IF p[1] # q[1] THEN <<nearer(1), p[2]>>
      ELSE IF p[2] # q[2] THEN <<p[1], nearer(2)>>
      ELSE p

\* The problems a DELETE for w's position is about.
Here(w) == {t \in Task : Target[t] = pos[w]}

Advance(w, t, stage) == exec' = [exec EXCEPT ![w][t] = stage]

-----------------------------------------------------------------------------
(***************************************************************************)
(* Variants with a bug, to be put in the place of a definition below.      *)
(***************************************************************************)
\* Accept: the bot looks whether it is busy before it takes the lock.
AcceptUnchecked(w, t) ==
  /\ Runs(w) /\ exec[w][t] = "none"
  /\ status' = [status EXCEPT ![w] = "busy"]
  /\ stop' = [stop EXCEPT ![w] = "open"]
  /\ Advance(w, t, "move")
  /\ UNCHANGED <<life, aware, pos, snaps, problems>>

\* Arrive: the walk goes on only while both coordinates differ.
ArriveOneAxis(w, t) ==
  /\ Runs(w) /\ exec[w][t] = "move"
  /\ pos[w][1] = Target[t][1] \/ pos[w][2] = Target[t][2]
  /\ stop[w] = "open"
  /\ Advance(w, t, "repair")
  /\ UNCHANGED <<life, aware, pos, status, stop, snaps, problems>>

\* Repair: it reports first and cleans up behind.
RepairReportsFirst(w, t) ==
  /\ Runs(w) /\ exec[w][t] = "repair"
  /\ stop[w] = "open"
  /\ Advance(w, t, "report")
  /\ UNCHANGED <<life, aware, pos, status, stop, snaps, problems>>

\* Delete: the repair is repeated until the DELETE succeeds.
DeleteInsists(w, t) ==
  /\ Runs(w) /\ exec[w][t] = "delete"
  /\ \/ problems' = problems \ Here(w) /\ Advance(w, t, "rest")
     \/ WorldFails /\ Advance(w, t, "repair") /\ UNCHANGED problems
  /\ UNCHANGED <<life, aware, pos, status, stop, snaps>>

-----------------------------------------------------------------------------
BotInit ==
  /\ life = [w \in Worker |-> "up"]
  /\ aware = [w \in Worker |-> w \notin Unaware]
  /\ pos \in [Worker -> Cell]
  /\ status = [w \in Worker |-> "idle"]
  /\ stop = [w \in Worker |-> "none"]
  /\ exec = [w \in Worker |-> [t \in Task |-> "none"]]
  /\ snaps = [w \in Worker |-> {}]
  /\ problems = Task

(***************************************************************************)
(* AssignTask: only a busy bot declines; it does not look whether it has   *)
(* been killed.  Bound: a bot does not execute one task twice at a time.   *)
(***************************************************************************)
Accept(w, t) ==
  /\ Runs(w) /\ exec[w][t] = "none"
  /\ status[w] # "busy"
  /\ status' = [status EXCEPT ![w] = "busy"]
  /\ stop' = [stop EXCEPT ![w] = "open"]
  /\ Advance(w, t, "move")
  /\ UNCHANGED <<life, aware, pos, snaps, problems>>

Declines(w) == Runs(w) /\ status[w] = "busy"

(***************************************************************************)
(* executeTaskMQTT.                                                        *)
(***************************************************************************)
\* TaskStop is polled before every step and on arrival; it is the field that
\* is read, not the channel this goroutine was started with.
Walk(w, t) ==
  /\ Runs(w) /\ exec[w][t] = "move"
  /\ stop[w] = "open"
  /\ pos[w] # Target[t]
  /\ pos' = [pos EXCEPT ![w] = Toward(@, Target[t])]
  /\ Advance(w, t, "move")
  /\ UNCHANGED <<life, aware, status, stop, snaps, problems>>

Arrive(w, t) ==
  /\ Runs(w) /\ exec[w][t] = "move"
  /\ pos[w] = Target[t]
  /\ stop[w] = "open"
  /\ Advance(w, t, "repair")
  /\ UNCHANGED <<life, aware, pos, status, stop, snaps, problems>>

Repair(w, t) ==
  /\ Runs(w) /\ exec[w][t] = "repair"
  /\ stop[w] = "open"
  /\ Advance(w, t, "delete")
  /\ UNCHANGED <<life, aware, pos, status, stop, snaps, problems>>

\* The status stays as it is.
Cancel(w, t) ==
  /\ Runs(w) /\ exec[w][t] \in {"move", "repair"}
  /\ stop[w] = "closed"
  /\ Advance(w, t, "none")
  /\ UNCHANGED <<life, aware, pos, status, stop, snaps, problems>>

\* Whatever is where the bot stands is deleted; an error only logs.
Delete(w, t) ==
  /\ Runs(w) /\ exec[w][t] = "delete"
  /\ \/ problems' = problems \ Here(w)
     \/ WorldFails /\ UNCHANGED problems
  /\ Advance(w, t, "rest")
  /\ UNCHANGED <<life, aware, pos, status, stop, snaps>>

Rest(w, t) ==
  /\ Runs(w) /\ exec[w][t] = "rest"
  /\ status' = [status EXCEPT ![w] = "idle"]
  /\ Advance(w, t, "read")
  /\ UNCHANGED <<life, aware, pos, stop, snaps, problems>>

\* PublishMetadata: read under the lock, publish after it is released.
ReadOwn(w, t) ==
  /\ Runs(w) /\ exec[w][t] = "read"
  /\ Advance(w, t, status[w])
  /\ UNCHANGED <<life, aware, pos, status, stop, snaps, problems>>

PublishOwn(w, t) ==
  /\ Runs(w) /\ exec[w][t] \in Status
  /\ Advance(w, t, "report")
  /\ UNCHANGED <<life, aware, pos, status, stop, snaps, problems>>

\* reportTaskCompletion tells the leaders, if the bot knows of any.
Tells(w) == aware[w] /\ Connected(w)
Report(w, t) ==
  /\ Runs(w) /\ exec[w][t] = "report"
  /\ Advance(w, t, "none")
  /\ UNCHANGED <<life, aware, pos, status, stop, snaps, problems>>

Quiet(w, t) == Walk(w, t) \/ Arrive(w, t) \/ Repair(w, t) \/ Cancel(w, t) \/ Delete(w, t)
                \/ Rest(w, t) \/ ReadOwn(w, t)
Execute(w, t) == Quiet(w, t) \/ PublishOwn(w, t) \/ Report(w, t)

(***************************************************************************)
(* PublishMetadata in a goroutine: every five seconds, on accepting a task *)
(* and on a VICTORY.  Bound: a bot has one unpublished reading at a time.  *)
(***************************************************************************)
Read(w) ==
  /\ Connected(w)
  /\ snaps[w] = {}
  /\ snaps' = [snaps EXCEPT ![w] = {status[w]}]
  /\ UNCHANGED <<life, aware, pos, status, stop, exec, problems>>

Publish(w, s) ==
  /\ Runs(w)
  /\ s \in snaps[w]
  /\ snaps' = [snaps EXCEPT ![w] = @ \ {s}]
  /\ UNCHANGED <<life, aware, pos, status, stop, exec, problems>>

\* A heartbeat or VICTORY sets LeaderID.
Hear(w) ==
  /\ Connected(w) /\ ~aware[w]
  /\ aware' = [aware EXCEPT ![w] = TRUE]
  /\ UNCHANGED <<life, pos, status, stop, exec, snaps, problems>>

(***************************************************************************)
(* handleKillCommand in the bot it is about, and the death of a process.   *)
(***************************************************************************)
Kill(w) ==
  /\ w \in Killable
  /\ life[w] = "up"
  /\ life' = [life EXCEPT ![w] = "told"]
  /\ UNCHANGED <<aware, pos, status, stop, exec, snaps, problems>>

GoOffline(w) ==
  /\ life[w] = "told"
  /\ life' = [life EXCEPT ![w] = "offline"]
  /\ status' = [status EXCEPT ![w] = "offline"]
  /\ UNCHANGED <<aware, pos, stop, exec, snaps, problems>>

CloseStop(w) ==
  /\ life[w] = "offline"
  /\ life' = [life EXCEPT ![w] = "stopped"]
  /\ stop' = [stop EXCEPT ![w] = IF @ = "none" THEN "none" ELSE "closed"]
  /\ UNCHANGED <<aware, pos, status, exec, snaps, problems>>

Disconnect(w) ==
  /\ life[w] = "stopped"
  /\ life' = [life EXCEPT ![w] = "killed"]
  /\ UNCHANGED <<aware, pos, status, stop, exec, snaps, problems>>

Dying(w) == GoOffline(w) \/ CloseStop(w) \/ Disconnect(w)

Crash(w) ==
  /\ w \in Crashable
  /\ Runs(w)
  /\ life' = [life EXCEPT ![w] = "crashed"]
  /\ exec' = [exec EXCEPT ![w] = [t \in Task |-> "none"]]
  /\ snaps' = [snaps EXCEPT ![w] = {}]
  /\ UNCHANGED <<aware, pos, status, stop, problems>>

\* A DELETE for the place c from elsewhere: from the coordinator, or by hand.
DeleteAt(c) ==
  /\ problems' = {t \in problems : Target[t] # c}
  /\ UNCHANGED <<life, aware, pos, status, stop, exec, snaps>>

BotNext == \/ \E w \in Worker : \/ \E t \in Task : Accept(w, t) \/ Execute(w, t)
                                \/ \E s \in Status : Publish(w, s)
                                \/ Read(w) \/ Hear(w)
                                \/ Kill(w) \/ Dying(w) \/ Crash(w)
           \/ \E c \in Cell : DeleteAt(c)

\* A bot on its own: a task may come in at any time, from anyone.
BotSpec == BotInit /\ [][BotNext]_botVars

\* Its goroutines go on; killing a bot once begun is finished.
BotProgress == \A w \in Worker : /\ \A t \in Task : WF_botVars(Execute(w, t))
                                 /\ WF_botVars(Dying(w))
FairBotSpec == BotSpec /\ BotProgress

-----------------------------------------------------------------------------
(***************************************************************************)
(* Properties.                                                             *)
(***************************************************************************)
\* The fields, the goroutines and the world's problems keep their types.
BotTypeOK ==
  /\ life \in [Worker -> {"up", "told", "offline", "stopped", "killed", "crashed"}]
  /\ aware \in [Worker -> BOOLEAN]
  /\ pos \in [Worker -> Cell]
  /\ status \in [Worker -> Status]
  /\ stop \in [Worker -> {"none", "open", "closed"}]
  /\ exec \in [Worker -> [Task -> Stage]]
  /\ snaps \in [Worker -> SUBSET Status]
  /\ problems \in SUBSET Task

\* Until a kill reaches it, a bot is busy exactly while it works on a task and
\* works on one at a time: the check in AssignTask and the reset in executeTask
\* never let a second goroutine move the bot, nor leave it busy for nothing.
BusyWithOneTask ==
  \A w \in Worker : life[w] \in {"up", "told"} =>
    /\ \A t, u \in Doing(w) : t = u
    /\ status[w] = "busy" <=> Doing(w) # {}

Away(p, q) == LET abs(n) == IF n < 0 THEN -n ELSE n
              IN  abs(p[1] - q[1]) + abs(p[2] - q[2])

\* Until a kill reaches it, every cell a bot moves brings it nearer to the problem
\* of the one task it is executing, so it gets there: no goroutine of an earlier
\* task steers it, however tasks and kills come in.
Nearer ==
  \A w \in Worker : pos'[w] # pos[w] /\ life[w] \in {"up", "told"} =>
    \E t \in Task : /\ Doing(w) = {t}
                    /\ Away(pos'[w], Target[t]) = Away(pos[w], Target[t]) - 1
EveryStepNearer == [][Nearer]_botVars

\* What a bot reports as completed is gone from the world, as long as the world
\* answers and the bot was not sent two ways at once after a kill.
ReportedIsRepaired ==
  \A w \in Worker : life[w] \in {"up", "told"} =>
    \A t \in Task : exec[w][t] \in {"rest", "read", "report"} \cup Status => t \notin problems

\* Every execution ends, by a report or by its cancellation, unless the bot is
\* killed: then two may run, steering it to two places and undoing each other's
\* steps.
ExecutionsEnd ==
  \A w \in Worker : \A t \in Task :
    exec[w][t] = "move" ~> exec[w][t] = "none" \/ life[w] # "up"
=============================================================================
