--------------------------- MODULE ServiceBotProofs ---------------------------
(***************************************************************************)
(* Proofs about ServiceBot, for every set of workers and tasks.            *)
(***************************************************************************)
EXTENDS ServiceBot, TLAPS

\* A step of the way stays on the grid.
LEMMA TowardCell ==
  ASSUME NEW p \in Cell, NEW q \in Cell PROVE Toward(p, q) \in Cell
<1>1. /\ p = <<p[1], p[2]>> /\ p[1] \in 0 .. Width - 1 /\ p[2] \in 0 .. Height - 1
      /\ q[1] \in 0 .. Width - 1 /\ q[2] \in 0 .. Height - 1
  BY DEF Cell
<1> QED BY <1>1, GridAssumption DEF Toward, Cell

\* One goroutine moves from stage to stage; the others stay where they are.
LEMMA AdvanceStages ==
  ASSUME BotTypeOK, NEW w \in Worker, NEW t \in Task, NEW s \in Stage, Advance(w, t, s)
  PROVE  /\ exec' \in [Worker -> [Task -> Stage]]
         /\ exec'[w][t] = s
         /\ \A v \in Worker, u \in Task : (v # w \/ u # t) => exec'[v][u] = exec[v][u]
BY DEF BotTypeOK, Advance

\* A change of stage within, or within what is not, the work on a task leaves
\* the tasks that are worked on alone.
LEMMA DoingKept ==
  ASSUME BotTypeOK, NEW w \in Worker, NEW t \in Task, NEW s \in Stage, Advance(w, t, s),
         exec[w][t] \in Working <=> s \in Working
  PROVE  \A v \in Worker : Doing(v)' = Doing(v)
<1> TAKE v \in Worker
<1>1. \A u \in Task : exec'[v][u] \in Working <=> exec[v][u] \in Working
  BY AdvanceStages
<1>2. Doing(v)' = {u \in Task : exec'[v][u] \in Working}
  BY DEF Doing, Working
<1> QED BY <1>1, <1>2 DEF Doing

\* The fields keep their types whatever a bot does.
LEMMA TypesKept == BotTypeOK /\ [BotNext]_botVars => BotTypeOK'
<1> SUFFICES ASSUME BotTypeOK, [BotNext]_botVars PROVE BotTypeOK'
  OBVIOUS
<1> USE DEF BotTypeOK
<1>1. ASSUME NEW w \in Worker, NEW t \in Task, Accept(w, t) PROVE BotTypeOK'
  <2>1. exec' \in [Worker -> [Task -> Stage]]
    BY <1>1, AdvanceStages DEF Accept, Stage
  <2> QED BY <1>1, <2>1 DEF Accept, Status
<1>2. ASSUME NEW w \in Worker, NEW t \in Task, Execute(w, t) PROVE BotTypeOK'
  <2>1. PICK s \in Stage : Advance(w, t, s)
    BY <1>2 DEF Execute, Quiet, Walk, Arrive, Repair, Cancel, Delete, Rest, ReadOwn,
                PublishOwn, Report, Stage
  <2>2. exec' \in [Worker -> [Task -> Stage]]
    BY <2>1, AdvanceStages
  <2>4. pos' \in [Worker -> Cell]
    <3>1. CASE Walk(w, t)
      <4>1. Toward(pos[w], Target[t]) \in Cell
        BY TowardCell, GridAssumption
      <4> QED BY <3>1, <4>1 DEF Walk
    <3>2. CASE ~Walk(w, t)
      BY <1>2, <3>2 DEF Execute, Quiet, Arrive, Repair, Cancel, Delete, Rest, ReadOwn,
                        PublishOwn, Report
    <3> QED BY <3>1, <3>2
  <2>3. /\ status' \in [Worker -> Status]
        /\ problems' \in SUBSET Task
        /\ UNCHANGED <<life, aware, stop, snaps>>
    BY <1>2 DEF Execute, Quiet, Walk, Arrive, Repair, Cancel, Delete, Rest, ReadOwn,
                PublishOwn, Report, Status
  <2> QED BY <2>2, <2>3, <2>4
<1>3. ASSUME NEW w \in Worker, \/ \E s \in Status : Publish(w, s)
                               \/ Read(w) \/ Hear(w)
      PROVE  BotTypeOK'
  <2>1. CASE \E s \in Status : Publish(w, s)
    <3>1. PICK s \in Status : Publish(w, s)
      BY <2>1
    <3>2. snaps' \in [Worker -> SUBSET Status]
      BY <3>1 DEF Publish
    <3> QED BY <3>1, <3>2 DEF Publish
  <2>2. CASE Read(w)
    <3>1. {status[w]} \in SUBSET Status
      OBVIOUS
    <3>2. snaps' \in [Worker -> SUBSET Status]
      BY <2>2, <3>1 DEF Read
    <3> QED BY <2>2, <3>2 DEF Read
  <2>3. CASE Hear(w)
    BY <2>3 DEF Hear
  <2> QED BY <1>3, <2>1, <2>2, <2>3
<1>4. ASSUME NEW w \in Worker, Kill(w) \/ Dying(w) PROVE BotTypeOK'
  BY <1>4 DEF Kill, Dying, GoOffline, CloseStop, Disconnect, Status
<1>5. ASSUME NEW w \in Worker, Crash(w) PROVE BotTypeOK'
  BY <1>5 DEF Crash, Stage
<1>6. CASE UNCHANGED botVars
  BY <1>6 DEF botVars
<1>7. ASSUME NEW c \in Cell, DeleteAt(c) PROVE BotTypeOK'
  BY <1>7 DEF DeleteAt
<1> QED BY <1>1, <1>2, <1>3, <1>4, <1>5, <1>6, <1>7 DEF BotNext

\* The fields of a bot keep their types in every behaviour.
THEOREM BotTyping == BotSpec => []BotTypeOK
<1>1. BotInit => BotTypeOK
  BY DEF BotInit, BotTypeOK, Status, Stage
<1> QED BY <1>1, TypesKept, PTL DEF BotSpec

-----------------------------------------------------------------------------
\* Why no task of a bot that was not killed is cancelled: only a kill closes
\* TaskStop, and only a task accepted later opens it again.
OpenUntilKilled == \A w \in Worker : life[w] \in {"up", "told"} => stop[w] # "closed"

LEMMA OpenKept == BotTypeOK /\ OpenUntilKilled /\ [BotNext]_botVars => OpenUntilKilled'
<1> SUFFICES ASSUME BotTypeOK, OpenUntilKilled, [BotNext]_botVars PROVE OpenUntilKilled'
  OBVIOUS
<1> USE DEF OpenUntilKilled
<1>1. ASSUME NEW w \in Worker, NEW t \in Task, Accept(w, t) PROVE OpenUntilKilled'
  BY <1>1 DEF Accept, BotTypeOK
<1>2. ASSUME NEW w \in Worker, NEW t \in Task, Execute(w, t) PROVE OpenUntilKilled'
  <2>1. UNCHANGED <<life, stop>>
    BY <1>2 DEF Execute, Quiet, Walk, Arrive, Repair, Cancel, Delete, Rest, ReadOwn,
                PublishOwn, Report
  <2> QED BY <2>1
<1>3. ASSUME NEW w \in Worker, \/ \E s \in Status : Publish(w, s)
                               \/ Read(w) \/ Hear(w)
      PROVE  OpenUntilKilled'
  BY <1>3 DEF Publish, Read, Hear
<1>4. ASSUME NEW w \in Worker, Kill(w) \/ Dying(w) PROVE OpenUntilKilled'
  BY <1>4 DEF Kill, Dying, GoOffline, CloseStop, Disconnect, BotTypeOK
<1>5. ASSUME NEW w \in Worker, Crash(w) PROVE OpenUntilKilled'
  BY <1>5 DEF Crash, BotTypeOK
<1>6. CASE UNCHANGED botVars
  BY <1>6 DEF botVars
<1>7. ASSUME NEW c \in Cell, DeleteAt(c) PROVE OpenUntilKilled'
  BY <1>7 DEF DeleteAt
<1> QED BY <1>1, <1>2, <1>3, <1>4, <1>5, <1>6, <1>7 DEF BotNext

\* One step of the work on a task starts, goes on with or ends it.
LEMMA BusyKept ==
  BotTypeOK /\ OpenUntilKilled /\ BusyWithOneTask /\ [BotNext]_botVars => BusyWithOneTask'
<1> SUFFICES ASSUME BotTypeOK, OpenUntilKilled, BusyWithOneTask, [BotNext]_botVars
             PROVE  BusyWithOneTask'
  OBVIOUS
<1>u. ASSUME \A v \in Worker : Doing(v)' = Doing(v),
             \A v \in Worker : life'[v] \in {"up", "told"} =>
                                 life[v] \in {"up", "told"} /\ status'[v] = status[v]
      PROVE  BusyWithOneTask'
  BY <1>u DEF BusyWithOneTask
<1>1. ASSUME NEW w \in Worker, NEW t \in Task, Accept(w, t) PROVE BusyWithOneTask'
  <2>1. /\ exec'[w][t] = "move"
        /\ \A v \in Worker, u \in Task : (v # w \/ u # t) => exec'[v][u] = exec[v][u]
    BY <1>1, AdvanceStages DEF Accept, Stage
  <2>2. SUFFICES ASSUME NEW v \in Worker, life'[v] \in {"up", "told"}
                 PROVE  /\ \A r, u \in Doing(v)' : r = u
                        /\ status'[v] = "busy" <=> Doing(v)' # {}
    BY DEF BusyWithOneTask
  <2>3. life[v] \in {"up", "told"}
    BY <1>1, <2>2 DEF Accept
  <2>4. CASE v = w
    <3>1. Doing(w) = {}
      BY <1>1, <2>3, <2>4 DEF Accept, BusyWithOneTask
    <3>2. Doing(w)' = {t}
      BY <2>1, <3>1 DEF Doing, Working
    <3>3. status'[w] = "busy"
      BY <1>1 DEF Accept, BotTypeOK
    <3> QED BY <2>4, <3>2, <3>3
  <2>5. CASE v # w
    <3>1. Doing(v)' = Doing(v)
      BY <2>1, <2>5 DEF Doing, Working
    <3>2. status'[v] = status[v]
      BY <1>1, <2>5 DEF Accept, BotTypeOK
    <3> QED BY <2>3, <3>1, <3>2 DEF BusyWithOneTask
  <2> QED BY <2>4, <2>5
<1>2. ASSUME NEW w \in Worker, NEW t \in Task,
             \/ Walk(w, t) \/ Arrive(w, t) \/ Repair(w, t) \/ Delete(w, t)
             \/ ReadOwn(w, t) \/ PublishOwn(w, t) \/ Report(w, t)
      PROVE  BusyWithOneTask'
  <2>1. PICK s \in Stage : Advance(w, t, s) /\ (exec[w][t] \in Working <=> s \in Working)
    <3>1. CASE Arrive(w, t)
      BY <3>1 DEF Arrive, Stage, Working
    <3>2. CASE Repair(w, t)
      BY <3>2 DEF Repair, Stage, Working
    <3>3. CASE Delete(w, t)
      BY <3>3 DEF Delete, Stage, Working
    <3>4. CASE ReadOwn(w, t)
      BY <3>4 DEF ReadOwn, Stage, Working, Status, BotTypeOK
    <3>5. CASE PublishOwn(w, t)
      BY <3>5 DEF PublishOwn, Stage, Working, Status
    <3>6. CASE Report(w, t)
      BY <3>6 DEF Report, Stage, Working
    <3>7. CASE Walk(w, t)
      BY <3>7 DEF Walk, Stage, Working
    <3> QED BY <1>2, <3>1, <3>2, <3>3, <3>4, <3>5, <3>6, <3>7
  <2>2. \A v \in Worker : Doing(v)' = Doing(v)
    BY <2>1, DoingKept
  <2>3. UNCHANGED <<life, status>>
    BY <1>2 DEF Walk, Arrive, Repair, Delete, ReadOwn, PublishOwn, Report
  <2> QED BY <1>u, <2>2, <2>3
<1>3. ASSUME NEW w \in Worker, NEW t \in Task, Rest(w, t) PROVE BusyWithOneTask'
  <2>1. /\ exec[w][t] = "rest" /\ exec'[w][t] = "read"
        /\ \A v \in Worker, u \in Task : (v # w \/ u # t) => exec'[v][u] = exec[v][u]
    BY <1>3, AdvanceStages DEF Rest, Stage
  <2>2. SUFFICES ASSUME NEW v \in Worker, life'[v] \in {"up", "told"}
                 PROVE  /\ \A r, u \in Doing(v)' : r = u
                        /\ status'[v] = "busy" <=> Doing(v)' # {}
    BY DEF BusyWithOneTask
  <2>3. life[v] \in {"up", "told"}
    BY <1>3, <2>2 DEF Rest
  <2>4. CASE v = w
    <3>1. Doing(w) = {t}
      BY <2>1, <2>3, <2>4 DEF BusyWithOneTask, Doing, Working
    <3>2. Doing(w)' = {}
      BY <2>1, <3>1 DEF Doing, Working
    <3>3. status'[w] = "idle"
      BY <1>3 DEF Rest, BotTypeOK
    <3> QED BY <2>4, <3>2, <3>3
  <2>5. CASE v # w
    <3>1. Doing(v)' = Doing(v)
      BY <2>1, <2>5 DEF Doing, Working
    <3>2. status'[v] = status[v]
      BY <1>3, <2>5 DEF Rest, BotTypeOK
    <3> QED BY <2>3, <3>1, <3>2 DEF BusyWithOneTask
  <2> QED BY <2>4, <2>5
<1>4. ASSUME NEW w \in Worker, NEW t \in Task, Cancel(w, t) PROVE BusyWithOneTask'
  <2>1. /\ life[w] \notin {"up", "told"}
        /\ UNCHANGED <<life, status>>
    BY <1>4 DEF Cancel, OpenUntilKilled
  <2>2. ASSUME NEW v \in Worker, v # w PROVE Doing(v)' = Doing(v)
    BY <1>4, <2>2, AdvanceStages DEF Cancel, Stage, Doing, Working
  <2> QED BY <2>1, <2>2 DEF BusyWithOneTask
<1>5. ASSUME NEW w \in Worker, \/ \E s \in Status : Publish(w, s)
                               \/ Read(w) \/ Hear(w)
      PROVE  BusyWithOneTask'
  <2>1. UNCHANGED <<life, status, exec>>
    BY <1>5 DEF Publish, Read, Hear
  <2>2. \A v \in Worker : Doing(v)' = Doing(v)
    BY <2>1 DEF Doing
  <2> QED BY <1>u, <2>1, <2>2
<1>6. ASSUME NEW w \in Worker, Kill(w) \/ Dying(w) PROVE BusyWithOneTask'
  <2>1. \A v \in Worker : Doing(v)' = Doing(v)
    BY <1>6 DEF Kill, Dying, GoOffline, CloseStop, Disconnect, Doing
  <2>2. \A v \in Worker : life'[v] \in {"up", "told"} =>
                            life[v] \in {"up", "told"} /\ status'[v] = status[v]
    BY <1>6 DEF Kill, Dying, GoOffline, CloseStop, Disconnect, BotTypeOK
  <2> QED BY <1>u, <2>1, <2>2
<1>7. ASSUME NEW w \in Worker, Crash(w) PROVE BusyWithOneTask'
  <2>1. life'[w] = "crashed" /\ UNCHANGED status
    BY <1>7 DEF Crash, BotTypeOK
  <2>2. ASSUME NEW v \in Worker, v # w
        PROVE  life'[v] = life[v] /\ Doing(v)' = Doing(v)
    <3>1. life'[v] = life[v] /\ exec'[v] = exec[v]
      BY <1>7, <2>2 DEF Crash, BotTypeOK
    <3> QED BY <3>1 DEF Doing
  <2> QED BY <2>1, <2>2 DEF BusyWithOneTask
<1>8. CASE UNCHANGED botVars
  BY <1>8 DEF botVars, BusyWithOneTask, Doing
<1>9. ASSUME NEW w \in Worker, NEW t \in Task, Execute(w, t) PROVE BusyWithOneTask'
  BY <1>9, <1>2, <1>3, <1>4 DEF Execute, Quiet
<1>10. ASSUME NEW c \in Cell, DeleteAt(c) PROVE BusyWithOneTask'
  BY <1>10, <1>u DEF DeleteAt, Doing
<1> QED BY <1>1, <1>5, <1>6, <1>7, <1>8, <1>9, <1>10 DEF BotNext

\* Until a kill reaches it, a bot is busy exactly while it works on one task.
THEOREM BusyTheorem == BotSpec => []BusyWithOneTask
<1> DEFINE IInv == BotTypeOK /\ OpenUntilKilled /\ BusyWithOneTask
<1>1. BotInit => IInv
  <2> SUFFICES ASSUME BotInit PROVE IInv
    OBVIOUS
  <2>1. BotTypeOK
    BY DEF BotInit, BotTypeOK, Status, Stage
  <2>2. OpenUntilKilled
    BY DEF BotInit, OpenUntilKilled
  <2>3. \A w \in Worker : Doing(w) = {} /\ status[w] = "idle"
    BY DEF BotInit, Doing, Working
  <2>4. BusyWithOneTask
    BY <2>3 DEF BusyWithOneTask
  <2> QED BY <2>1, <2>2, <2>4
<1>2. IInv /\ [BotNext]_botVars => IInv'
  BY TypesKept, OpenKept, BusyKept
<1>3. IInv => BusyWithOneTask
  OBVIOUS
<1> QED BY <1>1, <1>2, <1>3, PTL DEF BotSpec

-----------------------------------------------------------------------------
(***************************************************************************)
(* Whatever moves a bot brings it nearer to its task.                      *)
(***************************************************************************)
\* A step of the way shortens it by one cell.
LEMMA TowardNearer ==
  ASSUME NEW p \in Cell, NEW q \in Cell, p # q
  PROVE  Away(Toward(p, q), q) = Away(p, q) - 1
<1>1. /\ p = <<p[1], p[2]>> /\ p[1] \in Int /\ p[2] \in Int
      /\ q = <<q[1], q[2]>> /\ q[1] \in Int /\ q[2] \in Int
  BY GridAssumption DEF Cell
<1>2. p[1] # q[1] \/ p[2] # q[2]
  BY <1>1
<1>3. CASE p[1] # q[1]
  <2>1. Toward(p, q) = <<IF p[1] < q[1] THEN p[1] + 1 ELSE p[1] - 1, p[2]>>
    BY <1>3 DEF Toward
  <2> QED BY <1>1, <1>3, <2>1 DEF Away
<1>4. CASE p[1] = q[1]
  <2>1. Toward(p, q) = <<p[1], IF p[2] < q[2] THEN p[2] + 1 ELSE p[2] - 1>>
    BY <1>2, <1>4 DEF Toward
  <2> QED BY <1>1, <1>2, <1>4, <2>1 DEF Away
<1> QED BY <1>3, <1>4

\* Only Walk moves a bot, and it is about the one task the bot works on.
LEMMA StepNearer ==
  ASSUME BotTypeOK, BusyWithOneTask, [BotNext]_botVars,
         NEW w \in Worker, pos'[w] # pos[w], life[w] \in {"up", "told"}
  PROVE  \E t \in Task : /\ Doing(w) = {t}
                         /\ Away(pos'[w], Target[t]) = Away(pos[w], Target[t]) - 1
<1>1. \E v \in Worker, t \in Task : Walk(v, t)
  <2>1. ASSUME NEW v \in Worker, NEW t \in Task, Accept(v, t) \/ Execute(v, t)
        PROVE  Walk(v, t)
    BY <2>1 DEF Accept, Execute, Quiet, Arrive, Repair, Cancel, Delete, Rest, ReadOwn,
                PublishOwn, Report
  <2>2. ASSUME NEW v \in Worker, \/ \E s \in Status : Publish(v, s)
                                 \/ Read(v) \/ Hear(v) \/ Kill(v) \/ Dying(v) \/ Crash(v)
        PROVE  FALSE
    BY <2>2 DEF Publish, Read, Hear, Kill, Dying, GoOffline, CloseStop, Disconnect, Crash
  <2>3. ASSUME NEW c \in Cell, DeleteAt(c) PROVE FALSE
    BY <2>3 DEF DeleteAt
  <2>4. ~UNCHANGED botVars
    BY DEF botVars
  <2> QED BY <2>1, <2>2, <2>3, <2>4 DEF BotNext
<1>2. PICK v \in Worker, t \in Task : Walk(v, t)
  BY <1>1
<1>3. /\ v = w /\ exec[w][t] = "move"
      /\ pos[w] # Target[t] /\ pos'[w] = Toward(pos[w], Target[t])
  BY <1>2 DEF Walk, BotTypeOK
<1>4. Doing(w) = {t}
  <2>1. t \in Doing(w)
    BY <1>3 DEF Doing, Working
  <2> QED BY <2>1 DEF BusyWithOneTask
<1>5. Away(pos'[w], Target[t]) = Away(pos[w], Target[t]) - 1
  <2>1. pos[w] \in Cell /\ Target[t] \in Cell
    BY GridAssumption DEF BotTypeOK
  <2> QED BY <1>3, <2>1, TowardNearer
<1> QED BY <1>4, <1>5

\* On a grid of any size, with any number of tasks and bots, every step of a bot no
\* kill has reached leads to the problem of the one task it is executing.
THEOREM StepsLeadToTask == BotSpec => EveryStepNearer
<1>1. BotTypeOK /\ BusyWithOneTask /\ [BotNext]_botVars => [Nearer]_botVars
  BY StepNearer DEF Nearer
<1> QED BY <1>1, BotTyping, BusyTheorem, PTL DEF BotSpec, EveryStepNearer

-----------------------------------------------------------------------------
\* The stages executeTask reaches only after the DELETE.
Cleaned == {"rest", "read", "report"} \cup Status

\* Why a bot deletes the right problem: until it is killed nothing moves it on
\* from where it has arrived.
StandsAtTarget ==
  \A w \in Worker : life[w] \in {"up", "told"} =>
    \A t \in Task : exec[w][t] \in {"repair", "delete"} => pos[w] = Target[t]

LEMMA StandingKept ==
  BotTypeOK /\ BusyWithOneTask /\ StandsAtTarget /\ [BotNext]_botVars => StandsAtTarget'
<1> SUFFICES ASSUME BotTypeOK, BusyWithOneTask, StandsAtTarget, [BotNext]_botVars,
                    NEW v \in Worker, life'[v] \in {"up", "told"},
                    NEW u \in Task, exec'[v][u] \in {"repair", "delete"}
             PROVE  pos'[v] = Target[u]
  BY DEF StandsAtTarget
<1>g. ASSUME life[v] \in {"up", "told"}, exec[v][u] \in {"repair", "delete"},
             pos'[v] = pos[v]
      PROVE  pos'[v] = Target[u]
  BY <1>g DEF StandsAtTarget
<1>s. ASSUME NEW w \in Worker, NEW t \in Task, NEW s \in Stage, Advance(w, t, s),
             s \notin {"repair", "delete"} \/ exec[w][t] \in {"repair", "delete"},
             UNCHANGED <<life, pos>>
      PROVE  pos'[v] = Target[u]
  <2>1. CASE v = w /\ u = t
    BY <1>s, <1>g, <2>1, AdvanceStages
  <2>2. CASE v # w \/ u # t
    BY <1>s, <1>g, <2>2, AdvanceStages
  <2> QED BY <2>1, <2>2
<1>1. ASSUME NEW w \in Worker, NEW t \in Task, Accept(w, t) PROVE pos'[v] = Target[u]
  BY <1>1, <1>s DEF Accept, Stage
<1>2. ASSUME NEW w \in Worker, NEW t \in Task, Walk(w, t) PROVE pos'[v] = Target[u]
  <2>1. /\ exec[w][t] = "move" /\ life' = life
        /\ \A x \in Worker : x # w => pos'[x] = pos[x]
        /\ \A x \in Worker, r \in Task : exec'[x][r] = exec[x][r]
    BY <1>2, AdvanceStages DEF Walk, Stage, BotTypeOK
  <2>2. CASE v # w
    BY <2>1, <2>2, <1>g
  <2>3. CASE v = w
    <3>1. t \in Doing(w) /\ u \in Doing(w)
      BY <2>1, <2>3 DEF Doing, Working
    <3>2. t = u
      BY <2>1, <2>3, <3>1 DEF BusyWithOneTask
    <3> QED BY <2>1, <2>3, <3>2
  <2> QED BY <2>2, <2>3
<1>3. ASSUME NEW w \in Worker, NEW t \in Task, Arrive(w, t) PROVE pos'[v] = Target[u]
  <2>1. /\ pos' = pos /\ life' = life /\ pos[w] = Target[t]
        /\ \A x \in Worker, r \in Task : (x # w \/ r # t) => exec'[x][r] = exec[x][r]
    BY <1>3, AdvanceStages DEF Arrive, Stage
  <2> QED BY <2>1, <1>g
<1>4. ASSUME NEW w \in Worker, NEW t \in Task,
             \/ Repair(w, t) \/ Cancel(w, t) \/ Delete(w, t) \/ Rest(w, t)
             \/ ReadOwn(w, t) \/ PublishOwn(w, t) \/ Report(w, t)
      PROVE  pos'[v] = Target[u]
  <2>1. \E s \in Stage : /\ Advance(w, t, s)
                         /\ s \notin {"repair", "delete"} \/ exec[w][t] \in {"repair", "delete"}
    BY <1>4 DEF Repair, Cancel, Delete, Rest, ReadOwn, PublishOwn, Report, Stage, Status,
                BotTypeOK
  <2>2. UNCHANGED <<life, pos>>
    BY <1>4 DEF Repair, Cancel, Delete, Rest, ReadOwn, PublishOwn, Report
  <2> QED BY <2>1, <2>2, <1>s
<1>5. ASSUME NEW w \in Worker, \/ \E s \in Status : Publish(w, s)
                               \/ Read(w) \/ Hear(w)
      PROVE  pos'[v] = Target[u]
  BY <1>5, <1>g DEF Publish, Read, Hear
<1>6. ASSUME NEW w \in Worker, Kill(w) \/ Dying(w) PROVE pos'[v] = Target[u]
  <2>1. life[v] \in {"up", "told"} /\ exec' = exec /\ pos' = pos
    BY <1>6 DEF Kill, Dying, GoOffline, CloseStop, Disconnect, BotTypeOK
  <2> QED BY <2>1, <1>g
<1>7. ASSUME NEW w \in Worker, Crash(w) PROVE pos'[v] = Target[u]
  <2>1. v # w
    BY <1>7 DEF Crash, BotTypeOK
  <2>2. life[v] \in {"up", "told"} /\ exec'[v] = exec[v] /\ pos' = pos
    BY <1>7, <2>1 DEF Crash, BotTypeOK
  <2> QED BY <2>2, <1>g
<1>8. CASE UNCHANGED botVars \/ \E c \in Cell : DeleteAt(c)
  BY <1>8, <1>g DEF botVars, DeleteAt
<1>9. ASSUME NEW w \in Worker, NEW t \in Task, Execute(w, t) PROVE pos'[v] = Target[u]
  BY <1>9, <1>2, <1>3, <1>4 DEF Execute, Quiet
<1> QED BY <1>1, <1>5, <1>6, <1>7, <1>8, <1>9 DEF BotNext

\* While a bot is sent one way only, the DELETE removes the problem it stands at;
\* nothing in the bot brings a problem back.
LEMMA RepairedKept ==
  ~WorldFails /\ BotTypeOK /\ OpenUntilKilled /\ StandsAtTarget
    /\ ReportedIsRepaired /\ [BotNext]_botVars => ReportedIsRepaired'
<1> SUFFICES ASSUME ~WorldFails, BotTypeOK, OpenUntilKilled, StandsAtTarget,
                    ReportedIsRepaired, [BotNext]_botVars,
                    NEW v \in Worker, life'[v] \in {"up", "told"},
                    NEW u \in Task, exec'[v][u] \in Cleaned
             PROVE  u \notin problems'
  BY DEF ReportedIsRepaired, Cleaned
<1>g. ASSUME life[v] \in {"up", "told"}, exec[v][u] \in Cleaned, problems' \subseteq problems
      PROVE  u \notin problems'
  BY <1>g DEF ReportedIsRepaired, Cleaned
<1>s. ASSUME NEW w \in Worker, NEW t \in Task, NEW s \in Stage, Advance(w, t, s),
             s \notin Cleaned \/ exec[w][t] \in Cleaned,
             UNCHANGED life, problems' \subseteq problems
      PROVE  u \notin problems'
  <2>1. CASE v = w /\ u = t
    BY <1>s, <1>g, <2>1, AdvanceStages
  <2>2. CASE v # w \/ u # t
    BY <1>s, <1>g, <2>2, AdvanceStages
  <2> QED BY <2>1, <2>2
<1>1. ASSUME NEW w \in Worker, NEW t \in Task, Accept(w, t) PROVE u \notin problems'
  BY <1>1, <1>s DEF Accept, Stage, Cleaned, Status
<1>2. ASSUME NEW w \in Worker, NEW t \in Task,
             Walk(w, t) \/ Arrive(w, t) \/ Repair(w, t) \/ Cancel(w, t)
      PROVE  u \notin problems'
  BY <1>2, <1>s DEF Walk, Arrive, Repair, Cancel, Stage, Cleaned, Status
<1>3. ASSUME NEW w \in Worker, NEW t \in Task,
             Rest(w, t) \/ PublishOwn(w, t) \/ Report(w, t)
      PROVE  u \notin problems'
  BY <1>3, <1>s DEF Rest, PublishOwn, Report, Stage, Cleaned
<1>4. ASSUME NEW w \in Worker, NEW t \in Task, ReadOwn(w, t) PROVE u \notin problems'
  <2>1. status[w] \in Stage
    BY DEF BotTypeOK, Stage
  <2> QED BY <1>4, <1>s, <2>1 DEF ReadOwn, Cleaned
<1>5. ASSUME NEW w \in Worker, NEW t \in Task, Delete(w, t) PROVE u \notin problems'
  <2>1. /\ \A x \in Worker, r \in Task : (x # w \/ r # t) => exec'[x][r] = exec[x][r]
        /\ life' = life /\ problems' \subseteq problems
    BY <1>5, AdvanceStages DEF Delete, Stage
  <2>2. CASE v # w \/ u # t
    BY <2>1, <2>2, <1>g
  <2>3. CASE v = w /\ u = t
    <3>1. pos[w] = Target[t]
      BY <1>5, <2>1, <2>3 DEF StandsAtTarget, Delete
    <3>2. problems' = problems \ Here(w) /\ t \in Here(w)
      BY <1>5, <3>1 DEF Delete, Here
    <3> QED BY <2>3, <3>2
  <2> QED BY <2>2, <2>3
<1>6. ASSUME NEW w \in Worker, \/ \E s \in Status : Publish(w, s)
                               \/ Read(w) \/ Hear(w)
      PROVE  u \notin problems'
  BY <1>6, <1>g DEF Publish, Read, Hear
<1>7. ASSUME NEW w \in Worker, Kill(w) \/ Dying(w) PROVE u \notin problems'
  <2>1. life[v] \in {"up", "told"} /\ exec' = exec /\ problems' = problems
    BY <1>7 DEF Kill, Dying, GoOffline, CloseStop, Disconnect, BotTypeOK
  <2> QED BY <2>1, <1>g
<1>8. ASSUME NEW w \in Worker, Crash(w) PROVE u \notin problems'
  <2>1. v # w
    BY <1>8 DEF Crash, BotTypeOK
  <2>2. life[v] \in {"up", "told"} /\ exec'[v] = exec[v] /\ problems' = problems
    BY <1>8, <2>1 DEF Crash, BotTypeOK
  <2> QED BY <2>2, <1>g
<1>9. CASE UNCHANGED botVars
  BY <1>9, <1>g DEF botVars
<1>10. ASSUME NEW w \in Worker, NEW t \in Task, Execute(w, t) PROVE u \notin problems'
  BY <1>10, <1>2, <1>3, <1>4, <1>5 DEF Execute, Quiet
<1>11. ASSUME NEW c \in Cell, DeleteAt(c) PROVE u \notin problems'
  BY <1>11, <1>g DEF DeleteAt
<1> QED BY <1>1, <1>6, <1>7, <1>8, <1>9, <1>10, <1>11 DEF BotNext

\* As long as the world answers, what a bot that was not killed reports as
\* completed is gone from the world.
THEOREM ReportsAreTrue == ASSUME ~WorldFails PROVE BotSpec => []ReportedIsRepaired
<1> DEFINE IInv == /\ BotTypeOK /\ OpenUntilKilled /\ BusyWithOneTask
                   /\ StandsAtTarget /\ ReportedIsRepaired
<1>1. BotInit => IInv
  <2> SUFFICES ASSUME BotInit PROVE IInv
    OBVIOUS
  <2>1. BotTypeOK
    BY DEF BotInit, BotTypeOK, Status, Stage
  <2>2. OpenUntilKilled
    BY DEF BotInit, OpenUntilKilled
  <2>3. \A w \in Worker : Doing(w) = {} /\ status[w] = "idle"
    BY DEF BotInit, Doing, Working
  <2>4. BusyWithOneTask
    BY <2>3 DEF BusyWithOneTask
  <2>5. ReportedIsRepaired
    BY DEF BotInit, ReportedIsRepaired, Status
  <2>6. StandsAtTarget
    BY DEF BotInit, StandsAtTarget
  <2> QED BY <2>1, <2>2, <2>4, <2>5, <2>6
<1>2. IInv /\ [BotNext]_botVars => IInv'
  BY TypesKept, OpenKept, BusyKept, StandingKept, RepairedKept
<1>3. IInv => ReportedIsRepaired
  OBVIOUS
<1> QED BY <1>1, <1>2, <1>3, PTL DEF BotSpec

-----------------------------------------------------------------------------
(***************************************************************************)
(* Facts for those who compose bots with a leader: whom a kill has not     *)
(* reached, and that problems only go.                                     *)
(***************************************************************************)
\* A bot that is never to be killed is not.
Spared == \A w \in Worker \ Killable : life[w] \in {"up", "crashed"}

LEMMA SparedKept == BotTypeOK /\ Spared /\ [BotNext]_botVars => Spared'
<1> SUFFICES ASSUME BotTypeOK, Spared, [BotNext]_botVars PROVE Spared'
  OBVIOUS
<1>1. ASSUME NEW w \in Worker, NEW t \in Task, Accept(w, t) \/ Execute(w, t) PROVE Spared'
  BY <1>1 DEF Spared, Accept, Execute, Quiet, Walk, Arrive, Repair, Cancel, Delete, Rest,
              ReadOwn, PublishOwn, Report
<1>2. ASSUME NEW w \in Worker, \/ \E s \in Status : Publish(w, s)
                               \/ Read(w) \/ Hear(w)
      PROVE  Spared'
  BY <1>2 DEF Spared, Publish, Read, Hear
<1>3. ASSUME NEW w \in Worker, Kill(w) \/ Dying(w) PROVE Spared'
  BY <1>3 DEF Spared, Kill, Dying, GoOffline, CloseStop, Disconnect, BotTypeOK
<1>4. ASSUME NEW w \in Worker, Crash(w) PROVE Spared'
  BY <1>4 DEF Spared, Crash, BotTypeOK
<1>5. CASE UNCHANGED botVars \/ \E c \in Cell : DeleteAt(c)
  BY <1>5 DEF botVars, DeleteAt, Spared
<1> QED BY <1>1, <1>2, <1>3, <1>4, <1>5 DEF BotNext

\* What a kill has reached it has reached for good.
LEMMA TrustOnlyLost ==
  ASSUME BotTypeOK, [BotNext]_botVars, NEW w \in Worker, Trusted(w)'
  PROVE  Trusted(w)
<1>1. ASSUME NEW v \in Worker, NEW t \in Task, Accept(v, t) \/ Execute(v, t) PROVE UNCHANGED life
  BY <1>1 DEF Accept, Execute, Quiet, Walk, Arrive, Repair, Cancel, Delete, Rest,
              ReadOwn, PublishOwn, Report
<1>2. ASSUME NEW v \in Worker, \/ \E s \in Status : Publish(v, s)
                               \/ Read(v) \/ Hear(v)
      PROVE  UNCHANGED life
  BY <1>2 DEF Publish, Read, Hear
<1>3. ASSUME NEW v \in Worker, Kill(v) \/ Dying(v) \/ Crash(v)
      PROVE  life'[w] \in {"up", "told"} => life[w] \in {"up", "told"}
  BY <1>3 DEF Kill, Dying, GoOffline, CloseStop, Disconnect, Crash, BotTypeOK
<1>4. CASE UNCHANGED botVars \/ \E c \in Cell : DeleteAt(c)
  BY <1>4 DEF botVars, DeleteAt, Trusted
<1> QED BY <1>1, <1>2, <1>3, <1>4 DEF BotNext, Trusted

\* No bot brings a problem back.
LEMMA ProblemsShrink == BotTypeOK /\ [BotNext]_botVars => problems' \subseteq problems
<1> SUFFICES ASSUME BotTypeOK, [BotNext]_botVars PROVE problems' \subseteq problems
  OBVIOUS
<1>1. ASSUME NEW w \in Worker, NEW t \in Task, Accept(w, t) \/ Execute(w, t)
      PROVE  problems' \subseteq problems
  BY <1>1 DEF Accept, Execute, Quiet, Walk, Arrive, Repair, Cancel, Delete, Rest,
              ReadOwn, PublishOwn, Report
<1>2. ASSUME NEW w \in Worker, \/ \E s \in Status : Publish(w, s)
                               \/ Read(w) \/ Hear(w) \/ Kill(w) \/ Dying(w) \/ Crash(w)
      PROVE  problems' \subseteq problems
  BY <1>2 DEF Publish, Read, Hear, Kill, Dying, GoOffline, CloseStop, Disconnect, Crash
<1>3. ASSUME NEW c \in Cell, DeleteAt(c) PROVE problems' \subseteq problems
  BY <1>3 DEF DeleteAt
<1> QED BY <1>1, <1>2, <1>3 DEF BotNext, botVars
=============================================================================
