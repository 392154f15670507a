--------------------------- MODULE DispatcherProofs ---------------------------
(***************************************************************************)
(* Proofs about Dispatcher, for every set of bots and tasks: its bots are  *)
(* those of ServiceBot, and no task is given to two of them.               *)
(***************************************************************************)
EXTENDS Dispatcher, ServiceBotProofs

\* What the coordinator does on its own leaves the bots alone.
LEMMA CoordinatorLeavesBots ==
  /\ \A w \in Worker : Register(w) => UNCHANGED botVars
  /\ \A t \in Task : HandleEvent(t) \/ AssignTask(t) \/ TryAssignPending(t) => UNCHANGED botVars
  /\ \A t \in Task, w \in Worker : CallFails(t, w) => UNCHANGED botVars
  /\ \A r \in reports : ReportCompletion(r) \/ LoseReport(r) => UNCHANGED botVars
  /\ \A c \in Cell : Observe(c) => UNCHANGED botVars
BY DEF Register, HandleEvent, AssignTask, TryAssignPending, CallFails, ReportCompletion,
       LoseReport, Observe

\* Every step of the whole is a step of the bots, or none.
LEMMA StepsAreBots == [Next]_vars => [BotNext]_botVars
<1> SUFFICES ASSUME [Next]_vars PROVE BotNext \/ UNCHANGED botVars
  OBVIOUS
<1>1. ASSUME NEW w \in Worker, PublishMetadata(w) \/ ReadMetadata(w) \/ BotStops(w)
      PROVE  BotNext
  BY <1>1 DEF PublishMetadata, ReadMetadata, BotStops, BotNext
<1>2. ASSUME NEW t \in Task, NEW w \in Worker,
             AcceptCall(t, w) \/ AcceptForeign(t, w) \/ Work(w, t)
      PROVE  BotNext
  BY <1>2 DEF AcceptCall, AcceptForeign, Work, Execute, BotNext
<1>3. ASSUME NEW c \in Cell, DeleteProblem(c) PROVE BotNext \/ UNCHANGED botVars
  BY <1>3 DEF DeleteProblem, BotNext
<1>4. CASE UNCHANGED vars
  BY <1>4 DEF vars
<1> QED BY <1>1, <1>2, <1>3, <1>4, CoordinatorLeavesBots DEF Next

\* What the coordinator and the leader do to a bot, ServiceBot allows.
LEMMA DispatchedBotsImplemented == Spec => BotSpec
<1>1. Init => BotInit
  BY DEF Init
<1> QED BY <1>1, StepsAreBots, PTL DEF Spec, BotSpec

\* So, until a kill reaches it, a bot is busy exactly while it works on one task,
\* although a coordinator and a leader give it tasks without knowing of each other.
THEOREM DispatchedBusyWithOneTask == Spec => []BusyWithOneTask
BY DispatchedBotsImplemented, BusyTheorem, PTL

\* Nor does a task of the other's steer the bot away from the one it is executing.
THEOREM DispatchedStepsLeadToTask == Spec => EveryStepNearer
BY DispatchedBotsImplemented, StepsLeadToTask, PTL

-----------------------------------------------------------------------------
(***************************************************************************)
(* Types.                                                                  *)
(***************************************************************************)
\* What giving a task to a bot leaves in the coordinator's state.
LEMMA BookTyped ==
  ASSUME TypeOK, NEW t \in Task, NEW w \in Worker, Book(t, w)
  PROVE  /\ ledger' \in [Task -> {"none", "new", "dropped", "pending", "assigned", "done"}]
         /\ robot' \in [Task -> Worker \cup {NoBot}]
         /\ listed' \in [Worker -> Status \cup {"none"}]
         /\ calls' \subseteq Task \X Worker
BY DEF TypeOK, Book, Status

LEMMA IdleTyped == \A t \in Task : Idle(t) \subseteq Worker
BY DispatchAssumption DEF Idle

\* What it does on an event and after a completion.
LEMMA CoordinatorKeepsTypes ==
  ASSUME TypeOK, BotTypeOK', NEW t \in Task,
         \/ HandleEvent(t) \/ AssignTask(t) \/ TryAssignPending(t)
  PROVE  TypeOK'
<1>1. CASE HandleEvent(t)
  BY <1>1, GridAssumption DEF HandleEvent, TypeOK, sweeps
<1>2. CASE AssignTask(t)
  <2>1. UNCHANGED <<found, sweep, reports, cleanups>>
    BY <1>2 DEF AssignTask
  <2>2. CASE ledger' = [ledger EXCEPT ![t] = "dropped"] /\ UNCHANGED <<robot, listed, turns, calls>>
    BY <2>1, <2>2 DEF TypeOK
  <2>3. ASSUME NEW v \in Idle(t), Book(t, v), UNCHANGED turns PROVE TypeOK'
    BY <2>1, <2>3, IdleTyped, BookTyped DEF TypeOK
  <2>4. CASE Pend(t) /\ UNCHANGED <<robot, listed, calls>>
    <3>1. PICK S \in SUBSET {s \in Task : sweep[s] = "on"} :
            turns' = [s \in Task |-> IF s \in S THEN turns[s] \cup {t} ELSE turns[s]]
      BY <2>4 DEF Pend
    <3>2. turns' \in [Task -> SUBSET Task]
      BY <3>1 DEF TypeOK
    <3> QED BY <2>1, <2>4, <3>2 DEF Pend, TypeOK
  <2> QED BY <1>2, <2>2, <2>3, <2>4 DEF AssignTask
<1>3. CASE TryAssignPending(t)
  <2>1. UNCHANGED <<found, reports, cleanups>>
    BY <1>3 DEF TryAssignPending
  <2> DEFINE left == IF sweep[t] = "ready" THEN Listed ELSE turns[t]
  <2>2. left \subseteq Task
    BY DEF Listed, TypeOK
  <2>3. CASE VisitTask(t, left)
    <3>0. PICK u \in left : \E v \in Idle(u) :
            /\ Book(u, v)
            /\ sweep' = [sweep EXCEPT ![t] = "on"]
            /\ \E later \in SUBSET (left \ {u}) : turns' = [turns EXCEPT ![t] = later]
      BY <2>3 DEF VisitTask
    <3>1. PICK v \in Idle(u) :
            /\ Book(u, v)
            /\ sweep' = [sweep EXCEPT ![t] = "on"]
            /\ \E later \in SUBSET (left \ {u}) : turns' = [turns EXCEPT ![t] = later]
      BY <3>0
    <3>2. u \in Task /\ v \in Worker
      BY <2>2, IdleTyped
    <3>3. turns' \in [Task -> SUBSET Task] /\ sweep' \in [Task -> {"none", "ready", "on"}]
      BY <2>2, <3>1 DEF TypeOK
    <3> QED BY <2>1, <3>1, <3>2, <3>3, BookTyped DEF TypeOK
  <2>4. CASE /\ sweep' = [sweep EXCEPT ![t] = "none"]
             /\ turns' = [turns EXCEPT ![t] = {}]
             /\ UNCHANGED <<ledger, robot, listed, calls>>
    BY <2>1, <2>4 DEF TypeOK
  <2> QED BY <1>3, <2>3, <2>4 DEF TryAssignPending
<1> QED BY <1>1, <1>2, <1>3

\* The state of the coordinator and what is on its way keep their types.
THEOREM DispatcherTyping == Spec => []TypeOK
<1>1. Init => TypeOK
  <2> SUFFICES ASSUME Init PROVE TypeOK
    OBVIOUS
  <2>1. BotTypeOK
    BY DEF Init, BotInit, BotTypeOK, Status, Stage
  <2> QED BY <2>1 DEF Init, TypeOK, Status
<1>2. TypeOK /\ [Next]_vars => TypeOK'
  <2> SUFFICES ASSUME TypeOK, [Next]_vars PROVE TypeOK'
    OBVIOUS
  <2>0. BotTypeOK'
    BY StepsAreBots, TypesKept DEF TypeOK
  <2>1. ASSUME NEW w \in Worker, PublishMetadata(w) PROVE TypeOK'
    <3>1. listed' \in [Worker -> Status \cup {"none"}]
      BY <2>1 DEF PublishMetadata, HandleMetadata, TypeOK
    <3> QED BY <2>0, <2>1, <3>1 DEF PublishMetadata, TypeOK, sweeps
  <2>2. ASSUME NEW w \in Worker, ReadMetadata(w) \/ BotStops(w) PROVE TypeOK'
    BY <2>0, <2>2 DEF ReadMetadata, BotStops, TypeOK, state, sweeps
  <2>3. ASSUME NEW t \in Task, NEW w \in Worker,
               AcceptCall(t, w) \/ CallFails(t, w) \/ AcceptForeign(t, w)
        PROVE  TypeOK'
    BY <2>0, <2>3 DEF AcceptCall, CallFails, AcceptForeign, TypeOK, state, sweeps
  <2>4. ASSUME NEW t \in Task, NEW w \in Worker, Work(w, t) PROVE TypeOK'
    <3>1. UNCHANGED <<found, ledger, robot, sweep, turns, calls, cleanups>>
      BY <2>4 DEF Work, sweeps
    <3>2. listed' \in [Worker -> Status \cup {"none"}]
      BY <2>4 DEF Work, PublishOwn, HandleMetadata, TypeOK
    <3>3. reports' \subseteq Completion
      <4>1. [task |-> t, bot |-> w, place |-> pos[w]] \in Completion
        BY DEF TypeOK, BotTypeOK, Completion
      <4> QED BY <2>4, <4>1 DEF Work, TypeOK
    <3> QED BY <2>0, <3>1, <3>2, <3>3 DEF TypeOK
  <2>5. ASSUME NEW r \in reports, ReportCompletion(r) PROVE TypeOK'
    <3>1. r.task \in Task /\ r.bot \in Worker /\ r.place \in Cell
      BY DEF TypeOK, Completion
    <3>2. /\ ledger' \in [Task -> {"none", "new", "dropped", "pending", "assigned", "done"}]
          /\ sweep' \in [Task -> {"none", "ready", "on"}]
      BY <2>5, <3>1 DEF ReportCompletion, TypeOK
    <3> QED BY <2>0, <2>5, <3>1, <3>2 DEF ReportCompletion, TypeOK, Status
  <2>6. ASSUME NEW r \in reports, LoseReport(r) PROVE TypeOK'
    BY <2>0, <2>6 DEF LoseReport, TypeOK, state, sweeps
  <2>7. ASSUME NEW c \in Cell, Observe(c) \/ DeleteProblem(c) PROVE TypeOK'
    BY <2>0, <2>7 DEF Observe, DeleteProblem, TypeOK, state, sweeps
  <2>8. CASE UNCHANGED vars
    BY <2>0, <2>8 DEF vars, TypeOK, state, sweeps
  <2>9. ASSUME NEW w \in Worker, Register(w) PROVE TypeOK'
    BY <2>0, <2>9 DEF Register, TypeOK, sweeps, Status
  <2>10. ASSUME NEW t \in Task, HandleEvent(t) \/ AssignTask(t) \/ TryAssignPending(t)
         PROVE  TypeOK'
    BY <2>0, <2>10, CoordinatorKeepsTypes
  <2> QED BY <2>1, <2>2, <2>3, <2>4, <2>5, <2>6, <2>7, <2>8, <2>9, <2>10 DEF Next
<1> QED BY <1>1, <1>2, PTL DEF Spec

-----------------------------------------------------------------------------
(***************************************************************************)
(* No task of the coordinator's is given to two robots.                    *)
(***************************************************************************)
\* A task is in one place at a time: called, executed or reported, and reported
\* once.  WorkIsBooked needs it: a completion makes the task "done", and must leave
\* nothing of the task behind.
OneToken ==
  \A t \in Own :
    /\ \A w \in Worker :
         /\ <<t, w>> \in calls => exec[w][t] = "none" /\ \A r \in reports : r.task # t
         /\ exec[w][t] # "none" => \A r \in reports : r.task # t
    /\ \A r, s \in reports : r.task = t /\ s.task = t => r = s

Booked == TypeOK /\ OneToken /\ WorkIsBooked

\* A step that only takes away from what is on its way.
LEMMA FewerTokens ==
  ASSUME OneToken, WorkIsBooked, UNCHANGED <<ledger, robot>>,
         calls' \subseteq calls, reports' \subseteq reports,
         \A t \in Own, w \in Worker : exec'[w][t] # "none" => exec[w][t] # "none"
  PROVE  OneToken' /\ WorkIsBooked'
<1>1. \A t \in Own, w \in Worker : At(t, w)' => At(t, w)
  BY DEF At
<1>2. WorkIsBooked'
  BY <1>1 DEF WorkIsBooked
<1>3. OneToken'
  BY DEF OneToken
<1> QED BY <1>2, <1>3

\* Nothing of a task that is new or pending is on its way.
LEMMA NothingUnderWay ==
  ASSUME WorkIsBooked, NEW t \in Own, ledger[t] # "assigned"
  PROVE  /\ \A w \in Worker : <<t, w>> \notin calls /\ exec[w][t] = "none"
         /\ TypeOK => \A r \in reports : r.task # t
<1>1. \A w \in Worker : ~At(t, w)
  BY DEF WorkIsBooked
<1> QED BY <1>1 DEF At, TypeOK, Completion

\* Giving such a task to a bot puts it in one place.
LEMMA BookKeeps ==
  ASSUME Booked, NEW u \in Task, NEW v \in Worker, ledger[u] # "assigned",
         Book(u, v), UNCHANGED <<exec, reports>>
  PROVE  OneToken' /\ WorkIsBooked'
<1>1. u \in Own => /\ \A w \in Worker : <<u, w>> \notin calls /\ exec[w][u] = "none"
                   /\ \A r \in reports : r.task # u
  BY NothingUnderWay DEF Booked
<1>2. calls' = calls \cup {<<u, v>>}
  BY DEF Book
<1>3. OneToken'
  BY <1>1, <1>2 DEF Booked, OneToken
<1>4. WorkIsBooked'
  <2> SUFFICES ASSUME NEW t \in Own, NEW w \in Worker, At(t, w)'
               PROVE  ledger'[t] = "assigned" /\ robot'[t] = w
    BY DEF WorkIsBooked
  <2>1. CASE t = u
    <3>1. w = v
      BY <1>1, <1>2, <2>1 DEF At
    <3> QED BY <2>1, <3>1 DEF Book, Booked, TypeOK
  <2>2. CASE t # u
    <3>1. At(t, w)
      BY <1>2, <2>2 DEF At
    <3> QED BY <2>2, <3>1 DEF Booked, WorkIsBooked, Book, TypeOK, Own
  <2> QED BY <2>1, <2>2
<1> QED BY <1>3, <1>4

\* Changing the status of a task nothing of which is on its way is harmless.
LEMMA LedgerKeeps ==
  ASSUME Booked, NEW u \in Task, NEW s, ledger[u] # "assigned",
         ledger' = [ledger EXCEPT ![u] = s], UNCHANGED <<robot, exec, calls, reports>>
  PROVE  OneToken' /\ WorkIsBooked'
<1>1. OneToken'
  BY DEF Booked, OneToken
<1>2. WorkIsBooked'
  <2> SUFFICES ASSUME NEW t \in Own, NEW w \in Worker, At(t, w)'
               PROVE  ledger'[t] = "assigned" /\ robot'[t] = w
    BY DEF WorkIsBooked
  <2>1. At(t, w)
    BY DEF At
  <2>2. ledger[t] = "assigned" /\ robot[t] = w
    BY <2>1 DEF Booked, WorkIsBooked
  <2> QED BY <2>2 DEF Booked, TypeOK, Own
<1> QED BY <1>1, <1>2

\* On an event the task is new; AssignTask and a sweep give away only what is new
\* or pending when they hold the lock.
LEMMA CoordinatorKeepsBooks ==
  ASSUME Booked, NEW t \in Task, \/ HandleEvent(t) \/ AssignTask(t) \/ TryAssignPending(t)
  PROVE  OneToken' /\ WorkIsBooked'
<1>0. UNCHANGED <<exec, reports>>
  BY DEF HandleEvent, AssignTask, TryAssignPending, botVars
<1>1. CASE HandleEvent(t)
  BY <1>0, <1>1, LedgerKeeps DEF HandleEvent
<1>2. CASE AssignTask(t)
  <2>1. ledger[t] # "assigned"
    BY <1>2 DEF AssignTask
  <2>2. CASE ledger' = [ledger EXCEPT ![t] = "dropped"] /\ UNCHANGED <<robot, listed, turns, calls>>
    BY <1>0, <2>1, <2>2, LedgerKeeps
  <2>3. ASSUME NEW v \in Idle(t), Book(t, v) PROVE OneToken' /\ WorkIsBooked'
    BY <1>0, <2>1, <2>3, IdleTyped, BookKeeps
  <2>4. CASE Pend(t) /\ UNCHANGED <<robot, listed, calls>>
    BY <1>0, <2>1, <2>4, LedgerKeeps DEF Pend
  <2> QED BY <1>2, <2>2, <2>3, <2>4 DEF AssignTask
<1>3. CASE TryAssignPending(t)
  <2> DEFINE left == IF sweep[t] = "ready" THEN Listed ELSE turns[t]
  <2>1. left \subseteq Task
    BY DEF Listed, Booked, TypeOK
  <2>2. CASE VisitTask(t, left)
    <3>1. PICK u \in left : \E v \in Idle(u) : ledger[u] = "pending" /\ Book(u, v)
      BY <2>2 DEF VisitTask
    <3>2. PICK v \in Idle(u) : ledger[u] = "pending" /\ Book(u, v)
      BY <3>1
    <3> QED BY <1>0, <2>1, <3>2, IdleTyped, BookKeeps
  <2>3. CASE UNCHANGED <<ledger, robot, listed, calls>>
    BY <1>0, <2>3, FewerTokens DEF Booked
  <2> QED BY <1>3, <2>2, <2>3 DEF TryAssignPending
<1> QED BY <1>1, <1>2, <1>3

\* A call that is accepted becomes an execution.
LEMMA AcceptKeepsBooks ==
  ASSUME Booked, NEW t \in Task, NEW w \in Worker, AcceptCall(t, w)
  PROVE  OneToken' /\ WorkIsBooked'
<1>1. /\ <<t, w>> \in calls /\ calls' = calls \ {<<t, w>>}
      /\ exec' = [exec EXCEPT ![w][t] = "move"]
      /\ UNCHANGED <<ledger, robot, reports>>
  BY DEF AcceptCall, Accept, Advance, state
<1>2. \A u \in Own, v \in Worker :
        exec'[v][u] = exec[v][u] \/ (u = t /\ v = w)
  BY <1>1 DEF Booked, TypeOK, BotTypeOK, Own
<1>3. \A u \in Own, v \in Worker : At(u, v)' => At(u, v)
  BY <1>1, <1>2 DEF At
<1>4. WorkIsBooked'
  BY <1>1, <1>3 DEF Booked, WorkIsBooked
<1>5. OneToken'
  <2>1. \A r \in reports : t \in Own => r.task # t
    BY <1>1 DEF Booked, OneToken
  <2>2. \A u \in Own, v \in Worker : <<u, v>> \in calls' => exec'[v][u] = exec[v][u]
    BY <1>1, <1>2
  <2> QED BY <1>1, <1>2, <2>1, <2>2 DEF Booked, OneToken
<1> QED BY <1>4, <1>5

\* An execution that ends with a report leaves nothing but the report.
LEMMA ReportKeepsBooks ==
  ASSUME Booked, NEW t \in Task, NEW w \in Worker, Work(w, t), Report(w, t)
  PROVE  OneToken' /\ WorkIsBooked'
<1> DEFINE n == [task |-> t, bot |-> w, place |-> pos[w]]
<1>1. /\ exec[w][t] = "report" /\ exec' = [exec EXCEPT ![w][t] = "none"]
      /\ reports' \subseteq reports \cup {n}
      /\ UNCHANGED <<ledger, robot, calls>>
  BY DEF Work, Report, Advance
<1>2. At(t, w)
  BY <1>1 DEF At
<1>3. \A u \in Own, v \in Worker : 
        exec'[v][u] # "none" => exec[v][u] # "none" /\ ~(u = t /\ v = w)
  BY <1>1 DEF Booked, TypeOK, BotTypeOK, Own
<1>4. \A u \in Own, v \in Worker : At(u, v)' => At(u, v)
  BY <1>1, <1>2, <1>3 DEF At
<1>5. WorkIsBooked'
  BY <1>1, <1>4 DEF Booked, WorkIsBooked
<1>6. t \in Own => /\ \A v \in Worker : v # w => ~At(t, v)
                   /\ \A r \in reports : r.task # t
  <2>1. t \in Own => \A v \in Worker : v # w => ~At(t, v)
    BY <1>2 DEF Booked, WorkIsBooked
  <2>2. t \in Own => \A r \in reports : r.task # t
    BY <1>1 DEF Booked, OneToken
  <2> QED BY <2>1, <2>2
<1>7. t \in Own => \A v \in Worker : <<t, v>> \notin calls /\ exec'[v][t] = "none"
  BY <1>1, <1>3, <1>6 DEF At, Booked, OneToken
<1>8. OneToken'
  <2>1. ASSUME t \in Own, NEW r \in reports', r.task = t PROVE r = n
    BY <1>1, <1>6, <2>1
  <2>2. ASSUME NEW r \in reports', r.task # t PROVE r \in reports
    BY <1>1, <2>2
  <2> QED BY <1>1, <1>3, <1>7, <2>1, <2>2 DEF Booked, OneToken
<1> QED BY <1>5, <1>8

\* A completion takes away the last there was of its task.
LEMMA CompletionKeepsBooks ==
  ASSUME Booked, NEW r \in reports, ReportCompletion(r)
  PROVE  OneToken' /\ WorkIsBooked'
<1> DEFINE t == r.task
<1>1. /\ reports' = reports \ {r} /\ UNCHANGED <<exec, robot, calls>>
      /\ t \in Task /\ \A u \in Task : u # t => ledger'[u] = ledger[u]
  BY DEF ReportCompletion, botVars, Booked, TypeOK, Completion
<1>2. OneToken'
  BY <1>1 DEF Booked, OneToken
<1>3. t \in Own => \A w \in Worker : ~At(t, w)'
  <2> SUFFICES ASSUME t \in Own, NEW w \in Worker PROVE ~At(t, w)'
    OBVIOUS
  <2>1. <<t, w>> \notin calls /\ exec[w][t] = "none"
    BY DEF Booked, OneToken
  <2>2. \A s \in reports : s.task = t => s = r
    BY DEF Booked, OneToken
  <2> QED BY <1>1, <2>1, <2>2 DEF At
<1>4. \A u \in Own, w \in Worker : At(u, w)' => At(u, w)
  BY <1>1 DEF At
<1>5. WorkIsBooked'
  BY <1>1, <1>3, <1>4 DEF Booked, WorkIsBooked, Own
<1> QED BY <1>2, <1>5

\* Every other step of a bot only ends executions, but for a task of the leader's.
LEMMA OthersKeepBooks ==
  ASSUME Booked, [Next]_vars,
         \A t \in Task : ~(HandleEvent(t) \/ AssignTask(t) \/ TryAssignPending(t)),
         \A t \in Task, w \in Worker : ~AcceptCall(t, w) /\ ~(Work(w, t) /\ Report(w, t)),
         \A r \in reports : ~ReportCompletion(r)
  PROVE  OneToken' /\ WorkIsBooked'
<1> DEFINE Fewer == \A u \in Own, v \in Worker : exec'[v][u] # "none" => exec[v][u] # "none"
<1>1. ASSUME NEW w \in Worker, Register(w) \/ PublishMetadata(w) \/ ReadMetadata(w) \/ BotStops(w)
      PROVE  OneToken' /\ WorkIsBooked'
  <2>1. UNCHANGED <<ledger, robot, calls, reports>>
    BY <1>1 DEF Register, PublishMetadata, ReadMetadata, BotStops, state
  <2>2. UNCHANGED exec \/ exec' = [exec EXCEPT ![w] = [t \in Task |-> "none"]]
    BY <1>1 DEF Register, PublishMetadata, Publish, ReadMetadata, Read, BotStops, Kill, Dying,
                GoOffline, CloseStop, Disconnect, Crash, botVars
  <2>3. Fewer
    BY <2>2 DEF Booked, TypeOK, BotTypeOK, Own
  <2> QED BY <2>1, <2>3, FewerTokens DEF Booked
<1>2. ASSUME NEW t \in Task, NEW w \in Worker, CallFails(t, w) \/ AcceptForeign(t, w)
      PROVE  OneToken' /\ WorkIsBooked'
  <2>1. UNCHANGED <<ledger, robot, reports>> /\ calls' \subseteq calls
    BY <1>2 DEF CallFails, AcceptForeign, state
  <2>2. UNCHANGED exec \/ (t \in Foreign /\ exec' = [exec EXCEPT ![w][t] = "move"])
    BY <1>2 DEF CallFails, botVars, AcceptForeign, Accept, Advance
  <2>3. ASSUME NEW u \in Own, NEW v \in Worker PROVE exec'[v][u] = exec[v][u]
    <3>1. u \in Task /\ u \notin Foreign
      BY DEF Own
    <3>2. exec \in [Worker -> [Task -> Stage]]
      BY DEF Booked, TypeOK, BotTypeOK
    <3> QED BY <2>2, <3>1, <3>2
  <2> QED BY <2>1, <2>3, FewerTokens DEF Booked
<1>3. ASSUME NEW t \in Task, NEW w \in Worker, Work(w, t) PROVE OneToken' /\ WorkIsBooked'
  <2>1. UNCHANGED <<ledger, robot, calls, reports>> /\ (Quiet(w, t) \/ PublishOwn(w, t))
    BY <1>3 DEF Work
  <2>2. exec[w][t] # "none" /\ \E s : exec' = [exec EXCEPT ![w][t] = s]
    BY <2>1 DEF Quiet, Walk, Arrive, Repair, Cancel, Delete, Rest, ReadOwn, PublishOwn, Advance,
                Status
  <2>3. Fewer
    BY <2>2 DEF Own, Booked, TypeOK, BotTypeOK
  <2> QED BY <2>1, <2>3, FewerTokens DEF Booked
<1>4. ASSUME NEW r \in reports, LoseReport(r) PROVE OneToken' /\ WorkIsBooked'
  BY <1>4, FewerTokens DEF LoseReport, botVars, state, Booked
<1>5. ASSUME NEW c \in Cell, Observe(c) \/ DeleteProblem(c) PROVE OneToken' /\ WorkIsBooked'
  BY <1>5, FewerTokens DEF Observe, DeleteProblem, DeleteAt, botVars, state, Booked
<1>6. CASE UNCHANGED vars
  BY <1>6, FewerTokens DEF vars, botVars, state, Booked
<1> QED BY <1>1, <1>2, <1>3, <1>4, <1>5, <1>6 DEF Next

\* All of them together.
LEMMA BooksKept == Booked /\ [Next]_vars => OneToken' /\ WorkIsBooked'
<1> SUFFICES ASSUME Booked, [Next]_vars PROVE OneToken' /\ WorkIsBooked'
  OBVIOUS
<1>1. CASE \E t \in Task : HandleEvent(t) \/ AssignTask(t) \/ TryAssignPending(t)
  BY <1>1, CoordinatorKeepsBooks
<1>2. ASSUME NEW t \in Task, NEW w \in Worker, AcceptCall(t, w) \/ (Work(w, t) /\ Report(w, t))
      PROVE  OneToken' /\ WorkIsBooked'
  BY <1>2, AcceptKeepsBooks, ReportKeepsBooks
<1>3. CASE \E r \in reports : ReportCompletion(r)
  BY <1>3, CompletionKeepsBooks
<1>4. CASE /\ \A t \in Task : ~(HandleEvent(t) \/ AssignTask(t) \/ TryAssignPending(t))
           /\ \A t \in Task, w \in Worker : ~AcceptCall(t, w) /\ ~(Work(w, t) /\ Report(w, t))
           /\ \A r \in reports : ~ReportCompletion(r)
  BY <1>4, OthersKeepBooks
<1> QED BY <1>1, <1>2, <1>3, <1>4

\* Two completions, each with a sweep, and events race for the same pending tasks and
\* idle robots; still each of the coordinator's tasks is with one robot, the one the
\* coordinator has booked, and nothing of it is under way unless it is assigned.
THEOREM BookedWork == Spec => []WorkIsBooked
<1>1. Init => OneToken /\ WorkIsBooked
  BY DEF Init, BotInit, OneToken, WorkIsBooked, At, Own
<1>2. Spec => [](OneToken /\ WorkIsBooked)
  BY <1>1, BooksKept, DispatcherTyping, PTL DEF Spec, Booked
<1> QED BY <1>2, PTL

-----------------------------------------------------------------------------
(***************************************************************************)
(* What a step does to the books.                                          *)
(***************************************************************************)
\* A task that was not given away is given to a bot that is called.
Gives(u, v) == ledger[u] \in {"new", "pending"} /\ Book(u, v) /\ UNCHANGED <<exec, reports>>

\* A task that was not given away changes its status.
Lists(u) == /\ ledger[u] \in {"none", "new"}
            /\ \E s \in {"new", "dropped", "pending"} : ledger' = [ledger EXCEPT ![u] = s]
            /\ UNCHANGED <<robot, exec, calls, reports>>

\* Work moves on or is lost.
Moves == UNCHANGED <<ledger, robot>> /\ \A u \in Own, w \in Worker : At(u, w)' => At(u, w)

LEMMA CoordinatorsSteps ==
  ASSUME TypeOK, NEW t \in Task, HandleEvent(t) \/ AssignTask(t) \/ TryAssignPending(t)
  PROVE  \/ \E u \in Task, v \in Worker : Gives(u, v)
         \/ \E u \in Task : Lists(u)
         \/ Moves
<1>0. UNCHANGED <<exec, reports>>
  BY DEF HandleEvent, AssignTask, TryAssignPending, botVars
<1>1. CASE HandleEvent(t)
  <2>1. Lists(t)
    BY <1>0, <1>1 DEF HandleEvent, Lists
  <2> QED BY <2>1
<1>2. CASE AssignTask(t)
  <2>1. ledger[t] = "new"
    BY <1>2 DEF AssignTask
  <2>2. CASE ledger' = [ledger EXCEPT ![t] = "dropped"] /\ UNCHANGED <<robot, listed, turns, calls>>
    <3>1. Lists(t)
      BY <1>0, <2>1, <2>2 DEF Lists
    <3> QED BY <3>1
  <2>3. ASSUME NEW v \in Idle(t), Book(t, v) PROVE Gives(t, v) /\ v \in Worker
    BY <1>0, <2>1, <2>3, IdleTyped DEF Gives
  <2>4. CASE Pend(t) /\ UNCHANGED <<robot, listed, calls>>
    <3>1. Lists(t)
      BY <1>0, <2>1, <2>4 DEF Pend, Lists
    <3> QED BY <3>1
  <2> QED BY <1>2, <2>2, <2>3, <2>4 DEF AssignTask
<1>3. CASE TryAssignPending(t)
  <2> DEFINE left == IF sweep[t] = "ready" THEN Listed ELSE turns[t]
  <2>1. left \subseteq Task
    BY DEF Listed, TypeOK
  <2>2. CASE VisitTask(t, left)
    <3>1. PICK u \in left : \E v \in Idle(u) : ledger[u] = "pending" /\ Book(u, v)
      BY <2>2 DEF VisitTask
    <3>2. PICK v \in Idle(u) : ledger[u] = "pending" /\ Book(u, v)
      BY <3>1
    <3>3. u \in Task /\ v \in Worker /\ Gives(u, v)
      BY <1>0, <2>1, <3>2, IdleTyped DEF Gives
    <3> QED BY <3>3
  <2>3. CASE UNCHANGED <<ledger, robot, listed, calls>>
    BY <1>0, <2>3 DEF Moves, At
  <2> QED BY <1>3, <2>2, <2>3 DEF TryAssignPending
<1> QED BY <1>1, <1>2, <1>3

\* What the bots do with a task: a call becomes an execution, an execution a report.
LEMMA BotsSteps ==
  ASSUME TypeOK, NEW t \in Task, NEW w \in Worker,
         \/ AcceptCall(t, w) \/ CallFails(t, w) \/ AcceptForeign(t, w) \/ Work(w, t)
  PROVE  Moves
<1>1. CASE AcceptCall(t, w)
  <2>1. /\ <<t, w>> \in calls /\ calls' = calls \ {<<t, w>>}
        /\ exec' = [exec EXCEPT ![w][t] = "move"]
        /\ UNCHANGED <<ledger, robot, reports>>
    BY <1>1 DEF AcceptCall, Accept, Advance, state
  <2>2. \A u \in Own, v \in Worker : exec'[v][u] = exec[v][u] \/ (u = t /\ v = w)
    BY <2>1 DEF TypeOK, BotTypeOK, Own
  <2> QED BY <2>1, <2>2 DEF Moves, At
<1>2. CASE CallFails(t, w)
  BY <1>2 DEF CallFails, botVars, state, Moves, At
<1>3. CASE AcceptForeign(t, w)
  <2>1. /\ t \in Foreign /\ exec' = [exec EXCEPT ![w][t] = "move"]
        /\ UNCHANGED <<ledger, robot, calls, reports>>
    BY <1>3 DEF AcceptForeign, Accept, Advance, state
  <2>2. \A u \in Own, v \in Worker : exec'[v][u] = exec[v][u]
    BY <2>1 DEF TypeOK, BotTypeOK, Own
  <2> QED BY <2>1, <2>2 DEF Moves, At
<1>4. CASE Work(w, t)
  <2>1. UNCHANGED <<ledger, robot, calls>>
    BY <1>4 DEF Work
  <2>2. exec[w][t] # "none" /\ \E s : exec' = [exec EXCEPT ![w][t] = s]
    BY <1>4 DEF Work, Report, Quiet, Walk, Arrive, Repair, Cancel, Delete, Rest, ReadOwn,
                PublishOwn, Advance, Status
  <2>3. \A u \in Own, v \in Worker : exec'[v][u] = exec[v][u] \/ (u = t /\ v = w)
    BY <2>2 DEF TypeOK, BotTypeOK, Own
  <2>4. \A r \in reports' : r \in reports \/ (r.task = t /\ r.bot = w)
    BY <1>4 DEF Work
  <2> QED BY <2>1, <2>2, <2>3, <2>4 DEF Moves, At
<1> QED BY <1>1, <1>2, <1>3, <1>4

LEMMA BooksStep ==
  ASSUME TypeOK, [Next]_vars
  PROVE  \/ \E u \in Task, v \in Worker : Gives(u, v)
         \/ \E u \in Task : Lists(u)
         \/ \E r \in reports : ReportCompletion(r)
         \/ Moves
<1>1. ASSUME NEW w \in Worker, Register(w) \/ PublishMetadata(w) \/ ReadMetadata(w) \/ BotStops(w)
      PROVE  Moves
  <2>1. UNCHANGED <<ledger, robot, calls, reports>>
    BY <1>1 DEF Register, PublishMetadata, ReadMetadata, BotStops, state
  <2>2. UNCHANGED exec \/ exec' = [exec EXCEPT ![w] = [t \in Task |-> "none"]]
    BY <1>1 DEF Register, PublishMetadata, Publish, ReadMetadata, Read, BotStops, Kill, Dying,
                GoOffline, CloseStop, Disconnect, Crash, botVars
  <2>3. \A u \in Own, v \in Worker : exec'[v][u] # "none" => exec[v][u] # "none"
    BY <2>2 DEF TypeOK, BotTypeOK, Own
  <2> QED BY <2>1, <2>3 DEF Moves, At
<1>2. ASSUME NEW r \in reports, LoseReport(r) PROVE Moves
  BY <1>2 DEF LoseReport, botVars, state, Moves, At
<1>3. ASSUME NEW c \in Cell, Observe(c) \/ DeleteProblem(c) PROVE Moves
  <2>1. UNCHANGED <<ledger, robot, exec, calls, reports>>
    BY <1>3 DEF Observe, DeleteProblem, DeleteAt, botVars, state
  <2> QED BY <2>1 DEF Moves, At
<1>4. CASE UNCHANGED vars
  <2>1. UNCHANGED <<ledger, robot, exec, calls, reports>>
    BY <1>4 DEF vars, botVars, state
  <2> QED BY <2>1 DEF Moves, At
<1> QED BY <1>1, <1>2, <1>3, <1>4, CoordinatorsSteps, BotsSteps DEF Next

-----------------------------------------------------------------------------
(***************************************************************************)
(* The books implement Booking.                                            *)
(***************************************************************************)
\* A task that counts as assigned or completed was given to a robot, and no other.
GivenToRobots ==
  \A t \in Own : ledger[t] \in {"assigned", "done"} <=> robot[t] \in Worker

\* The report of a task of the coordinator's is from the robot it was given to, and
\* it is in the list.
LEMMA ReportsAreExpected ==
  ASSUME Booked, NEW r \in reports, r.task \in Own
  PROVE  /\ ledger[r.task] = "assigned" /\ robot[r.task] = r.bot /\ r.task \in Listed
         /\ r.bot \in Worker
<1>1. r.bot \in Worker /\ r.task \in Task
  BY DEF Booked, TypeOK, Completion
<1>2. At(r.task, r.bot)
  BY DEF At
<1> QED BY <1>1, <1>2 DEF Booked, WorkIsBooked, Listed

LEMMA GivenKept ==
  ASSUME Booked, GivenToRobots, [Next]_vars
  PROVE  GivenToRobots'
<1>0. /\ ledger \in [Task -> {"none", "new", "dropped", "pending", "assigned", "done"}]
      /\ robot \in [Task -> Worker \cup {NoBot}] /\ Own \subseteq Task
  BY DEF Booked, TypeOK, Own
<1>1. ASSUME NEW u \in Task, NEW v \in Worker, Gives(u, v) PROVE GivenToRobots'
  BY <1>0, <1>1 DEF Gives, Book, GivenToRobots
<1>2. ASSUME NEW u \in Task, Lists(u) PROVE GivenToRobots'
  BY <1>0, <1>2 DEF Lists, GivenToRobots
<1>3. ASSUME NEW r \in reports, ReportCompletion(r) PROVE GivenToRobots'
  <2>1. UNCHANGED robot
    BY <1>3 DEF ReportCompletion
  <2>2. \A t \in Own : ledger'[t] = ledger[t] \/ (ledger[t] = "assigned" /\ ledger'[t] = "done")
    BY <1>0, <1>3, ReportsAreExpected DEF ReportCompletion
  <2> QED BY <2>1, <2>2 DEF GivenToRobots
<1>4. CASE Moves
  BY <1>4 DEF Moves, GivenToRobots
<1> QED BY <1>1, <1>2, <1>3, <1>4, BooksStep DEF Booked

\* What a completion takes away of its task is all there was.
LEMMA CompletionLeavesNothing ==
  ASSUME Booked, NEW r \in reports, ReportCompletion(r)
  PROVE  \A u \in Own, w \in Worker : At(u, w)' <=> At(u, w) /\ u # r.task
<1>1. reports' = reports \ {r} /\ UNCHANGED <<exec, calls>>
  BY DEF ReportCompletion, botVars
<1>2. ASSUME NEW u \in Own, NEW w \in Worker, u = r.task PROVE ~At(u, w)'
  <2>1. <<u, w>> \notin calls /\ exec[w][u] = "none"
    BY <1>2 DEF Booked, OneToken
  <2>2. \A s \in reports : s.task = u => s = r
    BY <1>2 DEF Booked, OneToken
  <2> QED BY <1>1, <2>1, <2>2 DEF At
<1>3. ASSUME NEW u \in Own, NEW w \in Worker, u # r.task PROVE At(u, w)' <=> At(u, w)
  BY <1>1, <1>3 DEF At
<1> QED BY <1>2, <1>3

\* The robot a task is given to, the work that is under way, what is done.
owners == [t \in Own |-> robot[t]]
works == {p \in Own \X Worker : At(p[1], p[2])}
dones == {t \in Own : ledger[t] = "done"}

LEMMA BookingStep ==
  ASSUME Booked, GivenToRobots, [Next]_vars
  PROVE  Bookings!Next
<1>0. /\ ledger \in [Task -> {"none", "new", "dropped", "pending", "assigned", "done"}]
      /\ robot \in [Task -> Worker \cup {NoBot}] /\ Own \subseteq Task
  BY DEF Booked, TypeOK, Own
<1>l. ASSUME works' \subseteq works, owners' = owners, dones' = dones PROVE Bookings!Next
  BY <1>l DEF Bookings!Next, Bookings!Lose, works, owners, dones
<1>1. ASSUME NEW u \in Task, NEW v \in Worker, Gives(u, v) PROVE Bookings!Next
  <2>1. /\ calls' = calls \cup {<<u, v>>} /\ UNCHANGED <<exec, reports>>
        /\ ledger[u] \in {"new", "pending"}
        /\ ledger' = [ledger EXCEPT ![u] = "assigned"] /\ robot' = [robot EXCEPT ![u] = v]
    BY <1>1 DEF Gives, Book
  <2>2. \A t \in Own, w \in Worker : At(t, w)' <=> At(t, w) \/ (t = u /\ w = v)
    BY <2>1 DEF At
  <2>3. dones' = dones
    BY <1>0, <2>1 DEF dones
  <2>4. CASE u \in Own
    <3>1. owners[u] = NoBot
      BY <1>0, <2>1, <2>4 DEF owners, GivenToRobots
    <3>2. owners' = [owners EXCEPT ![u] = v]
      BY <1>0, <2>1, <2>4 DEF owners
    <3>3. works' = works \cup {<<u, v>>}
      BY <2>2, <2>4 DEF works
    <3>4. Bookings!Give(u, v)
      BY <2>3, <3>1, <3>2, <3>3 DEF Bookings!Give, owners, works, dones
    <3> QED BY <2>4, <3>4 DEF Bookings!Next
  <2>5. CASE u \notin Own
    <3>1. owners' = owners
      BY <1>0, <2>1, <2>5 DEF owners
    <3>2. works' \subseteq works
      BY <2>2, <2>5 DEF works
    <3> QED BY <1>l, <2>3, <3>1, <3>2
  <2> QED BY <2>4, <2>5
<1>2. ASSUME NEW u \in Task, Lists(u) PROVE Bookings!Next
  <2>1. owners' = owners
    BY <1>2 DEF Lists, owners
  <2>2. dones' = dones
    BY <1>0, <1>2 DEF Lists, dones
  <2>3. works' \subseteq works
    BY <1>2 DEF Lists, works, At
  <2> QED BY <1>l, <2>1, <2>2, <2>3
<1>3. ASSUME NEW r \in reports, ReportCompletion(r) PROVE Bookings!Next
  <2>1. UNCHANGED robot /\ owners' = owners
    BY <1>3 DEF ReportCompletion, owners
  <2>2. \A t \in Own, w \in Worker : At(t, w)' <=> At(t, w) /\ t # r.task
    BY <1>3, CompletionLeavesNothing
  <2>3. CASE r.task \in Own
    <3>1. /\ robot[r.task] = r.bot /\ r.task \in Listed /\ r.bot \in Worker
          /\ \A w \in Worker : At(r.task, w) => w = r.bot
      BY <2>3, ReportsAreExpected DEF Booked, WorkIsBooked
    <3>2. <<r.task, owners[r.task]>> \in works
      BY <2>3, <3>1 DEF works, owners, At
    <3>3. works' = works \ {<<r.task, owners[r.task]>>}
      BY <2>2, <2>3, <3>1 DEF works, owners
    <3>4. dones' = dones \cup {r.task}
      <4>1. ledger' = [ledger EXCEPT ![r.task] = "done"]
        BY <1>3, <3>1 DEF ReportCompletion
      <4> QED BY <1>0, <2>3, <4>1 DEF dones
    <3>5. Bookings!Finish(r.task)
      BY <2>1, <3>2, <3>3, <3>4 DEF Bookings!Finish, owners, works, dones
    <3> QED BY <2>3, <3>5 DEF Bookings!Next
  <2>4. CASE r.task \notin Own
    <3>1. dones' = dones
      BY <1>0, <1>3, <2>4 DEF ReportCompletion, dones
    <3>2. works' \subseteq works
      BY <2>2 DEF works
    <3> QED BY <1>l, <2>1, <3>1, <3>2
  <2> QED BY <2>3, <2>4
<1>4. CASE Moves
  BY <1>4, <1>l DEF Moves, works, owners, dones
<1> QED BY <1>1, <1>2, <1>3, <1>4, BooksStep DEF Booked

LEMMA BookedAlways == Spec => [](Booked /\ GivenToRobots)
<1>1. Init => OneToken /\ WorkIsBooked /\ GivenToRobots
  BY DispatchAssumption DEF Init, BotInit, OneToken, WorkIsBooked, At, Own, GivenToRobots
<1>2. Booked /\ GivenToRobots /\ [Next]_vars => OneToken' /\ WorkIsBooked' /\ GivenToRobots'
  BY BooksKept, GivenKept
<1> QED BY <1>1, <1>2, DispatcherTyping, PTL DEF Spec, Booked

\* The dispatcher implements Booking, for every set of robots and problems: however
\* sweeps, completions and lost calls are interleaved, it gives each of its tasks to
\* one robot and once, and a completed task leaves no work behind.
THEOREM TasksAreGivenOnce == Spec => GivenOnce
<1>1. Init => Bookings!Init
  BY DEF Init, BotInit, Bookings!Init, At, Own
<1>2. Booked /\ GivenToRobots /\ [Next]_vars => Bookings!Next
  BY BookingStep
<1> QED BY <1>1, <1>2, BookedAlways, PTL DEF Spec, GivenOnce, Bookings!Spec

-----------------------------------------------------------------------------
(***************************************************************************)
(* What counts as completed is repaired.                                   *)
(***************************************************************************)
\* What a robot reports is true, and stays true on the way.
ReportsHold == \A r \in reports : Trusted(r.bot) => r.task \notin problems

LEMMA ReportsHoldKept ==
  ASSUME TypeOK, Spared, ReportedIsRepaired, ReportsHold, [Next]_vars
  PROVE  ReportsHold'
<1>b. BotTypeOK /\ [BotNext]_botVars
  BY StepsAreBots DEF TypeOK
<1> SUFFICES ASSUME NEW r \in reports', Trusted(r.bot)' PROVE r.task \notin problems'
  BY DEF ReportsHold
<1>1. r \in reports \/ \E t \in Task, w \in Worker :
                          Report(w, t) /\ r = [task |-> t, bot |-> w, place |-> pos[w]]
  <2>1. ASSUME NEW t \in Task, HandleEvent(t) \/ AssignTask(t) \/ TryAssignPending(t)
        PROVE  UNCHANGED reports
    BY <2>1 DEF HandleEvent, AssignTask, TryAssignPending
  <2>2. ASSUME NEW w \in Worker, \/ Register(w) \/ PublishMetadata(w)
                                 \/ ReadMetadata(w) \/ BotStops(w)
        PROVE  UNCHANGED reports
    BY <2>2 DEF Register, PublishMetadata, ReadMetadata, BotStops
  <2>3. ASSUME NEW t \in Task, NEW w \in Worker,
               AcceptCall(t, w) \/ CallFails(t, w) \/ AcceptForeign(t, w)
        PROVE  UNCHANGED reports
    BY <2>3 DEF AcceptCall, CallFails, AcceptForeign
  <2>4. ASSUME NEW s \in reports, ReportCompletion(s) \/ LoseReport(s)
        PROVE  reports' \subseteq reports
    BY <2>4 DEF ReportCompletion, LoseReport
  <2>5. ASSUME NEW c \in Cell, Observe(c) \/ DeleteProblem(c) PROVE UNCHANGED reports
    BY <2>5 DEF Observe, DeleteProblem
  <2>6. ASSUME NEW t \in Task, NEW w \in Worker, Work(w, t)
        PROVE  \/ UNCHANGED reports
               \/ /\ Report(w, t)
                  /\ reports' = reports \cup {[task |-> t, bot |-> w, place |-> pos[w]]}
    BY <2>6 DEF Work
  <2>7. CASE UNCHANGED vars
    BY <2>7 DEF vars
  <2> QED BY <2>1, <2>2, <2>3, <2>4, <2>5, <2>6, <2>7 DEF Next
<1>2. problems' \subseteq problems
  BY <1>b, ProblemsShrink
<1>3. CASE r \in reports
  <2>1. r.bot \in Worker
    BY <1>3 DEF TypeOK, Completion
  <2>2. Trusted(r.bot)
    BY <1>b, <2>1, TrustOnlyLost
  <2> QED BY <1>2, <1>3, <2>2 DEF ReportsHold
<1>4. ASSUME NEW t \in Task, NEW w \in Worker, Report(w, t), r.task = t, r.bot = w
      PROVE  r.task \notin problems'
  <2>1. Trusted(w)
    BY <1>4, <1>b, TrustOnlyLost
  <2>2. life[w] \in {"up", "told"} /\ exec[w][t] = "report"
    BY <1>4, <2>1 DEF Report, Runs, Spared, Trusted
  <2> QED BY <1>2, <1>4, <2>2 DEF ReportedIsRepaired
<1> QED BY <1>1, <1>3, <1>4

LEMMA DoneIsRepairedKept ==
  ASSUME Booked, GivenToRobots, ReportsHold, DoneIsRepaired, [Next]_vars
  PROVE  DoneIsRepaired'
<1>0. /\ ledger \in [Task -> {"none", "new", "dropped", "pending", "assigned", "done"}]
      /\ robot \in [Task -> Worker \cup {NoBot}] /\ Own \subseteq Task
  BY DEF Booked, TypeOK, Own
<1>b. BotTypeOK /\ [BotNext]_botVars
  BY StepsAreBots DEF Booked, TypeOK
<1> SUFFICES ASSUME NEW t \in Own, ledger'[t] = "done", Trusted(robot[t])'
             PROVE  t \notin problems'
  BY DEF DoneIsRepaired
<1>1. problems' \subseteq problems
  BY <1>b, ProblemsShrink
<1>t. \A w \in Worker : Trusted(w)' => Trusted(w)
  BY <1>b, TrustOnlyLost
<1>r. ASSUME NEW w \in Worker, robot'[t] = w PROVE Trusted(w)
  BY <1>t, <1>r DEF Trusted
<1>2. CASE ledger[t] = "done" /\ robot'[t] = robot[t]
  <2>1. robot[t] \in Worker
    BY <1>2 DEF GivenToRobots
  <2>2. Trusted(robot[t])
    BY <1>2, <1>r, <2>1
  <2> QED BY <1>1, <1>2, <2>2 DEF DoneIsRepaired
<1>3. ASSUME NEW u \in Task, NEW v \in Worker, Gives(u, v) PROVE t \notin problems'
  BY <1>0, <1>2, <1>3 DEF Gives, Book
<1>4. ASSUME NEW u \in Task, Lists(u) PROVE t \notin problems'
  BY <1>0, <1>2, <1>4 DEF Lists
<1>5. ASSUME NEW r \in reports, ReportCompletion(r) PROVE t \notin problems'
  <2>1. UNCHANGED robot /\ \A u \in Task : ledger'[u] = ledger[u] \/ u = r.task
    BY <1>0, <1>5 DEF ReportCompletion
  <2>2. CASE t = r.task
    <3>1. robot[t] = r.bot /\ r.bot \in Worker
      BY <2>2, ReportsAreExpected
    <3>2. Trusted(r.bot)
      BY <1>r, <2>1, <3>1
    <3> QED BY <1>1, <2>2, <3>2 DEF ReportsHold
  <2> QED BY <1>0, <1>2, <2>1, <2>2
<1>6. CASE Moves
  BY <1>2, <1>6 DEF Moves
<1> QED BY <1>3, <1>4, <1>5, <1>6, BooksStep DEF Booked

\* As long as the world answers, a task the coordinator counts as completed is one
\* whose problem is gone, unless a kill has reached the very robot it was given to:
\* whoever else works there, is killed or crashes, and whatever gets lost.
THEOREM CompletedTasksAreRepaired == ASSUME ~WorldFails PROVE Spec => []DoneIsRepaired
<1> DEFINE Holds == Spared /\ ReportsHold /\ DoneIsRepaired
<1>1. Init => Holds
  BY DEF Init, BotInit, Spared, ReportsHold, DoneIsRepaired, Own
<1>2. ASSUME Booked, GivenToRobots, ReportedIsRepaired, Holds, [Next]_vars PROVE Holds'
  <2>1. Spared'
    BY <1>2, StepsAreBots, SparedKept DEF Booked, TypeOK
  <2>2. ReportsHold'
    BY <1>2, ReportsHoldKept DEF Booked
  <2>3. DoneIsRepaired'
    BY <1>2, DoneIsRepairedKept
  <2> QED BY <2>1, <2>2, <2>3
<1>3. Spec => []ReportedIsRepaired
  BY DispatchedBotsImplemented, ReportsAreTrue, PTL
<1>4. Spec => []Holds
  <2> HIDE DEF Holds
  <2> QED BY <1>1, <1>2, <1>3, BookedAlways, PTL DEF Spec
<1> QED BY <1>4, PTL
=============================================================================
