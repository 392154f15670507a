------------------------- MODULE TaskAssignmentProofs -------------------------
(***************************************************************************)
(* Proofs about TaskAssignment, for every set of candidates, workers and   *)
(* tasks and every bound: whatever the leaders do, their service bots      *)
(* behave as ServiceBot says, and keep what ServiceBot promises.           *)
(***************************************************************************)
EXTENDS TaskAssignment, ServiceBotProofs

\* What a leader does leaves the bots alone.
LEMMA LeadersLeaveBots ==
  ASSUME NEW l \in Candidate,
         LeaderStep(l) \/ TakeOffice(l) \/ LeaveOffice(l) \/ CrashLeader(l)
  PROVE  UNCHANGED botVars
<1>1. CASE Handle(l)
  BY <1>1 DEF Handle, HandleNewTask, TryNewTask, HandleCompletion, HandleTimeout,
              HandleBotMetadata, HandleBotDeath, FailTask
<1>2. CASE TryAssignPending(l) \/ TryNext(l) \/ \E t \in Task : Retry(l, t) \/ Monitor(l, t)
  BY <1>2 DEF TryAssignPending, TryNext, Retry, Monitor
<1>3. CASE TakeOffice(l) \/ LeaveOffice(l) \/ CrashLeader(l)
  BY <1>3 DEF TakeOffice, LeaveOffice, CrashLeader
<1> QED BY <1>1, <1>2, <1>3 DEF LeaderStep

\* A bot's own step is one of ServiceBot's.
LEMMA WorkersAreBots ==
  ASSUME NEW w \in Worker, WorkerStep(w) \/ KillBot(w) \/ CrashBot(w)
  PROVE  BotNext
<1>1. ASSUME NEW t \in Task, Work(w, t) PROVE BotNext
  BY <1>1 DEF Work, BotNext, Execute
<1>2. CASE PublishMetadata(w)
  BY <1>2 DEF PublishMetadata, BotNext
<1>3. CASE ReadMetadata(w) \/ BotLives(w)
  BY <1>3 DEF ReadMetadata, BotLives, BotNext
<1>4. CASE KillBot(w) \/ CrashBot(w)
  BY <1>4 DEF KillBot, CrashBot, BotNext
<1> QED BY <1>1, <1>2, <1>3, <1>4 DEF WorkerStep

\* A call reaches a bot by AssignTask or not at all.
LEMMA CallsReachBots ==
  ASSUME TypeOK, NEW c \in calls, AssignTask(c) \/ CallEnds(c)
  PROVE  BotNext \/ UNCHANGED botVars
<1>1. CASE AcceptCall(c)
  <2>1. c.bot \in Worker /\ c.task \in Task
    BY DEF TypeOK, Call
  <2> QED BY <1>1, <2>1 DEF AcceptCall, BotNext
<1>2. CASE DeclineCall(c) \/ DropCall(c) \/ CallEnds(c)
  BY <1>2 DEF DeclineCall, DropCall, CallEnds, Accepted, Declined, CallFails
<1> QED BY <1>1, <1>2 DEF AssignTask

\* Every step of the whole is a step of the bots, or none.
LEMMA StepsAreBots == TypeOK /\ [Next]_vars => [BotNext]_botVars
<1> SUFFICES ASSUME TypeOK, [Next]_vars PROVE BotNext \/ UNCHANGED botVars
  OBVIOUS
<1>1. ASSUME NEW t \in Task, Announce(t) PROVE UNCHANGED botVars
  BY <1>1 DEF Announce
<1>2. CASE UNCHANGED vars
  BY <1>2 DEF vars
<1> QED BY <1>1, <1>2, LeadersLeaveBots, WorkersAreBots, CallsReachBots DEF Next

-----------------------------------------------------------------------------
(***************************************************************************)
(* Types.                                                                  *)
(***************************************************************************)
\* A message that is sent reaches the queues as a message.
LEMMA RoutedTyped ==
  ASSUME NEW queues \in [Candidate -> Seq(Message)], NEW m \in Message
  PROVE  Routed(queues, m) \in [Candidate -> Seq(Message)]
BY DEF Routed

LEMMA PoppedTyped ==
  ASSUME TypeOK, NEW l \in Candidate, inbox[l] # <<>>
  PROVE  /\ Popped(l) \in [Candidate -> Seq(Message)]
         /\ Head(inbox[l]) \in Message
BY DEF Popped, TypeOK

LEMMA TaskMessageTyped ==
  ASSUME NEW kind \in {"new", "completed", "failed", "timeout"}, NEW t \in Task,
         NEW w \in Worker \cup {NoBot}
  PROVE  TaskMessage(kind, t, w) \in Message
BY DEF TaskMessage, Message

LEMMA BotMessageTyped ==
  ASSUME NEW w \in Worker
  PROVE  /\ BotMessage("kill", w, "none") \in Message
         /\ \A s \in Status : BotMessage("metadata", w, s) \in Message
BY DEF BotMessage, Message

\* What the critical sections leave in the books.
LEMMA TryAssignTyped ==
  ASSUME TypeOK, NEW l \in Candidate, NEW t \in Task, TryAssign(l, t)
  PROVE  /\ ledger' \in [Candidate -> [Task -> {"none", "pending", "assigned"}]]
         /\ robot' \in [Candidate -> [Task -> Worker \cup {NoBot}]]
         /\ known' \in [Candidate -> [Worker -> Status \cup {"none"}]]
         /\ calls' \subseteq Call
<1>1. CASE UNCHANGED <<ledger, robot, known, calls>>
  BY <1>1 DEF TypeOK
<1>2. CASE \E w \in CanDo[t] :
             /\ ledger' = [ledger EXCEPT ![l][t] = "assigned"]
             /\ robot' = [robot EXCEPT ![l][t] = w]
             /\ known' = [known EXCEPT ![l][w] = "busy"]
             /\ calls' = calls \cup {CallAt(l, t, w, "sent")}
  <2>1. PICK w \in CanDo[t] :
             /\ ledger' = [ledger EXCEPT ![l][t] = "assigned"]
             /\ robot' = [robot EXCEPT ![l][t] = w]
             /\ known' = [known EXCEPT ![l][w] = "busy"]
             /\ calls' = calls \cup {CallAt(l, t, w, "sent")}
    BY <1>2
  <2>2. w \in Worker
    BY CanDoAssumption
  <2>3. CallAt(l, t, w, "sent") \in Call
    BY <2>2 DEF CallAt, Call
  <2>4. ledger' \in [Candidate -> [Task -> {"none", "pending", "assigned"}]]
    BY <2>1 DEF TypeOK
  <2>5. robot' \in [Candidate -> [Task -> Worker \cup {NoBot}]]
    BY <2>1, <2>2 DEF TypeOK
  <2>6. known' \in [Candidate -> [Worker -> Status \cup {"none"}]]
    BY <2>1, <2>2 DEF TypeOK, Status
  <2> QED BY <2>1, <2>3, <2>4, <2>5, <2>6 DEF TypeOK
<1> QED BY <1>1, <1>2 DEF TryAssign

LEMMA RequeueTyped ==
  ASSUME TypeOK, NEW l \in Candidate, NEW t \in Task, Requeue(l, t)
  PROVE  /\ ledger' \in [Candidate -> [Task -> {"none", "pending", "assigned"}]]
         /\ robot' \in [Candidate -> [Task -> Worker \cup {NoBot}]]
         /\ tries' \in [Candidate -> [Task -> Nat]]
BY DEF Requeue, TypeOK

LEMMA FailTyped ==
  ASSUME TypeOK, NEW l \in Candidate, NEW t \in Task,
         NEW queues \in [Candidate -> Seq(Message)], Fail(l, t, queues)
  PROVE  /\ ledger' \in [Candidate -> [Task -> {"none", "pending", "assigned"}]]
         /\ robot' \in [Candidate -> [Task -> Worker \cup {NoBot}]]
         /\ tries' \in [Candidate -> [Task -> Nat]]
         /\ inbox' \in [Candidate -> Seq(Message)]
         /\ UNCHANGED <<known, sweep, turns>>
<1>1. CASE Assigned(l, t)
  BY <1>1, RequeueTyped, RoutedTyped, TaskMessageTyped DEF Fail
<1>2. CASE ~Assigned(l, t)
  BY <1>2 DEF Fail, TypeOK
<1> QED BY <1>1, <1>2

\* One step of a candidate leaves the books, the calls and the queues typed.
LEMMA HandlersKeepTypes ==
  ASSUME TypeOK, NEW l \in Candidate, Handle(l) PROVE TypeOK'
<1>b. BotTypeOK'
  <2>1. UNCHANGED botVars
    BY LeadersLeaveBots DEF LeaderStep
  <2> QED BY <2>1, TypesKept DEF TypeOK
<1>1. CASE HandleNewTask(l)
  <2>1. /\ inbox' \in [Candidate -> Seq(Message)]
        /\ Head(inbox[l]).task \in Task
    BY <1>1, PoppedTyped DEF HandleNewTask, Receives, Message
  <2>2. /\ ledger' \in [Candidate -> [Task -> {"none", "pending", "assigned"}]]
        /\ handler' \in [Candidate -> [does : {"idle", "try", "fail"}, tasks : SUBSET Task]]
    <3> DEFINE t == Head(inbox[l]).task
    <3>1. CASE UNCHANGED <<ledger, handler>>
      BY <3>1 DEF TypeOK
    <3>2. CASE /\ ledger' = [ledger EXCEPT ![l][t] = "pending"]
               /\ handler' = [handler EXCEPT ![l] = [does |-> "try", tasks |-> {t}]]
      <4>1. [does |-> "try", tasks |-> {t}] \in [does : {"idle", "try", "fail"}, tasks : SUBSET Task]
        BY <2>1
      <4> QED BY <2>1, <3>2, <4>1 DEF TypeOK
    <3> QED BY <1>1, <3>1, <3>2 DEF HandleNewTask
  <2> QED BY <1>1, <1>b, <2>1, <2>2 DEF HandleNewTask, TypeOK, terms
<1>2. CASE TryNewTask(l)
  <2>1. PICK t \in Task : TryAssign(l, t)
    BY <1>2 DEF TryNewTask, TypeOK
  <2>2. handler' \in [Candidate -> [does : {"idle", "try", "fail"}, tasks : SUBSET Task]]
    BY <1>2 DEF TryNewTask, AtRest, TypeOK
  <2> QED BY <1>2, <1>b, <2>1, <2>2, TryAssignTyped DEF TryNewTask, TypeOK, terms
<1>3. CASE HandleCompletion(l)
  <2>1. inbox' \in [Candidate -> Seq(Message)]
    BY <1>3, PoppedTyped DEF HandleCompletion, Receives
  <2>2. CASE UNCHANGED <<ledger, robot, known, sweep>>
    BY <1>3, <1>b, <2>1, <2>2 DEF HandleCompletion, TypeOK, terms
  <2>3. CASE /\ Assigned(l, Head(inbox[l]).task)
             /\ ledger' = [ledger EXCEPT ![l][Head(inbox[l]).task] = "none"]
             /\ robot' = [robot EXCEPT ![l][Head(inbox[l]).task] = NoBot]
             /\ known' = [known EXCEPT ![l] = [w \in Worker |->
                  IF w = Head(inbox[l]).bot /\ @[w] # "none" THEN "idle" ELSE @[w]]]
             /\ sweep' = [sweep EXCEPT ![l] = TRUE]
    <3>1. Head(inbox[l]).task \in Task
      BY <1>3, PoppedTyped DEF HandleCompletion, Receives, Message
    <3>2. /\ ledger' \in [Candidate -> [Task -> {"none", "pending", "assigned"}]]
          /\ robot' \in [Candidate -> [Task -> Worker \cup {NoBot}]]
          /\ sweep' \in [Candidate -> BOOLEAN]
      BY <2>3, <3>1 DEF TypeOK
    <3>3. known' \in [Candidate -> [Worker -> Status \cup {"none"}]]
      BY <2>3 DEF TypeOK, Status
    <3> QED BY <1>3, <1>b, <2>1, <3>2, <3>3 DEF HandleCompletion, TypeOK, terms
  <2> QED BY <1>3, <2>2, <2>3 DEF HandleCompletion
<1>4. CASE HandleTimeout(l)
  <2>1. /\ Popped(l) \in [Candidate -> Seq(Message)]
        /\ Head(inbox[l]).task \in Task
    BY <1>4, PoppedTyped DEF HandleTimeout, Receives, Message
  <2>2. CASE Fail(l, Head(inbox[l]).task, Popped(l))
    BY <1>4, <1>b, <2>1, <2>2, FailTyped DEF HandleTimeout, TypeOK, terms
  <2>3. CASE inbox' = Popped(l) /\ UNCHANGED books
    BY <1>4, <1>b, <2>1, <2>3 DEF HandleTimeout, TypeOK, terms, books
  <2> QED BY <1>4, <2>2, <2>3 DEF HandleTimeout
<1>5. CASE HandleBotMetadata(l)
  <2>1. /\ inbox' \in [Candidate -> Seq(Message)]
        /\ Head(inbox[l]).status \in Status
    BY <1>5, PoppedTyped DEF HandleBotMetadata, Receives, Message
  <2>2. known' \in [Candidate -> [Worker -> Status \cup {"none"}]]
    BY <1>5, <2>1 DEF HandleBotMetadata, TypeOK
  <2> QED BY <1>5, <1>b, <2>1, <2>2 DEF HandleBotMetadata, TypeOK, terms
<1>6. CASE HandleBotDeath(l)
  <2>1. inbox' \in [Candidate -> Seq(Message)]
    BY <1>6, PoppedTyped DEF HandleBotDeath, Receives
  <2>2. /\ known' \in [Candidate -> [Worker -> Status \cup {"none"}]]
        /\ handler' \in [Candidate -> [does : {"idle", "try", "fail"}, tasks : SUBSET Task]]
    <3>1. CASE UNCHANGED <<known, handler>>
      BY <3>1 DEF TypeOK
    <3>2. CASE known' = [known EXCEPT ![l][Head(inbox[l]).bot] = IF @ = "none" THEN @ ELSE "offline"]
      <4>1. known' \in [Candidate -> [Worker -> Status \cup {"none"}]]
        BY <3>2 DEF TypeOK, Status
      <4>2. AssignedTo(l, Head(inbox[l]).bot) \subseteq Task
        BY DEF AssignedTo
      <4>3. CASE UNCHANGED handler
        BY <4>1, <4>3 DEF TypeOK
      <4>4. CASE handler' = [handler EXCEPT ![l] =
                     IF AssignedTo(l, Head(inbox[l]).bot) = {} THEN AtRest
                     ELSE [does |-> "fail", tasks |-> AssignedTo(l, Head(inbox[l]).bot)]]
        BY <4>1, <4>2, <4>4 DEF AtRest, TypeOK
      <4> QED BY <1>6, <4>3, <4>4 DEF HandleBotDeath
    <3> QED BY <1>6, <3>1, <3>2 DEF HandleBotDeath
  <2> QED BY <1>6, <1>b, <2>1, <2>2 DEF HandleBotDeath, TypeOK, terms
<1>7. CASE FailTask(l)
  <2>1. PICK t \in Task :
          /\ Fail(l, t, inbox)
          /\ handler' = [handler EXCEPT ![l] =
               IF handler[l].tasks = {t} THEN AtRest
               ELSE [does |-> "fail", tasks |-> handler[l].tasks \ {t}]]
    BY <1>7 DEF FailTask, TypeOK
  <2>2. handler' \in [Candidate -> [does : {"idle", "try", "fail"}, tasks : SUBSET Task]]
    BY <2>1 DEF AtRest, TypeOK
  <2>3. inbox \in [Candidate -> Seq(Message)]
    BY DEF TypeOK
  <2> QED BY <1>7, <1>b, <2>1, <2>2, <2>3, FailTyped DEF FailTask, TypeOK, terms
<1> QED BY <1>1, <1>2, <1>3, <1>4, <1>5, <1>6, <1>7 DEF Handle

LEMMA LeadersKeepTypes ==
  ASSUME TypeOK, NEW l \in Candidate,
         LeaderStep(l) \/ TakeOffice(l) \/ LeaveOffice(l) \/ CrashLeader(l)
  PROVE  TypeOK'
<1>b. BotTypeOK'
  BY LeadersLeaveBots, TypesKept DEF TypeOK
<1>1. CASE TryAssignPending(l)
  BY <1>1, <1>b DEF TryAssignPending, TypeOK, terms
<1>2. CASE TryNext(l)
  <2>1. PICK t \in turns[l] : turns' = [turns EXCEPT ![l] = @ \ {t}] /\ TryAssign(l, t)
    BY <1>2 DEF TryNext
  <2>2. t \in Task /\ turns' \in [Candidate -> SUBSET Task]
    BY <2>1 DEF TypeOK
  <2> QED BY <1>2, <1>b, <2>1, <2>2, TryAssignTyped DEF TryNext, TypeOK, terms
<1>3. ASSUME NEW t \in Task, Retry(l, t) PROVE TypeOK'
  <2>1. tries' \in [Candidate -> [Task -> Nat]]
    BY <1>3 DEF Retry, TypeOK
  <2> QED BY <1>3, <1>b, <2>1, TryAssignTyped DEF Retry, TypeOK, terms
<1>4. ASSUME NEW t \in Task, Monitor(l, t) PROVE TypeOK'
  <2>1. inbox' \in [Candidate -> Seq(Message)]
    <3>1. inbox \in [Candidate -> Seq(Message)]
      BY DEF TypeOK
    <3> QED BY <1>4, <3>1, RoutedTyped, TaskMessageTyped DEF Monitor, Send
  <2>2. known' \in [Candidate -> [Worker -> Status \cup {"none"}]]
    BY <1>4 DEF Monitor, TypeOK, Status
  <2>3. lates' \in Nat
    BY <1>4 DEF Monitor, Late, TypeOK
  <2>4. Requeue(l, t)
    BY <1>4 DEF Monitor
  <2> QED BY <1>4, <1>b, <2>1, <2>2, <2>3, <2>4, RequeueTyped DEF Monitor, TypeOK, terms
<1>5. CASE TakeOffice(l) \/ LeaveOffice(l)
  <2>1. /\ office' \in [Candidate -> {"follower", "leader", "crashed"}]
        /\ offices' \in Nat
    <3>1. CASE TakeOffice(l)
      <4>1. offices' = offices + 1 /\ offices \in Nat
        BY <3>1 DEF TakeOffice, TypeOK
      <4>2. office' = [office EXCEPT ![l] = "leader"]
        BY <3>1 DEF TakeOffice
      <4> QED BY <4>1, <4>2 DEF TypeOK
    <3>2. CASE LeaveOffice(l)
      BY <3>2 DEF LeaveOffice, TypeOK
    <3> QED BY <1>5, <3>1, <3>2
  <2>2. UNCHANGED <<unseen, books, calls, lates, inbox, handler>>
    BY <1>5 DEF TakeOffice, LeaveOffice
  <2> QED BY <1>b, <2>1, <2>2 DEF TypeOK, books
<1>6. CASE CrashLeader(l)
  <2>1. \A c \in calls : Now(c, "late") \in Call
    BY DEF TypeOK, Call, Now, CallAt
  <2>2. calls' \subseteq Call
    BY <1>6, <2>1 DEF CrashLeader, TypeOK
  <2>3. /\ inbox' \in [Candidate -> Seq(Message)]
        /\ handler' \in [Candidate -> [does : {"idle", "try", "fail"}, tasks : SUBSET Task]]
    BY <1>6 DEF CrashLeader, TypeOK, AtRest
  <2> QED BY <1>6, <1>b, <2>2, <2>3 DEF CrashLeader, TypeOK
<1> QED BY <1>1, <1>2, <1>3, <1>4, <1>5, <1>6, HandlersKeepTypes DEF LeaderStep

LEMMA CallsKeepTypes ==
  ASSUME TypeOK, NEW c \in calls, AssignTask(c) \/ CallEnds(c) PROVE TypeOK'
<1>b. BotTypeOK'
  BY CallsReachBots, TypesKept DEF TypeOK
<1>c. c.leader \in Candidate /\ c.task \in Task /\ calls \ {c} \subseteq Call
      /\ \A at \in {"sent", "late", "accepted", "declined"} : Now(c, at) \in Call
  BY DEF TypeOK, Call, Now, CallAt
<1>q. inbox \in [Candidate -> Seq(Message)]
  BY DEF TypeOK
<1>1. CASE AcceptCall(c) \/ DeclineCall(c)
  <2>1. calls' \subseteq Call
    BY <1>1, <1>c DEF AcceptCall, DeclineCall, Answer
  <2> QED BY <1>1, <1>b, <2>1 DEF AcceptCall, DeclineCall, TypeOK, terms, books
<1>2. CASE DropCall(c) \/ Accepted(c)
  BY <1>2, <1>b, <1>c DEF DropCall, Accepted, TypeOK, terms, books
<1>3. CASE Declined(c)
  BY <1>3, <1>b, <1>c, <1>q, FailTyped DEF Declined, TypeOK, terms
<1>4. CASE CallFails(c)
  <2>1. lates' \in Nat
    BY <1>4 DEF CallFails, Late, TypeOK
  <2>2. calls' \subseteq Call
    BY <1>4, <1>c DEF CallFails
  <2> QED BY <1>4, <1>b, <1>c, <1>q, <2>1, <2>2, FailTyped DEF CallFails, TypeOK, terms
<1> QED BY <1>1, <1>2, <1>3, <1>4 DEF AssignTask, CallEnds

LEMMA WorkersKeepTypes ==
  ASSUME TypeOK, NEW w \in Worker, WorkerStep(w) \/ KillBot(w) \/ CrashBot(w)
  PROVE  TypeOK'
<1>b. BotTypeOK'
  BY WorkersAreBots, TypesKept DEF TypeOK
<1>q. inbox \in [Candidate -> Seq(Message)]
  BY DEF TypeOK
<1>1. ASSUME NEW t \in Task, Work(w, t) PROVE TypeOK'
  <2>1. inbox' \in [Candidate -> Seq(Message)]
    <3>1. CASE UNCHANGED inbox
      BY <3>1, <1>q
    <3>2. CASE PublishOwn(w, t) /\ Send(BotMessage("metadata", w, exec[w][t]))
      BY <3>2, <1>q, RoutedTyped, BotMessageTyped DEF PublishOwn, Send
    <3>3. CASE Send(TaskMessage("completed", t, w))
      BY <3>3, <1>q, RoutedTyped, TaskMessageTyped DEF Send
    <3> QED BY <1>1, <3>1, <3>2, <3>3 DEF Work
  <2> QED BY <1>1, <1>b, <2>1 DEF Work, TypeOK, terms, books
<1>2. CASE PublishMetadata(w)
  <2>1. inbox' \in [Candidate -> Seq(Message)]
    BY <1>2, <1>q, RoutedTyped, BotMessageTyped DEF PublishMetadata, Send
  <2> QED BY <1>2, <1>b, <2>1 DEF PublishMetadata, TypeOK, terms, books
<1>3. CASE ReadMetadata(w) \/ BotLives(w) \/ CrashBot(w)
  BY <1>3, <1>b DEF ReadMetadata, BotLives, CrashBot, TypeOK, terms, books
<1>4. CASE KillBot(w)
  <2>1. inbox' \in [Candidate -> Seq(Message)]
    BY <1>4, <1>q, RoutedTyped, BotMessageTyped DEF KillBot, Send
  <2> QED BY <1>4, <1>b, <2>1 DEF KillBot, TypeOK, terms, books
<1> QED BY <1>1, <1>2, <1>3, <1>4 DEF WorkerStep

\* The books, the calls and the queues keep their types in every behaviour.
THEOREM Typing == Spec => []TypeOK
<1>1. Init => TypeOK
  <2> SUFFICES ASSUME Init PROVE TypeOK
    OBVIOUS
  <2>1. BotTypeOK
    BY DEF Init, BotInit, BotTypeOK, Status, Stage
  <2> QED BY <2>1 DEF Init, TypeOK, Status, AtRest
<1>2. TypeOK /\ [Next]_vars => TypeOK'
  <2> SUFFICES ASSUME TypeOK, [Next]_vars PROVE TypeOK'
    OBVIOUS
  <2>1. ASSUME NEW t \in Task, Announce(t) PROVE TypeOK'
    <3>1. inbox \in [Candidate -> Seq(Message)] /\ TaskMessage("new", t, NoBot) \in Message
      BY TaskMessageTyped DEF TypeOK
    <3>2. inbox' \in [Candidate -> Seq(Message)]
      BY <2>1, <3>1, RoutedTyped DEF Announce, Send
    <3>3. BotTypeOK'
      BY <2>1, TypesKept DEF Announce, TypeOK
    <3> QED BY <2>1, <3>2, <3>3 DEF Announce, TypeOK, terms, books
  <2>2. CASE UNCHANGED vars
    <3>1. BotTypeOK'
      BY <2>2, TypesKept DEF vars, TypeOK
    <3> QED BY <2>2, <3>1 DEF vars, TypeOK, terms, books
  <2> QED BY <2>1, <2>2, LeadersKeepTypes, WorkersKeepTypes, CallsKeepTypes DEF Next
<1> QED BY <1>1, <1>2, PTL DEF Spec

-----------------------------------------------------------------------------
(***************************************************************************)
(* The bots of the system are the bots of ServiceBot.                      *)
(***************************************************************************)
\* What leaders, calls and messages do to a bot, ServiceBot allows.
LEMMA BotsImplemented == Spec => BotSpec
<1>1. Init => BotInit
  BY DEF Init
<1> QED BY <1>1, Typing, StepsAreBots, PTL DEF Spec, BotSpec

\* So, under a leader, until a kill reaches it, a bot is busy exactly while it
\* works on one task.
THEOREM BotsBusyWithOneTask == Spec => []BusyWithOneTask
BY BotsImplemented, BusyTheorem, PTL

-----------------------------------------------------------------------------
(***************************************************************************)
(* Assignments are not hollow.  The chain of call, execution and report of *)
(* exactly the bot the books name is unbroken; it needs that a candidate   *)
(* that does not lead has nothing in its books, that a task is cancelled   *)
(* only by a kill, and that bots know whom to report to.                   *)
(***************************************************************************)
Chain(l, t, w) == w \in Unaware \/ Lost(w) \/ Backed(l, t, w)

\* A step keeps what stands behind an assignment, or makes a new one that is backed.
Kept(l, t) == Assigned(l, t)' =>
  \/ /\ Assigned(l, t) /\ robot'[l][t] = robot[l][t]
     /\ \A w \in Worker : Chain(l, t, w) => Chain(l, t, w)'
  \/ robot'[l][t] \in Worker /\ Chain(l, t, robot[l][t])'

OnlyLeadersKeepBooks == \A l \in Candidate \ Deposable : ~Leads(l) =>
  /\ \A t \in Task : ledger[l][t] = "none" /\ tries[l][t] = 0
  /\ turns[l] = {} /\ handler[l].tasks = {}

OthersAware == \A w \in Worker \ Unaware : aware[w]

Sound == TypeOK /\ OpenUntilKilled /\ OthersAware

\* Bots that know of a leader from the start never forget it.
LEMMA AwarenessKept == OthersAware /\ BotTypeOK /\ [BotNext]_botVars => OthersAware'
<1> SUFFICES ASSUME OthersAware, BotTypeOK, [BotNext]_botVars PROVE OthersAware'
  OBVIOUS
<1>1. ASSUME NEW w \in Worker, NEW t \in Task, Accept(w, t) \/ Execute(w, t) PROVE OthersAware'
  BY <1>1 DEF OthersAware, Accept, Execute, Quiet, Walk, Arrive, Repair, Cancel, Delete, Rest,
              ReadOwn, PublishOwn, Report
<1>2. ASSUME NEW w \in Worker, \/ \E s \in Status : Publish(w, s)
                               \/ Read(w) \/ Hear(w)
      PROVE  OthersAware'
  BY <1>2 DEF OthersAware, Publish, Read, Hear, BotTypeOK
<1>3. ASSUME NEW w \in Worker, Kill(w) \/ Dying(w) \/ Crash(w) PROVE OthersAware'
  BY <1>3 DEF OthersAware, Kill, Dying, GoOffline, CloseStop, Disconnect, Crash
<1>4. CASE UNCHANGED botVars \/ \E c \in Cell : DeleteAt(c)
  BY <1>4 DEF botVars, DeleteAt, OthersAware
<1> QED BY <1>1, <1>2, <1>3, <1>4 DEF BotNext

\* What is in a queue stays in it when a message is added or another is taken.
LEMMA EndRouted ==
  ASSUME NEW queues \in [Candidate -> Seq(Message)], NEW m \in Message,
         NEW l \in Candidate, NEW t \in Task, EndIn(queues[l], t)
  PROVE  EndIn(Routed(queues, m)[l], t)
<1>1. CASE office[l] # "crashed"
  <2>1. PICK i \in DOMAIN queues[l] : queues[l][i].kind = "completed" /\ queues[l][i].task = t
    BY DEF EndIn
  <2>2. Routed(queues, m)[l] = Append(queues[l], m)
    BY <1>1 DEF Routed
  <2>3. queues[l] \in Seq(Message)
    OBVIOUS
  <2>4. i \in DOMAIN Append(queues[l], m) /\ Append(queues[l], m)[i] = queues[l][i]
    BY <2>1, <2>3
  <2> QED BY <2>1, <2>2, <2>4 DEF EndIn
<1>2. CASE office[l] = "crashed"
  BY <1>2 DEF Routed
<1> QED BY <1>1, <1>2

LEMMA EndSent ==
  ASSUME NEW queues \in [Candidate -> Seq(Message)], NEW l \in Candidate,
         office[l] # "crashed", NEW t \in Task, NEW w \in Worker
  PROVE  EndIn(Routed(queues, TaskMessage("completed", t, w))[l], t)
<1> DEFINE m == TaskMessage("completed", t, w)
<1>1. m \in Message /\ m.kind = "completed" /\ m.task = t
  BY TaskMessageTyped DEF TaskMessage
<1> HIDE DEF m
<1>2. Routed(queues, m)[l] = Append(queues[l], m) /\ queues[l] \in Seq(Message)
  BY DEF Routed
<1>3. Len(queues[l]) + 1 \in DOMAIN Append(queues[l], m)
      /\ Append(queues[l], m)[Len(queues[l]) + 1] = m
  BY <1>1, <1>2
<1> QED BY <1>1, <1>2, <1>3 DEF EndIn, m

LEMMA EndPopped ==
  ASSUME TypeOK, NEW k \in Candidate, inbox[k] # <<>>,
         NEW l \in Candidate, NEW t \in Task, EndIn(inbox[l], t),
         l = k => Head(inbox[k]).kind # "completed" \/ Head(inbox[k]).task # t
  PROVE  EndIn(Popped(k)[l], t)
<1>1. CASE l = k
  <2>1. PICK i \in DOMAIN inbox[k] : inbox[k][i].kind = "completed" /\ inbox[k][i].task = t
    BY <1>1 DEF EndIn
  <2>2. inbox[k] \in Seq(Message) /\ Popped(k)[l] = Tail(inbox[k])
    BY <1>1 DEF TypeOK, Popped
  <2>3. i # 1
    BY <1>1, <2>1, <2>2
  <2>4. i - 1 \in DOMAIN Tail(inbox[k]) /\ Tail(inbox[k])[i - 1] = inbox[k][i]
    BY <2>1, <2>2, <2>3
  <2> QED BY <2>1, <2>2, <2>4 DEF EndIn
<1>2. CASE l # k
  BY <1>2 DEF Popped, TypeOK
<1> QED BY <1>1, <1>2

\* One candidate's step leaves what the others have in their books; if its own
\* books are to stay empty, that is all there is to show.
LEMMA OthersKeepBooks ==
  ASSUME OnlyLeadersKeepBooks, NEW k \in Candidate,
         \A l \in Candidate \ {k} :
           /\ office'[l] = office[l] /\ ledger'[l] = ledger[l] /\ tries'[l] = tries[l]
           /\ turns'[l] = turns[l] /\ handler'[l] = handler[l],
         \/ k \in Deposable
         \/ Leads(k)'
         \/ /\ \A t \in Task : ledger'[k][t] = "none" /\ tries'[k][t] = 0
            /\ turns'[k] = {} /\ handler'[k].tasks = {}
  PROVE  OnlyLeadersKeepBooks'
BY DEF OnlyLeadersKeepBooks, Leads

LEMMA BooksUntouched ==
  ASSUME OnlyLeadersKeepBooks, UNCHANGED <<office, ledger, tries, turns, handler>>
  PROVE  OnlyLeadersKeepBooks'
BY DEF OnlyLeadersKeepBooks, Leads

\* A failure only concerns what is in the books.
LEMMA FailKeepsOffices ==
  ASSUME TypeOK, OnlyLeadersKeepBooks, NEW k \in Candidate, NEW u \in Task, NEW queues,
         Fail(k, u, queues), UNCHANGED terms,
         handler' = handler \/ (handler[k].tasks # {} /\
                                \A l \in Candidate \ {k} : handler'[l] = handler[l])
  PROVE  OnlyLeadersKeepBooks'
<1>1. \A l \in Candidate \ {k} :
           /\ office'[l] = office[l] /\ ledger'[l] = ledger[l] /\ tries'[l] = tries[l]
           /\ turns'[l] = turns[l] /\ handler'[l] = handler[l]
  <2>1. UNCHANGED <<office, turns>>
    BY DEF Fail, terms
  <2>2. ASSUME NEW l \in Candidate \ {k}
        PROVE  ledger'[l] = ledger[l] /\ tries'[l] = tries[l]
    BY DEF Fail, Requeue, TypeOK
  <2> QED BY <2>1, <2>2
<1>2. CASE k \in Deposable \/ Leads(k)
  BY <1>1, <1>2, OthersKeepBooks DEF terms, Leads
<1>3. CASE k \notin Deposable /\ ~Leads(k)
  <2>1. ~Assigned(k, u) /\ handler' = handler
    BY <1>3 DEF OnlyLeadersKeepBooks, Assigned
  <2> QED BY <2>1, BooksUntouched DEF Fail, terms
<1> QED BY <1>2, <1>3

LEMMA BooksOfLeadersKept ==
  TypeOK /\ OnlyLeadersKeepBooks /\ [Next]_vars => OnlyLeadersKeepBooks'
<1> SUFFICES ASSUME TypeOK, OnlyLeadersKeepBooks, [Next]_vars PROVE OnlyLeadersKeepBooks'
  OBVIOUS
<1>1. ASSUME NEW k \in Candidate,
             HandleCompletion(k) \/ HandleBotMetadata(k) \/ HandleNewTask(k) \/ HandleBotDeath(k)
      PROVE  OnlyLeadersKeepBooks'
  <2>1. \A l \in Candidate \ {k} :
           /\ office'[l] = office[l] /\ ledger'[l] = ledger[l] /\ tries'[l] = tries[l]
           /\ turns'[l] = turns[l] /\ handler'[l] = handler[l]
    BY <1>1 DEF HandleCompletion, HandleBotMetadata, HandleNewTask, HandleBotDeath, terms, TypeOK
  <2>2. CASE Leads(k)
    BY <1>1, <2>1, <2>2, OthersKeepBooks
       DEF HandleCompletion, HandleBotMetadata, HandleNewTask, HandleBotDeath, terms, Leads
  <2>3. CASE ~Leads(k)
    BY <1>1, <2>3, BooksUntouched
       DEF HandleCompletion, HandleBotMetadata, HandleNewTask, HandleBotDeath, terms
  <2> QED BY <2>2, <2>3
<1>2. ASSUME NEW k \in Candidate, TryNewTask(k) PROVE OnlyLeadersKeepBooks'
  <2>1. handler[k].tasks # {}
    BY <1>2 DEF TryNewTask
  <2>2. PICK u \in Task : TryAssign(k, u)
    BY <1>2 DEF TryNewTask, TypeOK
  <2>3. \A l \in Candidate \ {k} : ledger'[l] = ledger[l] /\ handler'[l] = handler[l]
    BY <1>2, <2>2 DEF TryNewTask, TryAssign, TypeOK
  <2>4. k \in Deposable \/ Leads(k)
    BY <2>1 DEF OnlyLeadersKeepBooks
  <2> QED BY <1>2, <2>3, <2>4, OthersKeepBooks DEF TryNewTask, terms, Leads
<1>3. ASSUME NEW k \in Candidate, HandleTimeout(k) PROVE OnlyLeadersKeepBooks'
  <2>1. Head(inbox[k]).task \in Task
    BY <1>3, PoppedTyped DEF HandleTimeout, Receives, Message
  <2>2. CASE UNCHANGED books
    BY <1>3, <2>2, BooksUntouched DEF HandleTimeout, terms, books
  <2>3. CASE Fail(k, Head(inbox[k]).task, Popped(k))
    BY <1>3, <2>1, <2>3, FailKeepsOffices DEF HandleTimeout
  <2> QED BY <1>3, <2>2, <2>3 DEF HandleTimeout
<1>4. ASSUME NEW k \in Candidate, FailTask(k) PROVE OnlyLeadersKeepBooks'
  <2>1. PICK u \in Task : Fail(k, u, inbox)
    BY <1>4 DEF FailTask, TypeOK
  <2>2. /\ handler[k].tasks # {}
        /\ \A l \in Candidate \ {k} : handler'[l] = handler[l]
    BY <1>4 DEF FailTask, TypeOK
  <2> QED BY <1>4, <2>1, <2>2, FailKeepsOffices DEF FailTask
<1>5. ASSUME NEW k \in Candidate, TryAssignPending(k) PROVE OnlyLeadersKeepBooks'
  <2>1. \A l \in Candidate \ {k} : turns'[l] = turns[l]
    BY <1>5 DEF TryAssignPending, TypeOK
  <2>2. ASSUME k \notin Deposable, ~Leads(k)
        PROVE  /\ \A t \in Task : ledger'[k][t] = "none" /\ tries'[k][t] = 0
               /\ turns'[k] = {} /\ handler'[k].tasks = {}
    BY <1>5, <2>2 DEF TryAssignPending, OnlyLeadersKeepBooks, TypeOK
  <2> QED BY <1>5, <2>1, <2>2, OthersKeepBooks DEF TryAssignPending, terms, Leads
<1>6. ASSUME NEW k \in Candidate, TryNext(k) PROVE OnlyLeadersKeepBooks'
  <2>1. PICK u \in turns[k] : turns' = [turns EXCEPT ![k] = @ \ {u}] /\ TryAssign(k, u)
    BY <1>6 DEF TryNext
  <2>2. \A l \in Candidate \ {k} : ledger'[l] = ledger[l] /\ turns'[l] = turns[l]
    BY <2>1 DEF TryAssign, TypeOK
  <2>3. k \in Deposable \/ Leads(k)
    BY <2>1 DEF OnlyLeadersKeepBooks
  <2> QED BY <1>6, <2>2, <2>3, OthersKeepBooks DEF TryNext, terms, Leads
<1>7. ASSUME NEW k \in Candidate, NEW u \in Task, Retry(k, u) PROVE OnlyLeadersKeepBooks'
  <2>1. \A l \in Candidate \ {k} : ledger'[l] = ledger[l] /\ tries'[l] = tries[l]
    BY <1>7 DEF Retry, TryAssign, TypeOK
  <2>2. tries[k][u] # 0
    BY <1>7 DEF Retry, TypeOK
  <2>3. k \in Deposable \/ Leads(k)
    BY <2>2 DEF OnlyLeadersKeepBooks
  <2> QED BY <1>7, <2>1, <2>3, OthersKeepBooks DEF Retry, terms, Leads
<1>8. ASSUME NEW k \in Candidate, NEW u \in Task, Monitor(k, u) PROVE OnlyLeadersKeepBooks'
  <2>1. \A l \in Candidate \ {k} : ledger'[l] = ledger[l] /\ tries'[l] = tries[l]
    BY <1>8 DEF Monitor, Requeue, TypeOK
  <2> QED BY <1>8, <2>1, OthersKeepBooks DEF Monitor, terms, Leads
<1>9. ASSUME NEW k \in Candidate, TakeOffice(k) \/ LeaveOffice(k) PROVE OnlyLeadersKeepBooks'
  <2>1. /\ \A l \in Candidate \ {k} : office'[l] = office[l]
        /\ k \in Deposable \/ Leads(k)'
    BY <1>9 DEF TakeOffice, LeaveOffice, Leads, TypeOK
  <2> QED BY <1>9, <2>1, OthersKeepBooks DEF TakeOffice, LeaveOffice, books
<1>10. ASSUME NEW k \in Candidate, CrashLeader(k) PROVE OnlyLeadersKeepBooks'
  <2>1. \A l \in Candidate \ {k} :
           /\ office'[l] = office[l] /\ ledger'[l] = ledger[l] /\ tries'[l] = tries[l]
           /\ turns'[l] = turns[l] /\ handler'[l] = handler[l]
    BY <1>10 DEF CrashLeader, TypeOK
  <2>2. /\ \A t \in Task : ledger'[k][t] = "none" /\ tries'[k][t] = 0
        /\ turns'[k] = {} /\ handler'[k].tasks = {}
    BY <1>10 DEF CrashLeader, TypeOK, AtRest
  <2> QED BY <2>1, <2>2, OthersKeepBooks
<1>11. ASSUME NEW w \in Worker, WorkerStep(w) \/ KillBot(w) \/ CrashBot(w)
       PROVE  OnlyLeadersKeepBooks'
  BY <1>11, BooksUntouched DEF WorkerStep, Work, PublishMetadata, ReadMetadata, BotLives,
                               KillBot, CrashBot, terms, books
<1>12. ASSUME NEW c \in calls, AssignTask(c) \/ Accepted(c) PROVE OnlyLeadersKeepBooks'
  BY <1>12, BooksUntouched DEF AssignTask, AcceptCall, DeclineCall, DropCall, Accepted,
                               terms, books
<1>13. ASSUME NEW c \in calls, Declined(c) \/ CallFails(c) PROVE OnlyLeadersKeepBooks'
  <2>1. c.leader \in Candidate /\ c.task \in Task
    BY DEF TypeOK, Call
  <2> QED BY <1>13, <2>1, FailKeepsOffices DEF Declined, CallFails
<1>14. ASSUME NEW t \in Task, Announce(t) PROVE OnlyLeadersKeepBooks'
  BY <1>14, BooksUntouched DEF Announce, terms, books
<1>15. CASE UNCHANGED vars
  BY <1>15, BooksUntouched DEF vars, terms, books
<1> QED BY <1>1, <1>2, <1>3, <1>4, <1>5, <1>6, <1>7, <1>8, <1>9, <1>10, <1>11, <1>12, <1>13,
           <1>14, <1>15 DEF Next, LeaderStep, Handle, CallEnds

\* A chain is not broken by a step that breaks none of its links.
LEMMA ChainsKept ==
  ASSUME NEW l \in Candidate, NEW t \in Task,
         Assigned(l, t)' => Assigned(l, t) /\ robot'[l][t] = robot[l][t],
         \A w \in Worker : Lost(w) => Lost(w)',
         Assigned(l, t)' => \A w \in Worker :
           Asked(l, t, w) \/ exec[w][t] # "none" \/ EndIn(inbox[l], t) => Chain(l, t, w)'
  PROVE  Kept(l, t)
BY DEF Kept, Chain, Backed

\* The frequent case: nothing but queues and books changes, and a task stays
\* assigned only to the bot it was assigned to.
LEMMA ChainsInQueues ==
  ASSUME NEW l \in Candidate, NEW t \in Task, UNCHANGED <<botVars, calls>>,
         Assigned(l, t)' => /\ Assigned(l, t) /\ robot'[l][t] = robot[l][t]
                            /\ EndIn(inbox[l], t) => EndIn(inbox'[l], t)
  PROVE  Kept(l, t)
<1>1. UNCHANGED <<exec, life, calls>>
  BY DEF botVars
<1>2. \A w \in Worker : Lost(w) => Lost(w)'
  BY <1>1 DEF Lost
<1>3. Assigned(l, t)' => \A w \in Worker :
        Asked(l, t, w) \/ exec[w][t] # "none" \/ EndIn(inbox[l], t) => Chain(l, t, w)'
  BY <1>1 DEF Chain, Backed, Asked, EndIn
<1> QED BY <1>2, <1>3, ChainsKept

\* An assignment begins a chain, and does not touch the others.
LEMMA TryAssignChains ==
  ASSUME TypeOK, NEW k \in Candidate, NEW u \in Task, TryAssign(k, u),
         UNCHANGED <<botVars, inbox>>, NEW l \in Candidate, NEW t \in Task
  PROVE  Kept(l, t)
<1>0. UNCHANGED <<exec, life, inbox>>
  BY DEF botVars
<1>1. CASE UNCHANGED <<ledger, robot, known, calls>>
  BY <1>1, ChainsInQueues DEF Assigned
<1>2. CASE \E w \in CanDo[u] :
             /\ ledger' = [ledger EXCEPT ![k][u] = "assigned"]
             /\ robot' = [robot EXCEPT ![k][u] = w]
             /\ calls' = calls \cup {CallAt(k, u, w, "sent")}
  <2>1. PICK w \in CanDo[u] :
             /\ ledger' = [ledger EXCEPT ![k][u] = "assigned"]
             /\ robot' = [robot EXCEPT ![k][u] = w]
             /\ calls' = calls \cup {CallAt(k, u, w, "sent")}
    BY <1>2
  <2>2. w \in Worker
    BY CanDoAssumption
  <2>3. CASE l = k /\ t = u
    <3>1. robot'[l][t] = w
      BY <2>1, <2>3 DEF TypeOK
    <3>2. CallAt(l, t, robot'[l][t], "sent") \in calls'
      BY <2>1, <2>3, <3>1
    <3> QED BY <2>2, <3>1, <3>2 DEF Kept, Chain, Backed, Asked, CallAt
  <2>4. CASE l # k \/ t # u
    <3>1. Assigned(l, t)' => Assigned(l, t) /\ robot'[l][t] = robot[l][t]
      BY <2>1, <2>4 DEF TypeOK, Assigned
    <3>2. \A v \in Worker : /\ Lost(v) => Lost(v)'
                            /\ Asked(l, t, v) => Asked(l, t, v)'
      BY <1>0, <2>1 DEF Lost, Asked, CallAt
    <3>3. \A v \in Worker :
            Asked(l, t, v) \/ exec[v][t] # "none" \/ EndIn(inbox[l], t) => Chain(l, t, v)'
      BY <1>0, <3>2 DEF Chain, Backed, EndIn
    <3> QED BY <3>1, <3>2, <3>3, ChainsKept
  <2> QED BY <2>3, <2>4
<1> QED BY <1>1, <1>2 DEF TryAssign

\* A failure ends the assignment it is about; what the queues given to it hold
\* they still hold.
LEMMA FailChains ==
  ASSUME TypeOK, NEW k \in Candidate, NEW u \in Task,
         NEW queues \in [Candidate -> Seq(Message)], Fail(k, u, queues), UNCHANGED botVars,
         NEW l \in Candidate, NEW t \in Task,
         EndIn(inbox[l], t) => EndIn(queues[l], t),
         \A w \in Worker : (l # k \/ t # u) /\ Asked(l, t, w) => Asked(l, t, w)'
  PROVE  Kept(l, t)
<1>0. UNCHANGED <<exec, life>>
  BY DEF botVars
<1>1. EndIn(inbox[l], t) => EndIn(inbox'[l], t)
  <2>1. CASE inbox' = queues
    BY <2>1
  <2>2. CASE inbox' = Routed(queues, TaskMessage("failed", u, NoBot))
    BY <2>2, EndRouted, TaskMessageTyped
  <2> QED BY <2>1, <2>2 DEF Fail
<1>2. ASSUME Assigned(l, t)'
      PROVE  /\ l # k \/ t # u
             /\ Assigned(l, t) /\ robot'[l][t] = robot[l][t]
  <2>1. CASE Assigned(k, u)
    <3>1. /\ ledger' = [ledger EXCEPT ![k][u] = "pending"]
          /\ robot' = [robot EXCEPT ![k][u] = NoBot]
      BY <2>1 DEF Fail, Requeue
    <3> QED BY <1>2, <3>1 DEF TypeOK, Assigned
  <2>2. CASE ~Assigned(k, u)
    <3>1. UNCHANGED <<ledger, robot>>
      BY <2>2 DEF Fail
    <3> QED BY <1>2, <2>2, <3>1 DEF Assigned
  <2> QED BY <2>1, <2>2
<1>3. \A w \in Worker : Lost(w) => Lost(w)'
  BY <1>0 DEF Lost
<1>4. ASSUME Assigned(l, t)', NEW w \in Worker,
             Asked(l, t, w) \/ exec[w][t] # "none" \/ EndIn(inbox[l], t)
      PROVE  Chain(l, t, w)'
  <2>1. CASE Asked(l, t, w)
    BY <1>2, <1>4, <2>1 DEF Chain, Backed
  <2>2. CASE exec[w][t] # "none"
    BY <1>0, <2>2 DEF Chain, Backed
  <2>3. CASE EndIn(inbox[l], t)
    <3>1. EndIn(inbox[l], t)'
      BY <1>1, <2>3 DEF EndIn
    <3> QED BY <3>1 DEF Chain, Backed
  <2> QED BY <1>4, <2>1, <2>2, <2>3
<1> QED BY <1>2, <1>3, <1>4, ChainsKept

LEMMA LeadersKeepChains ==
  ASSUME TypeOK, NEW k \in Candidate,
         LeaderStep(k) \/ TakeOffice(k) \/ LeaveOffice(k) \/ CrashLeader(k),
         NEW l \in Candidate, NEW t \in Task, Assigned(l, t) => Leads(l)
  PROVE  Kept(l, t)
<1>b. UNCHANGED botVars
  BY LeadersLeaveBots
<1>q. inbox \in [Candidate -> Seq(Message)]
  BY DEF TypeOK
<1>1. CASE HandleNewTask(k)
  <2>1. ASSUME Assigned(l, t)'
        PROVE  Assigned(l, t)
    <3>1. CASE UNCHANGED ledger
      BY <2>1, <3>1 DEF Assigned
    <3>2. CASE ledger' = [ledger EXCEPT ![k][Head(inbox[k]).task] = "pending"]
      BY <2>1, <3>2 DEF Assigned, TypeOK
    <3> QED BY <1>1, <3>1, <3>2 DEF HandleNewTask
  <2>2. ASSUME EndIn(inbox[l], t)
        PROVE  EndIn(inbox'[l], t)
    BY <1>1, <2>2, EndPopped DEF HandleNewTask, Receives
  <2> QED BY <1>1, <1>b, <2>1, <2>2, ChainsInQueues DEF HandleNewTask
<1>2. CASE TryNewTask(k)
  <2>1. PICK u \in Task : TryAssign(k, u)
    BY <1>2 DEF TryNewTask, TypeOK
  <2> QED BY <1>2, <1>b, <2>1, TryAssignChains DEF TryNewTask
<1>3. CASE HandleCompletion(k)
  <2> DEFINE u == Head(inbox[k]).task
  <2>1. ASSUME Assigned(l, t)'
        PROVE  /\ Assigned(l, t) /\ robot'[l][t] = robot[l][t]
               /\ l # k \/ t # u
    <3>1. CASE Leads(k) /\ Assigned(k, u)
      <4>1. /\ ledger' = [ledger EXCEPT ![k][u] = "none"]
            /\ robot' = [robot EXCEPT ![k][u] = NoBot]
        BY <1>3, <3>1 DEF HandleCompletion
      <4> QED BY <2>1, <4>1 DEF Assigned, TypeOK
    <3>2. CASE ~(Leads(k) /\ Assigned(k, u))
      <4>1. UNCHANGED <<ledger, robot>>
        BY <1>3, <3>2 DEF HandleCompletion
      <4> QED BY <2>1, <3>2, <4>1 DEF Assigned
    <3> QED BY <3>1, <3>2
  <2>2. ASSUME EndIn(inbox[l], t), l # k \/ t # u
        PROVE  EndIn(inbox'[l], t)
    BY <1>3, <2>2, EndPopped DEF HandleCompletion, Receives
  <2> QED BY <1>3, <1>b, <2>1, <2>2, ChainsInQueues DEF HandleCompletion
<1>4. CASE HandleTimeout(k)
  <2>1. ASSUME EndIn(inbox[l], t)
        PROVE  EndIn(Popped(k)[l], t)
    BY <1>4, <2>1, EndPopped DEF HandleTimeout, Receives
  <2>2. CASE Fail(k, Head(inbox[k]).task, Popped(k))
    <3>1. Head(inbox[k]).task \in Task /\ Popped(k) \in [Candidate -> Seq(Message)]
      BY <1>4, PoppedTyped DEF HandleTimeout, Receives, Message
    <3> QED BY <1>4, <1>b, <2>1, <2>2, <3>1, FailChains DEF HandleTimeout, Asked
  <2>3. CASE inbox' = Popped(k) /\ UNCHANGED books
    BY <1>4, <1>b, <2>1, <2>3, ChainsInQueues DEF HandleTimeout, books, Assigned
  <2> QED BY <1>4, <2>2, <2>3 DEF HandleTimeout
<1>5. CASE HandleBotMetadata(k) \/ HandleBotDeath(k)
  <2>1. UNCHANGED <<ledger, robot, calls>> /\ inbox' = Popped(k)
    BY <1>5 DEF HandleBotMetadata, HandleBotDeath
  <2>2. ASSUME EndIn(inbox[l], t)
        PROVE  EndIn(inbox'[l], t)
    BY <1>5, <2>1, <2>2, EndPopped DEF HandleBotMetadata, HandleBotDeath, Receives
  <2> QED BY <1>b, <2>1, <2>2, ChainsInQueues DEF Assigned
<1>6. CASE FailTask(k)
  <2>1. PICK u \in Task : Fail(k, u, inbox)
    BY <1>6 DEF FailTask, TypeOK
  <2> QED BY <1>6, <1>b, <1>q, <2>1, FailChains DEF FailTask, Asked
<1>7. CASE TryAssignPending(k) \/ TakeOffice(k) \/ LeaveOffice(k)
  <2>1. UNCHANGED <<ledger, robot, calls, inbox>>
    BY <1>7 DEF TryAssignPending, TakeOffice, LeaveOffice, books
  <2> QED BY <1>b, <2>1, ChainsInQueues DEF Assigned
<1>8. CASE TryNext(k)
  <2>1. PICK u \in Task : TryAssign(k, u)
    BY <1>8 DEF TryNext, TypeOK
  <2> QED BY <1>8, <1>b, <2>1, TryAssignChains DEF TryNext
<1>9. ASSUME NEW u \in Task, Retry(k, u) PROVE Kept(l, t)
  BY <1>9, <1>b, TryAssignChains DEF Retry
<1>10. ASSUME NEW u \in Task, Monitor(k, u) PROVE Kept(l, t)
  <2>1. /\ ledger' = [ledger EXCEPT ![k][u] = "pending"]
        /\ robot' = [robot EXCEPT ![k][u] = NoBot]
        /\ inbox' = Routed(inbox, TaskMessage("timeout", u, NoBot))
        /\ UNCHANGED calls
    BY <1>10 DEF Monitor, Requeue, Send
  <2>2. ASSUME Assigned(l, t)'
        PROVE  Assigned(l, t) /\ robot'[l][t] = robot[l][t]
    BY <2>1, <2>2 DEF Assigned, TypeOK
  <2>3. ASSUME EndIn(inbox[l], t)
        PROVE  EndIn(inbox'[l], t)
    BY <1>q, <2>1, <2>3, EndRouted, TaskMessageTyped
  <2> QED BY <1>b, <2>1, <2>2, <2>3, ChainsInQueues
<1>11. CASE CrashLeader(k)
  <2>1. ASSUME Assigned(l, t)'
        PROVE  l # k /\ Assigned(l, t) /\ robot'[l][t] = robot[l][t] /\ inbox'[l] = inbox[l]
    BY <1>11, <2>1 DEF CrashLeader, Assigned, TypeOK
  <2>2. ASSUME l # k, NEW w \in Worker, Asked(l, t, w)
        PROVE  Asked(l, t, w)'
    BY <1>11, <2>2 DEF CrashLeader, Asked, CallAt
  <2>3. \A w \in Worker : Lost(w) => Lost(w)'
    BY <1>b DEF Lost, botVars
  <2>4. Assigned(l, t)' => \A w \in Worker :
          Asked(l, t, w) \/ exec[w][t] # "none" \/ EndIn(inbox[l], t) => Chain(l, t, w)'
    BY <1>b, <2>1, <2>2 DEF Chain, Backed, EndIn, botVars
  <2> QED BY <2>1, <2>3, <2>4, ChainsKept
<1> QED BY <1>1, <1>2, <1>3, <1>4, <1>5, <1>6, <1>7, <1>8, <1>9, <1>10, <1>11
        DEF LeaderStep, Handle

\* Calls: a bot that accepts begins to execute; one that declines is requeued.
LEMMA CallsKeepChains ==
  ASSUME TypeOK, NEW c \in calls, AssignTask(c) \/ CallEnds(c),
         NEW l \in Candidate, NEW t \in Task
  PROVE  Kept(l, t)
<1>c. /\ c.leader \in Candidate /\ c.task \in Task /\ c.bot \in Worker
      /\ c = CallAt(c.leader, c.task, c.bot, c.at)
  BY DEF TypeOK, Call, CallAt
<1>q. inbox \in [Candidate -> Seq(Message)]
  BY DEF TypeOK
<1>a. ASSUME NEW w \in Worker, Asked(l, t, w),
             calls \ {c} \subseteq calls'
      PROVE  Asked(l, t, w)' \/ (/\ l = c.leader /\ t = c.task /\ w = c.bot
                                 /\ c.at = "sent" \/ c.at = "declined")
  BY <1>a, <1>c DEF Asked, CallAt
<1>1. CASE AcceptCall(c)
  <2>1. /\ exec'[c.bot][c.task] = "move"
        /\ \A v \in Worker, u \in Task : (v # c.bot \/ u # c.task) => exec'[v][u] = exec[v][u]
    BY <1>1, <1>c, AdvanceStages DEF AcceptCall, Accept, Stage, TypeOK
  <2>2. UNCHANGED <<life, ledger, robot, inbox>> /\ calls \ {c} \subseteq calls'
    BY <1>1 DEF AcceptCall, Accept, Answer, books
  <2>3. \A w \in Worker : Lost(w) => Lost(w)'
    BY <2>2 DEF Lost
  <2>4. Assigned(l, t)' => \A w \in Worker :
          Asked(l, t, w) \/ exec[w][t] # "none" \/ EndIn(inbox[l], t) => Chain(l, t, w)'
    BY <1>a, <2>1, <2>2 DEF Chain, Backed, EndIn
  <2> QED BY <2>2, <2>3, <2>4, ChainsKept DEF Assigned
<1>2. CASE DeclineCall(c)
  <2>1. UNCHANGED <<life, exec, ledger, robot, inbox>> /\ calls \ {c} \subseteq calls'
        /\ (c.at = "sent" => Now(c, "declined") \in calls') /\ c.at # "declined"
    BY <1>2 DEF DeclineCall, Answer, books, botVars
  <2>2. \A w \in Worker : Lost(w) => Lost(w)'
    BY <2>1 DEF Lost
  <2>3. ASSUME NEW w \in Worker, Asked(l, t, w)
        PROVE  Asked(l, t, w)'
    BY <1>a, <2>1, <2>3 DEF Asked, Now, CallAt
  <2>4. Assigned(l, t)' => \A w \in Worker :
          Asked(l, t, w) \/ exec[w][t] # "none" \/ EndIn(inbox[l], t) => Chain(l, t, w)'
    BY <2>1, <2>3 DEF Chain, Backed, EndIn
  <2> QED BY <2>1, <2>2, <2>4, ChainsKept DEF Assigned
<1>3. CASE DropCall(c) \/ Accepted(c)
  <2>1. UNCHANGED <<life, exec, ledger, robot, inbox>> /\ calls' = calls \ {c}
        /\ c.at # "sent" /\ c.at # "declined"
    BY <1>3 DEF DropCall, Accepted, books, botVars
  <2>2. \A w \in Worker : Lost(w) => Lost(w)'
    BY <2>1 DEF Lost
  <2>3. ASSUME NEW w \in Worker, Asked(l, t, w)
        PROVE  Asked(l, t, w)'
    BY <1>a, <2>1, <2>3
  <2>4. Assigned(l, t)' => \A w \in Worker :
          Asked(l, t, w) \/ exec[w][t] # "none" \/ EndIn(inbox[l], t) => Chain(l, t, w)'
    BY <2>1, <2>3 DEF Chain, Backed, EndIn
  <2> QED BY <2>1, <2>2, <2>4, ChainsKept DEF Assigned
<1>4. CASE Declined(c) \/ CallFails(c)
  <2>1. Fail(c.leader, c.task, inbox) /\ UNCHANGED botVars /\ calls \ {c} \subseteq calls'
    BY <1>4 DEF Declined, CallFails
  <2>2. ASSUME NEW w \in Worker,
               l # c.leader \/ t # c.task, Asked(l, t, w)
        PROVE  Asked(l, t, w)'
    BY <1>a, <2>1, <2>2
  <2> QED BY <1>c, <1>q, <2>1, <2>2, FailChains
<1> QED BY <1>1, <1>2, <1>3, <1>4 DEF AssignTask, CallEnds

\* Bots: an execution ends with a report, unless its bot is lost.
LEMMA WorkersKeepChains ==
  ASSUME Sound, NEW v \in Worker, WorkerStep(v) \/ KillBot(v) \/ CrashBot(v),
         NEW l \in Candidate, NEW t \in Task, Assigned(l, t) => Leads(l)
  PROVE  Kept(l, t)
<1>t. TypeOK /\ BotTypeOK /\ inbox \in [Candidate -> Seq(Message)]
  BY DEF Sound, TypeOK
<1>0. UNCHANGED <<office, ledger, robot, calls>>
  BY DEF WorkerStep, Work, PublishMetadata, ReadMetadata, BotLives, KillBot, CrashBot,
         terms, books
<1>l. \A w \in Worker : Lost(w) => Lost(w)'
  <2>1. ASSUME NEW u \in Task, Work(v, u) PROVE UNCHANGED life
    BY <2>1 DEF Work, Quiet, Walk, Arrive, Repair, Cancel, Delete, Rest, ReadOwn, PublishOwn, Report
  <2>2. CASE PublishMetadata(v) \/ ReadMetadata(v) \/ BotLives(v)
    BY <1>t, <2>2 DEF PublishMetadata, ReadMetadata, BotLives, Publish, Read, Hear, Dying,
                      GoOffline, CloseStop, Disconnect, Lost, BotTypeOK
  <2>3. CASE KillBot(v) \/ CrashBot(v)
    BY <1>t, <2>3 DEF KillBot, CrashBot, Kill, Crash, Lost, BotTypeOK
  <2> QED BY <2>1, <2>2, <2>3 DEF WorkerStep, Lost
<1>q. ASSUME EndIn(inbox[l], t)
      PROVE  EndIn(inbox'[l], t)
  <2>1. ASSUME NEW m \in Message, Send(m) PROVE EndIn(inbox'[l], t)
    BY <1>t, <1>q, <2>1, EndRouted DEF Send
  <2>2. CASE UNCHANGED inbox
    BY <1>q, <2>2
  <2>3. UNCHANGED inbox \/ \E m \in Message : Send(m)
    <3>1. ASSUME NEW u \in Task, Work(v, u) PROVE UNCHANGED inbox \/ \E m \in Message : Send(m)
      <4>1. CASE PublishOwn(v, u) /\ Send(BotMessage("metadata", v, exec[v][u]))
        BY <4>1, BotMessageTyped DEF PublishOwn
      <4>2. CASE Send(TaskMessage("completed", u, v))
        BY <4>2, TaskMessageTyped
      <4> QED BY <3>1, <4>1, <4>2 DEF Work
    <3>2. CASE PublishMetadata(v)
      BY <3>2, BotMessageTyped DEF PublishMetadata
    <3>3. CASE KillBot(v)
      BY <3>3, BotMessageTyped DEF KillBot
    <3>4. CASE ReadMetadata(v) \/ BotLives(v) \/ CrashBot(v)
      BY <3>4 DEF ReadMetadata, BotLives, CrashBot
    <3> QED BY <3>1, <3>2, <3>3, <3>4 DEF WorkerStep
  <2> QED BY <2>1, <2>2, <2>3
<1>e. ASSUME Assigned(l, t), NEW w \in Worker,
             w \notin Unaware, exec[w][t] # "none", exec'[w][t] = "none"
      PROVE  Lost(w)' \/ EndIn(inbox'[l], t)
  <2>1. CASE \E u \in Task : Work(v, u)
    <3>1. PICK u \in Task : Work(v, u)
      BY <2>1
    <3>2. PICK s \in Stage : Advance(v, u, s)
      BY <1>t, <3>1 DEF Work, Quiet, Walk, Arrive, Repair, Cancel, Delete, Rest, ReadOwn,
                        PublishOwn, Report, Stage, Status, BotTypeOK
    <3>3. w = v /\ t = u
      BY <1>e, <1>t, <3>2, AdvanceStages
    <3>4. CASE Cancel(v, u)
      <4>1. stop[v] = "closed" /\ UNCHANGED life
        BY <3>4 DEF Cancel
      <4> QED BY <3>3, <4>1 DEF Sound, OpenUntilKilled, Lost
    <3>5. CASE Report(v, u) /\ (IF Tells(v) THEN Send(TaskMessage("completed", u, v)) ELSE UNCHANGED inbox)
      <4>1. office[l] # "crashed"
        BY <1>e DEF Leads
      <4>2. CASE Tells(v)
        BY <1>t, <3>3, <3>5, <4>1, <4>2, EndSent DEF Send
      <4>3. CASE ~Tells(v)
        <5>1. life[v] \in {"killed", "crashed"} /\ UNCHANGED life
          BY <1>e, <3>3, <3>5, <4>3 DEF Tells, Connected, Report, Sound, OthersAware
        <5> QED BY <3>3, <5>1 DEF Lost
      <4> QED BY <4>2, <4>3
    <3>6. CASE Walk(v, u) \/ Arrive(v, u) \/ Repair(v, u) \/ Delete(v, u) \/ Rest(v, u) \/ ReadOwn(v, u)
                \/ PublishOwn(v, u)
      <4>0. PICK n \in Stage \ {"none"} : Advance(v, u, n)
        BY <1>t, <3>6 DEF Walk, Arrive, Repair, Delete, Rest, ReadOwn, PublishOwn, Stage,
                          BotTypeOK, Status
      <4>1. exec'[v][u] # "none"
        BY <1>t, <4>0, AdvanceStages
      <4> QED BY <1>e, <3>3, <4>1
    <3> QED BY <3>1, <3>4, <3>5, <3>6 DEF Work, Quiet
  <2>2. CASE PublishMetadata(v) \/ ReadMetadata(v) \/ BotLives(v) \/ KillBot(v)
    <3>1. UNCHANGED exec
      BY <2>2 DEF PublishMetadata, ReadMetadata, BotLives, KillBot, Publish, Read, Hear, Dying,
                  GoOffline, CloseStop, Disconnect, Kill
    <3> QED BY <1>e, <3>1
  <2>3. CASE CrashBot(v)
    <3>1. w = v
      BY <1>e, <1>t, <2>3 DEF CrashBot, Crash, BotTypeOK
    <3> QED BY <1>t, <2>3, <3>1 DEF CrashBot, Crash, Lost, BotTypeOK
  <2> QED BY <2>1, <2>2, <2>3 DEF WorkerStep
<1>1. Assigned(l, t)' => Assigned(l, t) /\ robot'[l][t] = robot[l][t]
  BY <1>0 DEF Assigned
<1>2. ASSUME Assigned(l, t)', NEW w \in Worker,
             Asked(l, t, w) \/ exec[w][t] # "none" \/ EndIn(inbox[l], t)
      PROVE  Chain(l, t, w)'
  <2>1. CASE Asked(l, t, w)
    BY <1>0, <2>1 DEF Chain, Backed, Asked
  <2>2. CASE exec[w][t] # "none"
    <3>1. CASE exec'[w][t] # "none"
      BY <3>1 DEF Chain, Backed
    <3>2. CASE exec'[w][t] = "none"
      <4>1. w \in Unaware \/ Lost(w)' \/ EndIn(inbox'[l], t)
        BY <1>1, <1>2, <1>e, <2>2, <3>2
      <4> QED BY <4>1 DEF Chain, Backed, EndIn
    <3> QED BY <3>1, <3>2
  <2>3. CASE EndIn(inbox[l], t)
    <3>1. EndIn(inbox'[l], t)
      BY <1>q, <2>3
    <3> QED BY <3>1 DEF Chain, Backed, EndIn
  <2> QED BY <1>2, <2>1, <2>2, <2>3
<1> QED BY <1>1, <1>2, <1>l, ChainsKept

LEMMA ChainedKept ==
  ASSUME Sound, [Next]_vars, NEW l \in Candidate, NEW t \in Task, Assigned(l, t) => Leads(l)
  PROVE  Kept(l, t)
<1>0. TypeOK
  BY DEF Sound
<1>1. ASSUME NEW u \in Task, Announce(u) PROVE Kept(l, t)
  <2>1. inbox \in [Candidate -> Seq(Message)] /\ TaskMessage("new", u, NoBot) \in Message
    BY <1>0, TaskMessageTyped DEF TypeOK
  <2>2. EndIn(inbox[l], t) => EndIn(inbox'[l], t)
    BY <1>1, <2>1, EndRouted DEF Announce, Send
  <2> QED BY <1>1, <2>2, ChainsInQueues DEF Announce, books, Assigned
<1>2. CASE UNCHANGED vars
  BY <1>2, ChainsInQueues DEF vars, books, Assigned
<1> QED BY <1>0, <1>1, <1>2, LeadersKeepChains, CallsKeepChains, WorkersKeepChains DEF Next

LEMMA SoundKept == Sound /\ TypeOK' /\ [Next]_vars => Sound'
BY StepsAreBots, OpenKept, AwarenessKept DEF Sound, TypeOK

LEMMA SoundFromStart == Spec => []Sound
<1>1. Init => OpenUntilKilled /\ OthersAware
  BY DEF Init, BotInit, OpenUntilKilled, OthersAware
<1>2. TypeOK /\ OpenUntilKilled /\ OthersAware <=> Sound
  BY DEF Sound
<1> QED BY <1>1, <1>2, SoundKept, Typing, PTL DEF Spec

\* While a candidate leads, no step of anyone makes one of its assignments hollow,
\* for every number of leaders, bots and tasks, whoever is killed, crashes, is
\* elected or deposed, and however calls, retries, sweeps and messages interleave.
LEMMA StepsStaySound ==
  ASSUME Sound, [Next]_vars, NEW l \in Candidate, Leads(l), NEW t \in Task, NEW w \in Worker,
         Hollow(l, t, w)'
  PROVE  Hollow(l, t, w)
<1>1. Kept(l, t)
  BY ChainedKept
<1>2. Assigned(l, t)' /\ robot'[l][t] = w /\ ~Chain(l, t, w)'
  BY DEF Hollow, Chain
<1>3. ~Chain(l, t, robot[l][t])'
  BY <1>2
<1>4. Assigned(l, t) /\ robot[l][t] = w /\ ~Chain(l, t, w)
  BY <1>1, <1>2, <1>3 DEF Kept
<1> QED BY <1>4 DEF Hollow, Chain

THEOREM LeadersBooksStaySound == Spec => BooksStaySound
<1>1. Sound /\ [Next]_vars =>
        [\A l \in Candidate : Leads(l) =>
           \A t \in Task : \A w \in Worker : Hollow(l, t, w)' => Hollow(l, t, w)]_vars
  BY StepsStaySound
<1> QED BY <1>1, SoundFromStart, PTL DEF Spec, BooksStaySound

\* So, if every bot knows of a leader from the start, no assignment in the books of
\* a leader that was never deposed is hollow: nothing is in them before it leads.
THEOREM AssignmentsAreBacked == Spec => []AssignedIsBacked
<1>1. Init => OnlyLeadersKeepBooks /\ AssignedIsBacked
  BY DEF Init, OnlyLeadersKeepBooks, AssignedIsBacked, Assigned, AtRest
<1>2. ASSUME Sound, OnlyLeadersKeepBooks, AssignedIsBacked, [Next]_vars
      PROVE  OnlyLeadersKeepBooks' /\ AssignedIsBacked'
  <2>1. OnlyLeadersKeepBooks'
    BY <1>2, BooksOfLeadersKept DEF Sound
  <2>2. SUFFICES ASSUME NEW l \in Candidate \ Deposable, NEW t \in Task, Assigned(l, t)'
                 PROVE  robot'[l][t] \in Worker /\ Chain(l, t, robot[l][t])'
    BY <2>1 DEF AssignedIsBacked, Chain
  <2>3. Assigned(l, t) => Leads(l)
    BY <1>2 DEF OnlyLeadersKeepBooks, Assigned
  <2>4. Kept(l, t)
    BY <1>2, <2>3, ChainedKept
  <2>5. CASE Assigned(l, t) /\ robot'[l][t] = robot[l][t]
             /\ \A w \in Worker : Chain(l, t, w) => Chain(l, t, w)'
    <3>1. robot[l][t] \in Worker /\ Chain(l, t, robot[l][t])
      BY <1>2, <2>5 DEF AssignedIsBacked, Chain
    <3>2. PICK w \in Worker : w = robot[l][t]
      BY <3>1
    <3>3. Chain(l, t, w)' /\ w = robot'[l][t]
      BY <2>5, <3>1, <3>2
    <3> QED BY <3>3
  <2> QED BY <2>2, <2>4, <2>5 DEF Kept
<1> QED BY <1>1, <1>2, SoundFromStart, PTL DEF Spec

-----------------------------------------------------------------------------
(***************************************************************************)
(* A completion a leader hears of is true.                                 *)
(***************************************************************************)
\* Only the report of the bot that it names puts a completion on its way.
LEMMA ReportsComeFromBots ==
  ASSUME TypeOK, [Next]_vars, NEW l \in Candidate, NEW t \in Task,
         NEW w \in Worker, ReportIn(inbox'[l], t, w)
  PROVE  ReportIn(inbox[l], t, w) \/ Report(w, t)
<1>q. inbox \in [Candidate -> Seq(Message)]
  BY DEF TypeOK
<1>r. ASSUME NEW queues \in [Candidate -> Seq(Message)], NEW m \in Message,
             m # TaskMessage("completed", t, w), ReportIn(Routed(queues, m)[l], t, w)
      PROVE  ReportIn(queues[l], t, w)
  <2>1. CASE office[l] # "crashed"
    <3>1. Routed(queues, m)[l] = Append(queues[l], m) /\ queues[l] \in Seq(Message)
      BY <2>1 DEF Routed
    <3>2. PICK i \in DOMAIN Append(queues[l], m) :
             Append(queues[l], m)[i] = TaskMessage("completed", t, w)
      BY <1>r, <3>1 DEF ReportIn
    <3>3. i # Len(queues[l]) + 1
      BY <1>r, <3>1, <3>2
    <3>4. i \in DOMAIN queues[l] /\ Append(queues[l], m)[i] = queues[l][i]
      BY <3>1, <3>2, <3>3
    <3> QED BY <3>2, <3>4 DEF ReportIn
  <2>2. CASE office[l] = "crashed"
    BY <1>r, <2>2 DEF Routed
  <2> QED BY <2>1, <2>2
<1>s. ASSUME NEW m \in Message, m # TaskMessage("completed", t, w), Send(m)
      PROVE  ReportIn(inbox[l], t, w)
  BY <1>q, <1>r, <1>s DEF Send
<1>p. ASSUME NEW k \in Candidate, inbox[k] # <<>>, ReportIn(Popped(k)[l], t, w)
      PROVE  ReportIn(inbox[l], t, w)
  <2>1. CASE l = k
    <3>1. Popped(k)[l] = Tail(inbox[l]) /\ inbox[l] \in Seq(Message) /\ inbox[l] # <<>>
      BY <1>p, <1>q, <2>1 DEF Popped
    <3>2. PICK i \in DOMAIN Tail(inbox[l]) :
             Tail(inbox[l])[i] = TaskMessage("completed", t, w)
      BY <1>p, <3>1 DEF ReportIn
    <3>3. i + 1 \in DOMAIN inbox[l] /\ Tail(inbox[l])[i] = inbox[l][i + 1]
      BY <3>1, <3>2
    <3> QED BY <3>2, <3>3 DEF ReportIn
  <2>2. CASE l # k
    BY <1>p, <2>2, <1>q DEF Popped
  <2> QED BY <2>1, <2>2
<1>f. ASSUME NEW k \in Candidate, NEW u \in Task, NEW queues \in [Candidate -> Seq(Message)],
             Fail(k, u, queues), ReportIn(queues[l], t, w) => ReportIn(inbox[l], t, w)
      PROVE  ReportIn(inbox[l], t, w)
  <2>1. CASE inbox' = queues
    BY <1>f, <2>1
  <2>2. CASE inbox' = Routed(queues, TaskMessage("failed", u, NoBot))
    <3>1. TaskMessage("failed", u, NoBot) \in Message
          /\ TaskMessage("failed", u, NoBot) # TaskMessage("completed", t, w)
      BY TaskMessageTyped DEF TaskMessage
    <3> QED BY <1>f, <1>r, <2>2, <3>1
  <2> QED BY <1>f, <2>1, <2>2 DEF Fail
<1>u. CASE UNCHANGED inbox
  BY <1>u
<1>1. ASSUME NEW k \in Candidate,
             HandleNewTask(k) \/ HandleCompletion(k) \/ HandleBotMetadata(k) \/ HandleBotDeath(k)
      PROVE  ReportIn(inbox[l], t, w)
  BY <1>1, <1>p DEF HandleNewTask, HandleCompletion, HandleBotMetadata, HandleBotDeath, Receives
<1>2. ASSUME NEW k \in Candidate, HandleTimeout(k) PROVE ReportIn(inbox[l], t, w)
  <2>1. inbox[k] # <<>> /\ Head(inbox[k]).task \in Task
        /\ Popped(k) \in [Candidate -> Seq(Message)]
    BY <1>2, PoppedTyped DEF HandleTimeout, Receives, Message
  <2>2. CASE Fail(k, Head(inbox[k]).task, Popped(k))
    BY <1>f, <1>p, <2>1, <2>2
  <2> QED BY <1>2, <1>p, <2>1, <2>2 DEF HandleTimeout
<1>3. ASSUME NEW k \in Candidate, FailTask(k) PROVE ReportIn(inbox[l], t, w)
  <2>1. PICK u \in Task : Fail(k, u, inbox)
    BY <1>3 DEF FailTask, TypeOK
  <2> QED BY <1>f, <1>q, <2>1
<1>4. ASSUME NEW k \in Candidate, NEW u \in Task, Monitor(k, u) PROVE ReportIn(inbox[l], t, w)
  <2>1. TaskMessage("timeout", u, NoBot) \in Message
        /\ TaskMessage("timeout", u, NoBot) # TaskMessage("completed", t, w)
    BY TaskMessageTyped DEF TaskMessage
  <2> QED BY <1>4, <1>s, <2>1 DEF Monitor
<1>5. ASSUME NEW k \in Candidate, CrashLeader(k) PROVE ReportIn(inbox[l], t, w)
  <2>1. inbox' = [inbox EXCEPT ![k] = <<>>]
    BY <1>5 DEF CrashLeader
  <2>2. l # k
    BY <1>q, <2>1 DEF ReportIn
  <2> QED BY <1>q, <2>1, <2>2
<1>6. ASSUME NEW c \in calls, Declined(c) \/ CallFails(c) PROVE ReportIn(inbox[l], t, w)
  <2>1. c.leader \in Candidate /\ c.task \in Task
    BY DEF TypeOK, Call
  <2> QED BY <1>6, <1>f, <1>q, <2>1 DEF Declined, CallFails
<1>7. ASSUME NEW v \in Worker, NEW u \in Task, Work(v, u)
      PROVE  ReportIn(inbox[l], t, w) \/ Report(w, t)
  <2>1. CASE PublishOwn(v, u) /\ Send(BotMessage("metadata", v, exec[v][u]))
    <3>1. BotMessage("metadata", v, exec[v][u]) \in Message
          /\ BotMessage("metadata", v, exec[v][u]) # TaskMessage("completed", t, w)
      BY <2>1, BotMessageTyped DEF PublishOwn, BotMessage, TaskMessage
    <3> QED BY <1>s, <2>1, <3>1
  <2>2. CASE Report(v, u) /\ Send(TaskMessage("completed", u, v))
    <3>1. CASE u = t /\ v = w
      BY <2>2, <3>1
    <3>2. CASE u # t \/ v # w
      <4>1. TaskMessage("completed", u, v) \in Message
            /\ TaskMessage("completed", u, v) # TaskMessage("completed", t, w)
        BY <3>2, TaskMessageTyped DEF TaskMessage
      <4> QED BY <1>s, <2>2, <4>1
    <3> QED BY <3>1, <3>2
  <2> QED BY <1>7, <1>u, <2>1, <2>2 DEF Work
<1>8. ASSUME NEW v \in Worker, PublishMetadata(v) PROVE ReportIn(inbox[l], t, w)
  <2>1. PICK s \in Status : IF Connected(v) THEN Send(BotMessage("metadata", v, s))
                                            ELSE UNCHANGED inbox
    BY <1>8 DEF PublishMetadata
  <2>2. BotMessage("metadata", v, s) \in Message
        /\ BotMessage("metadata", v, s) # TaskMessage("completed", t, w)
    BY BotMessageTyped DEF BotMessage, TaskMessage
  <2> QED BY <1>s, <1>u, <2>1, <2>2
<1>9. ASSUME NEW v \in Worker, KillBot(v) PROVE ReportIn(inbox[l], t, w)
  <2>1. BotMessage("kill", v, "none") \in Message
        /\ BotMessage("kill", v, "none") # TaskMessage("completed", t, w)
    BY BotMessageTyped DEF BotMessage, TaskMessage
  <2> QED BY <1>9, <1>s, <2>1 DEF KillBot
<1>10. ASSUME NEW u \in Task, Announce(u) PROVE ReportIn(inbox[l], t, w)
  <2>1. TaskMessage("new", u, NoBot) \in Message
        /\ TaskMessage("new", u, NoBot) # TaskMessage("completed", t, w)
    BY TaskMessageTyped DEF TaskMessage
  <2> QED BY <1>10, <1>s, <2>1 DEF Announce
<1>11. ASSUME NEW k \in Candidate,
              \/ TryNewTask(k) \/ TryAssignPending(k) \/ TryNext(k)
              \/ \E u \in Task : Retry(k, u)
              \/ TakeOffice(k) \/ LeaveOffice(k)
       PROVE  UNCHANGED inbox
  BY <1>11 DEF TryNewTask, TryAssignPending, TryNext, Retry, TakeOffice, LeaveOffice
<1>12. ASSUME NEW v \in Worker, ReadMetadata(v) \/ BotLives(v) \/ CrashBot(v)
       PROVE  UNCHANGED inbox
  BY <1>12 DEF ReadMetadata, BotLives, CrashBot
<1>13. ASSUME NEW c \in calls, AssignTask(c) \/ Accepted(c) PROVE UNCHANGED inbox
  BY <1>13 DEF AssignTask, AcceptCall, DeclineCall, DropCall, Accepted
<1>14. CASE UNCHANGED vars
  BY <1>14 DEF vars
<1> QED BY <1>u, <1>1, <1>2, <1>3, <1>4, <1>5, <1>6, <1>7, <1>8, <1>9, <1>10, <1>11, <1>12,
           <1>13, <1>14 DEF Next, LeaderStep, Handle, WorkerStep, CallEnds

\* As long as the world answers, a leader that hears of a completion from a bot that
\* no kill has reached can rely on it, however many leaders sent a task to however
\* many bots, and whichever other bots are killed meanwhile.
THEOREM CompletionsAreTrue == ASSUME ~WorldFails PROVE Spec => []CompletedIsRepaired
<1>1. Init => Spared /\ CompletedIsRepaired
  BY DEF Init, BotInit, Spared, CompletedIsRepaired, ReportIn
<1>2. ASSUME TypeOK, Spared, ReportedIsRepaired, CompletedIsRepaired, [Next]_vars
      PROVE  Spared' /\ CompletedIsRepaired'
  <2>b. BotTypeOK /\ [BotNext]_botVars
    BY <1>2, StepsAreBots DEF TypeOK
  <2>1. Spared'
    BY <1>2, <2>b, SparedKept
  <2>2. SUFFICES ASSUME NEW l \in Candidate, NEW t \in Task, NEW w \in Worker,
                        ReportIn(inbox'[l], t, w), Trusted(w)'
                 PROVE  t \notin problems'
    BY <2>1 DEF CompletedIsRepaired, ReportIn
  <2>3. problems' \subseteq problems /\ Trusted(w)
    BY <2>2, <2>b, ProblemsShrink, TrustOnlyLost
  <2>4. CASE ReportIn(inbox[l], t, w)
    BY <1>2, <2>3, <2>4 DEF CompletedIsRepaired
  <2>5. CASE Report(w, t)
    <3>1. life[w] \in {"up", "told"} /\ exec[w][t] = "report"
      BY <1>2, <2>3, <2>5 DEF Report, Runs, Spared, Trusted
    <3> QED BY <1>2, <2>3, <3>1 DEF ReportedIsRepaired
  <2> QED BY <1>2, <2>2, <2>4, <2>5, ReportsComeFromBots
<1>3. Spec => []ReportedIsRepaired
  BY BotsImplemented, ReportsAreTrue, PTL
<1> QED BY <1>1, <1>2, <1>3, Typing, PTL DEF Spec
=============================================================================
