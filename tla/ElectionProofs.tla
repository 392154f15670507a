--------------------------- MODULE ElectionProofs ---------------------------
(***************************************************************************)
(* Theorems about Election, for any set of bots and any bounds.            *)
(***************************************************************************)
EXTENDS Election, TLAPS

ThreadState == [at : Stage, seen : Bot \cup {0}, term : Nat]
CallbackState == [at : Callback, from : Bot \cup {0}, term : Nat, cancel : BOOLEAN]

-----------------------------------------------------------------------------
(***************************************************************************)
(* Queues.                                                                 *)
(***************************************************************************)
\* The broker hands on messages only.
LEMMA RoutedType ==
  ASSUME NEW queues \in [Bot -> Seq(Message)], NEW m \in Message
  PROVE  Routed(queues, m) \in [Bot -> Seq(Message)]
BY DEF Routed

\* Routing a message keeps every VICTORY that is on its way.
LEMMA RoutedKeeps ==
  ASSUME NEW queues \in [Bot -> Seq(Message)], NEW m \in Message,
         NEW b \in Bot, NEW c \in Bot, VictoryIn(queues[c], b)
  PROVE  VictoryIn(Routed(queues, m)[c], b)
<1>1. PICK i \in DOMAIN queues[c] : queues[c][i].type = "victory" /\ queues[c][i].from = b
  BY DEF VictoryIn
<1>2. CASE Routed(queues, m)[c] = queues[c]
  BY <1>2
<1>3. CASE Routed(queues, m)[c] = Append(queues[c], m)
  <2>1. queues[c] \in Seq(Message)
    OBVIOUS
  <2>2. i \in DOMAIN Append(queues[c], m) /\ Append(queues[c], m)[i] = queues[c][i]
    BY <1>1, <2>1
  <2> QED
    BY <1>1, <1>3, <2>2 DEF VictoryIn
<1> QED
  BY <1>2, <1>3 DEF Routed

\* A VICTORY that is routed reaches every other subscribed bot.
LEMMA RoutedReaches ==
  ASSUME NEW queues \in [Bot -> Seq(Message)], NEW m \in Message,
         m.type = "victory", NEW c \in Bot, c # m.from, link[c] = "up"
  PROVE  VictoryIn(Routed(queues, m)[c], m.from)
<1>1. Routed(queues, m)[c] = Append(queues[c], m)
  BY DEF Routed, Heeds
<1>2. queues[c] \in Seq(Message)
  OBVIOUS
<1>3. /\ Len(queues[c]) + 1 \in DOMAIN Append(queues[c], m)
      /\ Append(queues[c], m)[Len(queues[c]) + 1] = m
  BY <1>2
<1> QED
  BY <1>1, <1>3 DEF VictoryIn

\* Taking up the oldest message loses no VICTORY but that message.
LEMMA TailKeeps ==
  ASSUME NEW s \in Seq(Message), s # <<>>, NEW b \in Bot, VictoryIn(s, b),
         ~(Head(s).type = "victory" /\ Head(s).from = b)
  PROVE  VictoryIn(Tail(s), b)
<1>1. PICK i \in DOMAIN s : s[i].type = "victory" /\ s[i].from = b
  BY DEF VictoryIn
<1>2. i \in 2 .. Len(s)
  BY <1>1
<1>3. i - 1 \in DOMAIN Tail(s) /\ Tail(s)[i - 1] = s[i]
  BY <1>2
<1> QED
  BY <1>1, <1>3 DEF VictoryIn

-----------------------------------------------------------------------------
(***************************************************************************)
(* Types.                                                                  *)
(***************************************************************************)
\* Moving one goroutine on keeps the type of run.
LEMMA RunType ==
  ASSUME run \in [Bot -> [Thread -> ThreadState]], NEW b \in Bot, NEW g \in Thread,
         NEW r \in ThreadState
  PROVE  [run EXCEPT ![b][g] = r] \in [Bot -> [Thread -> ThreadState]]
OBVIOUS

LEMMA GoType ==
  ASSUME run \in [Bot -> [Thread -> ThreadState]], NEW b \in Bot, NEW g \in Thread,
         NEW stage \in Stage, Go(b, g, stage)
  PROVE  run' \in [Bot -> [Thread -> ThreadState]]
<1>1. [at |-> stage, seen |-> run[b][g].seen, term |-> run[b][g].term] \in ThreadState
  BY DEF ThreadState
<1> QED
  BY <1>1, RunType DEF Go

LEMMA PublishType ==
  ASSUME inbox \in [Bot -> Seq(Message)], NEW b \in Bot, NEW m \in Message,
         Publish(b, m)
  PROVE  inbox' \in [Bot -> Seq(Message)]
BY RoutedType DEF Publish

\* A publication of b is a message.
LEMMA MessageType ==
  ASSUME NEW b \in Bot, NEW t \in Nat,
         NEW type \in {"heartbeat", "election", "answer", "victory", "kill"},
         NEW to \in Bot \cup {0}
  PROVE  [type |-> type, from |-> b, to |-> to, term |-> t] \in Message
BY DEF Message

\* What the callback thread takes up is a message.
LEMMA ReceivesType ==
  ASSUME inbox \in [Bot -> Seq(Message)], NEW b \in Bot, NEW type, Receives(b, type)
  PROVE  /\ Head(inbox[b]) \in Message
         /\ inbox[b] \in Seq(Message) /\ inbox[b] # <<>>
         /\ [inbox EXCEPT ![b] = Tail(@)] \in [Bot -> Seq(Message)]
BY DEF Receives

LEMMA RecordTypes ==
  /\ Off \in ThreadState
  /\ Idle \in CallbackState
  /\ Busy("answered") \in CallbackState
  /\ Busy("disconnect") \in CallbackState
BY DEF Off, Idle, Busy, ThreadState, CallbackState, Stage, Callback

\* Initially, all fields have their types.
LEMMA InitType == Init => TypeOK
<1> SUFFICES ASSUME Init PROVE TypeOK
  OBVIOUS
<1>1. <<>> \in Seq(Message)
  OBVIOUS
<1> QED
  BY <1>1, RecordTypes DEF Init, TypeOK, ThreadState, CallbackState

\* A step of startElection keeps the types.
LEMMA RunStepType ==
  ASSUME TypeOK, NEW b \in Bot, NEW g \in Thread, RunStep(b, g)
  PROVE  TypeOK'
<1> USE DEF fields, clocks
<1>t. run \in [Bot -> [Thread -> ThreadState]]
  BY DEF TypeOK, ThreadState
<1>1. CASE Start(b, g)
  <2>1. [at |-> "stand", seen |-> 0, term |-> term[b] + 1] \in ThreadState
    BY DEF TypeOK, ThreadState, Stage
  <2>2. run' \in [Bot -> [Thread -> ThreadState]]
    <3>1. CASE inProgress[b]
      <4>1. run' = [run EXCEPT ![b][g] = Off]
        BY <1>1, <3>1 DEF Start
      <4> QED
        BY <4>1, <1>t, RunType, RecordTypes
    <3>2. CASE ~inProgress[b]
      <4>1. run' = [run EXCEPT ![b][g] = [at |-> "stand", seen |-> 0, term |-> term[b] + 1]]
        BY <1>1, <3>2 DEF Start
      <4> QED
        BY <4>1, <1>t, <2>1, RunType
    <3> QED
      BY <3>1, <3>2
  <2>3. CASE inProgress[b]
    BY <1>1, <2>2, <2>3 DEF Start, TypeOK, ThreadState
  <2>4. CASE ~inProgress[b]
    <3>1. /\ inProgress' = [inProgress EXCEPT ![b] = TRUE]
          /\ term' = [term EXCEPT ![b] = @ + 1]
          /\ UNCHANGED <<leaderState, leaderID, votes, link, clocks, inbox, handler>>
      BY <1>1, <2>4 DEF Start
    <3>2. inProgress' \in [Bot -> BOOLEAN]
      BY <3>1 DEF TypeOK
    <3>3. term' \in [Bot -> Nat]
      BY <3>1 DEF TypeOK
    <3> QED
      BY <2>2, <3>1, <3>2, <3>3 DEF TypeOK, ThreadState
  <2> QED
    BY <2>3, <2>4
<1>2. CASE Stand(b, g)
  <2>1. run' \in [Bot -> [Thread -> ThreadState]]
    BY <1>2, <1>t, GoType DEF Stand, Stage
  <2> QED
    BY <1>2, <2>1 DEF Stand, TypeOK, ThreadState
<1>3. CASE Announce(b, g)
  <2>1. run' \in [Bot -> [Thread -> ThreadState]]
    BY <1>3, <1>t, GoType DEF Announce, Stage
  <2>2. inbox' \in [Bot -> Seq(Message)]
    BY <1>3, PublishType, MessageType DEF Announce, TypeOK
  <2> QED
    BY <1>3, <2>1, <2>2 DEF Announce, TypeOK, ThreadState
<1>4. CASE Wake(b, g)
  <2>1. \A stage \in Stage :
          [at |-> stage, seen |-> leaderID[b], term |-> run[b][g].term] \in ThreadState
    BY <1>t DEF TypeOK, ThreadState, Stage
  <2>2. run' \in [Bot -> [Thread -> ThreadState]]
    BY <1>4, <1>t, <2>1, RunType, RecordTypes DEF Wake, Stage
  <2> QED
    BY <1>4, <2>2 DEF Wake, TypeOK, ThreadState
<1>5. CASE Lead(b, g)
  <2>1. [at |-> "victory", seen |-> 0, term |-> term[b]] \in ThreadState
    BY <1>t DEF TypeOK, ThreadState, Stage
  <2>2. run' \in [Bot -> [Thread -> ThreadState]]
    BY <1>5, <1>t, <2>1, RunType DEF Lead
  <2> QED
    BY <1>5, <2>2 DEF Lead, TypeOK, ThreadState
<1>6. CASE PublishVictory(b, g)
  <2>1. run' \in [Bot -> [Thread -> ThreadState]]
    BY <1>6, <1>t, GoType DEF PublishVictory, Stage
  <2>2. inbox' \in [Bot -> Seq(Message)]
    BY <1>6, <1>t, PublishType, MessageType DEF PublishVictory, TypeOK, ThreadState
  <2> QED
    BY <1>6, <2>1, <2>2 DEF PublishVictory, TypeOK, ThreadState
<1>7. CASE StartHeartbeat(b, g)
  <2>1. run' \in [Bot -> [Thread -> ThreadState]]
    BY <1>7, <1>t, GoType DEF StartHeartbeat, Stage
  <2> QED
    BY <1>7, <2>1 DEF StartHeartbeat, TypeOK, ThreadState
<1>8. CASE Yield(b, g)
  <2>1. run' \in [Bot -> [Thread -> ThreadState]]
    BY <1>8, <1>t, GoType DEF Yield, Stage
  <2>2. PICK l \in {run[b][g].seen, leaderID[b]} : leaderID' = [leaderID EXCEPT ![b] = l]
    BY <1>8 DEF Yield
  <2>3. l \in Bot \cup {0}
    BY <1>t, <2>2 DEF TypeOK, ThreadState
  <2>4. leaderID' \in [Bot -> Bot \cup {0}]
    BY <2>2, <2>3 DEF TypeOK
  <2>5. term' \in [Bot -> Nat]
    BY <1>8, <1>t DEF Yield, Larger, TypeOK, ThreadState
  <2> QED
    BY <1>8, <2>1, <2>4, <2>5 DEF Yield, TypeOK, ThreadState
<1>9. CASE Yielded(b, g)
  <2>1. run' \in [Bot -> [Thread -> ThreadState]]
    BY <1>9, <1>t, GoType DEF Yielded, Stage
  <2> QED
    BY <1>9, <2>1 DEF Yielded, Rearm, TypeOK, ThreadState
<1>10. CASE End(b, g)
  <2>1. run' \in [Bot -> [Thread -> ThreadState]]
    BY <1>10, <1>t, RunType, RecordTypes DEF End
  <2> QED
    BY <1>10, <2>1 DEF End, TypeOK, ThreadState
<1> QED
  BY <1>1, <1>2, <1>3, <1>4, <1>5, <1>6, <1>7, <1>8, <1>9, <1>10 DEF RunStep

\* A step of the callback thread keeps the types.
LEMMA CallbackStepType ==
  ASSUME TypeOK, NEW b \in Bot, CallbackStep(b)
  PROVE  TypeOK'
<1> USE DEF fields, clocks
<1>i. /\ inbox \in [Bot -> Seq(Message)]
      /\ handler \in [Bot -> CallbackState]
      /\ run \in [Bot -> [Thread -> ThreadState]]
  BY DEF TypeOK, CallbackState, ThreadState
<1>1. CASE HandleHeartbeat(b)
  <2> DEFINE hb == Head(inbox[b])
  <2>1. hb \in Message /\ inbox' \in [Bot -> Seq(Message)]
    BY <1>1, <1>i, ReceivesType DEF HandleHeartbeat, Pop
  <2>2. hb.from \in Bot /\ hb.term \in Nat
    BY <2>1 DEF Message
  <2>3. CASE hb.term < term[b]
    BY <1>1, <2>1, <2>3 DEF HandleHeartbeat, TypeOK
  <2>4. CASE ~(hb.term < term[b]) /\ leaderState[b] # "leader"
    BY <1>1, <2>1, <2>2, <2>4 DEF HandleHeartbeat, TypeOK
  <2>5. CASE ~(hb.term < term[b]) /\ leaderState[b] = "leader" /\ hb.from # b
    <3>1. [at |-> "follow", from |-> hb.from, term |-> hb.term, cancel |-> FALSE]
            \in CallbackState
      BY <2>2 DEF CallbackState, Callback
    <3>2. handler' \in [Bot -> CallbackState]
      BY <1>1, <1>i, <2>5, <3>1 DEF HandleHeartbeat, Following
    <3> QED
      BY <1>1, <2>1, <2>2, <2>5, <3>2 DEF HandleHeartbeat, TypeOK, CallbackState
  <2>6. CASE ~(hb.term < term[b]) /\ leaderState[b] = "leader" /\ hb.from = b
    BY <1>1, <2>1, <2>2, <2>6 DEF HandleHeartbeat, TypeOK
  <2> QED
    BY <2>3, <2>4, <2>5, <2>6
<1>2. CASE HandleElection(b)
  <2>1. /\ Head(inbox[b]).from \in Bot
        /\ [inbox EXCEPT ![b] = Tail(@)] \in [Bot -> Seq(Message)]
    BY <1>2, <1>i, ReceivesType DEF HandleElection, Message
  <2>2. inbox' \in [Bot -> Seq(Message)]
    BY <1>2, <2>1, RoutedType, MessageType DEF HandleElection
  <2>3. handler' \in [Bot -> CallbackState]
    BY <1>2, <1>i, RecordTypes DEF HandleElection
  <2> QED
    BY <1>2, <2>2, <2>3 DEF HandleElection, TypeOK, CallbackState
<1>3. CASE Contest(b)
  <2>1. run' \in [Bot -> [Thread -> ThreadState]]
    <3>1. CASE UNCHANGED run
      BY <1>i, <3>1
    <3>2. CASE \E g \in Spawn : Go(b, g, "start")
      BY <1>i, <3>2, GoType DEF Stage, Thread
    <3> QED
      BY <1>3, <3>1, <3>2 DEF Contest
  <2>2. handler' \in [Bot -> CallbackState]
    BY <1>3, <1>i, RecordTypes DEF Contest
  <2> QED
    BY <1>3, <2>1, <2>2 DEF Contest, TypeOK, CallbackState, ThreadState
<1>4. CASE HandleAnswer(b)
  <2>1. inbox' \in [Bot -> Seq(Message)]
    BY <1>4, <1>i, ReceivesType DEF HandleAnswer, Pop
  <2>2. votes' \in [Bot -> Nat]
    <3>1. votes' = [votes EXCEPT ![b] = @ + 1] \/ votes' = votes
      BY <1>4 DEF HandleAnswer
    <3>2. votes \in [Bot -> Nat] /\ votes[b] + 1 \in Nat
      BY DEF TypeOK
    <3> QED
      BY <3>1, <3>2
  <2>3. inProgress' \in [Bot -> BOOLEAN]
    BY <1>4 DEF HandleAnswer, TypeOK
  <2> QED
    BY <1>4, <2>1, <2>2, <2>3 DEF HandleAnswer, TypeOK
<1>5. CASE HandleVictory(b)
  <2> DEFINE vic == Head(inbox[b])
  <2>1. vic \in Message /\ inbox' \in [Bot -> Seq(Message)]
    BY <1>5, <1>i, ReceivesType DEF HandleVictory, Pop
  <2>2. [at |-> "follow", from |-> vic.from, term |-> vic.term,
         cancel |-> leaderState[b] = "candidate"] \in CallbackState
    BY <2>1 DEF CallbackState, Callback, Message
  <2>3. handler' \in [Bot -> CallbackState]
    BY <1>5, <1>i, <2>2 DEF HandleVictory, Following
  <2> QED
    BY <1>5, <2>1, <2>3 DEF HandleVictory, TypeOK, CallbackState
<1>6. CASE Follow(b)
  <2>1. \A stage \in Callback :
          [at |-> stage, from |-> handler[b].from, term |-> handler[b].term,
           cancel |-> handler[b].cancel] \in CallbackState
    BY <1>i DEF CallbackState
  <2>2. handler' \in [Bot -> CallbackState]
    BY <1>6, <1>i, <2>1 DEF Follow, Callback
  <2>3. handler[b].from \in Bot \cup {0} /\ handler[b].term \in Nat
    BY <1>i DEF CallbackState
  <2> QED
    BY <1>6, <2>2, <2>3 DEF Follow, Larger, TypeOK, CallbackState
<1>7. CASE Followed(b)
  <2>1. handler' \in [Bot -> CallbackState]
    BY <1>7, <1>i, RecordTypes DEF Followed
  <2> QED
    BY <1>7, <2>1 DEF Followed, Rearm, TypeOK, CallbackState
<1>8. CASE HandleKill(b)
  <2>1. inbox' \in [Bot -> Seq(Message)]
    BY <1>8, <1>i, ReceivesType DEF HandleKill, Pop
  <2>2. handler' \in [Bot -> CallbackState]
    BY <1>8, <1>i, RecordTypes DEF HandleKill
  <2> QED
    BY <1>8, <2>1, <2>2 DEF HandleKill, TypeOK, CallbackState
<1>9. CASE Disconnect(b)
  <2>1. handler' \in [Bot -> CallbackState]
    BY <1>9, <1>i, RecordTypes DEF Disconnect
  <2>2. inbox' \in [Bot -> Seq(Message)]
    BY <1>9, <1>i DEF Disconnect
  <2> QED
    BY <1>9, <2>1, <2>2 DEF Disconnect, TypeOK, CallbackState
<1> QED
  BY <1>1, <1>2, <1>3, <1>4, <1>5, <1>6, <1>7, <1>8, <1>9 DEF CallbackStep

\* Every step keeps the types.
LEMMA NextType == TypeOK /\ [Next]_vars => TypeOK'
<1> SUFFICES ASSUME TypeOK, [Next]_vars PROVE TypeOK'
  OBVIOUS
<1> USE DEF fields, clocks
<1>i. /\ inbox \in [Bot -> Seq(Message)]
      /\ handler \in [Bot -> CallbackState]
      /\ run \in [Bot -> [Thread -> ThreadState]]
  BY DEF TypeOK, CallbackState, ThreadState
<1>1. CASE UNCHANGED vars
  BY <1>1 DEF vars, TypeOK
<1>2. ASSUME NEW b \in Bot, Boot(b) PROVE TypeOK'
  BY <1>2 DEF Boot, TypeOK
<1>3. ASSUME NEW b \in Bot, ElectionTimeout(b) PROVE TypeOK'
  <2>1. run' \in [Bot -> [Thread -> ThreadState]]
    BY <1>3, <1>i, GoType DEF ElectionTimeout, Stage, Thread
  <2> QED
    BY <1>3, <2>1 DEF ElectionTimeout, TypeOK, ThreadState
<1>4. ASSUME NEW b \in Bot, HeartbeatTick(b) PROVE TypeOK'
  <2>1. hbOut' \in [Bot -> Nat]
    <3>1. hbOut' = [hbOut EXCEPT ![b] = term[b]] \/ hbOut' = hbOut
      BY <1>4 DEF HeartbeatTick
    <3> QED
      BY <3>1 DEF TypeOK
  <2>2. heartbeat' \in [Bot -> BOOLEAN]
    BY <1>4 DEF HeartbeatTick, TypeOK
  <2> QED
    BY <1>4, <2>1, <2>2 DEF HeartbeatTick, TypeOK
<1>5. ASSUME NEW b \in Bot, PublishHeartbeat(b) PROVE TypeOK'
  <2>1. inbox' \in [Bot -> Seq(Message)]
    BY <1>5, <1>i, PublishType, MessageType DEF PublishHeartbeat, TypeOK
  <2> QED
    BY <1>5, <2>1 DEF PublishHeartbeat, TypeOK
<1>6. ASSUME NEW b \in Bot, Crash(b) PROVE TypeOK'
  <2>1. inbox' \in [Bot -> Seq(Message)] /\ handler' \in [Bot -> CallbackState]
    BY <1>6, <1>i, RecordTypes DEF Crash
  <2>2. run' \in [Bot -> [Thread -> ThreadState]]
    BY <1>6, <1>i, RecordTypes DEF Crash
  <2> QED
    BY <1>6, <2>1, <2>2 DEF Crash, TypeOK, CallbackState, ThreadState
<1>7. ASSUME NEW b \in Bot, Kill(b) PROVE TypeOK'
  <2>1. inbox' \in [Bot -> Seq(Message)]
    BY <1>7, <1>i, RoutedType, MessageType DEF Kill
  <2> QED
    BY <1>7, <2>1 DEF Kill, TypeOK
<1>8. ASSUME NEW b \in Bot, Reconnect(b) PROVE TypeOK'
  <2>1. PICK n \in 0..Len(inbox[b]) : inbox' = [inbox EXCEPT ![b] = SubSeq(@, 1, n)]
    BY <1>8 DEF Reconnect
  <2>2. inbox[b] \in Seq(Message) /\ SubSeq(inbox[b], 1, n) \in Seq(Message)
    BY <1>i
  <2>3. inbox' \in [Bot -> Seq(Message)]
    BY <1>i, <2>1, <2>2
  <2> QED
    BY <1>8, <2>3 DEF Reconnect, TypeOK
<1> QED
  BY <1>1, <1>2, <1>3, <1>4, <1>5, <1>6, <1>7, <1>8, RunStepType, CallbackStepType
     DEF Next, BotStep

\* The fields, the queues and the threads of every bot keep their types,
\* whatever the bots do and whichever of them fail.
THEOREM Typing == Spec => []TypeOK
<1> QED
  BY InitType, NextType, PTL DEF Spec

-----------------------------------------------------------------------------
(***************************************************************************)
(* No silent split brain.  The inductive invariant adds to the types only  *)
(* that a bot which has not subscribed yet does not lead.  A step either   *)
(* makes a bot leader, which then owes everyone its VICTORY, or it adds    *)
(* nobody to those in office; and it settles what a leader is owed only    *)
(* when that leader leaves office.                                         *)
(***************************************************************************)
BootFollows == \A b \in Bot : link[b] = "boot" => leaderState[b] # "leader"

Inv == TypeOK /\ BootFollows /\ NoSilentSplitBrain

\* What b owes c is still owed after a step.
StillPending(b, c) == PendingTo(b, c) => PendingTo(b, c)'

\* A step that brings nobody to office and settles nothing between those who
\* stay keeps the invariant.
LEMMA Frame ==
  ASSUME NoSilentSplitBrain, InOffice' \subseteq InOffice,
         \A b, c \in InOffice' : b # c => StillPending(b, c)
  PROVE  NoSilentSplitBrain'
<1> SUFFICES ASSUME NEW b \in InOffice', NEW c \in InOffice', b # c
             PROVE  PendingTo(b, c)' \/ PendingTo(c, b)'
  BY DEF NoSilentSplitBrain
<1>1. PendingTo(b, c) \/ PendingTo(c, b)
  BY DEF NoSilentSplitBrain
<1> QED
  BY <1>1 DEF StillPending

\* The three reasons for a debt, one by one.
LEMMA Kept ==
  ASSUME NEW b \in Bot, NEW c \in Bot,
         \A g \in Thread : run[b][g].at = "victory" => run'[b][g].at = "victory",
         VictoryIn(inbox[c], b) => VictoryIn(inbox'[c], b) \/ handler'[c].at = "follow",
         handler[c].at = "follow" => handler'[c].at = "follow"
  PROVE  StillPending(b, c)
<1> SUFFICES ASSUME PendingTo(b, c) PROVE PendingTo(b, c)'
  BY DEF StillPending
<1>1. CASE \E g \in Thread : run[b][g].at = "victory"
  BY <1>1 DEF PendingTo
<1>2. CASE VictoryIn(inbox[c], b)
  BY <1>2 DEF PendingTo, VictoryIn
<1>3. CASE handler[c].at = "follow"
  BY <1>3 DEF PendingTo
<1> QED
  BY <1>1, <1>2, <1>3 DEF PendingTo

\* A goroutine that moves on from another stage leaves a "victory" alone.
LEMMA GoKeeps ==
  ASSUME TypeOK, NEW b \in Bot, NEW g \in Thread, run[b][g].at # "victory",
         NEW r, run' = [run EXCEPT ![b][g] = r]
  PROVE  \A c \in Bot, h \in Thread :
           run[c][h].at = "victory" => run'[c][h].at = "victory"
<1>1. run \in [Bot -> [Thread -> ThreadState]]
  BY DEF TypeOK, ThreadState
<1> QED
  BY <1>1

\* Publishing keeps every VICTORY that is on its way.
LEMMA PublishKeeps ==
  ASSUME inbox \in [Bot -> Seq(Message)], NEW m \in Message, NEW p \in Bot,
         Publish(p, m), NEW b \in Bot, NEW c \in Bot, VictoryIn(inbox[c], b)
  PROVE  VictoryIn(inbox'[c], b)
BY RoutedKeeps DEF Publish

\* Taking up a message of another type keeps every VICTORY.
LEMMA PopKeeps ==
  ASSUME inbox \in [Bot -> Seq(Message)], NEW p \in Bot, NEW type, type # "victory",
         Receives(p, type), NEW b \in Bot, NEW c \in Bot, VictoryIn(inbox[c], b)
  PROVE  VictoryIn([inbox EXCEPT ![p] = Tail(@)][c], b)
<1>1. CASE c = p
  BY <1>1, TailKeeps, ReceivesType DEF Receives
<1>2. CASE c # p
  BY <1>2
<1> QED
  BY <1>1, <1>2

\* A step of startElection keeps the leaders aware of each other.
LEMMA RunStepAware ==
  ASSUME TypeOK, NoSilentSplitBrain, NEW b \in Bot, NEW g \in Thread, RunStep(b, g)
  PROVE  NoSilentSplitBrain'
<1> USE DEF fields, clocks
<1>i. /\ inbox \in [Bot -> Seq(Message)]
      /\ run \in [Bot -> [Thread -> ThreadState]]
  BY DEF TypeOK, ThreadState
<1>q. ASSUME inbox' = inbox \/ \E m \in Message : Publish(b, m), handler' = handler,
             InOffice' \subseteq InOffice,
             run[b][g].at # "victory", NEW r, run' = [run EXCEPT ![b][g] = r]
      PROVE  NoSilentSplitBrain'
  <2>1. \A c \in Bot, h \in Thread : run[c][h].at = "victory" => run'[c][h].at = "victory"
    BY <1>q, GoKeeps
  <2>2. \A c, d \in Bot : VictoryIn(inbox[d], c) => VictoryIn(inbox'[d], c)
    BY <1>q, <1>i, PublishKeeps
  <2>3. \A c, d \in Bot : StillPending(c, d)
    BY <1>q, <2>1, <2>2, Kept
  <2> QED
    BY <1>q, <2>3, Frame DEF InOffice
<1>1. CASE Start(b, g)
  BY <1>1, <1>q DEF Start, At, InOffice
<1>2. CASE Stand(b, g)
  <2>1. InOffice' \subseteq InOffice
    BY <1>2 DEF Stand, InOffice, TypeOK
  <2> QED
    BY <1>2, <2>1, <1>q DEF Stand, At, Go
<1>3. CASE Announce(b, g)
  <2>1. [type |-> "election", from |-> b, to |-> 0, term |-> 0] \in Message
    BY MessageType
  <2>2. InOffice' \subseteq InOffice
    BY <1>3 DEF Announce, InOffice
  <2> QED
    BY <1>3, <2>1, <2>2, <1>q DEF Announce, At, Go
<1>4. CASE Wake(b, g)
  BY <1>4, <1>q DEF Wake, At, InOffice
<1>5. CASE Lead(b, g)
  <2>1. \A c \in Bot, h \in Thread : run[c][h].at = "victory" => run'[c][h].at = "victory"
    BY <1>5, GoKeeps DEF Lead, At
  <2>2. \A c, d \in Bot : StillPending(c, d)
    BY <1>5, <2>1, Kept DEF Lead
  <2>3. run'[b][g].at = "victory"
    BY <1>5, <1>i DEF Lead
  <2>4. InOffice' \subseteq InOffice \cup {b}
    BY <1>5 DEF Lead, InOffice, TypeOK
  <2> SUFFICES ASSUME NEW c \in InOffice', NEW d \in InOffice', c # d
               PROVE  PendingTo(c, d)' \/ PendingTo(d, c)'
    BY DEF NoSilentSplitBrain
  <2>5. CASE c = b \/ d = b
    BY <2>3, <2>5 DEF PendingTo
  <2>6. CASE c # b /\ d # b
    BY <2>2, <2>4, <2>6 DEF NoSilentSplitBrain, StillPending, InOffice
  <2> QED
    BY <2>5, <2>6
<1>6. CASE PublishVictory(b, g)
  <2> DEFINE m == [type |-> "victory", from |-> b, to |-> 0, term |-> run[b][g].term]
  <2>1. m \in Message
    BY <1>i, MessageType DEF ThreadState
  <2>2. \A c, d \in Bot : VictoryIn(inbox[d], c) => VictoryIn(inbox'[d], c)
    BY <1>6, <1>i, <2>1, PublishKeeps DEF PublishVictory
  <2>3. InOffice' = InOffice
    BY <1>6 DEF PublishVictory, InOffice
  <2>4. ASSUME NEW c \in InOffice, NEW d \in InOffice, c # d PROVE StillPending(c, d)
    <3>1. CASE c = b
      <4>1. link[b] = "up" /\ link[d] = "up" /\ d \in Bot
        BY <3>1, <2>4 DEF InOffice
      <4>2. inbox' = Routed(inbox, m)
        BY <1>6, <4>1 DEF PublishVictory, Publish, Connected
      <4>3. VictoryIn(inbox'[d], b)
        BY <1>i, <2>1, <2>4, <3>1, <4>1, <4>2, RoutedReaches
      <4> QED
        BY <3>1, <4>3 DEF StillPending, PendingTo, VictoryIn
    <3>2. CASE c # b
      <4>1. run'[c] = run[c]
        BY <1>6, <1>i, <3>2 DEF PublishVictory, Go
      <4> QED
        BY <1>6, <4>1, <2>2, Kept DEF PublishVictory, InOffice
    <3> QED
      BY <3>1, <3>2
  <2> QED
    BY <2>3, <2>4, Frame
<1>7. CASE StartHeartbeat(b, g)
  BY <1>7, <1>q DEF StartHeartbeat, At, Go, InOffice
<1>8. CASE Yield(b, g)
  <2>1. InOffice' \subseteq InOffice
    BY <1>8 DEF Yield, InOffice, TypeOK
  <2> QED
    BY <1>8, <2>1, <1>q DEF Yield, At, Go
<1>9. CASE Yielded(b, g)
  BY <1>9, <1>q DEF Yielded, At, Go, InOffice
<1>10. CASE End(b, g)
  BY <1>10, <1>q DEF End, At, InOffice
<1> QED
  BY <1>1, <1>2, <1>3, <1>4, <1>5, <1>6, <1>7, <1>8, <1>9, <1>10 DEF RunStep

\* A step of the callback thread keeps the leaders aware of each other.
LEMMA CallbackStepAware ==
  ASSUME TypeOK, NoSilentSplitBrain, NEW b \in Bot, CallbackStep(b)
  PROVE  NoSilentSplitBrain'
<1> USE DEF fields, clocks
<1>i. /\ inbox \in [Bot -> Seq(Message)]
      /\ run \in [Bot -> [Thread -> ThreadState]]
      /\ handler \in [Bot -> CallbackState]
  BY DEF TypeOK, ThreadState, CallbackState
<1>q. ASSUME \A c, d \in Bot : VictoryIn(inbox[d], c) => VictoryIn(inbox'[d], c),
             run' = run, InOffice' \subseteq InOffice,
             handler[b].at # "follow", NEW r, handler' = [handler EXCEPT ![b] = r]
      PROVE  NoSilentSplitBrain'
  <2>1. \A d \in Bot : handler[d].at = "follow" => handler'[d].at = "follow"
    BY <1>q, <1>i
  <2>2. \A c, d \in Bot : StillPending(c, d)
    BY <1>q, <2>1, Kept
  <2> QED
    BY <1>q, <2>2, Frame DEF InOffice
<1>p. ASSUME NEW type, type # "victory", Receives(b, type), Pop(b)
      PROVE  \A c, d \in Bot : VictoryIn(inbox[d], c) => VictoryIn(inbox'[d], c)
  BY <1>p, <1>i, PopKeeps DEF Pop
<1>l. handler = [handler EXCEPT ![b] = handler[b]]
  BY <1>i
<1>1. CASE HandleHeartbeat(b)
  <2>1. \A c, d \in Bot : VictoryIn(inbox[d], c) => VictoryIn(inbox'[d], c)
    BY <1>1, <1>p DEF HandleHeartbeat
  <2>2. run' = run /\ InOffice' = InOffice
    BY <1>1 DEF HandleHeartbeat, InOffice
  <2>3. \E r : handler' = [handler EXCEPT ![b] = r]
    BY <1>1, <1>l DEF HandleHeartbeat, Following
  <2> QED
    BY <1>1, <2>1, <2>2, <2>3, <1>q DEF HandleHeartbeat, Receives
<1>2. CASE HandleElection(b)
  <2> DEFINE m == [type |-> "answer", from |-> b, to |-> Head(inbox[b]).from, term |-> 0]
             rest == [inbox EXCEPT ![b] = Tail(@)]
  <2>1. m \in Message /\ rest \in [Bot -> Seq(Message)]
    BY <1>2, <1>i, ReceivesType, MessageType DEF HandleElection, Message
  <2>2. \A c, d \in Bot : VictoryIn(inbox[d], c) => VictoryIn(rest[d], c)
    BY <1>2, <1>i, PopKeeps DEF HandleElection
  <2>3. inbox' = Routed(rest, m)
    BY <1>2 DEF HandleElection
  <2>4. \A c, d \in Bot : VictoryIn(inbox[d], c) => VictoryIn(inbox'[d], c)
    BY <2>1, <2>2, <2>3, RoutedKeeps
  <2> QED
    BY <1>2, <2>4, <1>q DEF HandleElection, Receives, InOffice
<1>3. CASE Contest(b)
  <2>1. \A c \in Bot, h \in Thread : run[c][h].at = "victory" => run'[c][h].at = "victory"
    <3>1. CASE run' = run
      BY <3>1
    <3>2. CASE \E g \in Spawn : run[b][g] = Off /\ Go(b, g, "start")
      BY <3>2, GoKeeps DEF Go, Off, Thread
    <3> QED
      BY <1>3, <3>1, <3>2 DEF Contest
  <2>2. \A d \in Bot : handler[d].at = "follow" => handler'[d].at = "follow"
    BY <1>3, <1>i DEF Contest
  <2>3. \A c, d \in Bot : StillPending(c, d)
    BY <1>3, <2>1, <2>2, Kept DEF Contest
  <2> QED
    BY <1>3, <2>3, Frame DEF Contest, InOffice
<1>4. CASE HandleAnswer(b)
  <2>1. \A c, d \in Bot : VictoryIn(inbox[d], c) => VictoryIn(inbox'[d], c)
    BY <1>4, <1>p DEF HandleAnswer
  <2>2. InOffice' = InOffice /\ run' = run /\ handler' = handler
    BY <1>4 DEF HandleAnswer, InOffice
  <2> QED
    BY <1>4, <2>1, <2>2, <1>l, <1>q DEF HandleAnswer, Receives
<1>5. CASE HandleVictory(b)
  <2>1. handler'[b].at = "follow" /\ \A d \in Bot \ {b} : handler'[d] = handler[d]
    BY <1>5, <1>i DEF HandleVictory, Following
  <2>2. \A d \in Bot \ {b} : inbox'[d] = inbox[d]
    BY <1>5, <1>i DEF HandleVictory, Pop
  <2>3. \A c, d \in Bot : StillPending(c, d)
    BY <1>5, <2>1, <2>2, Kept DEF HandleVictory
  <2> QED
    BY <1>5, <2>3, Frame DEF HandleVictory, InOffice
<1>6. CASE Follow(b)
  <2>1. InOffice' \subseteq InOffice \ {b}
    BY <1>6 DEF Follow, InOffice, TypeOK
  <2>2. \A d \in Bot \ {b} : handler'[d] = handler[d]
    BY <1>6, <1>i DEF Follow
  <2>3. ASSUME NEW c \in InOffice', NEW d \in InOffice' PROVE StillPending(c, d)
    <3>1. c \in Bot /\ d \in Bot \ {b}
      BY <2>1 DEF InOffice
    <3> QED
      BY <1>6, <2>2, <3>1, Kept DEF Follow
  <2> QED
    BY <2>1, <2>3, Frame
<1>7. CASE Followed(b)
  <2>1. InOffice' = InOffice /\ run' = run /\ inbox' = inbox
    BY <1>7 DEF Followed, InOffice
  <2> QED
    BY <1>7, <2>1, <1>q DEF Followed
<1>8. CASE HandleKill(b)
  <2>1. \A c, d \in Bot : VictoryIn(inbox[d], c) => VictoryIn(inbox'[d], c)
    BY <1>8, <1>p DEF HandleKill
  <2>2. InOffice' \subseteq InOffice
    BY <1>8 DEF HandleKill, InOffice, TypeOK
  <2>3. \E r : handler' = [handler EXCEPT ![b] = r]
    BY <1>8, <1>l DEF HandleKill
  <2> QED
    BY <1>8, <2>1, <2>2, <2>3, <1>q DEF HandleKill, Receives
<1>9. CASE Disconnect(b)
  <2>1. InOffice' \subseteq InOffice \ {b}
    BY <1>9 DEF Disconnect, InOffice, TypeOK
  <2>2. \A d \in Bot \ {b} : handler'[d] = handler[d] /\ inbox'[d] = inbox[d]
    BY <1>9, <1>i DEF Disconnect
  <2>3. ASSUME NEW c \in InOffice', NEW d \in InOffice' PROVE StillPending(c, d)
    <3>1. c \in Bot /\ d \in Bot \ {b}
      BY <2>1 DEF InOffice
    <3> QED
      BY <1>9, <2>2, <3>1, Kept DEF Disconnect
  <2> QED
    BY <2>1, <2>3, Frame
<1> QED
  BY <1>1, <1>2, <1>3, <1>4, <1>5, <1>6, <1>7, <1>8, <1>9 DEF CallbackStep

\* No step brings a bot that has not subscribed yet to office.
LEMMA NextBoot == Inv /\ [Next]_vars => BootFollows'
<1> SUFFICES ASSUME Inv, [Next]_vars, NEW c \in Bot, link'[c] = "boot"
             PROVE  leaderState'[c] # "leader"
  BY DEF BootFollows
<1> USE DEF Inv, TypeOK, BootFollows, fields, clocks
<1>1. CASE UNCHANGED vars
  BY <1>1 DEF vars
<1>2. ASSUME NEW b \in Bot, Boot(b) PROVE leaderState'[c] # "leader"
  BY <1>2 DEF Boot
<1>3. ASSUME NEW b \in Bot, ElectionTimeout(b) PROVE leaderState'[c] # "leader"
  BY <1>3 DEF ElectionTimeout
<1>4. ASSUME NEW b \in Bot, NEW g \in Thread, RunStep(b, g)
      PROVE  leaderState'[c] # "leader"
  BY <1>4 DEF RunStep, Start, Stand, Announce, Wake, Lead, PublishVictory,
              StartHeartbeat, Yield, Yielded, End, At, Alive
<1>5. ASSUME NEW b \in Bot, HeartbeatTick(b) \/ PublishHeartbeat(b)
      PROVE  leaderState'[c] # "leader"
  BY <1>5 DEF HeartbeatTick, PublishHeartbeat
<1>6. ASSUME NEW b \in Bot, CallbackStep(b) PROVE leaderState'[c] # "leader"
  BY <1>6 DEF CallbackStep, HandleHeartbeat, HandleElection, Contest, HandleAnswer,
              HandleVictory, Follow, Followed, HandleKill, Disconnect
<1>7. ASSUME NEW b \in Bot, Crash(b) \/ Kill(b) \/ Reconnect(b)
      PROVE  leaderState'[c] # "leader"
  BY <1>7 DEF Crash, Kill, Reconnect
<1> QED
  BY <1>1, <1>2, <1>3, <1>4, <1>5, <1>6, <1>7 DEF Next, BotStep

\* Every step keeps the leaders aware of each other.
LEMMA NextAware == Inv /\ [Next]_vars => NoSilentSplitBrain'
<1> SUFFICES ASSUME Inv, [Next]_vars PROVE NoSilentSplitBrain'
  OBVIOUS
<1> USE DEF fields, clocks
<1>i. /\ TypeOK /\ BootFollows /\ NoSilentSplitBrain
      /\ inbox \in [Bot -> Seq(Message)]
      /\ handler \in [Bot -> CallbackState]
      /\ run \in [Bot -> [Thread -> ThreadState]]
  BY DEF Inv, TypeOK, CallbackState, ThreadState
<1>1. CASE UNCHANGED vars
  BY <1>1, <1>i, Kept, Frame DEF vars, InOffice
<1>2. ASSUME NEW b \in Bot, Boot(b) PROVE NoSilentSplitBrain'
  <2>1. InOffice' = InOffice
    BY <1>2, <1>i DEF Boot, InOffice, BootFollows, TypeOK
  <2> QED
    BY <1>2, <1>i, <2>1, Kept, Frame DEF Boot, InOffice
<1>3. ASSUME NEW b \in Bot, ElectionTimeout(b) PROVE NoSilentSplitBrain'
  <2>1. \A c \in Bot, h \in Thread : run[c][h].at = "victory" => run'[c][h].at = "victory"
    BY <1>3, <1>i, GoKeeps DEF ElectionTimeout, At, Go, Thread
  <2> QED
    BY <1>3, <1>i, <2>1, Kept, Frame DEF ElectionTimeout, InOffice
<1>4. ASSUME NEW b \in Bot, NEW g \in Thread, RunStep(b, g)
      PROVE  NoSilentSplitBrain'
  BY <1>4, <1>i, RunStepAware
<1>5. ASSUME NEW b \in Bot, HeartbeatTick(b) PROVE NoSilentSplitBrain'
  BY <1>5, <1>i, Kept, Frame DEF HeartbeatTick, InOffice
<1>6. ASSUME NEW b \in Bot, PublishHeartbeat(b) PROVE NoSilentSplitBrain'
  <2>1. \A c, d \in Bot : VictoryIn(inbox[d], c) => VictoryIn(inbox'[d], c)
    BY <1>6, <1>i, PublishKeeps, MessageType DEF PublishHeartbeat, TypeOK
  <2> QED
    BY <1>6, <1>i, <2>1, Kept, Frame DEF PublishHeartbeat, InOffice
<1>7. ASSUME NEW b \in Bot, CallbackStep(b) PROVE NoSilentSplitBrain'
  BY <1>7, <1>i, CallbackStepAware
<1>8. ASSUME NEW b \in Bot, Crash(b) \/ Reconnect(b) PROVE NoSilentSplitBrain'
  <2>1. InOffice' \subseteq InOffice \ {b}
    BY <1>8, <1>i DEF Crash, Reconnect, InOffice, TypeOK
  <2>2. ASSUME NEW c \in Bot \ {b}
        PROVE  handler'[c] = handler[c] /\ inbox'[c] = inbox[c] /\ run'[c] = run[c]
    BY <1>8, <1>i DEF Crash, Reconnect
  <2>3. ASSUME NEW c \in InOffice', NEW d \in InOffice' PROVE StillPending(c, d)
    <3>1. c \in Bot \ {b} /\ d \in Bot \ {b}
      BY <2>1 DEF InOffice
    <3> QED
      BY <2>2, <3>1, Kept
  <2> QED
    BY <1>i, <2>1, <2>3, Frame
<1>9. ASSUME NEW b \in Bot, Kill(b) PROVE NoSilentSplitBrain'
  <2>1. \A c, d \in Bot : VictoryIn(inbox[d], c) => VictoryIn(inbox'[d], c)
    BY <1>9, <1>i, RoutedKeeps, MessageType DEF Kill
  <2> QED
    BY <1>9, <1>i, <2>1, Kept, Frame DEF Kill, InOffice
<1> QED
  BY <1>1, <1>2, <1>3, <1>4, <1>5, <1>6, <1>7, <1>8, <1>9 DEF Next, BotStep

\* Nobody leads to begin with.
LEMMA InitAware == Init => NoSilentSplitBrain /\ BootFollows
BY DEF Init, NoSilentSplitBrain, BootFollows, InOffice

\* For any set of bots and any number of elections, crashes, kills and lost
\* connections: whenever two subscribed bots both act as leader, one of them is
\* about to learn of the other.
THEOREM SplitBrainIsNeverSilent == Spec => []NoSilentSplitBrain
<1>1. Init => Inv
  BY InitType, InitAware DEF Inv
<1>2. Inv /\ [Next]_vars => Inv'
  BY NextType, NextBoot, NextAware DEF Inv
<1>3. Inv => NoSilentSplitBrain
  BY DEF Inv
<1> QED
  BY <1>1, <1>2, <1>3, PTL DEF Spec

-----------------------------------------------------------------------------
(***************************************************************************)
(* Leadership and LeaderID.                                                *)
(***************************************************************************)
\* Every step keeps a leader's LeaderID its own.
LEMMA NextKnowsItself == TypeOK /\ LeaderKnowsItself /\ [Next]_vars => LeaderKnowsItself'
<1> SUFFICES ASSUME TypeOK, LeaderKnowsItself, [Next]_vars,
                    NEW c \in Bot, leaderState'[c] = "leader"
             PROVE  leaderID'[c] = c
  BY DEF LeaderKnowsItself
<1> USE DEF TypeOK, LeaderKnowsItself, fields, clocks
<1>1. CASE UNCHANGED vars
  BY <1>1 DEF vars
<1>2. ASSUME NEW b \in Bot, \/ Boot(b) \/ ElectionTimeout(b) \/ HeartbeatTick(b)
                            \/ PublishHeartbeat(b) \/ Crash(b) \/ Kill(b) \/ Reconnect(b)
      PROVE  leaderID'[c] = c
  BY <1>2 DEF Boot, ElectionTimeout, HeartbeatTick, PublishHeartbeat, Crash, Kill,
              Reconnect
<1>3. ASSUME NEW b \in Bot, NEW g \in Thread, RunStep(b, g) PROVE leaderID'[c] = c
  <2>1. CASE Start(b, g)
    BY <2>1 DEF Start
  <2>2. CASE Yield(b, g)
    BY <2>2 DEF Yield
  <2>3. CASE ~Start(b, g) /\ ~Yield(b, g)
    BY <1>3, <2>3 DEF RunStep, Stand, Announce, Wake, Lead, PublishVictory,
                      StartHeartbeat, Yielded, End
  <2> QED
    BY <2>1, <2>2, <2>3
<1>4. ASSUME NEW b \in Bot, CallbackStep(b) PROVE leaderID'[c] = c
  <2>1. CASE HandleHeartbeat(b)
    BY <2>1 DEF HandleHeartbeat
  <2>2. CASE ~HandleHeartbeat(b)
    BY <1>4, <2>2 DEF CallbackStep, HandleElection, Contest, HandleAnswer,
                      HandleVictory, Follow, Followed, HandleKill, Disconnect
  <2> QED
    BY <2>1, <2>2
<1> QED
  BY <1>1, <1>2, <1>3, <1>4 DEF Next, BotStep

\* A leader's LeaderID is its own in every reachable state, whatever the order
\* in which heartbeats, echoes and announcements reach it.
THEOREM LeadersKnowThemselves == Spec => []LeaderKnowsItself
<1>1. Init => LeaderKnowsItself
  BY DEF Init, LeaderKnowsItself
<1> QED
  BY <1>1, Typing, NextKnowsItself, PTL DEF Spec

-----------------------------------------------------------------------------
(***************************************************************************)
(* ElectionInProgress and the goroutines.                                  *)
(***************************************************************************)
\* Goroutine g of bot b is past the check of ElectionInProgress.
Running(b, g) == run[b][g].at \notin {"idle", "start"}

\* Only the goroutine that moves can stop running.
LEMMA OthersRun ==
  ASSUME TypeOK, NEW b \in Bot, NEW g \in Thread, NEW r,
         run' = [run EXCEPT ![b][g] = r]
  PROVE  /\ run'[b][g] = r
         /\ \A c \in Bot, h \in Thread : (c # b \/ h # g) => run'[c][h] = run[c][h]
<1>1. run \in [Bot -> [Thread -> ThreadState]]
  BY DEF TypeOK, ThreadState
<1> QED
  BY <1>1

\* Every step leaves a raised flag with a goroutine that will lower it.
LEMMA NextOrphan == TypeOK /\ NoOrphanedElection /\ [Next]_vars => NoOrphanedElection'
<1> SUFFICES ASSUME TypeOK, NoOrphanedElection, [Next]_vars,
                    NEW c \in Bot, inProgress'[c]
             PROVE  \E h \in Thread : Running(c, h)'
  BY DEF NoOrphanedElection, Running
<1> USE DEF fields, clocks
<1>h. inProgress[c] => \E h \in Thread : Running(c, h)
  BY DEF NoOrphanedElection, Running
<1>1. CASE UNCHANGED vars
  BY <1>1, <1>h DEF vars, Running
<1>2. ASSUME NEW b \in Bot, \/ Boot(b) \/ HeartbeatTick(b) \/ PublishHeartbeat(b)
                            \/ Kill(b) \/ Reconnect(b)
      PROVE  \E h \in Thread : Running(c, h)'
  BY <1>2, <1>h DEF Boot, HeartbeatTick, PublishHeartbeat, Kill, Reconnect, Running
<1>3. ASSUME NEW b \in Bot, ElectionTimeout(b) PROVE \E h \in Thread : Running(c, h)'
  BY <1>3, <1>h, OthersRun DEF ElectionTimeout, At, Go, Thread, Running
<1>4. ASSUME NEW b \in Bot, Crash(b) PROVE \E h \in Thread : Running(c, h)'
  BY <1>4, <1>h DEF Crash, Running, TypeOK
<1>5. ASSUME NEW b \in Bot, NEW g \in Thread, RunStep(b, g)
      PROVE  \E h \in Thread : Running(c, h)'
  <2>1. CASE Start(b, g)
    <3>1. CASE inProgress[b]
      BY <1>h, <2>1, <3>1, OthersRun DEF Start, At, Running
    <3>2. CASE ~inProgress[b]
      <4>1. inProgress' = [inProgress EXCEPT ![b] = TRUE]
        BY <2>1, <3>2 DEF Start
      <4>2. Running(b, g)'
        BY <2>1, <3>2, OthersRun DEF Start, Running
      <4>3. CASE c = b
        BY <4>2, <4>3
      <4>4. CASE c # b
        <5>1. inProgress[c]
          BY <4>1, <4>4 DEF TypeOK
        <5>2. \A h \in Thread : run'[c][h] = run[c][h]
          BY <2>1, <3>2, <4>4, OthersRun DEF Start
        <5> QED
          BY <1>h, <5>1, <5>2 DEF Running
      <4> QED
        BY <4>3, <4>4
    <3> QED
      BY <3>1, <3>2
  <2>2. CASE Wake(b, g)
    BY <1>h, <2>2, OthersRun DEF Wake, At, Running
  <2>3. CASE End(b, g)
    <3>1. inProgress' = [inProgress EXCEPT ![b] = FALSE]
      BY <2>3 DEF End
    <3>2. c # b /\ inProgress[c]
      BY <3>1 DEF TypeOK
    <3> QED
      BY <1>h, <2>3, <3>2, OthersRun DEF End, Running
  <2>4. ASSUME NEW stage, stage \notin {"idle", "start"}, NEW seen, NEW t,
               run' = [run EXCEPT ![b][g] = [at |-> stage, seen |-> seen, term |-> t]],
               inProgress' = inProgress
        PROVE  \E h \in Thread : Running(c, h)'
    <3>1. CASE c = b
      <4>1. run \in [Bot -> [Thread -> ThreadState]]
        BY DEF TypeOK, ThreadState
      <4>2. run'[b][g].at = stage
        BY <2>4, <4>1
      <4> QED
        BY <2>4, <3>1, <4>2 DEF Running
    <3>2. CASE c # b
      BY <1>h, <2>4, <3>2, OthersRun DEF Running
    <3> QED
      BY <3>1, <3>2
  <2>5. ASSUME NEW stage, stage \notin {"idle", "start"}, Go(b, g, stage),
               inProgress' = inProgress
        PROVE  \E h \in Thread : Running(c, h)'
    BY <2>4, <2>5 DEF Go
  <2>6. CASE Stand(b, g)
    BY <2>5, <2>6 DEF Stand
  <2>7. CASE Announce(b, g)
    BY <2>5, <2>7 DEF Announce
  <2>8. CASE Lead(b, g)
    BY <2>4, <2>8 DEF Lead
  <2>9. CASE PublishVictory(b, g) \/ StartHeartbeat(b, g)
    BY <2>5, <2>9 DEF PublishVictory, StartHeartbeat
  <2>10. CASE Yield(b, g)
    BY <2>5, <2>10 DEF Yield
  <2>11. CASE Yielded(b, g)
    BY <2>5, <2>11 DEF Yielded
  <2> QED
    BY <1>5, <2>1, <2>2, <2>3, <2>6, <2>7, <2>8, <2>9, <2>10, <2>11 DEF RunStep
<1>6. ASSUME NEW b \in Bot, CallbackStep(b) PROVE \E h \in Thread : Running(c, h)'
  <2>1. inProgress[c]
    BY <1>6 DEF CallbackStep, HandleHeartbeat, HandleElection, Contest, HandleAnswer,
                HandleVictory, Follow, Followed, HandleKill, Disconnect, TypeOK
  <2>2. CASE Contest(b)
    <3>1. CASE run' = run
      BY <1>h, <2>1, <3>1 DEF Running
    <3>2. ASSUME NEW g \in Spawn, run[b][g] = Off, Go(b, g, "start")
          PROVE  \E h \in Thread : Running(c, h)'
      <4>1. ~Running(b, g)
        BY <3>2 DEF Running, Off
      <4> QED
        BY <1>h, <2>1, <3>2, <4>1, OthersRun DEF Go, Thread, Running
    <3> QED
      BY <2>2, <3>1, <3>2 DEF Contest
  <2>3. CASE ~Contest(b)
    <3>1. run' = run
      BY <1>6, <2>3 DEF CallbackStep, HandleHeartbeat, HandleElection, HandleAnswer,
                        HandleVictory, Follow, Followed, HandleKill, Disconnect
    <3> QED
      BY <1>h, <2>1, <3>1 DEF Running
  <2> QED
    BY <2>2, <2>3
<1> QED
  BY <1>1, <1>2, <1>3, <1>4, <1>5, <1>6 DEF Next, BotStep

\* ElectionInProgress is never raised without a goroutine that will lower it,
\* so that no order of cancellations and failures bars a bot from standing.
THEOREM ElectionsAreNeverOrphaned == Spec => []NoOrphanedElection
<1>1. Init => NoOrphanedElection
  BY DEF Init, NoOrphanedElection
<1> QED
  BY <1>1, Typing, NextOrphan, PTL DEF Spec

-----------------------------------------------------------------------------
(***************************************************************************)
(* What is on its way.  A message in c's queue comes from a bot that has   *)
(* joined; an ELECTION comes from a lower bot, an ANSWER from a higher     *)
(* one, and no message carries a term its sender has not reached.  Answers *)
(* are counted from such messages only, and terms never fall.              *)
(***************************************************************************)
Joined(b) == link[b] # "boot"

Sound(c, m) == /\ Joined(m.from)
               /\ m.term <= term[m.from]
               /\ m.type = "election" => m.from < c
               /\ m.type = "answer" => m.from > c

AllSound(queues) == \A c \in Bot : \A i \in DOMAIN queues[c] : Sound(c, queues[c][i])

Outranked(b) == \E c \in Bot : c > b /\ Joined(c)

\* A bot is outvoted only if a higher bot has joined.
VotesSound ==
  \A b \in Bot : votes[b] > 0 \/ (\E g \in Thread : run[b][g].at = "yield") => Outranked(b)

TermsHeld == \A b \in Bot : /\ hbOut[b] <= term[b]
                            /\ \A g \in Thread : run[b][g].term <= term[b]

Sounding == TypeOK /\ AllSound(inbox) /\ VotesSound /\ TermsHeld

\* No term falls and no bot takes its leave from the system.
Rises == \A b \in Bot : term'[b] >= term[b] /\ (Joined(b) => Joined(b)')

LEMMA NextRises == TypeOK /\ [Next]_vars => Rises
<1> SUFFICES ASSUME TypeOK, [Next]_vars, NEW c \in Bot
             PROVE  term'[c] >= term[c] /\ (Joined(c) => Joined(c)')
  BY DEF Rises
<1> USE DEF TypeOK, fields, clocks, Joined
<1>1. CASE UNCHANGED vars
  BY <1>1 DEF vars
<1>2. ASSUME NEW b \in Bot, \/ Boot(b) \/ ElectionTimeout(b) \/ HeartbeatTick(b)
                            \/ PublishHeartbeat(b) \/ Crash(b) \/ Kill(b) \/ Reconnect(b)
      PROVE  term'[c] >= term[c] /\ (Joined(c) => Joined(c)')
  BY <1>2 DEF Boot, ElectionTimeout, HeartbeatTick, PublishHeartbeat, Crash, Kill,
              Reconnect
<1>3. ASSUME NEW b \in Bot, NEW g \in Thread, RunStep(b, g)
      PROVE  term'[c] >= term[c] /\ (Joined(c) => Joined(c)')
  <2>1. CASE Start(b, g)
    <3>1. link' = link /\ (term' = term \/ term' = [term EXCEPT ![b] = @ + 1])
      BY <2>1 DEF Start
    <3>2. CASE term' = term
      BY <3>1, <3>2
    <3>3. CASE term' = [term EXCEPT ![b] = @ + 1]
      BY <3>1, <3>3
    <3> QED
      BY <3>1, <3>2, <3>3
  <2>2. CASE Yield(b, g)
    BY <2>2 DEF Yield, Larger
  <2>3. CASE ~Start(b, g) /\ ~Yield(b, g)
    BY <1>3, <2>3 DEF RunStep, Stand, Announce, Wake, Lead, PublishVictory,
                      StartHeartbeat, Yielded, End
  <2> QED
    BY <2>1, <2>2, <2>3
<1>4. ASSUME NEW b \in Bot, CallbackStep(b)
      PROVE  term'[c] >= term[c] /\ (Joined(c) => Joined(c)')
  <2>1. CASE HandleHeartbeat(b)
    <3>1. Head(inbox[b]).term \in Nat
      BY <2>1, ReceivesType DEF HandleHeartbeat, Message
    <3>2. link' = link
      BY <2>1 DEF HandleHeartbeat
    <3>3. CASE Head(inbox[b]).term < term[b]
      BY <2>1, <3>2, <3>3 DEF HandleHeartbeat
    <3>4. CASE ~(Head(inbox[b]).term < term[b])
      <4>1. term' = [term EXCEPT ![b] = Head(inbox[b]).term]
        BY <2>1, <3>4 DEF HandleHeartbeat
      <4> QED
        BY <3>1, <3>2, <3>4, <4>1
    <3> QED
      BY <3>3, <3>4
  <2>2. CASE Follow(b)
    BY <2>2 DEF Follow, Larger
  <2>3. CASE ~HandleHeartbeat(b) /\ ~Follow(b)
    BY <1>4, <2>3 DEF CallbackStep, HandleElection, Contest, HandleAnswer,
                      HandleVictory, Followed, HandleKill, Disconnect
  <2> QED
    BY <2>1, <2>2, <2>3
<1> QED
  BY <1>1, <1>2, <1>3, <1>4 DEF Next, BotStep

\* What is sound stays so.
LEMMA SoundStays ==
  ASSUME TypeOK, TypeOK', Rises, AllSound(inbox'), inbox' \in [Bot -> Seq(Message)]
  PROVE  AllSound(inbox)'
<1> SUFFICES ASSUME NEW c \in Bot, NEW i \in DOMAIN inbox'[c],
                    NEW m \in Message, m = inbox'[c][i]
             PROVE  Sound(c, m)'
  BY DEF AllSound
<1>1. Sound(c, m)
  BY DEF AllSound
<1>2. m.from \in Bot /\ m.term \in Nat
  BY DEF Message
<1>3. /\ term[m.from] \in Nat /\ term'[m.from] \in Nat /\ term'[m.from] >= term[m.from]
      /\ Joined(m.from) => Joined(m.from)'
  BY <1>2 DEF TypeOK, Rises
<1>4. Joined(m.from)' /\ m.term <= term'[m.from]
  BY <1>1, <1>2, <1>3 DEF Sound
<1> QED
  BY <1>1, <1>4 DEF Sound

\* Routing a message that suits those who heed it.
LEMMA RoutedSound ==
  ASSUME NEW queues \in [Bot -> Seq(Message)], NEW m \in Message, AllSound(queues),
         \A c \in Bot : Heeds(c, m) => Sound(c, m)
  PROVE  AllSound(Routed(queues, m))
<1> SUFFICES ASSUME NEW c \in Bot, NEW i \in DOMAIN Routed(queues, m)[c]
             PROVE  Sound(c, Routed(queues, m)[c][i])
  BY DEF AllSound
<1>1. \A j \in DOMAIN queues[c] : Sound(c, queues[c][j])
  BY DEF AllSound
<1>2. CASE link[c] = "up" /\ Heeds(c, m)
  <2>1. Routed(queues, m)[c] = Append(queues[c], m) /\ Sound(c, m)
    BY <1>2 DEF Routed
  <2>2. queues[c] \in Seq(Message)
    OBVIOUS
  <2>3. \/ i \in DOMAIN queues[c] /\ Append(queues[c], m)[i] = queues[c][i]
        \/ Append(queues[c], m)[i] = m
    BY <2>1, <2>2
  <2> QED
    BY <1>1, <2>1, <2>3
<1>3. CASE ~(link[c] = "up" /\ Heeds(c, m))
  BY <1>1, <1>3 DEF Routed
<1> QED
  BY <1>2, <1>3

LEMMA TailSound ==
  ASSUME NEW queues \in [Bot -> Seq(Message)], AllSound(queues), NEW b \in Bot,
         queues[b] # <<>>
  PROVE  AllSound([queues EXCEPT ![b] = Tail(@)])
<1> DEFINE rest == [queues EXCEPT ![b] = Tail(@)]
<1> SUFFICES ASSUME NEW c \in Bot, NEW i \in DOMAIN rest[c] PROVE Sound(c, rest[c][i])
  BY DEF AllSound
<1>1. \A j \in DOMAIN queues[c] : Sound(c, queues[c][j])
  BY DEF AllSound
<1>2. CASE c = b
  <2>1. rest[c] = Tail(queues[c]) /\ queues[c] \in Seq(Message) /\ queues[c] # <<>>
    BY <1>2
  <2>2. i + 1 \in DOMAIN queues[c] /\ rest[c][i] = queues[c][i + 1]
    BY <2>1
  <2> QED
    BY <1>1, <2>2
<1>3. CASE c # b
  BY <1>1, <1>3
<1> QED
  BY <1>2, <1>3

\* What a bot that is connected publishes suits those who heed it, if it carries
\* no term the bot has not reached.
LEMMA PublishSound ==
  ASSUME inbox \in [Bot -> Seq(Message)], AllSound(inbox), NEW b \in Bot, Alive(b),
         NEW t \in Nat, t <= term[b],
         NEW type \in {"heartbeat", "election", "victory"},
         Publish(b, [type |-> type, from |-> b, to |-> 0, term |-> t])
  PROVE  AllSound(inbox')
<1> DEFINE m == [type |-> type, from |-> b, to |-> 0, term |-> t]
<1>1. m \in Message
  BY MessageType
<1>2. Joined(b)
  BY DEF Alive, Joined
<1>3. \A c \in Bot : Heeds(c, m) => Sound(c, m)
  BY <1>2 DEF Heeds, Sound
<1>4. AllSound(Routed(inbox, m))
  BY <1>1, <1>3, RoutedSound
<1> QED
  BY <1>4 DEF Publish

\* A step of startElection puts nothing unsound on its way.
LEMMA RunStepSound ==
  ASSUME Sounding, NEW b \in Bot, NEW g \in Thread, RunStep(b, g)
  PROVE  AllSound(inbox')
<1>i. /\ TypeOK /\ AllSound(inbox) /\ inbox \in [Bot -> Seq(Message)]
      /\ run[b][g].term \in Nat /\ run[b][g].term <= term[b] /\ term[b] \in Nat
  BY DEF Sounding, TypeOK, TermsHeld
<1>1. CASE Announce(b, g)
  <2>1. Alive(b) /\ Publish(b, [type |-> "election", from |-> b, to |-> 0, term |-> 0])
    BY <1>1 DEF Announce, At
  <2>2. 0 \in Nat /\ 0 <= term[b]
    BY <1>i
  <2> QED
    BY <1>i, <2>1, <2>2, PublishSound
<1>2. CASE PublishVictory(b, g)
  <2>1. /\ Alive(b)
        /\ Publish(b, [type |-> "victory", from |-> b, to |-> 0, term |-> run[b][g].term])
    BY <1>2 DEF PublishVictory, At
  <2> QED
    BY <1>i, <2>1, PublishSound
<1>3. CASE ~Announce(b, g) /\ ~PublishVictory(b, g)
  <2>1. inbox' = inbox
    BY <1>3 DEF RunStep, Start, Stand, Wake, Lead, StartHeartbeat, Yield, Yielded, End
  <2> QED
    BY <1>i, <2>1
<1> QED
  BY <1>1, <1>2, <1>3

\* Nor does a callback: an ANSWER goes to the lower bot whose ELECTION it answers.
LEMMA CallbackStepSound ==
  ASSUME Sounding, NEW b \in Bot, CallbackStep(b)
  PROVE  AllSound(inbox')
<1>i. TypeOK /\ AllSound(inbox) /\ inbox \in [Bot -> Seq(Message)] /\ term \in [Bot -> Nat]
  BY DEF Sounding, TypeOK
<1>1. CASE HandleElection(b)
  <2> DEFINE rest == [inbox EXCEPT ![b] = Tail(@)]
             m == [type |-> "answer", from |-> b, to |-> Head(inbox[b]).from, term |-> 0]
  <2>1. Receives(b, "election") /\ inbox' = Routed(rest, m)
    BY <1>1 DEF HandleElection
  <2>2. /\ Head(inbox[b]) \in Message /\ inbox[b] \in Seq(Message) /\ inbox[b] # <<>>
        /\ rest \in [Bot -> Seq(Message)]
    BY <1>i, <2>1, ReceivesType
  <2>3. AllSound(rest)
    BY <1>i, <2>2, TailSound
  <2>4. Sound(b, Head(inbox[b])) /\ Head(inbox[b]).type = "election"
    <3>1. 1 \in DOMAIN inbox[b] /\ Head(inbox[b]) = inbox[b][1]
      BY <2>2
    <3> QED
      BY <1>i, <2>1, <3>1 DEF AllSound, Receives
  <2>5. Head(inbox[b]).from \in Bot /\ Head(inbox[b]).from < b
    BY <2>2, <2>4 DEF Sound, Message
  <2>6. m \in Message
    BY <2>5, MessageType
  <2>7. Joined(b)
    BY <2>1 DEF Receives, Connected, Joined
  <2>8. \A c \in Bot : Heeds(c, m) => c = Head(inbox[b]).from
    BY DEF Heeds
  <2>9. \A c \in Bot : Heeds(c, m) => Sound(c, m)
    <3>1. 0 <= term[b]
      BY <1>i
    <3> QED
      BY <2>5, <2>7, <2>8, <3>1, BotAssumption DEF Sound
  <2> HIDE DEF rest, m
  <2>10. AllSound(Routed(rest, m))
    BY <2>2, <2>3, <2>6, <2>9, RoutedSound DEF rest
  <2> QED
    BY <2>1, <2>10
<1>2. CASE HandleHeartbeat(b) \/ HandleAnswer(b) \/ HandleVictory(b) \/ HandleKill(b)
  <2>1. inbox' = [inbox EXCEPT ![b] = Tail(@)] /\ inbox[b] # <<>>
    BY <1>2 DEF HandleHeartbeat, HandleAnswer, HandleVictory, HandleKill, Receives, Pop
  <2> QED
    BY <1>i, <2>1, TailSound
<1>3. CASE Disconnect(b)
  <2>1. inbox' = [inbox EXCEPT ![b] = <<>>]
    BY <1>3 DEF Disconnect
  <2> QED
    BY <1>i, <2>1 DEF AllSound
<1>4. CASE Contest(b) \/ Follow(b) \/ Followed(b)
  <2>1. inbox' = inbox
    BY <1>4 DEF Contest, Follow, Followed
  <2> QED
    BY <1>i, <2>1
<1> QED
  BY <1>1, <1>2, <1>3, <1>4 DEF CallbackStep

LEMMA NextSound == Sounding /\ [Next]_vars => AllSound(inbox)'
<1> SUFFICES ASSUME Sounding, [Next]_vars PROVE AllSound(inbox)'
  OBVIOUS
<1>i. /\ TypeOK /\ AllSound(inbox) /\ inbox \in [Bot -> Seq(Message)]
      /\ term \in [Bot -> Nat] /\ hbOut \in [Bot -> Nat] /\ TypeOK'
  BY NextType DEF Sounding, TypeOK
<1>s. AllSound(inbox')
  <2>1. ASSUME NEW b \in Bot, Crash(b) PROVE AllSound(inbox')
    <3>1. inbox' = [inbox EXCEPT ![b] = <<>>]
      BY <2>1 DEF Crash
    <3> QED
      BY <1>i, <3>1 DEF AllSound
  <2>2. ASSUME NEW b \in Bot, Reconnect(b) PROVE AllSound(inbox')
    <3>1. PICK n \in 0..Len(inbox[b]) : inbox' = [inbox EXCEPT ![b] = SubSeq(@, 1, n)]
      BY <2>2 DEF Reconnect
    <3> SUFFICES ASSUME NEW c \in Bot, NEW i \in DOMAIN inbox'[c]
                 PROVE  Sound(c, inbox'[c][i])
      BY DEF AllSound
    <3>2. inbox[c] \in Seq(Message) /\ n \in Nat
      BY <1>i
    <3>3. CASE c = b
      <4>1. inbox'[c] = SubSeq(inbox[c], 1, n) /\ n \in 0..Len(inbox[c])
        BY <1>i, <3>1, <3>3
      <4>2. i \in DOMAIN inbox[c] /\ inbox'[c][i] = inbox[c][i]
        BY <3>2, <4>1
      <4> QED
        BY <1>i, <4>2 DEF AllSound
    <3>4. CASE c # b
      BY <1>i, <3>1, <3>4 DEF AllSound
    <3> QED
      BY <3>3, <3>4
  <2>3. ASSUME NEW b \in Bot, Kill(b) PROVE AllSound(inbox')
    <3> DEFINE m == [type |-> "kill", from |-> b, to |-> b, term |-> 0]
    <3>1. m \in Message
      BY MessageType
    <3>2. Joined(b) /\ 0 <= term[b]
      BY <1>i, <2>3 DEF Kill, Joined
    <3>3. \A c \in Bot : Sound(c, m)
      BY <3>2 DEF Sound
    <3> QED
      BY <1>i, <2>3, <3>1, <3>3, RoutedSound DEF Kill
  <2>4. ASSUME NEW b \in Bot, PublishHeartbeat(b) PROVE AllSound(inbox')
    <3>1. /\ Alive(b) /\ hbOut[b] \in Nat /\ hbOut[b] <= term[b]
          /\ Publish(b, [type |-> "heartbeat", from |-> b, to |-> 0, term |-> hbOut[b]])
      BY <1>i, <2>4 DEF PublishHeartbeat, Sounding, TermsHeld
    <3> QED
      BY <1>i, <3>1, PublishSound
  <2>5. ASSUME NEW b \in Bot, Boot(b) \/ ElectionTimeout(b) \/ HeartbeatTick(b)
        PROVE  AllSound(inbox')
    <3>1. inbox' = inbox
      BY <2>5 DEF Boot, ElectionTimeout, HeartbeatTick
    <3> QED
      BY <1>i, <3>1
  <2>6. CASE UNCHANGED vars
    BY <1>i, <2>6 DEF vars
  <2> QED
    BY <2>1, <2>2, <2>3, <2>4, <2>5, <2>6, RunStepSound, CallbackStepSound
       DEF Next, BotStep
<1> QED
  BY <1>i, <1>s, NextRises, SoundStays DEF TypeOK

\* Terms on their way within a bot are kept behind its term.
LEMMA NextHeld == Sounding /\ [Next]_vars => TermsHeld'
<1> SUFFICES ASSUME Sounding, [Next]_vars, NEW c \in Bot
             PROVE  /\ hbOut'[c] <= term'[c]
                    /\ \A h \in Thread : run'[c][h].term <= term'[c]
  BY DEF TermsHeld
<1>i. /\ TypeOK /\ TypeOK' /\ Rises
      /\ \A b \in Bot : hbOut[b] <= term[b] /\ \A h \in Thread : run[b][h].term <= term[b]
  BY NextType, NextRises DEF Sounding, TermsHeld
<1>n. /\ term[c] \in Nat /\ term'[c] \in Nat /\ hbOut[c] \in Nat /\ hbOut'[c] \in Nat
      /\ term'[c] >= term[c]
      /\ \A h \in Thread : run[c][h].term \in Nat /\ run'[c][h].term \in Nat
  BY <1>i DEF TypeOK, Rises
<1>h. hbOut'[c] \in {hbOut[c], 0, term[c]}
  <2> USE DEF fields, clocks
  <2>1. ASSUME NEW b \in Bot, \/ Boot(b) \/ ElectionTimeout(b) \/ Kill(b) \/ Reconnect(b)
        PROVE  hbOut' = hbOut
    BY <2>1 DEF Boot, ElectionTimeout, Kill, Reconnect
  <2>2. ASSUME NEW b \in Bot, NEW g \in Thread, RunStep(b, g) PROVE hbOut' = hbOut
    BY <2>2 DEF RunStep, Start, Stand, Announce, Wake, Lead, PublishVictory,
                StartHeartbeat, Yield, Yielded, End, Rearm
  <2>3. ASSUME NEW b \in Bot, CallbackStep(b) PROVE hbOut' = hbOut
    BY <2>3 DEF CallbackStep, HandleHeartbeat, HandleElection, Contest, HandleAnswer,
                HandleVictory, Follow, Followed, HandleKill, Disconnect, Rearm
  <2>4. ASSUME NEW b \in Bot, \/ HeartbeatTick(b) \/ PublishHeartbeat(b) \/ Crash(b)
        PROVE  hbOut'[c] \in {hbOut[c], 0, term[c]}
    <3>1. \/ hbOut' = hbOut
          \/ hbOut' = [hbOut EXCEPT ![b] = term[b]]
          \/ hbOut' = [hbOut EXCEPT ![b] = 0]
      BY <2>4 DEF HeartbeatTick, PublishHeartbeat, Crash
    <3> QED
      BY <1>i, <3>1 DEF TypeOK
  <2>5. CASE UNCHANGED vars
    BY <2>5 DEF vars
  <2> QED
    BY <2>1, <2>2, <2>3, <2>4, <2>5 DEF Next, BotStep
<1>r. ASSUME NEW h \in Thread PROVE run'[c][h].term \in {run[c][h].term, 0, term[c], term'[c]}
  <2>k. ASSUME NEW b \in Bot, NEW g \in Thread, NEW stage, Go(b, g, stage)
        PROVE  run'[c][h].term = run[c][h].term
    BY <1>i, <2>k, OthersRun DEF Go
  <2>1. ASSUME NEW b \in Bot, NEW g \in Thread, RunStep(b, g)
        PROVE  run'[c][h].term \in {run[c][h].term, 0, term[c], term'[c]}
    <3>1. CASE Start(b, g)
      <4>1. CASE inProgress[b]
        <5>1. run' = [run EXCEPT ![b][g] = Off]
          BY <3>1, <4>1 DEF Start
        <5> QED
          BY <1>i, <5>1, OthersRun DEF Off
      <4>2. CASE ~inProgress[b]
        <5>1. /\ term' = [term EXCEPT ![b] = @ + 1]
              /\ run' = [run EXCEPT ![b][g] = [at |-> "stand", seen |-> 0,
                                               term |-> term[b] + 1]]
          BY <3>1, <4>2 DEF Start
        <5>2. term'[b] = term[b] + 1
          BY <1>i, <5>1 DEF TypeOK
        <5> QED
          BY <1>i, <5>1, <5>2, OthersRun
      <4> QED
        BY <4>1, <4>2
    <3>2. CASE Wake(b, g)
      BY <1>i, <3>2, OthersRun DEF Wake, Off
    <3>3. CASE Lead(b, g)
      BY <1>i, <3>3, OthersRun DEF Lead
    <3>4. CASE End(b, g)
      BY <1>i, <3>4, OthersRun DEF End, Off
    <3>5. CASE ~Start(b, g) /\ ~Wake(b, g) /\ ~Lead(b, g) /\ ~End(b, g)
      BY <2>1, <2>k, <3>5 DEF RunStep, Stand, Announce, PublishVictory, StartHeartbeat,
                              Yield, Yielded
    <3> QED
      BY <3>1, <3>2, <3>3, <3>4, <3>5
  <2>2. ASSUME NEW b \in Bot, Contest(b) PROVE run'[c][h].term = run[c][h].term
    BY <2>2, <2>k DEF Contest, Thread
  <2>3. ASSUME NEW b \in Bot, ElectionTimeout(b) PROVE run'[c][h].term = run[c][h].term
    BY <2>3, <2>k DEF ElectionTimeout, Thread
  <2>4. ASSUME NEW b \in Bot, Crash(b) PROVE run'[c][h].term \in {run[c][h].term, 0}
    BY <1>i, <2>4 DEF Crash, Off, TypeOK
  <2>5. ASSUME NEW b \in Bot, \/ Boot(b) \/ HeartbeatTick(b) \/ PublishHeartbeat(b)
                              \/ Kill(b) \/ Reconnect(b)
                              \/ CallbackStep(b) /\ ~Contest(b)
        PROVE  run' = run
    BY <2>5 DEF Boot, HeartbeatTick, PublishHeartbeat, Kill, Reconnect, CallbackStep,
                HandleHeartbeat, HandleElection, HandleAnswer, HandleVictory, Follow,
                Followed, HandleKill, Disconnect, fields, clocks
  <2>6. CASE UNCHANGED vars
    BY <2>6 DEF vars
  <2> QED
    BY <2>1, <2>2, <2>3, <2>4, <2>5, <2>6 DEF Next, BotStep
<1> QED
  BY <1>i, <1>n, <1>h, <1>r

\* Every step outvotes a bot only by the ANSWER of a higher one.
LEMMA NextVotes == Sounding /\ [Next]_vars => VotesSound'
<1> SUFFICES ASSUME Sounding, [Next]_vars, NEW c \in Bot,
                    votes'[c] > 0 \/ \E h \in Thread : run'[c][h].at = "yield"
             PROVE  Outranked(c)'
  BY DEF VotesSound
<1>i. /\ TypeOK /\ TypeOK' /\ Rises /\ AllSound(inbox)
      /\ votes[c] \in Nat /\ votes'[c] \in Nat
  BY NextType, NextRises DEF Sounding, TypeOK
<1>o. Outranked(c) => Outranked(c)'
  BY <1>i DEF Outranked, Rises
<1>s. (votes[c] > 0 \/ \E h \in Thread : run[c][h].at = "yield") => Outranked(c)
  BY DEF Sounding, VotesSound
<1>1. CASE HandleAnswer(c)
  <2>1. /\ Head(inbox[c]) \in Message /\ inbox[c] \in Seq(Message) /\ inbox[c] # <<>>
        /\ Head(inbox[c]).type = "answer"
    BY <1>i, <1>1, ReceivesType DEF HandleAnswer, Receives, TypeOK
  <2>2. 1 \in DOMAIN inbox[c] /\ Head(inbox[c]) = inbox[c][1]
    BY <2>1
  <2>3. Sound(c, Head(inbox[c]))
    BY <1>i, <2>2 DEF AllSound
  <2>4. Head(inbox[c]).from \in Bot
    BY <2>1 DEF Message
  <2> QED
    BY <1>o, <2>1, <2>3, <2>4 DEF Sound, Outranked
<1>2. CASE ~HandleAnswer(c)
  <2>1. votes'[c] \in {votes[c], 0}
    <3> USE DEF fields, clocks
    <3>1. ASSUME NEW b \in Bot,
                 \/ Boot(b) \/ ElectionTimeout(b) \/ HeartbeatTick(b)
                 \/ PublishHeartbeat(b) \/ Crash(b) \/ Kill(b) \/ Reconnect(b)
          PROVE  votes' = votes
      BY <3>1 DEF Boot, ElectionTimeout, HeartbeatTick, PublishHeartbeat, Crash, Kill,
                  Reconnect
    <3>2. ASSUME NEW b \in Bot, NEW g \in Thread, RunStep(b, g)
          PROVE  votes' = votes \/ votes' = [votes EXCEPT ![b] = 0]
      BY <3>2 DEF RunStep, Start, Stand, Announce, Wake, Lead, PublishVictory,
                  StartHeartbeat, Yield, Yielded, End
    <3>3. ASSUME NEW b \in Bot, CallbackStep(b)
          PROVE  votes' = votes \/ (b # c /\ votes' = [votes EXCEPT ![b] = @ + 1])
      BY <1>2, <3>3 DEF CallbackStep, HandleHeartbeat, HandleElection, Contest,
                  HandleAnswer, HandleVictory, Follow, Followed, HandleKill, Disconnect
    <3>4. CASE UNCHANGED vars
      BY <3>4 DEF vars
    <3>5. votes \in [Bot -> Nat]
      BY <1>i DEF TypeOK
    <3> QED
      BY <3>1, <3>2, <3>3, <3>4, <3>5 DEF Next, BotStep
  <2>2. ASSUME NEW h \in Thread, run'[c][h].at = "yield"
        PROVE  run[c][h].at = "yield" \/ votes[c] > 0
    <3>k. ASSUME NEW b \in Bot, NEW g \in Thread, NEW r,
                 run' = [run EXCEPT ![b][g] = r], r.at # "yield"
          PROVE  run[c][h].at = "yield"
      BY <1>i, <2>2, <3>k, OthersRun
    <3>l. ASSUME NEW b \in Bot, NEW g \in Thread, NEW stage, stage # "yield",
                 Go(b, g, stage)
          PROVE  run[c][h].at = "yield"
      BY <1>i, <2>2, <3>l, OthersRun DEF Go
    <3>1. ASSUME NEW b \in Bot, NEW g \in Thread, RunStep(b, g)
          PROVE  run[c][h].at = "yield" \/ votes[c] > 0
      <4>1. CASE Wake(b, g)
        <5>1. CASE c = b /\ inProgress[b] /\ votes[b] # 0
          BY <1>i, <5>1
        <5>2. CASE inProgress[b] /\ votes[b] = 0
          <6>1. run' = [run EXCEPT ![b][g] = [at |-> "lead", seen |-> leaderID[b],
                                              term |-> run[b][g].term]]
            BY <4>1, <5>2 DEF Wake
          <6> QED
            BY <1>i, <2>2, <6>1, OthersRun
        <5>3. CASE ~inProgress[b]
          <6>1. run' = [run EXCEPT ![b][g] = Off]
            BY <4>1, <5>3 DEF Wake
          <6> QED
            BY <1>i, <2>2, <6>1, OthersRun DEF Off
        <5>4. CASE c # b
          BY <1>i, <2>2, <4>1, <5>4, OthersRun DEF Wake
        <5> QED
          BY <5>1, <5>2, <5>3, <5>4
      <4>2. CASE Start(b, g)
        BY <3>k, <4>2 DEF Start, Off
      <4>3. CASE Lead(b, g) \/ End(b, g)
        BY <3>k, <4>3 DEF Lead, End, Off
      <4>4. CASE ~Wake(b, g) /\ ~Start(b, g) /\ ~Lead(b, g) /\ ~End(b, g)
        BY <3>1, <3>l, <4>4 DEF RunStep, Stand, Announce, PublishVictory, StartHeartbeat,
                                Yield, Yielded
      <4> QED
        BY <4>1, <4>2, <4>3, <4>4
    <3>2. ASSUME NEW b \in Bot, Contest(b) PROVE run[c][h].at = "yield"
      BY <2>2, <3>2, <3>l DEF Contest, Thread
    <3>3. ASSUME NEW b \in Bot, ElectionTimeout(b) PROVE run[c][h].at = "yield"
      BY <3>3, <3>l DEF ElectionTimeout, Thread
    <3>4. ASSUME NEW b \in Bot, Crash(b) PROVE run[c][h].at = "yield"
      BY <1>i, <2>2, <3>4 DEF Crash, Off, TypeOK
    <3>5. ASSUME NEW b \in Bot, \/ Boot(b) \/ HeartbeatTick(b) \/ PublishHeartbeat(b)
                                \/ Kill(b) \/ Reconnect(b)
                                \/ CallbackStep(b) /\ ~Contest(b)
          PROVE  run' = run
      BY <3>5 DEF Boot, HeartbeatTick, PublishHeartbeat, Kill, Reconnect, CallbackStep,
                  HandleHeartbeat, HandleElection, HandleAnswer, HandleVictory, Follow,
                  Followed, HandleKill, Disconnect, fields, clocks
    <3>6. CASE UNCHANGED vars
      BY <2>2, <3>6 DEF vars
    <3> QED
      BY <2>2, <3>1, <3>2, <3>3, <3>4, <3>5, <3>6 DEF Next, BotStep
  <2>3. votes[c] > 0 \/ \E h \in Thread : run[c][h].at = "yield"
    BY <1>i, <2>1, <2>2
  <2> QED
    BY <1>o, <1>s, <2>3
<1> QED
  BY <1>1, <1>2

\* To begin with nothing is on its way.
LEMMA InitSounding == Init => Sounding
BY InitType DEF Init, Sounding, AllSound, VotesSound, TermsHeld, Off

LEMMA AlwaysSounding == Spec => []Sounding
<1>1. Sounding /\ [Next]_vars => Sounding'
  BY NextType, NextSound, NextVotes, NextHeld DEF Sounding
<1> QED
  BY <1>1, InitSounding, PTL DEF Spec

\* For any set of bots, with goroutines of several elections at work in each and
\* bots crashing, killed and cut off: whoever is outvoted, is outvoted by a higher
\* bot, and the highest one never is.
THEOREM ElectionsAreLostToHigherBots == Spec => []OnlyHigherBotsOutvote
<1>1. Sounding => OnlyHigherBotsOutvote
  BY DEF Sounding, VotesSound, OnlyHigherBotsOutvote, Outranked, Joined
<1> QED
  BY <1>1, AlwaysSounding, PTL

\* No bot publishes, and no queue holds, a term its sender is not up to.
THEOREM TermsComeFromElections == Spec => []TermsAreReached
<1>1. Sounding => TermsAreReached
  BY DEF Sounding, AllSound, Sound, TermsHeld, TermsAreReached
<1> QED
  BY <1>1, AlwaysSounding, PTL

=============================================================================
