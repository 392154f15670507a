------------------------------ MODULE Election ------------------------------
(***************************************************************************)
(* Leader election among the service bots (internal/serviceBots/          *)
(* election.go): a bully election over MQTT, with heartbeats.             *)
(*                                                                         *)
(* Every bot is one process with four kinds of threads that share its      *)
(* fields: the election loop, the goroutines handleElection spawns, the   *)
(* heartbeat goroutine and the MQTT callback thread.  One action is one    *)
(* critical section of bot.Mu, one publication, or one run of unlocked     *)
(* writes, so that the model has every interleaving the lock permits.      *)
(*                                                                         *)
(* The broker is one process that hands a publication to all subscribers   *)
(* at once and keeps each subscriber's order; callbacks of a client run    *)
(* one at a time, in that order.                                           *)
(***************************************************************************)
EXTENDS Integers, Sequences, FiniteSets

CONSTANTS
  Bot,        \* IDs of the service bots
  Spawn,      \* bound: goroutines "go startElection()" a bot has at a time
  MaxTerm,    \* bound: MaxTerm[b] is the term from which b starts no election
  MaxInbox,   \* bound: no heartbeat tick while a queue is this long
  Crashable,  \* bots whose process may die
  Killable,   \* bots that may be told to stop over bots/kill/<id>
  Droppable   \* bots that may lose their connection and reconnect

ASSUME BotAssumption == Bot \subseteq Nat \ {0}
ASSUME BoundAssumption == MaxTerm \in [Bot -> Nat] /\ MaxInbox \in Nat
ASSUME SpawnAssumption == "loop" \notin Spawn

VARIABLES
  link,         \* the process and its MQTT session
  leaderState,  \* bot.LeaderState
  leaderID,     \* bot.LeaderID, 0 when no leader is known
  term,         \* bot.Term
  inProgress,   \* bot.ElectionInProgress
  votes,        \* bot.VotesReceived
  timer,        \* bot.ElectionTimeout is armed (or has fired unread)
  heartbeat,    \* bot.HeartbeatTicker has a goroutine that reads it
  hbOut,        \* the term the heartbeat goroutine is about to publish, or 0
  inbox,        \* messages on their way to the bot, oldest first
  handler,      \* where the MQTT callback thread is
  run           \* where each goroutine running startElection is

fields == <<leaderState, leaderID, term, inProgress, votes>>
clocks == <<timer, heartbeat, hbOut>>
vars == <<link, fields, clocks, inbox, handler, run>>

-----------------------------------------------------------------------------
Thread == {"loop"} \cup Spawn

Message == [type : {"heartbeat", "election", "answer", "victory", "kill"},
            from : Bot, to : Bot \cup {0}, term : Nat]

\* Stages of startElection, the becomeLeader and becomeFollower it calls included.
Stage == {"idle", "start", "stand", "announce", "wait", "lead", "victory",
          "beat", "yield", "settle", "rearm", "end"}

\* Stages of a callback that gives up bot.Mu before it is done.
Callback == {"idle", "answered", "follow", "settle", "rearm", "disconnect"}

Busy(stage) == [at |-> stage, from |-> 0, term |-> 0, cancel |-> FALSE]
Idle == Busy("idle")
Off == [at |-> "idle", seen |-> 0, term |-> 0]

Larger(m, n) == IF m > n THEN m ELSE n

\* A killed bot has only closed its session: its goroutines go on.
Alive(b) == link[b] \in {"up", "deaf", "killed"}

\* "deaf" is a session that was re-established: nothing subscribes it again.
Connected(b) == link[b] \in {"up", "deaf"}

\* A variant of Heeds with a bug: bots also answer the ELECTION of a higher bot.
HeedsAnyElection(c, m) == /\ m.type \in {"election", "victory"} => m.from # c
                          /\ m.type = "answer" => m.to = c

\* What c's subscriptions and the stateless early returns of its handlers let
\* through: its own ELECTION and VICTORY and the ELECTION of a higher bot leave
\* no trace, while the echo of its own heartbeat does.
Heeds(c, m) == /\ m.type = "election" => m.from < c
               /\ m.type = "answer" => m.to = c
               /\ m.type = "victory" => m.from # c

\* The queues after the broker has routed m.
Routed(queues, m) ==
  [c \in Bot |-> IF link[c] = "up" /\ Heeds(c, m) THEN Append(queues[c], m)
                                                   ELSE queues[c]]

\* b publishes m: without a session the call fails and only logs.
Publish(b, m) == inbox' = IF Connected(b) THEN Routed(inbox, m) ELSE inbox

At(b, g, stage) == Alive(b) /\ run[b][g].at = stage
Go(b, g, stage) ==
  run' = [run EXCEPT ![b][g] =
            [at |-> stage, seen |-> run[b][g].seen, term |-> run[b][g].term]]

\* stopHeartbeat if the bot was the leader, then resetElectionTimeout.
Rearm(b, was) ==
  /\ heartbeat' = [heartbeat EXCEPT ![b] = @ /\ was # "settle"]
  /\ timer' = [timer EXCEPT ![b] = TRUE]
  /\ UNCHANGED hbOut

\* The callback thread of b takes up the oldest message.
Receives(b, type) ==
  /\ Connected(b)
  /\ handler[b].at = "idle"
  /\ inbox[b] # <<>>
  /\ Head(inbox[b]).type = type

Pop(b) == inbox' = [inbox EXCEPT ![b] = Tail(@)]

\* The callback goes on to becomeFollower(m.from, m.term).
Following(b, m, cancel) ==
  handler' = [handler EXCEPT ![b] = [at |-> "follow", from |-> m.from,
                                     term |-> m.term, cancel |-> cancel]]
-----------------------------------------------------------------------------
(***************************************************************************)
(* Variants of definitions below, each with a bug a change could bring in. *)
(* Nothing uses them: put in the place of the definition they vary, they   *)
(* show that a property notices.                                           *)
(***************************************************************************)
\* HandleVictory: only a newer term is accepted.
VictoryOfNewerTerm(b) ==
  /\ Receives(b, "victory")
  /\ Pop(b)
  /\ IF Head(inbox[b]).term > term[b]
       THEN Following(b, Head(inbox[b]), leaderState[b] = "candidate")
       ELSE UNCHANGED handler
  /\ UNCHANGED <<link, fields, clocks, run>>

\* Lead: LeaderID is left to the heartbeats.
LeadNamesNobody(b, g) ==
  /\ At(b, g, "lead")
  /\ leaderState' = [leaderState EXCEPT ![b] = "leader"]
  /\ run' = [run EXCEPT ![b][g] = [at |-> "victory", seen |-> 0, term |-> term[b]]]
  /\ UNCHANGED <<link, leaderID, term, inProgress, votes, clocks, inbox, handler>>

\* Announce: the error path returns without resetting ElectionInProgress.
AnnounceKeepsFlag(b, g) ==
  /\ At(b, g, "announce")
  /\ Publish(b, [type |-> "election", from |-> b, to |-> 0, term |-> 0])
  /\ IF Connected(b) THEN Go(b, g, "wait") ELSE run' = [run EXCEPT ![b][g] = Off]
  /\ UNCHANGED <<link, fields, clocks, handler>>

\* End: the reset is left to the elections that were won.
EndOfLeader(b, g) ==
  /\ At(b, g, "end")
  /\ inProgress' = [inProgress EXCEPT ![b] = @ /\ leaderState[b] # "leader"]
  /\ run' = [run EXCEPT ![b][g] = Off]
  /\ UNCHANGED <<link, leaderState, leaderID, term, votes, clocks, inbox, handler>>

\* HandleAnswer: counts the answers still missing instead of those received.
AnswerCountsDown(b) ==
  /\ Receives(b, "answer")
  /\ Pop(b)
  /\ IF inProgress[b] /\ leaderState[b] = "candidate"
       THEN /\ votes' = [votes EXCEPT ![b] = @ - 1]
            /\ inProgress' = [inProgress EXCEPT ![b] = FALSE]
       ELSE UNCHANGED <<votes, inProgress>>
  /\ UNCHANGED <<link, leaderState, leaderID, term, clocks, handler, run>>

\* Follow: only a newer term makes a bot give up its state.
FollowOfNewerTerm(b) ==
  /\ Alive(b)
  /\ handler[b].at = "follow"
  /\ handler' = [handler EXCEPT ![b].at = "rearm"]
  /\ IF handler[b].term > term[b]
       THEN /\ leaderState' = [leaderState EXCEPT ![b] = "follower"]
            /\ leaderID' = [leaderID EXCEPT ![b] = handler[b].from]
            /\ term' = [term EXCEPT ![b] = handler[b].term]
       ELSE UNCHANGED <<leaderState, leaderID, term>>
  /\ UNCHANGED <<link, inProgress, votes, clocks, inbox, run>>

\* Follow: the term is adopted even if it is older than the bot's own.
FollowOfAnyTerm(b) ==
  /\ Alive(b)
  /\ handler[b].at = "follow"
  /\ leaderState' = [leaderState EXCEPT ![b] = "follower"]
  /\ leaderID' = [leaderID EXCEPT ![b] = handler[b].from]
  /\ term' = [term EXCEPT ![b] = handler[b].term]
  /\ handler' = [handler EXCEPT ![b].at =
                   IF leaderState[b] = "leader" THEN "settle" ELSE "rearm"]
  /\ UNCHANGED <<link, inProgress, votes, clocks, inbox, run>>

\* HeartbeatTick: the goroutine of a deposed bot skips its ticks and goes on.
TickWithoutEnd(b) ==
  /\ Alive(b)
  /\ heartbeat[b] /\ hbOut[b] = 0
  /\ leaderState[b] = "leader"
  /\ \A c \in Bot : Len(inbox[c]) < MaxInbox
  /\ hbOut' = [hbOut EXCEPT ![b] = term[b]]
  /\ UNCHANGED <<link, fields, timer, heartbeat, inbox, handler, run>>

-----------------------------------------------------------------------------
Init ==
  /\ link = [b \in Bot |-> "boot"]
  /\ leaderState = [b \in Bot |-> "follower"]
  /\ leaderID = [b \in Bot |-> 0]
  /\ term = [b \in Bot |-> 0]
  /\ inProgress = [b \in Bot |-> FALSE]
  /\ votes = [b \in Bot |-> 0]
  /\ timer = [b \in Bot |-> FALSE]
  /\ heartbeat = [b \in Bot |-> FALSE]
  /\ hbOut = [b \in Bot |-> 0]
  /\ inbox = [b \in Bot |-> <<>>]
  /\ handler = [b \in Bot |-> Idle]
  /\ run = [b \in Bot |-> [g \in Thread |-> Off]]

\* StartElectionLoop up to its loop: becomeFollower(0, 0), the subscriptions.
Boot(b) ==
  /\ link[b] = "boot"
  /\ link' = [link EXCEPT ![b] = "up"]
  /\ timer' = [timer EXCEPT ![b] = TRUE]
  /\ UNCHANGED <<fields, heartbeat, hbOut, inbox, handler, run>>

\* The loop reads the election timer; it is busy until startElection returns.
ElectionTimeout(b) ==
  /\ At(b, "loop", "idle")
  /\ timer[b]
  /\ timer' = [timer EXCEPT ![b] = FALSE]
  /\ Go(b, "loop", "start")
  /\ UNCHANGED <<link, fields, heartbeat, hbOut, inbox, handler>>

-----------------------------------------------------------------------------
(***************************************************************************)
(* startElection, in goroutine g of bot b.                                 *)
(***************************************************************************)
Start(b, g) ==
  /\ At(b, g, "start")
  /\ IF inProgress[b]
       THEN /\ run' = [run EXCEPT ![b][g] = Off]
            /\ UNCHANGED fields
       ELSE /\ term[b] < MaxTerm[b]
            /\ inProgress' = [inProgress EXCEPT ![b] = TRUE]
            /\ term' = [term EXCEPT ![b] = @ + 1]
            /\ run' = [run EXCEPT ![b][g] = [at |-> "stand", seen |-> 0,
                                              term |-> term[b] + 1]]
            /\ UNCHANGED <<leaderState, leaderID, votes>>
  /\ UNCHANGED <<link, clocks, inbox, handler>>

\* Two writes outside the lock.
Stand(b, g) ==
  /\ At(b, g, "stand")
  /\ leaderState' = [leaderState EXCEPT ![b] = "candidate"]
  /\ votes' = [votes EXCEPT ![b] = 0]
  /\ Go(b, g, "announce")
  /\ UNCHANGED <<link, leaderID, term, inProgress, clocks, inbox, handler>>

\* No receiver reads the term an ELECTION or an ANSWER carries: it is left out.
Announce(b, g) ==
  /\ At(b, g, "announce")
  /\ Publish(b, [type |-> "election", from |-> b, to |-> 0, term |-> 0])
  /\ Go(b, g, IF Connected(b) THEN "wait" ELSE "end")
  /\ UNCHANGED <<link, fields, clocks, handler>>

\* After AnswerWaitTime: cancelled, won, or outvoted.  LeaderID is read outside
\* the lock afterwards, so "seen" is only one of the values it may have then.
Wake(b, g) ==
  /\ At(b, g, "wait")
  /\ run' = [run EXCEPT ![b][g] =
               IF inProgress[b]
                 THEN [at |-> IF votes[b] = 0 THEN "lead" ELSE "yield",
                       seen |-> leaderID[b], term |-> run[b][g].term]
                 ELSE Off]
  /\ UNCHANGED <<link, fields, clocks, inbox, handler>>

\* becomeLeader, critical section.
Lead(b, g) ==
  /\ At(b, g, "lead")
  /\ leaderState' = [leaderState EXCEPT ![b] = "leader"]
  /\ leaderID' = [leaderID EXCEPT ![b] = b]
  /\ run' = [run EXCEPT ![b][g] = [at |-> "victory", seen |-> 0, term |-> term[b]]]
  /\ UNCHANGED <<link, term, inProgress, votes, clocks, inbox, handler>>

PublishVictory(b, g) ==
  /\ At(b, g, "victory")
  /\ Publish(b, [type |-> "victory", from |-> b, to |-> 0, term |-> run[b][g].term])
  /\ Go(b, g, "beat")
  /\ UNCHANGED <<link, fields, clocks, handler>>

StartHeartbeat(b, g) ==
  /\ At(b, g, "beat")
  /\ heartbeat' = [heartbeat EXCEPT ![b] = TRUE]
  /\ Go(b, g, "end")
  /\ UNCHANGED <<link, fields, timer, hbOut, inbox, handler>>

\* becomeFollower(bot.LeaderID, currentTerm), critical section.
Yield(b, g) ==
  /\ At(b, g, "yield")
  /\ leaderState' = [leaderState EXCEPT ![b] = "follower"]
  /\ \E l \in {run[b][g].seen, leaderID[b]} : leaderID' = [leaderID EXCEPT ![b] = l]
  /\ term' = [term EXCEPT ![b] = Larger(@, run[b][g].term)]
  /\ Go(b, g, IF leaderState[b] = "leader" THEN "settle" ELSE "rearm")
  /\ UNCHANGED <<link, inProgress, votes, clocks, inbox, handler>>

Yielded(b, g) ==
  /\ Alive(b)
  /\ run[b][g].at \in {"settle", "rearm"}
  /\ Rearm(b, run[b][g].at)
  /\ Go(b, g, "end")
  /\ UNCHANGED <<link, fields, inbox, handler>>

\* The last critical section, also the one of a failed publication.
End(b, g) ==
  /\ At(b, g, "end")
  /\ inProgress' = [inProgress EXCEPT ![b] = FALSE]
  /\ run' = [run EXCEPT ![b][g] = Off]
  /\ UNCHANGED <<link, leaderState, leaderID, term, votes, clocks, inbox, handler>>

RunStep(b, g) == \/ Start(b, g) \/ Stand(b, g) \/ Announce(b, g) \/ Wake(b, g)
                 \/ Lead(b, g) \/ PublishVictory(b, g) \/ StartHeartbeat(b, g)
                 \/ Yield(b, g) \/ Yielded(b, g) \/ End(b, g)

-----------------------------------------------------------------------------
(***************************************************************************)
(* The heartbeat goroutine: it reads the state under the lock, and         *)
(* publishes after it has released it.                                     *)
(***************************************************************************)
HeartbeatTick(b) ==
  /\ Alive(b)
  /\ heartbeat[b] /\ hbOut[b] = 0
  /\ IF leaderState[b] = "leader"
       THEN /\ \A c \in Bot : Len(inbox[c]) < MaxInbox
            /\ hbOut' = [hbOut EXCEPT ![b] = term[b]]
            /\ UNCHANGED heartbeat
       ELSE heartbeat' = [heartbeat EXCEPT ![b] = FALSE] /\ UNCHANGED hbOut
  /\ UNCHANGED <<link, fields, timer, inbox, handler, run>>

PublishHeartbeat(b) ==
  /\ Alive(b)
  /\ hbOut[b] # 0
  /\ Publish(b, [type |-> "heartbeat", from |-> b, to |-> 0, term |-> hbOut[b]])
  /\ hbOut' = [hbOut EXCEPT ![b] = 0]
  /\ UNCHANGED <<link, fields, timer, heartbeat, handler, run>>

-----------------------------------------------------------------------------
(***************************************************************************)
(* The MQTT callback thread of bot b.                                      *)
(***************************************************************************)
HandleHeartbeat(b) ==
  /\ Receives(b, "heartbeat")
  /\ Pop(b)
  /\ LET hb == Head(inbox[b])
     IN  IF hb.term < term[b]
           THEN UNCHANGED <<fields, timer, handler>>
           ELSE /\ term' = [term EXCEPT ![b] = hb.term]
                /\ IF leaderState[b] # "leader"
                     THEN /\ leaderID' = [leaderID EXCEPT ![b] = hb.from]
                          /\ timer' = [timer EXCEPT ![b] = TRUE]
                          /\ UNCHANGED handler
                     ELSE /\ IF hb.from # b THEN Following(b, hb, FALSE)
                                            ELSE UNCHANGED handler
                          /\ UNCHANGED <<leaderID, timer>>
                /\ UNCHANGED <<leaderState, inProgress, votes>>
  /\ UNCHANGED <<link, heartbeat, hbOut, run>>

\* First half of handleElection: the ANSWER.
HandleElection(b) ==
  /\ Receives(b, "election")
  /\ inbox' = Routed([inbox EXCEPT ![b] = Tail(@)],
                     [type |-> "answer", from |-> b, to |-> Head(inbox[b]).from,
                      term |-> 0])
  /\ handler' = [handler EXCEPT ![b] = Busy("answered")]
  /\ UNCHANGED <<link, fields, clocks, run>>

\* Second half: an election of its own, in a goroutine that may start late.
Contest(b) ==
  /\ Alive(b)
  /\ handler[b].at = "answered"
  /\ IF ~inProgress[b] /\ leaderState[b] # "leader"
       THEN \E g \in Spawn : run[b][g] = Off /\ Go(b, g, "start")
       ELSE UNCHANGED run
  /\ handler' = [handler EXCEPT ![b] = Idle]
  /\ UNCHANGED <<link, fields, clocks, inbox>>

HandleAnswer(b) ==
  /\ Receives(b, "answer")
  /\ Pop(b)
  /\ IF inProgress[b] /\ leaderState[b] = "candidate"
       THEN /\ votes' = [votes EXCEPT ![b] = @ + 1]
            /\ inProgress' = [inProgress EXCEPT ![b] = FALSE]
       ELSE UNCHANGED <<votes, inProgress>>
  /\ UNCHANGED <<link, leaderState, leaderID, term, clocks, handler, run>>

HandleVictory(b) ==
  /\ Receives(b, "victory")
  /\ Pop(b)
  /\ Following(b, Head(inbox[b]), leaderState[b] = "candidate")
  /\ UNCHANGED <<link, fields, clocks, run>>

\* becomeFollower in a callback, critical section.
Follow(b) ==
  /\ Alive(b)
  /\ handler[b].at = "follow"
  /\ leaderState' = [leaderState EXCEPT ![b] = "follower"]
  /\ leaderID' = [leaderID EXCEPT ![b] = handler[b].from]
  /\ term' = [term EXCEPT ![b] = Larger(@, handler[b].term)]
  /\ handler' = [handler EXCEPT ![b] =
                   [at |-> IF leaderState[b] = "leader" THEN "settle" ELSE "rearm",
                    from |-> handler[b].from, term |-> handler[b].term,
                    cancel |-> handler[b].cancel]]
  /\ UNCHANGED <<link, inProgress, votes, clocks, inbox, run>>

\* The rest of the callback; handleVictory cancels the election it interrupted.
Followed(b) ==
  /\ Alive(b)
  /\ handler[b].at \in {"settle", "rearm"}
  /\ Rearm(b, handler[b].at)
  /\ inProgress' = [inProgress EXCEPT ![b] = @ /\ ~handler[b].cancel]
  /\ handler' = [handler EXCEPT ![b] = Idle]
  /\ UNCHANGED <<link, leaderState, leaderID, term, votes, inbox, run>>

\* handleKillCommand; what a leader does about another bot's kill concerns
\* its tasks only.
HandleKill(b) ==
  /\ Receives(b, "kill")
  /\ Pop(b)
  /\ IF Head(inbox[b]).to = b
       THEN /\ leaderState' = [leaderState EXCEPT ![b] = "follower"]
            /\ handler' = [handler EXCEPT ![b] = Busy("disconnect")]
       ELSE UNCHANGED <<leaderState, handler>>
  /\ UNCHANGED <<link, leaderID, term, inProgress, votes, clocks, run>>

Disconnect(b) ==
  /\ Alive(b)
  /\ handler[b].at = "disconnect"
  /\ link' = [link EXCEPT ![b] = "killed"]
  /\ heartbeat' = [heartbeat EXCEPT ![b] = FALSE]
  /\ inbox' = [inbox EXCEPT ![b] = <<>>]
  /\ handler' = [handler EXCEPT ![b] = Idle]
  /\ UNCHANGED <<fields, timer, hbOut, run>>

CallbackStep(b) == \/ HandleHeartbeat(b) \/ HandleElection(b) \/ Contest(b)
                   \/ HandleAnswer(b) \/ HandleVictory(b) \/ Follow(b)
                   \/ Followed(b) \/ HandleKill(b) \/ Disconnect(b)

-----------------------------------------------------------------------------
(***************************************************************************)
(* The environment.                                                        *)
(***************************************************************************)
\* The process dies, and its memory with it.
Crash(b) ==
  /\ b \in Crashable
  /\ Alive(b)
  /\ link' = [link EXCEPT ![b] = "crashed"]
  /\ leaderState' = [leaderState EXCEPT ![b] = "follower"]
  /\ inProgress' = [inProgress EXCEPT ![b] = FALSE]
  /\ timer' = [timer EXCEPT ![b] = FALSE]
  /\ heartbeat' = [heartbeat EXCEPT ![b] = FALSE]
  /\ hbOut' = [hbOut EXCEPT ![b] = 0]
  /\ inbox' = [inbox EXCEPT ![b] = <<>>]
  /\ handler' = [handler EXCEPT ![b] = Idle]
  /\ run' = [run EXCEPT ![b] = [g \in Thread |-> Off]]
  /\ UNCHANGED <<leaderID, term, votes>>

\* The world forwards a kill request; bound: one on its way to a bot at a time.
Kill(b) ==
  /\ b \in Killable
  /\ link[b] = "up"
  /\ \A i \in 1..Len(inbox[b]) : inbox[b][i].type # "kill" \/ inbox[b][i].to # b
  /\ handler[b].at # "disconnect"
  /\ inbox' = Routed(inbox, [type |-> "kill", from |-> b, to |-> b, term |-> 0])
  /\ UNCHANGED <<link, fields, clocks, handler, run>>

\* The connection drops and paho re-establishes it.  The session was a clean
\* one and OnConnect only logs, so no subscription survives; what the client
\* had already read is still handled.
Reconnect(b) ==
  /\ b \in Droppable
  /\ link[b] = "up"
  /\ link' = [link EXCEPT ![b] = "deaf"]
  /\ \E n \in 0..Len(inbox[b]) : inbox' = [inbox EXCEPT ![b] = SubSeq(@, 1, n)]
  /\ UNCHANGED <<fields, clocks, handler, run>>

BotStep(b) == \/ ElectionTimeout(b)
              \/ \E g \in Thread : RunStep(b, g)
              \/ HeartbeatTick(b) \/ PublishHeartbeat(b)
              \/ CallbackStep(b)

Next == \E b \in Bot : \/ Boot(b) \/ BotStep(b)
                       \/ Crash(b) \/ Kill(b) \/ Reconnect(b)

Spec == Init /\ [][Next]_vars

-----------------------------------------------------------------------------
(***************************************************************************)
(* Fairness: goroutines, callbacks and tickers that can go on do.  An      *)
(* election timer is reset by every heartbeat and every change of leader,  *)
(* so it must fire only while it stays armed and nobody leads.  A tick is  *)
(* never late for want of room in a queue: hence strong fairness, for      *)
(* MaxInbox is a bound of the model.                                       *)
(***************************************************************************)
Leaders == {b \in Bot : Connected(b) /\ leaderState[b] = "leader"}

Progress == \A b \in Bot : /\ WF_vars(Boot(b))
                           /\ \A g \in Thread : WF_vars(RunStep(b, g))
                           /\ SF_vars(HeartbeatTick(b))
                           /\ WF_vars(PublishHeartbeat(b))
                           /\ WF_vars(CallbackStep(b))

TimersFire == \A b \in Bot : WF_vars(Leaders = {} /\ ElectionTimeout(b))

FairSpec == Spec /\ Progress
TimedSpec == Spec /\ Progress /\ TimersFire

-----------------------------------------------------------------------------
(***************************************************************************)
(* Properties.                                                             *)
(***************************************************************************)
\* The fields of every bot, the queues and the threads keep their types.
TypeOK ==
  /\ link \in [Bot -> {"boot", "up", "deaf", "killed", "crashed"}]
  /\ leaderState \in [Bot -> {"follower", "candidate", "leader"}]
  /\ leaderID \in [Bot -> Bot \cup {0}]
  /\ term \in [Bot -> Nat]
  /\ inProgress \in [Bot -> BOOLEAN]
  /\ votes \in [Bot -> Nat]
  /\ timer \in [Bot -> BOOLEAN]
  /\ heartbeat \in [Bot -> BOOLEAN]
  /\ hbOut \in [Bot -> Nat]
  /\ inbox \in [Bot -> Seq(Message)]
  /\ handler \in [Bot -> [at : Callback, from : Bot \cup {0}, term : Nat,
                          cancel : BOOLEAN]]
  /\ run \in [Bot -> [Thread -> [at : Stage, seen : Bot \cup {0}, term : Nat]]]

\* b's VICTORY is in a queue.
VictoryIn(queue, b) ==
  \E i \in DOMAIN queue : queue[i].type = "victory" /\ queue[i].from = b

\* b's rise to leadership has yet to take effect on c: b has not published its
\* VICTORY, or c has not read it, or c is already stepping down.
PendingTo(b, c) == \/ \E g \in Thread : run[b][g].at = "victory"
                   \/ VictoryIn(inbox[c], b)
                   \/ handler[c].at = "follow"

InOffice == {b \in Bot : link[b] = "up" /\ leaderState[b] = "leader"}

\* The election can make two bots leader.  It never leaves two subscribed
\* leaders side by side with neither about to learn of the other: VICTORY is
\* accepted whatever its term, and is published in the same order as the
\* leadership is taken.
NoSilentSplitBrain ==
  \A b, c \in InOffice : b # c => PendingTo(b, c) \/ PendingTo(c, b)

\* A leader's LeaderID is its own, whatever heartbeats of rivals and echoes of
\* its own it handles in between: reportTaskCompletion reads the field.
LeaderKnowsItself ==
  \A b \in Bot : leaderState[b] = "leader" => leaderID[b] = b

\* ElectionInProgress never outlives the goroutines that would reset it: a bot
\* with an orphaned flag could never stand for election again.
NoOrphanedElection ==
  \A b \in Bot : inProgress[b]
    => \E g \in Thread : run[b][g].at \notin {"idle", "start"}

\* The bully rule: an election is lost to a higher bot that has joined and to
\* nobody else, whichever of the bot's elections the answers were meant for.  The
\* highest bot is never outvoted, however late an ANSWER reaches it.
OnlyHigherBotsOutvote ==
  \A b \in Bot : votes[b] > 0 \/ (\E g \in Thread : run[b][g].at = "yield")
                   => \E c \in Bot : c > b /\ link[c] # "boot"

\* Terms come from elections only: what a bot is about to publish, and what is on
\* its way from it, carries a term the bot has reached and has not fallen behind,
\* through all that its callbacks adopt from others in between.
TermsAreReached ==
  \A b \in Bot :
    /\ hbOut[b] <= term[b]
    /\ \A g \in Thread : run[b][g].term <= term[b]
    /\ \A c \in Bot : \A i \in DOMAIN inbox[c] :
         inbox[c][i].from = b => inbox[c][i].term <= term[b]

\* Every rivalry ends by a leader learning of it and resigning.
Rivalry == INSTANCE Leadership WITH
             office <- InOffice,
             owed <- {p \in InOffice \X InOffice :
                        p[1] # p[2] /\ PendingTo(p[1], p[2])}
RivalriesAreSettled == Rivalry!Spec

\* From a start where everyone times out at once or in any order, a leader
\* emerges as long as nothing fails.
FirstLeader == <>(Leaders # {})

\* Split brain does not last: over and over, at most one bot leads.
SplitBrainHeals == []<>(Cardinality(Leaders) <= 1)

\* A bot that no longer leads stops its heartbeats, also when it was deposed
\* between winning and starting the ticker.
DeposedFallSilent ==
  \A b \in Bot : leaderState[b] # "leader"
                   ~> (hbOut[b] = 0 /\ ~heartbeat[b]) \/ leaderState[b] = "leader"

-----------------------------------------------------------------------------
(***************************************************************************)
(* What the documents and comments say and the code does not do.           *)
(***************************************************************************)
\* The survivors have used up the bound on terms.
Exhausted == \A b \in Bot : link[b] = "up" => term[b] >= MaxTerm[b]

\* BULLY_ALGORITHM.md:123-124, a leader that fails is replaced: over and over
\* there is a leader, unless the bound is reached.
SurvivorsElect == []<>(Leaders # {} \/ Exhausted)
=============================================================================
