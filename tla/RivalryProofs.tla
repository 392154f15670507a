---------------------------- MODULE RivalryProofs ----------------------------
(***************************************************************************)
(* Election implements Leadership, for every set of bots and every fault:  *)
(* what a leader is owed disappears only with one of the two leaders.      *)
(*                                                                         *)
(* ElectionProofs shows that no news is lost.  Here no news may come from  *)
(* nowhere, either: a step of b that does not make it leader, and does not *)
(* make it learn of another, leaves all debts between other bots as they   *)
(* are.                                                                    *)
(***************************************************************************)
EXTENDS ElectionProofs

Owed == {p \in InOffice \X InOffice : p[1] # p[2] /\ PendingTo(p[1], p[2])}

RivalryStep == [Rivalry!Next]_<<InOffice, Owed>>

\* What b owes c is the same after a step.
Same(b, c) == PendingTo(b, c)' <=> PendingTo(b, c)

-----------------------------------------------------------------------------
(***************************************************************************)
(* The steps of Leadership.                                                *)
(***************************************************************************)
LEMMA OwedPairs == \A b, c : <<b, c>> \in Owed <=> /\ b \in InOffice /\ c \in InOffice
                                                   /\ b # c /\ PendingTo(b, c)
BY DEF Owed

LEMMA OwedPairsAfter == \A b, c : <<b, c>> \in Owed' <=> /\ b \in InOffice' /\ c \in InOffice'
                                                         /\ b # c /\ PendingTo(b, c)'
BY DEF Owed

LEMMA OwedArePairs == /\ \A p \in Owed : p = <<p[1], p[2]>>
                      /\ \A p \in Owed' : p = <<p[1], p[2]>>
BY DEF Owed

\* Nobody takes office, one bot may leave it, and debts of those who stay remain.
LEMMA Leaving ==
  ASSUME NEW x \in Bot, InOffice' = InOffice \/ InOffice' = InOffice \ {x},
         \A b, c \in InOffice' : b # c => Same(b, c)
  PROVE  RivalryStep
<1>1. CASE InOffice' = InOffice
  <2>1. Owed' = Owed
    BY <1>1, OwedPairs, OwedPairsAfter, OwedArePairs DEF Same
  <2> QED
    BY <1>1, <2>1 DEF RivalryStep
<1>2. CASE x \in InOffice /\ InOffice' = InOffice \ {x}
  <2>1. \A p \in Owed' : p \in Owed /\ p[1] # x /\ p[2] # x
    BY <1>2, OwedPairs, OwedPairsAfter, OwedArePairs DEF Same
  <2>2. \A p \in Owed : p[1] # x /\ p[2] # x => p \in Owed'
    BY <1>2, OwedPairs, OwedPairsAfter, OwedArePairs DEF Same
  <2>3. Owed' = {p \in Owed : p[1] # x /\ p[2] # x}
    BY <2>1, <2>2
  <2>4. Rivalry!Leave(x)
    BY <1>2, <2>3 DEF Rivalry!Leave, Owed
  <2> QED
    BY <2>4 DEF RivalryStep, Rivalry!Next
<1>3. x \notin InOffice => InOffice \ {x} = InOffice
  OBVIOUS
<1> QED
  BY <1>1, <1>2, <1>3

\* A bot takes office and owes everybody the news.
LEMMA Taking ==
  ASSUME NEW x \in Bot, InOffice' = InOffice \cup {x},
         \A c \in InOffice \ {x} : PendingTo(x, c)',
         \A b \in InOffice \ {x} : \A c \in InOffice' : b # c => Same(b, c)
  PROVE  RivalryStep
<1> DEFINE heard == {b \in InOffice \ {x} : PendingTo(b, x)'}
           new == Owed \cup ({x} \X (InOffice \ {x})) \cup (heard \X {x})
<1>1. \A p \in new : p = <<p[1], p[2]>>
  BY OwedArePairs
<1>2. \A b, c : <<b, c>> \in Owed' <=> <<b, c>> \in new
  <2> SUFFICES ASSUME NEW b, NEW c PROVE <<b, c>> \in Owed' <=> <<b, c>> \in new
    OBVIOUS
  <2>1. CASE b = x
    BY <2>1, OwedPairs, OwedPairsAfter
  <2>2. CASE b # x /\ c = x
    BY <2>2, OwedPairs, OwedPairsAfter DEF Same
  <2>3. CASE b # x /\ c # x
    BY <2>3, OwedPairs, OwedPairsAfter DEF Same
  <2> QED
    BY <2>1, <2>2, <2>3
<1>3. Owed' = new
  <2>1. \A p \in Owed' : p \in new
    BY <1>2, OwedArePairs
  <2>2. \A p \in new : p \in Owed'
    BY <1>1, <1>2
  <2> QED
    BY <2>1, <2>2
<1>4. heard \in SUBSET (InOffice \ {x})
  OBVIOUS
<1>5. Rivalry!Take(x)
  BY <1>3, <1>4 DEF Rivalry!Take, Owed
<1> QED
  BY <1>5 DEF RivalryStep, Rivalry!Next

\* A leader learns of another and will step down for all of them.
LEMMA Learning ==
  ASSUME NEW x \in Bot, x \in InOffice, InOffice' = InOffice,
         \A b \in InOffice : PendingTo(b, x)',
         \A b \in InOffice, c \in InOffice \ {x} : b # c => Same(b, c)
  PROVE  RivalryStep
<1> DEFINE new == Owed \cup ((InOffice \ {x}) \X {x})
<1>1. \A p \in new : p = <<p[1], p[2]>>
  BY OwedArePairs
<1>2. \A b, c : <<b, c>> \in Owed' <=> <<b, c>> \in new
  <2> SUFFICES ASSUME NEW b, NEW c PROVE <<b, c>> \in Owed' <=> <<b, c>> \in new
    OBVIOUS
  <2>1. CASE c = x
    BY <2>1, OwedPairs, OwedPairsAfter
  <2>2. CASE c # x
    BY <2>2, OwedPairs, OwedPairsAfter DEF Same
  <2> QED
    BY <2>1, <2>2
<1>3. Owed' = new
  <2>1. \A p \in Owed' : p \in new
    BY <1>2, OwedArePairs
  <2>2. \A p \in new : p \in Owed'
    BY <1>1, <1>2
  <2> QED
    BY <2>1, <2>2
<1>4. Rivalry!Learn(x)
  BY <1>3 DEF Rivalry!Learn, Owed
<1> QED
  BY <1>4 DEF RivalryStep, Rivalry!Next

-----------------------------------------------------------------------------
(***************************************************************************)
(* Queues: no VICTORY comes from nowhere.                                  *)
(***************************************************************************)
\* Routing a message brings no VICTORY of b but b's own.
LEMMA RoutedOnly ==
  ASSUME NEW queues \in [Bot -> Seq(Message)], NEW m \in Message,
         NEW b \in Bot, NEW c \in Bot, VictoryIn(Routed(queues, m)[c], b),
         m.type # "victory" \/ m.from # b
  PROVE  VictoryIn(queues[c], b)
<1> DEFINE s == queues[c]
<1>1. s \in Seq(Message)
  OBVIOUS
<1>2. CASE Routed(queues, m)[c] = s
  BY <1>2
<1>3. CASE Routed(queues, m)[c] = Append(s, m)
  <2>1. PICK i \in DOMAIN Append(s, m) :
               Append(s, m)[i].type = "victory" /\ Append(s, m)[i].from = b
    BY <1>3 DEF VictoryIn
  <2>2. i \in 1 .. Len(s) + 1
    BY <1>1, <2>1
  <2>3. i # Len(s) + 1
    BY <1>1, <2>1
  <2>4. i \in DOMAIN s /\ Append(s, m)[i] = s[i]
    BY <1>1, <2>2, <2>3
  <2> QED
    BY <2>1, <2>4 DEF VictoryIn
<1> QED
  BY <1>2, <1>3 DEF Routed

\* What is in the tail of a queue is in the queue.
LEMMA TailOnly ==
  ASSUME NEW s \in Seq(Message), s # <<>>, NEW b \in Bot, VictoryIn(Tail(s), b)
  PROVE  VictoryIn(s, b)
<1>1. PICK i \in DOMAIN Tail(s) : Tail(s)[i].type = "victory" /\ Tail(s)[i].from = b
  BY DEF VictoryIn
<1>2. i \in 1 .. Len(s) - 1 /\ Tail(s)[i] = s[i + 1]
  BY <1>1
<1>3. i + 1 \in DOMAIN s
  BY <1>2
<1> QED
  BY <1>1, <1>2, <1>3 DEF VictoryIn

\* Publishing anything but a VICTORY of b leaves those of b as they are.
LEMMA PublishSame ==
  ASSUME inbox \in [Bot -> Seq(Message)], NEW m \in Message, NEW p \in Bot, Publish(p, m),
         NEW b \in Bot, NEW c \in Bot, m.type # "victory" \/ m.from # b
  PROVE  VictoryIn(inbox'[c], b) <=> VictoryIn(inbox[c], b)
BY PublishKeeps, RoutedOnly DEF Publish

\* So does taking up a message of another type.
LEMMA PopSame ==
  ASSUME inbox \in [Bot -> Seq(Message)], NEW p \in Bot, NEW type, type # "victory",
         Receives(p, type), NEW b \in Bot, NEW c \in Bot
  PROVE  VictoryIn([inbox EXCEPT ![p] = Tail(@)][c], b) <=> VictoryIn(inbox[c], b)
<1>1. CASE c = p
  BY <1>1, PopKeeps, TailOnly DEF Receives
<1>2. CASE c # p
  BY <1>2
<1> QED
  BY <1>1, <1>2

-----------------------------------------------------------------------------
(***************************************************************************)
(* The steps of Election.                                                  *)
(***************************************************************************)
\* b's threads that are about to publish a VICTORY.
Rising(b) == \E g \in Thread : run[b][g].at = "victory"

\* The three reasons for a debt stay as they are.
LEMMA SameIf ==
  ASSUME NEW b \in Bot, NEW c \in Bot, Rising(b)' <=> Rising(b),
         VictoryIn(inbox'[c], b) <=> VictoryIn(inbox[c], b),
         handler'[c].at = "follow" <=> handler[c].at = "follow"
  PROVE  Same(b, c)
BY DEF Same, PendingTo, Rising, VictoryIn

\* A step that touches no reason for a debt is a stutter or takes x out of office.
LEMMA QuietStep ==
  ASSUME NEW x \in Bot, InOffice' = InOffice \/ InOffice' = InOffice \ {x},
         \A b \in Bot : Rising(b)' <=> Rising(b),
         \A b, c \in Bot : VictoryIn(inbox'[c], b) <=> VictoryIn(inbox[c], b),
         \A c \in Bot : handler'[c].at = "follow" <=> handler[c].at = "follow"
  PROVE  RivalryStep
<1>1. \A b, c \in InOffice' : b # c => Same(b, c)
  BY SameIf DEF InOffice
<1> QED
  BY <1>1, Leaving

\* A step of a bot that is out of office after it concerns nobody else.
LEMMA OutsiderStep ==
  ASSUME NEW x \in Bot, InOffice' = InOffice \ {x},
         \A b \in Bot \ {x} : Rising(b)' <=> Rising(b),
         \A b, c \in Bot \ {x} : VictoryIn(inbox'[c], b) <=> VictoryIn(inbox[c], b),
         \A c \in Bot \ {x} : handler'[c].at = "follow" <=> handler[c].at = "follow"
  PROVE  RivalryStep
<1>1. ASSUME NEW b \in InOffice', NEW c \in InOffice' PROVE Same(b, c)
  <2>1. b \in Bot \ {x} /\ c \in Bot \ {x}
    BY DEF InOffice
  <2> QED
    BY <2>1, SameIf
<1> QED
  BY <1>1, Leaving

\* A goroutine that moves between other stages leaves Rising alone.
LEMMA GoSame ==
  ASSUME TypeOK, NEW b \in Bot, NEW g \in Thread, run[b][g].at # "victory",
         NEW r, r.at # "victory", run' = [run EXCEPT ![b][g] = r]
  PROVE  \A c \in Bot : Rising(c)' <=> Rising(c)
<1>1. run \in [Bot -> [Thread -> ThreadState]]
  BY DEF TypeOK, ThreadState
<1>2. /\ run'[b][g] = r
      /\ \A c \in Bot, h \in Thread : (c # b \/ h # g) => run'[c][h] = run[c][h]
  BY <1>1
<1> QED
  BY <1>2 DEF Rising

\* A goroutine of b that is not about a VICTORY, and at most takes b out of office.
LEMMA QuietGo ==
  ASSUME TypeOK, NEW b \in Bot, NEW g \in Thread, run[b][g].at # "victory",
         NEW r, r.at # "victory", run' = [run EXCEPT ![b][g] = r], handler' = handler,
         inbox' = inbox, InOffice' = InOffice \/ InOffice' = InOffice \ {b}
  PROVE  RivalryStep
BY GoSame, QuietStep

LEMMA QuietGoTo ==
  ASSUME TypeOK, NEW b \in Bot, NEW g \in Thread, run[b][g].at # "victory",
         NEW stage, stage # "victory", Go(b, g, stage), handler' = handler,
         inbox' = inbox, InOffice' = InOffice \/ InOffice' = InOffice \ {b}
  PROVE  RivalryStep
<1> DEFINE r == [at |-> stage, seen |-> run[b][g].seen, term |-> run[b][g].term]
<1>1. r.at # "victory"
  OBVIOUS
<1>2. run' = [run EXCEPT ![b][g] = r]
  BY DEF Go
<1> HIDE DEF r
<1> QED
  BY <1>1, <1>2, QuietGo

\* What the broker holds and where the threads are, for the steps below.
LEMMA Typed ==
  TypeOK => /\ inbox \in [Bot -> Seq(Message)]
            /\ run \in [Bot -> [Thread -> ThreadState]]
            /\ handler \in [Bot -> CallbackState]
BY DEF TypeOK, ThreadState, CallbackState

\* becomeLeader: it takes office, unless its session is closed or deaf.
LEMMA LeadSettles ==
  ASSUME TypeOK, NEW b \in Bot, NEW g \in Thread, Lead(b, g)
  PROVE  RivalryStep
<1>1. /\ run'[b][g].at = "victory"
      /\ \A c \in Bot \ {b} : run'[c] = run[c]
  BY Typed DEF Lead
<1>2. inbox' = inbox /\ handler' = handler
  BY DEF Lead
<1>3. \A c \in Bot : PendingTo(b, c)'
  BY <1>1 DEF PendingTo
<1>4. \A c \in Bot \ {b}, d \in Bot : Same(c, d)
  <2>1. \A c \in Bot \ {b} : Rising(c)' <=> Rising(c)
    BY <1>1 DEF Rising
  <2> QED
    BY <1>2, <2>1, SameIf
<1>5. CASE link[b] = "up"
  <2>1. InOffice' = InOffice \cup {b}
    BY <1>5 DEF Lead, InOffice, TypeOK
  <2> QED
    BY <1>3, <1>4, <2>1, Taking DEF InOffice
<1>6. CASE link[b] # "up"
  <2>1. InOffice' = InOffice /\ b \notin InOffice
    BY <1>6 DEF Lead, InOffice, TypeOK
  <2> QED
    BY <1>4, <2>1, Leaving DEF InOffice
<1> QED
  BY <1>5, <1>6

\* The VICTORY of b is in the queues of those it was pending for.
LEMMA PublishVictorySettles ==
  ASSUME TypeOK, NEW b \in Bot, NEW g \in Thread, PublishVictory(b, g)
  PROVE  RivalryStep
<1> DEFINE m == [type |-> "victory", from |-> b, to |-> 0, term |-> run[b][g].term]
<1>1. m \in Message
  BY Typed, MessageType DEF ThreadState
<1>2. InOffice' = InOffice
  BY DEF PublishVictory, InOffice, fields
<1>3. ASSUME NEW c \in InOffice, NEW d \in InOffice, c # d PROVE Same(c, d)
  <2>1. CASE c = b
    <3>1. link[b] = "up" /\ link[d] = "up" /\ d \in Bot /\ d # b
      BY <1>3, <2>1 DEF InOffice
    <3>2. inbox' = Routed(inbox, m)
      BY <3>1 DEF PublishVictory, Publish, Connected
    <3>3. VictoryIn(inbox'[d], b)
      BY Typed, <1>1, <3>1, <3>2, RoutedReaches
    <3>4. PendingTo(b, d)'
      BY <3>3 DEF PendingTo, VictoryIn
    <3>5. PendingTo(b, d)
      BY DEF PublishVictory, At, PendingTo
    <3> QED
      BY <2>1, <3>4, <3>5 DEF Same
  <2>2. CASE c # b
    <3>1. c \in Bot /\ d \in Bot
      BY DEF InOffice
    <3>2. run'[c] = run[c]
      BY <2>2, <3>1, Typed DEF PublishVictory, Go
    <3>3. Rising(c)' <=> Rising(c)
      BY <3>2 DEF Rising
    <3>4. VictoryIn(inbox'[d], c) <=> VictoryIn(inbox[d], c)
      BY <1>1, <2>2, <3>1, Typed, PublishSame DEF PublishVictory
    <3> QED
      BY <3>1, <3>3, <3>4, SameIf DEF PublishVictory
  <2> QED
    BY <2>1, <2>2
<1> QED
  BY <1>2, <1>3, Leaving

\* Every step of startElection.
LEMMA RunStepSettles ==
  ASSUME TypeOK, NEW b \in Bot, NEW g \in Thread, RunStep(b, g)
  PROVE  RivalryStep
<1> USE DEF fields, clocks
<1>1. CASE Start(b, g)
  <2> DEFINE r == IF inProgress[b] THEN Off
                  ELSE [at |-> "stand", seen |-> 0, term |-> term[b] + 1]
  <2>1. r.at # "victory" /\ run[b][g].at # "victory"
    BY <1>1 DEF Off, Start, At
  <2>2. run' = [run EXCEPT ![b][g] = r]
    BY <1>1 DEF Start
  <2>3. inbox' = inbox /\ handler' = handler /\ InOffice' = InOffice
    BY <1>1 DEF Start, InOffice
  <2> HIDE DEF r
  <2> QED
    BY <2>1, <2>2, <2>3, QuietGo
<1>2. CASE Stand(b, g)
  <2>1. InOffice' = InOffice \ {b}
    BY <1>2 DEF Stand, InOffice, TypeOK
  <2> QED
    BY <1>2, <2>1, QuietGoTo DEF Stand, At
<1>3. CASE Announce(b, g)
  <2> DEFINE m == [type |-> "election", from |-> b, to |-> 0, term |-> 0]
  <2>1. m \in Message
    BY MessageType
  <2>2. \A c, d \in Bot : VictoryIn(inbox'[d], c) <=> VictoryIn(inbox[d], c)
    BY <1>3, <2>1, Typed, PublishSame DEF Announce
  <2> DEFINE r == [at |-> IF Connected(b) THEN "wait" ELSE "end",
                   seen |-> run[b][g].seen, term |-> run[b][g].term]
  <2>3. \A c \in Bot : Rising(c)' <=> Rising(c)
    <3>1. r.at # "victory" /\ run[b][g].at # "victory"
      BY <1>3 DEF Announce, At
    <3>2. run' = [run EXCEPT ![b][g] = r]
      BY <1>3 DEF Announce, Go
    <3> HIDE DEF r
    <3> QED
      BY <3>1, <3>2, GoSame
  <2> QED
    BY <1>3, <2>2, <2>3, QuietStep DEF Announce, InOffice
<1>4. CASE Wake(b, g)
  <2> DEFINE r == IF inProgress[b]
                    THEN [at |-> IF votes[b] = 0 THEN "lead" ELSE "yield",
                          seen |-> leaderID[b], term |-> run[b][g].term]
                    ELSE Off
  <2>1. r.at # "victory" /\ run[b][g].at # "victory"
    BY <1>4 DEF Off, Wake, At
  <2>2. run' = [run EXCEPT ![b][g] = r]
    BY <1>4 DEF Wake
  <2>3. inbox' = inbox /\ handler' = handler /\ InOffice' = InOffice
    BY <1>4 DEF Wake, InOffice
  <2> HIDE DEF r
  <2> QED
    BY <2>1, <2>2, <2>3, QuietGo
<1>5. CASE Lead(b, g)
  BY <1>5, LeadSettles
<1>6. CASE PublishVictory(b, g)
  BY <1>6, PublishVictorySettles
<1>7. CASE StartHeartbeat(b, g)
  BY <1>7, QuietGoTo DEF StartHeartbeat, At, InOffice
<1>8. CASE Yield(b, g)
  <2>1. InOffice' = InOffice \ {b}
    BY <1>8 DEF Yield, InOffice, TypeOK
  <2> QED
    BY <1>8, <2>1, QuietGoTo DEF Yield, At
<1>9. CASE Yielded(b, g)
  BY <1>9, QuietGoTo DEF Yielded, InOffice
<1>10. CASE End(b, g)
  <2>1. Off.at # "victory"
    BY DEF Off
  <2> QED
    BY <1>10, <2>1, QuietGo DEF End, At, InOffice
<1> QED
  BY <1>1, <1>2, <1>3, <1>4, <1>5, <1>6, <1>7, <1>8, <1>9, <1>10 DEF RunStep

\* A callback at another stage than "follow" that goes on to another, and at most
\* takes b out of office.
LEMMA QuietCallback ==
  ASSUME TypeOK, NEW b \in Bot, handler[b].at # "follow",
         NEW r, r.at # "follow", handler' = [handler EXCEPT ![b] = r],
         \A c \in Bot : Rising(c)' <=> Rising(c),
         \A c, d \in Bot : VictoryIn(inbox'[d], c) <=> VictoryIn(inbox[d], c),
         InOffice' = InOffice \/ InOffice' = InOffice \ {b}
  PROVE  RivalryStep
<1>1. \A c \in Bot : handler'[c].at = "follow" <=> handler[c].at = "follow"
  BY Typed
<1> QED
  BY <1>1, QuietStep

\* The callback thread takes up news of another leader: a leader will step down, and
\* to whoever is out of office nothing is owed.
LEMMA LearningStep ==
  ASSUME TypeOK, NEW b \in Bot, InOffice' = InOffice, handler'[b].at = "follow",
         \A d \in Bot \ {b} : handler'[d] = handler[d] /\ inbox'[d] = inbox[d],
         run' = run
  PROVE  RivalryStep
<1>1. \A c \in Bot : PendingTo(c, b)'
  BY DEF PendingTo
<1>2. \A c \in Bot, d \in Bot \ {b} : Same(c, d)
  BY SameIf DEF Rising
<1>3. CASE b \in InOffice
  BY <1>1, <1>2, <1>3, Learning DEF InOffice
<1>4. CASE b \notin InOffice
  BY <1>2, <1>4, Leaving DEF InOffice
<1> QED
  BY <1>3, <1>4

\* Every step of the callback thread.
LEMMA CallbackStepSettles ==
  ASSUME TypeOK, NEW b \in Bot, CallbackStep(b)
  PROVE  RivalryStep
<1> USE DEF fields, clocks
<1>p. ASSUME NEW type, type # "victory", Receives(b, type), Pop(b)
      PROVE  \A c, d \in Bot : VictoryIn(inbox'[d], c) <=> VictoryIn(inbox[d], c)
  BY <1>p, Typed, PopSame DEF Pop
<1>r. run' = run => \A c \in Bot : Rising(c)' <=> Rising(c)
  BY DEF Rising
<1>1. CASE HandleHeartbeat(b)
  <2>1. InOffice' = InOffice /\ run' = run
    BY <1>1 DEF HandleHeartbeat, InOffice
  <2>2. \A d \in Bot \ {b} : inbox'[d] = inbox[d]
    BY <1>1, Typed DEF HandleHeartbeat, Pop
  <2>3. CASE handler' = handler
    BY <1>1, <1>p, <1>r, <2>1, <2>3, QuietStep DEF HandleHeartbeat
  <2>4. CASE Following(b, Head(inbox[b]), FALSE)
    <3>1. handler'[b].at = "follow" /\ \A d \in Bot \ {b} : handler'[d] = handler[d]
      BY <2>4, Typed DEF Following
    <3> QED
      BY <2>1, <2>2, <3>1, LearningStep
  <2> QED
    BY <1>1, <2>3, <2>4 DEF HandleHeartbeat
<1>2. CASE HandleElection(b)
  <2> DEFINE m == [type |-> "answer", from |-> b, to |-> Head(inbox[b]).from, term |-> 0]
             queues == [inbox EXCEPT ![b] = Tail(@)]
  <2>1. m \in Message
    BY <1>2, Typed, ReceivesType, MessageType DEF HandleElection, Message
  <2>2. queues \in [Bot -> Seq(Message)]
    BY <1>2, Typed DEF HandleElection, Receives
  <2>3. \A c, d \in Bot : VictoryIn(queues[d], c) <=> VictoryIn(inbox[d], c)
    BY <1>2, Typed, PopSame DEF HandleElection
  <2>4. inbox' = Routed(queues, m)
    BY <1>2 DEF HandleElection
  <2>5. m.type # "victory"
    OBVIOUS
  <2>6. \A c, d \in Bot : VictoryIn(inbox'[d], c) <=> VictoryIn(queues[d], c)
    <3> HIDE DEF m, queues
    <3> QED
      BY <2>1, <2>2, <2>4, <2>5, RoutedKeeps, RoutedOnly
  <2>7. Busy("answered").at # "follow"
    BY DEF Busy
  <2>8. InOffice' = InOffice /\ run' = run
    BY <1>2 DEF HandleElection, InOffice
  <2>9. handler[b].at # "follow"
    BY <1>2 DEF HandleElection, Receives
  <2>10. \A c, d \in Bot : VictoryIn(inbox'[d], c) <=> VictoryIn(inbox[d], c)
    BY <2>3, <2>6
  <2> QED
    BY <1>2, <1>r, <2>7, <2>8, <2>9, <2>10, QuietCallback DEF HandleElection
<1>3. CASE Contest(b)
  <2>1. \A c \in Bot : Rising(c)' <=> Rising(c)
    <3>1. CASE run' = run
      BY <1>r, <3>1
    <3>2. ASSUME NEW g \in Spawn, run[b][g] = Off, Go(b, g, "start")
          PROVE  \A c \in Bot : Rising(c)' <=> Rising(c)
      <4> DEFINE r == [at |-> "start", seen |-> run[b][g].seen, term |-> run[b][g].term]
      <4>1. r.at # "victory" /\ run[b][g].at # "victory" /\ g \in Thread
        BY <3>2 DEF Off, Thread
      <4>2. run' = [run EXCEPT ![b][g] = r]
        BY <3>2 DEF Go
      <4> HIDE DEF r
      <4> QED
        BY <4>1, <4>2, GoSame
    <3> QED
      BY <1>3, <3>1, <3>2 DEF Contest
  <2>2. Idle.at # "follow"
    BY DEF Idle, Busy
  <2> QED
    BY <1>3, <2>1, <2>2, QuietCallback DEF Contest, InOffice
<1>4. CASE HandleAnswer(b)
  <2>1. InOffice' = InOffice /\ run' = run /\ handler' = handler
    BY <1>4 DEF HandleAnswer, InOffice
  <2> QED
    BY <1>4, <1>p, <1>r, <2>1, QuietStep DEF HandleAnswer
<1>5. CASE HandleVictory(b)
  <2>1. handler'[b].at = "follow" /\ \A d \in Bot \ {b} : handler'[d] = handler[d]
    BY <1>5, Typed DEF HandleVictory, Following
  <2>2. \A d \in Bot \ {b} : inbox'[d] = inbox[d]
    BY <1>5, Typed DEF HandleVictory, Pop
  <2>3. InOffice' = InOffice /\ run' = run
    BY <1>5 DEF HandleVictory, InOffice
  <2> QED
    BY <2>1, <2>2, <2>3, LearningStep
<1>6. CASE Follow(b)
  <2>1. InOffice' = InOffice \ {b}
    BY <1>6 DEF Follow, InOffice, TypeOK
  <2>2. \A d \in Bot \ {b} : handler'[d] = handler[d]
    BY <1>6, Typed DEF Follow
  <2> QED
    BY <1>6, <1>r, <2>1, <2>2, OutsiderStep DEF Follow
<1>7. CASE Followed(b)
  <2>1. InOffice' = InOffice /\ run' = run /\ inbox' = inbox
    BY <1>7 DEF Followed, InOffice
  <2>2. Idle.at # "follow" /\ handler[b].at # "follow"
    BY <1>7 DEF Idle, Busy, Followed
  <2> QED
    BY <1>7, <1>r, <2>1, <2>2, QuietCallback DEF Followed
<1>8. CASE HandleKill(b)
  <2>1. \A c, d \in Bot : VictoryIn(inbox'[d], c) <=> VictoryIn(inbox[d], c)
    BY <1>8, <1>p DEF HandleKill
  <2>2. handler[b].at # "follow" /\ run' = run
    BY <1>8 DEF HandleKill, Receives
  <2>3. CASE Head(inbox[b]).to = b
    <3>1. InOffice' = InOffice \ {b}
      BY <1>8, <2>3 DEF HandleKill, InOffice, TypeOK
    <3>2. Busy("disconnect").at # "follow"
      BY DEF Busy
    <3> QED
      BY <1>8, <1>r, <2>1, <2>2, <2>3, <3>1, <3>2, QuietCallback DEF HandleKill
  <2>4. CASE Head(inbox[b]).to # b
    <3>1. InOffice' = InOffice
      BY <1>8, <2>4 DEF HandleKill, InOffice
    <3> QED
      BY <1>8, <1>r, <2>1, <2>2, <2>4, <3>1, QuietStep DEF HandleKill
  <2> QED
    BY <2>3, <2>4
<1>9. CASE Disconnect(b)
  <2>1. InOffice' = InOffice \ {b}
    BY <1>9 DEF Disconnect, InOffice, TypeOK
  <2>2. \A d \in Bot \ {b} : handler'[d] = handler[d] /\ inbox'[d] = inbox[d]
    BY <1>9, Typed DEF Disconnect
  <2> QED
    BY <1>9, <1>r, <2>1, <2>2, OutsiderStep DEF Disconnect
<1> QED
  BY <1>1, <1>2, <1>3, <1>4, <1>5, <1>6, <1>7, <1>8, <1>9 DEF CallbackStep

\* Every step.
LEMMA NextSettles == Inv /\ [Next]_vars => RivalryStep
<1> SUFFICES ASSUME Inv, [Next]_vars PROVE RivalryStep
  OBVIOUS
<1> USE DEF fields, clocks
<1>i. TypeOK /\ BootFollows
  BY DEF Inv
<1>r. run' = run => \A c \in Bot : Rising(c)' <=> Rising(c)
  BY DEF Rising
<1>1. CASE UNCHANGED vars
  <2>1. InOffice' = InOffice /\ Owed' = Owed
    BY <1>1 DEF vars, InOffice, Owed, PendingTo, VictoryIn
  <2> QED
    BY <2>1 DEF RivalryStep
<1>2. ASSUME NEW b \in Bot, Boot(b) PROVE RivalryStep
  <2>1. InOffice' = InOffice
    BY <1>2, <1>i DEF Boot, InOffice, BootFollows, TypeOK
  <2> QED
    BY <1>2, <1>r, <2>1, QuietStep DEF Boot
<1>3. ASSUME NEW b \in Bot, ElectionTimeout(b) PROVE RivalryStep
  BY <1>3, <1>i, QuietGoTo DEF ElectionTimeout, At, Thread, InOffice
<1>4. ASSUME NEW b \in Bot, NEW g \in Thread, RunStep(b, g) PROVE RivalryStep
  BY <1>4, <1>i, RunStepSettles
<1>5. ASSUME NEW b \in Bot, HeartbeatTick(b) PROVE RivalryStep
  BY <1>5, <1>r, QuietStep DEF HeartbeatTick, InOffice
<1>6. ASSUME NEW b \in Bot, PublishHeartbeat(b) PROVE RivalryStep
  <2>1. \A c, d \in Bot : VictoryIn(inbox'[d], c) <=> VictoryIn(inbox[d], c)
    BY <1>6, <1>i, PublishSame, MessageType DEF PublishHeartbeat, TypeOK
  <2> QED
    BY <1>6, <1>r, <2>1, QuietStep DEF PublishHeartbeat, InOffice
<1>7. ASSUME NEW b \in Bot, CallbackStep(b) PROVE RivalryStep
  BY <1>7, <1>i, CallbackStepSettles
<1>8. ASSUME NEW b \in Bot, Crash(b) \/ Reconnect(b) PROVE RivalryStep
  <2>1. InOffice' = InOffice \ {b}
    BY <1>8, <1>i DEF Crash, Reconnect, InOffice, TypeOK
  <2>2. \A c \in Bot \ {b} : /\ handler'[c] = handler[c] /\ inbox'[c] = inbox[c]
                             /\ run'[c] = run[c]
    BY <1>8, <1>i, Typed DEF Crash, Reconnect
  <2>3. \A c \in Bot \ {b} : Rising(c)' <=> Rising(c)
    BY <2>2 DEF Rising
  <2> QED
    BY <2>1, <2>2, <2>3, OutsiderStep
<1>9. ASSUME NEW b \in Bot, Kill(b) PROVE RivalryStep
  <2> DEFINE m == [type |-> "kill", from |-> b, to |-> b, term |-> 0]
  <2>1. m \in Message /\ m.type # "victory" /\ inbox' = Routed(inbox, m)
    BY <1>9, MessageType DEF Kill
  <2>2. \A c, d \in Bot : VictoryIn(inbox'[d], c) <=> VictoryIn(inbox[d], c)
    <3> HIDE DEF m
    <3> QED
      BY <1>i, <2>1, Typed, RoutedKeeps, RoutedOnly
  <2> QED
    BY <1>9, <1>r, <2>2, QuietStep DEF Kill, InOffice
<1> QED
  BY <1>1, <1>2, <1>3, <1>4, <1>5, <1>6, <1>7, <1>8, <1>9 DEF Next, BotStep

\* The election implements Leadership: for any set of bots, elections, crashes, kills
\* and lost connections, what two leaders owe each other is settled by nothing but
\* one of them leaving office.
THEOREM RivalriesSettled == Spec => RivalriesAreSettled
<1>1. Init => Rivalry!Init
  BY DEF Init, Rivalry!Init, InOffice
<1>2. Inv /\ [Next]_vars => [Rivalry!Next]_<<InOffice, Owed>>
  BY NextSettles DEF RivalryStep
<1>3. Spec => []Inv
  <2>1. Init => Inv
    BY InitType, InitAware DEF Inv
  <2>2. Inv /\ [Next]_vars => Inv'
    BY NextType, NextBoot, NextAware DEF Inv
  <2> QED
    BY <2>1, <2>2, PTL DEF Spec
<1> QED
  BY <1>1, <1>2, <1>3, PTL DEF Spec, RivalriesAreSettled, Rivalry!Spec, Owed
=============================================================================
