----------------------------- MODULE Leadership -----------------------------
(***************************************************************************)
(* What the election promises although it may elect several leaders: a     *)
(* rivalry is never silent.  Of two bots in office at least one is still   *)
(* owed the news of the other, and news is owed until one of the two has   *)
(* left office.                                                            *)
(***************************************************************************)
CONSTANT Bot

VARIABLES
  office,  \* the bots that act as leader and can hear the others
  owed     \* <<b, c>>: that b took office has yet to take effect on c

Init == office = {} /\ owed = {}

\* b takes office; every rival is owed the news, b may be owed earlier news.
Take(b) ==
  /\ office' = office \cup {b}
  /\ \E heard \in SUBSET (office \ {b}) :
       owed' = owed \cup ({b} \X (office \ {b})) \cup (heard \X {b})

\* c learns of a leader and is about to resign, whichever leader that was.
Learn(c) ==
  /\ c \in office
  /\ office' = office
  /\ owed' = owed \cup ((office \ {c}) \X {c})

\* b steps down, dies, or is cut off.
Leave(b) ==
  /\ b \in office
  /\ office' = office \ {b}
  /\ owed' = {p \in owed : p[1] # b /\ p[2] # b}

Next == \E b \in Bot : Take(b) \/ Learn(b) \/ Leave(b)

Spec == Init /\ [][Next]_<<office, owed>>

\* Two bots in office are never both unaware of each other.
NoSilentRivals ==
  \A b, c \in office : b # c => <<b, c>> \in owed \/ <<c, b>> \in owed
=============================================================================
