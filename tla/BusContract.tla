---------------------------- MODULE BusContract -----------------------------
(***************************************************************************)
(* What the message bus promises its callers: bounded FIFO channels that   *)
(* shut atomically.  A publisher that asks while the bus is open is owed   *)
(* an answer; each answer is either "sent", and the message is at the end  *)
(* of its channel, or an error, and the message is nowhere.  After the     *)
(* shutdown nobody new is owed anything and every debt is settled.         *)
(***************************************************************************)
EXTENDS Naturals, Sequences

CONSTANTS Publishers, Topics, Msgs, Capacity

VARIABLES open,   \* publish calls are let in
          owed,   \* publishers with an unanswered call
          queue   \* queue[t]: messages of topic t, oldest first

contractVars == <<open, owed, queue>>

Init == open = TRUE /\ owed = {} /\ queue = [t \in Topics |-> <<>>]

Ask(p) == /\ open
          /\ p \notin owed
          /\ owed' = owed \cup {p}
          /\ UNCHANGED <<open, queue>>

Sent(p) == /\ p \in owed
           /\ owed' = owed \ {p}
           /\ \E t \in Topics, m \in Msgs :
                /\ Len(queue[t]) < Capacity
                /\ queue' = [queue EXCEPT ![t] = Append(@, m)]
           /\ UNCHANGED open

Refused(p) == /\ p \in owed
              /\ owed' = owed \ {p}
              /\ UNCHANGED <<open, queue>>

Take == /\ \E t \in Topics : /\ queue[t] # <<>>
                             /\ queue' = [queue EXCEPT ![t] = Tail(@)]
        /\ UNCHANGED <<open, owed>>

Shut == open /\ open' = FALSE /\ UNCHANGED <<owed, queue>>

Next == \/ \E p \in Publishers : Ask(p) \/ Sent(p) \/ Refused(p)
        \/ Take
        \/ Shut

\* After the shutdown every unanswered call is answered.
Settle(p) == ~open /\ (Sent(p) \/ Refused(p))

Spec == Init /\ [][Next]_contractVars

FairSpec == Spec /\ \A p \in Publishers : WF_contractVars(Settle(p))

=============================================================================
