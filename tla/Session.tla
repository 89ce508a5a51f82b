------------------------------ MODULE Session ------------------------------
(***************************************************************************)
(* What one test promises, without threads, queues or messages: the        *)
(* publisher uses up sequence numbers and sends some of them, the          *)
(* subscriber accounts for numbers used (received or lost) until it has    *)
(* finished, and the two end in an order that lets each trust the other.   *)
(***************************************************************************)
EXTENDS Naturals

VARIABLES
  used,      \* sequence numbers the publisher has used up
  sent,      \* how many of them were sent
  counted,   \* samples the subscriber has counted as received
  lost,      \* samples the subscriber has counted as lost
  ended,     \* the publisher uses no more numbers
  finished,  \* the subscriber counts no more samples
  answered,  \* the publisher knows that the subscriber has finished
  stopped    \* the processes that have deleted their participant

svars == <<used, sent, counted, lost, ended, finished, answered, stopped>>

Init ==
  /\ used = 0 /\ sent = 0 /\ counted = 0 /\ lost = 0
  /\ ~ended /\ ~finished /\ ~answered
  /\ stopped = {}

\* a number is used up, whether or not its sample could be sent
Use ==
  /\ ~ended
  /\ used' = used + 1
  /\ sent' \in {sent, sent + 1}
  /\ UNCHANGED <<counted, lost, ended, finished, answered, stopped>>

\* the subscriber never counts a number twice, nor one that was not used
Account ==
  /\ ~finished /\ "sub" \notin stopped
  /\ counted' \in counted .. sent
  /\ lost' \in lost .. used
  /\ counted' + lost' <= used
  /\ UNCHANGED <<used, sent, ended, finished, answered, stopped>>

End ==
  /\ ~ended
  /\ ended' = TRUE
  /\ UNCHANGED <<used, sent, counted, lost, finished, answered, stopped>>

Finish ==
  /\ ended /\ "sub" \notin stopped
  /\ finished' = TRUE
  /\ UNCHANGED <<used, sent, counted, lost, ended, answered, stopped>>

Answer ==
  /\ finished /\ "pub" \notin stopped
  /\ answered' = TRUE
  /\ UNCHANGED <<used, sent, counted, lost, ended, finished, stopped>>

\* the publisher may give up without an answer, the subscriber never
Stop ==
  /\ stopped' \in {stopped \cup {"pub"}, stopped \cup {"sub"}}
  /\ "pub" \in stopped' => ended
  /\ "sub" \in stopped' => finished
  /\ UNCHANGED <<used, sent, counted, lost, ended, finished, answered>>

Next == Use \/ Account \/ End \/ Finish \/ Answer \/ Stop

Spec == Init /\ [][Next]_svars
=============================================================================
