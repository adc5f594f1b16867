------------------------------- MODULE Channel -------------------------------
(***************************************************************************)
(* What every path of messages in the system promises: they arrive in the  *)
(* order they were sent, none twice and none made up; and an end without   *)
(* an error is told only when all that was sent before the end arrived.    *)
(* RuntimeCall, HttpStream, PushIterable and ChildTransport implement it.  *)
(*                                                                         *)
(* This specification is never run by itself: the others have it as a      *)
(* property, so an action may constrain a step without bounding it.        *)
(***************************************************************************)
EXTENDS Naturals, Sequences

VARIABLES
    sent,       \* messages sent
    received,   \* messages that arrived
    closed,     \* the sender said it is done
    due,        \* how many it had sent by then
    cut,        \* the path is broken: nothing arrives any more
    told        \* the receiver was told of the end

channelVars == <<sent, received, closed, due, cut, told>>

\* s goes on as t.
Continues(s, t) == /\ Len(s) <= Len(t)
                   /\ \A k \in DOMAIN s : t[k] = s[k]

Init == /\ sent = <<>>
        /\ received = <<>>
        /\ closed = FALSE
        /\ due = 0
        /\ cut = FALSE
        /\ told = FALSE

\* The sender may still send when it said that it is done.
Send == /\ Continues(sent, sent')
        /\ UNCHANGED <<received, closed, due, cut, told>>

Receive == /\ ~cut
           /\ Len(received) < Len(sent)
           /\ received' = Append(received, sent[Len(received) + 1])
           /\ UNCHANGED <<sent, closed, due, cut, told>>

\* A message that a receiver waits for passes at once.
Pass == /\ ~cut
        /\ received = sent
        /\ Len(sent') = Len(sent) + 1
        /\ Continues(sent, sent')
        /\ received' = sent'
        /\ UNCHANGED <<closed, due, cut, told>>

Close == /\ ~closed
         /\ closed' = TRUE
         /\ due' = Len(sent)
         /\ UNCHANGED <<sent, received, cut, told>>

Cut == /\ cut' = TRUE
       /\ UNCHANGED <<sent, received, closed, due, told>>

Tell == /\ closed /\ Len(received) >= due
        /\ told' = TRUE
        /\ UNCHANGED <<sent, received, closed, due, cut>>

\* The end reaches a receiver that waits for the next message.
CloseAndTell == /\ ~closed /\ received = sent
                /\ closed' = TRUE
                /\ due' = Len(sent)
                /\ told' = TRUE
                /\ UNCHANGED <<sent, received, cut>>

\* The last message and the end in one step; a receiver that waits gets the
\* message, and the end if it waits for that as well.
SendLast == /\ ~closed /\ ~cut
            /\ Len(sent') = Len(sent) + 1
            /\ Continues(sent, sent')
            /\ closed' = TRUE
            /\ due' = Len(sent')
            /\ \/ UNCHANGED <<received, told>>
               \/ /\ received = sent /\ received' = sent'
                  /\ told' \in {told, TRUE}
            /\ UNCHANGED cut

Next == \/ Send \/ Receive \/ Pass \/ Close \/ Cut \/ Tell
        \/ CloseAndTell \/ SendLast

Spec == Init /\ [][Next]_channelVars
=============================================================================
