------------------------ MODULE ChildTransport_proofs ------------------------
(***************************************************************************)
(* What holds of every adapter that runs as a child process and of the     *)
(* host's stream of a turn, for any number of lines and calls: the lines   *)
(* reach the host in order, a bad one closes the transport, no call of     *)
(* next() is left behind, and the stream implements the abstract channel.  *)
(***************************************************************************)
EXTENDS ChildTransport, SequenceTheorems, TLAPS

Answer == [what : {"pending", "message"} \cup Over, message : 0..MaxLines]

StreamTypes ==
    /\ queue \in Seq(1..MaxLines) /\ pushed \in Seq(1..MaxLines)
    /\ waiters \in Seq(1..MaxCalls)
    /\ state \in {"open"} \cup Over
    /\ answers \in Seq(Answer) /\ Len(answers) <= MaxCalls

\* Calls that got a message.
Answered == Len(pushed) - Len(queue)

\* The first calls got the messages in order, and what they did not get is
\* queued; the others wait, or were told of the end.
CallsInOrder ==
    /\ Answered \in 0..Len(answers)
    /\ \A c \in 1..Answered : answers[c] = Message(pushed[c])
    /\ \A k \in 1..Len(queue) : queue[k] = pushed[Answered + k]
    /\ \A c \in Answered+1..Len(answers) :
         /\ state = "open" => answers[c] = Pending
         /\ state # "open" => answers[c].what \in Over
    /\ Len(answers) > Answered => queue = <<>>

\* The calls that wait are those without an answer, in order.
WaitersInOrder ==
    /\ state = "open" => Len(waiters) = Len(answers) - Answered
    /\ state # "open" => Len(waiters) = 0
    /\ \A w \in 1..Len(waiters) : waiters[w] = Answered + w

StreamHeld == StreamTypes /\ CallsInOrder /\ WaitersInOrder

USE CallsAssumption, BoundAssumption DEF Over

-----------------------------------------------------------------------------
(* What the host got *)

GotOf(calls) == [c \in {c \in DOMAIN calls : calls[c].what = "message"} |->
                   calls[c].message]

LEMMA AnswerFields ==
    /\ \A m : Message(m).what = "message" /\ Message(m).message = m
    /\ \A how : Without(how).what = how /\ Without(how).message = 0
    /\ Pending.what = "pending" /\ Pending \in Answer
    /\ \A m \in 1..MaxLines : Message(m) \in Answer
    /\ \A how \in Over : Without(how) \in Answer
  BY DEF Message, Without, Pending, Answer

LEMMA GotFirst ==
    ASSUME NEW calls \in Seq(Answer), NEW sent \in Seq(1..MaxLines),
           NEW g \in 0..Len(calls), g <= Len(sent),
           \A c \in 1..g : calls[c] = Message(sent[c]),
           \A c \in g+1..Len(calls) : calls[c].what # "message"
    PROVE  GotOf(calls) = SubSeq(sent, 1, g)
  <1>1. DOMAIN calls = 1..Len(calls) /\ Len(calls) \in Nat /\ g \in Nat
    OBVIOUS
  <1>2. {c \in DOMAIN calls : calls[c].what = "message"} = 1..g
    <2>1. ASSUME NEW c \in 1..Len(calls)
          PROVE  calls[c].what = "message" <=> c \in 1..g
      <3>1. CASE c \in 1..g
        BY <3>1, AnswerFields
      <3>2. CASE c \notin 1..g
        <4>1. c \in g+1..Len(calls)
          BY <1>1, <3>2
        <4> QED BY <3>2, <4>1
      <3> QED BY <3>1, <3>2
    <2>2. 1..g \subseteq 1..Len(calls)
      BY <1>1
    <2> QED BY <1>1, <2>1, <2>2
  <1>3. \A c \in 1..g : calls[c].message = sent[c]
    BY AnswerFields
  <1>4. GotOf(calls) = [c \in 1..g |-> sent[c]]
    BY <1>2, <1>3 DEF GotOf
  <1>5. SubSeq(sent, 1, g) = [c \in 1..g |-> sent[c]]
    <2>1. Len(SubSeq(sent, 1, g)) = g /\ SubSeq(sent, 1, g) \in Seq(1..MaxLines)
          /\ \A c \in 1..g : SubSeq(sent, 1, g)[c] = sent[c]
      BY <1>1
    <2> QED BY <2>1
  <1> QED BY <1>4, <1>5

SomeTold == \E c \in DOMAIN answers : answers[c].what \in Over

GotFollows ==
    /\ Got = SubSeq(pushed, 1, Answered)
    /\ SomeTold <=> (state # "open" /\ Len(answers) > Answered)

LEMMA GotIs == StreamHeld => GotFollows
  <1> SUFFICES ASSUME StreamHeld PROVE GotFollows
    OBVIOUS
  <1> USE DEF StreamHeld, StreamTypes, CallsInOrder
  <1>1. /\ Answered \in 0..Len(answers) /\ Answered <= Len(pushed)
        /\ DOMAIN answers = 1..Len(answers) /\ Len(answers) \in Nat
    BY DEF Answered
  <1>2. ASSUME NEW c \in Answered+1..Len(answers)
        PROVE  /\ answers[c].what # "message"
               /\ answers[c].what \in Over <=> state # "open"
    BY <1>2, AnswerFields
  <1>3. ASSUME NEW c \in 1..Answered
        PROVE  answers[c].what \notin Over
    BY <1>3, AnswerFields
  <1>4. Got = SubSeq(pushed, 1, Answered)
    <2>1. GotOf(answers) = SubSeq(pushed, 1, Answered)
      BY <1>1, <1>2, GotFirst
    <2> QED BY <2>1 DEF Got, GotOf
  <1>5. ASSUME NEW c \in 1..Len(answers), answers[c].what \in Over
        PROVE  state # "open" /\ Len(answers) > Answered
    <2>1. c \in Answered+1..Len(answers)
      BY <1>1, <1>3, <1>5
    <2> QED BY <1>1, <1>2, <1>5, <2>1
  <1>6. ASSUME state # "open", Len(answers) > Answered
        PROVE  SomeTold
    <2>1. Len(answers) \in Answered+1..Len(answers)
          /\ Len(answers) \in DOMAIN answers
      BY <1>1, <1>6
    <2> QED BY <1>2, <1>6, <2>1 DEF SomeTold
  <1> QED BY <1>1, <1>4, <1>5, <1>6 DEF SomeTold, GotFollows

LEMMA GotIsNext == StreamHeld' => GotFollows'
  BY GotIs, PTL

-----------------------------------------------------------------------------
(* The actions of the stream *)

LEMMA StreamSizes ==
    ASSUME StreamHeld
    PROVE  /\ Len(queue) \in Nat /\ Len(pushed) \in Nat /\ Len(answers) \in Nat
           /\ Len(waiters) \in Nat /\ Answered \in Nat
           /\ Answered <= Len(answers) /\ Answered + Len(queue) = Len(pushed)
           /\ DOMAIN answers = 1..Len(answers)
           /\ DOMAIN waiters = 1..Len(waiters)
           /\ waiters # <<>> <=> Len(waiters) > 0
           /\ queue = <<>> <=> Len(queue) = 0
  BY DEF StreamHeld, StreamTypes, CallsInOrder, Answered

\* The oldest call that waits gets the message.
LEMMA GivenToWaiter ==
    ASSUME StreamHeld, NEW m \in 1..MaxLines, state = "open", waiters # <<>>,
           pushed' = Append(pushed, m), UNCHANGED queue,
           NEW calls, calls = [answers EXCEPT ![Head(waiters)] = Message(m)]
    PROVE  /\ Answered = Len(pushed) /\ Answered' = Answered + 1
           /\ Len(queue) = 0
           /\ pushed' \in Seq(1..MaxLines) /\ Len(pushed') = Len(pushed) + 1
           /\ \A k \in 1..Len(pushed) : pushed'[k] = pushed[k]
           /\ calls \in Seq(Answer) /\ Len(calls) = Len(answers)
           /\ Answered + 1 <= Len(answers)
           /\ \A c \in 1..Answered + 1 : calls[c] = Message(pushed'[c])
           /\ \A c \in Answered+2..Len(answers) : calls[c] = Pending
  <1> USE DEF StreamHeld, StreamTypes, CallsInOrder, WaitersInOrder
  <1> DEFINE g == Answered
             n == Len(answers)
  <1>1. /\ g \in Nat /\ n \in Nat /\ Len(waiters) > 0 /\ Len(waiters) = n - g
        /\ DOMAIN answers = 1..n /\ Len(pushed) \in Nat
        /\ g + Len(queue) = Len(pushed)
    BY StreamSizes
  <1>2. queue = <<>> /\ Len(queue) = 0 /\ g = Len(pushed)
    BY <1>1
  <1>3. Head(waiters) = g + 1 /\ g + 1 \in 1..n
    BY <1>1
  <1>4. /\ pushed' \in Seq(1..MaxLines) /\ Len(pushed') = g + 1
        /\ \A k \in 1..g : pushed'[k] = pushed[k]
        /\ pushed'[g + 1] = m
    BY <1>2, AppendProperties
  <1>5. Answered' = g + 1
    BY <1>1, <1>2, <1>4 DEF Answered
  <1>6. Message(m) \in Answer
    BY AnswerFields
  <1>7. /\ calls \in Seq(Answer) /\ Len(calls) = n
        /\ calls[g + 1] = Message(m)
        /\ \A c \in 1..n : c # g + 1 => calls[c] = answers[c]
    <2>1. answers \in [1..n -> Answer] /\ n \in Nat
      BY <1>1
    <2>2. calls = [answers EXCEPT ![g + 1] = Message(m)]
      BY <1>3
    <2>3. /\ calls \in [1..n -> Answer]
          /\ calls[g + 1] = Message(m)
          /\ \A c \in 1..n : c # g + 1 => calls[c] = answers[c]
      BY <1>3, <1>6, <2>1, <2>2
    <2> QED BY <2>1, <2>3
  <1>8. ASSUME NEW c \in 1..g + 1 PROVE calls[c] = Message(pushed'[c])
    <2>1. CASE c = g + 1
      BY <1>4, <1>7, <2>1
    <2>2. CASE c # g + 1
      <3>1. c \in 1..g /\ c \in 1..n
        BY <1>1, <1>3, <2>2
      <3>2. answers[c] = Message(pushed[c])
        BY <3>1
      <3> QED BY <1>4, <1>7, <2>2, <3>1, <3>2
    <2> QED BY <2>1, <2>2
  <1>9. ASSUME NEW c \in g+2..n PROVE calls[c] = Pending
    <2>1. c \in 1..n /\ c # g + 1 /\ c \in g+1..n
      BY <1>1
    <2> QED BY <1>7, <2>1
  <1> QED BY <1>1, <1>2, <1>3, <1>4, <1>5, <1>7, <1>8, <1>9

\* Nobody waits: the message is queued.
LEMMA Queued ==
    ASSUME StreamHeld, NEW m \in 1..MaxLines,
           pushed' = Append(pushed, m), queue' = Append(queue, m)
    PROVE  /\ Answered' = Answered
           /\ pushed' \in Seq(1..MaxLines) /\ Len(pushed') = Len(pushed) + 1
           /\ \A k \in 1..Len(pushed) : pushed'[k] = pushed[k]
           /\ queue' \in Seq(1..MaxLines)
           /\ \A k \in 1..Len(queue') : queue'[k] = pushed'[Answered + k]
  <1> USE DEF StreamHeld, StreamTypes
  <1> DEFINE g == Answered
             p == Len(pushed)
             q == Len(queue)
  <1>1. p \in Nat /\ q \in Nat /\ g \in Nat /\ g + q = p
    BY StreamSizes
  <1>2. /\ pushed' \in Seq(1..MaxLines) /\ Len(pushed') = p + 1
        /\ \A k \in 1..p : pushed'[k] = pushed[k]
        /\ pushed'[p + 1] = m
    BY AppendProperties
  <1>3. /\ queue' \in Seq(1..MaxLines) /\ Len(queue') = q + 1
        /\ \A k \in 1..q : queue'[k] = queue[k]
        /\ queue'[q + 1] = m
    BY AppendProperties
  <1>4. Answered' = g
    BY <1>1, <1>2, <1>3 DEF Answered
  <1>5. ASSUME NEW k \in 1..q + 1 PROVE queue'[k] = pushed'[g + k]
    <2>1. CASE k = q + 1
      <3>1. g + k = p + 1
        BY <1>1, <2>1
      <3> QED BY <1>2, <1>3, <2>1, <3>1
    <2>2. CASE k # q + 1
      <3>1. k \in 1..q /\ g + k \in 1..p
        <4>1. k \in 1..q
          BY <1>1, <1>5, <2>2
        <4>2. k <= q /\ k >= 1 /\ k \in Nat
          BY <1>1, <4>1
        <4> HIDE DEF g, p, q
        <4>3. g + k <= p /\ g + k >= 1 /\ g + k \in Nat
          BY <1>1, <4>2
        <4> QED BY <1>1, <4>1, <4>3
      <3>2. queue[k] = pushed[g + k]
        BY <3>1 DEF CallsInOrder
      <3> QED BY <1>2, <1>3, <3>1, <3>2
    <2> QED BY <2>1, <2>2
  <1> QED BY <1>2, <1>3, <1>4, <1>5

LEMMA PushHeld ==
    ASSUME StreamHeld, NEW m \in 1..MaxLines, Push(m), state = "open"
    PROVE  StreamHeld'
  <1> USE DEF StreamHeld
  <1> DEFINE g == Answered
             n == Len(answers)
  <1>1. /\ g \in Nat /\ n \in Nat /\ g <= n /\ Len(waiters) = n - g
        /\ state' = "open" /\ pushed' = Append(pushed, m) /\ Flush(m)
    BY StreamSizes DEF Push, WaitersInOrder
  <1>2. CASE waiters # <<>>
    <2>1. /\ answers' = [answers EXCEPT ![Head(waiters)] = Message(m)]
          /\ waiters' = Tail(waiters) /\ queue' = queue
      BY <1>1, <1>2 DEF Flush
    <2>2. /\ Answered' = g + 1 /\ Len(queue) = 0 /\ g + 1 <= n
          /\ pushed' \in Seq(1..MaxLines)
          /\ answers' \in Seq(Answer) /\ Len(answers') = n
          /\ \A c \in 1..g + 1 : answers'[c] = Message(pushed'[c])
          /\ \A c \in g+2..n : answers'[c] = Pending
      BY <1>1, <1>2, <2>1, GivenToWaiter
    <2>3. /\ waiters' \in Seq(1..MaxCalls) /\ Len(waiters') = n - (g + 1)
          /\ \A w \in 1..n - (g + 1) : waiters'[w] = waiters[w + 1]
      BY <1>1, <1>2, <2>1 DEF StreamTypes
    <2>4. \A w \in 1..n - (g + 1) : waiters'[w] = g + 1 + w
      <3>1. ASSUME NEW w \in 1..n - (g + 1) PROVE waiters'[w] = g + 1 + w
        <4>1. w + 1 \in 1..Len(waiters) /\ g + (w + 1) = g + 1 + w
          BY <1>1
        <4> QED BY <2>3, <4>1 DEF WaitersInOrder
      <3> QED BY <3>1
    <2>5. StreamTypes'
      BY <1>1, <2>1, <2>2, <2>3 DEF StreamTypes
    <2>6. CallsInOrder'
      <3>1. Answered' + 1 = g + 2 /\ g + 1 \in 0..n
        BY <1>1, <2>2
      <3>2. queue' = <<>>
        BY <2>1, <2>2 DEF StreamTypes
      <3>3. Len(queue') = 0 /\ Answered' \in 0..Len(answers')
        BY <2>1, <2>2, <3>1
      <3>4. \A k \in 1..Len(queue') : queue'[k] = pushed'[Answered' + k]
        BY <3>3
      <3>5. \A c \in Answered'+1..Len(answers') : answers'[c] = Pending
        BY <2>2, <3>1
      <3> QED BY <1>1, <2>2, <3>2, <3>3, <3>4, <3>5 DEF CallsInOrder
    <2> QED BY <1>1, <2>2, <2>3, <2>4, <2>5, <2>6 DEF WaitersInOrder
  <1>3. CASE waiters = <<>>
    <2>1. queue' = Append(queue, m) /\ UNCHANGED <<waiters, answers>>
      BY <1>1, <1>3 DEF Flush
    <2>2. /\ Answered' = g
          /\ pushed' \in Seq(1..MaxLines) /\ Len(pushed') = Len(pushed) + 1
          /\ \A k \in 1..Len(pushed) : pushed'[k] = pushed[k]
          /\ queue' \in Seq(1..MaxLines)
          /\ \A k \in 1..Len(queue') : queue'[k] = pushed'[g + k]
      BY <1>1, <2>1, Queued
    <2>3. g = n
      BY <1>1, <1>3
    <2>4. StreamTypes'
      BY <1>1, <2>1, <2>2 DEF StreamTypes
    <2>5. CallsInOrder'
      <3>1. \A c \in 1..g : c \in 1..Len(pushed)
        BY <2>3, StreamSizes
      <3>2. \A c \in 1..g : answers'[c] = Message(pushed'[c])
        BY <2>1, <2>2, <3>1 DEF CallsInOrder
      <3>3. Answered' \in 0..Len(answers') /\ ~(Len(answers') > Answered')
        BY <1>1, <2>1, <2>2, <2>3
      <3>4. \A c \in Answered'+1..Len(answers') : FALSE
        BY <1>1, <2>1, <2>2, <2>3
      <3> QED BY <2>2, <3>2, <3>3, <3>4 DEF CallsInOrder
    <2> QED BY <1>1, <2>1, <2>2, <2>4, <2>5 DEF WaitersInOrder
  <1> QED BY <1>2, <1>3

LEMMA TellsWhoWaits ==
    ASSUME NEW calls \in Seq(Answer), NEW how \in Over
    PROVE  /\ Told(calls, how) \in Seq(Answer)
           /\ Len(Told(calls, how)) = Len(calls)
           /\ \A c \in 1..Len(calls) :
                /\ calls[c] = Pending => Told(calls, how)[c].what = how
                /\ calls[c] # Pending => Told(calls, how)[c] = calls[c]
  <1> DEFINE told == Told(calls, how)
             n == Len(calls)
  <1>1. /\ n \in Nat /\ DOMAIN calls = 1..n
        /\ \A c \in 1..n : calls[c] \in Answer
        /\ Without(how) \in Answer /\ Without(how).what = how
    BY AnswerFields
  <1>2. told = [c \in 1..n |-> IF calls[c] = Pending THEN Without(how)
                                                     ELSE calls[c]]
    BY <1>1 DEF Told
  <1> HIDE DEF told
  <1>3. told \in [1..n -> Answer]
    BY <1>1, <1>2
  <1>4. told \in Seq(Answer) /\ Len(told) = n
    BY <1>1, <1>3
  <1> QED BY <1>1, <1>2, <1>4 DEF told

LEMMA MessageIsNotPending == \A m : Message(m) # Pending
  <1>1. "message" # "pending"
    OBVIOUS
  <1> QED BY <1>1, AnswerFields

LEMMA FinishHeld ==
    ASSUME StreamHeld, NEW how \in Over, Finish(how), state = "open"
    PROVE  StreamHeld'
  <1> USE DEF StreamHeld
  <1> DEFINE g == Answered
             n == Len(answers)
  <1>1. /\ g \in Nat /\ n \in Nat /\ g <= n /\ Len(queue) \in Nat
        /\ state' = how /\ waiters' = <<>> /\ UNCHANGED <<queue, pushed>>
        /\ answers' = Told(answers, how) /\ answers \in Seq(Answer)
    BY StreamSizes DEF Finish, StreamTypes
  <1>2. Answered' = g /\ state' # "open"
    BY <1>1 DEF Answered
  <1>3. /\ answers' \in Seq(Answer) /\ Len(answers') = n
        /\ \A c \in 1..n :
             /\ answers[c] = Pending => answers'[c].what = how
             /\ answers[c] # Pending => answers'[c] = answers[c]
    BY <1>1, TellsWhoWaits
  <1>4. StreamTypes'
    BY <1>1, <1>3 DEF StreamTypes
  <1>5. \A c \in 1..g : answers'[c] = Message(pushed[c])
    <2>1. \A c \in 1..g : c \in 1..n /\ answers[c] = Message(pushed[c])
      BY <1>1 DEF CallsInOrder
    <2> QED BY <1>3, <2>1, MessageIsNotPending
  <1>6. \A c \in g+1..n : answers'[c].what \in Over
    <2>1. \A c \in g+1..n : c \in 1..n /\ answers[c] = Pending
      BY <1>1 DEF CallsInOrder
    <2> QED BY <1>3, <2>1
  <1>7. CallsInOrder'
    BY <1>1, <1>2, <1>3, <1>5, <1>6 DEF CallsInOrder
  <1>8. WaitersInOrder'
    BY <1>1, <1>2 DEF WaitersInOrder
  <1> QED BY <1>4, <1>7, <1>8

LEMMA PushLastHeld ==
    ASSUME StreamHeld, NEW m \in 1..MaxLines, PushLast(m), state = "open"
    PROVE  StreamHeld'
  <1> USE DEF StreamHeld
  <1> DEFINE g == Answered
             n == Len(answers)
  <1>1. /\ g \in Nat /\ n \in Nat /\ g <= n /\ Len(waiters) = n - g
        /\ state' = "end" /\ waiters' = <<>> /\ pushed' = Append(pushed, m)
        /\ "end" \in Over /\ state' # "open"
    BY StreamSizes DEF PushLast, WaitersInOrder
  <1>8. WaitersInOrder'
    BY <1>1 DEF WaitersInOrder
  <1>2. CASE waiters # <<>>
    <2> DEFINE calls == [answers EXCEPT ![Head(waiters)] = Message(m)]
    <2>1. answers' = Told(calls, "end") /\ queue' = queue
      BY <1>2 DEF PushLast
    <2>2. /\ Answered' = g + 1 /\ Len(queue) = 0 /\ g + 1 <= n
          /\ pushed' \in Seq(1..MaxLines)
          /\ calls \in Seq(Answer) /\ Len(calls) = n
          /\ \A c \in 1..g + 1 : calls[c] = Message(pushed'[c])
          /\ \A c \in g+2..n : calls[c] = Pending
      BY <1>1, <1>2, <2>1, GivenToWaiter
    <2> HIDE DEF calls
    <2>3. /\ answers' \in Seq(Answer) /\ Len(answers') = n
          /\ \A c \in 1..n :
               /\ calls[c] = Pending => answers'[c].what = "end"
               /\ calls[c] # Pending => answers'[c] = calls[c]
      BY <1>1, <2>1, <2>2, TellsWhoWaits
    <2>4. StreamTypes'
      BY <1>1, <2>1, <2>2, <2>3 DEF StreamTypes
    <2>5. \A c \in 1..g + 1 : answers'[c] = Message(pushed'[c])
      <3>1. \A c \in 1..g + 1 : c \in 1..n
        BY <1>1, <2>2
      <3> QED BY <2>2, <2>3, <3>1, MessageIsNotPending
    <2>6. \A c \in Answered'+1..n : answers'[c].what \in Over
      <3>1. Answered' + 1 = g + 2 /\ \A c \in g+2..n : c \in 1..n
        BY <1>1, <2>2
      <3> QED BY <1>1, <2>2, <2>3, <3>1
    <2>7. CallsInOrder'
      <3>1. queue' = <<>> /\ Len(queue') = 0
        BY <2>1, <2>2 DEF StreamTypes
      <3>2. Answered' \in 0..Len(answers')
        BY <1>1, <2>2, <2>3
      <3>3. \A k \in 1..Len(queue') : queue'[k] = pushed'[Answered' + k]
        BY <3>1
      <3>4. \A c \in 1..Answered' : answers'[c] = Message(pushed'[c])
        BY <2>2, <2>5
      <3>5. \A c \in Answered'+1..Len(answers') : answers'[c].what \in Over
        BY <2>3, <2>6
      <3> QED BY <1>1, <3>1, <3>2, <3>3, <3>4, <3>5 DEF CallsInOrder
    <2> QED BY <1>8, <2>4, <2>7
  <1>3. CASE waiters = <<>>
    <2>1. queue' = Append(queue, m) /\ UNCHANGED answers
      BY <1>3 DEF PushLast
    <2>2. /\ Answered' = g
          /\ pushed' \in Seq(1..MaxLines) /\ Len(pushed') = Len(pushed) + 1
          /\ \A k \in 1..Len(pushed) : pushed'[k] = pushed[k]
          /\ queue' \in Seq(1..MaxLines)
          /\ \A k \in 1..Len(queue') : queue'[k] = pushed'[g + k]
      BY <1>1, <2>1, Queued
    <2>3. g = n
      BY <1>1, <1>3
    <2>4. StreamTypes'
      BY <1>1, <2>1, <2>2 DEF StreamTypes
    <2>5. CallsInOrder'
      <3>1. \A c \in 1..g : c \in 1..Len(pushed)
        BY <2>3, StreamSizes
      <3>2. \A c \in 1..g : answers'[c] = Message(pushed'[c])
        BY <2>1, <2>2, <3>1 DEF CallsInOrder
      <3>3. Answered' \in 0..Len(answers') /\ ~(Len(answers') > Answered')
        BY <1>1, <2>1, <2>2, <2>3
      <3>4. \A c \in Answered'+1..Len(answers') : FALSE
        BY <1>1, <2>1, <2>2, <2>3
      <3> QED BY <2>2, <3>2, <3>3, <3>4 DEF CallsInOrder
    <2> QED BY <1>8, <2>4, <2>5
  <1> QED BY <1>2, <1>3

\* A further answer leaves the earlier ones.
LEMMA Answers ==
    ASSUME StreamHeld, NEW a \in Answer, answers' = Append(answers, a),
           Len(answers) < MaxCalls
    PROVE  /\ answers' \in Seq(Answer) /\ Len(answers') = Len(answers) + 1
           /\ Len(answers') <= MaxCalls
           /\ \A c \in 1..Len(answers) : answers'[c] = answers[c]
           /\ answers'[Len(answers) + 1] = a
           /\ \A c \in Answered+1..Len(answers') :
                c # Len(answers) + 1 => c \in Answered+1..Len(answers)
           /\ \A c \in 1..Answered : answers'[c] = Message(pushed[c])
  <1>1. answers \in Seq(Answer) /\ Len(answers) \in Nat /\ Answered \in Nat
        /\ Answered <= Len(answers)
    BY StreamSizes DEF StreamHeld, StreamTypes
  <1>2. /\ answers' \in Seq(Answer) /\ Len(answers') = Len(answers) + 1
        /\ \A c \in 1..Len(answers) : answers'[c] = answers[c]
        /\ answers'[Len(answers) + 1] = a
    BY <1>1, AppendProperties
  <1>3. \A c \in 1..Answered : /\ answers'[c] = answers[c]
                               /\ answers[c] = Message(pushed[c])
    BY <1>1, <1>2 DEF StreamHeld, CallsInOrder
  <1> QED BY <1>1, <1>2, <1>3

LEMMA NextHeld == ASSUME StreamHeld, NextCall PROVE StreamHeld'
  <1> USE DEF StreamHeld
  <1> DEFINE g == Answered
             n == Len(answers)
             q == Len(queue)
  <1>1. /\ g \in Nat /\ n \in Nat /\ q \in Nat /\ g <= n
        /\ g + q = Len(pushed) /\ n < MaxCalls /\ Len(pushed) \in Nat
        /\ UNCHANGED <<state, pushed>>
    BY StreamSizes DEF NextCall
  <1>2. CASE queue # <<>>
    <2>1. /\ answers' = Append(answers, Message(Head(queue)))
          /\ queue' = Tail(queue) /\ UNCHANGED waiters
      BY <1>2 DEF NextCall
    <2>2. q > 0 /\ n = g
      BY <1>1, <1>2 DEF StreamTypes, CallsInOrder
    <2>3. Head(queue) = pushed[g + 1] /\ Head(queue) \in 1..MaxLines
      <3>1. 1 \in 1..q /\ Head(queue) = queue[1]
        BY <1>1, <2>2
      <3> QED BY <3>1 DEF CallsInOrder, StreamTypes
    <2>4. /\ queue' \in Seq(1..MaxLines) /\ Len(queue') = q - 1
          /\ \A k \in 1..q - 1 : queue'[k] = queue[k + 1]
      BY <1>1, <1>2, <2>1 DEF StreamTypes
    <2>5. Answered' = g + 1
      BY <1>1, <2>4 DEF Answered
    <2>6. /\ answers' \in Seq(Answer) /\ Len(answers') = g + 1
          /\ Len(answers') <= MaxCalls
          /\ \A c \in 1..g : answers'[c] = Message(pushed[c])
          /\ answers'[g + 1] = Message(pushed[g + 1])
      <3>1. Message(Head(queue)) \in Answer
        BY <2>3, AnswerFields
      <3> QED BY <1>1, <2>1, <2>2, <2>3, <3>1, Answers
    <2>7. \A c \in 1..g + 1 : answers'[c] = Message(pushed'[c])
      <3>1. \A c \in 1..g + 1 : c \in 1..g \/ c = g + 1
        BY <1>1
      <3> QED BY <1>1, <2>6, <3>1
    <2>8. \A k \in 1..q - 1 : queue'[k] = pushed'[g + 1 + k]
      <3>1. ASSUME NEW k \in 1..q - 1 PROVE queue'[k] = pushed'[g + 1 + k]
        <4>1. k + 1 \in 1..q /\ g + (k + 1) = g + 1 + k
          BY <1>1
        <4>2. queue[k + 1] = pushed[g + (k + 1)]
          BY <4>1 DEF CallsInOrder
        <4> QED BY <1>1, <2>4, <4>1, <4>2
      <3> QED BY <3>1
    <2>9. CallsInOrder'
      <3>1. Answered' \in 0..Len(answers') /\ ~(Len(answers') > Answered')
            /\ \A c \in Answered'+1..Len(answers') : FALSE
        BY <1>1, <2>5, <2>6
      <3> QED BY <2>4, <2>5, <2>7, <2>8, <3>1 DEF CallsInOrder
    <2>10. WaitersInOrder'
      <3>1. Len(waiters) = 0
        BY <1>1, <2>2 DEF WaitersInOrder
      <3>2. \A w \in 1..Len(waiters') : FALSE
        BY <2>1, <3>1
      <3>3. Len(answers') - Answered' = 0
        BY <1>1, <2>5, <2>6
      <3> QED BY <2>1, <3>1, <3>2, <3>3 DEF WaitersInOrder
    <2>11. StreamTypes'
      BY <1>1, <2>1, <2>4, <2>6 DEF StreamTypes
    <2> QED BY <2>9, <2>10, <2>11
  <1>3. CASE queue = <<>> /\ state # "open"
    <2>1. /\ answers' = Append(answers, Without(state))
          /\ UNCHANGED <<queue, waiters>> /\ state \in Over
      BY <1>3 DEF NextCall, StreamTypes
    <2>2. Answered' = g
      BY <1>1, <2>1 DEF Answered
    <2>3. Without(state) \in Answer /\ Without(state).what = state
      BY <2>1, AnswerFields
    <2>4. /\ answers' \in Seq(Answer) /\ Len(answers') = n + 1
          /\ Len(answers') <= MaxCalls
          /\ \A c \in 1..n : answers'[c] = answers[c]
          /\ answers'[n + 1].what = state
          /\ \A c \in g+1..n + 1 : c # n + 1 => c \in g+1..n
          /\ \A c \in 1..g : answers'[c] = Message(pushed[c])
      BY <1>1, <2>1, <2>3, Answers
    <2>5. \A c \in g+1..n + 1 : answers'[c].what \in Over
      <3>1. \A c \in g+1..n : c \in 1..n /\ answers[c].what \in Over
        BY <1>1, <1>3 DEF CallsInOrder
      <3> QED BY <2>1, <2>4, <3>1
    <2>6. CallsInOrder'
      <3>1. Answered' \in 0..Len(answers')
        BY <1>1, <2>2, <2>4
      <3> QED BY <1>1, <1>3, <2>1, <2>2, <2>4, <2>5, <3>1 DEF CallsInOrder
    <2>7. WaitersInOrder'
      BY <1>1, <1>3, <2>1, <2>2 DEF WaitersInOrder
    <2>8. StreamTypes'
      BY <1>1, <2>1, <2>4 DEF StreamTypes
    <2> QED BY <2>6, <2>7, <2>8
  <1>4. CASE queue = <<>> /\ state = "open"
    <2>1. /\ answers' = Append(answers, Pending)
          /\ waiters' = Append(waiters, n + 1) /\ UNCHANGED queue
      BY <1>4 DEF NextCall
    <2>2. Answered' = g
      BY <1>1, <2>1 DEF Answered
    <2>3. /\ answers' \in Seq(Answer) /\ Len(answers') = n + 1
          /\ Len(answers') <= MaxCalls
          /\ \A c \in 1..n : answers'[c] = answers[c]
          /\ answers'[n + 1] = Pending
          /\ \A c \in g+1..n + 1 : c # n + 1 => c \in g+1..n
          /\ \A c \in 1..g : answers'[c] = Message(pushed[c])
      BY <1>1, <2>1, AnswerFields, Answers
    <2>4. \A c \in g+1..n + 1 : answers'[c] = Pending
      <3>1. \A c \in g+1..n : c \in 1..n /\ answers[c] = Pending
        BY <1>1, <1>4 DEF CallsInOrder
      <3> QED BY <2>3, <3>1
    <2>5. CallsInOrder'
      <3>1. Answered' \in 0..Len(answers')
        BY <1>1, <2>2, <2>3
      <3> QED BY <1>1, <1>4, <2>1, <2>2, <2>3, <2>4, <3>1 DEF CallsInOrder
    <2>6. /\ waiters \in Seq(1..MaxCalls) /\ Len(waiters) = n - g
          /\ n + 1 \in 1..MaxCalls
          /\ \A w \in 1..n - g : waiters[w] = g + w
      BY <1>1, <1>4 DEF StreamTypes, WaitersInOrder
    <2>7. /\ waiters' \in Seq(1..MaxCalls) /\ Len(waiters') = n - g + 1
          /\ \A w \in 1..n - g : waiters'[w] = waiters[w]
          /\ waiters'[n - g + 1] = n + 1
      BY <2>1, <2>6, AppendProperties
    <2>8. \A w \in 1..n - g + 1 : waiters'[w] = g + w
      <3>1. \A w \in 1..n - g + 1 : w \in 1..n - g \/ w = n - g + 1
        BY <1>1
      <3>2. g + (n - g + 1) = n + 1
        BY <1>1
      <3> QED BY <2>6, <2>7, <3>1, <3>2
    <2>9. WaitersInOrder'
      <3>1. Len(waiters') = Len(answers') - Answered'
        BY <1>1, <2>2, <2>3, <2>7
      <3> QED BY <1>1, <1>4, <2>2, <2>7, <2>8, <3>1 DEF WaitersInOrder
    <2>10. StreamTypes'
      BY <1>1, <2>1, <2>3, <2>7 DEF StreamTypes
    <2> QED BY <2>5, <2>9, <2>10
  <1> QED BY <1>2, <1>3, <1>4

-----------------------------------------------------------------------------
(* The lines of the child *)

ProcessTypes ==
    /\ windows \in BOOLEAN
    /\ leader \in {"alive", "none", "dead"}
    /\ descendants \in BOOLEAN
    /\ noise \in 0..MaxNoise
    /\ stderrLines \in Seq(1..MaxNoise) /\ Len(stderrLines) <= Kept
    /\ noticed \in 0..noise
    /\ closed \in BOOLEAN
    /\ killTimer \in {"none", "armed"}
    /\ exitSeen \in BOOLEAN
    /\ failures \in 0..1
    /\ host \in {"here", "gone"}

LineTypes ==
    /\ written \in Seq(0..MaxLines) /\ Len(written) <= MaxLines
    /\ chunk \in Seq(0..MaxLines)
    /\ read \in 0..Len(written) /\ Len(chunk) <= read
    /\ delivered \in Seq(1..MaxLines)

\* A good line has its number, and the chunk is the last part of what was read.
LinesHeld ==
    /\ \A k \in 1..Len(written) : written[k] \in {0, k}
    /\ \A k \in 1..Len(chunk) : chunk[k] = written[Handled + k]

\* A failure is told once: it closes the transport.
FailureCloses == failures = 1 => closed

ChildHeld == /\ StreamHeld
             /\ ProcessTypes
             /\ LineTypes
             /\ LinesHeld
             /\ FailureCloses
             /\ BadLineCloses
             /\ LinesInOrder

LEMMA ChildInit == Init => ChildHeld
  <1> SUFFICES ASSUME Init PROVE ChildHeld
    OBVIOUS
  <1>1. /\ queue = <<>> /\ waiters = <<>> /\ pushed = <<>> /\ answers = <<>>
        /\ state = "open" /\ written = <<>> /\ chunk = <<>> /\ read = 0
        /\ delivered = <<>> /\ stderrLines = <<>>
    BY DEF Init, StreamInit
  <1>2. /\ Len(queue) = 0 /\ Len(waiters) = 0 /\ Len(pushed) = 0
        /\ Len(answers) = 0 /\ Len(written) = 0 /\ Len(chunk) = 0
        /\ Len(delivered) = 0 /\ Len(stderrLines) = 0
        /\ DOMAIN delivered = {}
    BY <1>1
  <1>3. Answered = 0 /\ Handled = 0
    <2>1. Len(pushed) - Len(queue) = 0
      BY <1>2
    <2>2. 0 - 0 = 0
      OBVIOUS
    <2>3. read - Len(chunk) = 0
      BY <1>1, <1>2, <2>2, Zenon
    <2> QED BY <2>1, <2>3 DEF Answered, Handled
  <1>4. StreamHeld
    BY <1>1, <1>2, <1>3 DEF StreamHeld, StreamTypes, CallsInOrder,
       WaitersInOrder
  <1>5. ProcessTypes /\ LineTypes
    <2>1. /\ 0 \in 0..MaxNoise /\ 0 \in 0..0 /\ 0 \in 0..1 /\ 0 <= Kept
          /\ 0 <= MaxLines
      OBVIOUS
    <2>2. /\ <<>> \in Seq(1..MaxNoise) /\ <<>> \in Seq(0..MaxLines)
          /\ <<>> \in Seq(1..MaxLines)
      OBVIOUS
    <2>3. LineTypes
      BY <1>1, <1>2, <2>1, <2>2 DEF LineTypes
    <2>4. ProcessTypes
      BY <1>1, <1>2, <2>1, <2>2 DEF Init, ProcessTypes
    <2> QED BY <2>3, <2>4
  <1>6. BadLineCloses /\ LinesInOrder
    BY <1>2, <1>3 DEF BadLineCloses, LinesInOrder
  <1> QED BY <1>2, <1>4, <1>5, <1>6 DEF Init, ChildHeld, LinesHeld,
          FailureCloses

\* Nothing is written, read or handled.
LEMMA LinesStay ==
    ASSUME ChildHeld, UNCHANGED <<written, chunk, read, delivered>>,
           closed => closed'
    PROVE  LineTypes' /\ LinesHeld' /\ BadLineCloses' /\ LinesInOrder'
  <1>1. Handled' = Handled
    BY DEF Handled
  <1> QED BY <1>1 DEF ChildHeld, LineTypes, LinesHeld, BadLineCloses,
          LinesInOrder

LEMMA ReadLines ==
    ASSUME ChildHeld, NEW n \in 1..MaxLines, ReadChunk(n)
    PROVE  LineTypes' /\ LinesHeld' /\ BadLineCloses' /\ LinesInOrder'
  <1> USE DEF ChildHeld
  <1>1. /\ chunk = <<>> /\ read + n <= Len(written)
        /\ chunk' = SubSeq(written, read + 1, read + n) /\ read' = read + n
        /\ UNCHANGED <<written, delivered, closed>>
    BY DEF ReadChunk, Idle, processVars, closeVars
  <1>2. /\ Len(written) \in Nat /\ read \in Nat /\ n \in Nat
        /\ written \in Seq(0..MaxLines) /\ Len(chunk) = 0
    BY <1>1 DEF LineTypes
  <1>3. /\ chunk' \in Seq(0..MaxLines) /\ Len(chunk') = n
        /\ \A k \in 1..n : chunk'[k] = written[read + k]
    BY <1>1, <1>2
  <1>4. Handled = read /\ Handled' = read
    BY <1>1, <1>2, <1>3 DEF Handled
  <1>5. LineTypes'
    <2>1. read + n \in 0..Len(written) /\ n <= read + n
      BY <1>1, <1>2
    <2>2. /\ written' \in Seq(0..MaxLines) /\ Len(written') <= MaxLines
          /\ delivered' \in Seq(1..MaxLines)
      BY <1>1 DEF LineTypes
    <2> QED BY <1>1, <1>3, <2>1, <2>2 DEF LineTypes
  <1>6. LinesHeld'
    BY <1>1, <1>3, <1>4 DEF LinesHeld
  <1>7. BadLineCloses' /\ LinesInOrder'
    BY <1>1, <1>4 DEF BadLineCloses, LinesInOrder
  <1> QED BY <1>5, <1>6, <1>7

LEMMA WriteLines ==
    ASSUME ChildHeld, NEW line \in 0..MaxLines, ChildWrites(line)
    PROVE  LineTypes' /\ LinesHeld' /\ BadLineCloses' /\ LinesInOrder'
  <1> USE DEF ChildHeld
  <1>1. /\ Len(written) < MaxLines /\ line \in {0, Len(written) + 1}
        /\ written' = Append(written, line)
        /\ UNCHANGED <<chunk, read, delivered, closed>>
    BY DEF ChildWrites, readerVars, closeVars
  <1>2. /\ Len(written) \in Nat /\ read \in Nat /\ Len(chunk) \in Nat
        /\ Len(chunk) <= read /\ read <= Len(written)
    BY DEF LineTypes
  <1>3. /\ written' \in Seq(0..MaxLines) /\ Len(written') = Len(written) + 1
        /\ \A k \in 1..Len(written) : written'[k] = written[k]
        /\ written'[Len(written) + 1] = line
    BY <1>1, AppendProperties DEF LineTypes
  <1>4. Handled' = Handled /\ Handled + Len(chunk) = read /\ Handled \in Nat
    BY <1>1, <1>2 DEF Handled
  <1>5. LineTypes'
    BY <1>1, <1>2, <1>3 DEF LineTypes
  <1>6. LinesHeld'
    <2>1. ASSUME NEW k \in 1..Len(written) + 1 PROVE written'[k] \in {0, k}
      <3>1. k \in 1..Len(written) \/ k = Len(written) + 1
        BY <1>2
      <3> QED BY <1>1, <1>3, <3>1 DEF LinesHeld
    <2>2. ASSUME NEW k \in 1..Len(chunk)
          PROVE  chunk[k] = written'[Handled + k]
      <3>1. Handled + k \in 1..Len(written)
        BY <1>2, <1>4
      <3> QED BY <1>3, <3>1 DEF LinesHeld
    <2> QED BY <1>1, <1>3, <1>4, <2>1, <2>2 DEF LinesHeld
  <1>7. \A k \in 1..Handled : k \in 1..Len(written)
    BY <1>2, <1>4
  <1>8. \A k \in 1..Handled : written'[k] = written[k]
    BY <1>3, <1>7
  <1>9. BadLineCloses'
    BY <1>1, <1>4, <1>8 DEF BadLineCloses
  <1>10. LinesInOrder'
    BY <1>1, <1>4, <1>8 DEF LinesInOrder
  <1> QED BY <1>5, <1>6, <1>9, <1>10

\* Only what the transport does to a line that does not parse closes it here.
LEMMA CloseSteps ==
    /\ close => closed' /\ (closed => UNCHANGED closeVars)
    /\ fail => closed' /\ (closed => UNCHANGED closeVars)
  BY DEF close, fail, Shut, closeVars

LEMMA TakeLine ==
    ASSUME ChildHeld, NEW reaction \in Reaction, HandleLine(reaction)
    PROVE  /\ LineTypes' /\ LinesHeld' /\ BadLineCloses' /\ LinesInOrder'
           /\ Head(chunk) \in 0..MaxLines
  <1> USE DEF ChildHeld
  <1> DEFINE line == Head(chunk)
             h == Handled
             c == Len(chunk)
  <1>1. /\ chunk # <<>> /\ chunk' = Tail(chunk) /\ delivered' = Given(line)
        /\ UNCHANGED <<written, read>>
    BY DEF HandleLine, processVars
  <1>2. /\ Len(written) \in Nat /\ read \in Nat /\ c \in Nat /\ c > 0
        /\ c <= read /\ read <= Len(written) /\ Len(written) <= MaxLines
        /\ chunk \in Seq(0..MaxLines) /\ delivered \in Seq(1..MaxLines)
    BY <1>1 DEF LineTypes
  <1>3. /\ h + c = read /\ h \in Nat /\ h + 1 \in 1..Len(written)
        /\ 1 \in 1..c
    BY <1>2 DEF Handled
  <1>4. /\ line = written[h + 1] /\ line \in 0..MaxLines
        /\ line \in {0, h + 1}
    <2>1. line = chunk[1] /\ chunk[1] \in 0..MaxLines
      BY <1>2, <1>3
    <2> QED BY <1>3, <2>1 DEF LinesHeld
  <1>5. /\ chunk' \in Seq(0..MaxLines) /\ Len(chunk') = c - 1
        /\ \A k \in 1..c - 1 : chunk'[k] = chunk[k + 1]
    BY <1>1, <1>2
  <1>6. Handled' = h + 1
    BY <1>1, <1>2, <1>3, <1>5 DEF Handled
  <1>7. line = 0 => closed'
    BY CloseSteps DEF HandleLine
  <1>8. closed => closed'
    BY CloseSteps DEF HandleLine, React, closeVars
  <1> HIDE DEF line
  <1>9. ASSUME line = 0 PROVE LinesInOrder'
    <2>1. delivered' = delivered
      BY <1>1, <1>9 DEF Given
    <2>2. ASSUME NEW n \in 1..MaxLines
          PROVE  (\E k \in 1..h + 1 : written[k] = n)
                   <=> (\E k \in 1..h : written[k] = n)
      <3>1. \A k \in 1..h + 1 : k \in 1..h \/ k = h + 1
        BY <1>3
      <3>2. \A k \in 1..h : k \in 1..h + 1
        BY <1>3
      <3>3. written[h + 1] # n
        BY <1>4, <1>9
      <3> QED BY <3>1, <3>2, <3>3
    <2>3. \A j, k \in DOMAIN delivered' : j < k => delivered'[j] < delivered'[k]
      BY <2>1 DEF LinesInOrder
    <2>4. ASSUME NEW n \in 1..MaxLines
          PROVE  (\E k \in DOMAIN delivered' : delivered'[k] = n)
                   <=> (\E k \in 1..Handled' : written'[k] = n)
      BY <1>1, <1>6, <2>1, <2>2 DEF LinesInOrder
    <2> QED BY <2>3, <2>4 DEF LinesInOrder
  <1>10. LineTypes' /\ LinesInOrder'
    <2>1. CASE line = 0
      <3>1. delivered' = delivered
        BY <1>1, <2>1 DEF Given
      <3> QED BY <1>1, <1>2, <1>5, <1>9, <2>1, <3>1 DEF LineTypes
    <2>2. CASE line # 0
      <3> DEFINE d == Len(delivered)
      <3>1. line = h + 1 /\ line \in 1..MaxLines
        BY <1>2, <1>3, <1>4, <2>2
      <3>2. delivered' = Append(delivered, line)
        BY <1>1, <2>2 DEF Given
      <3>3. /\ delivered' \in Seq(1..MaxLines) /\ Len(delivered') = d + 1
            /\ \A j \in 1..d : delivered'[j] = delivered[j]
            /\ delivered'[d + 1] = line
        BY <1>2, <3>1, <3>2, AppendProperties
      <3>4. d \in Nat /\ DOMAIN delivered = 1..d /\ DOMAIN delivered' = 1..d + 1
        BY <1>2, <3>3
      <3>5. ASSUME NEW j \in 1..d PROVE delivered[j] < line
        <4>1. delivered[j] \in 1..MaxLines
          BY <1>2
        <4>2. PICK k \in 1..h : written[k] = delivered[j]
          BY <3>4, <4>1 DEF LinesInOrder
        <4>3. written[k] \in {0, k} /\ k <= h
          BY <1>3 DEF LinesHeld
        <4>4. delivered[j] = k
          BY <4>1, <4>2, <4>3
        <4> QED BY <1>3, <3>1, <4>3, <4>4
      <3>6. ASSUME NEW j \in 1..d + 1, NEW k \in 1..d + 1, j < k
            PROVE  delivered'[j] < delivered'[k]
        <4>1. j \in 1..d
          BY <3>4, <3>6
        <4>2. CASE k \in 1..d
          BY <3>3, <3>4, <3>6, <4>1, <4>2 DEF LinesInOrder
        <4>3. CASE k = d + 1
          BY <3>3, <3>5, <4>1, <4>3
        <4> QED BY <3>4, <3>6, <4>2, <4>3
      <3>7. ASSUME NEW n \in 1..MaxLines
            PROVE  (\E k \in 1..d + 1 : delivered'[k] = n)
                     <=> (\E k \in 1..h + 1 : written[k] = n)
        <4>1. (\E k \in 1..d : delivered[k] = n)
                <=> (\E k \in 1..h : written[k] = n)
          BY <3>4 DEF LinesInOrder
        <4>2. (\E k \in 1..d + 1 : delivered'[k] = n)
                <=> (\E k \in 1..d : delivered[k] = n) \/ n = line
          BY <3>3, <3>4
        <4>3. (\E k \in 1..h + 1 : written[k] = n)
                <=> (\E k \in 1..h : written[k] = n) \/ n = line
          BY <1>3, <1>4
        <4> QED BY <4>1, <4>2, <4>3
      <3>8. LinesInOrder'
        BY <1>1, <1>6, <3>4, <3>6, <3>7 DEF LinesInOrder
      <3> QED BY <1>1, <1>2, <1>5, <3>3, <3>8 DEF LineTypes
    <2> QED BY <2>1, <2>2
  <1>11. LinesHeld'
    <2>1. ASSUME NEW k \in 1..c - 1
          PROVE  chunk'[k] = written[h + 1 + k]
      <3>1. k + 1 \in 1..c /\ h + (k + 1) = h + 1 + k
        BY <1>2, <1>3
      <3>2. chunk[k + 1] = written[h + (k + 1)]
        BY <3>1 DEF LinesHeld
      <3> QED BY <1>5, <3>1, <3>2
    <2> QED BY <1>1, <1>5, <1>6, <2>1 DEF LinesHeld
  <1>12. BadLineCloses'
    <2>1. ASSUME NEW k \in 1..h + 1, written[k] = 0 PROVE closed'
      <3>1. k \in 1..h \/ k = h + 1
        BY <1>3
      <3> QED BY <1>4, <1>7, <1>8, <2>1, <3>1 DEF BadLineCloses
    <2> QED BY <1>1, <1>6, <2>1 DEF BadLineCloses
  <1> QED BY <1>4, <1>10, <1>11, <1>12 DEF line

-----------------------------------------------------------------------------
(* The steps *)

\* What a step does to the stream.
StreamMove ==
    \/ UNCHANGED streamVars
    \/ \E m \in 1..MaxLines : (Push(m) \/ PushLast(m)) /\ state = "open"
    \/ \E how \in Over : Finish(how) /\ state = "open"
    \/ NextCall

LEMMA StreamMoveHeld == StreamHeld /\ StreamMove => StreamHeld'
  <1>1. ASSUME StreamHeld, UNCHANGED streamVars PROVE StreamHeld'
    BY <1>1 DEF streamVars, StreamHeld, StreamTypes, CallsInOrder,
       WaitersInOrder, Answered
  <1> QED BY <1>1, PushHeld, PushLastHeld, FinishHeld, NextHeld
          DEF StreamMove

LEMMA EffectiveCalls ==
    /\ \A m \in 1..MaxLines : Push(m) \/ PushLast(m) => StreamMove
    /\ \A how \in Over : Finish(how) => StreamMove
  BY DEF StreamMove, Push, PushLast, Finish

CloseTypes == /\ closed \in BOOLEAN
              /\ killTimer \in {"none", "armed"}
              /\ failures \in 0..1
              /\ FailureCloses

LEMMA Closing ==
    ASSUME ProcessTypes, FailureCloses, close \/ fail
    PROVE  CloseTypes' /\ StreamMove
  <1>1. CASE closed
    BY <1>1 DEF close, fail, closeVars, CloseTypes, ProcessTypes,
       FailureCloses, StreamMove
  <1>2. CASE ~closed
    <2>1. failures = 0
      BY <1>2 DEF ProcessTypes, FailureCloses
    <2>2. Shut /\ failures' \in 0..1
      BY <1>2, <2>1 DEF close, fail
    <2>3. Finish("error")
      BY <2>2 DEF Shut
    <2> QED BY <2>2, <2>3, EffectiveCalls DEF Shut, CloseTypes, FailureCloses
  <1> QED BY <1>1, <1>2

LEMMA NotClosing ==
    ASSUME ProcessTypes, FailureCloses, UNCHANGED closeVars
    PROVE  CloseTypes'
  BY DEF closeVars, CloseTypes, ProcessTypes, FailureCloses

LEMMA TakenLine ==
    ASSUME ChildHeld, NEW reaction \in Reaction, HandleLine(reaction)
    PROVE  ProcessTypes' /\ FailureCloses' /\ StreamMove
  <1> USE DEF ChildHeld
  <1> DEFINE line == Head(chunk)
  <1>1. line \in 0..MaxLines
    BY TakeLine
  <1> HIDE DEF line
  <1>2. CloseTypes' /\ StreamMove
    <2>1. CASE fail
      BY <2>1, Closing
    <2>2. CASE UNCHANGED <<closeVars, streamVars>>
      BY <2>2, NotClosing DEF StreamMove
    <2>3. CASE line # 0 /\ React(line, reaction)
      <3>1. line \in 1..MaxLines
        BY <1>1, <2>3
      <3>2. CASE Push(line) /\ UNCHANGED closeVars
        BY <3>1, <3>2, EffectiveCalls, NotClosing
      <3>3. CASE PushLast(line) /\ UNCHANGED closeVars
        BY <3>1, <3>3, EffectiveCalls, NotClosing
      <3>4. CASE Finish("error") /\ UNCHANGED closeVars
        BY <3>4, EffectiveCalls, NotClosing
      <3>5. CASE close \/ fail
        BY <3>5, Closing
      <3> QED BY <2>3, <3>2, <3>3, <3>4, <3>5 DEF React
    <2> QED BY <2>1, <2>2, <2>3 DEF HandleLine, line
  <1>3. UNCHANGED <<windows, leader, descendants, noise, stderrLines, noticed,
                    exitSeen, host>>
    BY DEF HandleLine, processVars, stderrVars
  <1> QED BY <1>2, <1>3 DEF CloseTypes, ProcessTypes

LEMMA KeptLines ==
    ASSUME ChildHeld, ReadStderr
    PROVE  ProcessTypes' /\ FailureCloses'
  <1> USE DEF ChildHeld
  <1> DEFINE lines == Append(stderrLines, noticed + 1)
  <1>1. /\ stderrLines \in Seq(1..MaxNoise) /\ Len(stderrLines) <= Kept
        /\ noticed + 1 \in 1..MaxNoise /\ noticed + 1 \in 0..noise
        /\ Len(stderrLines) \in Nat /\ Kept \in Nat
    BY DEF ReadStderr, ProcessTypes
  <1>2. lines \in Seq(1..MaxNoise) /\ Len(lines) = Len(stderrLines) + 1
        /\ lines # <<>>
    BY <1>1, AppendProperties
  <1>3. Tail(lines) \in Seq(1..MaxNoise) /\ Len(Tail(lines)) = Len(stderrLines)
    BY <1>1, <1>2
  <1>4. stderrLines' = IF Len(lines) > Kept THEN Tail(lines) ELSE lines
    BY DEF ReadStderr
  <1> HIDE DEF lines
  <1>5. stderrLines' \in Seq(1..MaxNoise) /\ Len(stderrLines') <= Kept
    <2>1. CASE Len(lines) > Kept
      BY <1>1, <1>3, <1>4, <2>1
    <2>2. CASE ~(Len(lines) > Kept)
      <3>1. Len(lines) <= Kept
        BY <1>1, <1>2, <2>2
      <3> QED BY <1>2, <1>4, <2>2, <3>1
    <2> QED BY <2>1, <2>2
  <1>6. /\ noticed' = noticed + 1
        /\ UNCHANGED <<windows, leader, descendants, noise, closed, killTimer,
                       failures, exitSeen, host>>
    BY DEF ReadStderr, processVars, closeVars
  <1> QED BY <1>1, <1>5, <1>6 DEF ProcessTypes, FailureCloses

\* Every event is a move of the stream, and keeps the rest.
LEMMA Moves ==
    ASSUME ChildHeld, Next
    PROVE  /\ StreamMove /\ ProcessTypes' /\ FailureCloses'
           /\ LineTypes' /\ LinesHeld' /\ BadLineCloses' /\ LinesInOrder'
  <1> USE DEF ChildHeld
  <1> DEFINE Kept1 == /\ StreamMove /\ ProcessTypes' /\ FailureCloses'
             Kept2 == LineTypes' /\ LinesHeld' /\ BadLineCloses' /\ LinesInOrder'
  <1>1. ASSUME UNCHANGED streamVars PROVE StreamMove
    BY <1>1 DEF StreamMove
  <1>2. ASSUME NEW n \in 1..MaxLines, ReadChunk(n) PROVE Kept1 /\ Kept2
    <2>1. Kept2
      BY <1>2, ReadLines
    <2>2. Kept1
      BY <1>1, <1>2 DEF ReadChunk, processVars, stderrVars, closeVars,
         ProcessTypes, FailureCloses
    <2> QED BY <2>1, <2>2
  <1>3. ASSUME NEW reaction \in Reaction, HandleLine(reaction)
        PROVE  Kept1 /\ Kept2
    <2>1. Kept2
      BY <1>3, TakeLine
    <2>2. Kept1
      BY <1>3, TakenLine
    <2> QED BY <2>1, <2>2
  <1>4. ASSUME ReadStderr PROVE Kept1 /\ Kept2
    <2>1. Kept2
      BY <1>4, LinesStay DEF ReadStderr, processVars, readerVars, closeVars
    <2>2. Kept1
      BY <1>1, <1>4, KeptLines DEF ReadStderr
    <2> QED BY <2>1, <2>2
  <1>5. ASSUME UNCHANGED <<windows, leader, descendants, written, noise>>,
               UNCHANGED <<chunk, read, delivered, stderrLines, noticed, host>>,
               close \/ fail, exitSeen' \in BOOLEAN
        PROVE  Kept1 /\ Kept2
    <2>1. Kept2
      BY <1>5, LinesStay, CloseSteps DEF closeVars
    <2>2. CloseTypes' /\ StreamMove
      BY <1>5, Closing
    <2>3. Kept1
      BY <1>5, <2>2 DEF CloseTypes, ProcessTypes
    <2> QED BY <2>1, <2>3
  <1>6. ASSUME ErrorEvent PROVE Kept1 /\ Kept2
    BY <1>5, <1>6 DEF ErrorEvent, processVars, readerVars, stderrVars
  <1>7. ASSUME ExitEvent PROVE Kept1 /\ Kept2
    <2>1. CASE closed
      <3>1. Kept2
        BY <1>7, <2>1, LinesStay DEF ExitEvent, processVars, readerVars
      <3>2. Kept1
        BY <1>1, <1>7, <2>1 DEF ExitEvent, processVars, stderrVars,
           ProcessTypes, FailureCloses
      <3> QED BY <3>1, <3>2
    <2>2. CASE ~closed
      BY <1>5, <1>7, <2>2 DEF ExitEvent, processVars, readerVars, stderrVars
    <2> QED BY <2>1, <2>2
  <1>8. ASSUME HostCloses PROVE Kept1 /\ Kept2
    BY <1>5, <1>8 DEF HostCloses, processVars, readerVars, stderrVars,
       ProcessTypes
  <1>9. ASSUME KillTimerFires PROVE Kept1 /\ Kept2
    <2>1. Kept2
      BY <1>9, LinesStay DEF KillTimerFires, readerVars
    <2>2. Kept1
      BY <1>1, <1>9 DEF KillTimerFires, stderrVars, ProcessTypes, FailureCloses
    <2> QED BY <2>1, <2>2
  <1>10. ASSUME NEW line \in 0..MaxLines, ChildWrites(line)
         PROVE  Kept1 /\ Kept2
    <2>1. Kept2
      BY <1>10, WriteLines
    <2>2. Kept1
      BY <1>1, <1>10 DEF ChildWrites, stderrVars, closeVars, ProcessTypes,
         FailureCloses
    <2> QED BY <2>1, <2>2
  <1>11. ASSUME ChildComplains PROVE Kept1 /\ Kept2
    <2>1. Kept2
      BY <1>11, LinesStay DEF ChildComplains, readerVars, closeVars
    <2>2. noise' \in 0..MaxNoise /\ noticed' \in 0..noise'
      BY <1>11 DEF ChildComplains, stderrVars, ProcessTypes
    <2>3. Kept1
      BY <1>1, <1>11, <2>2 DEF ChildComplains, stderrVars, closeVars,
         ProcessTypes, FailureCloses
    <2> QED BY <2>1, <2>3
  <1>12. ASSUME ChildForks \/ ChildExits PROVE Kept1 /\ Kept2
    <2>1. Kept2
      BY <1>12, LinesStay DEF ChildForks, ChildExits, readerVars, closeVars
    <2>2. Kept1
      BY <1>1, <1>12 DEF ChildForks, ChildExits, stderrVars, closeVars,
         ProcessTypes, FailureCloses
    <2> QED BY <2>1, <2>2
  <1>13. ASSUME HostReads \/ HostEnds PROVE Kept1 /\ Kept2
    <2>1. Kept2
      BY <1>13, LinesStay DEF HostReads, HostEnds, processVars, readerVars,
         closeVars
    <2>2. Kept1
      BY <1>1, <1>13 DEF HostReads, HostEnds, processVars, stderrVars,
         closeVars, ProcessTypes, FailureCloses, StreamMove
    <2> QED BY <2>1, <2>2
  <1> QED BY <1>2, <1>3, <1>4, <1>6, <1>7, <1>8, <1>9, <1>10, <1>11, <1>12,
          <1>13 DEF Next, LineEvent, ChildEnds

LEMMA ChildStep == ChildHeld /\ [Next]_vars => ChildHeld'
  <1>1. ASSUME ChildHeld, Next PROVE ChildHeld'
    BY <1>1, Moves, StreamMoveHeld DEF ChildHeld
  <1>2. ASSUME ChildHeld, UNCHANGED vars PROVE ChildHeld'
    <2>1. StreamHeld'
      BY <1>2, StreamMoveHeld DEF ChildHeld, vars, StreamMove
    <2>2. LineTypes' /\ LinesHeld' /\ BadLineCloses' /\ LinesInOrder'
      BY <1>2, LinesStay DEF vars, processVars, readerVars, closeVars
    <2>3. ProcessTypes' /\ FailureCloses'
      BY <1>2 DEF ChildHeld, vars, processVars, stderrVars, closeVars,
         ProcessTypes, FailureCloses
    <2> QED BY <2>1, <2>2, <2>3 DEF ChildHeld
  <1> QED BY <1>1, <1>2

\* The inductive invariant.
THEOREM ChildInvariant == Spec => []ChildHeld
  BY ChildInit, ChildStep, PTL DEF Spec

LEMMA WaitersWait == StreamHeld => NoLostWakeup
  <1> SUFFICES ASSUME StreamHeld PROVE NoLostWakeup
    OBVIOUS
  <1> USE DEF StreamHeld
  <1> DEFINE g == Answered
             n == Len(answers)
             w == Len(waiters)
  <1>1. /\ g \in Nat /\ n \in Nat /\ g <= n /\ w \in Nat
        /\ DOMAIN answers = 1..n /\ DOMAIN waiters = 1..w
        /\ waiters # <<>> <=> w > 0
    BY StreamSizes
  <1>2. ASSUME waiters # <<>> PROVE queue = <<>> /\ state = "open"
    <2>1. Len(waiters) > 0 /\ Len(waiters) # 0
      BY <1>1, <1>2
    <2>2. state = "open"
      BY <2>1, Zenon DEF WaitersInOrder
    <2>3. n > g
      BY <1>1, <2>1, <2>2 DEF WaitersInOrder
    <2> QED BY <2>2, <2>3 DEF CallsInOrder
  <1>3. \A v \in 1..w : waiters[v] = g + v
    BY DEF WaitersInOrder
  <1>4. ASSUME NEW c \in 1..n
        PROVE  answers[c] = Pending <=> \E v \in 1..w : waiters[v] = c
    <2>1. CASE c \in 1..g
      <3>1. answers[c] # Pending
        BY <2>1, MessageIsNotPending DEF CallsInOrder
      <3>2. \A v \in 1..w : g + v # c
        BY <1>1, <2>1
      <3> QED BY <1>3, <3>1, <3>2
    <2>2. CASE c \notin 1..g /\ state = "open"
      <3>1. c \in g+1..n /\ w = n - g
        BY <1>1, <2>2 DEF WaitersInOrder
      <3>2. answers[c] = Pending
        BY <2>2, <3>1 DEF CallsInOrder
      <3>3. c - g \in 1..w /\ g + (c - g) = c
        BY <1>1, <3>1
      <3> QED BY <1>3, <3>2, <3>3
    <2>3. CASE c \notin 1..g /\ state # "open"
      <3>1. c \in g+1..n
        BY <1>1, <2>3
      <3>2. answers[c].what \in Over
        BY <2>3, <3>1 DEF CallsInOrder
      <3>3. answers[c] # Pending
        BY <3>2, AnswerFields
      <3>4. w = 0
        BY <2>3 DEF WaitersInOrder
      <3> QED BY <3>3, <3>4
    <2> QED BY <2>1, <2>2, <2>3
  <1>5. \A u, v \in 1..w : u < v => waiters[u] < waiters[v]
    BY <1>1, <1>3
  <1> QED BY <1>1, <1>2, <1>4, <1>5 DEF NoLostWakeup

\* Whatever a chunk brings after the line that closed the transport, a bad line
\* is never passed over, the messages reach the host in order, none twice and
\* none left out, and no call of next() is left behind.
THEOREM LinesArrive == Spec => []ChildInv
  <1>1. ChildHeld => ChildInv
    <2> SUFFICES ASSUME ChildHeld PROVE ChildInv
      OBVIOUS
    <2>1. TypeOK
      BY DEF ChildHeld, StreamHeld, StreamTypes, ProcessTypes, LineTypes,
         TypeOK, Answer
    <2>2. NoLostWakeup
      BY WaitersWait DEF ChildHeld
    <2> QED BY <2>1, <2>2 DEF ChildHeld, ChildInv
  <1> QED BY <1>1, ChildInvariant, PTL

-----------------------------------------------------------------------------
(* The stream is a channel *)

\* What the channel shows of the stream.
Shown == /\ Got = SubSeq(pushed, 1, Answered) /\ Len(Got) = Answered
         /\ Answered = Len(pushed) => Got = pushed
         /\ SomeTold <=> (state # "open" /\ Len(answers) > Answered)

LEMMA IsShown == StreamHeld => Shown
  <1> SUFFICES ASSUME StreamHeld PROVE Shown
    OBVIOUS
  <1>1. /\ pushed \in Seq(1..MaxLines) /\ Len(pushed) \in Nat
        /\ Answered \in Nat /\ Answered <= Len(pushed)
    BY StreamSizes DEF StreamHeld, StreamTypes
  <1>2. Len(SubSeq(pushed, 1, Answered)) = Answered
    BY <1>1
  <1>3. SubSeq(pushed, 1, Len(pushed)) = pushed
    BY <1>1
  <1> QED BY <1>2, <1>3, GotIs DEF GotFollows, Shown

LEMMA IsShownNext == StreamHeld' => Shown'
  BY IsShown, PTL

LEMMA Grown ==
    ASSUME StreamHeld, NEW m \in 1..MaxLines, pushed' = Append(pushed, m)
    PROVE  /\ Stream!Continues(pushed, pushed')
           /\ Len(pushed') = Len(pushed) + 1 /\ Len(pushed) \in Nat
           /\ \A g \in 0..Len(pushed) :
                SubSeq(pushed', 1, g) = SubSeq(pushed, 1, g)
  <1>1. pushed \in Seq(1..MaxLines) /\ Len(pushed) \in Nat
    BY DEF StreamHeld, StreamTypes
  <1>2. /\ pushed' \in Seq(1..MaxLines) /\ Len(pushed') = Len(pushed) + 1
        /\ \A k \in 1..Len(pushed) : pushed'[k] = pushed[k]
    BY <1>1, AppendProperties
  <1>3. Stream!Continues(pushed, pushed')
    BY <1>1, <1>2 DEF Stream!Continues
  <1>4. ASSUME NEW g \in 0..Len(pushed)
        PROVE  SubSeq(pushed', 1, g) = SubSeq(pushed, 1, g)
    BY <1>1, <1>2
  <1> QED BY <1>1, <1>2, <1>3, <1>4

LEMMA PushIsChannel ==
    ASSUME StreamHeld, StreamHeld', NEW m \in 1..MaxLines, Push(m),
           state = "open"
    PROVE  Stream!Send \/ Stream!Pass
  <1>1. Shown /\ Shown'
    BY IsShown, IsShownNext
  <1>2. pushed' = Append(pushed, m) /\ Flush(m) /\ state' = "open"
    BY DEF Push
  <1>3. ~SomeTold /\ ~SomeTold'
    BY <1>1, <1>2 DEF Shown
  <1>4. /\ Stream!Continues(pushed, pushed')
        /\ Len(pushed') = Len(pushed) + 1 /\ Len(pushed) \in Nat
        /\ Answered \in 0..Len(pushed)
        /\ SubSeq(pushed', 1, Answered) = SubSeq(pushed, 1, Answered)
    BY <1>2, Grown, StreamSizes
  <1>5. CASE waiters # <<>>
    <2>1. Answered = Len(pushed) /\ Answered' = Len(pushed')
      BY <1>2, <1>4, <1>5, GivenToWaiter DEF Flush
    <2>2. Got = pushed /\ Got' = pushed'
      BY <1>1, <2>1 DEF Shown
    <2> QED BY <1>2, <1>3, <1>4, <2>2 DEF Stream!Pass, SomeTold
  <1>6. CASE waiters = <<>>
    <2>1. Answered' = Answered
      BY <1>2, <1>6, Queued DEF Flush
    <2>2. Got' = Got
      BY <1>1, <1>4, <2>1 DEF Shown
    <2> QED BY <1>2, <1>3, <1>4, <2>2 DEF Stream!Send, SomeTold
  <1> QED BY <1>5, <1>6

LEMMA PushLastIsChannel ==
    ASSUME StreamHeld, StreamHeld', NEW m \in 1..MaxLines, PushLast(m),
           state = "open"
    PROVE  Stream!SendLast
  <1>1. Shown /\ Shown'
    BY IsShown, IsShownNext
  <1>2. pushed' = Append(pushed, m) /\ state' = "end"
    BY DEF PushLast
  <1>3. ~SomeTold
    BY <1>1 DEF Shown
  <1>4. /\ Stream!Continues(pushed, pushed')
        /\ Len(pushed') = Len(pushed) + 1 /\ Len(pushed) \in Nat
        /\ Answered \in 0..Len(pushed)
        /\ SubSeq(pushed', 1, Answered) = SubSeq(pushed, 1, Answered)
    BY <1>2, Grown, StreamSizes
  <1>5. CASE waiters # <<>>
    <2>1. Answered = Len(pushed) /\ Answered' = Len(pushed')
      <3> DEFINE calls == [answers EXCEPT ![Head(waiters)] = Message(m)]
      <3> QED BY <1>2, <1>4, <1>5, GivenToWaiter DEF PushLast
    <2>2. Got = pushed /\ Got' = pushed'
      BY <1>1, <2>1 DEF Shown
    <2> QED BY <1>2, <1>3, <1>4, <2>2 DEF Stream!SendLast, SomeTold
  <1>6. CASE waiters = <<>>
    <2>1. queue' = Append(queue, m) /\ answers' = answers
      BY <1>6 DEF PushLast
    <2>2. Answered' = Answered
      BY <1>2, <2>1, Queued
    <2>3. Got' = Got
      BY <1>1, <1>4, <2>2 DEF Shown
    <2>4. Len(waiters) = 0 /\ Len(waiters) = Len(answers) - Answered
      BY <1>6 DEF StreamHeld, WaitersInOrder
    <2>5. ~(Len(answers) > Answered)
      <3>1. Len(answers) \in Nat /\ Answered \in Nat
        BY StreamSizes
      <3>2. Len(answers) - Answered = 0
        BY <2>4
      <3> QED BY <3>1, <3>2
    <2>6. ~SomeTold'
      BY <1>1, <2>1, <2>2, <2>5 DEF Shown
    <2> QED BY <1>2, <1>3, <1>4, <2>3, <2>6 DEF Stream!SendLast, SomeTold
  <1> QED BY <1>5, <1>6

LEMMA FinishIsChannel ==
    ASSUME StreamHeld, StreamHeld', NEW how \in Over, Finish(how),
           state = "open"
    PROVE  Stream!Close \/ Stream!CloseAndTell
  <1>1. Shown /\ Shown'
    BY IsShown, IsShownNext
  <1>2. /\ state' = how /\ how # "open" /\ UNCHANGED <<queue, pushed>>
        /\ answers' = Told(answers, how)
    BY DEF Finish
  <1>3. Answered' = Answered /\ Len(answers') = Len(answers)
    BY <1>2, TellsWhoWaits DEF Answered, StreamHeld, StreamTypes
  <1>4. Got' = Got /\ ~SomeTold /\ (SomeTold' <=> Len(answers) > Answered)
    BY <1>1, <1>2, <1>3 DEF Shown
  <1>5. CASE Len(answers) > Answered
    <2>1. Len(queue) = 0
      BY <1>5 DEF StreamHeld, CallsInOrder
    <2>2. Answered = Len(pushed)
      BY <2>1, StreamSizes
    <2>3. Got = pushed
      BY <1>1, <2>2 DEF Shown
    <2> QED BY <1>2, <1>4, <1>5, <2>3 DEF Stream!CloseAndTell, SomeTold
  <1>6. CASE ~(Len(answers) > Answered)
    BY <1>2, <1>4, <1>6 DEF Stream!Close, SomeTold
  <1> QED BY <1>5, <1>6

LEMMA NextIsChannel ==
    ASSUME StreamHeld, StreamHeld', NextCall
    PROVE  \/ Stream!Receive \/ Stream!Tell \/ UNCHANGED Stream!channelVars
  <1> DEFINE g == Answered
             n == Len(answers)
             q == Len(queue)
  <1>1. Shown /\ Shown'
    BY IsShown, IsShownNext
  <1>2. /\ g \in Nat /\ n \in Nat /\ q \in Nat /\ Len(pushed) \in Nat
        /\ g + q = Len(pushed) /\ g <= n
        /\ queue = <<>> <=> q = 0
        /\ state' = state /\ pushed' = pushed
        /\ pushed \in Seq(1..MaxLines) /\ queue \in Seq(1..MaxLines)
        /\ answers \in Seq(Answer)
    BY StreamSizes DEF NextCall, StreamHeld, StreamTypes
  <1>3. CASE queue # <<>>
    <2>1. queue' = Tail(queue) /\ answers' = Append(answers, Message(Head(queue)))
      BY <1>3 DEF NextCall
    <2>2. Len(queue') = q - 1 /\ Len(answers') = n + 1 /\ q > 0
      BY <1>2, <1>3, <2>1
    <2>3. Answered' = g + 1
      BY <1>2, <2>2 DEF Answered
    <2>4. ~(n > g) /\ n = g
      BY <1>2, <1>3 DEF StreamHeld, CallsInOrder
    <2>5. ~SomeTold /\ ~SomeTold'
      BY <1>1, <1>2, <2>2, <2>3, <2>4 DEF Shown
    <2>6. Got = SubSeq(pushed, 1, g) /\ Got' = SubSeq(pushed, 1, g + 1)
          /\ Len(Got) = g
      BY <1>1, <1>2, <2>3 DEF Shown
    <2>7. g < Len(pushed)
      BY <1>2, <2>2
    <2>8. SubSeq(pushed, 1, g + 1) = Append(SubSeq(pushed, 1, g), pushed[g + 1])
      BY <1>2, <2>7
    <2> QED BY <1>2, <2>5, <2>6, <2>7, <2>8 DEF Stream!Receive, SomeTold
  <1>4. CASE queue = <<>>
    <2>1. queue' = queue /\ Len(answers') = n + 1
      BY <1>2, <1>4 DEF NextCall
    <2>2. Answered' = g /\ g = Len(pushed)
      BY <1>2, <1>4, <2>1 DEF Answered
    <2>3. Got' = Got /\ Len(Got) = g
      BY <1>1, <1>2, <2>2 DEF Shown
    <2>4. CASE state # "open"
      <3>1. SomeTold'
        BY <1>1, <1>2, <2>1, <2>2, <2>4 DEF Shown
      <3> QED BY <1>2, <2>2, <2>3, <2>4, <3>1 DEF Stream!Tell, SomeTold
    <2>5. CASE state = "open"
      <3>1. ~SomeTold /\ ~SomeTold'
        BY <1>1, <1>2, <2>5 DEF Shown
      <3> QED BY <1>2, <2>3, <3>1 DEF Stream!channelVars, SomeTold
    <2> QED BY <2>4, <2>5
  <1> QED BY <1>3, <1>4

\* The host's stream of a turn is a channel: the messages come in the order in
\* which the session client pushed them, and the end or the error is told, also
\* to a call that waits, only after all of them.
THEOREM StreamRefinesChannel == Spec => StreamIsChannel
  <1>1. Init => Stream!Init
    <2> SUFFICES ASSUME Init PROVE Stream!Init
      OBVIOUS
    <2>1. pushed = <<>> /\ state = "open" /\ Shown
      BY ChildInit, IsShown DEF Init, StreamInit, ChildHeld
    <2>2. Len(pushed) = 0 /\ Answered = 0
      BY ChildInit, <2>1 DEF Init, StreamInit, Answered
    <2>3. Got = <<>> /\ ~SomeTold
      BY <2>1, <2>2 DEF Shown
    <2> QED BY <2>1, <2>3 DEF Stream!Init, SomeTold
  <1>2. ASSUME ChildHeld, ChildHeld', [Next]_vars
        PROVE  [Stream!Next]_Stream!channelVars
    <2>1. StreamMove
      BY <1>2, Moves DEF vars, StreamMove
    <2>2. StreamHeld /\ StreamHeld'
      BY <1>2 DEF ChildHeld
    <2>3. CASE UNCHANGED streamVars
      BY <2>3 DEF streamVars, Stream!channelVars, Got
    <2> QED BY <2>1, <2>2, <2>3, PushIsChannel, PushLastIsChannel,
            FinishIsChannel, NextIsChannel DEF StreamMove, Stream!Next
  <1> QED BY <1>1, <1>2, ChildInvariant, PTL
          DEF Spec, StreamIsChannel, Stream!Spec
=============================================================================
