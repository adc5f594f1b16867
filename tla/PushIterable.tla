---------------------------- MODULE PushIterable ----------------------------
(***************************************************************************)
(* createPushAsyncIterable of packages/host-core/src/session-client.ts:    *)
(* the stream through which the host reads the messages of a turn.  The    *)
(* session client pushes, ends or fails it; the host calls next(), and may *)
(* call it again before the answer to an earlier call came.  These are the *)
(* actions of the stream; ChildTransport composes them with the events     *)
(* that make the client call it.                                           *)
(***************************************************************************)
EXTENDS Naturals, Sequences

CONSTANT MaxCalls   \* bound: calls of next()

ASSUME CallsAssumption == MaxCalls \in Nat

VARIABLES
    queue,     \* messages no call has taken
    waiters,   \* calls without an answer, the oldest first
    state,     \* done and failure
    pushed,    \* the messages that push accepted
    answers    \* what next() answered, call by call

streamVars == <<queue, waiters, state, pushed, answers>>

Over == {"end", "error"}

Message(m) == [what |-> "message", message |-> m]
Without(what) == [what |-> what, message |-> 0]
Pending == Without("pending")

-----------------------------------------------------------------------------
\* flush: the oldest call that waits gets the message, else it is queued.
Flush(message) ==
    IF waiters # <<>>
    THEN /\ answers' = [answers EXCEPT ![Head(waiters)] = Message(message)]
         /\ waiters' = Tail(waiters)
         /\ UNCHANGED queue
    ELSE /\ queue' = Append(queue, message)
         /\ UNCHANGED <<waiters, answers>>

\* Once the stream is over, what is pushed is dropped and nothing changes.
Push(message) ==
    IF state # "open"
    THEN UNCHANGED streamVars
    ELSE /\ pushed' = Append(pushed, message)
         /\ Flush(message)
         /\ UNCHANGED state

\* Mutant of Told: only the oldest call is told.
ToldFirst(calls, how) ==
    [c \in DOMAIN calls |->
       IF calls[c] = Pending /\ \A b \in 1..(c - 1) : calls[b] # Pending
       THEN Without(how) ELSE calls[c]]

\* Every call that waits is told of the end or the error.
Told(calls, how) ==
    [c \in DOMAIN calls |->
       IF calls[c] = Pending THEN Without(how) ELSE calls[c]]

\* end and fail: the first one counts.
Finish(how) ==
    IF state # "open"
    THEN UNCHANGED streamVars
    ELSE /\ state' = how
         /\ answers' = Told(answers, how)
         /\ waiters' = <<>>
         /\ UNCHANGED <<queue, pushed>>

\* push and end within one step, as the client does with the last message.
PushLast(message) ==
    IF state # "open"
    THEN UNCHANGED streamVars
    ELSE /\ pushed' = Append(pushed, message)
         /\ state' = "end"
         /\ waiters' = <<>>
         /\ IF waiters # <<>>
            THEN /\ answers' = Told([answers EXCEPT ![Head(waiters)] =
                                        Message(message)], "end")
                 /\ UNCHANGED queue
            ELSE /\ queue' = Append(queue, message)
                 /\ UNCHANGED answers

\* Mutant of NextCall: an error is told before what was pushed ahead of it.
NextCallErrorFirst ==
    /\ Len(answers) < MaxCalls
    /\ \/ /\ state # "error" /\ queue # <<>>
          /\ answers' = Append(answers, Message(Head(queue)))
          /\ queue' = Tail(queue)
          /\ UNCHANGED waiters
       \/ /\ state # "open" /\ (state = "error" \/ queue = <<>>)
          /\ answers' = Append(answers, Without(state))
          /\ UNCHANGED <<queue, waiters>>
       \/ /\ queue = <<>> /\ state = "open"
          /\ answers' = Append(answers, Pending)
          /\ waiters' = Append(waiters, Len(answers) + 1)
          /\ UNCHANGED queue
    /\ UNCHANGED <<state, pushed>>

\* next(): what is queued comes first, even after the end or an error.
NextCall ==
    /\ Len(answers) < MaxCalls
    /\ \/ /\ queue # <<>>
          /\ answers' = Append(answers, Message(Head(queue)))
          /\ queue' = Tail(queue)
          /\ UNCHANGED waiters
       \/ /\ queue = <<>> /\ state # "open"
          /\ answers' = Append(answers, Without(state))
          /\ UNCHANGED <<queue, waiters>>
       \/ /\ queue = <<>> /\ state = "open"
          /\ answers' = Append(answers, Pending)
          /\ waiters' = Append(waiters, Len(answers) + 1)
          /\ UNCHANGED queue
    /\ UNCHANGED <<state, pushed>>

StreamInit == /\ queue = <<>>
              /\ waiters = <<>>
              /\ state = "open"
              /\ pushed = <<>>
              /\ answers = <<>>

-----------------------------------------------------------------------------
(* Properties *)

\* No call waits while there is a message to take or the stream is over, and
\* the calls that wait are the ones without an answer, in order: a host that
\* awaits next() is never left behind.
NoLostWakeup ==
    /\ waiters # <<>> => queue = <<>> /\ state = "open"
    /\ \A c \in DOMAIN answers :
         answers[c] = Pending <=> \E w \in DOMAIN waiters : waiters[w] = c
    /\ \A v, w \in DOMAIN waiters : v < w => waiters[v] < waiters[w]

\* The messages the host got, call by call: no call after one that waits or
\* was told of the end gets one, so that these are the first calls.
Got == [c \in {c \in DOMAIN answers : answers[c].what = "message"} |->
          answers[c].message]

\* The stream is a channel: the host gets the messages in the order they were
\* pushed, call by call, and learns of the end or the error only after all of
\* them.
Stream == INSTANCE Channel WITH
    sent <- pushed,
    received <- Got,
    closed <- state # "open",
    due <- IF state # "open" THEN Len(pushed) ELSE 0,
    cut <- FALSE,
    told <- \E c \in DOMAIN answers : answers[c].what \in Over

StreamIsChannel == Stream!Spec
=============================================================================
