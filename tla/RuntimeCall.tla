----------------------------- MODULE RuntimeCall -----------------------------
(***************************************************************************)
(* One invoke.request, threads.list.request or threads.history.request     *)
(* call of AdapterRuntime (packages/sdk-core/src/index.ts): the context it *)
(* gives the handler, what it does when the handler ends, and the queue    *)
(* (createQueuedMessageEmitter) that carries the messages to the sink of   *)
(* the transport.                                                          *)
(*                                                                         *)
(* The handler is the adapter author's: it makes any calls on its context, *)
(* in any order, and callbacks it left behind may make more after it       *)
(* returned or threw.  Messages it emits by hand are taken to be events,   *)
(* and it leaves the numbers of its deltas to the context.                 *)
(*                                                                         *)
(* An operator marked "Mutant" is a plausible mistake in the definition    *)
(* that follows it.  No definition uses it: replacing the definition by it *)
(* shows which property notices.                                           *)
(***************************************************************************)
EXTENDS Naturals, Sequences, FiniteSets

CONSTANTS
    Stream,       \* ids of delta streams
    NoStream,     \* the stream of a message that is no delta
    Threads,      \* is this a threads call rather than an invoke call?
    MaxMessages   \* bound: messages the handler emits before it ends the call

ASSUME StreamAssumption == NoStream \notin Stream
ASSUME CallAssumption == /\ Threads \in BOOLEAN
                         /\ MaxMessages \in Nat

VARIABLES
    phase,      \* where handleStream stands
    handled,    \* the handler was run
    settled,    \* state.settled, state.terminal
    numbers,    \* streamSeqById: the last number of each delta stream
    emitted,    \* messages handed to the emitter
    taken,      \* how many of them its promise chain is done with
    sinking,    \* the sink has been called for the next one and not returned
    broken,     \* pendingError is set
    delivered,  \* messages the sink was called with
    owed        \* how many messages were emitted when drain was called

contextVars == <<settled, numbers, emitted>>
queueVars == <<taken, sinking, broken, delivered>>
vars == <<phase, handled, contextVars, queueVars, owed>>

Phase == {"idle", "running", "ended", "draining", "resolved", "rejected"}
Terminal == {"completed", "failed", "cancelled"}
Kind == {"output", "delta", "event"} \cup Terminal
Message == [kind : Kind, stream : Stream \cup {NoStream}, number : Nat]

\* Messages other than deltas.
Plain(kinds) == [k \in 1..Len(kinds) |->
                   [kind |-> kinds[k], stream |-> NoStream, number |-> 0]]

Emit(kinds) == emitted' = emitted \o Plain(kinds)

\* Bound: the handler emits MaxMessages messages itself.
Room == Len(emitted) < MaxMessages

\* Emits the terminal message and shuts the context.
Settle(kinds) == settled' = TRUE /\ Emit(kinds)

-----------------------------------------------------------------------------
\* No handler, an unknown operation or an invalid input: the call fails and the
\* handler is not run.
Refuse == /\ phase = "idle"
          /\ phase' = "ended"
          /\ Settle(<<"failed">>)
          /\ UNCHANGED <<handled, numbers, queueVars, owed>>

Accept == /\ phase = "idle"
          /\ phase' = "running"
          /\ handled' = TRUE
          /\ UNCHANGED <<contextVars, queueVars, owed>>

(***************************************************************************)
(* The handler's context.  Output that does not match the operation's      *)
(* schema fails the call; items of a threads call are not validated.       *)
(***************************************************************************)
Valid == IF Threads THEN {TRUE} ELSE BOOLEAN

Output(valid) ==
    /\ handled /\ Room /\ ~settled /\ valid \in Valid
    /\ IF valid
       THEN Emit(<<"output">>) /\ UNCHANGED settled
       ELSE Settle(<<"failed">>)
    /\ UNCHANGED <<phase, handled, numbers, queueVars, owed>>

\* outputDelta numbers a delta even when the call is settled and nothing is
\* emitted.  Bound: MaxMessages numbers in a stream.
Delta(s) ==
    /\ handled /\ Room /\ ~Threads
    /\ numbers[s] < MaxMessages
    /\ numbers' = [numbers EXCEPT ![s] = @ + 1]
    /\ IF settled
       THEN UNCHANGED emitted
       ELSE emitted' = Append(emitted,
               [kind |-> "delta", stream |-> s, number |-> numbers[s] + 1])
    /\ UNCHANGED <<phase, handled, settled, queueVars, owed>>

\* progress, log, activity, artifact, emit: not held back by a settled call.
Report == /\ handled /\ Room
          /\ Emit(<<"event">>)
          /\ UNCHANGED <<phase, handled, settled, numbers, queueVars, owed>>

\* complete, cancel, fail; complete may carry output that is invalid.
SettleBy(kind) ==
    /\ handled /\ ~settled
    /\ kind = "cancelled" => ~Threads
    /\ Settle(<<kind>>)
    /\ UNCHANGED <<phase, handled, numbers, queueVars, owed>>

-----------------------------------------------------------------------------
(* The end of the handler *)

\* Mutant of Returns: the result is reported although the call is settled.
ReturnsRegardless(result) ==
    /\ phase = "running"
    /\ phase' = "ended"
    /\ \/ result = "nothing" /\ ~Threads /\ UNCHANGED <<settled, emitted>>
       \/ result = "nothing" /\ Threads /\ Settle(<<"completed">>)
       \/ result = "valid" /\ ~Threads /\ Settle(<<"output", "completed">>)
       \/ result = "invalid" /\ ~Threads /\ Settle(<<"failed">>)
    /\ UNCHANGED <<handled, numbers, queueVars, owed>>

\* A threads call completes by itself; an invoke call only if the handler
\* returned something.
Returns(result) ==
    /\ phase = "running"
    /\ phase' = "ended"
    /\ \/ settled /\ UNCHANGED <<settled, emitted>>
       \/ ~settled /\ result = "nothing" /\ ~Threads
            /\ UNCHANGED <<settled, emitted>>
       \/ ~settled /\ result = "nothing" /\ Threads /\ Settle(<<"completed">>)
       \/ ~settled /\ result = "valid" /\ ~Threads
            /\ Settle(<<"output", "completed">>)
       \/ ~settled /\ result = "invalid" /\ ~Threads /\ Settle(<<"failed">>)
    /\ UNCHANGED <<handled, numbers, queueVars, owed>>

Throws ==
    /\ phase = "running"
    /\ phase' = "ended"
    /\ IF settled THEN UNCHANGED <<settled, emitted>> ELSE Settle(<<"failed">>)
    /\ UNCHANGED <<handled, numbers, queueVars, owed>>

-----------------------------------------------------------------------------
(* The emitter *)

\* drain waits for what was emitted so far, not for what comes later.
Drain == /\ phase = "ended"
         /\ phase' = "draining"
         /\ owed' = Len(emitted)
         /\ UNCHANGED <<handled, contextVars, queueVars>>

\* Mutant of DrainEnds: drain looks at the error without waiting for the queue.
DrainEndsEarly ==
    /\ phase = "draining"
    /\ phase' = IF broken THEN "rejected" ELSE "resolved"
    /\ UNCHANGED <<handled, contextVars, queueVars, owed>>

\* drain rejects if the sink ever threw.
DrainEnds == /\ phase = "draining" /\ taken = owed
             /\ phase' = IF broken THEN "rejected" ELSE "resolved"
             /\ UNCHANGED <<handled, contextVars, queueVars, owed>>

\* The chain reaches its next message; what waits for the chain so far runs
\* first.
Reached == ~sinking /\ taken < Len(emitted)
             /\ ~(phase = "draining" /\ taken = owed)

SinkCalled == /\ Reached /\ ~broken
              /\ sinking' = TRUE
              /\ delivered' = Append(delivered, emitted[taken + 1])
              /\ UNCHANGED <<phase, handled, contextVars, taken, broken, owed>>

\* Mutant of Skipped: the chain stops at the error.
SkippedNever == /\ Reached /\ broken
                /\ UNCHANGED vars

\* After an error of the sink the rest is dropped.
Skipped == /\ Reached /\ broken
           /\ taken' = taken + 1
           /\ UNCHANGED <<phase, handled, contextVars, sinking, broken,
                          delivered, owed>>

SinkEnds(threw) == /\ sinking
                   /\ sinking' = FALSE
                   /\ taken' = taken + 1
                   /\ broken' = threw
                   /\ UNCHANGED <<phase, handled, contextVars, delivered, owed>>

-----------------------------------------------------------------------------
Init == /\ phase = "idle"
        /\ handled = FALSE
        /\ settled = FALSE
        /\ numbers = [s \in Stream |-> 0]
        /\ emitted = <<>>
        /\ taken = 0
        /\ sinking = FALSE
        /\ broken = FALSE
        /\ delivered = <<>>
        /\ owed = 0

ContextCall ==
    \/ \E valid \in BOOLEAN : Output(valid)
    \/ \E s \in Stream : Delta(s)
    \/ Report
    \/ \E kind \in Terminal : SettleBy(kind)

Result == {"nothing", "valid", "invalid"}

HandlerEnds == Throws \/ \E result \in Result : Returns(result)

ChainStep == SinkCalled \/ Skipped \/ Drain \/ DrainEnds

SinkSettles == \E threw \in BOOLEAN : SinkEnds(threw)

Next == \/ Refuse \/ Accept
        \/ ContextCall \/ HandlerEnds
        \/ ChainStep \/ SinkSettles

Spec == Init /\ [][Next]_vars

(***************************************************************************)
(* Fairness: the event loop runs the promise chain, and the sink of the    *)
(* transport settles.  The handler may never end.                          *)
(***************************************************************************)
FairSpec == Spec /\ WF_vars(ChainStep) /\ WF_vars(SinkSettles)

-----------------------------------------------------------------------------
(* Properties *)

TypeOK == /\ phase \in Phase
          /\ handled \in BOOLEAN
          /\ settled \in BOOLEAN
          /\ numbers \in [Stream -> Nat]
          /\ emitted \in Seq(Message)
          /\ taken \in 0..Len(emitted)
          /\ sinking \in BOOLEAN
          /\ broken \in BOOLEAN
          /\ delivered \in Seq(Message)
          /\ owed \in 0..Len(emitted)

\* A call has at most one terminal message, and no output or delta after it:
\* whatever the handler calls, returns or throws, in whatever order, and
\* whatever its detached callbacks still do.
TerminalIsFinal ==
    \A j, k \in DOMAIN emitted :
        j < k /\ emitted[j].kind \in Terminal => emitted[k].kind = "event"

\* The sink is called with the messages in the order they were emitted, none
\* left out and none twice, up to the first one it throws at.
DeliveredInOrder ==
    /\ Len(delivered) <= Len(emitted)
    /\ \A k \in DOMAIN delivered : delivered[k] = emitted[k]
    /\ ~broken => Len(delivered) = taken + (IF sinking THEN 1 ELSE 0)

\* When handleStream resolves, the sink has taken every message emitted before
\* the handler ended, the terminal one included; it rejects if the sink threw.
ResolvedMeansDelivered ==
    /\ phase = "resolved" => /\ Len(delivered) >= owed
                             /\ taken >= owed
    /\ phase = "rejected" => broken

\* The queue of the emitter is a channel from the context to the sink: in order,
\* nothing lost before the sink throws, and handleStream resolves only when the
\* sink has everything emitted before the handler ended.
Emitter == INSTANCE Channel WITH
    sent <- emitted,
    received <- delivered,
    closed <- phase \in {"draining", "resolved", "rejected"},
    due <- owed,
    cut <- broken,
    told <- phase = "resolved"

SinkIsChannel == Emitter!Spec

\* A threads call that resolves has told the host how it ended.
ThreadsCallTerminates ==
    Threads /\ phase = "resolved" =>
        \E k \in DOMAIN delivered : delivered[k].kind \in Terminal

\* handleStream ends once its handler has, whatever the sink does and however
\* much is still emitted.
CallEnds == phase = "ended" ~> phase \in {"resolved", "rejected"}
=============================================================================
