---------------------------- MODULE SessionClient ----------------------------
(***************************************************************************)
(* createSessionClient of packages/host-core/src/session-client.ts: the    *)
(* host's book-keeping of one session.  A stream is the result of one      *)
(* sendSessionMessage or resolveInteraction call, a waiter that of one     *)
(* getSessionControls, applySessionControl, interrupt or requestControl    *)
(* call.  Every method runs without an await, so it is one action; the     *)
(* adapter may send any message at any time, with any correlation id and   *)
(* turn id.                                                                *)
(*                                                                         *)
(* The iterable's own check that it is not yet done, and a promise's that  *)
(* it is not yet settled, are left out: HeldIsUnsettled shows that they    *)
(* never decide anything here.                                             *)
(*                                                                         *)
(* An operator marked "Mutant" is a plausible mistake in the definition    *)
(* that follows it.  No definition uses it: replacing the definition by it *)
(* shows which property notices.                                           *)
(***************************************************************************)
EXTENDS Naturals, Sequences, FiniteSets

CONSTANTS
    Stream,           \* calls that return a stream
    Waiter,           \* calls that wait for one response
    Id,               \* what nextRequestId returns
    TurnId,           \* turn ids the host gives its calls
    None,             \* a missing correlation id, turn id, stream or waiter
    MaxRegistrations, \* bound: registerSession calls
    MaxMessages       \* bound: messages delivered to one stream

ASSUME NoneAssumption == None \notin Stream \cup Waiter \cup Id \cup TurnId
ASSUME LimitAssumption == MaxRegistrations \in Nat /\ MaxMessages \in Nat

VARIABLES
    careful,        \* the host's habits, see below
    registered,     \* the session is in the sessions map
    registrations,  \* registerSession calls so far
    pendingTurns,   \* SessionState.pendingTurns: correlation id -> stream
    turnId,         \* PendingTurn.turnId of each stream
    stream,         \* state of each stream's PushAsyncIterable
    delivered,      \* sequence number of each message pushed (0: not a delta)
    sequence,       \* PendingTurn.sequence
    controlWaiters, \* SessionState.controlWaiters: correlation id -> waiter
    expects,        \* the type of message a waiter matches
    waiter,         \* state of each waiter's promise
    used            \* ids nextRequestId has returned

turnVars == <<pendingTurns, turnId, stream, delivered, sequence>>
waiterVars == <<controlWaiters, expects, waiter>>
registry == <<careful, registered, registrations>>
vars == <<registry, turnVars, waiterVars, used>>

(***************************************************************************)
(* A careful host never repeats what nextRequestId returned, waits for the *)
(* stream of a turn to end before it opens another for that turn, and does *)
(* not register a session again that is registered.  The code asks for     *)
(* none of it; any other host may do as it likes.                          *)
(***************************************************************************)

\* Responses a waiter can wait for; "any" is requestControl's own matcher.
Expected == {"session.controls", "session.control.state",
             "session.interrupt.result", "any"}

PendingIds == {id \in Id : pendingTurns[id] # None}

\* Whether the waiter of a correlation id, if any, may match a type of message:
\* requestControl's matcher is the caller's and may answer either way.
MayMatch(id, type) == /\ id \in Id /\ controlWaiters[id] # None
                      /\ expects[controlWaiters[id]] \in {type, "any"}
MayIgnore(id, type) == \A w \in Waiter :
    id \in Id => (controlWaiters[id] = w => expects[w] # type)

(***************************************************************************)
(* pendingTurnCorrelationIdForMessage: the entry of the correlation id, or *)
(* else one of the turn id.  The code takes the oldest of the turn; any    *)
(* one is allowed here, and the properties do not depend on it.            *)
(***************************************************************************)
Routes(id, turn) ==
    IF id \in PendingIds THEN {id}
    ELSE {p \in PendingIds : turn # None /\ turnId[pendingTurns[p]] = turn}

\* Mutant of Settle: the entry stays in the map.
SettleInPlace(id, outcome) ==
    /\ stream' = [stream EXCEPT ![pendingTurns[id]] = outcome]
    /\ UNCHANGED pendingTurns

\* finishTurn, pauseTurn, failTurn, interruptTurn: the entry goes and the
\* stream ends.
Settle(id, outcome) ==
    /\ pendingTurns' = [pendingTurns EXCEPT ![id] = None]
    /\ stream' = [stream EXCEPT ![pendingTurns[id]] = outcome]

\* Mutant of Push: every message takes a sequence number.
PushCountingAll(s, isDelta) ==
    /\ sequence' = [sequence EXCEPT ![s] = @ + 1]
    /\ delivered' = [delivered EXCEPT ![s] =
                        Append(@, IF isDelta THEN sequence[s] + 1 ELSE 0)]

\* emitTurnMessage pushes one message; a delta takes the next sequence number.
Push(s, isDelta) ==
    /\ sequence' = IF isDelta THEN [sequence EXCEPT ![s] = @ + 1] ELSE sequence
    /\ delivered' = [delivered EXCEPT ![s] =
                        Append(@, IF isDelta THEN sequence[s] + 1 ELSE 0)]

-----------------------------------------------------------------------------
\* registerSession: a new SessionState replaces the one there may be.
RegisterSession ==
    /\ registrations < MaxRegistrations /\ (careful => ~registered)
    /\ registrations' = registrations + 1
    /\ registered' = TRUE
    /\ pendingTurns' = [id \in Id |-> None]
    /\ controlWaiters' = [id \in Id |-> None]
    /\ UNCHANGED <<careful, turnId, stream, delivered, sequence, expects,
                   waiter, used>>

FreshId(id) == /\ careful => id \notin used
               /\ used' = used \cup {id}

\* requestTurnStream; sent is whether transport.send returned or threw.
RequestTurnStream(s, turn, id, sent) ==
    /\ registered /\ stream[s] = "idle" /\ FreshId(id)
    /\ careful => \A p \in PendingIds : turnId[pendingTurns[p]] # turn
    /\ turnId' = [turnId EXCEPT ![s] = turn]
    /\ pendingTurns' = [pendingTurns EXCEPT ![id] = IF sent THEN s ELSE None]
    /\ stream' = [stream EXCEPT ![s] = IF sent THEN "open" ELSE "failed"]
    /\ UNCHANGED <<registry, delivered, sequence, waiterVars>>

\* withControlWaiter, for the four calls that wait for one response.
RequestControl(w, type, id, sent) ==
    /\ registered /\ waiter[w] = "idle" /\ FreshId(id)
    /\ expects' = [expects EXCEPT ![w] = type]
    /\ controlWaiters' = [controlWaiters EXCEPT ![id] =
                             IF sent THEN w ELSE None]
    /\ waiter' = [waiter EXCEPT ![w] = IF sent THEN "waiting" ELSE "rejected"]
    /\ UNCHANGED <<registry, turnVars>>

-----------------------------------------------------------------------------
(* handleMessage, by type of message.  What it hands to                    *)
(* onUnsolicitedMessage changes nothing and is left out.                   *)

Resolve(id) ==
    /\ waiter' = [waiter EXCEPT ![controlWaiters[id]] = "resolved"]
    /\ controlWaiters' = [controlWaiters EXCEPT ![id] = None]
    /\ UNCHANGED expects

\* A response other than an interrupt's goes to its waiter and nowhere else.
ReceiveResponse(id, type) ==
    /\ registered /\ MayMatch(id, type)
    /\ Resolve(id)
    /\ UNCHANGED <<registry, turnVars, used>>

\* delta, message, activity, execution, artifact, started, resolved.
ReceiveTurnMessage(id, turn, isDelta) ==
    /\ registered
    /\ \E p \in Routes(id, turn) :
         /\ Len(delivered[pendingTurns[p]]) < MaxMessages
         /\ Push(pendingTurns[p], isDelta)
    /\ UNCHANGED <<registry, pendingTurns, turnId, stream, waiterVars, used>>

\* interaction.requested, status idle or completed, session.completed.
ReceiveTurnEnd(id, turn) ==
    /\ registered
    /\ \E p \in Routes(id, turn) :
         Push(pendingTurns[p], FALSE) /\ Settle(p, "ended")
    /\ UNCHANGED <<registry, turnId, waiterVars, used>>

\* session.failed carries no turn id: it is routed by correlation id alone.
ReceiveFailed(id) ==
    /\ registered /\ id \in PendingIds
    /\ Settle(id, "failed")
    /\ UNCHANGED <<registry, turnId, delivered, sequence, waiterVars,
                   used>>

\* Mutant of ReceiveInterruptResult: a response goes to its waiter and nowhere
\* else, as with the other controls.
ReceiveInterruptResultEarlyReturn(id, turn, interrupted) ==
    /\ registered
    /\ MayMatch(id, "session.interrupt.result") /\ Resolve(id)
    /\ UNCHANGED <<registry, turnVars, used>>

\* session.interrupt.result fails one stream of its turn if it says so or if an
\* interrupt waits for it, whatever it says.
ReceiveInterruptResult(id, turn, interrupted) ==
    /\ registered
    /\ \/ MayMatch(id, "session.interrupt.result") /\ Resolve(id)
       \/ /\ interrupted /\ MayIgnore(id, "session.interrupt.result")
          /\ UNCHANGED waiterVars
    /\ LET streams == Routes(None, turn)
       IN  IF streams = {}
           THEN UNCHANGED <<pendingTurns, stream>>
           ELSE \E p \in streams : Settle(p, "interrupted")
    /\ UNCHANGED <<registry, turnId, delivered, sequence, used>>

\* Mutant of CloseSession: only the waiters are told.
CloseSessionForWaiters ==
    /\ registered
    /\ registered' = FALSE
    /\ waiter' = [w \in Waiter |->
                    IF \E id \in Id : controlWaiters[id] = w
                    THEN "rejected" ELSE waiter[w]]
    /\ controlWaiters' = [id \in Id |-> None]
    /\ pendingTurns' = [id \in Id |-> None]
    /\ UNCHANGED <<careful, registrations, turnId, stream, delivered, sequence,
                   expects, used>>

\* closeSessionState and failSessionState: session.stopped, closeSession and
\* handleFailure.  Everything the session still holds is settled.
CloseSession ==
    /\ registered
    /\ registered' = FALSE
    /\ waiter' = [w \in Waiter |->
                    IF \E id \in Id : controlWaiters[id] = w
                    THEN "rejected" ELSE waiter[w]]
    /\ stream' = [s \in Stream |->
                    IF \E id \in Id : pendingTurns[id] = s
                    THEN "failed" ELSE stream[s]]
    /\ controlWaiters' = [id \in Id |-> None]
    /\ pendingTurns' = [id \in Id |-> None]
    /\ UNCHANGED <<careful, registrations, turnId, delivered, sequence, expects,
                   used>>

-----------------------------------------------------------------------------
Init ==
    /\ careful \in BOOLEAN
    /\ registered = FALSE
    /\ registrations = 0
    /\ pendingTurns = [id \in Id |-> None]
    /\ turnId = [s \in Stream |-> None]
    /\ stream = [s \in Stream |-> "idle"]
    /\ delivered = [s \in Stream |-> <<>>]
    /\ sequence = [s \in Stream |-> 0]
    /\ controlWaiters = [id \in Id |-> None]
    /\ expects = [w \in Waiter |-> "any"]
    /\ waiter = [w \in Waiter |-> "idle"]
    /\ used = {}

HostCalls ==
    \/ RegisterSession
    \/ CloseSession
    \/ \E id \in Id, sent \in BOOLEAN :
         \/ \E s \in Stream, turn \in TurnId :
               RequestTurnStream(s, turn, id, sent)
         \/ \E w \in Waiter, type \in Expected :
               RequestControl(w, type, id, sent)

AdapterMessages ==
    \E id \in Id \cup {None}, turn \in TurnId \cup {None} :
       \/ \E isDelta \in BOOLEAN : ReceiveTurnMessage(id, turn, isDelta)
       \/ ReceiveTurnEnd(id, turn)
       \/ \E interrupted \in BOOLEAN :
             ReceiveInterruptResult(id, turn, interrupted)

CorrelatedMessages ==
    \E id \in Id :
       \/ ReceiveFailed(id)
       \/ \E type \in Expected \ {"session.interrupt.result"} :
             ReceiveResponse(id, type)

Next == HostCalls \/ AdapterMessages \/ CorrelatedMessages

Spec == Init /\ [][Next]_vars

-----------------------------------------------------------------------------
(* Properties *)

StreamState == {"idle", "open", "ended", "failed", "interrupted"}
WaiterState == {"idle", "waiting", "resolved", "rejected"}

TypeOK ==
    /\ careful \in BOOLEAN
    /\ registered \in BOOLEAN
    /\ registrations \in Nat
    /\ pendingTurns \in [Id -> Stream \cup {None}]
    /\ turnId \in [Stream -> TurnId \cup {None}]
    /\ stream \in [Stream -> StreamState]
    /\ delivered \in [Stream -> Seq(Nat)]
    /\ sequence \in [Stream -> Nat]
    /\ controlWaiters \in [Id -> Waiter \cup {None}]
    /\ expects \in [Waiter -> Expected]
    /\ waiter \in [Waiter -> WaiterState]
    /\ used \in SUBSET Id

\* What the maps hold is unsettled, and each stream or waiter is held under one
\* id: no message reaches a stream that ended, no response settles a promise
\* twice.
HeldIsUnsettled ==
    /\ \A p \in PendingIds : /\ stream[pendingTurns[p]] = "open"
                             /\ \A q \in PendingIds :
                                  pendingTurns[p] = pendingTurns[q] => p = q
    /\ \A p \in Id : controlWaiters[p] # None =>
          /\ waiter[controlWaiters[p]] = "waiting"
          /\ \A q \in Id : controlWaiters[p] = controlWaiters[q] => p = q

\* A careful host never loses track of a stream or a waiter: what is unsettled
\* is held by the registered session, where a message, an interrupt or the close
\* can settle it.  So nothing hangs once the session is closed or failed.
UnsettledIsHeld ==
    careful =>
        /\ \A s \in Stream : stream[s] = "open" =>
              registered /\ \E id \in Id : pendingTurns[id] = s
        /\ \A w \in Waiter : waiter[w] = "waiting" =>
              registered /\ \E id \in Id : controlWaiters[id] = w

\* The deltas of a stream are numbered 1, 2, 3... in the order they are pushed,
\* whatever other messages come between them.
DeltasAreNumbered ==
    \A s \in Stream : \A k \in DOMAIN delivered[s] : delivered[s][k] # 0 =>
        delivered[s][k] = Cardinality({j \in 1..k : delivered[s][j] # 0})

\* What the reader of a stream sees: messages with numbered deltas, then one
\* end.  A stream settles once, and nothing is pushed to it afterwards, whatever
\* the adapter sends and whoever else settles it.
StreamsAreSound ==
    [][/\ DeltasAreNumbered'
       /\ \A s \in Stream : stream[s] \in {"ended", "failed", "interrupted"} =>
            stream'[s] = stream[s] /\ delivered'[s] = delivered[s]]_vars

\* With a careful host the result of an interrupt that was asked for, or that
\* says "interrupted", leaves no stream of the turn it names open.
InterruptEndsTheTurn ==
    [][careful =>
         \A id \in Id \cup {None}, turn \in TurnId, interrupted \in BOOLEAN :
            ReceiveInterruptResult(id, turn, interrupted) =>
               \A s \in Stream : turnId[s] = turn => stream'[s] # "open"]_vars
=============================================================================
