------------------------------ MODULE ToolLoop ------------------------------
(***************************************************************************)
(* The tool-loop session adapter of packages/sdk-core/src/index.ts         *)
(* (defineToolLoopSessionAdapter with the NlaToolLoop it runs), together   *)
(* with what AdapterRuntime does to the session's record around each       *)
(* handler.  One session is modelled: every map of the code is keyed by    *)
(* session id and no handler touches another session's entry.              *)
(*                                                                         *)
(* A turn is one session.message call, an input one                        *)
(* session.interaction.resolve call.  Between two awaits a handler runs    *)
(* atomically, so an action is the code from one await to the next.  The   *)
(* model, the tools and the memory store are callbacks of the adapter's    *)
(* author; they may do anything their types allow, which is where the      *)
(* nondeterminism comes from.                                              *)
(*                                                                         *)
(* An operator marked "Mutant" is a plausible mistake in the definition    *)
(* that follows it.  No definition uses it: replacing the definition by it *)
(* shows which property notices.                                           *)
(***************************************************************************)
EXTENDS Naturals, Sequences, FiniteSets

CONSTANTS
    Turn,           \* session.message calls (also turn ids, correlation ids)
    Input,          \* session.interaction.resolve calls (also correlation ids)
    Request,        \* request ids the tools pass to awaitInput
    NoTurn,         \* "undefined" where a turn is expected
    MaxIterations,  \* maxIterations of the loop
    MaxCalls,       \* bound: tool calls in one model response
    MaxWaits,       \* bound: awaitInput promises one tool awaits at once
    Detaches,       \* may a tool ask for an input and go on without it?
    SameTick        \* may a second call arrive in the tick of an answer?

Call == Turn \cup Input

ASSUME NamesAssumption == NoTurn \notin Turn /\ Turn \cap Input = {}
ASSUME BoundsAssumption == /\ MaxIterations \in Nat \ {0}
                           /\ MaxCalls \in Nat
                           /\ MaxWaits \in Nat
                           /\ Detaches \in BOOLEAN
                           /\ SameTick \in BOOLEAN

VARIABLES
    phase,        \* where the handler of each turn stands
    iteration,    \* iteration of NlaToolLoop.run the turn is in
    calls,        \* tool calls of the response still to be executed
    active,       \* activeTurnsBySession: the turn that owns the session
    aborted,      \* turns whose AbortController was aborted
    pending,      \* pendingInputsBySession: request id -> turn that asked
    waits,        \* awaitInput promises the running tool still awaits
    correlation,  \* responseCorrelation.current of each turn
    answered,     \* inputs that arrived
    resolving,    \* entries about to be resolved: input, request id, turn
    memory,       \* turns whose exchange the stored memory contains
    loaded,       \* the memory a turn loaded
    record,       \* the AdapterRuntime's session record
    starting,     \* a session.start or session.resume handler awaits its hook
    stopping,     \* a session.stop handler awaits its hook
    emitted       \* messages emitted so far, by correlation id

loopVars == <<iteration, calls>>
ownerVars == <<active, aborted>>
waitVars == <<pending, waits>>
answerVars == <<correlation, answered, resolving>>
memoryVars == <<memory, loaded>>
hookVars == <<starting, stopping>>
vars == <<phase, loopVars, ownerVars, waitVars, answerVars, memoryVars, record,
          hookVars, emitted>>

Phase == {"idle", "setup", "model", "tool", "saving", "done"}
Running == {"setup", "model", "tool", "saving"}
Kind == {"requested", "resolved", "reply", "completed", "failed"}
Event == [kind : Kind, turn : Turn \cup {NoTurn}]
Entry == [input : Input, request : Request, turn : Turn]
Record == {"absent", "fresh", "started"}

(***************************************************************************)
(* Messages.  Only those that start, pause or end a stream at the host are *)
(* kept; deltas, activities and execution states are left out.             *)
(***************************************************************************)
Say(c, t, kinds) ==
    emitted' = [emitted EXCEPT ![c] = @ \o
                  [k \in 1..Len(kinds) |-> [kind |-> kinds[k], turn |-> t]]]

\* The host ends a stream at the first of these it sees.
StreamEnd == {"requested", "completed", "failed"}
StreamEnded(c) == \E k \in DOMAIN emitted[c] : emitted[c][k].kind \in StreamEnd

\* AdapterRuntime.#ensureSession, which every session handler calls first.
Ensured == IF record = "absent" THEN "fresh" ELSE record

\* A call may arrive: unless two calls are made in the same tick, the microtask
\* between resolveInput and entry.resolve has run by then.
Arrival == SameTick \/ resolving = {}

\* entry.resolve of this turn is queued ahead of the tool's continuation.
Settled(t) == \A e \in resolving : e.turn # t

\* Mutant of Leave: the finally block clears the slot whoever owns it.
LeaveUnconditionally(t) == /\ phase' = [phase EXCEPT ![t] = "done"]
                           /\ active' = NoTurn

(***************************************************************************)
(* Leaving the handler: the finally block clears the session's active turn *)
(* only if it is still this one.                                           *)
(***************************************************************************)
Leave(t) == /\ phase' = [phase EXCEPT ![t] = "done"]
            /\ active' = IF active = t THEN NoTurn ELSE active

\* Mutant of Fail: an abort is swallowed before the finally block is reached.
FailUnlessAborted(t) ==
    IF t \in aborted
    THEN UNCHANGED <<phase, active, emitted>>
    ELSE Leave(t) /\ Say(correlation[t], t, <<"failed">>)

\* An exception ends the turn; an aborted turn says nothing about it.
Fail(t) == /\ Leave(t)
           /\ IF t \in aborted THEN UNCHANGED emitted
                               ELSE Say(correlation[t], t, <<"failed">>)

\* Mutant of RejectPending: the entries go, their promises are not rejected.
DropPending == /\ pending' = [r \in Request |-> NoTurn]
               /\ UNCHANGED waits

\* rejectPendingInputs: every entry is removed and its promise rejected.
RejectPending == /\ pending' = [r \in Request |-> NoTurn]
                 /\ waits' = [t \in Turn |-> {r \in waits[t] : pending[r] # t}]

\* What session.interrupt and session.stop do to the turn that owns the session.
AbortActive == /\ active' = NoTurn
               /\ aborted' = aborted \cup {active}
               /\ RejectPending

-----------------------------------------------------------------------------
(***************************************************************************)
(* session.start and session.resume: started() fills the record, then the  *)
(* hook runs; if it throws, the runtime fails the call and drops the       *)
(* record.                                                                 *)
(***************************************************************************)
SessionStart ==
    /\ Arrival /\ ~starting
    /\ starting' = TRUE
    /\ record' = "started"
    /\ UNCHANGED <<phase, loopVars, ownerVars, waitVars, answerVars,
                   memoryVars, stopping, emitted>>

SessionStartReturns(failed) ==
    /\ starting
    /\ starting' = FALSE
    /\ record' = IF failed THEN "absent" ELSE record
    /\ UNCHANGED <<phase, loopVars, ownerVars, waitVars, answerVars,
                   memoryVars, stopping, emitted>>

-----------------------------------------------------------------------------
(* session.message *)

\* ctx.fail (wrong role, no content, busy session) is terminal for the runtime,
\* which then deletes the session's record whoever else is using it.
Refuse(t) ==
    /\ phase' = [phase EXCEPT ![t] = "done"]
    /\ Say(t, t, <<"failed">>)
    /\ record' = "absent"
    /\ UNCHANGED <<loopVars, ownerVars, waitVars, answerVars, memoryVars,
                   hookVars>>

RefuseInvalid(t) == Arrival /\ phase[t] = "idle" /\ Refuse(t)

RefuseBusy(t) == Arrival /\ phase[t] = "idle" /\ active # NoTurn /\ Refuse(t)

\* Mutant of AcceptMessage: no check for a turn that is still running.
AcceptMessageWhenBusy(t) ==
    /\ Arrival /\ phase[t] = "idle"
    /\ phase' = [phase EXCEPT ![t] = "setup"]
    /\ active' = t
    /\ record' = Ensured
    /\ UNCHANGED <<loopVars, aborted, waitVars, answerVars, memoryVars,
                   hookVars, emitted>>

AcceptMessage(t) ==
    /\ Arrival /\ phase[t] = "idle" /\ active = NoTurn
    /\ phase' = [phase EXCEPT ![t] = "setup"]
    /\ active' = t
    /\ record' = Ensured
    /\ UNCHANGED <<loopVars, aborted, waitVars, answerVars, memoryVars,
                   hookVars, emitted>>

\* createContext and memory.load returned: run starts, unless already aborted.
SetupReturns(t) ==
    /\ phase[t] = "setup"
    /\ loaded' = [loaded EXCEPT ![t] = memory]
    /\ IF t \in aborted
       THEN Fail(t) /\ UNCHANGED iteration
       ELSE /\ phase' = [phase EXCEPT ![t] = "model"]
            /\ iteration' = [iteration EXCEPT ![t] = 1]
            /\ UNCHANGED <<active, emitted>>
    /\ UNCHANGED <<calls, aborted, waitVars, answerVars, memory, record,
                   hookVars>>

Throws(t) ==
    /\ Fail(t)
    /\ UNCHANGED <<loopVars, aborted, waitVars, answerVars, memoryVars, record,
                   hookVars>>

SetupThrows(t) == phase[t] = "setup" /\ Throws(t)

-----------------------------------------------------------------------------
(* NlaToolLoop.run *)

\* The next iteration of the loop, or the error that it exceeded its maximum.
NextIteration(t) ==
    IF iteration[t] < MaxIterations
    THEN /\ iteration' = [iteration EXCEPT ![t] = @ + 1]
         /\ phase' = [phase EXCEPT ![t] = "model"]
         /\ UNCHANGED <<active, emitted>>
    ELSE Fail(t) /\ UNCHANGED iteration

ModelThrows(t) == phase[t] = "model" /\ Throws(t)

\* An assistant response ends the loop; the handler goes on to save the memory.
ModelAnswers(t) ==
    /\ phase[t] = "model"
    /\ IF t \in aborted
       THEN Fail(t)
       ELSE /\ phase' = [phase EXCEPT ![t] = "saving"]
            /\ UNCHANGED <<active, emitted>>
    /\ UNCHANGED <<loopVars, aborted, waitVars, answerVars, memoryVars, record,
                   hookVars>>

ModelCallsTools(t) ==
    /\ phase[t] = "model" /\ t \notin aborted
    /\ \E n \in 0..MaxCalls :
         /\ calls' = [calls EXCEPT ![t] = n]
         /\ IF n = 0
            THEN NextIteration(t)
            ELSE /\ phase' = [phase EXCEPT ![t] = "tool"]
                 /\ UNCHANGED <<iteration, active, emitted>>
    /\ UNCHANGED <<aborted, waitVars, answerVars, memoryVars, record, hookVars>>

\* Mutant of ToolAwaits: awaitInput does not look at the abort signal.
ToolAwaitsThoughAborted(t, r) ==
    /\ phase[t] = "tool" /\ Settled(t)
    /\ pending[r] = NoTurn
    /\ Cardinality(waits[t]) < MaxWaits
    /\ \A e \in resolving : e.request # r
    /\ pending' = [pending EXCEPT ![r] = t]
    /\ waits' = [waits EXCEPT ![t] = @ \cup {r}]
    /\ Say(correlation[t], t, <<"requested">>)
    /\ UNCHANGED <<phase, loopVars, ownerVars, answerVars, memoryVars, record,
                   hookVars>>

\* awaitInput registers the request, unless the turn is aborted or the id taken.
ToolAwaits(t, r) ==
    /\ phase[t] = "tool" /\ Settled(t)
    /\ t \notin aborted /\ pending[r] = NoTurn
    /\ Cardinality(waits[t]) < MaxWaits
    /\ \A e \in resolving : e.request # r
    /\ pending' = [pending EXCEPT ![r] = t]
    /\ waits' = [waits EXCEPT ![t] = @ \cup {r}]
    /\ Say(correlation[t], t, <<"requested">>)
    /\ UNCHANGED <<phase, loopVars, ownerVars, answerVars, memoryVars, record,
                   hookVars>>

\* requestInput only tells the host; no entry is registered.  Bound: a stream
\* that ended is not asked on again.
ToolRequestsInput(t) ==
    /\ Detaches /\ phase[t] = "tool" /\ t \notin aborted
    /\ ~StreamEnded(correlation[t])
    /\ Say(correlation[t], t, <<"requested">>)
    /\ UNCHANGED <<phase, loopVars, ownerVars, waitVars, answerVars, memoryVars,
                   record, hookVars>>

\* A tool that raced the wait against a timeout goes on; the entry stays.
ToolAbandons(t, r) ==
    /\ Detaches /\ phase[t] = "tool" /\ r \in waits[t]
    /\ waits' = [waits EXCEPT ![t] = @ \ {r}]
    /\ UNCHANGED <<phase, loopVars, ownerVars, pending, answerVars, memoryVars,
                   record, hookVars, emitted>>

ToolReturns(t) ==
    /\ phase[t] = "tool" /\ waits[t] = {} /\ Settled(t)
    /\ IF t \in aborted
       THEN Fail(t) /\ UNCHANGED <<iteration, calls>>
       ELSE /\ calls' = [calls EXCEPT ![t] = @ - 1]
            /\ IF calls[t] = 1
               THEN NextIteration(t)
               ELSE UNCHANGED <<phase, iteration, active, emitted>>
    /\ UNCHANGED <<aborted, waitVars, answerVars, memoryVars, record, hookVars>>

ToolThrows(t) == phase[t] = "tool" /\ waits[t] = {} /\ Settled(t) /\ Throws(t)

\* Mutant of SaveReturns: reply() does not look at the abort signal.
SaveReturnsAlwaysReplying(t) ==
    /\ phase[t] = "saving"
    /\ memory' = loaded[t] \cup {t}
    /\ Leave(t)
    /\ Say(correlation[t], t, <<"reply", "completed">>)
    /\ UNCHANGED <<loopVars, aborted, waitVars, answerVars, loaded, record,
                   hookVars>>

\* Mutant of SaveReturns: session.completed drops the record as a failure does.
SaveReturnsDroppingRecord(t) ==
    /\ phase[t] = "saving"
    /\ memory' = loaded[t] \cup {t}
    /\ Leave(t)
    /\ Say(correlation[t], t,
           IF t \in aborted THEN <<"completed">> ELSE <<"reply", "completed">>)
    /\ record' = "absent"
    /\ UNCHANGED <<loopVars, aborted, waitVars, answerVars, loaded, hookVars>>

\* memory.save returned: reply() is silent once aborted, the completion is not.
SaveReturns(t) ==
    /\ phase[t] = "saving"
    /\ memory' = loaded[t] \cup {t}
    /\ Leave(t)
    /\ Say(correlation[t], t,
           IF t \in aborted THEN <<"completed">> ELSE <<"reply", "completed">>)
    /\ UNCHANGED <<loopVars, aborted, waitVars, answerVars, loaded, record,
                   hookVars>>

SaveThrows(t) == phase[t] = "saving" /\ Throws(t)

-----------------------------------------------------------------------------
(* session.interaction.resolve *)

\* ctx.fail(unknown_input_request): terminal again, so the record goes.
AnswerUnknown(i, r) ==
    /\ Arrival /\ i \notin answered /\ pending[r] = NoTurn
    /\ answered' = answered \cup {i}
    /\ Say(i, NoTurn, <<"failed">>)
    /\ record' = "absent"
    /\ UNCHANGED <<phase, loopVars, ownerVars, waitVars, correlation,
                   resolving, memoryVars, hookVars>>

\* Mutant of AnswerKnown: the turn keeps its old correlation id.
AnswerKnownUnmoved(i, r) ==
    /\ Arrival /\ i \notin answered /\ pending[r] # NoTurn
    /\ answered' = answered \cup {i}
    /\ resolving' = resolving \cup
                       {[input |-> i, request |-> r, turn |-> pending[r]]}
    /\ Say(i, pending[r], <<"resolved">>)
    /\ record' = Ensured
    /\ UNCHANGED <<phase, loopVars, ownerVars, waitVars, correlation,
                   memoryVars, hookVars>>

\* The turn's further messages move to the correlation id of the answer.
AnswerKnown(i, r) ==
    /\ Arrival /\ i \notin answered /\ pending[r] # NoTurn
    /\ answered' = answered \cup {i}
    /\ resolving' = resolving \cup
                       {[input |-> i, request |-> r, turn |-> pending[r]]}
    /\ correlation' = [correlation EXCEPT ![pending[r]] = i]
    /\ Say(i, pending[r], <<"resolved">>)
    /\ record' = Ensured
    /\ UNCHANGED <<phase, loopVars, ownerVars, waitVars, memoryVars, hookVars>>

\* entry.resolve, one microtask later: removes whatever entry has the request
\* id and settles the promise of the turn that registered this one.
Resolve(e) ==
    /\ e \in resolving
    /\ resolving' = resolving \ {e}
    /\ pending' = [pending EXCEPT ![e.request] = NoTurn]
    /\ waits' = [waits EXCEPT ![e.turn] = @ \ {e.request}]
    /\ UNCHANGED <<phase, loopVars, ownerVars, correlation, answered,
                   memoryVars, record, hookVars, emitted>>

-----------------------------------------------------------------------------
(* session.interrupt and session.stop *)

\* findInterruptibleTurn: the active turn, if no other turn id is asked for.
Interruptible(requested) == active # NoTurn /\ requested \in {NoTurn, active}

Interrupt(requested) ==
    /\ Arrival /\ Interruptible(requested)
    /\ AbortActive
    /\ record' = Ensured
    /\ UNCHANGED <<phase, loopVars, answerVars, memoryVars, hookVars, emitted>>

InterruptNothing(requested) ==
    /\ Arrival /\ ~Interruptible(requested)
    /\ record' = Ensured
    /\ UNCHANGED <<phase, loopVars, ownerVars, waitVars, answerVars,
                   memoryVars, hookVars, emitted>>

SessionStop ==
    /\ Arrival /\ ~stopping
    /\ stopping' = TRUE
    /\ record' = Ensured
    /\ IF active = NoTurn
       THEN RejectPending /\ UNCHANGED <<active, aborted>>
       ELSE AbortActive
    /\ UNCHANGED <<phase, loopVars, answerVars, memoryVars, starting, emitted>>

\* onSessionStop returned or threw: the runtime deletes the record either way.
SessionStopReturns ==
    /\ stopping
    /\ stopping' = FALSE
    /\ record' = "absent"
    /\ UNCHANGED <<phase, loopVars, ownerVars, waitVars, answerVars,
                   memoryVars, starting, emitted>>

-----------------------------------------------------------------------------
Init ==
    /\ phase = [t \in Turn |-> "idle"]
    /\ iteration = [t \in Turn |-> 0]
    /\ calls = [t \in Turn |-> 0]
    /\ active = NoTurn
    /\ aborted = {}
    /\ pending = [r \in Request |-> NoTurn]
    /\ waits = [t \in Turn |-> {}]
    /\ correlation = [t \in Turn |-> t]
    /\ answered = {}
    /\ resolving = {}
    /\ memory = {}
    /\ loaded = [t \in Turn |-> {}]
    /\ record = "absent"
    /\ starting = FALSE
    /\ stopping = FALSE
    /\ emitted = [c \in Call |-> <<>>]

\* The callbacks of a running turn, each of which eventually settles.
SetupStep(t) == SetupReturns(t) \/ SetupThrows(t)
ModelStep(t) == ModelAnswers(t) \/ ModelCallsTools(t) \/ ModelThrows(t)
ToolEnds(t) == ToolReturns(t) \/ ToolThrows(t)
SaveStep(t) == SaveReturns(t) \/ SaveThrows(t)

TurnStep(t) ==
    \/ SetupStep(t)
    \/ ModelStep(t)
    \/ ToolEnds(t)
    \/ SaveStep(t)
    \/ ToolRequestsInput(t)
    \/ \E r \in Request : ToolAwaits(t, r) \/ ToolAbandons(t, r)

MessageArrives(t) == RefuseInvalid(t) \/ RefuseBusy(t) \/ AcceptMessage(t)

InputArrives(i) == \E r \in Request : AnswerUnknown(i, r) \/ AnswerKnown(i, r)

Resolves == \E e \in resolving : Resolve(e)

SessionStep ==
    \/ SessionStart
    \/ \E failed \in BOOLEAN : SessionStartReturns(failed)
    \/ \E requested \in Turn \cup {NoTurn} :
          Interrupt(requested) \/ InterruptNothing(requested)
    \/ SessionStop
    \/ SessionStopReturns

Next == \/ \E t \in Turn : MessageArrives(t) \/ TurnStep(t)
        \/ \E i \in Input : InputArrives(i)
        \/ Resolves
        \/ SessionStep

Spec == Init /\ [][Next]_vars

(***************************************************************************)
(* Fairness: the event loop runs queued microtasks, and the callbacks of   *)
(* the adapter's author settle.  Nothing is fair about the host: it may    *)
(* never answer, interrupt or stop.                                        *)
(***************************************************************************)
Fairness == /\ \A t \in Turn : /\ WF_vars(SetupStep(t))
                               /\ WF_vars(ModelStep(t))
                               /\ WF_vars(ToolEnds(t))
                               /\ WF_vars(SaveStep(t))
            /\ WF_vars(Resolves)

FairSpec == Spec /\ Fairness

-----------------------------------------------------------------------------
(* Properties *)

TypeOK ==
    /\ phase \in [Turn -> Phase]
    /\ iteration \in [Turn -> 0..MaxIterations]
    /\ calls \in [Turn -> 0..MaxCalls]
    /\ active \in Turn \cup {NoTurn}
    /\ aborted \in SUBSET Turn
    /\ pending \in [Request -> Turn \cup {NoTurn}]
    /\ waits \in [Turn -> SUBSET Request]
    /\ correlation \in [Turn -> Call]
    /\ answered \in SUBSET Input
    /\ resolving \in SUBSET Entry
    /\ memory \in SUBSET Turn
    /\ loaded \in [Turn -> SUBSET Turn]
    /\ record \in Record
    /\ starting \in BOOLEAN
    /\ stopping \in BOOLEAN
    /\ emitted \in [Call -> Seq(Event)]

\* The active-turn slot is held by exactly the running turn nobody aborted: the
\* session never stays busy after its turn ended (the finally block ran on every
\* path), never runs two turns nobody aborted, and the late end of an aborted
\* turn never frees the slot of the turn that followed it.
ActiveTurnRuns ==
    \A t \in Turn : active = t <=> phase[t] \in Running /\ t \notin aborted

\* A pending input belongs to the active turn or is left over from a turn that
\* ended: an interrupt or a stop leaves no entry of the turn it aborted, and the
\* aborted turn registers none afterwards, whatever its tool still does.
PendingHasOwner ==
    \A r \in Request : pending[r] # NoTurn =>
        /\ pending[r] \notin aborted
        /\ active = pending[r] \/ phase[pending[r]] = "done"

\* Whatever a tool still awaits can still be answered: the entry is registered
\* under its turn.  No answer, duplicate answer, interrupt or stop removes an
\* entry without settling the promise the tool awaits.
WaitIsAnswerable ==
    \A t \in Turn : \A r \in waits[t] : pending[r] = t /\ phase[t] = "tool"

\* Both: the table of pending inputs and the promises of the tools agree at any
\* time, whoever answers, interrupts, stops or abandons a wait in between.
InputsAreOwned == PendingHasOwner /\ WaitIsAnswerable

\* A tool awaits one input at a time, until it is answered.
Sequential == MaxWaits <= 1 /\ ~Detaches

\* The host ends a turn's stream at the first request for input, completion or
\* failure it sees.  When tools ask for one input at a time, every correlation
\* id carries messages of one turn only, and nothing after the one that ends its
\* stream: the turn's later messages all go to the correlation id of the answer.
StreamWellFormed ==
    Sequential => \A c \in Call : \A j, k \in DOMAIN emitted[c] :
        /\ emitted[c][j].turn = emitted[c][k].turn
        /\ j < k => emitted[c][j].kind \notin StreamEnd

(***************************************************************************)
(* The inductive invariant behind ActiveTurnRuns, PendingHasOwner and      *)
(* WaitIsAnswerable: an aborted turn was accepted, a turn in a tool has a  *)
(* call left, and an entry about to be resolved is still the one           *)
(* registered under its request id, or gone.                               *)
(***************************************************************************)
AbortedWasAccepted == \A t \in aborted : phase[t] # "idle"
CallLeft == \A t \in Turn : phase[t] = "tool" => calls[t] > 0
ResolvesItsOwn == \A e \in resolving : pending[e.request] \in {NoTurn, e.turn}

IInv == /\ TypeOK
        /\ ActiveTurnRuns
        /\ PendingHasOwner
        /\ WaitIsAnswerable
        /\ AbortedWasAccepted
        /\ CallLeft
        /\ ResolvesItsOwn

(***************************************************************************)
(* The inductive invariant behind StreamWellFormed: no two turns share a   *)
(* correlation id, a stream that ended is not spoken on again before the   *)
(* turn has moved to the correlation id of an answer, and the turn does    *)
(* not go on before that answer has been resolved.                         *)
(***************************************************************************)
AwaitsOne ==
    /\ \A t \in Turn : \A r, s \in waits[t] : r = s
    /\ \A r \in Request : pending[r] # NoTurn => r \in waits[pending[r]]

OwnCorrelation ==
    /\ \A t \in Turn : correlation[t] \in {t} \cup answered
    /\ \A t, u \in Turn : correlation[t] = correlation[u] => t = u
    /\ \A i \in Input \ answered : emitted[i] = <<>>
    /\ \A t \in Turn : phase[t] = "idle" =>
         correlation[t] = t /\ emitted[t] = <<>>

EndedOnlyAwaits ==
    \A t \in Turn : phase[t] \in Running =>
        /\ \A k \in DOMAIN emitted[correlation[t]] :
             emitted[correlation[t]][k].turn = t
        /\ StreamEnded(correlation[t]) =>
             phase[t] = "tool" /\ (t \in aborted \/ waits[t] # {})

AnswerReopens ==
    \A e \in resolving :
        /\ phase[e.turn] = "tool"
        /\ e.turn \in aborted \/ ~StreamEnded(correlation[e.turn])

StreamInv == Sequential => /\ StreamWellFormed
                           /\ AwaitsOne
                           /\ OwnCorrelation
                           /\ EndedOnlyAwaits
                           /\ AnswerReopens

Says(t, kind) == \E c \in Call : \E k \in DOMAIN emitted[c] :
                    emitted[c][k] = [kind |-> kind, turn |-> t]

Completed == {t \in Turn : Says(t, "completed")}

\* The stored memory holds exactly the exchanges of the completed turns, as long
\* as no aborted turn went on to complete: the load at the start of a turn and
\* the save at its end lose no exchange of another turn.
MemoryComplete ==
    Completed \cap aborted = {} => memory = Completed

\* Why: a turn that loaded its memory and still owns the session works on what
\* is stored, and nobody completes twice.
Loaded == {"model", "tool", "saving"}
MemoryInv ==
    /\ \A t \in Completed : phase[t] = "done"
    /\ Completed \cap aborted = {} =>
         /\ memory = Completed
         /\ \A t \in Turn \ aborted : phase[t] \in Loaded => loaded[t] = memory

\* Messages of turn t that a step adds to the stream c.
Added(c, t) == {emitted'[c][k].kind : k \in
                  {j \in DOMAIN emitted'[c] \ DOMAIN emitted[c] :
                     emitted'[c][j].turn = t}}

\* An aborted turn asks for nothing, replies nothing and reports no failure.
AbortSilences ==
    [][\A t \in aborted, c \in Call : Added(c, t) \subseteq {"completed"}]_vars

\* The runtime's session record, which holds what session.start and
\* session.resume were given, is dropped only when the host is told: a call
\* fails or a stop ends.  A turn that runs to its end keeps it.
RecordLossIsReported ==
    [][record # "absent" /\ record' = "absent" =>
         \/ starting /\ ~starting'
         \/ stopping /\ ~stopping'
         \/ \E c \in Call : \E t \in Turn \cup {NoTurn} :
               "failed" \in Added(c, t)]_vars

\* What the interrupt tests assert of an interrupted turn: it emits no
\* session.completed.
InterruptedNeverCompletes == Completed \cap aborted = {}

\* An interrupted or stopped turn ends, even when its tool awaits an input.
AbortedTurnEnds == \A t \in Turn : t \in aborted ~> phase[t] = "done"

\* A running turn ends, unless its tool awaits an input nobody answers.
TurnEndsOrAwaits ==
    \A t \in Turn : phase[t] \in Running ~> phase[t] = "done" \/ waits[t] # {}

\* So only an input the host owes keeps a turn, and no abort waits for one.
EveryTurnEnds == AbortedTurnEnds /\ TurnEndsOrAwaits

\* Another answer to the turn came in before this one was resolved: the turn
\* goes on under the later one's correlation id.
Overtaken(i, t) ==
    \E e \in resolving :
        e.input = i /\ e.turn = t /\ correlation[t] \in Input \ {i}

\* The stream of an answer ends: the turn asks again, completes or fails under
\* the answer's correlation id, unless it is aborted or a second answer comes in
\* the same tick.  Of several answers in one tick the last one's stream ends; the
\* others are told "resolved" and never hear of the turn again.
AnsweredStreamEnds ==
    \A i \in Input, t \in Turn :
        (\E e \in resolving : e.input = i /\ e.turn = t)
            ~> StreamEnded(i) \/ t \in aborted \/ Overtaken(i, t)
=============================================================================
