--------------------------- MODULE ToolLoop_proofs ---------------------------
(***************************************************************************)
(* Theorems about ToolLoop, and about StdioRunner around it, for every set *)
(* of turns, inputs and request ids and every value of the bounds.         *)
(***************************************************************************)
EXTENDS StdioRunner, FiniteSetTheorems, TLAPS

\* Emitting messages keeps every stream a sequence of events.
LEMMA SayType ==
    ASSUME emitted \in [Call -> Seq(Event)],
           NEW c \in Call, NEW t \in Turn \cup {NoTurn}, NEW kinds \in Seq(Kind),
           Say(c, t, kinds)
    PROVE  emitted' \in [Call -> Seq(Event)]
<1> DEFINE new == [k \in 1..Len(kinds) |-> [kind |-> kinds[k], turn |-> t]]
<1>1. \A k \in 1..Len(kinds) : [kind |-> kinds[k], turn |-> t] \in Event
    BY DEF Event
<1>2. new \in Seq(Event)
    BY <1>1
<1>3. emitted[c] \o new \in Seq(Event)
    BY <1>2
<1>4. QED
    BY <1>3 DEF Say

\* The single-message form of SayType, as most actions use it.
LEMMA SayOneType ==
    ASSUME emitted \in [Call -> Seq(Event)],
           NEW c \in Call, NEW t \in Turn \cup {NoTurn}, NEW kind \in Kind,
           Say(c, t, <<kind>>)
    PROVE  emitted' \in [Call -> Seq(Event)]
<1>1. <<kind>> \in Seq(Kind)
    OBVIOUS
<1>2. QED
    BY <1>1, SayType

\* An exception leaves well-typed state behind.
LEMMA FailType ==
    ASSUME TypeOK, NEW t \in Turn, Fail(t)
    PROVE  /\ phase' \in [Turn -> Phase]
           /\ active' \in Turn \cup {NoTurn}
           /\ emitted' \in [Call -> Seq(Event)]
<1>1. phase' \in [Turn -> Phase] /\ active' \in Turn \cup {NoTurn}
    BY DEF TypeOK, Fail, Leave, Phase
<1>2. CASE t \in aborted
    BY <1>1, <1>2 DEF TypeOK, Fail
<1>3. CASE t \notin aborted
    <2>1. Say(correlation[t], t, <<"failed">>)
        BY <1>3 DEF Fail
    <2>2. correlation[t] \in Call /\ "failed" \in Kind
        BY DEF TypeOK, Kind
    <2>3. emitted' \in [Call -> Seq(Event)]
        BY <2>1, <2>2, SayOneType DEF TypeOK
    <2>4. QED
        BY <1>1, <2>3
<1>4. QED
    BY <1>2, <1>3

\* So does the step to the next iteration of the loop.
LEMMA NextIterationType ==
    ASSUME TypeOK, NEW t \in Turn, NextIteration(t)
    PROVE  /\ phase' \in [Turn -> Phase]
           /\ iteration' \in [Turn -> 0..MaxIterations]
           /\ active' \in Turn \cup {NoTurn}
           /\ emitted' \in [Call -> Seq(Event)]
<1>1. CASE iteration[t] < MaxIterations
    <2>1. iteration[t] + 1 \in 0..MaxIterations
        BY <1>1, BoundsAssumption DEF TypeOK
    <2>2. iteration' = [iteration EXCEPT ![t] = @ + 1]
        BY <1>1 DEF NextIteration
    <2>3. iteration' \in [Turn -> 0..MaxIterations]
        BY <2>1, <2>2 DEF TypeOK
    <2>4. phase' = [phase EXCEPT ![t] = "model"] /\ UNCHANGED <<active, emitted>>
        BY <1>1 DEF NextIteration
    <2>5. QED
        BY <2>3, <2>4 DEF TypeOK, Phase
<1>2. CASE ~(iteration[t] < MaxIterations)
    <2>1. Fail(t) /\ iteration' = iteration
        BY <1>2 DEF NextIteration
    <2>2. QED
        BY <2>1, FailType DEF TypeOK
<1>3. QED
    BY <1>1, <1>2

LEMMA TypeInit == Init => TypeOK
<1> SUFFICES ASSUME Init PROVE TypeOK
    OBVIOUS
<1>1. emitted \in [Call -> Seq(Event)]
    <2>1. <<>> \in Seq(Event)
        OBVIOUS
    <2>2. emitted = [c \in Call |-> <<>>]
        BY DEF Init
    <2>3. QED
        BY <2>1, <2>2
<1>2. 0 \in 0..MaxIterations /\ 0 \in 0..MaxCalls
    BY BoundsAssumption
<1>3. QED
    <2>1. /\ phase \in [Turn -> Phase]
          /\ iteration \in [Turn -> 0..MaxIterations]
          /\ calls \in [Turn -> 0..MaxCalls]
        BY <1>2 DEF Init, Phase
    <2>2. /\ active \in Turn \cup {NoTurn}
          /\ pending \in [Request -> Turn \cup {NoTurn}]
          /\ waits \in [Turn -> SUBSET Request]
          /\ correlation \in [Turn -> Call]
          /\ loaded \in [Turn -> SUBSET Turn]
        BY DEF Init, Call
    <2>3. /\ aborted = {} /\ answered = {} /\ resolving = {} /\ memory = {}
          /\ record \in Record
          /\ starting \in BOOLEAN /\ stopping \in BOOLEAN
        BY DEF Init, Record
    <2>4. QED
        BY <1>1, <2>1, <2>2, <2>3 DEF TypeOK

\* Every step keeps the types; a tool that returns has a call to count down.
LEMMA TypeStep ==
    ASSUME TypeOK, CallLeft, [Next]_vars
    PROVE  TypeOK'
<1> USE DEF loopVars, ownerVars, waitVars, answerVars, memoryVars, hookVars
<1>1. ASSUME NEW t \in Turn, RefuseInvalid(t) \/ RefuseBusy(t)
      PROVE  TypeOK'
    <2>1. t \in Call /\ "failed" \in Kind /\ Say(t, t, <<"failed">>)
        BY <1>1 DEF RefuseInvalid, RefuseBusy, Refuse, Call, Kind
    <2>2. emitted' \in [Call -> Seq(Event)]
        BY <2>1, SayOneType DEF TypeOK
    <2>3. QED
        BY <1>1, <2>2 DEF TypeOK, RefuseInvalid, RefuseBusy, Refuse, Phase, Record
<1>2. ASSUME NEW t \in Turn, AcceptMessage(t)
      PROVE  TypeOK'
    BY <1>2 DEF TypeOK, AcceptMessage, Ensured, Phase, Record
<1>3. ASSUME NEW t \in Turn, SetupReturns(t)
      PROVE  TypeOK'
    <2>1. CASE t \in aborted
        <3>1. Fail(t) /\ iteration' = iteration
            BY <1>3, <2>1 DEF SetupReturns
        <3>2. QED
            BY <1>3, <3>1, FailType DEF TypeOK, SetupReturns
    <2>2. CASE t \notin aborted
        <3>1. 1 \in 0..MaxIterations
            BY BoundsAssumption
        <3>2. QED
            BY <1>3, <2>2, <3>1 DEF TypeOK, SetupReturns, Phase
    <2>3. QED
        BY <2>1, <2>2
<1>4. ASSUME NEW t \in Turn, Throws(t)
      PROVE  TypeOK'
    BY <1>4, FailType DEF TypeOK, Throws
<1>5. ASSUME NEW t \in Turn, ModelAnswers(t)
      PROVE  TypeOK'
    <2>1. CASE t \in aborted
        <3>1. Fail(t)
            BY <1>5, <2>1 DEF ModelAnswers
        <3>2. QED
            BY <1>5, <3>1, FailType DEF TypeOK, ModelAnswers
    <2>2. CASE t \notin aborted
        BY <1>5, <2>2 DEF TypeOK, ModelAnswers, Phase
    <2>3. QED
        BY <2>1, <2>2
<1>6. ASSUME NEW t \in Turn, ModelCallsTools(t)
      PROVE  TypeOK'
    <2>1. PICK n \in 0..MaxCalls :
             /\ calls' = [calls EXCEPT ![t] = n]
             /\ IF n = 0
                THEN NextIteration(t)
                ELSE /\ phase' = [phase EXCEPT ![t] = "tool"]
                     /\ UNCHANGED <<iteration, active, emitted>>
        BY <1>6 DEF ModelCallsTools
    <2>2. CASE n = 0
        BY <1>6, <2>1, <2>2, NextIterationType DEF TypeOK, ModelCallsTools
    <2>3. CASE n # 0
        BY <1>6, <2>1, <2>3 DEF TypeOK, ModelCallsTools, Phase
    <2>4. QED
        BY <2>2, <2>3
<1>7. ASSUME NEW t \in Turn, ToolRequestsInput(t)
      PROVE  TypeOK'
    <2>1. correlation[t] \in Call /\ "requested" \in Kind
        BY DEF TypeOK, Kind
    <2>2. emitted' \in [Call -> Seq(Event)]
        BY <1>7, <2>1, SayOneType DEF TypeOK, ToolRequestsInput
    <2>3. QED
        BY <1>7, <2>2 DEF TypeOK, ToolRequestsInput
<1>8. ASSUME NEW t \in Turn, NEW r \in Request, ToolAwaits(t, r)
      PROVE  TypeOK'
    <2>1. correlation[t] \in Call /\ "requested" \in Kind
        BY DEF TypeOK, Kind
    <2>2. emitted' \in [Call -> Seq(Event)]
        BY <1>8, <2>1, SayOneType DEF TypeOK, ToolAwaits
    <2>3. QED
        BY <1>8, <2>2 DEF TypeOK, ToolAwaits
<1>9. ASSUME NEW t \in Turn, NEW r \in Request, ToolAbandons(t, r)
      PROVE  TypeOK'
    BY <1>9 DEF TypeOK, ToolAbandons
<1>10. ASSUME NEW t \in Turn, ToolReturns(t)
       PROVE  TypeOK'
    <2>1. CASE t \in aborted
        <3>1. Fail(t) /\ iteration' = iteration /\ calls' = calls
            BY <1>10, <2>1 DEF ToolReturns
        <3>2. QED
            BY <1>10, <3>1, FailType DEF TypeOK, ToolReturns
    <2>2. CASE t \notin aborted
        <3>1. calls' = [calls EXCEPT ![t] = @ - 1]
            BY <1>10, <2>2 DEF ToolReturns
        <3>2. calls[t] \in 1..MaxCalls
            BY <1>10, BoundsAssumption DEF ToolReturns, CallLeft, TypeOK
        <3>3. calls' \in [Turn -> 0..MaxCalls]
            BY <3>1, <3>2, BoundsAssumption DEF TypeOK
        <3>4. CASE calls[t] = 1
            <4>1. NextIteration(t)
                BY <1>10, <2>2, <3>4 DEF ToolReturns
            <4>2. QED
                BY <1>10, <3>3, <4>1, NextIterationType DEF TypeOK, ToolReturns
        <3>5. CASE calls[t] # 1
            BY <1>10, <2>2, <3>3, <3>5 DEF TypeOK, ToolReturns
        <3>6. QED
            BY <3>4, <3>5
    <2>3. QED
        BY <2>1, <2>2
<1>11. ASSUME NEW t \in Turn, SaveReturns(t)
       PROVE  TypeOK'
    <2> DEFINE kinds == IF t \in aborted THEN <<"completed">>
                                         ELSE <<"reply", "completed">>
    <2>1. kinds \in Seq(Kind)
        <3>1. "reply" \in Kind /\ "completed" \in Kind
            BY DEF Kind
        <3>2. <<"completed">> \in Seq(Kind) /\ <<"reply", "completed">> \in Seq(Kind)
            BY <3>1
        <3>3. QED
            BY <3>2
    <2>2. correlation[t] \in Call /\ Say(correlation[t], t, kinds)
        BY <1>11 DEF TypeOK, SaveReturns
    <2>3. emitted' \in [Call -> Seq(Event)]
        <3> HIDE DEF kinds
        <3> QED BY <2>1, <2>2, SayType DEF TypeOK
    <2>4. memory' \in SUBSET Turn
        BY <1>11 DEF TypeOK, SaveReturns
    <2>5. QED
        BY <1>11, <2>3, <2>4 DEF TypeOK, SaveReturns, Leave, Phase
<1>12. ASSUME NEW i \in Input, NEW r \in Request, AnswerUnknown(i, r)
       PROVE  TypeOK'
    <2>1. i \in Call /\ "failed" \in Kind
        BY DEF Call, Kind
    <2>2. emitted' \in [Call -> Seq(Event)]
        BY <1>12, <2>1, SayOneType DEF TypeOK, AnswerUnknown
    <2>3. QED
        BY <1>12, <2>2 DEF TypeOK, AnswerUnknown, Record
<1>13. ASSUME NEW i \in Input, NEW r \in Request, AnswerKnown(i, r)
       PROVE  TypeOK'
    <2>1. i \in Call /\ "resolved" \in Kind /\ pending[r] \in Turn
        BY <1>13 DEF Call, Kind, AnswerKnown, TypeOK
    <2>2. emitted' \in [Call -> Seq(Event)]
        BY <1>13, <2>1, SayOneType DEF TypeOK, AnswerKnown
    <2>3. resolving' \in SUBSET Entry
        BY <1>13, <2>1 DEF TypeOK, AnswerKnown, Entry
    <2>4. QED
        BY <1>13, <2>1, <2>2, <2>3 DEF TypeOK, AnswerKnown, Ensured, Record
<1>14. ASSUME Resolves
       PROVE  TypeOK'
    BY <1>14 DEF TypeOK, Resolves, Resolve, Entry
<1>15. ASSUME NEW requested \in Turn \cup {NoTurn}, Interrupt(requested)
       PROVE  TypeOK'
    BY <1>15 DEF TypeOK, Interrupt, Interruptible, AbortActive, RejectPending,
                 Ensured, Record
<1>16. ASSUME SessionStop
       PROVE  TypeOK'
    BY <1>16 DEF TypeOK, SessionStop, AbortActive, RejectPending, Ensured, Record
<1>17. ASSUME \/ SessionStart
              \/ \E failed \in BOOLEAN : SessionStartReturns(failed)
              \/ \E requested \in Turn \cup {NoTurn} : InterruptNothing(requested)
              \/ SessionStopReturns
       PROVE  TypeOK'
    BY <1>17 DEF TypeOK, SessionStart, SessionStartReturns, InterruptNothing,
                 SessionStopReturns, Ensured, Record
<1>18. CASE UNCHANGED vars
    BY <1>18 DEF TypeOK, vars
<1>19. QED
    BY <1>1, <1>2, <1>3, <1>4, <1>5, <1>6, <1>7, <1>8, <1>9, <1>10, <1>11, <1>12,
       <1>13, <1>14, <1>15, <1>16, <1>17, <1>18
       DEF Next, MessageArrives, TurnStep, SetupStep, ModelStep, ToolEnds, SaveStep,
           SetupThrows, ModelThrows, ToolThrows, SaveThrows, InputArrives, SessionStep

\* The conjuncts of IInv other than the types.
Safe == /\ ActiveTurnRuns
        /\ PendingHasOwner
        /\ WaitIsAnswerable
        /\ AbortedWasAccepted
        /\ CallLeft
        /\ ResolvesItsOwn

LEMMA IInvSplit == IInv <=> TypeOK /\ Safe
BY DEF IInv, Safe

\* Nothing but the phase of turns, the active turn, the aborted turns, the inputs
\* and the calls left decides Safe.
LEMMA SafeFrame ==
    ASSUME Safe,
           UNCHANGED <<phase, calls, active, aborted, pending, waits, resolving>>
    PROVE  Safe'
BY DEF Safe, ActiveTurnRuns, PendingHasOwner, WaitIsAnswerable, AbortedWasAccepted,
       CallLeft, ResolvesItsOwn

\* A running turn that awaits nothing moves on to another phase, or ends and
\* gives up the session if it still owns it.
LEMMA MoveSafe ==
    ASSUME TypeOK, Safe, TypeOK', NEW t \in Turn,
           phase[t] \in Running, waits[t] = {},
           \/ Leave(t)
           \/ /\ \E p \in Running :
                    /\ phase' = [phase EXCEPT ![t] = p]
                    /\ p = "tool" => calls'[t] > 0
              /\ UNCHANGED active,
           \A u \in Turn \ {t} : calls'[u] = calls[u],
           UNCHANGED <<aborted, pending, waits, resolving>>
    PROVE  Safe'
<1>1. \A u \in Turn \ {t} : phase'[u] = phase[u]
    BY DEF Leave, TypeOK
<1>2. \/ phase'[t] = "done" /\ active' = IF active = t THEN NoTurn ELSE active
      \/ /\ phase'[t] \in Running /\ active' = active
         /\ phase'[t] = "tool" => calls'[t] > 0
    BY DEF Leave, TypeOK
<1>3. phase'[t] # "idle" /\ "done" \notin Running
    BY <1>2 DEF Running
<1>4. ActiveTurnRuns'
    BY <1>1, <1>2, <1>3, NamesAssumption DEF Safe, ActiveTurnRuns
<1>5. PendingHasOwner'
    BY <1>1, <1>2 DEF Safe, PendingHasOwner, TypeOK, Running
<1>6. WaitIsAnswerable'
    BY <1>1 DEF Safe, WaitIsAnswerable
<1>7. AbortedWasAccepted'
    BY <1>1, <1>3 DEF Safe, AbortedWasAccepted, TypeOK
<1>8. CallLeft'
    BY <1>1, <1>2 DEF Safe, CallLeft
<1>9. ResolvesItsOwn'
    BY DEF Safe, ResolvesItsOwn
<1>10. QED
    BY <1>4, <1>5, <1>6, <1>7, <1>8, <1>9 DEF Safe

\* A turn that is not in a tool awaits nothing.
LEMMA AwaitsOnlyInTool ==
    ASSUME TypeOK, Safe, NEW t \in Turn, phase[t] # "tool"
    PROVE  waits[t] = {}
BY DEF Safe, WaitIsAnswerable, TypeOK

\* An interrupt or a stop: the active turn is aborted with its pending inputs.
LEMMA AbortSafe ==
    ASSUME TypeOK, Safe, active # NoTurn, AbortActive,
           UNCHANGED <<phase, calls, resolving>>
    PROVE  Safe'
<1>1. active \in Turn /\ phase[active] \in Running
    BY DEF TypeOK, Safe, ActiveTurnRuns
<1>2. ActiveTurnRuns'
    BY <1>1, NamesAssumption DEF Safe, ActiveTurnRuns, AbortActive
<1>3. PendingHasOwner' /\ WaitIsAnswerable' /\ ResolvesItsOwn'
    <2>1. \A r \in Request : pending'[r] = NoTurn
        BY DEF AbortActive, RejectPending
    <2>2. \A u \in Turn : waits'[u] = {}
        BY DEF AbortActive, RejectPending, Safe, WaitIsAnswerable
    <2>3. \A e \in resolving : e.request \in Request
        BY DEF TypeOK, Entry
    <2>4. QED
        BY <2>1, <2>2, <2>3 DEF PendingHasOwner, WaitIsAnswerable, ResolvesItsOwn
<1>4. AbortedWasAccepted'
    BY <1>1 DEF Safe, AbortedWasAccepted, AbortActive, Running
<1>5. CallLeft'
    BY DEF Safe, CallLeft
<1>6. QED
    BY <1>2, <1>3, <1>4, <1>5 DEF Safe

\* Failing is leaving, whether the host is told or not.
LEMMA FailSafe ==
    ASSUME TypeOK, Safe, TypeOK', NEW t \in Turn,
           phase[t] \in Running, waits[t] = {}, Fail(t),
           UNCHANGED <<calls, aborted, pending, waits, resolving>>
    PROVE  Safe'
<1>1. Leave(t)
    BY DEF Fail
<1>2. QED
    BY <1>1, MoveSafe

\* So is running out of iterations.
LEMMA NextIterationSafe ==
    ASSUME TypeOK, Safe, TypeOK', NEW t \in Turn,
           phase[t] \in Running, waits[t] = {}, NextIteration(t),
           \A u \in Turn \ {t} : calls'[u] = calls[u],
           UNCHANGED <<aborted, pending, waits, resolving>>
    PROVE  Safe'
<1>1. CASE iteration[t] < MaxIterations
    <2>1. phase' = [phase EXCEPT ![t] = "model"] /\ active' = active
        BY <1>1 DEF NextIteration
    <2>2. "model" \in Running
        BY DEF Running
    <2>3. QED
        BY <2>1, <2>2, MoveSafe
<1>2. CASE ~(iteration[t] < MaxIterations)
    <2>1. Leave(t)
        BY <1>2 DEF NextIteration, Fail
    <2>2. QED
        BY <2>1, MoveSafe
<1>3. QED
    BY <1>1, <1>2

LEMMA SafeInit == Init => Safe
BY NamesAssumption DEF Init, Safe, ActiveTurnRuns, PendingHasOwner, WaitIsAnswerable,
       AbortedWasAccepted, CallLeft, ResolvesItsOwn, Running

\* Every step keeps the invariant: one step per action of Next.
LEMMA SafeStep ==
    ASSUME TypeOK, Safe, TypeOK', [Next]_vars
    PROVE  Safe'
<1> USE DEF loopVars, ownerVars, waitVars, answerVars, memoryVars, hookVars
<1>1. ASSUME NEW t \in Turn, RefuseInvalid(t) \/ RefuseBusy(t)
      PROVE  Safe'
    <2>1. /\ phase[t] = "idle" /\ phase' = [phase EXCEPT ![t] = "done"]
          /\ UNCHANGED <<calls, active, aborted, pending, waits, resolving>>
        BY <1>1 DEF RefuseInvalid, RefuseBusy, Refuse
    <2>2. ActiveTurnRuns'
        BY <2>1 DEF Safe, ActiveTurnRuns, TypeOK, Running
    <2>3. PendingHasOwner' /\ WaitIsAnswerable'
        BY <2>1 DEF Safe, PendingHasOwner, WaitIsAnswerable, TypeOK
    <2>4. AbortedWasAccepted' /\ CallLeft' /\ ResolvesItsOwn'
        BY <2>1 DEF Safe, AbortedWasAccepted, CallLeft, ResolvesItsOwn, TypeOK
    <2>5. QED
        BY <2>2, <2>3, <2>4 DEF Safe
<1>2. ASSUME NEW t \in Turn, AcceptMessage(t)
      PROVE  Safe'
    <2>1. /\ phase[t] = "idle" /\ phase' = [phase EXCEPT ![t] = "setup"]
          /\ active = NoTurn /\ active' = t
          /\ UNCHANGED <<calls, aborted, pending, waits, resolving>>
        BY <1>2 DEF AcceptMessage
    <2>2. t \notin aborted
        BY <2>1 DEF Safe, AbortedWasAccepted
    <2>3. ActiveTurnRuns'
        BY <2>1, <2>2, NamesAssumption DEF Safe, ActiveTurnRuns, TypeOK, Running
    <2>4. PendingHasOwner' /\ WaitIsAnswerable'
        BY <2>1 DEF Safe, PendingHasOwner, WaitIsAnswerable, TypeOK
    <2>5. AbortedWasAccepted' /\ CallLeft' /\ ResolvesItsOwn'
        BY <2>1 DEF Safe, AbortedWasAccepted, CallLeft, ResolvesItsOwn, TypeOK
    <2>6. QED
        BY <2>3, <2>4, <2>5 DEF Safe
<1>3. ASSUME NEW t \in Turn, SetupReturns(t)
      PROVE  Safe'
    <2>1. phase[t] \in Running /\ waits[t] = {}
        BY <1>3, AwaitsOnlyInTool DEF SetupReturns, Running
    <2>2. UNCHANGED <<calls, aborted, pending, waits, resolving>>
        BY <1>3 DEF SetupReturns
    <2>3. \/ Leave(t)
          \/ phase' = [phase EXCEPT ![t] = "model"] /\ active' = active
        BY <1>3 DEF SetupReturns, Fail
    <2>4. "model" \in Running
        BY DEF Running
    <2>5. QED
        BY <2>1, <2>2, <2>3, <2>4, MoveSafe
<1>4. ASSUME NEW t \in Turn, SetupThrows(t) \/ ModelThrows(t) \/ SaveThrows(t)
      PROVE  Safe'
    <2>1. phase[t] \in Running /\ waits[t] = {} /\ Throws(t)
        BY <1>4, AwaitsOnlyInTool
           DEF SetupThrows, ModelThrows, SaveThrows, Running
    <2>2. QED
        BY <2>1, FailSafe DEF Throws
<1>5. ASSUME NEW t \in Turn, ModelAnswers(t)
      PROVE  Safe'
    <2>1. phase[t] \in Running /\ waits[t] = {}
        BY <1>5, AwaitsOnlyInTool DEF ModelAnswers, Running
    <2>2. UNCHANGED <<calls, aborted, pending, waits, resolving>>
        BY <1>5 DEF ModelAnswers
    <2>3. \/ Leave(t)
          \/ phase' = [phase EXCEPT ![t] = "saving"] /\ active' = active
        BY <1>5 DEF ModelAnswers, Fail
    <2>4. "saving" \in Running
        BY DEF Running
    <2>5. QED
        BY <2>1, <2>2, <2>3, <2>4, MoveSafe
<1>6. ASSUME NEW t \in Turn, ModelCallsTools(t)
      PROVE  Safe'
    <2>1. phase[t] \in Running /\ waits[t] = {}
        BY <1>6, AwaitsOnlyInTool DEF ModelCallsTools, Running
    <2>2. UNCHANGED <<aborted, pending, waits, resolving>>
        BY <1>6 DEF ModelCallsTools
    <2>3. PICK n \in 0..MaxCalls :
             /\ calls' = [calls EXCEPT ![t] = n]
             /\ IF n = 0
                THEN NextIteration(t)
                ELSE /\ phase' = [phase EXCEPT ![t] = "tool"]
                     /\ UNCHANGED <<iteration, active, emitted>>
        BY <1>6 DEF ModelCallsTools
    <2>4. calls'[t] = n /\ \A u \in Turn \ {t} : calls'[u] = calls[u]
        BY <2>3 DEF TypeOK
    <2>5. CASE n = 0
        BY <2>1, <2>2, <2>3, <2>4, <2>5, NextIterationSafe
    <2>6. CASE n # 0
        <3>1. phase' = [phase EXCEPT ![t] = "tool"] /\ active' = active
            BY <2>3, <2>6
        <3>2. "tool" \in Running /\ calls'[t] > 0
            BY <2>4, <2>6, BoundsAssumption DEF Running
        <3>3. QED
            BY <2>1, <2>2, <2>4, <3>1, <3>2, MoveSafe
    <2>7. QED
        BY <2>5, <2>6
<1>7. ASSUME NEW t \in Turn, ToolRequestsInput(t)
      PROVE  Safe'
    BY <1>7, SafeFrame DEF ToolRequestsInput
<1>8. ASSUME NEW t \in Turn, NEW r \in Request, ToolAwaits(t, r)
      PROVE  Safe'
    <2>1. /\ phase[t] = "tool" /\ t \notin aborted /\ pending[r] = NoTurn
          /\ pending' = [pending EXCEPT ![r] = t]
          /\ waits' = [waits EXCEPT ![t] = @ \cup {r}]
          /\ \A e \in resolving : e.request # r
          /\ UNCHANGED <<phase, calls, active, aborted, resolving>>
        BY <1>8 DEF ToolAwaits
    <2>2. active = t
        BY <2>1 DEF Safe, ActiveTurnRuns, Running
    <2>3. ActiveTurnRuns' /\ AbortedWasAccepted' /\ CallLeft'
        BY <2>1 DEF Safe, ActiveTurnRuns, AbortedWasAccepted, CallLeft
    <2>4. PendingHasOwner'
        BY <2>1, <2>2 DEF Safe, PendingHasOwner, TypeOK
    <2>5. WaitIsAnswerable'
        <3>1. \A u \in Turn : r \notin waits[u]
            BY <2>1, NamesAssumption DEF Safe, WaitIsAnswerable
        <3>2. QED
            BY <2>1, <3>1 DEF Safe, WaitIsAnswerable, TypeOK
    <2>6. ResolvesItsOwn'
        BY <2>1 DEF Safe, ResolvesItsOwn, TypeOK, Entry
    <2>7. QED
        BY <2>3, <2>4, <2>5, <2>6 DEF Safe
<1>9. ASSUME NEW t \in Turn, NEW r \in Request, ToolAbandons(t, r)
      PROVE  Safe'
    <2>1. /\ waits' = [waits EXCEPT ![t] = @ \ {r}]
          /\ UNCHANGED <<phase, calls, active, aborted, pending, resolving>>
        BY <1>9 DEF ToolAbandons
    <2>2. WaitIsAnswerable'
        BY <2>1 DEF Safe, WaitIsAnswerable, TypeOK
    <2>3. QED
        BY <2>1, <2>2 DEF Safe, ActiveTurnRuns, PendingHasOwner, AbortedWasAccepted,
                          CallLeft, ResolvesItsOwn
<1>10. ASSUME NEW t \in Turn, ToolReturns(t)
       PROVE  Safe'
    <2>1. phase[t] \in Running /\ waits[t] = {}
        BY <1>10 DEF ToolReturns, Running
    <2>2. UNCHANGED <<aborted, pending, waits, resolving>>
        BY <1>10 DEF ToolReturns
    <2>3. CASE t \in aborted
        <3>1. Fail(t) /\ calls' = calls
            BY <1>10, <2>3 DEF ToolReturns
        <3>2. QED
            BY <2>1, <2>2, <3>1, FailSafe
    <2>4. CASE t \notin aborted
        <3>1. calls' = [calls EXCEPT ![t] = @ - 1]
            BY <1>10, <2>4 DEF ToolReturns
        <3>2. /\ \A u \in Turn \ {t} : calls'[u] = calls[u]
              /\ calls'[t] = calls[t] - 1
            BY <3>1 DEF TypeOK
        <3>3. CASE calls[t] = 1
            <4>1. NextIteration(t)
                BY <1>10, <2>4, <3>3 DEF ToolReturns
            <4>2. QED
                BY <2>1, <2>2, <3>2, <4>1, NextIterationSafe
        <3>4. CASE calls[t] # 1
            <4>1. phase' = phase /\ active' = active
                BY <1>10, <2>4, <3>4 DEF ToolReturns
            <4>2. phase' = [phase EXCEPT ![t] = "tool"]
                BY <1>10, <4>1 DEF TypeOK, ToolReturns
            <4>3. calls[t] \in Nat /\ calls[t] > 0
                BY <1>10, BoundsAssumption DEF TypeOK, ToolReturns, Safe, CallLeft
            <4>4. calls'[t] > 0
                BY <3>2, <3>4, <4>3
            <4>5. "tool" \in Running
                BY DEF Running
            <4>6. QED
                BY <2>1, <2>2, <3>2, <4>1, <4>2, <4>4, <4>5, MoveSafe
        <3>5. QED
            BY <3>3, <3>4
    <2>5. QED
        BY <2>3, <2>4
<1>11. ASSUME NEW t \in Turn, ToolThrows(t)
       PROVE  Safe'
    <2>1. phase[t] \in Running /\ waits[t] = {} /\ Throws(t)
        BY <1>11 DEF ToolThrows, Running
    <2>2. QED
        BY <2>1, FailSafe DEF Throws
<1>12. ASSUME NEW t \in Turn, SaveReturns(t)
       PROVE  Safe'
    <2>1. phase[t] \in Running /\ waits[t] = {}
        BY <1>12, AwaitsOnlyInTool DEF SaveReturns, Running
    <2>2. Leave(t) /\ UNCHANGED <<calls, aborted, pending, waits, resolving>>
        BY <1>12 DEF SaveReturns
    <2>3. QED
        BY <2>1, <2>2, MoveSafe
<1>13. ASSUME NEW i \in Input, NEW r \in Request, AnswerUnknown(i, r)
       PROVE  Safe'
    BY <1>13, SafeFrame DEF AnswerUnknown
<1>14. ASSUME NEW i \in Input, NEW r \in Request, AnswerKnown(i, r)
       PROVE  Safe'
    <2>1. /\ resolving' = resolving \cup
                   {[input |-> i, request |-> r, turn |-> pending[r]]}
          /\ UNCHANGED <<phase, calls, active, aborted, pending, waits>>
        BY <1>14 DEF AnswerKnown
    <2>2. ResolvesItsOwn'
        BY <2>1 DEF Safe, ResolvesItsOwn
    <2>3. QED
        BY <2>1, <2>2 DEF Safe, ActiveTurnRuns, PendingHasOwner, WaitIsAnswerable,
                          AbortedWasAccepted, CallLeft
<1>15. ASSUME Resolves
       PROVE  Safe'
    <2>1. PICK e \in resolving : Resolve(e)
        BY <1>15 DEF Resolves
    <2>2. /\ e.request \in Request /\ e.turn \in Turn
          /\ pending[e.request] \in {NoTurn, e.turn}
        BY <2>1 DEF TypeOK, Entry, Safe, ResolvesItsOwn
    <2>3. /\ resolving' = resolving \ {e}
          /\ pending' = [pending EXCEPT ![e.request] = NoTurn]
          /\ waits' = [waits EXCEPT ![e.turn] = @ \ {e.request}]
          /\ UNCHANGED <<phase, calls, active, aborted>>
        BY <2>1 DEF Resolve
    <2>4. PendingHasOwner'
        BY <2>2, <2>3 DEF Safe, PendingHasOwner, TypeOK
    <2>5. WaitIsAnswerable'
        <3>1. \A t \in Turn : e.request \in waits[t] => t = e.turn
            BY <2>2, NamesAssumption DEF Safe, WaitIsAnswerable
        <3>2. \A t \in Turn : \A r \in waits'[t] : r \in waits[t] /\ r # e.request
            BY <2>2, <2>3, <3>1 DEF TypeOK
        <3>3. \A t \in Turn : waits'[t] \in SUBSET Request
            BY DEF TypeOK
        <3>4. QED
            BY <2>3, <3>2, <3>3 DEF Safe, WaitIsAnswerable, TypeOK
    <2>6. ResolvesItsOwn'
        BY <2>2, <2>3 DEF Safe, ResolvesItsOwn, TypeOK, Entry
    <2>7. QED
        BY <2>3, <2>4, <2>5, <2>6
           DEF Safe, ActiveTurnRuns, AbortedWasAccepted, CallLeft
<1>16. ASSUME NEW requested \in Turn \cup {NoTurn}, Interrupt(requested)
       PROVE  Safe'
    BY <1>16, AbortSafe DEF Interrupt, Interruptible
<1>17. ASSUME SessionStop
       PROVE  Safe'
    <2>1. CASE active = NoTurn
        <3>1. /\ RejectPending
              /\ UNCHANGED <<phase, calls, active, aborted, resolving>>
            BY <1>17, <2>1 DEF SessionStop
        <3>2. PendingHasOwner' /\ ResolvesItsOwn'
            BY <3>1 DEF RejectPending, PendingHasOwner, ResolvesItsOwn, TypeOK, Entry
        <3>3. WaitIsAnswerable'
            BY <3>1 DEF RejectPending, Safe, WaitIsAnswerable
        <3>4. QED
            BY <3>1, <3>2, <3>3
               DEF Safe, ActiveTurnRuns, AbortedWasAccepted, CallLeft
    <2>2. CASE active # NoTurn
        BY <1>17, <2>2, AbortSafe DEF SessionStop
    <2>3. QED
        BY <2>1, <2>2
<1>18. ASSUME \/ SessionStart
              \/ \E failed \in BOOLEAN : SessionStartReturns(failed)
              \/ \E requested \in Turn \cup {NoTurn} : InterruptNothing(requested)
              \/ SessionStopReturns
       PROVE  Safe'
    BY <1>18, SafeFrame DEF SessionStart, SessionStartReturns, InterruptNothing,
                            SessionStopReturns
<1>19. CASE UNCHANGED vars
    BY <1>19, SafeFrame DEF vars
<1>20. QED
    BY <1>1, <1>2, <1>3, <1>4, <1>5, <1>6, <1>7, <1>8, <1>9, <1>10, <1>11, <1>12,
       <1>13, <1>14, <1>15, <1>16, <1>17, <1>18, <1>19
       DEF Next, MessageArrives, TurnStep, SetupStep, ModelStep, ToolEnds, SaveStep,
           InputArrives, SessionStep

\* The inductive invariant holds in every reachable state.
THEOREM Invariance == Spec => []IInv
<1>1. Init => IInv
    BY TypeInit, SafeInit, IInvSplit
<1>2. IInv /\ [Next]_vars => IInv'
    <2> SUFFICES ASSUME IInv, [Next]_vars PROVE IInv'
        OBVIOUS
    <2>1. TypeOK /\ Safe
        BY IInvSplit
    <2>2. TypeOK'
        BY <2>1, TypeStep DEF Safe
    <2>3. Safe'
        BY <2>1, <2>2, SafeStep
    <2>4. QED
        BY <2>2, <2>3 DEF IInv, Safe
<1>3. QED
    BY <1>1, <1>2, PTL DEF Spec

\* Types: every reachable state is well typed.
THEOREM TypeCorrect == Spec => []TypeOK
<1>1. IInv => TypeOK
    BY DEF IInv
<1>2. QED
    BY <1>1, Invariance, PTL

\* Whoever interrupts, stops or fails, the session's active turn is exactly the
\* running turn nobody aborted.
THEOREM OneTurnOwnsTheSession == Spec => []ActiveTurnRuns
<1>1. IInv => ActiveTurnRuns
    BY DEF IInv
<1>2. QED
    BY <1>1, Invariance, PTL

\* No interrupt, stop, end of turn or answer leaves a pending input of an aborted
\* turn behind.
THEOREM PendingInputsAreOwned == Spec => []PendingHasOwner
<1>1. IInv => PendingHasOwner
    BY DEF IInv
<1>2. QED
    BY <1>1, Invariance, PTL

\* What a tool awaits is registered: no wake-up is lost.
THEOREM AwaitedInputsAreRegistered == Spec => []WaitIsAnswerable
<1>1. IInv => WaitIsAnswerable
    BY DEF IInv
<1>2. QED
    BY <1>1, Invariance, PTL

\* The table of pending inputs and the promises of the tools agree (pendingInputs
\* and awaitInput of defineToolLoopSessionAdapter).
THEOREM InputsAlwaysOwned == Spec => []InputsAreOwned
  BY PendingInputsAreOwned, AwaitedInputsAreRegistered, PTL DEF InputsAreOwned

(***************************************************************************)
(* The session memory.                                                     *)
(***************************************************************************)

\* The completed turns after a Say: those before, and its turn if it completes it.
LEMMA SayCompletes ==
    ASSUME emitted \in [Call -> Seq(Event)],
           NEW c \in Call, NEW t \in Turn \cup {NoTurn}, NEW kinds \in Seq(Kind),
           Say(c, t, kinds), NEW u \in Turn
    PROVE  u \in Completed' <=>
              \/ u \in Completed
              \/ u = t /\ \E k \in 1..Len(kinds) : kinds[k] = "completed"
<1> DEFINE old == emitted[c]
           new == [k \in 1..Len(kinds) |-> [kind |-> kinds[k], turn |-> t]]
           said == [kind |-> "completed", turn |-> u]
<1>1. old \in Seq(Event) /\ new \in Seq(Event)
    <2>1. \A k \in 1..Len(kinds) : [kind |-> kinds[k], turn |-> t] \in Event
        BY DEF Event
    <2>2. QED
        BY <2>1
<1>2. /\ emitted'[c] = old \o new
      /\ \A d \in Call \ {c} : emitted'[d] = emitted[d]
    BY DEF Say
<1>3. (\E k \in DOMAIN (old \o new) : (old \o new)[k] = said) <=>
         (\E k \in DOMAIN old : old[k] = said) \/ (\E k \in DOMAIN new : new[k] = said)
    <2> HIDE DEF old, new, said
    <2>1. /\ DOMAIN old = 1..Len(old) /\ DOMAIN new = 1..Len(new)
          /\ Len(old) \in Nat /\ Len(new) \in Nat
          /\ DOMAIN (old \o new) = 1..(Len(old) + Len(new))
          /\ \A k \in 1..(Len(old) + Len(new)) :
               (old \o new)[k] = IF k <= Len(old) THEN old[k] ELSE new[k - Len(old)]
        BY <1>1
    <2>2. ASSUME NEW k \in DOMAIN old, old[k] = said
          PROVE  \E m \in DOMAIN (old \o new) : (old \o new)[m] = said
        <3>1. k \in DOMAIN (old \o new) /\ (old \o new)[k] = said
            BY <2>1, <2>2
        <3>2. QED
            BY <3>1
    <2>3. ASSUME NEW k \in DOMAIN new, new[k] = said
          PROVE  \E m \in DOMAIN (old \o new) : (old \o new)[m] = said
        <3>1. /\ Len(old) + k \in DOMAIN (old \o new)
              /\ (old \o new)[Len(old) + k] = said
            BY <2>1, <2>3
        <3>2. QED
            BY <3>1
    <2>4. ASSUME NEW k \in DOMAIN (old \o new), (old \o new)[k] = said
          PROVE  (\E m \in DOMAIN old : old[m] = said)
                    \/ (\E m \in DOMAIN new : new[m] = said)
        <3>1. CASE k <= Len(old)
            BY <2>1, <2>4, <3>1
        <3>2. CASE ~(k <= Len(old))
            <4>1. k - Len(old) \in DOMAIN new /\ new[k - Len(old)] = said
                BY <2>1, <2>4, <3>2
            <4>2. QED
                BY <4>1
        <3>3. QED
            BY <3>1, <3>2
    <2>5. QED
        BY <2>2, <2>3, <2>4
<1>4. (\E k \in DOMAIN new : new[k] = said) <=>
         (u = t /\ \E k \in 1..Len(kinds) : kinds[k] = "completed")
    OBVIOUS
<1>5. u \in Completed <=> (\E k \in DOMAIN old : old[k] = said)
                           \/ \E d \in Call \ {c} : \E k \in DOMAIN emitted[d] :
                                 emitted[d][k] = said
    BY DEF Completed, Says
<1>6. u \in Completed' <=> (\E k \in DOMAIN (old \o new) : (old \o new)[k] = said)
                            \/ \E d \in Call \ {c} : \E k \in DOMAIN emitted[d] :
                                  emitted[d][k] = said
    <2>1. u \in Completed' <=> \E d \in Call : \E k \in DOMAIN emitted'[d] :
                                 emitted'[d][k] = said
        BY DEF Completed, Says
    <2>2. QED
        BY <1>2, <2>1
<1>7. QED
    BY <1>3, <1>4, <1>5, <1>6

\* A single message other than a completion completes no turn.
LEMMA SayOther ==
    ASSUME emitted \in [Call -> Seq(Event)],
           NEW c \in Call, NEW t \in Turn \cup {NoTurn},
           NEW kind \in Kind \ {"completed"}, Say(c, t, <<kind>>)
    PROVE  Completed' = Completed
<1> DEFINE kinds == <<kind>>
<1>1. kinds \in Seq(Kind) /\ \A k \in 1..Len(kinds) : kinds[k] # "completed"
    OBVIOUS
<1>2. Say(c, t, kinds)
    OBVIOUS
<1> HIDE DEF kinds
<1>3. \A u \in Turn : u \in Completed' <=> u \in Completed
    BY <1>1, <1>2, SayCompletes
<1>4. QED
    BY <1>3 DEF Completed

LEMMA SilentCompletes ==
    ASSUME UNCHANGED emitted
    PROVE  Completed' = Completed
BY DEF Completed, Says

LEMMA FailCompletes ==
    ASSUME TypeOK, NEW t \in Turn, Fail(t)
    PROVE  Completed' = Completed
<1>1. correlation[t] \in Call /\ "failed" \in Kind \ {"completed"}
    BY DEF TypeOK, Kind
<1>2. CASE t \in aborted
    BY <1>2, SilentCompletes DEF Fail
<1>3. CASE t \notin aborted
    BY <1>1, <1>3, SayOther DEF Fail, TypeOK
<1>4. QED
    BY <1>2, <1>3

LEMMA NextIterationCompletes ==
    ASSUME TypeOK, NEW t \in Turn, NextIteration(t)
    PROVE  Completed' = Completed
<1>1. Fail(t) \/ emitted' = emitted
    BY DEF NextIteration
<1>2. QED
    BY <1>1, FailCompletes, SilentCompletes

\* A step that neither loads nor saves the memory, completes no turn and undoes
\* neither an abort nor an end.
KeepsMemory ==
    /\ Completed' = Completed
    /\ UNCHANGED memoryVars
    /\ aborted \subseteq aborted'
    /\ \A t \in Turn : /\ phase[t] = "done" => phase'[t] = "done"
                       /\ phase'[t] \in Loaded => phase[t] \in Loaded

LEMMA MemoryFrame ==
    ASSUME TypeOK, MemoryInv, KeepsMemory
    PROVE  MemoryInv'
<1> USE DEF KeepsMemory
<1>1. \A t \in Completed' : phase'[t] = "done"
    BY DEF MemoryInv, Completed
<1>2. ASSUME Completed' \cap aborted' = {}
      PROVE  /\ memory' = Completed'
             /\ \A t \in Turn \ aborted' :
                   phase'[t] \in Loaded => loaded'[t] = memory'
    BY <1>2 DEF MemoryInv, memoryVars
<1>3. QED
    BY <1>1, <1>2 DEF MemoryInv

LEMMA MemoryInit == Init => MemoryInv
<1> SUFFICES ASSUME Init PROVE MemoryInv
    OBVIOUS
<1>1. Completed = {}
    BY DEF Init, Completed, Says
<1>2. \A t \in Turn : phase[t] \notin Loaded
    BY DEF Init, Loaded
<1>3. memory = {}
    BY DEF Init
<1>4. QED
    BY <1>1, <1>2, <1>3 DEF MemoryInv

\* The end of a save completes the turn that saved.
LEMMA SaveCompletes ==
    ASSUME TypeOK, NEW t \in Turn, SaveReturns(t)
    PROVE  Completed' = Completed \cup {t}
<1> DEFINE kinds == IF t \in aborted THEN <<"completed">>
                                     ELSE <<"reply", "completed">>
<1>1. correlation[t] \in Call /\ Say(correlation[t], t, kinds)
    BY DEF SaveReturns, TypeOK
<1>2. kinds \in Seq(Kind)
    <2>1. "reply" \in Kind /\ "completed" \in Kind
        BY DEF Kind
    <2>2. <<"completed">> \in Seq(Kind) /\ <<"reply", "completed">> \in Seq(Kind)
        BY <2>1
    <2>3. QED
        BY <2>2
<1>3. \E k \in 1..Len(kinds) : kinds[k] = "completed"
    <2>1. CASE t \in aborted
        <3>1. 1 \in 1..Len(kinds) /\ kinds[1] = "completed"
            BY <2>1
        <3>2. QED
            BY <3>1
    <2>2. CASE t \notin aborted
        <3>1. 2 \in 1..Len(kinds) /\ kinds[2] = "completed"
            BY <2>2
        <3>2. QED
            BY <3>1
    <2>3. QED
        BY <2>1, <2>2
<1> HIDE DEF kinds
<1>4. ASSUME NEW u \in Turn
      PROVE  u \in Completed' <=> u \in Completed \/ u = t
    <2>1. emitted \in [Call -> Seq(Event)] /\ t \in Turn \cup {NoTurn}
        BY DEF TypeOK
    <2>2. u \in Completed' <=>
             \/ u \in Completed
             \/ u = t /\ \E k \in 1..Len(kinds) : kinds[k] = "completed"
        BY <1>1, <1>2, <2>1, SayCompletes
    <2>3. QED
        BY <1>3, <2>2
<1>5. QED
    BY <1>4 DEF Completed

\* The end of a load completes none.
LEMMA LoadCompletes ==
    ASSUME TypeOK, NEW t \in Turn, SetupReturns(t)
    PROVE  Completed' = Completed
<1>1. Fail(t) \/ emitted' = emitted
    BY DEF SetupReturns
<1>2. QED
    BY <1>1, FailCompletes, SilentCompletes

\* If no aborted turn ever completed, the turn that saved is the one that owned
\* the session.
LEMMA MemorySave ==
    ASSUME IInv, MemoryInv, TypeOK', NEW t \in Turn, SaveReturns(t)
    PROVE  MemoryInv'
<1>1. Completed' = Completed \cup {t}
    BY SaveCompletes DEF IInv
<1>2. /\ phase[t] = "saving" /\ phase' = [phase EXCEPT ![t] = "done"]
      /\ memory' = loaded[t] \cup {t}
      /\ loaded' = loaded /\ aborted' = aborted
    BY DEF SaveReturns, Leave, memoryVars, ownerVars
<1>3. \A u \in Completed' : phase'[u] = "done"
    BY <1>1, <1>2 DEF IInv, TypeOK, MemoryInv, Completed
<1>4. ASSUME Completed' \cap aborted' = {}
      PROVE  /\ memory' = Completed'
             /\ \A u \in Turn \ aborted' :
                   phase'[u] \in Loaded => loaded'[u] = memory'
    <2>1. t \notin aborted /\ Completed \cap aborted = {}
        BY <1>1, <1>2, <1>4
    <2>2. memory' = Completed'
        BY <1>1, <1>2, <2>1 DEF MemoryInv, Loaded
    <2>3. \A u \in Turn \ aborted' : phase'[u] \notin Loaded
        <3>1. active = t
            BY <1>2, <2>1 DEF IInv, ActiveTurnRuns, Running
        <3>2. \A u \in Turn \ aborted : phase[u] \in Loaded => u = t
            BY <3>1 DEF IInv, ActiveTurnRuns, Running, Loaded
        <3>3. QED
            BY <1>2, <3>2 DEF IInv, TypeOK, Loaded
    <2>4. QED
        BY <2>2, <2>3
<1>5. QED
    BY <1>3, <1>4 DEF MemoryInv

\* Loading: the turn starts from the stored memory.
LEMMA MemoryLoad ==
    ASSUME IInv, MemoryInv, NEW t \in Turn, SetupReturns(t)
    PROVE  MemoryInv'
<1>1. /\ phase[t] = "setup" /\ phase'[t] \in {"model", "done"}
      /\ \A u \in Turn \ {t} : phase'[u] = phase[u]
      /\ loaded' = [loaded EXCEPT ![t] = memory]
      /\ memory' = memory /\ aborted' = aborted
    BY DEF SetupReturns, Fail, Leave, IInv, TypeOK
<1>2. Completed' = Completed
    BY LoadCompletes DEF IInv
<1>3. loaded'[t] = memory /\ \A u \in Turn \ {t} : loaded'[u] = loaded[u]
    BY <1>1 DEF IInv, TypeOK
<1>4. \A u \in Completed : u # t
    BY <1>1 DEF MemoryInv
<1>5. QED
    BY <1>1, <1>2, <1>3, <1>4 DEF MemoryInv, Completed

\* Only loads and saves touch the memory.
LEMMA MemoryTouched ==
    ASSUME TypeOK, [Next]_vars
    PROVE  \/ \E t \in Turn : SetupReturns(t) \/ SaveReturns(t)
           \/ KeepsMemory
<1> USE DEF loopVars, ownerVars, waitVars, answerVars, hookVars
<1>1. ASSUME NEW t \in Turn, RefuseInvalid(t) \/ RefuseBusy(t)
      PROVE  KeepsMemory
    <2>1. /\ phase' = [phase EXCEPT ![t] = "done"]
          /\ UNCHANGED <<aborted, memoryVars>> /\ Say(t, t, <<"failed">>)
        BY <1>1 DEF RefuseInvalid, RefuseBusy, Refuse
    <2>2. Completed' = Completed
        BY <2>1, SayOther DEF TypeOK, Call, Kind
    <2>3. QED
        BY <2>1, <2>2 DEF KeepsMemory, TypeOK, Loaded
<1>2. ASSUME NEW t \in Turn, AcceptMessage(t)
      PROVE  KeepsMemory
    <2>1. /\ phase[t] = "idle" /\ phase' = [phase EXCEPT ![t] = "setup"]
          /\ UNCHANGED <<aborted, memoryVars, emitted>>
        BY <1>2 DEF AcceptMessage
    <2>2. QED
        BY <2>1, SilentCompletes DEF KeepsMemory, TypeOK, Loaded
<1>3. ASSUME NEW t \in Turn, Throws(t)
      PROVE  KeepsMemory
    <2>1. Fail(t) /\ UNCHANGED <<aborted, memoryVars>>
        BY <1>3 DEF Throws
    <2>2. phase' = [phase EXCEPT ![t] = "done"]
        BY <2>1 DEF Fail, Leave
    <2>3. QED
        BY <2>1, <2>2, FailCompletes DEF KeepsMemory, TypeOK, Loaded
<1>4. ASSUME NEW t \in Turn, ModelAnswers(t) \/ ModelCallsTools(t) \/ ToolReturns(t)
      PROVE  KeepsMemory
    <2>1. phase[t] \in Loaded /\ UNCHANGED <<aborted, memoryVars>>
        BY <1>4 DEF ModelAnswers, ModelCallsTools, ToolReturns, Loaded
    <2>2. \/ Fail(t)
          \/ NextIteration(t)
          \/ \E p \in Loaded : phase' = [phase EXCEPT ![t] = p] /\ emitted' = emitted
          \/ phase' = phase /\ emitted' = emitted
        BY <1>4 DEF ModelAnswers, ModelCallsTools, ToolReturns, Loaded
    <2>3. Completed' = Completed
        BY <2>2, FailCompletes, NextIterationCompletes, SilentCompletes
    <2>4. \E p \in Loaded \cup {"done"} : phase' = [phase EXCEPT ![t] = p]
        <3>1. phase = [phase EXCEPT ![t] = phase[t]]
            BY DEF TypeOK
        <3>2. QED
            BY <2>1, <2>2, <3>1 DEF Fail, Leave, NextIteration, Loaded
    <2>5. \A u \in Turn : /\ phase[u] = "done" => phase'[u] = "done"
                          /\ phase'[u] \in Loaded => phase[u] \in Loaded
        BY <2>1, <2>4 DEF TypeOK, Loaded
    <2>6. QED
        BY <2>1, <2>3, <2>5 DEF KeepsMemory
<1>5. ASSUME NEW t \in Turn,
             \/ ToolRequestsInput(t)
             \/ \E r \in Request : ToolAwaits(t, r)
      PROVE  KeepsMemory
    <2>1. UNCHANGED <<phase, aborted, memoryVars>> /\ Say(correlation[t], t, <<"requested">>)
        BY <1>5 DEF ToolRequestsInput, ToolAwaits
    <2>2. correlation[t] \in Call /\ "requested" \in Kind \ {"completed"}
        BY DEF TypeOK, Kind
    <2>3. Completed' = Completed
        BY <2>1, <2>2, SayOther DEF TypeOK
    <2>4. QED
        BY <2>1, <2>3 DEF KeepsMemory
<1>6. ASSUME NEW i \in Input, NEW r \in Request,
             AnswerUnknown(i, r) \/ AnswerKnown(i, r)
      PROVE  KeepsMemory
    <2>1. UNCHANGED <<phase, aborted, memoryVars>>
        BY <1>6 DEF AnswerUnknown, AnswerKnown
    <2>2. /\ i \in Call /\ pending[r] \in Turn \cup {NoTurn}
          /\ "failed" \in Kind \ {"completed"} /\ "resolved" \in Kind \ {"completed"}
        BY DEF TypeOK, Call, Kind
    <2>3. CASE AnswerUnknown(i, r)
        <3>1. Completed' = Completed
            BY <2>2, <2>3, SayOther DEF TypeOK, AnswerUnknown
        <3>2. QED
            BY <2>1, <3>1 DEF KeepsMemory
    <2>4. CASE AnswerKnown(i, r)
        <3>1. Completed' = Completed
            BY <2>2, <2>4, SayOther DEF TypeOK, AnswerKnown
        <3>2. QED
            BY <2>1, <3>1 DEF KeepsMemory
    <2>5. QED
        BY <1>6, <2>3, <2>4
<1>7. ASSUME \/ \E t \in Turn : \E r \in Request : ToolAbandons(t, r)
             \/ Resolves
             \/ SessionStep
             \/ UNCHANGED vars
      PROVE  KeepsMemory
    <2>1. /\ UNCHANGED <<phase, memoryVars, emitted>>
          /\ aborted \subseteq aborted'
        BY <1>7 DEF ToolAbandons, Resolves, Resolve, SessionStep, SessionStart,
                    SessionStartReturns, Interrupt, InterruptNothing, SessionStop,
                    SessionStopReturns, AbortActive, vars
    <2>2. QED
        BY <2>1, SilentCompletes DEF KeepsMemory
<1>8. QED
    BY <1>1, <1>2, <1>3, <1>4, <1>5, <1>6, <1>7
       DEF Next, MessageArrives, TurnStep, SetupStep, ModelStep, ToolEnds, SaveStep,
           SetupThrows, ModelThrows, ToolThrows, SaveThrows, InputArrives

LEMMA MemoryStep ==
    ASSUME IInv, MemoryInv, TypeOK', [Next]_vars
    PROVE  MemoryInv'
BY MemoryTouched, MemoryLoad, MemorySave, MemoryFrame DEF IInv

\* No exchange of a completed turn is lost from the stored memory, and none is
\* stored of a turn that did not complete, until an aborted turn completes.
THEOREM NoExchangeIsLost == Spec => []MemoryComplete
<1>1. Init => IInv /\ MemoryInv
    BY TypeInit, SafeInit, IInvSplit, MemoryInit
<1>2. IInv /\ MemoryInv /\ IInv' /\ [Next]_vars => MemoryInv'
    BY MemoryStep DEF IInv
<1>3. MemoryInv => MemoryComplete
    BY DEF MemoryInv, MemoryComplete
<1>4. QED
    BY <1>1, <1>2, <1>3, Invariance, PTL DEF Spec

(***************************************************************************)
(* The streams.                                                            *)
(***************************************************************************)

\* What a Say makes of the streams: it appends to one and leaves the others.
LEMMA SayStreams ==
    ASSUME emitted \in [Call -> Seq(Event)],
           NEW c \in Call, NEW t \in Turn \cup {NoTurn}, NEW kinds \in Seq(Kind),
           Say(c, t, kinds)
    PROVE  /\ \A d \in Call \ {c} : emitted'[d] = emitted[d]
           /\ DOMAIN emitted[c] = 1..Len(emitted[c])
           /\ Len(emitted[c]) \in Nat /\ Len(kinds) \in Nat
           /\ DOMAIN emitted'[c] = 1..(Len(emitted[c]) + Len(kinds))
           /\ \A k \in 1..Len(emitted[c]) : emitted'[c][k] = emitted[c][k]
           /\ \A k \in 1..Len(kinds) :
                emitted'[c][Len(emitted[c]) + k] = [kind |-> kinds[k], turn |-> t]
<1> DEFINE old == emitted[c]
           new == [k \in 1..Len(kinds) |-> [kind |-> kinds[k], turn |-> t]]
<1>1. old \in Seq(Event) /\ new \in Seq(Event)
    <2>1. \A k \in 1..Len(kinds) : [kind |-> kinds[k], turn |-> t] \in Event
        BY DEF Event
    <2>2. QED
        BY <2>1
<1>2. /\ emitted'[c] = old \o new
      /\ \A d \in Call \ {c} : emitted'[d] = emitted[d]
    BY DEF Say
<1>3. /\ Len(new) = Len(kinds) /\ Len(kinds) \in Nat
      /\ \A k \in 1..Len(kinds) : new[k] = [kind |-> kinds[k], turn |-> t]
    OBVIOUS
<1> HIDE DEF old, new
<1>4. /\ DOMAIN old = 1..Len(old) /\ Len(old) \in Nat
      /\ DOMAIN (old \o new) = 1..(Len(old) + Len(new))
      /\ \A k \in 1..Len(old) : (old \o new)[k] = old[k]
      /\ \A k \in 1..Len(new) : (old \o new)[Len(old) + k] = new[k]
    BY <1>1
<1>5. \A k \in 1..Len(kinds) :
         (old \o new)[Len(old) + k] = [kind |-> kinds[k], turn |-> t]
    BY <1>3, <1>4
<1>6. QED
    BY <1>2, <1>3, <1>4, <1>5 DEF old

\* A turn may speak on a stream that has not ended and that carries its messages
\* only, if nothing it says but the last message ends the stream.
LEMMA SayWellFormed ==
    ASSUME emitted \in [Call -> Seq(Event)], Sequential, StreamWellFormed,
           NEW c \in Call, NEW t \in Turn \cup {NoTurn}, NEW kinds \in Seq(Kind),
           Say(c, t, kinds),
           ~StreamEnded(c),
           \A k \in DOMAIN emitted[c] : emitted[c][k].turn = t,
           \A k \in 1..Len(kinds) : k < Len(kinds) => kinds[k] \notin StreamEnd
    PROVE  /\ StreamWellFormed'
           /\ \A k \in DOMAIN emitted'[c] : emitted'[c][k].turn = t
           /\ StreamEnded(c)' => \E k \in 1..Len(kinds) : kinds[k] \in StreamEnd
<1> DEFINE n == Len(emitted[c])
           m == Len(kinds)
<1>1. /\ \A d \in Call \ {c} : emitted'[d] = emitted[d]
      /\ DOMAIN emitted[c] = 1..n /\ n \in Nat /\ m \in Nat
      /\ DOMAIN emitted'[c] = 1..(n + m)
      /\ \A k \in 1..n : emitted'[c][k] = emitted[c][k]
      /\ \A k \in 1..m : emitted'[c][n + k] = [kind |-> kinds[k], turn |-> t]
    BY SayStreams
<1> HIDE DEF n, m
<1>2. ASSUME NEW k \in DOMAIN emitted'[c]
      PROVE  \/ k \in 1..n /\ emitted'[c][k].turn = t
                           /\ emitted'[c][k].kind \notin StreamEnd
             \/ \E l \in 1..m : /\ k = n + l
                                /\ emitted'[c][k].turn = t
                                /\ emitted'[c][k].kind = kinds[l]
    <2>1. CASE k \in 1..n
        BY <1>1, <2>1 DEF StreamEnded
    <2>2. CASE k \notin 1..n
        <3>1. k - n \in 1..m /\ k = n + (k - n)
            BY <1>1, <2>2
        <3>2. emitted'[c][k] = [kind |-> kinds[k - n], turn |-> t]
            BY <1>1, <3>1
        <3>3. QED
            BY <3>1, <3>2
    <2>3. QED
        BY <2>1, <2>2
<1>3. \A k \in DOMAIN emitted'[c] : emitted'[c][k].turn = t
    BY <1>2
<1>4. StreamEnded(c)' => \E k \in 1..m : kinds[k] \in StreamEnd
    BY <1>2 DEF StreamEnded
<1>5. ASSUME NEW j \in DOMAIN emitted'[c], NEW k \in DOMAIN emitted'[c], j < k
      PROVE  emitted'[c][j].kind \notin StreamEnd
    <2>1. CASE j \in 1..n
        BY <1>1, <2>1 DEF StreamEnded
    <2>2. CASE j \notin 1..n
        <3>1. PICK l \in 1..m : j = n + l /\ emitted'[c][j].kind = kinds[l]
            BY <1>2, <2>2
        <3>2. l < m
            BY <1>1, <1>5, <3>1
        <3>3. QED
            BY <3>1, <3>2 DEF m
    <2>3. QED
        BY <2>1, <2>2
<1>6. StreamWellFormed'
    <2>1. ASSUME NEW d \in Call, NEW j \in DOMAIN emitted'[d], NEW k \in DOMAIN emitted'[d]
          PROVE  /\ emitted'[d][j].turn = emitted'[d][k].turn
                 /\ j < k => emitted'[d][j].kind \notin StreamEnd
        <3>1. CASE d = c
            BY <1>3, <1>5, <3>1
        <3>2. CASE d # c
            BY <1>1, <3>2 DEF StreamWellFormed
        <3>3. QED
            BY <3>1, <3>2
    <2>2. QED
        BY <2>1 DEF StreamWellFormed
<1>7. QED
    BY <1>3, <1>4, <1>6 DEF m

\* The conjuncts of StreamInv for tools that ask for one input at a time.
Streams == /\ StreamWellFormed
           /\ AwaitsOne
           /\ OwnCorrelation
           /\ EndedOnlyAwaits
           /\ AnswerReopens

\* Silent steps: nobody begins anew, who goes on has not ended its stream or
\* still awaits, and entries and promises go together.
LEMMA StreamsFrame ==
    ASSUME TypeOK, Streams,
           UNCHANGED <<correlation, answered, emitted>>,
           aborted \subseteq aborted',
           \A t \in Turn :
              /\ phase'[t] = "idle" => phase[t] = "idle"
              /\ phase'[t] \in Running =>
                   \/ phase[t] = "idle"
                   \/ /\ phase[t] \in Running
                      /\ StreamEnded(correlation[t]) =>
                           phase'[t] = "tool" /\ (t \in aborted' \/ waits'[t] # {})
              /\ waits'[t] \subseteq waits[t],
           \A r \in Request : pending'[r] # NoTurn =>
              pending'[r] = pending[r] /\ r \in waits'[pending[r]],
           \A e \in resolving' : e \in resolving /\ phase'[e.turn] = "tool"
    PROVE  Streams'
<1>1. \A c \in Call : StreamEnded(c)' <=> StreamEnded(c)
    BY DEF StreamEnded
<1>2. \A t \in Turn : correlation[t] \in Call /\ t \in Call
    BY DEF TypeOK, Call
<1>3. StreamWellFormed'
    BY DEF Streams, StreamWellFormed, Sequential
<1>4. AwaitsOne'
    BY DEF Streams, AwaitsOne
<1>5. OwnCorrelation'
    BY DEF Streams, OwnCorrelation
<1>6. EndedOnlyAwaits'
    <2> SUFFICES ASSUME NEW t \in Turn, phase'[t] \in Running
                 PROVE  /\ \A k \in DOMAIN emitted[correlation[t]] :
                             emitted[correlation[t]][k].turn = t
                        /\ StreamEnded(correlation[t]) =>
                             phase'[t] = "tool" /\ (t \in aborted' \/ waits'[t] # {})
        BY <1>1, <1>2 DEF EndedOnlyAwaits
    <2>1. CASE phase[t] = "idle"
        <3>1. emitted[correlation[t]] = <<>>
            BY <2>1 DEF Streams, OwnCorrelation
        <3>2. QED
            BY <3>1 DEF StreamEnded
    <2>2. CASE phase[t] \in Running /\ phase[t] # "idle"
        BY <2>2 DEF Streams, EndedOnlyAwaits
    <2>3. QED
        BY <2>1, <2>2
<1>7. AnswerReopens'
    <2> SUFFICES ASSUME NEW e \in resolving'
                 PROVE  /\ phase'[e.turn] = "tool"
                        /\ e.turn \in aborted' \/ ~StreamEnded(correlation[e.turn])'
        BY DEF AnswerReopens
    <2>1. e \in resolving /\ e.turn \in Turn
        BY DEF TypeOK, Entry
    <2>2. QED
        BY <1>1, <1>2, <2>1 DEF Streams, AnswerReopens
<1>8. QED
    BY <1>3, <1>4, <1>5, <1>6, <1>7 DEF Streams

\* A running turn that awaits nothing moves on without a word, or ends.
LEMMA MoveStreams ==
    ASSUME TypeOK, Streams, NEW t \in Turn,
           phase[t] \in Running, waits[t] = {}, Settled(t),
           NEW p \in Phase, phase' = [phase EXCEPT ![t] = p],
           p # "idle", p # "done" => t \notin aborted,
           UNCHANGED <<emitted, correlation, answered, resolving, aborted, pending,
                       waits>>
    PROVE  Streams'
<1>1. \A u \in Turn \ {t} : phase'[u] = phase[u]
    BY DEF TypeOK
<1>2. phase'[t] = p
    BY DEF TypeOK
<1>3. p # "done" => ~StreamEnded(correlation[t])
    BY DEF Streams, EndedOnlyAwaits
<1>4. ASSUME NEW u \in Turn
      PROVE  /\ phase'[u] = "idle" => phase[u] = "idle"
             /\ phase'[u] \in Running =>
                  \/ phase[u] = "idle"
                  \/ /\ phase[u] \in Running
                     /\ StreamEnded(correlation[u]) =>
                          phase'[u] = "tool" /\ (u \in aborted' \/ waits'[u] # {})
             /\ waits'[u] \subseteq waits[u]
    <2>1. CASE u = t
        BY <1>2, <1>3, <2>1 DEF Running
    <2>2. CASE u # t
        BY <1>1, <2>2 DEF Streams, EndedOnlyAwaits
    <2>3. QED
        BY <2>1, <2>2
<1>5. \A r \in Request : pending'[r] # NoTurn =>
         pending'[r] = pending[r] /\ r \in waits'[pending[r]]
    BY DEF Streams, AwaitsOne
<1>6. \A e \in resolving' : e \in resolving /\ phase'[e.turn] = "tool"
    BY <1>1 DEF Settled, Streams, AnswerReopens, TypeOK, Entry
<1>7. QED
    BY <1>4, <1>5, <1>6, StreamsFrame

\* A turn speaks on the stream of its correlation id: nobody else's stream moves.
LEMMA SpeaksAlone ==
    ASSUME TypeOK, Streams, NEW t \in Turn, NEW kinds \in Seq(Kind),
           Say(correlation[t], t, kinds), UNCHANGED correlation
    PROVE  /\ correlation[t] \in Call
           /\ \A u \in Turn \ {t} : /\ correlation[u] \in Call
                                    /\ correlation[u] # correlation[t]
                                    /\ emitted'[correlation[u]] = emitted[correlation[u]]
                                    /\ StreamEnded(correlation[u])' <=>
                                         StreamEnded(correlation[u])
<1>1. \A u \in Turn : correlation[u] \in Call
    BY DEF TypeOK
<1>2. \A d \in Call \ {correlation[t]} : emitted'[d] = emitted[d]
    BY <1>1, SayStreams DEF TypeOK
<1>3. \A u \in Turn \ {t} : correlation[u] # correlation[t]
    BY DEF Streams, OwnCorrelation
<1>4. QED
    BY <1>1, <1>2, <1>3 DEF StreamEnded

\* A running turn that awaits nothing speaks and ends, or speaks and awaits: its
\* stream had not ended before.
LEMMA SpeakStreams ==
    ASSUME TypeOK, Sequential, Streams, NEW t \in Turn,
           phase[t] \in Running, waits[t] = {}, Settled(t),
           phase[t] = "tool" => t \notin aborted,
           NEW kinds \in Seq(Kind), Say(correlation[t], t, kinds),
           \A k \in 1..Len(kinds) : k < Len(kinds) => kinds[k] \notin StreamEnd,
           UNCHANGED <<correlation, answered, resolving, aborted>>,
           \/ /\ phase' = [phase EXCEPT ![t] = "done"]
              /\ UNCHANGED <<pending, waits>>
           \/ /\ phase' = phase /\ phase[t] = "tool"
              /\ \E r \in Request : /\ pending[r] = NoTurn
                                    /\ pending' = [pending EXCEPT ![r] = t]
                                    /\ waits' = [waits EXCEPT ![t] = @ \cup {r}]
    PROVE  Streams'
<1> DEFINE c == correlation[t]
<1>1. /\ c \in Call
      /\ \A u \in Turn \ {t} : /\ correlation[u] \in Call
                               /\ correlation[u] # c
                               /\ emitted'[correlation[u]] = emitted[correlation[u]]
                               /\ StreamEnded(correlation[u])' <=>
                                    StreamEnded(correlation[u])
    BY SpeaksAlone
<1>2. ~StreamEnded(c) /\ \A k \in DOMAIN emitted[c] : emitted[c][k].turn = t
    BY DEF Streams, EndedOnlyAwaits
<1>3. /\ StreamWellFormed'
      /\ \A k \in DOMAIN emitted'[c] : emitted'[c][k].turn = t
    BY <1>1, <1>2, SayWellFormed DEF Streams, TypeOK
<1>4. \A u \in Turn \ {t} : phase'[u] = phase[u] /\ waits'[u] = waits[u]
    BY DEF TypeOK
<1>5. /\ phase'[t] = "done" \/ (phase'[t] = "tool" /\ waits'[t] # {})
      /\ \A r, s \in waits'[t] : r = s
    BY DEF TypeOK
<1>6. AwaitsOne'
    <2>1. \A u \in Turn : \A r, s \in waits'[u] : r = s
        BY <1>4, <1>5 DEF Streams, AwaitsOne
    <2>2. \A r \in Request : pending'[r] # NoTurn => r \in waits'[pending'[r]]
        BY DEF Streams, AwaitsOne, TypeOK
    <2>3. QED
        BY <2>1, <2>2 DEF AwaitsOne
<1>7. OwnCorrelation'
    <2>1. \A d \in Call \ {c} : emitted'[d] = emitted[d]
        BY <1>1, SayStreams DEF TypeOK
    <2>2. \A i \in Input \ answered : i # c /\ i \in Call
        BY NamesAssumption DEF Streams, OwnCorrelation, Call
    <2>3. \A u \in Turn : phase'[u] = "idle" => u # t
        BY <1>5
    <2>4. \A u \in Turn : phase'[u] = "idle" =>
             correlation[u] = u /\ emitted'[u] = <<>>
        BY <1>1, <1>4, <2>3 DEF Streams, OwnCorrelation
    <2>5. \A i \in Input \ answered : emitted'[i] = <<>>
        BY <2>1, <2>2 DEF Streams, OwnCorrelation
    <2>6. QED
        BY <2>4, <2>5 DEF Streams, OwnCorrelation
<1>8. EndedOnlyAwaits'
    <2> SUFFICES ASSUME NEW u \in Turn, phase'[u] \in Running
                 PROVE  /\ \A k \in DOMAIN emitted'[correlation[u]] :
                             emitted'[correlation[u]][k].turn = u
                        /\ StreamEnded(correlation[u])' =>
                             phase'[u] = "tool" /\ (u \in aborted' \/ waits'[u] # {})
        BY DEF EndedOnlyAwaits, StreamEnded
    <2>1. CASE u = t
        BY <1>3, <1>5, <2>1 DEF Running
    <2>2. CASE u # t
        BY <1>1, <1>4, <2>2 DEF Streams, EndedOnlyAwaits
    <2>3. QED
        BY <2>1, <2>2
<1>9. AnswerReopens'
    <2> SUFFICES ASSUME NEW e \in resolving
                 PROVE  /\ phase'[e.turn] = "tool"
                        /\ e.turn \in aborted \/ ~StreamEnded(correlation[e.turn])'
        BY DEF AnswerReopens, StreamEnded
    <2>1. e.turn \in Turn \ {t}
        BY DEF Settled, TypeOK, Entry
    <2>2. QED
        BY <1>1, <1>4, <2>1 DEF Streams, AnswerReopens
<1>10. QED
    BY <1>3, <1>6, <1>7, <1>8, <1>9 DEF Streams

\* An exception that ends a turn, told or not.
LEMMA FailStreams ==
    ASSUME TypeOK, Sequential, Streams, NEW t \in Turn,
           phase[t] \in Running, waits[t] = {}, Settled(t), Fail(t),
           UNCHANGED <<correlation, answered, resolving, aborted, pending, waits>>
    PROVE  Streams'
<1>1. phase' = [phase EXCEPT ![t] = "done"]
    BY DEF Fail, Leave
<1>2. CASE t \in aborted
    <2>1. "done" \in Phase /\ "done" # "idle" /\ emitted' = emitted
        BY <1>2 DEF Phase, Fail
    <2>2. QED
        BY <1>1, <2>1, MoveStreams
<1>3. CASE t \notin aborted
    <2> DEFINE kinds == <<"failed">>
    <2>1. Say(correlation[t], t, kinds)
        BY <1>3 DEF Fail
    <2>2. "failed" \in Kind
        BY DEF Kind
    <2>3. /\ kinds \in Seq(Kind)
          /\ \A k \in 1..Len(kinds) : k < Len(kinds) => kinds[k] \notin StreamEnd
        BY <2>2
    <2> HIDE DEF kinds
    <2>4. QED
        BY <1>1, <1>3, <2>1, <2>3, SpeakStreams
<1>4. QED
    BY <1>2, <1>3

\* The next iteration of a turn nobody aborted, or one too many.
LEMMA NextIterationStreams ==
    ASSUME TypeOK, Sequential, Streams, NEW t \in Turn,
           phase[t] \in Running, waits[t] = {}, Settled(t), t \notin aborted,
           NextIteration(t),
           UNCHANGED <<correlation, answered, resolving, aborted, pending, waits>>
    PROVE  Streams'
<1>1. CASE Fail(t)
    BY <1>1, FailStreams
<1>2. CASE phase' = [phase EXCEPT ![t] = "model"] /\ emitted' = emitted
    <2>1. "model" \in Phase /\ "model" # "idle"
        BY DEF Phase
    <2>2. QED
        BY <1>2, <2>1, MoveStreams
<1>3. QED
    BY <1>1, <1>2 DEF NextIteration

\* A call that is refused fails a stream of its own on which nothing was said.
LEMMA RefuseStreams ==
    ASSUME TypeOK, Sequential, Streams,
           NEW c \in Call, NEW t \in Turn \cup {NoTurn}, Say(c, t, <<"failed">>),
           \/ /\ t = c /\ c \in Turn
              /\ phase[c] = "idle" /\ phase' = [phase EXCEPT ![c] = "done"]
              /\ answered' = answered
           \/ /\ c \in Input \ answered
              /\ phase' = phase /\ answered' = answered \cup {c},
           UNCHANGED <<correlation, resolving, aborted, pending, waits>>
    PROVE  Streams'
<1> DEFINE kinds == <<"failed">>
<1>1. /\ kinds \in Seq(Kind)
      /\ \A k \in 1..Len(kinds) : k < Len(kinds) => kinds[k] \notin StreamEnd
      /\ Say(c, t, kinds)
    <2>1. "failed" \in Kind
        BY DEF Kind
    <2>2. QED
        BY <2>1
<1> HIDE DEF kinds
<1>2. emitted[c] = <<>>
    BY DEF Streams, OwnCorrelation
<1>3. StreamWellFormed'
    <2>1. ~StreamEnded(c) /\ \A k \in DOMAIN emitted[c] : emitted[c][k].turn = t
        BY <1>2 DEF StreamEnded
    <2>2. QED
        BY <1>1, <2>1, SayWellFormed DEF Streams, TypeOK
<1>4. \A d \in Call \ {c} : emitted'[d] = emitted[d]
    BY <1>1, SayStreams DEF TypeOK
<1>5. \A u \in Turn : u # c => u \in Call /\ correlation[u] \in Call \ {c}
    BY NamesAssumption DEF TypeOK, Streams, OwnCorrelation, Call
<1>6. \A u \in Turn \ {c} : /\ phase'[u] = phase[u]
                            /\ emitted'[correlation[u]] = emitted[correlation[u]]
                            /\ StreamEnded(correlation[u])' <=>
                                 StreamEnded(correlation[u])
    BY <1>4, <1>5 DEF TypeOK, StreamEnded
<1>7. c \in Turn => phase'[c] = "done" /\ phase[c] = "idle"
    BY NamesAssumption DEF TypeOK
<1>8. AwaitsOne'
    BY DEF Streams, AwaitsOne
<1>9. OwnCorrelation'
    <2>1. \A i \in Input \ answered' : i \in Call \ {c} /\ i \notin answered
        BY NamesAssumption DEF Call
    <2>2. \A i \in Input \ answered' : emitted'[i] = <<>>
        BY <1>4, <2>1 DEF Streams, OwnCorrelation
    <2>3. \A u \in Turn : phase'[u] = "idle" =>
             u # c /\ correlation[u] = u /\ emitted'[u] = <<>>
        BY <1>4, <1>5, <1>6, <1>7 DEF Streams, OwnCorrelation
    <2>4. answered \subseteq answered'
        OBVIOUS
    <2>5. QED
        BY <2>2, <2>3, <2>4 DEF Streams, OwnCorrelation
<1>10. EndedOnlyAwaits'
    <2> SUFFICES ASSUME NEW u \in Turn, phase'[u] \in Running
                 PROVE  /\ \A k \in DOMAIN emitted'[correlation[u]] :
                             emitted'[correlation[u]][k].turn = u
                        /\ StreamEnded(correlation[u])' =>
                             phase'[u] = "tool" /\ (u \in aborted' \/ waits'[u] # {})
        BY DEF EndedOnlyAwaits, StreamEnded
    <2>1. u # c
        BY <1>7 DEF Running
    <2>2. QED
        BY <1>6, <2>1 DEF Streams, EndedOnlyAwaits
<1>11. AnswerReopens'
    <2> SUFFICES ASSUME NEW e \in resolving
                 PROVE  /\ phase'[e.turn] = "tool"
                        /\ e.turn \in aborted \/ ~StreamEnded(correlation[e.turn])'
        BY DEF AnswerReopens, StreamEnded
    <2>1. e.turn \in Turn /\ phase[e.turn] = "tool"
        BY DEF Streams, AnswerReopens, TypeOK, Entry
    <2>2. e.turn # c
        BY <1>7, <2>1
    <2>3. QED
        BY <1>6, <2>1, <2>2 DEF Streams, AnswerReopens
<1>12. QED
    BY <1>3, <1>8, <1>9, <1>10, <1>11 DEF Streams

\* An answer moves the turn to its own stream, which carries nothing yet and does
\* not end by what is said first.
LEMMA AnswerStreams ==
    ASSUME TypeOK, Safe, Sequential, Streams,
           NEW i \in Input, NEW r \in Request, AnswerKnown(i, r)
    PROVE  Streams'
<1> DEFINE t == pending[r]
           kinds == <<"resolved">>
<1>1. /\ t \in Turn /\ phase[t] = "tool" /\ i \in Call /\ i \notin answered
      /\ answered' = answered \cup {i}
      /\ resolving' = resolving \cup {[input |-> i, request |-> r, turn |-> t]}
      /\ correlation' = [correlation EXCEPT ![t] = i]
      /\ UNCHANGED <<phase, aborted, pending, waits>>
    <2>1. t \in Turn /\ r \in waits[t]
        BY DEF AnswerKnown, TypeOK, Streams, AwaitsOne
    <2>2. phase[t] = "tool"
        BY <2>1 DEF Safe, WaitIsAnswerable
    <2>3. QED
        BY <2>1, <2>2 DEF AnswerKnown, Call, ownerVars, waitVars
<1>2. /\ kinds \in Seq(Kind) /\ Say(i, t, kinds)
      /\ \A k \in 1..Len(kinds) : kinds[k] \notin StreamEnd
    <2>1. "resolved" \in Kind \ StreamEnd
        BY DEF Kind, StreamEnd
    <2>2. QED
        BY <2>1 DEF AnswerKnown
<1> HIDE DEF t, kinds
<1>3. emitted[i] = <<>>
    BY <1>1 DEF Streams, OwnCorrelation
<1>4. /\ StreamWellFormed'
      /\ \A k \in DOMAIN emitted'[i] : emitted'[i][k].turn = t
      /\ ~StreamEnded(i)'
    <2>1. ~StreamEnded(i) /\ \A k \in DOMAIN emitted[i] : emitted[i][k].turn = t
        BY <1>3 DEF StreamEnded
    <2>2. QED
        BY <1>1, <1>2, <2>1, SayWellFormed DEF Streams, TypeOK
<1>5. \A d \in Call \ {i} : emitted'[d] = emitted[d]
    BY <1>1, <1>2, SayStreams DEF TypeOK
<1>6. correlation'[t] = i
    BY <1>1 DEF TypeOK
<1>7. \A u \in Turn \ {t} : /\ correlation'[u] = correlation[u]
                            /\ u \in Call \ {i}
                            /\ correlation[u] \in Call \ {i}
                            /\ emitted'[correlation[u]] = emitted[correlation[u]]
                            /\ StreamEnded(correlation[u])' <=>
                                 StreamEnded(correlation[u])
    <2>1. ASSUME NEW u \in Turn \ {t}
          PROVE  /\ correlation'[u] = correlation[u]
                 /\ u \in Call \ {i}
                 /\ correlation[u] \in Call \ {i}
        BY <1>1, NamesAssumption DEF TypeOK, Streams, OwnCorrelation, Call
    <2>2. QED
        BY <1>5, <2>1 DEF StreamEnded
<1>8. AwaitsOne'
    BY <1>1 DEF Streams, AwaitsOne
<1>9. OwnCorrelation'
    <2>1. \A u \in Turn : correlation'[u] \in {u} \cup answered'
        BY <1>1, <1>6, <1>7 DEF Streams, OwnCorrelation
    <2>2. \A u, v \in Turn : correlation'[u] = correlation'[v] => u = v
        BY <1>6, <1>7 DEF Streams, OwnCorrelation
    <2>3. \A j \in Input \ answered' : j \in Call \ {i} /\ j \notin answered
        BY <1>1 DEF Call
    <2>4. \A j \in Input \ answered' : emitted'[j] = <<>>
        BY <1>5, <2>3 DEF Streams, OwnCorrelation
    <2>5. \A u \in Turn : phase'[u] = "idle" =>
             correlation'[u] = u /\ emitted'[u] = <<>>
        BY <1>1, <1>5, <1>7 DEF Streams, OwnCorrelation
    <2>6. QED
        BY <2>1, <2>2, <2>4, <2>5 DEF OwnCorrelation
<1>10. EndedOnlyAwaits'
    <2> SUFFICES ASSUME NEW u \in Turn, phase'[u] \in Running
                 PROVE  /\ \A k \in DOMAIN emitted'[correlation'[u]] :
                             emitted'[correlation'[u]][k].turn = u
                        /\ StreamEnded(correlation[u])' =>
                             phase'[u] = "tool" /\ (u \in aborted' \/ waits'[u] # {})
        BY DEF EndedOnlyAwaits, StreamEnded
    <2>1. CASE u = t
        BY <1>4, <1>6, <2>1 DEF StreamEnded
    <2>2. CASE u # t
        BY <1>1, <1>7, <2>2 DEF Streams, EndedOnlyAwaits
    <2>3. QED
        BY <2>1, <2>2
<1>11. AnswerReopens'
    <2> SUFFICES ASSUME NEW e \in resolving'
                 PROVE  /\ phase'[e.turn] = "tool"
                        /\ e.turn \in aborted' \/ ~StreamEnded(correlation[e.turn])'
        BY DEF AnswerReopens, StreamEnded
    <2>1. CASE e.turn = t
        BY <1>1, <1>4, <1>6, <2>1 DEF StreamEnded
    <2>2. CASE e.turn # t
        <3>1. e \in resolving /\ e.turn \in Turn \ {t}
            BY <1>1, <2>2 DEF TypeOK, Entry
        <3>2. QED
            BY <1>1, <1>7, <3>1 DEF Streams, AnswerReopens
    <2>3. QED
        BY <2>1, <2>2
<1>12. QED
    BY <1>4, <1>8, <1>9, <1>10, <1>11 DEF Streams

\* Rejecting the pending inputs leaves a turn awaiting only if nobody owns the
\* session, and then none runs that was not aborted.
LEMMA RejectStreams ==
    ASSUME TypeOK, Safe, Streams, RejectPending,
           aborted' = IF active = NoTurn THEN aborted ELSE aborted \cup {active},
           UNCHANGED <<phase, correlation, answered, resolving, emitted>>
    PROVE  Streams'
<1>1. \A t \in Turn : phase[t] \in Running => t \in aborted'
    BY NamesAssumption DEF Safe, ActiveTurnRuns, TypeOK
<1>2. \A r \in Request : pending'[r] = NoTurn
    BY DEF RejectPending
<1>3. \A t \in Turn : waits'[t] \subseteq waits[t]
    BY DEF RejectPending
<1>4. aborted \subseteq aborted'
    OBVIOUS
<1>5. \A e \in resolving' : e \in resolving /\ phase'[e.turn] = "tool"
    BY DEF Streams, AnswerReopens
<1>6. ASSUME NEW t \in Turn
      PROVE  /\ phase'[t] = "idle" => phase[t] = "idle"
             /\ phase'[t] \in Running =>
                  \/ phase[t] = "idle"
                  \/ /\ phase[t] \in Running
                     /\ StreamEnded(correlation[t]) =>
                          phase'[t] = "tool" /\ (t \in aborted' \/ waits'[t] # {})
             /\ waits'[t] \subseteq waits[t]
    BY <1>1, <1>3 DEF Streams, EndedOnlyAwaits
<1>7. QED
    BY <1>2, <1>4, <1>5, <1>6, StreamsFrame

LEMMA StreamsInit == Init => Streams
<1> SUFFICES ASSUME Init PROVE Streams
    OBVIOUS
<1>1. \A c \in Call : emitted[c] = <<>>
    BY DEF Init
<1>2. StreamWellFormed
    BY <1>1 DEF StreamWellFormed
<1>3. AwaitsOne /\ OwnCorrelation /\ EndedOnlyAwaits /\ AnswerReopens
    BY <1>1 DEF Init, AwaitsOne, OwnCorrelation, EndedOnlyAwaits, AnswerReopens,
                Running, Call
<1>4. QED
    BY <1>2, <1>3 DEF Streams

\* A turn that is not in a tool awaits nothing, and no answer to it is about to
\* be resolved.
LEMMA QuietOutsideTools ==
    ASSUME TypeOK, Safe, Streams, NEW t \in Turn, phase[t] # "tool"
    PROVE  waits[t] = {} /\ Settled(t)
BY AwaitsOnlyInTool DEF Streams, AnswerReopens, Settled

\* A tool that asks for its one input awaited nothing before.
LEMMA AwaitsNothingYet ==
    ASSUME TypeOK, Sequential, AwaitsOne, NEW t \in Turn,
           Cardinality(waits[t]) < MaxWaits
    PROVE  waits[t] = {}
<1> SUFFICES ASSUME NEW r \in waits[t] PROVE FALSE
    OBVIOUS
<1>1. waits[t] = {r}
    BY DEF AwaitsOne
<1>2. Cardinality(waits[t]) = 1
    BY <1>1, FS_Singleton
<1>3. QED
    BY <1>2, BoundsAssumption DEF Sequential

\* The end of a save is told: the reply, unless the turn was aborted, before the
\* completion.
LEMMA SaveStreams ==
    ASSUME TypeOK, Safe, Sequential, Streams, NEW t \in Turn, SaveReturns(t)
    PROVE  Streams'
<1> DEFINE kinds == IF t \in aborted THEN <<"completed">>
                                     ELSE <<"reply", "completed">>
<1>1. /\ phase[t] \in Running /\ phase[t] # "tool"
      /\ phase' = [phase EXCEPT ![t] = "done"]
      /\ UNCHANGED <<correlation, answered, resolving, aborted, pending, waits>>
      /\ Say(correlation[t], t, kinds)
    BY DEF SaveReturns, Leave, Running, waitVars, answerVars
<1>2. waits[t] = {} /\ Settled(t)
    BY <1>1, QuietOutsideTools
<1>3. /\ kinds \in Seq(Kind)
      /\ \A k \in 1..Len(kinds) : k < Len(kinds) => kinds[k] \notin StreamEnd
    <2>1. "reply" \in Kind \ StreamEnd /\ "completed" \in Kind
        BY DEF Kind, StreamEnd
    <2>2. CASE t \in aborted
        <3>1. kinds = <<"completed">>
            BY <2>2
        <3>2. QED
            BY <2>1, <3>1
    <2>3. CASE t \notin aborted
        <3>1. kinds = <<"reply", "completed">>
            BY <2>3
        <3> HIDE DEF kinds
        <3>2. kinds \in Seq(Kind) /\ Len(kinds) = 2 /\ kinds[1] = "reply"
            BY <2>1, <3>1
        <3>3. QED
            BY <2>1, <3>2
    <2>4. QED
        BY <2>2, <2>3
<1> HIDE DEF kinds
<1>4. QED
    BY <1>1, <1>2, <1>3, SpeakStreams

\* Every step keeps the streams apart and in order.
LEMMA StreamsStep ==
    ASSUME TypeOK, Safe, Sequential, Streams, [Next]_vars
    PROVE  Streams'
<1> USE DEF loopVars, ownerVars, waitVars, answerVars, memoryVars, hookVars
<1>0. {"model", "tool", "saving"} \subseteq Phase \cap Running /\ "setup" \in Running
    BY DEF Phase, Running
<1>1. ASSUME NEW t \in Turn, RefuseInvalid(t) \/ RefuseBusy(t)
      PROVE  Streams'
    <2>1. /\ phase[t] = "idle" /\ phase' = [phase EXCEPT ![t] = "done"]
          /\ Say(t, t, <<"failed">>) /\ t \in Call
          /\ UNCHANGED <<correlation, answered, resolving, aborted, pending, waits>>
        BY <1>1 DEF RefuseInvalid, RefuseBusy, Refuse, Call
    <2>2. QED
        BY <2>1, RefuseStreams
<1>2. ASSUME NEW t \in Turn, AcceptMessage(t)
      PROVE  Streams'
    <2>1. /\ phase[t] = "idle" /\ phase' = [phase EXCEPT ![t] = "setup"]
          /\ UNCHANGED <<correlation, answered, resolving, aborted, pending, waits,
                         emitted>>
        BY <1>2 DEF AcceptMessage
    <2>2. ASSUME NEW u \in Turn
          PROVE  /\ phase'[u] = "idle" => phase[u] = "idle"
                 /\ phase'[u] \in Running =>
                      \/ phase[u] = "idle"
                      \/ /\ phase[u] \in Running
                         /\ StreamEnded(correlation[u]) =>
                              phase'[u] = "tool" /\ (u \in aborted' \/ waits'[u] # {})
                 /\ waits'[u] \subseteq waits[u]
        BY <2>1 DEF Streams, EndedOnlyAwaits, TypeOK
    <2>3. \A e \in resolving' : e \in resolving /\ phase'[e.turn] = "tool"
        BY <2>1 DEF Streams, AnswerReopens, TypeOK, Entry
    <2>4. \A r \in Request : pending'[r] # NoTurn =>
             pending'[r] = pending[r] /\ r \in waits'[pending[r]]
        BY <2>1 DEF Streams, AwaitsOne
    <2>5. QED
        BY <2>1, <2>2, <2>3, <2>4, StreamsFrame
<1>3. ASSUME NEW t \in Turn, SetupReturns(t)
      PROVE  Streams'
    <2>1. /\ phase[t] \in Running /\ phase[t] # "tool"
          /\ UNCHANGED <<correlation, answered, resolving, aborted, pending, waits>>
          /\ \/ Fail(t)
             \/ /\ t \notin aborted /\ phase' = [phase EXCEPT ![t] = "model"]
                /\ emitted' = emitted
        BY <1>0, <1>3 DEF SetupReturns
    <2>2. waits[t] = {} /\ Settled(t)
        BY <2>1, QuietOutsideTools
    <2>3. QED
        BY <1>0, <2>1, <2>2, FailStreams, MoveStreams
<1>4. ASSUME NEW t \in Turn, SetupThrows(t) \/ ModelThrows(t) \/ SaveThrows(t)
      PROVE  Streams'
    <2>1. phase[t] \in Running /\ phase[t] # "tool" /\ Throws(t)
        BY <1>0, <1>4 DEF SetupThrows, ModelThrows, SaveThrows
    <2>2. waits[t] = {} /\ Settled(t)
        BY <2>1, QuietOutsideTools
    <2>3. QED
        BY <2>1, <2>2, FailStreams DEF Throws
<1>5. ASSUME NEW t \in Turn, ModelAnswers(t)
      PROVE  Streams'
    <2>1. /\ phase[t] \in Running /\ phase[t] # "tool"
          /\ UNCHANGED <<correlation, answered, resolving, aborted, pending, waits>>
          /\ \/ Fail(t)
             \/ /\ t \notin aborted /\ phase' = [phase EXCEPT ![t] = "saving"]
                /\ emitted' = emitted
        BY <1>0, <1>5 DEF ModelAnswers
    <2>2. waits[t] = {} /\ Settled(t)
        BY <2>1, QuietOutsideTools
    <2>3. QED
        BY <1>0, <2>1, <2>2, FailStreams, MoveStreams
<1>6. ASSUME NEW t \in Turn, ModelCallsTools(t)
      PROVE  Streams'
    <2>1. /\ phase[t] \in Running /\ phase[t] # "tool" /\ t \notin aborted
          /\ UNCHANGED <<correlation, answered, resolving, aborted, pending, waits>>
          /\ \/ NextIteration(t)
             \/ phase' = [phase EXCEPT ![t] = "tool"] /\ emitted' = emitted
        BY <1>0, <1>6 DEF ModelCallsTools
    <2>2. waits[t] = {} /\ Settled(t)
        BY <2>1, QuietOutsideTools
    <2>3. QED
        BY <1>0, <2>1, <2>2, NextIterationStreams, MoveStreams
<1>7. ASSUME NEW t \in Turn, NEW r \in Request, ToolAwaits(t, r)
      PROVE  Streams'
    <2> DEFINE kinds == <<"requested">>
    <2>1. /\ phase[t] = "tool" /\ Settled(t) /\ t \notin aborted
          /\ pending[r] = NoTurn /\ Cardinality(waits[t]) < MaxWaits
          /\ pending' = [pending EXCEPT ![r] = t]
          /\ waits' = [waits EXCEPT ![t] = @ \cup {r}]
          /\ UNCHANGED <<phase, correlation, answered, resolving, aborted>>
          /\ Say(correlation[t], t, kinds)
        BY <1>7 DEF ToolAwaits
    <2>2. waits[t] = {}
        BY <2>1, AwaitsNothingYet DEF Streams
    <2>3. /\ kinds \in Seq(Kind)
          /\ \A k \in 1..Len(kinds) : k < Len(kinds) => kinds[k] \notin StreamEnd
        <3>1. "requested" \in Kind
            BY DEF Kind
        <3>2. QED
            BY <3>1
    <2> HIDE DEF kinds
    <2>4. QED
        BY <1>0, <2>1, <2>2, <2>3, SpeakStreams
<1>8. ASSUME NEW t \in Turn,
             ToolRequestsInput(t) \/ \E r \in Request : ToolAbandons(t, r)
      PROVE  Streams'
    BY <1>8 DEF ToolRequestsInput, ToolAbandons, Sequential
<1>9. ASSUME NEW t \in Turn, ToolReturns(t) \/ ToolThrows(t)
      PROVE  Streams'
    <2>1. /\ phase[t] = "tool" /\ phase[t] \in Running
          /\ waits[t] = {} /\ Settled(t)
          /\ UNCHANGED <<correlation, answered, resolving, aborted, pending, waits>>
          /\ \/ Fail(t)
             \/ t \notin aborted /\ NextIteration(t)
             \/ t \notin aborted /\ phase' = phase /\ emitted' = emitted
        BY <1>0, <1>9 DEF ToolReturns, ToolThrows, Throws
    <2>2. phase = [phase EXCEPT ![t] = "tool"]
        BY <2>1 DEF TypeOK
    <2>3. QED
        BY <1>0, <2>1, <2>2, FailStreams, NextIterationStreams, MoveStreams
<1>10. ASSUME NEW t \in Turn, SaveReturns(t)
       PROVE  Streams'
    BY <1>10, SaveStreams
<1>11. ASSUME NEW i \in Input, NEW r \in Request, AnswerUnknown(i, r)
       PROVE  Streams'
    <2>1. /\ i \in Input \ answered /\ i \in Call
          /\ answered' = answered \cup {i}
          /\ Say(i, NoTurn, <<"failed">>)
          /\ UNCHANGED <<phase, correlation, resolving, aborted, pending, waits>>
        BY <1>11 DEF AnswerUnknown, Call
    <2>2. QED
        BY <2>1, RefuseStreams
<1>12. ASSUME NEW i \in Input, NEW r \in Request, AnswerKnown(i, r)
       PROVE  Streams'
    BY <1>12, AnswerStreams
<1>13. ASSUME NEW e \in resolving, Resolve(e)
       PROVE  Streams'
    <2>1. /\ e.request \in Request /\ e.turn \in Turn
          /\ pending[e.request] \in {NoTurn, e.turn}
        BY DEF TypeOK, Entry, Safe, ResolvesItsOwn
    <2>2. /\ resolving' = resolving \ {e}
          /\ pending' = [pending EXCEPT ![e.request] = NoTurn]
          /\ waits' = [waits EXCEPT ![e.turn] = @ \ {e.request}]
          /\ UNCHANGED <<phase, correlation, answered, aborted, emitted>>
        BY <1>13 DEF Resolve
    <2>3. ASSUME NEW t \in Turn
          PROVE  /\ phase'[t] = "idle" => phase[t] = "idle"
                 /\ phase'[t] \in Running =>
                      \/ phase[t] = "idle"
                      \/ /\ phase[t] \in Running
                         /\ StreamEnded(correlation[t]) =>
                              phase'[t] = "tool" /\ (t \in aborted' \/ waits'[t] # {})
                 /\ waits'[t] \subseteq waits[t]
        <3>1. CASE t = e.turn
            BY <2>1, <2>2, <3>1 DEF TypeOK, Streams, AnswerReopens
        <3>2. CASE t # e.turn
            BY <2>1, <2>2, <3>2 DEF TypeOK, Streams, EndedOnlyAwaits
        <3>3. QED
            BY <3>1, <3>2
    <2>4. \A f \in resolving' : f \in resolving /\ phase'[f.turn] = "tool"
        BY <2>2 DEF Streams, AnswerReopens
    <2>5. \A r \in Request : pending'[r] # NoTurn =>
             pending'[r] = pending[r] /\ r \in waits'[pending[r]]
        BY <2>1, <2>2 DEF TypeOK, Streams, AwaitsOne
    <2>6. QED
        BY <2>2, <2>3, <2>4, <2>5, StreamsFrame
<1>14. ASSUME \/ SessionStop
              \/ \E requested \in Turn \cup {NoTurn} : Interrupt(requested)
       PROVE  Streams'
    <2>1. /\ RejectPending
          /\ aborted' = IF active = NoTurn THEN aborted ELSE aborted \cup {active}
          /\ UNCHANGED <<phase, correlation, answered, resolving, emitted>>
        BY <1>14 DEF SessionStop, Interrupt, Interruptible, AbortActive
    <2>2. QED
        BY <2>1, RejectStreams
<1>15. ASSUME \/ SessionStart
              \/ \E failed \in BOOLEAN : SessionStartReturns(failed)
              \/ \E requested \in Turn \cup {NoTurn} : InterruptNothing(requested)
              \/ SessionStopReturns
              \/ UNCHANGED vars
       PROVE  Streams'
    <2>1. UNCHANGED <<phase, correlation, answered, resolving, aborted, pending,
                      waits, emitted>>
        BY <1>15 DEF SessionStart, SessionStartReturns, InterruptNothing,
                     SessionStopReturns, vars
    <2>2. QED
        BY <2>1 DEF Streams, StreamWellFormed, AwaitsOne, OwnCorrelation,
                    EndedOnlyAwaits, AnswerReopens, StreamEnded
<1>16. QED
    BY <1>1, <1>2, <1>3, <1>4, <1>5, <1>6, <1>7, <1>8, <1>9, <1>10, <1>11, <1>12,
       <1>13, <1>14, <1>15
       DEF Next, MessageArrives, TurnStep, SetupStep, ModelStep, ToolEnds, SaveStep,
           InputArrives, Resolves, SessionStep

\* A host that reads a stream up to its end misses nothing of the turn that tells
\* on it, and reads of no other turn (emit of the adapter and handleStream).
THEOREM StreamsAreWellFormed == Spec => []StreamWellFormed
<1>1. Init => StreamInv
    BY StreamsInit DEF StreamInv, Streams
<1>2. IInv /\ StreamInv /\ [Next]_vars => StreamInv'
    <2> SUFFICES ASSUME IInv, StreamInv, [Next]_vars, Sequential PROVE Streams'
        BY DEF StreamInv, Streams, Sequential
    <2>1. QED
        BY StreamsStep, IInvSplit DEF StreamInv, Streams
<1>3. StreamInv => StreamWellFormed
    BY DEF StreamInv, StreamWellFormed
<1>4. QED
    BY <1>1, <1>2, <1>3, Invariance, PTL DEF Spec

(***************************************************************************)
(* What a step says.                                                       *)
(***************************************************************************)

\* A Say adds its messages to its stream for its turn, and nothing else.
LEMMA SayAdds ==
    ASSUME emitted \in [Call -> Seq(Event)],
           NEW c \in Call, NEW t \in Turn \cup {NoTurn}, NEW kinds \in Seq(Kind),
           Say(c, t, kinds),
           NEW d \in Call, NEW u \in Turn \cup {NoTurn}
    PROVE  /\ d = c /\ u = t => Added(d, u) = {kinds[k] : k \in 1..Len(kinds)}
           /\ ~(d = c /\ u = t) => Added(d, u) = {}
<1> DEFINE n == Len(emitted[c])
           m == Len(kinds)
<1>1. /\ \A e \in Call \ {c} : emitted'[e] = emitted[e]
      /\ DOMAIN emitted[c] = 1..n /\ n \in Nat /\ m \in Nat
      /\ DOMAIN emitted'[c] = 1..(n + m)
      /\ \A k \in 1..m : emitted'[c][n + k] = [kind |-> kinds[k], turn |-> t]
    BY SayStreams
<1> HIDE DEF n, m
<1>2. CASE d # c
    BY <1>1, <1>2 DEF Added
<1>3. CASE d = c
    <2> DEFINE fresh == DOMAIN emitted'[c] \ DOMAIN emitted[c]
    <2>1. \A j \in fresh : j - n \in 1..m /\ j = n + (j - n)
        BY <1>1
    <2>2. \A k \in 1..m : n + k \in fresh
        BY <1>1
    <2>3. \A j \in fresh : /\ emitted'[c][j].turn = t
                           /\ emitted'[c][j].kind = kinds[j - n]
        <3> SUFFICES ASSUME NEW j \in fresh
                     PROVE  /\ emitted'[c][j].turn = t
                            /\ emitted'[c][j].kind = kinds[j - n]
            OBVIOUS
        <3>1. emitted'[c][j] = [kind |-> kinds[j - n], turn |-> t]
            BY <1>1, <2>1
        <3>2. QED
            BY <3>1
    <2> HIDE DEF fresh
    <2>4. Added(c, u) = {emitted'[c][j].kind : j \in {i \in fresh : emitted'[c][i].turn = u}}
        BY DEF Added, fresh
    <2>5. CASE u # t
        BY <1>3, <2>3, <2>4, <2>5
    <2>6. CASE u = t
        <3>1. Added(c, u) = {emitted'[c][j].kind : j \in fresh}
            BY <2>3, <2>4, <2>6
        <3>2. {emitted'[c][j].kind : j \in fresh} \subseteq {kinds[k] : k \in 1..m}
            BY <2>1, <2>3
        <3>3. ASSUME NEW k \in 1..m
              PROVE  kinds[k] \in {emitted'[c][j].kind : j \in fresh}
            <4>1. n + k \in fresh /\ emitted'[c][n + k] = [kind |-> kinds[k], turn |-> t]
                BY <1>1, <2>2
            <4>2. emitted'[c][n + k].kind = kinds[k]
                BY <4>1
            <4>3. QED
                BY <4>1, <4>2
        <3>4. QED
            BY <1>3, <2>6, <3>1, <3>2, <3>3 DEF m
    <2>7. QED
        BY <1>3, <2>5, <2>6
<1>4. QED
    BY <1>2, <1>3

LEMMA SilenceAdds ==
    ASSUME UNCHANGED emitted, NEW d \in Call, NEW u \in Turn \cup {NoTurn}
    PROVE  Added(d, u) = {}
BY DEF Added

\* One message.
LEMMA SayOneAdds ==
    ASSUME emitted \in [Call -> Seq(Event)],
           NEW c \in Call, NEW t \in Turn \cup {NoTurn}, NEW kind \in Kind,
           Say(c, t, <<kind>>),
           NEW d \in Call, NEW u \in Turn \cup {NoTurn}
    PROVE  /\ d = c /\ u = t => Added(d, u) = {kind}
           /\ u # t => Added(d, u) = {}
<1> DEFINE kinds == <<kind>>
<1>1. kinds \in Seq(Kind) /\ Say(c, t, kinds)
    OBVIOUS
<1>2. {kinds[k] : k \in 1..Len(kinds)} = {kind}
    OBVIOUS
<1> HIDE DEF kinds
<1>3. /\ d = c /\ u = t => Added(d, u) = {kinds[k] : k \in 1..Len(kinds)}
      /\ ~(d = c /\ u = t) => Added(d, u) = {}
    BY <1>1, SayAdds
<1>4. QED
    BY <1>2, <1>3

LEMMA SayOneTells ==
    ASSUME emitted \in [Call -> Seq(Event)],
           NEW c \in Call, NEW t \in Turn \cup {NoTurn}, NEW kind \in Kind,
           Say(c, t, <<kind>>)
    PROVE  kind \in Added(c, t)
<1>1. Added(c, t) = {kind}
    BY SayOneAdds
<1>2. QED
    BY <1>1

\* Every step, seen by a turn that was aborted before it.
LEMMA AbortedSays ==
    ASSUME IInv, [Next]_vars, NEW u \in aborted, NEW d \in Call
    PROVE  Added(d, u) \subseteq {"completed"}
<1> USE DEF loopVars, ownerVars, waitVars, answerVars, memoryVars, hookVars
<1>0. /\ TypeOK /\ u \in Turn /\ u # NoTurn /\ phase[u] # "idle"
      /\ "requested" \in Kind /\ "resolved" \in Kind /\ "failed" \in Kind
      /\ \A t \in Turn : correlation[t] \in Call /\ t \in Call
      /\ Input \subseteq Call
    BY NamesAssumption DEF IInv, TypeOK, AbortedWasAccepted, Call, Kind
<1>1. ASSUME NEW t \in Turn, Fail(t) PROVE Added(d, u) = {}
    <2>1. CASE t \in aborted
        BY <1>0, <1>1, <2>1, SilenceAdds DEF Fail
    <2>2. CASE t \notin aborted
        BY <1>0, <1>1, <2>2, SayOneAdds DEF Fail, TypeOK
    <2>3. QED
        BY <2>1, <2>2
<1>2. ASSUME NEW t \in Turn, RefuseInvalid(t) \/ RefuseBusy(t)
      PROVE  Added(d, u) = {}
    <2>1. t # u /\ Say(t, t, <<"failed">>)
        BY <1>0, <1>2 DEF RefuseInvalid, RefuseBusy, Refuse
    <2>2. QED
        BY <1>0, <2>1, SayOneAdds DEF TypeOK
<1>3. ASSUME NEW t \in Turn,
             \/ SetupReturns(t) \/ ModelAnswers(t) \/ ModelCallsTools(t)
             \/ ToolReturns(t) \/ Throws(t)
      PROVE  Added(d, u) = {}
    <2>1. Fail(t) \/ emitted' = emitted
        BY <1>3 DEF SetupReturns, ModelAnswers, ModelCallsTools, ToolReturns,
                    Throws, NextIteration
    <2>2. QED
        BY <1>0, <1>1, <2>1, SilenceAdds
<1>4. ASSUME NEW t \in Turn,
             ToolRequestsInput(t) \/ \E r \in Request : ToolAwaits(t, r)
      PROVE  Added(d, u) = {}
    <2>1. t # u /\ Say(correlation[t], t, <<"requested">>)
        BY <1>4 DEF ToolRequestsInput, ToolAwaits
    <2>2. QED
        BY <1>0, <2>1, SayOneAdds DEF TypeOK
<1>5. ASSUME NEW t \in Turn, SaveReturns(t)
      PROVE  Added(d, u) \subseteq {"completed"}
    <2>1. CASE t \in aborted
        <3>1. Say(correlation[t], t, <<"completed">>) /\ "completed" \in Kind
            BY <1>5, <2>1 DEF SaveReturns, Kind
        <3>2. CASE d = correlation[t] /\ u = t
            BY <1>0, <3>1, <3>2, SayOneAdds DEF TypeOK
        <3>3. CASE ~(d = correlation[t] /\ u = t)
            <4> DEFINE kinds == <<"completed">>
            <4>1. kinds \in Seq(Kind) /\ Say(correlation[t], t, kinds)
                BY <3>1
            <4> HIDE DEF kinds
            <4>2. Added(d, u) = {}
                BY <1>0, <3>3, <4>1, SayAdds DEF TypeOK
            <4>3. QED
                BY <4>2
        <3>4. QED
            BY <3>2, <3>3
    <2>2. CASE t \notin aborted
        <3> DEFINE kinds == <<"reply", "completed">>
        <3>1. Say(correlation[t], t, kinds) /\ u # t
            BY <1>5, <2>2 DEF SaveReturns
        <3>2. kinds \in Seq(Kind)
            <4>1. "reply" \in Kind /\ "completed" \in Kind
                BY DEF Kind
            <4>2. QED
                BY <4>1
        <3> HIDE DEF kinds
        <3>3. Added(d, u) = {}
            BY <1>0, <3>1, <3>2, SayAdds DEF TypeOK
        <3>4. QED
            BY <3>3
    <2>3. QED
        BY <2>1, <2>2
<1>6. ASSUME NEW i \in Input, NEW r \in Request,
             AnswerUnknown(i, r) \/ AnswerKnown(i, r)
      PROVE  Added(d, u) = {}
    <2>1. \/ Say(i, NoTurn, <<"failed">>)
          \/ /\ pending[r] \in Turn \ {u}
             /\ Say(i, pending[r], <<"resolved">>)
        BY <1>0, <1>6 DEF AnswerUnknown, AnswerKnown, IInv, PendingHasOwner, TypeOK
    <2>2. QED
        BY <1>0, <2>1, SayOneAdds DEF TypeOK
<1>7. ASSUME \/ \E t \in Turn : \/ AcceptMessage(t)
                                \/ \E r \in Request : ToolAbandons(t, r)
             \/ Resolves \/ SessionStep \/ UNCHANGED vars
      PROVE  Added(d, u) = {}
    <2>1. emitted' = emitted
        BY <1>7 DEF AcceptMessage, ToolAbandons, Resolves, Resolve, SessionStep,
                    SessionStart, SessionStartReturns, Interrupt, InterruptNothing,
                    SessionStop, SessionStopReturns, vars
    <2>2. QED
        BY <1>0, <2>1, SilenceAdds
<1>8. QED
    BY <1>2, <1>3, <1>4, <1>5, <1>6, <1>7
       DEF Next, MessageArrives, TurnStep, SetupStep, ModelStep, ToolEnds, SaveStep,
           SetupThrows, ModelThrows, ToolThrows, SaveThrows, InputArrives

\* An aborted turn asks for nothing, replies nothing and reports no failure; only
\* the completion after its save is told (the isAborted checks of reply and of
\* the catch block, and the missing one before complete).
THEOREM AbortAlwaysSilences == Spec => AbortSilences
<1>1. IInv /\ [Next]_vars =>
         [\A t \in aborted, c \in Call : Added(c, t) \subseteq {"completed"}]_vars
    BY AbortedSays
<1>2. QED
    BY <1>1, Invariance, PTL DEF Spec, AbortSilences

\* The record goes only with the end of a failed start or of a stop, or with a
\* call that fails.
LEMMA RecordGoes ==
    ASSUME TypeOK, [Next]_vars, record # "absent", record' = "absent"
    PROVE  \/ starting /\ ~starting'
           \/ stopping /\ ~stopping'
           \/ \E c \in Call, t \in Turn \cup {NoTurn} : Say(c, t, <<"failed">>)
<1> USE DEF loopVars, ownerVars, waitVars, answerVars, memoryVars, hookVars
<1>1. Ensured # "absent"
    BY DEF Ensured
<1>2. ASSUME NEW t \in Turn, RefuseInvalid(t) \/ RefuseBusy(t)
      PROVE  t \in Call /\ Say(t, t, <<"failed">>)
    BY <1>2 DEF RefuseInvalid, RefuseBusy, Refuse, Call
<1>3. ASSUME NEW t \in Turn, AcceptMessage(t) \/ TurnStep(t)
      PROVE  FALSE
    BY <1>1, <1>3 DEF AcceptMessage, TurnStep, SetupStep, ModelStep, ToolEnds,
          SaveStep, SetupReturns, SetupThrows, ModelAnswers, ModelCallsTools,
          ModelThrows, ToolRequestsInput, ToolAwaits, ToolAbandons, ToolReturns,
          ToolThrows, SaveReturns, SaveThrows, Throws
<1>4. ASSUME NEW i \in Input, NEW r \in Request, AnswerUnknown(i, r)
      PROVE  i \in Call /\ Say(i, NoTurn, <<"failed">>)
    BY <1>4 DEF AnswerUnknown, Call
<1>5. ASSUME NEW i \in Input, NEW r \in Request, AnswerKnown(i, r)
      PROVE  FALSE
    BY <1>1, <1>5 DEF AnswerKnown
<1>6. ASSUME Resolves \/ UNCHANGED vars
      PROVE  FALSE
    BY <1>6 DEF Resolves, Resolve, vars
<1>7. ASSUME SessionStep
      PROVE  (starting /\ ~starting') \/ (stopping /\ ~stopping')
    BY <1>1, <1>7 DEF SessionStep, SessionStart, SessionStartReturns, Interrupt,
          InterruptNothing, SessionStop, SessionStopReturns
<1>8. QED
    BY <1>2, <1>3, <1>4, <1>5, <1>6, <1>7 DEF Next, MessageArrives, InputArrives

\* What session.start and session.resume were given is not dropped in silence
\* (the deletions of the record in AdapterRuntime.handleStream).
THEOREM RecordLossIsAlwaysReported == Spec => RecordLossIsReported
<1>1. ASSUME TypeOK, [Next]_vars, record # "absent", record' = "absent"
      PROVE  \/ starting /\ ~starting'
             \/ stopping /\ ~stopping'
             \/ \E c \in Call : \E t \in Turn \cup {NoTurn} : "failed" \in Added(c, t)
    <2>1. ASSUME NEW c \in Call, NEW t \in Turn \cup {NoTurn}, Say(c, t, <<"failed">>)
          PROVE  "failed" \in Added(c, t)
        <3>1. "failed" \in Kind /\ emitted \in [Call -> Seq(Event)]
            BY <1>1 DEF Kind, TypeOK
        <3>2. QED
            BY <2>1, <3>1, SayOneTells
    <2>2. QED
        BY <1>1, <2>1, RecordGoes
<1>2. TypeOK /\ [Next]_vars =>
         [record # "absent" /\ record' = "absent" =>
            \/ starting /\ ~starting'
            \/ stopping /\ ~stopping'
            \/ \E c \in Call : \E t \in Turn \cup {NoTurn} :
                  "failed" \in Added(c, t)]_vars
    BY <1>1
<1>3. QED
    BY <1>2, TypeCorrect, PTL DEF Spec, RecordLossIsReported

-----------------------------------------------------------------------------
(***************************************************************************)
(* The stdio runner.  Every step of it is a step of the adapter or leaves  *)
(* the adapter alone, so what holds of the adapter holds here too.  What   *)
(* the queue adds is that one turn runs at a time.                         *)
(***************************************************************************)

\* A step of the runner, seen by the adapter.
LEMMA RunnerSteps ==
    ASSUME [StdioNext]_allVars
    PROVE  [Next]_vars
BY DEF StdioNext, allVars, ReadLine, ReadQueued, ReadAnswer, ReadInterrupt, ReadStop,
       ReadBadLine, ReadEnd, QueueStep, RunNext, TaskEnds, Returns, HandlerStep,
       StartReturns, Next, SessionStep

\* The runner runs the adapter: what holds of the adapter for any host holds on
\* stdio (runMessage calls handleStream and nothing else touches the adapter).
THEOREM RunnerAdapter == StdioSpec => Spec
<1>1. StdioInit => Init
    BY DEF StdioInit
<1>2. [StdioNext]_allVars => [Next]_vars
    BY RunnerSteps
<1>3. QED
    BY <1>1, <1>2, PTL DEF StdioSpec, Spec

\* A turn's own step makes no other turn run.
LEMMA TurnStepRuns ==
    ASSUME TypeOK, NEW t \in Turn, TurnStep(t), NEW u \in Turn, phase'[u] \in Running
    PROVE  phase[u] \in Running
<1>1. phase[t] \in Running
    BY DEF TurnStep, SetupStep, ModelStep, ToolEnds, SaveStep, SetupReturns,
           SetupThrows, ModelAnswers, ModelCallsTools, ModelThrows,
           ToolRequestsInput, ToolAwaits, ToolAbandons, ToolReturns, ToolThrows,
           SaveReturns, SaveThrows, Running
<1>2. \/ phase' = phase
      \/ \E p \in Phase : phase' = [phase EXCEPT ![t] = p]
    BY DEF TurnStep, SetupStep, ModelStep, ToolEnds, SaveStep, SetupReturns,
           SetupThrows, ModelAnswers, ModelCallsTools, ModelThrows,
           ToolRequestsInput, ToolAwaits, ToolAbandons, ToolReturns, ToolThrows,
           SaveReturns, SaveThrows, Throws, Fail, Leave, NextIteration, Phase
<1>3. QED
    BY <1>1, <1>2 DEF TypeOK

\* Everything but the turns' own steps and the queue leaves all turns in place.
LEMMA PhaseStays ==
    ASSUME [StdioNext]_allVars, ~RunNext, ~\E t \in Turn : TurnStep(t)
    PROVE  phase' = phase
BY DEF StdioNext, allVars, vars, ReadLine, ReadQueued, ReadAnswer, ReadInterrupt,
       ReadStop, ReadBadLine, ReadEnd, QueueStep, TaskEnds, Returns, HandlerStep,
       StartReturns, InputArrives, AnswerUnknown, AnswerKnown, Resolves, Resolve,
       Interrupt, InterruptNothing, SessionStop, SessionStartReturns,
       SessionStopReturns

\* The queue takes the next turn when the one before has ended.
LEMMA OneTurnStep ==
    ASSUME IInv, IInv', RunnerInv, [StdioNext]_allVars
    PROVE  OneTurnAtATime'
<1>0. /\ TypeOK /\ NoTask \notin Turn /\ Start \notin Turn
      /\ \A t \in Turn : phase[t] \in Running => task = t
    BY TaskAssumption
       DEF IInv, RunnerInv, StdioInv, OneTurnAtATime, Task, Call
<1>1. ASSUME NEW u \in Turn, phase'[u] \in Running PROVE task' = u
    <2>1. CASE RunNext
        <3>1. phase[u] \notin Running
            BY <1>0, <2>1 DEF RunNext
        <3>2. task' = Head(serial) /\ (phase' = phase \/ MessageArrives(Head(serial)))
            BY <2>1 DEF RunNext, InputArrives, AnswerUnknown, AnswerKnown, SessionStart
        <3>3. \E p \in Phase : phase' = [phase EXCEPT ![Head(serial)] = p]
            BY <1>1, <3>1, <3>2 DEF MessageArrives, RefuseInvalid, RefuseBusy, Refuse,
               AcceptMessage, Phase
        <3>4. QED
            BY <1>0, <1>1, <3>1, <3>2, <3>3 DEF TypeOK
    <2>2. CASE ~RunNext
        <3>1. phase[u] \in Running /\ task = u
            BY <1>0, <1>1, <2>2, PhaseStays, TurnStepRuns
        <3>2. ~TaskEnds
            BY <3>1 DEF TaskEnds, Running
        <3>3. task' = task
            BY <2>2, <3>2 DEF StdioNext, allVars, stdioVars, ReadLine, ReadQueued,
               ReadAnswer, ReadInterrupt, ReadStop, ReadBadLine, ReadEnd, QueueStep,
               Returns, HandlerStep
        <3>4. QED
            BY <3>1, <3>3
    <2>3. QED
        BY <2>1, <2>2
<1>2. active' # NoTurn => active' = task'
    BY <1>1 DEF IInv, TypeOK, ActiveTurnRuns
<1>3. QED
    BY <1>1, <1>2 DEF OneTurnAtATime

LEMMA RunnerTypes ==
    ASSUME TypeOK', StdioTypeOK, [StdioNext]_allVars
    PROVE  StdioTypeOK'
<1>1. Turn \cup {Start} \subseteq Task
    BY DEF Task, Call
<1>2. serial' \in Seq(Task)
    <2>1. CASE \E x \in Turn \cup {Start} : ReadQueued(x)
        <3>1. PICK x \in Task : serial' = Append(serial, x)
            BY <1>1, <2>1 DEF ReadQueued
        <3>2. QED
            BY <3>1 DEF StdioTypeOK
    <2>2. CASE RunNext
        BY <2>2 DEF RunNext, StdioTypeOK
    <2>3. CASE ~RunNext /\ ~\E x \in Turn \cup {Start} : ReadQueued(x)
        <3>1. serial' = serial
            BY <2>3 DEF StdioNext, allVars, stdioVars, ReadLine, ReadAnswer,
               ReadInterrupt, ReadStop, ReadBadLine, ReadEnd, QueueStep, TaskEnds,
               Returns, HandlerStep
        <3>2. QED
            BY <3>1 DEF StdioTypeOK
    <2>4. QED
        BY <2>1, <2>2, <2>3
<1>3. task' \in Task \cup {NoTask}
    <2>1. task' = task \/ (RunNext /\ task' = Head(serial)) \/ task' = NoTask
        BY DEF StdioNext, allVars, stdioVars, ReadLine, ReadQueued, ReadAnswer,
           ReadInterrupt, ReadStop, ReadBadLine, ReadEnd, QueueStep, RunNext, TaskEnds,
           Returns, HandlerStep
    <2>2. RunNext => Head(serial) \in Task
        BY DEF RunNext, StdioTypeOK
    <2>3. QED
        BY <2>1, <2>2 DEF StdioTypeOK
<1>4. heard' \in SUBSET Input
    BY DEF StdioTypeOK, StdioNext, allVars, stdioVars, ReadLine, ReadQueued, ReadAnswer,
       ReadInterrupt, ReadStop, ReadBadLine, ReadEnd, QueueStep, RunNext, TaskEnds,
       Returns, HandlerStep
<1>5. reader' \in {"reading", "rejected", "ended", "resolved"}
    BY DEF StdioTypeOK, StdioNext, allVars, stdioVars, ReadLine, ReadQueued, ReadAnswer,
       ReadInterrupt, ReadStop, ReadBadLine, ReadEnd, QueueStep, RunNext, TaskEnds,
       Returns, HandlerStep
<1>6. QED
    BY <1>2, <1>3, <1>4, <1>5 DEF StdioTypeOK

\* A session.start holds the queue until its hook returned.
LEMMA StartHoldsQueue ==
    ASSUME RunnerInv, [StdioNext]_allVars
    PROVE  starting' => task' = Start
<1> SUFFICES ASSUME starting' PROVE task' = Start
    OBVIOUS
<1>1. starting => task = Start
    BY DEF RunnerInv
<1>2. CASE RunNext
    <2>1. ~starting
        BY <1>1, <1>2, TaskAssumption DEF RunNext, Task
    <2>2. SessionStart /\ Head(serial) = Start
        BY <1>2, <2>1 DEF RunNext, MessageArrives, RefuseInvalid, RefuseBusy, Refuse,
           AcceptMessage, InputArrives, AnswerUnknown, AnswerKnown, hookVars
    <2>3. QED
        BY <1>2, <2>2 DEF RunNext
<1>3. CASE ~RunNext
    <2>1. starting
        BY <1>3 DEF StdioNext, allVars, vars, ReadLine, ReadQueued, ReadAnswer,
           ReadInterrupt, ReadStop, ReadBadLine, ReadEnd, QueueStep, TaskEnds, Returns,
           HandlerStep, StartReturns, InputArrives, AnswerUnknown, AnswerKnown,
           Resolves, Resolve, Interrupt, InterruptNothing, SessionStop,
           SessionStartReturns, SessionStopReturns, hookVars, TurnStep, SetupStep,
           ModelStep, ToolEnds, SaveStep, SetupReturns, SetupThrows, ModelAnswers,
           ModelCallsTools, ModelThrows, ToolRequestsInput, ToolAwaits, ToolAbandons,
           ToolReturns, ToolThrows, SaveReturns, SaveThrows, Throws
    <2>2. ~TaskEnds
        BY <1>1, <2>1 DEF TaskEnds
    <2>3. task' = task
        BY <1>3, <2>2 DEF StdioNext, allVars, stdioVars, ReadLine, ReadQueued,
           ReadAnswer, ReadInterrupt, ReadStop, ReadBadLine, ReadEnd, QueueStep,
           Returns, HandlerStep
    <2>4. QED
        BY <1>1, <2>1, <2>3
<1>4. QED
    BY <1>2, <1>3

\* Once the runner has resolved, everything was handled and nothing more comes.
LEMMA ResolvedStep ==
    ASSUME IInv, RunnerInv, [StdioNext]_allVars
    PROVE  ResolvedMeansHandled'
<1> SUFFICES ASSUME reader' = "resolved"
             PROVE  /\ serial' = <<>> /\ task' = NoTask
                    /\ \A t \in Turn : phase'[t] \in {"idle", "done"}
                    /\ ~starting' /\ ~stopping'
    BY DEF ResolvedMeansHandled
<1>1. /\ TypeOK /\ NoTask \notin Turn /\ NoTask # Start
      /\ \A t \in Turn : phase[t] \in Running => task = t
      /\ starting => task = Start
      /\ reader = "resolved" => /\ serial = <<>> /\ task = NoTask
                                /\ ~starting /\ ~stopping
    BY TaskAssumption DEF IInv, RunnerInv, StdioInv, OneTurnAtATime,
       ResolvedMeansHandled, Task, Call
<1>2. serial = <<>> /\ task = NoTask /\ ~starting /\ ~stopping
    <2>1. reader = "resolved" \/ Returns
        BY DEF StdioNext, allVars, stdioVars, ReadLine, ReadQueued, ReadAnswer,
           ReadInterrupt, ReadStop, ReadBadLine, ReadEnd, QueueStep, RunNext, TaskEnds,
           HandlerStep
    <2>2. QED
        BY <1>1, <2>1 DEF Returns
<1>3. \A t \in Turn : phase[t] \in {"idle", "done"}
    BY <1>1, <1>2 DEF TypeOK, Phase, Running
<1>4. ~RunNext /\ ~TaskEnds /\ ~ReadLine
    BY <1>2 DEF RunNext, TaskEnds, ReadLine, ReadQueued, ReadAnswer, ReadInterrupt,
       ReadStop, ReadBadLine, ReadEnd, stdioVars
<1>5. ASSUME NEW t \in Turn, TurnStep(t) PROVE FALSE
    BY <1>3, <1>5 DEF TurnStep, SetupStep, ModelStep, ToolEnds, SaveStep, SetupReturns,
       SetupThrows, ModelAnswers, ModelCallsTools, ModelThrows, ToolRequestsInput,
       ToolAwaits, ToolAbandons, ToolReturns, ToolThrows, SaveReturns, SaveThrows
<1>6. UNCHANGED <<phase, starting, stopping, serial, task>>
    BY <1>2, <1>4, <1>5 DEF StdioNext, QueueStep, Returns, HandlerStep, Resolves, Resolve,
       StartReturns, SessionStartReturns, SessionStopReturns, stdioVars, hookVars,
       allVars, vars
<1>7. QED
    BY <1>2, <1>3, <1>6

\* One turn at a time loads what is stored and stores what it loaded.
LEMMA ExactStep ==
    ASSUME IInv, RunnerInv, [StdioNext]_allVars
    PROVE  /\ MemoryExact'
           /\ \A t \in Turn : phase'[t] \in Loaded => loaded'[t] = memory'
<1>1. /\ TypeOK /\ memory = Completed
      /\ \A t \in Turn : phase[t] \in Running => task = t
      /\ \A t \in Turn : phase[t] \in Loaded => loaded[t] = memory
    BY DEF IInv, RunnerInv, StdioInv, MemoryExact, OneTurnAtATime
<1>2. ASSUME NEW t \in Turn, SetupReturns(t)
      PROVE  /\ memory' = Completed'
             /\ \A u \in Turn : phase'[u] \in Loaded => loaded'[u] = memory'
    <2>1. Completed' = Completed
        BY <1>1, <1>2, LoadCompletes
    <2>2. /\ memory' = memory /\ loaded'[t] = memory
          /\ \A u \in Turn \ {t} : loaded'[u] = loaded[u] /\ phase'[u] = phase[u]
        BY <1>1, <1>2 DEF SetupReturns, Fail, Leave, TypeOK
    <2>3. QED
        BY <1>1, <2>1, <2>2
<1>3. ASSUME NEW t \in Turn, SaveReturns(t)
      PROVE  /\ memory' = Completed'
             /\ \A u \in Turn : phase'[u] \in Loaded => loaded'[u] = memory'
    <2>1. Completed' = Completed \cup {t}
        BY <1>1, <1>3, SaveCompletes
    <2>2. /\ phase[t] = "saving" /\ memory' = loaded[t] \cup {t} /\ loaded' = loaded
          /\ phase'[t] = "done" /\ \A u \in Turn \ {t} : phase'[u] = phase[u]
        BY <1>1, <1>3 DEF SaveReturns, Leave, TypeOK
    <2>3. \A u \in Turn \ {t} : phase[u] \notin Loaded
        BY <1>1, <2>2 DEF Running, Loaded
    <2>4. QED
        BY <1>1, <2>1, <2>2, <2>3 DEF Loaded
<1>4. ASSUME KeepsMemory
      PROVE  /\ memory' = Completed'
             /\ \A u \in Turn : phase'[u] \in Loaded => loaded'[u] = memory'
    BY <1>1, <1>4 DEF KeepsMemory, memoryVars
<1>5. QED
    BY <1>1, <1>2, <1>3, <1>4, MemoryTouched, RunnerSteps DEF MemoryExact

\* On stdio one turn runs at a time, the stored memory is exactly what the completed
\* turns exchanged, and runAdapterStdio resolves only when all it read was handled
\* (the promise chain of runAdapterStdio).
THEOREM QueueHoldsTheTurns == StdioSpec => []StdioInv
<1>1. StdioInit => RunnerInv
    <2> SUFFICES ASSUME StdioInit PROVE RunnerInv
        OBVIOUS
    <2>1. Init /\ TypeOK /\ <<>> \in Seq(Task)
        BY TypeInit DEF StdioInit
    <2>2. Completed = {}
        BY <2>1 DEF Init, Completed, Says
    <2>3. StdioTypeOK
        BY <2>1 DEF StdioTypeOK, StdioInit
    <2>4. OneTurnAtATime /\ MemoryExact /\ ResolvedMeansHandled
        BY <2>1, <2>2 DEF Init, StdioInit, OneTurnAtATime, MemoryExact,
           ResolvedMeansHandled, Running
    <2>5. QED
        BY <2>1, <2>2, <2>3, <2>4 DEF Init, RunnerInv, StdioInv, Loaded
<1>2. ASSUME IInv, IInv', RunnerInv, [StdioNext]_allVars
      PROVE  RunnerInv'
    <2>1. StdioTypeOK'
        BY <1>2, RunnerTypes DEF IInv, RunnerInv, StdioInv
    <2>2. OneTurnAtATime'
        BY <1>2, OneTurnStep
    <2>3. ResolvedMeansHandled' /\ (starting' => task' = Start)
        BY <1>2, ResolvedStep, StartHoldsQueue
    <2>4. /\ MemoryExact'
          /\ \A t \in Turn : phase'[t] \in Loaded => loaded'[t] = memory'
        BY <1>2, ExactStep
    <2>5. QED
        BY <2>1, <2>2, <2>3, <2>4 DEF RunnerInv, StdioInv
<1>3. RunnerInv => StdioInv
    BY DEF RunnerInv
<1>4. QED
    BY <1>1, <1>2, <1>3, RunnerAdapter, Invariance, PTL DEF StdioSpec
=============================================================================
