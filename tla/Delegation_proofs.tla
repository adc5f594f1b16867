--------------------------- MODULE Delegation_proofs ---------------------------
(***************************************************************************)
(* What holds of a delegated call however it ends, for any number of       *)
(* questions and for both kinds of streams.                                *)
(***************************************************************************)
EXTENDS Delegation, TLAPS

\* The timer and the listener are set from the start to the finally block,
\* which is where the call gets its outcome.
ArmedWhileRunning ==
    /\ armed <=> phase \notin {"idle", "stopping", "done"}
    /\ outcome # "none" <=> phase \in {"stopping", "done"}

\* A race is lost only against an abort.
LostToAbort == race = "abort" => Aborted

\* The child is interrupted only on the way out, with the signal aborted.
InterruptsAtTheEnd ==
    /\ interrupts = 1 => phase \in {"interrupting", "stopping", "done"}
    /\ phase = "interrupting" => interrupts = 1 /\ child = "known" /\ Aborted

\* The child is stopped only by the finally block.
StopsAtTheEnd ==
    /\ phase \notin {"stopping", "done"} => stops = 0
    /\ phase = "stopping" => stops = 1 /\ child = "known" /\ ephemeral

\* Where the call stands tells what it knows of the child.
ChildKnown ==
    /\ phase \in {"idle", "target", "input"} => child = "none"
    /\ phase = "launch" =>
           /\ race = "open" => child \in {"launching", "none"}
           /\ race = "value" => child = "launched"
           /\ race = "error" => child = "none"
           /\ race = "abort" => child \in {"launching", "none", "orphan"}
    /\ phase \in {"send", "next", "parent", "resolve", "output", "pausing",
                  "failing"} => child = "known"
    /\ phase = "done" => child # "launched"

\* Where the call stands tells whether a question is open.
QuestionOpen ==
    /\ phase \in {"pausing", "parent"} => asked = handed + 1
    /\ phase \in {"idle", "target", "input", "launch", "send", "next",
                  "resolve", "output"} => asked = handed

\* A stream that ended or gave a message has no next() pending.
NotPulling ==
    \/ phase = "next" /\ race = "value"
    \/ phase = "output"
    \/ outcome = "value"
    => ~pulling

\* A child that may come to life unknown belongs to an aborted launch.
LaunchAborted ==
    child \in {"launching", "orphan"} =>
        \/ phase = "launch" /\ (child = "launching" \/ Aborted)
        \/ phase = "done" /\ Aborted /\ outcome = "error"

IInv == /\ TypeOK
        /\ ArmedWhileRunning
        /\ LostToAbort
        /\ InterruptsAtTheEnd
        /\ StopsAtTheEnd
        /\ ChildKnown
        /\ QuestionOpen
        /\ NotPulling
        /\ LaunchAborted
        /\ CleanedUp
        /\ AbortReachesChild
        /\ ValueMeansFinished

-----------------------------------------------------------------------------
(* Every step of the proof looks at all conjuncts: they depend on each      *)
(* other, and each alone is obvious once the step is expanded.             *)
USE DelegationAssumption
    DEF TypeOK, ArmedWhileRunning, LostToAbort, InterruptsAtTheEnd,
        StopsAtTheEnd, ChildKnown, QuestionOpen, NotPulling, LaunchAborted,
        CleanedUp, AbortReachesChild, ValueMeansFinished,
        Aborted, Racing, Phase, Race, childVars, cleanupVars, Await

LEMMA InitHolds == Init => IInv
  <1>1. Init => /\ armed \in BOOLEAN
                /\ ephemeral \in BOOLEAN
                /\ pulling \in BOOLEAN
    BY DEF Init
  <1> QED BY <1>1 DEF Init, IInv

LEMMA StartHolds == IInv /\ (TooDeep \/ Begin) => IInv'
  <1>1. IInv /\ TooDeep => IInv'
    BY DEF TooDeep, IInv
  <1>2. IInv /\ Begin => (armed \in BOOLEAN)'
    BY DEF Begin
  <1>3. IInv /\ Begin => IInv'
    BY <1>2 DEF Begin, IInv
  <1> QED BY <1>1, <1>3

LEMMA AbortHolds == ASSUME NEW by \in {"parent", "timeout"}, IInv, Abort(by)
                    PROVE  IInv'
  BY DEF Abort, IInv

LEMMA CallbackHolds ==
    ASSUME NEW how \in {"value", "error"}, IInv,
           CallbackSettles(how) \/ LaunchSettles(how) \/ NextSettles(how)
    PROVE  IInv'
  <1>1. CASE CallbackSettles(how)
    BY <1>1 DEF CallbackSettles, IInv
  <1>2. CASE LaunchSettles(how)
    BY <1>2 DEF LaunchSettles, IInv
  <1>3. CASE NextSettles(how)
    BY <1>3 DEF NextSettles, IInv
  <1> QED BY <1>1, <1>2, <1>3

LEMMA AwaitHolds ==
    ASSUME IInv,
           \/ TargetResolved \/ InputMapped \/ Launched
           \/ StreamOpened \/ MessageRead \/ StreamEnds
           \/ AnswerArrives
    PROVE  IInv'
  <1>1. CASE TargetResolved
    BY <1>1 DEF TargetResolved, IInv
  <1>2. CASE InputMapped
    BY <1>2 DEF InputMapped, IInv
  <1>3. CASE Launched
    BY <1>3 DEF Launched, IInv
  <1>4. CASE StreamOpened
    BY <1>4 DEF StreamOpened, IInv
  <1>5. CASE MessageRead
    BY <1>5 DEF MessageRead, IInv
  <1>6. CASE StreamEnds
    BY <1>6 DEF StreamEnds, IInv
  <1>7. CASE AnswerArrives
    BY <1>7 DEF AnswerArrives, IInv
  <1> QED BY <1>1, <1>2, <1>3, <1>4, <1>5, <1>6, <1>7

\* The two ways out of a failure, with what they leave alone.
LEMMA CatchHolds ==
    ASSUME IInv, Catch, UNCHANGED <<reason, child, pulling, childVars>>,
           \/ phase = "failing"
           \/ phase \in Racing \ {"next"} /\ race \in {"error", "abort"}
    PROVE  IInv'
  <1>1. (armed \in BOOLEAN)'
    BY DEF Catch, Finally, IInv
  <1>2. CASE Aborted /\ child = "known"
    BY <1>1, <1>2 DEF Catch, IInv
  <1>3. CASE ~(Aborted /\ child = "known")
    BY <1>1, <1>3 DEF Catch, Finally, IInv
  <1> QED BY <1>2, <1>3

LEMMA StreamHolds ==
    ASSUME IInv, QuestionRead \/ StreamFails \/ StreamClosed
    PROVE  IInv'
  <1>1. CASE QuestionRead
    BY <1>1 DEF QuestionRead, IInv
  <1>2. CASE StreamFails
    BY <1>2 DEF StreamFails, IInv
  <1>3. CASE StreamClosed
    <2>1. CASE phase = "pausing"
      BY <1>3, <2>1 DEF StreamClosed, IInv
    <2>2. CASE phase = "failing"
      BY <1>3, <2>2, CatchHolds DEF StreamClosed
    <2> QED BY <1>3, <2>1, <2>2 DEF StreamClosed
  <1> QED BY <1>1, <1>2, <1>3

LEMMA EndHolds ==
    ASSUME IInv,
           Rejected \/ OutputMapped \/ InterruptSettles \/ StopSettles
    PROVE  IInv'
  <1>1. CASE Rejected
    BY <1>1, CatchHolds DEF Rejected
  <1>2. CASE OutputMapped
    <2>1. (armed \in BOOLEAN)'
      BY <1>2 DEF OutputMapped, Finally
    <2> QED BY <1>2, <2>1 DEF OutputMapped, Finally, IInv
  <1>3. CASE InterruptSettles
    <2>1. (armed \in BOOLEAN)'
      BY <1>3 DEF InterruptSettles, Finally
    <2> QED BY <1>3, <2>1 DEF InterruptSettles, Finally, IInv
  <1>4. CASE StopSettles
    BY <1>4 DEF StopSettles, IInv
  <1> QED BY <1>1, <1>2, <1>3, <1>4

LEMMA StepHolds == IInv /\ [Next]_vars => IInv'
  <1> SUFFICES ASSUME IInv, [Next]_vars PROVE IInv'
    OBVIOUS
  <1>1. CASE Continue
    BY <1>1, StartHolds, AwaitHolds, StreamHolds, EndHolds
    DEF Continue, Setup, Reading
  <1>2. CASE Callback
    BY <1>2, CallbackHolds DEF Callback
  <1>3. CASE ParentAborts \/ TimeoutFires
    BY <1>3, AbortHolds DEF ParentAborts, TimeoutFires
  <1>4. CASE StreamClosed \/ InterruptSettles \/ StopSettles
    BY <1>4, StreamHolds, EndHolds
  <1>5. CASE UNCHANGED vars
    BY <1>5 DEF vars, IInv
  <1> QED BY <1>1, <1>2, <1>3, <1>4, <1>5 DEF Next

-----------------------------------------------------------------------------
\* Every state of a delegated call satisfies the invariant.
THEOREM Invariance == Spec => []IInv
  BY InitHolds, StepHolds, PTL DEF Spec

\* Every variable keeps its type; in particular the child is interrupted at most
\* once and stopped at most once.
THEOREM TypeCorrect == Spec => []TypeOK
  <1>1. IInv => TypeOK
    BY DEF IInv
  <1> QED BY <1>1, Invariance, PTL

\* However the call ends, it disposed its timer and stopped the child it got if
\* that is ephemeral (the finally block of adapterTool).
THEOREM CallsCleanUp == Spec => []CleanedUp
  <1>1. IInv => CleanedUp
    BY DEF IInv
  <1> QED BY <1>1, Invariance, PTL

\* A call that fails while aborted has interrupted the child it got (the catch
\* block of adapterTool), also if the abort is not what made it fail.
THEOREM AbortsReachTheChild == Spec => []AbortReachesChild
  <1>1. IInv => AbortReachesChild
    BY DEF IInv
  <1> QED BY <1>1, Invariance, PTL

\* A value is returned only for a turn read to its end, with every question
\* answered (runDelegatedTurn).
THEOREM ValuesAreFinished == Spec => []ValueMeansFinished
  <1>1. IInv => ValueMeansFinished
    BY DEF IInv
  <1> QED BY <1>1, Invariance, PTL

\* A child nobody will stop is the work of a launcher that lost its race against
\* an abort, and of nothing else.
THEOREM OrphansWereAborted == Spec => []OrphanWasAborted
  <1>1. IInv => OrphanWasAborted
    BY DEF IInv, OrphanWasAborted
  <1> QED BY <1>1, Invariance, PTL

\* Of a call that is over nothing is left but the child of a launcher that came
\* too late.
THEOREM NoChildRemains == Spec => []NoChildIsLeft
  BY CallsCleanUp, OrphansWereAborted, PTL DEF NoChildIsLeft
=============================================================================
