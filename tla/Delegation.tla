------------------------------ MODULE Delegation ------------------------------
(***************************************************************************)
(* One call of a tool made by adapterTool (packages/delegation): it        *)
(* launches a child session, sends it one turn, reads the turn's streams,  *)
(* relays the child's questions to the parent and their answers back, and  *)
(* stops the child.  A timeout or an abort of the parent may come at any   *)
(* time.                                                                   *)
(*                                                                         *)
(* Every await is a race between a callback and the abort (withAbort), but *)
(* for three: the return() of the child's stream, child.interrupt and      *)
(* child.stop are awaited until they settle.  A race is decided at once;   *)
(* the code after the await runs later, and an abort may come in between.  *)
(* The callback of a lost race may still settle.                           *)
(*                                                                         *)
(* Callbacks, launcher and child may never answer.  An operator marked     *)
(* "Mutant" is a plausible mistake in the definition that follows it; no   *)
(* definition uses it.                                                     *)
(***************************************************************************)
EXTENDS Naturals

CONSTANT MaxQuestions  \* bound: questions the child asks in its turn

ASSUME DelegationAssumption == MaxQuestions \in Nat

VARIABLES
    phase,       \* the await at which the call stands
    race,        \* who won it: "open" while nobody has, "off" if it is no race
    reason,      \* signal.reason, "none" while the signal is not aborted
    armed,       \* the timer and the listener on the parent's signal are set
    child,       \* the child session, and whether the call knows of it
    ephemeral,   \* child.ephemeral !== false
    pulling,     \* a next() of the child's stream has not settled
    asked,       \* questions read from the child
    handed,      \* answers handed to the child
    interrupts,  \* calls of child.interrupt
    stops,       \* calls of child.stop
    outcome      \* how the call ended

childVars == <<ephemeral, asked, handed>>
cleanupVars == <<armed, interrupts, stops, outcome>>
vars == <<phase, race, reason, child, pulling, childVars, cleanupVars>>

Racing == {"target", "input", "launch", "send", "next", "parent", "resolve",
           "output"}
Phase == Racing \cup
         {"idle", "pausing", "failing", "interrupting", "stopping", "done"}
Race == {"off", "open", "value", "error", "abort"}

Aborted == reason # "none"

\* Mutant of Await: the signal is not looked at before the race.
AwaitBlindly(p) == phase' = p /\ race' = "open"

\* withAbort: its callback was started; the race is lost if the signal is
\* already aborted.  What the callback settles with is then nobody's, and a
\* rejection of it stays unhandled.
Await(p) == /\ phase' = p
            /\ race' = IF Aborted THEN "abort" ELSE "open"

-----------------------------------------------------------------------------
(* The end of the call *)

\* Mutant of Finally: a child that was interrupted is not stopped.
FinallyUnlessInterrupted(how, cut) ==
    /\ race' = "off"
    /\ armed' = FALSE
    /\ outcome' = how
    /\ IF child = "known" /\ ephemeral /\ cut = 0
       THEN phase' = "stopping" /\ stops' = stops + 1
       ELSE phase' = "done" /\ UNCHANGED stops
    /\ interrupts' = cut

\* The finally block; cut is how often the child was interrupted.
Finally(how, cut) ==
    /\ race' = "off"
    /\ armed' = FALSE
    /\ outcome' = how
    /\ IF child = "known" /\ ephemeral
       THEN phase' = "stopping" /\ stops' = stops + 1
       ELSE phase' = "done" /\ UNCHANGED stops
    /\ interrupts' = cut

\* Mutant of Catch: the child is interrupted if the abort is what was thrown,
\* not if the signal is aborted.
CatchAbortOnly ==
    IF race = "abort" /\ child = "known"
    THEN /\ phase' = "interrupting"
         /\ race' = "off"
         /\ interrupts' = interrupts + 1
         /\ UNCHANGED <<armed, stops, outcome>>
    ELSE Finally("error", interrupts)

\* The catch block: if the signal is aborted, the child is interrupted.
Catch ==
    IF Aborted /\ child = "known"
    THEN /\ phase' = "interrupting"
         /\ race' = "off"
         /\ interrupts' = interrupts + 1
         /\ UNCHANGED <<armed, stops, outcome>>
    ELSE Finally("error", interrupts)

\* child.interrupt resolved or rejected.
InterruptSettles == /\ phase = "interrupting"
                    /\ Finally("error", interrupts)
                    /\ UNCHANGED <<reason, child, pulling, childVars>>

\* child.stop resolved or rejected.
StopSettles == /\ phase = "stopping"
               /\ phase' = "done"
               /\ UNCHANGED <<race, reason, child, pulling, childVars,
                              cleanupVars>>

-----------------------------------------------------------------------------
(* The start of the call *)

TooDeep == /\ phase = "idle"
           /\ phase' = "done"
           /\ outcome' = "error"
           /\ UNCHANGED <<race, reason, armed, child, pulling, childVars,
                          interrupts, stops>>

\* If the parent's turn is already aborted nothing is started.
Begin == /\ phase = "idle"
         /\ armed' = TRUE
         /\ \E r \in {"none", "parent"} :
                /\ reason' = r
                /\ phase' = "target"
                /\ race' = IF r = "none" THEN "open" ELSE "abort"
         /\ UNCHANGED <<child, pulling, childVars, interrupts, stops, outcome>>

-----------------------------------------------------------------------------
(* Aborts and the callbacks they race with *)

Abort(by) == /\ armed /\ ~Aborted
             /\ reason' = by
             /\ race' = IF race = "open" THEN "abort" ELSE race
             /\ UNCHANGED <<phase, child, pulling, childVars, cleanupVars>>

ParentAborts == Abort("parent")
TimeoutFires == Abort("timeout")

\* Any callback but the launcher and next().
CallbackSettles(how) ==
    /\ phase \in Racing \ {"launch", "next"} /\ race = "open"
    /\ race' = how
    /\ UNCHANGED <<phase, reason, child, pulling, childVars, cleanupVars>>

\* The launcher's answer is lost on a call that no longer waits for it.
LaunchSettles(how) ==
    /\ child = "launching"
    /\ IF phase = "launch" /\ race = "open"
       THEN /\ race' = how
            /\ child' = IF how = "value" THEN "launched" ELSE "none"
       ELSE /\ child' = IF how = "value" THEN "orphan" ELSE "none"
            /\ UNCHANGED race
    /\ UNCHANGED <<phase, reason, pulling, childVars, cleanupVars>>

NextSettles(how) ==
    /\ pulling
    /\ pulling' = FALSE
    /\ race' = IF phase = "next" /\ race = "open" THEN how ELSE race
    /\ UNCHANGED <<phase, reason, child, childVars, cleanupVars>>

-----------------------------------------------------------------------------
(* The code after each race *)

\* Anywhere but in the stream, what is thrown goes to the catch block.
Rejected == /\ phase \in Racing \ {"next"} /\ race \in {"error", "abort"}
            /\ Catch
            /\ UNCHANGED <<reason, child, pulling, childVars>>

TargetResolved == /\ phase = "target" /\ race = "value"
                  /\ Await("input")
                  /\ UNCHANGED <<reason, child, pulling, childVars,
                                 cleanupVars>>

\* Mutant of InputMapped: nobody waits for the launcher.
InputMappedOnly == /\ phase = "input" /\ race = "value"
                   /\ child' = "launching"
                   /\ Await("send")
                   /\ UNCHANGED <<reason, pulling, childVars, cleanupVars>>

\* The launcher is called before withAbort looks at the signal.
InputMapped == /\ phase = "input" /\ race = "value"
               /\ child' = "launching"
               /\ Await("launch")
               /\ UNCHANGED <<reason, pulling, childVars, cleanupVars>>

Launched == /\ phase = "launch" /\ race = "value"
            /\ child' = "known"
            /\ Await("send")
            /\ UNCHANGED <<reason, pulling, childVars, cleanupVars>>

StreamOpened == /\ phase \in {"send", "resolve"} /\ race = "value"
                /\ pulling' = TRUE
                /\ Await("next")
                /\ UNCHANGED <<reason, child, childVars, cleanupVars>>

\* An activity, a delta, an assistant message or another one.
MessageRead == /\ phase = "next" /\ race = "value"
               /\ pulling' = TRUE
               /\ Await("next")
               /\ UNCHANGED <<reason, child, childVars, cleanupVars>>

\* Mutant of QuestionRead: the stream is read on.
QuestionReadOn ==
    /\ phase = "next" /\ race = "value"
    /\ asked < MaxQuestions
    /\ asked' = asked + 1
    /\ pulling' = TRUE
    /\ Await("next")
    /\ UNCHANGED <<reason, child, ephemeral, handed, cleanupVars>>

\* session.interaction.requested: the stream is closed, without a race.
\* Bound: MaxQuestions.
QuestionRead == /\ phase = "next" /\ race = "value"
                /\ asked < MaxQuestions
                /\ asked' = asked + 1
                /\ phase' = "pausing"
                /\ race' = "off"
                /\ UNCHANGED <<reason, child, pulling, ephemeral, handed,
                               cleanupVars>>

\* session.failed, or what next() threw, or the abort: the stream is closed
\* before the catch block runs.
StreamFails == /\ phase = "next" /\ race \in {"value", "error", "abort"}
               /\ phase' = "failing"
               /\ race' = "off"
               /\ UNCHANGED <<reason, child, pulling, childVars, cleanupVars>>

StreamEnds == /\ phase = "next" /\ race = "value"
              /\ Await("output")
              /\ UNCHANGED <<reason, child, pulling, childVars, cleanupVars>>

\* iterator.return resolved or rejected, at any time or never: that of an async
\* generator waits for the pending next().
StreamClosed ==
    /\ phase \in {"pausing", "failing"}
    /\ \/ phase = "pausing" /\ Await("parent") /\ UNCHANGED cleanupVars
       \/ phase = "failing" /\ Catch
    /\ UNCHANGED <<reason, child, pulling, childVars>>

AnswerArrives == /\ phase = "parent" /\ race = "value"
                 /\ handed' = handed + 1
                 /\ Await("resolve")
                 /\ UNCHANGED <<reason, child, pulling, ephemeral, asked,
                                cleanupVars>>

OutputMapped == /\ phase = "output" /\ race = "value"
                /\ Finally("value", interrupts)
                /\ UNCHANGED <<reason, child, pulling, childVars>>

-----------------------------------------------------------------------------
Init == /\ phase = "idle"
        /\ race = "off"
        /\ reason = "none"
        /\ armed = FALSE
        /\ child = "none"
        /\ ephemeral \in BOOLEAN
        /\ pulling = FALSE
        /\ asked = 0
        /\ handed = 0
        /\ interrupts = 0
        /\ stops = 0
        /\ outcome = "none"

Setup == TooDeep \/ Begin \/ TargetResolved \/ InputMapped \/ Launched

Reading == \/ StreamOpened \/ MessageRead \/ QuestionRead \/ AnswerArrives
           \/ StreamFails \/ StreamEnds

Continue == Setup \/ Reading \/ Rejected \/ OutputMapped

Callback == \E how \in {"value", "error"} :
                CallbackSettles(how) \/ LaunchSettles(how) \/ NextSettles(how)

Next == \/ Continue
        \/ Callback \/ ParentAborts \/ TimeoutFires
        \/ StreamClosed \/ InterruptSettles \/ StopSettles

Spec == Init /\ [][Next]_vars

(***************************************************************************)
(* Fairness: Node runs what follows a settled promise, and the timer       *)
(* fires.  Neither the callbacks nor the child nor the parent's user are   *)
(* fair: what the call awaits of them may never settle.                    *)
(***************************************************************************)
FairSpec == /\ Spec
            /\ WF_vars(Continue)
            /\ WF_vars(TimeoutFires)

-----------------------------------------------------------------------------
(* Properties *)

TypeOK == /\ phase \in Phase
          /\ race \in Race
          /\ race = "off" <=> phase \notin Racing
          /\ reason \in {"none", "parent", "timeout"}
          /\ armed \in BOOLEAN
          /\ child \in {"none", "launching", "launched", "known", "orphan"}
          /\ ephemeral \in BOOLEAN
          /\ pulling \in BOOLEAN
          /\ asked \in 0..MaxQuestions
          /\ handed \in 0..asked
          /\ interrupts \in 0..1
          /\ stops \in 0..1
          /\ outcome \in {"none", "value", "error"}

\* However the call ends, its timer and its listener are gone and the child it
\* got is stopped, once, if it is ephemeral and never otherwise.
CleanedUp ==
    phase = "done" =>
        /\ ~armed
        /\ stops = IF child = "known" /\ ephemeral THEN 1 ELSE 0

\* A call that fails with its signal aborted, by the abort or by something that
\* came just before it, has interrupted the child it got.
AbortReachesChild ==
    phase \in {"stopping", "done"} /\ Aborted /\ child = "known" =>
        interrupts = 1 \/ outcome = "value"

\* A call that returns a value has read the child's turn to its end, with every
\* question of the child answered; the child was not interrupted.
ValueMeansFinished ==
    outcome = "value" => /\ handed = asked
                         /\ ~pulling
                         /\ interrupts = 0

\* A child nobody will stop exists only if the launcher lost the race against an
\* abort; no turn was sent to it.
OrphanWasAborted ==
    child = "orphan" => /\ Aborted /\ outcome # "value"
                        /\ phase \in {"launch", "done"}

\* Both: of a call that is over nothing is left but the child of a launcher that
\* came too late.
NoChildIsLeft == CleanedUp /\ OrphanWasAborted

\* The awaits that are no race.
Unraced == {"pausing", "failing", "interrupting", "stopping"}

\* The call ends, at the latest after its timeout, whatever the target resolver,
\* the mappers, the launcher, the child's messages and the parent's user leave
\* unanswered.  Only a child that never answers the return() of its stream, its
\* interrupt or its stop keeps the call, and keeps it right there: no abort and
\* no timeout ends these awaits.
CallEnds ==
    phase = "target" ~> (phase = "done" \/ \E p \in Unraced : [](phase = p))
=============================================================================
