---------------------------- MODULE OperationCall ----------------------------
(***************************************************************************)
(* One invocation of an adapter of packages/sdk-cli/src/index.ts           *)
(* (defineCliAdapter) or packages/sdk-http/src/index.ts                    *)
(* (defineHttpAdapter): the handler that RuntimeCall leaves open, with     *)
(* what it runs.  The two packages share their shape; http tells them      *)
(* apart.                                                                  *)
(*                                                                         *)
(* The operation's configuration is a set of values and callbacks: they    *)
(* may throw, and unless they are pure they may answer anew when asked     *)
(* again.  The command or the server is the environment.  The queue of the *)
(* runtime is left out: it carries what is emitted (RuntimeCall).          *)
(***************************************************************************)
EXTENDS RuntimeCall

CONSTANTS
    Command,   \* commands, or methods with URLs
    Args,      \* arguments, or bodies
    NoSpec     \* nothing was shown or run

Request == [command : Command, args : Args]

ASSUME OperationAssumption == NoSpec \notin Request

VARIABLES
    http,       \* an HTTP operation rather than a command
    pure,       \* the callbacks answer the same every time
    timed,      \* the operation has a timeout
    step,       \* where the handler stands
    shown,      \* the preview: what the activity and the log tell
    ran,        \* what was executed
    timer,      \* of the timeout
    answer,     \* of the server or the command
    result,     \* of runHttpOperation or runCliOperation
    activity    \* the last status of the activity

configVars == <<http, pure, timed>>
runVars == <<shown, ran, timer, answer, result>>
opVars == <<configVars, step, runVars, activity>>
operationVars == <<vars, opVars>>

NoResult == [ok |-> FALSE, known |-> FALSE]

-----------------------------------------------------------------------------
(* Before the operation runs *)

OpRefuse == Refuse /\ UNCHANGED opVars

OpAccept == /\ Accept
            /\ step' = "previewing"
            /\ UNCHANGED <<configVars, runVars, activity>>

\* A callback that throws, or the callback of the title: the runtime fails the
\* call, and whatever the activity said last stands.
CallbackThrows ==
    /\ step \in {"previewing", "preparing", "mapping"}
    /\ Throws
    /\ step' = "over"
    /\ UNCHANGED <<configVars, runVars, activity>>

\* commandPreview, requestPreview: the host is told what is about to run.  What
\* it sees of it, a method and a URL or the displayCommand of a command, is made
\* of spec, and stands for all of it here.
PreviewReturns(spec) ==
    /\ step = "previewing"
    /\ shown' = spec
    /\ activity' = "running"
    /\ Emit(<<"event", "event">>)
    /\ step' = "preparing"
    /\ UNCHANGED <<phase, handled, settled, numbers, queueVars, owed,
                   configVars, ran, timer, answer, result>>

\* Mutant of Executed: the arguments are those of the second evaluation.
ExecutedAnew(spec) == spec

\* A command is asked for again but run with the arguments that were shown; of
\* a request everything is asked for again.
Executed(spec) == IF http THEN spec
                  ELSE [command |-> spec.command, args |-> shown.args]

\* commandSpec, requestSpec and the other callbacks; then the timeout starts.
PrepareReturns(spec) ==
    /\ step = "preparing"
    /\ pure => spec = shown
    /\ ran' = Executed(spec)
    /\ timer' = IF timed THEN "armed" ELSE "none"
    /\ step' = "exchanging"
    /\ UNCHANGED <<vars, configVars, shown, answer, result, activity>>

-----------------------------------------------------------------------------
(* The exchange *)

\* The timeout aborts the request, or kills the command.
TimerFires ==
    /\ timer = "armed"
    /\ timer' = "fired"
    /\ UNCHANGED <<vars, configVars, step, shown, ran, answer, result, activity>>

\* Mutant of Answered: the timeout is over once the headers came.
AnsweredInTime(a) ==
    /\ step = "exchanging"
    /\ a \in {"accepted", "unexpected"}
    /\ timer = "fired" => ~http /\ a = "unexpected"
    /\ answer' = a
    /\ timer' = "none"
    /\ step' = "parsing"
    /\ UNCHANGED <<vars, configVars, shown, ran, result, activity>>

\* The response's headers came and acceptStatus looked at them; or the command
\* ended, with code 0 or not.
Answered(a) ==
    /\ step = "exchanging"
    /\ a \in {"accepted", "unexpected"}
    /\ timer = "fired" => ~http /\ a = "unexpected"
    /\ answer' = a
    /\ step' = "parsing"
    /\ UNCHANGED <<vars, configVars, shown, ran, timer, result, activity>>

\* Mutant of ToResult: the timeout is cleared only after a parsed answer.
ToResultTimed(r) == /\ result' = r
                    /\ timer' = IF r.known THEN "none" ELSE timer
                    /\ step' = "reporting"

\* The finally block clears the timeout.
ToResult(r) == /\ result' = r
               /\ timer' = "none"
               /\ step' = "reporting"

\* fetch rejects: no connection, or aborted by the timeout.
FetchRejects ==
    /\ http /\ step = "exchanging"
    /\ ToResult(NoResult)
    /\ UNCHANGED <<vars, configVars, shown, ran, answer, activity>>

\* A command that failed keeps its code and what it wrote.
FailedCommand == ~http /\ answer = "unexpected"

\* Mutant of Parsed: a failed command whose output parses counts as run.
ParsedIsEnough(parses) ==
    /\ step = "parsing"
    /\ http /\ timer = "fired" => ~parses
    /\ ToResult([ok |-> parses,
                 known |-> parses \/ FailedCommand])
    /\ UNCHANGED <<vars, configVars, shown, ran, answer, activity>>

\* applyParse.  What does not parse is an error like any other: of a response
\* the status is lost with it, of a command that succeeded the output.
Parsed(parses) ==
    /\ step = "parsing"
    /\ http /\ timer = "fired" => ~parses
    /\ ToResult([ok |-> answer = "accepted" /\ parses,
                 known |-> parses \/ FailedCommand])
    /\ UNCHANGED <<vars, configVars, shown, ran, answer, activity>>

-----------------------------------------------------------------------------
(* The report *)

\* Mutant of ReportFailure: the activity fails and the handler just returns.
ReportFailureSilently ==
    /\ step = "reporting" /\ ~result.ok
    /\ activity' = "failed"
    /\ Emit(<<"event">>)
    /\ phase' = "ended"
    /\ step' = "over"
    /\ UNCHANGED <<settled, handled, numbers, queueVars, owed, configVars,
                   runVars>>

\* The activity fails, then the call, then the handler returns.
ReportFailure ==
    /\ step = "reporting" /\ ~result.ok
    /\ activity' = "failed"
    /\ Settle(<<"event", "failed">>)
    /\ phase' = "ended"
    /\ step' = "over"
    /\ UNCHANGED <<handled, numbers, queueVars, owed, configVars, runVars>>

\* The activity has succeeded; an artifact may follow, whose title is a callback
\* that may throw.
ReportSuccess(artifact) ==
    /\ step = "reporting" /\ result.ok
    /\ activity' = "succeeded"
    /\ \/ artifact \in {"none", "made"}
            /\ Emit(IF artifact = "made" THEN <<"event", "event">>
                                         ELSE <<"event">>)
            /\ step' = "mapping"
            /\ UNCHANGED <<phase, settled>>
       \/ artifact = "throws"
            /\ Settle(<<"event", "failed">>)
            /\ phase' = "ended"
            /\ step' = "over"
    /\ UNCHANGED <<handled, numbers, queueVars, owed, configVars, runVars>>

\* The output callback, or the parsed result, goes to the runtime.
MapReturns(r) ==
    /\ step = "mapping"
    /\ Returns(r)
    /\ step' = "over"
    /\ UNCHANGED <<configVars, runVars, activity>>

-----------------------------------------------------------------------------
OpInit == /\ Init
          /\ http \in BOOLEAN
          /\ pure \in BOOLEAN
          /\ timed \in IF http THEN BOOLEAN ELSE {TRUE}
          /\ step = "waiting"
          /\ shown = NoSpec
          /\ ran = NoSpec
          /\ timer = "none"
          /\ answer = "none"
          /\ result = NoResult
          /\ activity = "none"

\* The callbacks of the operation, and what follows them in the same tick.
HandlerGoesOn ==
    \/ CallbackThrows
    \/ \E spec \in Request : PreviewReturns(spec) \/ PrepareReturns(spec)
    \/ ReportFailure
    \/ \E artifact \in {"none", "made", "throws"} : ReportSuccess(artifact)
    \/ \E r \in Result : MapReturns(r)

\* What a timeout that fired leads to.
TimedOut == /\ timer = "fired"
            /\ \/ FetchRejects
               \/ Answered("unexpected")
               \/ \E parses \in BOOLEAN : Parsed(parses)

OpNext == \/ OpRefuse \/ OpAccept
          \/ HandlerGoesOn
          \/ TimerFires
          \/ \E a \in {"accepted", "unexpected"} : Answered(a)
          \/ FetchRejects
          \/ \E parses \in BOOLEAN : Parsed(parses)

OpSpec == OpInit /\ [][OpNext]_operationVars

(***************************************************************************)
(* Fairness: the callbacks settle, timers fire, and an aborted fetch or    *)
(* body rejects.  The server may never answer; a command that is killed    *)
(* ends.                                                                   *)
(***************************************************************************)
OpFairSpec == /\ OpSpec
              /\ WF_operationVars(HandlerGoesOn)
              /\ WF_operationVars(TimerFires)
              /\ WF_operationVars(TimedOut)

-----------------------------------------------------------------------------
(* Properties *)

Ended(kind) == \E k \in DOMAIN emitted : emitted[k].kind = kind

OpTypeOK ==
    /\ TypeOK
    /\ http \in BOOLEAN /\ pure \in BOOLEAN /\ timed \in BOOLEAN
    /\ step \in {"waiting", "previewing", "preparing", "exchanging", "parsing",
                 "reporting", "mapping", "over"}
    /\ shown \in Request \cup {NoSpec}
    /\ ran \in Request \cup {NoSpec}
    /\ timer \in {"none", "armed", "fired"}
    /\ answer \in {"none", "accepted", "unexpected"}
    /\ result \in [ok : BOOLEAN, known : BOOLEAN]
    /\ activity \in {"none", "running", "failed", "succeeded"}

\* The activity and the end of the call agree: a call completes only after the
\* server or the command gave an answer that is accepted, and a failed activity
\* fails its call.
ActivityTellsTheEnd ==
    /\ Ended("completed") => activity = "succeeded" /\ answer = "accepted"
    /\ activity = "failed" => Ended("failed")

\* A call that did not succeed says how it ended, whichever callback threw; only
\* an output callback that returns nothing leaves the host without a word.
FailureIsTold ==
    phase = "ended" => activity = "succeeded" \/ \E k \in Terminal : Ended(k)

\* What ran is what the host was shown, as long as the callbacks are pure; the
\* arguments of a command are those it was shown in any case.
ShownIsRun ==
    ran # NoSpec => /\ pure => ran = shown
                    /\ ~http => ran.args = shown.args

\* A timeout is armed only while there is something to abort: none is left to
\* fire when the answer was parsed or failed to.
TimerIsCleared == timer # "none" => step \in {"exchanging", "parsing"}

\* A failed command's output reaches the host, parsed or not: what the test
\* "sdk-cli surfaces subprocess failures" looks at.  The status of a failed
\* response is lost when its body does not parse.
FailureShowsAnswer ==
    ~http /\ activity = "failed" /\ answer = "unexpected" => result.known

\* The types, and what the host is told of an operation that goes wrong.
OpInv == /\ OpTypeOK
         /\ ActivityTellsTheEnd
         /\ FailureIsTold
         /\ FailureShowsAnswer
         /\ TimerIsCleared

\* A call with a timeout ends, though the server never answers, or stops in the
\* middle of its answer.
TimedCallEnds == timer = "armed" ~> phase = "ended"
=============================================================================
