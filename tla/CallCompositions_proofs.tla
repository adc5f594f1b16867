------------------------ MODULE CallCompositions_proofs ------------------------
(***************************************************************************)
(* What holds of the two compositions around a call of the runtime.        *)
(*                                                                         *)
(* Every call of a CLI or an HTTP operation, for any commands, arguments   *)
(* and callbacks: what the host is told of an operation that goes wrong,   *)
(* and that what ran is what the host was shown.  Some steps of the        *)
(* handler emit two messages, or settle the call after an event, so they   *)
(* are no single step of RuntimeCall's Next: the invariant of RuntimeCall  *)
(* is proved anew, from its lemmas.                                        *)
(*                                                                         *)
(* Every request over HTTP, for any lines, any window and any number of    *)
(* messages: the host never takes a part of a line for a message, one line *)
(* at most waits in the response, and the stream implements the abstract   *)
(* channel from the handler's context to the host's sink.                  *)
(***************************************************************************)
EXTENDS OperationCall, HttpStream, RuntimeCall_proofs

-----------------------------------------------------------------------------
(* An operation: the inductive invariant *)

\* The steps at which the handler runs.
InHandler == {"previewing", "preparing", "exchanging", "parsing", "reporting",
              "mapping"}

\* The handler settles the call only in its last step, and no end is silent
\* unless the activity succeeded.
SettledLast ==
    /\ (step \in InHandler) <=> (phase = "running")
    /\ phase \in {"idle", "running"} => ~settled
    /\ step = "over" => phase = "ended"
    /\ phase = "ended" => activity = "succeeded" \/ settled

\* The activity at each step.
ActivityFollows ==
    /\ step \in {"waiting", "previewing"} => activity = "none"
    /\ step \in {"preparing", "exchanging", "parsing", "reporting"} =>
         activity = "running"
    /\ step = "mapping" => activity = "succeeded" /\ answer = "accepted"

\* The result that is about to be reported.
ResultFollows ==
    step = "reporting" =>
        /\ result.ok => answer = "accepted"
        /\ ~http /\ answer = "unexpected" => result.known

\* Nothing runs before it is shown.
ShownFirst ==
    /\ step \in {"waiting", "previewing"} => shown = NoSpec
    /\ step \in {"waiting", "previewing", "preparing"} => ran = NoSpec
    /\ step \in InHandler \ {"previewing"} => shown \in Request

OpHeld == /\ OpTypeOK
        /\ SettledLast
        /\ ActivityFollows
        /\ ResultFollows
        /\ ShownFirst
        /\ TimerIsCleared

OpHeldInv == /\ IInv
           /\ OpHeld
           /\ ActivityTellsTheEnd
           /\ FailureShowsAnswer
           /\ ShownIsRun

USE StreamAssumption, CallAssumption, OperationAssumption
    DEF InHandler, Phase, Terminal, Kind, contextVars, queueVars

-----------------------------------------------------------------------------
(* What an emission adds to the ends that were told *)

LEMMA EmitEnds ==
    ASSUME TypeOK, NEW kinds \in Seq(Kind), Emit(kinds)
    PROVE  \A kind : Ended(kind)' <=>
             Ended(kind) \/ \E k \in 1..Len(kinds) : kinds[k] = kind
  <1> DEFINE more == Plain(kinds)
             n == Len(emitted)
  <1>1. /\ more \in Seq(Message) /\ Len(more) = Len(kinds)
        /\ \A k \in 1..Len(kinds) : more[k].kind = kinds[k]
    BY PlainIsMessage
  <1>2. emitted \in Seq(Message) /\ emitted' = emitted \o more
    BY DEF TypeOK, Emit
  <1> HIDE DEF more
  <1>3. n \in Nat /\ Len(kinds) \in Nat /\ DOMAIN emitted = 1..n
        /\ DOMAIN emitted' = 1..n + Len(kinds)
    <2>1. /\ emitted \o more \in Seq(Message)
          /\ Len(emitted \o more) = Len(emitted) + Len(more)
      BY <1>1, <1>2, ConcatProperties
    <2>2. emitted' \in Seq(Message) /\ Len(emitted') = n + Len(kinds)
      BY <1>1, <1>2, <2>1
    <2> QED BY <1>2, <2>2
  <1>4. \A k \in 1..n : emitted'[k] = emitted[k]
    BY <1>1, <1>2
  <1>5. \A k \in 1..Len(kinds) : emitted'[n + k].kind = kinds[k]
    BY <1>1, <1>2, <1>3
  <1> SUFFICES ASSUME NEW kind
               PROVE  Ended(kind)' <=>
                 Ended(kind) \/ \E k \in 1..Len(kinds) : kinds[k] = kind
    OBVIOUS
  <1>6. ASSUME NEW k \in DOMAIN emitted', emitted'[k].kind = kind
        PROVE  Ended(kind) \/ \E j \in 1..Len(kinds) : kinds[j] = kind
    <2>1. CASE k \in 1..n
      BY <1>3, <1>4, <1>6, <2>1 DEF Ended
    <2>2. CASE k \notin 1..n
      <3>1. k - n \in 1..Len(kinds) /\ n + (k - n) = k
        BY <1>3, <1>6, <2>2
      <3>2. emitted'[n + (k - n)].kind = kinds[k - n]
        BY <1>5, <3>1
      <3> QED BY <1>6, <3>1, <3>2
    <2> QED BY <2>1, <2>2
  <1>7. ASSUME Ended(kind) PROVE Ended(kind)'
    <2>1. PICK k \in 1..n : emitted[k].kind = kind
      BY <1>3, <1>7 DEF Ended
    <2>2. k \in DOMAIN emitted' /\ emitted'[k].kind = kind
      BY <1>3, <1>4, <2>1
    <2> QED BY <2>2 DEF Ended
  <1>8. ASSUME NEW k \in 1..Len(kinds), kinds[k] = kind PROVE Ended(kind)'
    <2>1. n + k \in DOMAIN emitted' /\ emitted'[n + k].kind = kind
      BY <1>3, <1>5, <1>8
    <2> QED BY <2>1 DEF Ended
  <1> QED BY <1>6, <1>7, <1>8 DEF Ended

LEMMA NothingEnded ==
    ASSUME IInv, ~settled
    PROVE  \A kind \in Terminal : ~Ended(kind)
  BY DEF IInv, SettledByTerminal, Ended

LEMMA SettledEnded ==
    ASSUME IInv, settled
    PROVE  \E kind \in Terminal : Ended(kind)
  BY DEF IInv, ThreadsSettle, Ended

(***************************************************************************)
(* The last message of a step, or its only one, after any number of events *)
(* or an output; and a step that leaves the context alone.                 *)
(***************************************************************************)
LEMMA OneEnds ==
    ASSUME TypeOK, NEW kind \in Kind, Emit(<<kind>>)
    PROVE  \A other : Ended(other)' <=> Ended(other) \/ other = kind
  <1> DEFINE kinds == <<kind>>
  <1>1. kinds \in Seq(Kind) /\ Len(kinds) = 1 /\ kinds[1] = kind
    OBVIOUS
  <1>2. Emit(kinds)
    OBVIOUS
  <1> HIDE DEF kinds
  <1>3. 1..Len(kinds) = {1}
    BY <1>1
  <1>4. \A other : Ended(other)' <=>
             Ended(other) \/ \E k \in 1..Len(kinds) : kinds[k] = other
    BY <1>1, <1>2, EmitEnds
  <1> QED BY <1>1, <1>3, <1>4

LEMMA TwoEnd ==
    ASSUME TypeOK, NEW first \in Kind, NEW last \in Kind, Emit(<<first, last>>)
    PROVE  \A other : Ended(other)' <=>
             Ended(other) \/ other = first \/ other = last
  <1> DEFINE kinds == <<first, last>>
  <1>1. /\ kinds \in Seq(Kind) /\ Len(kinds) = 2
        /\ kinds[1] = first /\ kinds[2] = last
    OBVIOUS
  <1>2. Emit(kinds)
    OBVIOUS
  <1> HIDE DEF kinds
  <1>3. 1..Len(kinds) = {1, 2}
    BY <1>1
  <1>4. \A other : Ended(other)' <=>
             Ended(other) \/ \E k \in 1..Len(kinds) : kinds[k] = other
    BY <1>1, <1>2, EmitEnds
  <1> QED BY <1>1, <1>3, <1>4

LEMMA TwoAdd ==
    ASSUME TypeOK, NEW first \in Kind \ Terminal, NEW last \in Kind,
           Emit(<<first, last>>), ~settled, settled' \in BOOLEAN,
           settled' <=> last \in Terminal
    PROVE  Adds
  <1> DEFINE kinds == <<first, last>>
  <1>1. /\ kinds \in Seq(Kind) /\ Len(kinds) = 2
        /\ kinds[1] = first /\ kinds[2] = last
    OBVIOUS
  <1>2. Emit(kinds)
    OBVIOUS
  <1> HIDE DEF kinds
  <1>3. \A k \in 1..Len(kinds) : kinds[k] \in Terminal => k = Len(kinds)
    BY <1>1
  <1>4. settled' /\ ~settled => Len(kinds) > 0 /\ kinds[Len(kinds)] \in Terminal
    BY <1>1
  <1>5. kinds[Len(kinds)] \in Terminal => settled'
    BY <1>1
  <1> QED BY <1>2, <1>3, <1>4, <1>5, <1>1, EmitAdds

-----------------------------------------------------------------------------
(* The first state, and the steps outside the handler *)

LEMMA OpHeldInit == OpInit => OpHeldInv
  <1> SUFFICES ASSUME OpInit PROVE OpHeldInv
    OBVIOUS
  <1>1. IInv /\ TypeOK
    BY InitHolds DEF OpInit, IInv
  <1>2. \A kind : ~Ended(kind)
    BY DEF OpInit, Init, Ended
  <1>3. OpTypeOK
    BY <1>1 DEF OpInit, OpTypeOK, NoResult
  <1> QED BY <1>1, <1>2, <1>3 DEF OpInit, Init, OpHeldInv, OpHeld, SettledLast,
          ActivityFollows, ResultFollows, ShownFirst, TimerIsCleared,
          ActivityTellsTheEnd, FailureShowsAnswer, ShownIsRun

LEMMA RefuseHeld == ASSUME OpHeldInv, OpRefuse PROVE OpHeldInv'
  <1> USE DEF OpHeldInv, OpHeld
  <1>1. IInv' /\ TypeOK'
    BY EntryHolds DEF OpRefuse, IInv
  <1>2. TypeOK /\ Emit(<<"failed">>)
    BY DEF OpTypeOK, OpRefuse, Refuse, Settle
  <1>3. \A kind : Ended(kind)' <=> Ended(kind) \/ kind = "failed"
    BY <1>2, OneEnds
  <1>4. /\ phase = "idle" /\ phase' = "ended" /\ settled'
        /\ UNCHANGED <<http, pure, timed, step, shown, ran, timer, answer,
                       result, activity>>
    BY DEF OpRefuse, Refuse, Settle, opVars, configVars, runVars
  <1>5. OpTypeOK'
    BY <1>1, <1>4 DEF OpTypeOK
  <1>6. step \notin InHandler
    BY <1>4 DEF SettledLast
  <1> QED BY <1>1, <1>3, <1>4, <1>5, <1>6 DEF OpTypeOK, SettledLast,
          ActivityFollows, ResultFollows, ShownFirst, TimerIsCleared,
          ActivityTellsTheEnd, FailureShowsAnswer, ShownIsRun

LEMMA AcceptHeld == ASSUME OpHeldInv, OpAccept PROVE OpHeldInv'
  <1> USE DEF OpHeldInv, OpHeld
  <1>1. IInv' /\ TypeOK'
    BY EntryHolds DEF OpAccept, IInv
  <1>2. /\ phase = "idle" /\ phase' = "running" /\ ~settled
        /\ UNCHANGED <<settled, emitted>>
        /\ step' = "previewing"
        /\ UNCHANGED <<http, pure, timed, shown, ran, timer, answer, result,
                       activity>>
    BY DEF OpAccept, Accept, configVars, runVars, IInv, Handling
  <1>3. \A kind : Ended(kind)' <=> Ended(kind)
    BY <1>2 DEF Ended
  <1>4. step = "waiting"
    BY <1>2 DEF SettledLast, OpTypeOK
  <1>5. OpTypeOK'
    BY <1>1, <1>2 DEF OpTypeOK
  <1> QED BY <1>1, <1>2, <1>3, <1>4, <1>5 DEF OpTypeOK, SettledLast,
          ActivityFollows, ResultFollows, ShownFirst, TimerIsCleared,
          ActivityTellsTheEnd, FailureShowsAnswer, ShownIsRun

(***************************************************************************)
(* Steps of the handler that leave the call of the runtime alone: nothing  *)
(* is told in them.                                                        *)
(***************************************************************************)
LEMMA SilentHeld ==
    ASSUME OpHeldInv, UNCHANGED <<vars, configVars, shown, activity>>,
           step \in InHandler, step' \in InHandler,
           ran' \in Request \cup {NoSpec},
           timer' \in {"none", "armed", "fired"},
           answer' \in {"none", "accepted", "unexpected"},
           result' \in [ok : BOOLEAN, known : BOOLEAN],
           ActivityFollows', ResultFollows', ShownFirst', TimerIsCleared',
           ShownIsRun'
    PROVE  OpHeldInv'
  <1> USE DEF OpHeldInv, OpHeld
  <1>1. IInv'
    BY NextHolds
  <1>2. /\ UNCHANGED <<phase, settled, emitted, http, pure, timed, activity>>
        /\ UNCHANGED shown
    BY DEF vars, configVars
  <1>3. OpTypeOK'
    BY <1>1, <1>2 DEF OpTypeOK, IInv
  <1>4. SettledLast'
    BY <1>2 DEF SettledLast
  <1>5. phase = "running" /\ ~settled
    BY DEF SettledLast
  <1>6. \A kind \in Terminal : ~Ended(kind)'
    BY <1>2, <1>5, NothingEnded DEF Ended
  <1>7. activity' # "failed"
    BY DEF ActivityFollows
  <1> QED BY <1>1, <1>3, <1>4, <1>6, <1>7 DEF ActivityTellsTheEnd,
          FailureShowsAnswer

LEMMA PrepareHeld ==
    ASSUME OpHeldInv, NEW spec \in Request, PrepareReturns(spec)
    PROVE  OpHeldInv'
  <1> USE DEF OpHeldInv, OpHeld
  <1>1. shown \in Request /\ step = "preparing" /\ activity = "running"
    BY DEF PrepareReturns, ShownFirst, ActivityFollows
  <1>2. Executed(spec) \in Request
    BY <1>1 DEF Executed, Request
  <1>3. /\ pure => Executed(spec) = shown
        /\ ~http => Executed(spec).args = shown.args
    BY <1>1 DEF PrepareReturns, Executed, Request
  <1>4. /\ UNCHANGED <<vars, configVars, shown, answer, result, activity>>
        /\ UNCHANGED <<http, pure>>
        /\ ran' = Executed(spec) /\ step' = "exchanging"
        /\ timer' \in {"none", "armed", "fired"}
    BY DEF PrepareReturns, configVars
  <1>5. ShownIsRun'
    BY <1>3, <1>4 DEF ShownIsRun
  <1>6. ActivityFollows' /\ ResultFollows' /\ ShownFirst' /\ TimerIsCleared'
    BY <1>1, <1>4 DEF ActivityFollows, ResultFollows, ShownFirst,
       TimerIsCleared
  <1> QED BY <1>1, <1>2, <1>4, <1>5, <1>6, SilentHeld DEF OpTypeOK

LEMMA ExchangeHeld ==
    ASSUME OpHeldInv,
           \/ TimerFires \/ FetchRejects
           \/ \E a \in {"accepted", "unexpected"} : Answered(a)
           \/ \E parses \in BOOLEAN : Parsed(parses)
    PROVE  OpHeldInv'
  <1> USE DEF OpHeldInv, OpHeld
  <1>1. step \in {"exchanging", "parsing"}
    BY DEF TimerFires, FetchRejects, Answered, Parsed, TimerIsCleared
  <1>2. /\ UNCHANGED <<vars, configVars, shown, ran, activity>>
        /\ UNCHANGED <<http, pure>>
        /\ step' \in {"exchanging", "parsing", "reporting"}
        /\ timer' \in {"none", "armed", "fired"}
        /\ answer' \in {"none", "accepted", "unexpected"}
    BY <1>1 DEF TimerFires, FetchRejects, Answered, Parsed, configVars,
       ToResult, OpTypeOK
  <1>3. /\ result' \in [ok : BOOLEAN, known : BOOLEAN]
        /\ ResultFollows'
    <2>1. CASE TimerFires \/ \E a \in {"accepted", "unexpected"} : Answered(a)
      BY <1>1, <2>1 DEF TimerFires, Answered, OpTypeOK, ResultFollows
    <2>2. CASE FetchRejects
      BY <1>2, <2>2 DEF FetchRejects, ToResult, NoResult, ResultFollows
    <2>3. ASSUME NEW parses \in BOOLEAN, Parsed(parses)
          PROVE  /\ result' \in [ok : BOOLEAN, known : BOOLEAN]
                 /\ ResultFollows'
      <3>1. /\ result' = [ok |-> answer = "accepted" /\ parses,
                          known |-> parses \/ FailedCommand]
            /\ UNCHANGED answer
        BY <2>3 DEF Parsed, ToResult
      <3>2. /\ result' \in [ok : BOOLEAN, known : BOOLEAN]
            /\ result'.ok <=> answer = "accepted" /\ parses
            /\ result'.known <=> parses \/ FailedCommand
        BY <3>1 DEF FailedCommand
      <3> QED BY <1>2, <3>1, <3>2 DEF ResultFollows, FailedCommand
    <2> QED BY <2>1, <2>2, <2>3
  <1>4. TimerIsCleared'
    BY <1>1 DEF TimerFires, FetchRejects, Answered, Parsed, ToResult,
       TimerIsCleared
  <1>5. ActivityFollows' /\ ShownFirst' /\ ShownIsRun'
    BY <1>1, <1>2 DEF ActivityFollows, ShownFirst, ShownIsRun
  <1> QED BY <1>1, <1>2, <1>3, <1>4, <1>5, SilentHeld DEF OpTypeOK

-----------------------------------------------------------------------------
(* Steps of the handler that emit *)

LEMMA SpeakHolds ==
    ASSUME OpHeldInv, Adds, phase = "running", phase' \in {"running", "ended"},
           UNCHANGED <<handled, numbers, queueVars, owed>>,
           phase' = "ended" => settled'
    PROVE  IInv' /\ TypeOK'
  <1>1. IInv /\ TypeOK
    BY DEF OpHeldInv, IInv
  <1>2. /\ handled' \in BOOLEAN /\ numbers' \in [Stream -> Nat]
        /\ phase' \in Phase /\ Handling'
    BY <1>1 DEF TypeOK, Handling
  <1>3. /\ UNCHANGED <<queueVars, owed>>
        /\ \/ phase' = phase
           \/ phase \in {"idle", "running"} /\ phase' \in {"running", "ended"}
    OBVIOUS
  <1>4. IInv'
    BY <1>1, <1>2, <1>3, AddsHolds
  <1> QED BY <1>4 DEF IInv

LEMMA PreviewHeld ==
    ASSUME OpHeldInv, NEW spec \in Request, PreviewReturns(spec)
    PROVE  OpHeldInv'
  <1> USE DEF OpHeldInv, OpHeld
  <1>1. /\ step = "previewing" /\ step' = "preparing"
        /\ shown' = spec /\ activity' = "running"
        /\ Emit(<<"event", "event">>)
        /\ UNCHANGED <<phase, settled, http, pure, timed, ran, timer, answer,
                       result>>
        /\ UNCHANGED <<handled, numbers, queueVars, owed>>
    BY DEF PreviewReturns, configVars
  <1>2. TypeOK /\ settled \in BOOLEAN /\ phase = "running" /\ ~settled
        /\ ran = NoSpec
    BY <1>1 DEF IInv, TypeOK, SettledLast, ShownFirst
  <1>3. Adds
    BY <1>1, <1>2, TwoAdd
  <1>4. IInv' /\ TypeOK'
    BY <1>1, <1>2, <1>3, SpeakHolds
  <1>5. \A kind \in Terminal : ~Ended(kind)'
    BY <1>1, <1>2, NothingEnded, TwoEnd
  <1>6. OpTypeOK'
    BY <1>1, <1>4 DEF OpTypeOK
  <1> QED BY <1>1, <1>2, <1>4, <1>5, <1>6 DEF SettledLast, ActivityFollows,
          ResultFollows, ShownFirst, TimerIsCleared, ActivityTellsTheEnd,
          FailureShowsAnswer, ShownIsRun

\* The last step of the handler, which ends the call.
LEMMA LastHeld ==
    ASSUME OpHeldInv, Adds, step \in InHandler, step' = "over",
           phase' = "ended",
           UNCHANGED <<handled, numbers, queueVars, owed, http, pure, timed,
                       shown, ran, timer, answer, result>>,
           step \notin {"exchanging", "parsing"},
           activity' \in {"none", "running", "failed", "succeeded"},
           settled' \/ (activity' = "succeeded" /\ ~Threads),
           ActivityTellsTheEnd', FailureShowsAnswer'
    PROVE  OpHeldInv'
  <1> USE DEF OpHeldInv, OpHeld
  <1>1. phase = "running" /\ TypeOK
    BY DEF SettledLast, IInv
  <1>2. /\ handled' \in BOOLEAN /\ numbers' \in [Stream -> Nat]
        /\ phase' \in Phase /\ Handling'
    BY <1>1 DEF TypeOK, Handling
  <1>3. IInv' /\ TypeOK'
    <2>1. Threads /\ phase' = "ended" => settled'
      OBVIOUS
    <2>2. UNCHANGED <<queueVars, owed>>
      OBVIOUS
    <2>3. \/ phase' = phase
          \/ phase \in {"idle", "running"} /\ phase' \in {"running", "ended"}
      BY <1>1
    <2>4. IInv'
      BY <1>2, <2>1, <2>2, <2>3, AddsHolds
    <2> QED BY <2>4 DEF IInv
  <1>4. OpTypeOK'
    BY <1>3 DEF OpTypeOK
  <1>5. timer = "none"
    BY DEF TimerIsCleared
  <1> QED BY <1>3, <1>4, <1>5 DEF SettledLast, ActivityFollows, ResultFollows,
          ShownFirst, TimerIsCleared, ShownIsRun

LEMMA ThrowHeld == ASSUME OpHeldInv, CallbackThrows PROVE OpHeldInv'
  <1> USE DEF OpHeldInv, OpHeld
  <1>1. /\ step \in {"previewing", "preparing", "mapping"} /\ step' = "over"
        /\ UNCHANGED <<http, pure, timed, shown, ran, timer, answer, result,
                       activity>>
    BY DEF CallbackThrows, configVars, runVars
  <1>2. TypeOK /\ phase = "running" /\ ~settled /\ settled \in BOOLEAN
    BY <1>1 DEF IInv, TypeOK, SettledLast
  <1>3. /\ Emit(<<"failed">>) /\ settled' = TRUE /\ phase' = "ended"
        /\ UNCHANGED <<handled, numbers, queueVars, owed>>
    BY <1>2 DEF CallbackThrows, Throws, Settle
  <1>4. Adds
    BY <1>2, <1>3, EmitOneAdds
  <1>5. Ended("failed")' /\ ~Ended("completed")'
    BY <1>2, <1>3, NothingEnded, OneEnds
  <1>6. activity' # "failed" /\ activity' \in {"none", "running", "succeeded"}
    BY <1>1 DEF ActivityFollows
  <1>7. ActivityTellsTheEnd' /\ FailureShowsAnswer'
    BY <1>5, <1>6 DEF ActivityTellsTheEnd, FailureShowsAnswer
  <1> QED BY <1>1, <1>3, <1>4, <1>6, <1>7, LastHeld

LEMMA FailureHeld == ASSUME OpHeldInv, ReportFailure PROVE OpHeldInv'
  <1> USE DEF OpHeldInv, OpHeld
  <1>1. /\ step = "reporting" /\ step' = "over" /\ ~result.ok
        /\ activity' = "failed" /\ phase' = "ended"
        /\ Emit(<<"event", "failed">>) /\ settled' = TRUE
        /\ UNCHANGED <<http, pure, timed, shown, ran, timer, answer, result>>
        /\ UNCHANGED <<handled, numbers, queueVars, owed>>
    BY DEF ReportFailure, Settle, configVars, runVars
  <1>2. TypeOK /\ ~settled
    BY <1>1 DEF IInv, SettledLast
  <1>3. Adds
    BY <1>1, <1>2, TwoAdd
  <1>4. Ended("failed")' /\ ~Ended("completed")'
    BY <1>1, <1>2, NothingEnded, TwoEnd
  <1>5. FailureShowsAnswer'
    BY <1>1 DEF FailureShowsAnswer, ResultFollows
  <1>6. ActivityTellsTheEnd'
    BY <1>4 DEF ActivityTellsTheEnd
  <1> QED BY <1>1, <1>3, <1>5, <1>6, LastHeld

LEMMA SuccessHeld ==
    ASSUME OpHeldInv, NEW artifact \in {"none", "made", "throws"},
           ReportSuccess(artifact)
    PROVE  OpHeldInv'
  <1> USE DEF OpHeldInv, OpHeld
  <1>1. /\ step = "reporting" /\ result.ok /\ activity' = "succeeded"
        /\ UNCHANGED <<http, pure, timed, shown, ran, timer, answer, result>>
        /\ UNCHANGED <<handled, numbers, queueVars, owed>>
    BY DEF ReportSuccess, configVars, runVars
  <1>2. TypeOK /\ phase = "running" /\ ~settled /\ settled \in BOOLEAN
        /\ answer = "accepted" /\ timer = "none" /\ shown \in Request
    BY <1>1 DEF IInv, TypeOK, SettledLast, ResultFollows, TimerIsCleared,
       ShownFirst
  <1>3. CASE artifact = "throws"
    <2>1. /\ Emit(<<"event", "failed">>) /\ settled' = TRUE
          /\ phase' = "ended" /\ step' = "over"
      BY <1>3 DEF ReportSuccess, Settle
    <2>2. Adds
      BY <1>2, <2>1, TwoAdd
    <2>3. ~Ended("completed")'
      BY <1>2, <2>1, NothingEnded, TwoEnd
    <2>4. ActivityTellsTheEnd' /\ FailureShowsAnswer'
      BY <1>1, <2>3 DEF ActivityTellsTheEnd, FailureShowsAnswer
    <2> QED BY <1>1, <2>1, <2>2, <2>4, LastHeld
  <1>4. CASE artifact # "throws"
    <2>1. step' = "mapping" /\ UNCHANGED <<phase, settled>>
      BY <1>4 DEF ReportSuccess
    <2>2. Emit(<<"event">>) \/ Emit(<<"event", "event">>)
      BY <1>4 DEF ReportSuccess
    <2>3. Adds
      <3>1. CASE Emit(<<"event">>)
        BY <1>2, <2>1, <3>1, EmitOneAdds
      <3>2. CASE Emit(<<"event", "event">>)
        BY <1>2, <2>1, <3>2, TwoAdd
      <3> QED BY <2>2, <3>1, <3>2
    <2>4. IInv' /\ TypeOK'
      BY <1>1, <1>2, <2>1, <2>3, SpeakHolds
    <2>5. OpTypeOK'
      BY <1>1, <2>1, <2>4 DEF OpTypeOK
    <2> QED BY <1>1, <1>2, <2>1, <2>4, <2>5 DEF SettledLast, ActivityFollows,
            ResultFollows, ShownFirst, TimerIsCleared, ActivityTellsTheEnd,
            FailureShowsAnswer, ShownIsRun
  <1> QED BY <1>3, <1>4

LEMMA MapHeld ==
    ASSUME OpHeldInv, NEW r \in Result, MapReturns(r) PROVE OpHeldInv'
  <1> USE DEF OpHeldInv, OpHeld
  <1>1. /\ step = "mapping" /\ step' = "over" /\ Returns(r)
        /\ activity = "succeeded" /\ answer = "accepted"
        /\ UNCHANGED <<http, pure, timed, shown, ran, timer, answer, result,
                       activity>>
    BY DEF MapReturns, configVars, runVars, ActivityFollows
  <1>2. ~settled /\ TypeOK
    BY <1>1 DEF SettledLast, IInv
  <1>3. /\ phase' = "ended"
        /\ UNCHANGED <<handled, numbers, queueVars, owed>>
        /\ settled' \/ ~Threads
    BY <1>1, <1>2 DEF Returns, Settle
  <1>4. Adds
    BY <1>1, HandlerEndsHolds DEF HandlerEnds
  <1>5. ActivityTellsTheEnd' /\ FailureShowsAnswer'
    BY <1>1 DEF ActivityTellsTheEnd, FailureShowsAnswer
  <1> QED BY <1>1, <1>3, <1>4, <1>5, LastHeld

-----------------------------------------------------------------------------
(* Theorems *)

LEMMA OpHeldStep == ASSUME OpHeldInv, [OpNext]_operationVars PROVE OpHeldInv'
  <1>1. CASE OpNext
    BY <1>1, RefuseHeld, AcceptHeld, ThrowHeld, PreviewHeld, PrepareHeld,
       FailureHeld, SuccessHeld, MapHeld, ExchangeHeld
       DEF OpNext, HandlerGoesOn
  <1>2. CASE UNCHANGED operationVars
    <2>1. UNCHANGED <<vars, http, pure, timed, step, shown, ran, timer, answer,
                      result, activity>>
      BY <1>2 DEF operationVars, opVars, configVars, runVars
    <2>2. IInv' /\ UNCHANGED <<phase, settled, emitted>>
      BY <2>1, NextHolds DEF OpHeldInv, vars
    <2>3. TypeOK'
      BY <2>2 DEF IInv
    <2> QED BY <2>1, <2>2, <2>3 DEF OpHeldInv, OpHeld, OpTypeOK, SettledLast,
            ActivityFollows, ResultFollows, ShownFirst, TimerIsCleared,
            ActivityTellsTheEnd, FailureShowsAnswer, ShownIsRun, Ended
  <1> QED BY <1>1, <1>2

LEMMA OpHeldAlways == OpSpec => []OpHeldInv
  BY OpHeldInit, OpHeldStep, PTL DEF OpSpec

\* Whichever callback throws and however the command or the server answers: a
\* call completes only after an accepted answer, a failed activity fails its
\* call, no failure is silent, a failed command's output is not lost, and no
\* timeout outlives its exchange.
THEOREM FailuresAreTold == OpSpec => []OpInv
  <1>1. ASSUME OpHeldInv PROVE OpInv
    <2>1. FailureIsTold
      BY <1>1, SettledEnded DEF OpHeldInv, OpHeld, SettledLast, FailureIsTold,
         Ended
    <2> QED BY <1>1, <2>1 DEF OpHeldInv, OpHeld, OpInv
  <1> QED BY <1>1, OpHeldAlways, PTL

\* What ran is what the host was shown when the callbacks are pure, and the
\* arguments of a command are those it was shown in any case.
THEOREM RunsWhatIsShown == OpSpec => []ShownIsRun
  <1>1. OpHeldInv => ShownIsRun
    BY DEF OpHeldInv
  <1> QED BY <1>1, OpHeldAlways, PTL

-----------------------------------------------------------------------------
(* A request over HTTP: the inductive invariant *)

\* The handler emits MaxMessages messages, and its end two more at most.
EmissionBound ==
    Len(emitted) <= IF settled THEN MaxMessages + 2 ELSE MaxMessages

\* Messages whose lines the response took.
LinesTaken ==
    IF write = "refused" THEN Len(delivered) - 1 ELSE Len(delivered)

\* The k-th piece after those of the first r lines, when n lines were written.
PlacedAfter(piece, k, r, n) ==
    /\ (piece[1] - r - 1) * Parts + piece[2] = k
    /\ piece[1] <= n

\* The k-th piece that the host has not yet taken for a message.
Placed(piece, k) == PlacedAfter(piece, k, Len(received), Len(delivered))

\* The pieces on their way are those of the lines after the last one the host
\* has, in their order.
PiecesInOrder ==
    /\ \A k \in 1..Len(buffer) : Placed(buffer[k], k)
    /\ \A k \in 1..Len(flight) : Placed(flight[k], Len(buffer) + k)
    /\ \A k \in 1..Len(out) : Placed(out[k], Len(buffer) + Len(flight) + k)

\* On a connection that holds, all pieces of the lines taken are on their way.
NoneMissing ==
    link = "up" => Len(buffer) + Len(flight) + Len(out)
                     = (LinesTaken - Len(received)) * Parts

\* A write is over when its line has left the response's buffer.
WritesInTurn ==
    /\ ~sinking => out = <<>>
    /\ link = "lost" => out = <<>>
    /\ write = "refused" => out = <<>> /\ (broken \/ sinking)
    /\ Len(out) <= Parts

\* The response and the call it carries.
ResponseFollows ==
    /\ (status = 0) <=> (response = "none")
    /\ response \in {"streaming", "destroyed"} => status = 200
    /\ phase # "idle" => status = 200
    /\ response = "ended" /\ status = 200 => phase = "resolved"
    /\ response = "destroyed" => link = "lost"
    /\ phase = "resolved" => LinesTaken >= owed

\* The host reads on only when no whole line is left in its buffer.
ReaderFollows ==
    /\ reader \notin {"fetching", "failed"} => status # 0
    /\ reader = "fetching" => buffer = <<>>
    /\ reader = "reading" => Len(buffer) < Parts
    /\ reader # "garbled"

StreamTypes ==
    /\ status \in {0, 200, 204} \cup RefusalStatus
    /\ response \in {"none", "streaming", "ended", "destroyed"}
    /\ out \in Seq(Piece)
    /\ write \in {"none", "flows", "stalls", "refused"}
    /\ flight \in Seq(Piece) /\ Len(flight) <= Window
    /\ link \in {"up", "lost"}
    /\ reader \in {"fetching", "reading", "flushing", "sinking",
                   "resolved", "refused", "failed", "threw", "garbled"}
    /\ buffer \in Seq(Piece)
    /\ received \in Seq(Message)

Held == /\ StreamTypes
        /\ PiecesInOrder
        /\ NoneMissing
        /\ WritesInTurn
        /\ ResponseFollows
        /\ ReaderFollows

HeldInv == IInv /\ EmissionBound /\ Held

HIDE OperationAssumption DEF InHandler
USE HttpAssumption DEF RefusalStatus

-----------------------------------------------------------------------------
(* Lines and pieces *)

LEMMA LineIsPieces ==
    ASSUME NEW m \in 1..MaxMessages + 2
    PROVE  /\ Line(m) \in Seq(Piece)
           /\ Len(Line(m)) = Parts
           /\ \A p \in 1..Parts : Line(m)[p] = <<m, p>>
  BY DEF Line, Piece

LEMMA PieceFields ==
    ASSUME NEW piece \in Piece
    PROVE  /\ piece[1] \in 1..MaxMessages + 2
           /\ piece[2] \in 1..Parts
           /\ piece = <<piece[1], piece[2]>>
  BY DEF Piece

LEMMA AtLeastOneLine ==
    ASSUME NEW x \in Int, x >= 1
    PROVE  x * Parts >= Parts
  <1>1. (x - 1) * Parts >= 0
    BY SMT
  <1>2. (x - 1) * Parts = x * Parts - Parts
    BY SMT
  <1>3. x * Parts \in Int
    BY SMT
  <1> QED BY <1>1, <1>2, <1>3

LEMMA AtMostNoLine ==
    ASSUME NEW x \in Int, x <= -1
    PROVE  x * Parts <= -Parts
  <1>1. (-x) * Parts >= Parts
    BY AtLeastOneLine
  <1>2. (-x) * Parts = -(x * Parts)
    BY SMT
  <1>3. x * Parts \in Int
    BY SMT
  <1> QED BY <1>1, <1>2, <1>3

LEMMA FirstLine ==
    ASSUME NEW x \in Int, NEW p \in 1..Parts, NEW k \in 1..Parts,
           x * Parts + p = k
    PROVE  x = 0 /\ p = k
  <1>1. x * Parts \in Int
    BY SMT
  <1>2. x < 1
    BY <1>1, AtLeastOneLine
  <1>3. x > -1
    BY <1>1, AtMostNoLine
  <1> QED BY <1>2, <1>3

LEMMA NoPartOfLine ==
    ASSUME NEW x \in Int, NEW n \in Nat, n < Parts, n = x * Parts
    PROVE  x = 0 /\ n = 0
  <1>1. x * Parts \in Int
    BY SMT
  <1>2. x < 1
    BY <1>1, AtLeastOneLine
  <1>3. x > -1
    BY <1>1, AtMostNoLine
  <1> QED BY <1>2, <1>3

LEMMA NextLine ==
    ASSUME NEW x \in Int
    PROVE  /\ x * Parts \in Int
           /\ (x + 1) * Parts = x * Parts + Parts
           /\ (x - 1) * Parts = x * Parts - Parts
  BY SMT

LEMMA OneLineLess ==
    ASSUME NEW x \in Int, NEW p \in Int, NEW k \in Int,
           x * Parts + p = k + Parts
    PROVE  (x - 1) * Parts + p = k
  <1> DEFINE y == x * Parts
  <1>1. y \in Int /\ (x - 1) * Parts = y - Parts /\ Parts \in Int
    BY NextLine
  <1>2. y + p = k + Parts
    OBVIOUS
  <1> HIDE DEF y
  <1>3. (y - Parts) + p = k
    BY <1>1, <1>2
  <1> QED BY <1>1, <1>3

-----------------------------------------------------------------------------
(* The call of the runtime *)

LEMMA EmitGrows ==
    ASSUME TypeOK, NEW kinds \in Seq(Kind), Emit(kinds)
    PROVE  Len(emitted') = Len(emitted) + Len(kinds)
  <1> DEFINE more == Plain(kinds)
  <1>1. more \in Seq(Message) /\ Len(more) = Len(kinds)
    BY PlainIsMessage
  <1>2. emitted \in Seq(Message) /\ emitted' = emitted \o more
    BY DEF TypeOK, Emit
  <1> HIDE DEF more
  <1>3. Len(emitted \o more) = Len(emitted) + Len(more)
    BY <1>1, <1>2, ConcatProperties
  <1> QED BY <1>1, <1>2, <1>3

LEMMA EmitOneGrows ==
    ASSUME TypeOK, NEW kind \in Kind, Emit(<<kind>>)
    PROVE  Len(emitted') = Len(emitted) + 1
  <1> DEFINE kinds == <<kind>>
  <1>1. kinds \in Seq(Kind) /\ Len(kinds) = 1 /\ Emit(kinds)
    OBVIOUS
  <1> HIDE DEF kinds
  <1> QED BY <1>1, EmitGrows

LEMMA EmitTwoGrows ==
    ASSUME TypeOK, NEW first \in Kind, NEW last \in Kind, Emit(<<first, last>>)
    PROVE  Len(emitted') = Len(emitted) + 2
  <1> DEFINE kinds == <<first, last>>
  <1>1. kinds \in Seq(Kind) /\ Len(kinds) = 2 /\ Emit(kinds)
    OBVIOUS
  <1> HIDE DEF kinds
  <1> QED BY <1>1, EmitGrows

LEMMA BoundHolds ==
    ASSUME IInv, EmissionBound, [Next]_vars
    PROVE  EmissionBound'
  <1> DEFINE Quiet == UNCHANGED <<settled, emitted>>
             Roomy == Room /\ Len(emitted') = Len(emitted) + 1
             Closing == /\ ~settled /\ settled'
                        /\ Len(emitted') \in {Len(emitted) + 1, Len(emitted) + 2}
  <1>1. TypeOK /\ Len(emitted) \in Nat /\ settled \in BOOLEAN
    BY DEF IInv, TypeOK
  <1>2. settled' \in BOOLEAN /\ Len(emitted') \in Nat
    BY NextHolds DEF IInv, TypeOK
  <1>3. Quiet \/ Roomy \/ Closing
    <2>1. CASE Refuse
      BY <1>1, <2>1, EmitOneGrows DEF Refuse, Settle, IInv, Handling
    <2>2. ASSUME NEW valid \in BOOLEAN, Output(valid)
          PROVE  Roomy
      <3>1. Emit(<<"output">>) \/ Emit(<<"failed">>)
        BY <2>2 DEF Output, Settle
      <3> QED BY <1>1, <2>2, <3>1, EmitOneGrows DEF Output
    <2>3. ASSUME NEW s \in Stream, Delta(s)
          PROVE  Quiet \/ Roomy
      <3>1. CASE settled
        BY <2>3, <3>1 DEF Delta
      <3>2. CASE ~settled
        <4> DEFINE x == [kind |-> "delta", stream |-> s,
                         number |-> numbers[s] + 1]
        <4>1. x \in Message
          BY <1>1 DEF Message, TypeOK
        <4>2. emitted' = Append(emitted, x) /\ Room
          BY <2>3, <3>2 DEF Delta
        <4> HIDE DEF x
        <4> QED BY <1>1, <4>1, <4>2, AppendProperties DEF TypeOK
      <3> QED BY <3>1, <3>2
    <2>4. CASE Report
      BY <1>1, <2>4, EmitOneGrows DEF Report
    <2>5. ASSUME NEW kind \in Terminal, SettleBy(kind)
          PROVE  Closing
      BY <1>1, <2>5, EmitOneGrows DEF SettleBy, Settle
    <2>6. CASE Throws
      BY <1>1, <2>6, EmitOneGrows DEF Throws, Settle
    <2>7. ASSUME NEW outcome \in Result, Returns(outcome)
          PROVE  Quiet \/ Closing
      <3>1. \/ Quiet
            \/ /\ ~settled /\ settled' = TRUE
               /\ \/ Emit(<<"completed">>) \/ Emit(<<"failed">>)
                  \/ Emit(<<"output", "completed">>)
        BY <2>7 DEF Returns, Settle
      <3> QED BY <1>1, <3>1, EmitOneGrows, EmitTwoGrows
    <2>8. CASE Accept \/ ChainStep \/ SinkSettles \/ UNCHANGED vars
      BY <2>8 DEF Accept, ChainStep, SinkCalled, Skipped, Drain, DrainEnds,
         SinkSettles, SinkEnds, vars
    <2> QED BY <2>1, <2>2, <2>3, <2>4, <2>5, <2>6, <2>7, <2>8
            DEF Next, ContextCall, HandlerEnds
  <1> QED BY <1>1, <1>2, <1>3 DEF EmissionBound, Room

LEMMA CallSteps ==
    ASSUME [HttpNext]_httpVars
    PROVE  [Next]_vars
  <1>1. CASE HttpNext
    BY <1>1 DEF HttpNext, Answer, TurnAway, Preflight, SendHeaders, Begin,
       InCall, ChainGoesOn, Write, WriteEnds, Written, WriteFails,
       CloseResponse, EndResponse, DestroyResponse, Transmit, Lose, HostReads,
       FetchEnds, Chunk, FlushLine, FlushEnds, StreamDone, ReadFails,
       HostSinkEnds, Next, ChainStep, SinkSettles
  <1>2. CASE UNCHANGED httpVars
    BY <1>2 DEF httpVars
  <1> QED BY <1>1, <1>2

\* A request's call is a call of the runtime.
THEOREM RequestRunsCall == HttpSpec => Spec
  <1>1. HttpInit => Init
    BY DEF HttpInit
  <1> QED BY <1>1, CallSteps, PTL DEF HttpSpec, Spec

-----------------------------------------------------------------------------
(* The server and its writes *)

LEMMA HeldInit == HttpInit => HeldInv
  <1> SUFFICES ASSUME HttpInit PROVE HeldInv
    OBVIOUS
  <1>1. IInv
    BY InitHolds DEF HttpInit
  <1>2. /\ emitted = <<>> /\ delivered = <<>> /\ received = <<>>
        /\ buffer = <<>> /\ flight = <<>> /\ out = <<>>
    BY DEF HttpInit, Init
  <1>3. /\ Len(emitted) = 0 /\ Len(delivered) = 0 /\ Len(received) = 0
        /\ Len(buffer) = 0 /\ Len(flight) = 0 /\ Len(out) = 0
    BY <1>2
  <1>4. EmissionBound
    BY <1>3 DEF EmissionBound
  <1>5. StreamTypes
    BY <1>2, <1>3 DEF HttpInit, StreamTypes
  <1>6. NoneMissing
    <2>1. (Len(delivered) - Len(received)) * Parts = 0
      BY <1>3
    <2> QED BY <1>3, <2>1 DEF HttpInit, NoneMissing, LinesTaken
  <1>7. PiecesInOrder
    BY <1>3 DEF PiecesInOrder
  <1> QED BY <1>1, <1>2, <1>3, <1>4, <1>5, <1>6, <1>7 DEF HttpInit, Init,
          HeldInv, Held, WritesInTurn, ResponseFollows, ReaderFollows

LEMMA AnswerHeld == ASSUME Held, Answer PROVE Held'
  <1> USE DEF Held
  <1>1. /\ status = 0
        /\ status' \in {200, 204} \cup RefusalStatus
        /\ response' \in {"streaming", "ended"}
        /\ response' = "streaming" <=> status' = 200
        /\ UNCHANGED <<vars, out, write, flight, link, reader, buffer, received>>
    BY DEF Answer, TurnAway, Preflight, SendHeaders, hostVars
  <1>2. /\ UNCHANGED <<phase, taken, sinking, broken, delivered, owed>>
        /\ UNCHANGED <<out, write, flight, link, reader, buffer, received>>
    BY <1>1 DEF vars
  <1>3. StreamTypes'
    BY <1>1, <1>2 DEF StreamTypes
  <1>4. PiecesInOrder' /\ NoneMissing' /\ WritesInTurn' /\ ReaderFollows'
    BY <1>1, <1>2 DEF PiecesInOrder, Placed, NoneMissing, LinesTaken,
       WritesInTurn, ReaderFollows
  <1>5. ResponseFollows'
    BY <1>1, <1>2 DEF ResponseFollows, LinesTaken
  <1> QED BY <1>3, <1>4, <1>5

\* What the call does besides its writes.
LEMMA CallHeld ==
    ASSUME HeldInv,
           \/ Begin \/ InCall(ContextCall) \/ InCall(HandlerEnds)
           \/ InCall(Skipped \/ Drain \/ DrainEnds)
    PROVE  Held'
  <1> USE DEF HeldInv, Held
  <1>1. UNCHANGED <<status, response, out, write, flight, link, reader, buffer,
                    received>>
    BY DEF Begin, InCall, serverVars, hostVars
  <1>2. UNCHANGED <<sinking, broken, delivered>>
    BY DEF Begin, InCall, Refuse, Accept, ContextCall, Output, Delta, Report,
       SettleBy, HandlerEnds, Throws, Returns, Skipped, Drain, DrainEnds
  <1>3. StreamTypes' /\ NoneMissing' /\ WritesInTurn' /\ ReaderFollows'
    BY <1>1, <1>2 DEF StreamTypes, NoneMissing, LinesTaken, WritesInTurn,
       ReaderFollows
  <1>8. PiecesInOrder'
    BY <1>1, <1>2 DEF PiecesInOrder, Placed
  <1>4. phase' # "idle" => status = 200
    BY DEF Begin, InCall, ContextCall, Output, Delta, Report, SettleBy,
       HandlerEnds, Throws, Returns, Skipped, Drain, DrainEnds,
       ResponseFollows
  <1>5. phase = "resolved" => UNCHANGED <<phase, owed>>
    BY DEF Begin, InCall, Refuse, Accept, ContextCall, Output, Delta, Report,
       SettleBy, HandlerEnds, Throws, Returns, Skipped, Drain, DrainEnds
  <1>6. phase' = "resolved" => LinesTaken >= owed'
    <2>1. CASE phase = "resolved"
      BY <1>5, <2>1 DEF ResponseFollows
    <2>2. CASE phase # "resolved"
      <3>1. ASSUME phase' = "resolved"
            PROVE  DrainEnds /\ ~broken
        BY <2>2, <3>1 DEF Begin, InCall, Refuse, Accept, ContextCall, Output,
           Delta, Report, SettleBy, HandlerEnds, Throws, Returns, Skipped,
           Drain, DrainEnds
      <3>2. ASSUME DrainEnds, ~broken
            PROVE  LinesTaken >= owed'
        <4>1. /\ taken = owed /\ owed' = owed /\ owed \in Nat
              /\ Len(delivered) = taken + (IF sinking THEN 1 ELSE 0)
          BY <3>2 DEF DrainEnds, IInv, TypeOK, QueueInv, DeliveredInOrder
        <4>2. write = "refused" => sinking
          BY <3>2 DEF WritesInTurn
        <4> QED BY <4>1, <4>2 DEF LinesTaken
      <3> QED BY <3>1, <3>2
    <2> QED BY <2>1, <2>2
  <1>7. ResponseFollows'
    BY <1>1, <1>2, <1>4, <1>5, <1>6 DEF ResponseFollows, LinesTaken
  <1> QED BY <1>3, <1>7, <1>8

LEMMA WriteHeld == ASSUME HeldInv, Write PROVE Held'
  <1> USE DEF HeldInv, Held
  <1> DEFINE n == Len(delivered)
             b == Len(buffer)
             f == Len(flight)
             r == Len(received)
  <1>1. /\ SinkCalled /\ ~sinking /\ sinking' = TRUE /\ ~broken
        /\ n = taken /\ taken < Len(emitted)
        /\ UNCHANGED <<phase, settled, emitted, broken, owed>>
        /\ delivered' = Append(delivered, emitted[taken + 1])
    BY DEF Write, SinkCalled, Reached, IInv, QueueInv, DeliveredInOrder, TypeOK
  <1>2. UNCHANGED <<status, response, flight, link, reader, buffer, received>>
    BY DEF Write, hostVars
  <1>3. /\ n \in Nat /\ b \in Nat /\ f \in Nat /\ r \in Nat
        /\ Len(delivered') = n + 1
        /\ n + 1 \in 1..MaxMessages + 2
    <2>1. n \in Nat /\ b \in Nat /\ f \in Nat /\ r \in Nat
      BY DEF IInv, TypeOK, StreamTypes
    <2>2. Len(delivered') = n + 1
      BY <1>1, AppendProperties DEF IInv, TypeOK
    <2>3. Len(emitted) \in Nat /\ Len(emitted) <= MaxMessages + 2
      BY DEF EmissionBound, IInv, TypeOK
    <2> QED BY <1>1, <2>1, <2>2, <2>3
  <1>4. out = <<>> /\ write # "refused"
    BY <1>1 DEF WritesInTurn
  <1>5. ReaderFollows'
    BY <1>2 DEF ReaderFollows
  <1>6. /\ \A k \in 1..b : PlacedAfter(buffer[k], k, r, n + 1)
        /\ \A k \in 1..f : PlacedAfter(flight[k], b + k, r, n + 1)
    <2>1. ASSUME NEW piece \in Piece, NEW k, PlacedAfter(piece, k, r, n)
          PROVE  PlacedAfter(piece, k, r, n + 1)
      BY <1>3, <2>1, PieceFields DEF PlacedAfter
    <2>2. /\ \A k \in 1..b : buffer[k] \in Piece
          /\ \A k \in 1..f : flight[k] \in Piece
      BY DEF StreamTypes
    <2> QED BY <2>1, <2>2 DEF PiecesInOrder, Placed
  <1>7. CASE Writable
    <2>1. /\ out' = Line(n + 1) /\ write' \in {"flows", "stalls"}
          /\ link = "up" /\ response = "streaming"
      <3>1. out' = out \o Line(Len(delivered'))
        BY <1>7 DEF Write
      <3>2. <<>> \o Line(n + 1) = Line(n + 1)
        BY <1>3, LineIsPieces
      <3> QED BY <1>3, <1>4, <1>7, <3>1, <3>2 DEF Write, Writable
    <2>2. /\ out' \in Seq(Piece) /\ Len(out') = Parts
          /\ \A p \in 1..Parts : out'[p] = <<n + 1, p>>
      BY <1>3, <2>1, LineIsPieces
    <2>3. StreamTypes'
      BY <1>2, <2>1, <2>2 DEF StreamTypes
    <2>4. b + f = (n - r) * Parts /\ LinesTaken' = n + 1
      BY <1>3, <1>4, <2>1 DEF NoneMissing, LinesTaken
    <2>5. ASSUME NEW p \in 1..Parts
          PROVE  PlacedAfter(out'[p], b + f + p, r, n + 1)
      <3>1. out'[p] = <<n + 1, p>> /\ (n + 1) - r - 1 = n - r
        BY <1>3, <2>2
      <3>2. ((n + 1) - r - 1) * Parts + p = b + f + p
        BY <2>4, <3>1
      <3> QED BY <1>3, <3>1, <3>2 DEF PlacedAfter
    <2>6. PiecesInOrder'
      BY <1>2, <1>3, <1>6, <2>2, <2>5 DEF PiecesInOrder, Placed
    <2>7. NoneMissing'
      <3>1. ((n + 1) - r) * Parts = (n - r) * Parts + Parts
        <4>1. (n + 1) - r = (n - r) + 1 /\ n - r \in Int
          BY <1>3
        <4> QED BY <4>1, NextLine
      <3> QED BY <1>2, <1>3, <2>2, <2>4, <3>1 DEF NoneMissing
    <2>8. WritesInTurn' /\ ResponseFollows'
      BY <1>1, <1>2, <1>3, <1>4, <2>1, <2>2, <2>4 DEF WritesInTurn,
         ResponseFollows, LinesTaken, IInv, TypeOK
    <2> QED BY <1>5, <2>3, <2>6, <2>7, <2>8
  <1>8. CASE ~Writable
    <2>1. write' = "refused" /\ UNCHANGED out
      BY <1>8 DEF Write
    <2>2. LinesTaken = n /\ LinesTaken' = n
      BY <1>3, <1>4, <2>1 DEF LinesTaken
    <2>3. StreamTypes' /\ NoneMissing' /\ WritesInTurn' /\ ResponseFollows'
      BY <1>1, <1>2, <1>4, <2>1, <2>2 DEF StreamTypes, NoneMissing,
         WritesInTurn, ResponseFollows
    <2>4. Len(out) = 0
      BY <1>4
    <2>5. PiecesInOrder'
      BY <1>2, <1>3, <1>6, <2>1, <2>4 DEF PiecesInOrder, Placed
    <2> QED BY <1>5, <2>3, <2>5
  <1> QED BY <1>7, <1>8

LEMMA WriteEndsHeld == ASSUME HeldInv, WriteEnds PROVE Held'
  <1> USE DEF HeldInv, Held
  <1>1. /\ sinking /\ ~sinking' /\ UNCHANGED <<phase, delivered, owed>>
        /\ UNCHANGED <<status, response, out, write, flight, link, reader,
                       buffer, received>>
    BY DEF WriteEnds, Written, WriteFails, SinkEnds, serverVars, hostVars
  <1>2. out = <<>>
    BY DEF WriteEnds, Written, WriteFails, Flows, WritesInTurn, StreamTypes
  <1>3. write = "refused" => broken'
    BY DEF WriteEnds, Written, WriteFails, Flows, SinkEnds
  <1>4. WritesInTurn'
    BY <1>1, <1>2, <1>3 DEF WritesInTurn
  <1> QED BY <1>1, <1>4 DEF StreamTypes, PiecesInOrder, Placed, NoneMissing,
          LinesTaken, ResponseFollows, ReaderFollows

LEMMA CloseHeld == ASSUME HeldInv, CloseResponse PROVE Held'
  <1> USE DEF HeldInv, Held
  <1>1. UNCHANGED <<phase, sinking, broken, delivered, owed>>
        /\ UNCHANGED <<status, write, flight, reader, buffer, received>>
    BY DEF CloseResponse, EndResponse, DestroyResponse, vars, hostVars
  <1>2. CASE EndResponse
    <2>1. /\ phase = "resolved" /\ response = "streaming" /\ response' = "ended"
          /\ UNCHANGED <<out, link>>
      BY <1>2 DEF EndResponse
    <2> QED BY <1>1, <2>1 DEF StreamTypes, PiecesInOrder, Placed, NoneMissing,
            LinesTaken, WritesInTurn, ResponseFollows, ReaderFollows
  <1>3. CASE DestroyResponse
    <2>1. /\ response = "streaming" /\ response' = "destroyed"
          /\ link' = "lost" /\ out' = <<>>
      BY <1>3 DEF DestroyResponse
    <2>2. Len(out') = 0 /\ out' \in Seq(Piece)
      BY <2>1
    <2> QED BY <1>1, <2>1, <2>2 DEF StreamTypes, PiecesInOrder, Placed,
            NoneMissing, LinesTaken, WritesInTurn, ResponseFollows,
            ReaderFollows
  <1> QED BY <1>2, <1>3 DEF CloseResponse

-----------------------------------------------------------------------------
(* The connection *)

LEMMA TransmitHeld == ASSUME HeldInv, Transmit PROVE Held'
  <1> USE DEF HeldInv, Held
  <1> DEFINE b == Len(buffer)
             f == Len(flight)
             o == Len(out)
  <1>1. /\ link = "up" /\ out # <<>> /\ f < Window
        /\ out' = Tail(out) /\ flight' = Append(flight, Head(out))
        /\ UNCHANGED <<phase, sinking, broken, delivered, owed>>
        /\ UNCHANGED <<status, response, write, link, reader, buffer, received>>
    BY DEF Transmit, vars, hostVars
  <1>2. b \in Nat /\ f \in Nat /\ o \in Nat /\ o > 0
        /\ out \in Seq(Piece) /\ flight \in Seq(Piece)
    BY <1>1 DEF StreamTypes
  <1>3. /\ out' \in Seq(Piece) /\ Len(out') = o - 1
        /\ \A k \in 1..o - 1 : out'[k] = out[k + 1]
        /\ Head(out) = out[1] /\ out[1] \in Piece
    BY <1>1, <1>2
  <1>4. /\ flight' \in Seq(Piece) /\ Len(flight') = f + 1
        /\ \A k \in 1..f : flight'[k] = flight[k]
        /\ flight'[f + 1] = out[1]
    BY <1>1, <1>2, <1>3, AppendProperties
  <1>5. StreamTypes'
    BY <1>1, <1>2, <1>3, <1>4 DEF StreamTypes
  <1>6. PiecesInOrder'
    <2>1. ASSUME NEW k \in 1..f + 1 PROVE Placed(flight'[k], b + k)
      <3>1. CASE k \in 1..f
        BY <1>4, <3>1 DEF PiecesInOrder
      <3>2. CASE k \notin 1..f
        <4>1. k = f + 1 /\ 1 \in 1..o /\ b + k = b + f + 1
          BY <1>2, <3>2
        <4> QED BY <1>4, <4>1 DEF PiecesInOrder
      <3> QED BY <3>1, <3>2
    <2>2. ASSUME NEW k \in 1..o - 1 PROVE Placed(out'[k], b + (f + 1) + k)
      <3>1. k + 1 \in 1..o /\ b + (f + 1) + k = b + f + (k + 1)
        BY <1>2
      <3>2. Placed(out[k + 1], b + f + (k + 1))
        BY <3>1 DEF PiecesInOrder
      <3> QED BY <1>3, <3>1, <3>2
    <2> QED BY <1>1, <1>3, <1>4, <2>1, <2>2 DEF PiecesInOrder, Placed
  <1>7. NoneMissing'
    <2>1. Len(buffer') + Len(flight') + Len(out') = b + f + o
      BY <1>1, <1>2, <1>3, <1>4
    <2>2. LinesTaken' = LinesTaken /\ UNCHANGED <<link, received>>
      BY <1>1 DEF LinesTaken
    <2> QED BY <2>1, <2>2 DEF NoneMissing
  <1>8. WritesInTurn' /\ ResponseFollows' /\ ReaderFollows'
    BY <1>1, <1>2, <1>3 DEF WritesInTurn, ResponseFollows, ReaderFollows,
       LinesTaken
  <1> QED BY <1>5, <1>6, <1>7, <1>8

LEMMA LoseHeld == ASSUME HeldInv, Lose PROVE Held'
  <1> USE DEF HeldInv, Held
  <1>1. /\ link' = "lost" /\ out' = <<>>
        /\ UNCHANGED <<phase, sinking, broken, delivered, owed>>
        /\ UNCHANGED <<status, response, write, flight, reader, buffer,
                       received>>
    BY DEF Lose, vars, hostVars
  <1>2. Len(out') = 0 /\ out' \in Seq(Piece)
    BY <1>1
  <1>3. StreamTypes' /\ PiecesInOrder' /\ NoneMissing'
    BY <1>1, <1>2 DEF StreamTypes, PiecesInOrder, Placed, NoneMissing
  <1>4. WritesInTurn' /\ ResponseFollows' /\ ReaderFollows'
    BY <1>1, <1>2 DEF WritesInTurn, ResponseFollows, ReaderFollows, LinesTaken
  <1> QED BY <1>3, <1>4

-----------------------------------------------------------------------------
(* The host *)

\* The host's buffer begins with the first piece of the line after those it
\* took.
LEMMA BufferStart ==
    ASSUME HeldInv, NEW k \in 1..Len(buffer), k \in 1..Parts
    PROVE  buffer[k] = <<Len(received) + 1, k>>
  <1> DEFINE piece == buffer[k]
             x == piece[1] - Len(received) - 1
  <1>1. Placed(piece, k) /\ piece \in Piece /\ Len(received) \in Nat
    BY DEF HeldInv, Held, StreamTypes, PiecesInOrder
  <1>2. /\ x \in Int /\ piece[1] \in Int /\ piece[2] \in 1..Parts
        /\ piece = <<piece[1], piece[2]>>
        /\ x * Parts + piece[2] = k
    BY <1>1, PieceFields DEF Placed, PlacedAfter
  <1>3. x = 0 => piece[1] = Len(received) + 1
    <2>1. piece[1] \in Int /\ Len(received) \in Int
      BY <1>1, <1>2
    <2> QED BY <2>1
  <1> HIDE DEF x, piece
  <1>4. x = 0 /\ piece[2] = k
    BY <1>2, FirstLine
  <1> QED BY <1>2, <1>3, <1>4 DEF piece

\* The host goes on with what it has.
LEMMA ReaderHeld ==
    ASSUME HeldInv,
           FetchEnds \/ FlushEnds \/ ReadFails
             \/ \E threw \in BOOLEAN : HostSinkEnds(threw)
    PROVE  Held'
  <1> USE DEF HeldInv, Held
  <1>1. /\ UNCHANGED <<phase, sinking, broken, delivered, owed>>
        /\ UNCHANGED <<status, response, out, write, flight, link, buffer,
                       received>>
    BY DEF FetchEnds, FlushEnds, ReadFails, HostSinkEnds, vars, serverVars
  <1>2. /\ reader' \in {"reading", "refused", "flushing", "threw", "failed"}
        /\ reader' # "failed" => status # 0
    BY DEF FetchEnds, FlushEnds, ReadFails, HostSinkEnds, ReaderFollows
  <1>3. Len(buffer) \in Nat /\ DOMAIN buffer = 1..Len(buffer)
        /\ buffer \in Seq(Piece)
    BY DEF StreamTypes
  <1>4. reader' = "reading" => Len(buffer) < Parts
    <2>1. CASE FetchEnds
      BY <2>1 DEF FetchEnds, ReaderFollows
    <2>2. CASE FlushEnds
      <3>1. ASSUME Len(buffer) >= Parts PROVE FALSE
        <4>1. Parts \in 1..Len(buffer) /\ Parts \in 1..Parts
          BY <1>3, <3>1
        <4>2. buffer[Parts] = <<Len(received) + 1, Parts>>
          BY <4>1, BufferStart
        <4> QED BY <1>3, <2>2, <4>1, <4>2 DEF FlushEnds, Newline
      <3> QED BY <1>3, <3>1
    <2>3. CASE ReadFails \/ \E threw \in BOOLEAN : HostSinkEnds(threw)
      BY <2>3 DEF ReadFails, HostSinkEnds
    <2> QED BY <2>1, <2>2, <2>3
  <1>5. StreamTypes' /\ PiecesInOrder' /\ NoneMissing'
    BY <1>1, <1>2 DEF StreamTypes, PiecesInOrder, Placed, NoneMissing,
       LinesTaken
  <1>6. WritesInTurn' /\ ResponseFollows' /\ ReaderFollows'
    BY <1>1, <1>2, <1>4 DEF WritesInTurn, ResponseFollows, ReaderFollows,
       LinesTaken
  <1> QED BY <1>5, <1>6

LEMMA ChunkHeld ==
    ASSUME HeldInv, NEW n \in 1..Window, Chunk(n) PROVE Held'
  <1> USE DEF HeldInv, Held
  <1> DEFINE b == Len(buffer)
             f == Len(flight)
             o == Len(out)
             chunk == SubSeq(flight, 1, n)
             rest == SubSeq(flight, n + 1, f)
  <1>1. /\ reader = "reading" /\ n \in 1..f /\ reader' = "flushing"
        /\ buffer' = buffer \o chunk /\ flight' = rest
        /\ UNCHANGED <<phase, sinking, broken, delivered, owed>>
        /\ UNCHANGED <<status, response, out, write, link, received>>
    BY DEF Chunk, vars, serverVars
  <1>2. b \in Nat /\ f \in Nat /\ o \in Nat
        /\ buffer \in Seq(Piece) /\ flight \in Seq(Piece) /\ f <= Window
    BY DEF StreamTypes
  <1>3. /\ chunk \in Seq(Piece) /\ Len(chunk) = n
        /\ \A k \in 1..n : chunk[k] = flight[k]
    BY <1>1, <1>2
  <1>4. /\ rest \in Seq(Piece) /\ Len(rest) = f - n
        /\ \A k \in 1..f - n : rest[k] = flight[n + k]
    BY <1>1, <1>2
  <1> HIDE DEF chunk, rest
  <1>5. /\ buffer' \in Seq(Piece) /\ Len(buffer') = b + n
        /\ \A k \in 1..b : buffer'[k] = buffer[k]
        /\ \A k \in b+1..b+n : buffer'[k] = flight[k - b]
    <2>1. /\ buffer \o chunk \in Seq(Piece)
          /\ Len(buffer \o chunk) = b + n
          /\ \A k \in 1..b + n : (buffer \o chunk)[k]
               = IF k <= b THEN buffer[k] ELSE chunk[k - b]
      BY <1>2, <1>3, ConcatProperties
    <2>2. ASSUME NEW k \in b+1..b+n
          PROVE  k - b \in 1..n /\ k \in 1..b + n /\ ~(k <= b)
      BY <1>1, <1>2
    <2>3. \A k \in 1..b : k \in 1..b + n /\ k <= b
      BY <1>1, <1>2
    <2> QED BY <1>1, <1>3, <2>1, <2>2, <2>3
  <1>6. StreamTypes'
    BY <1>1, <1>2, <1>4, <1>5 DEF StreamTypes
  <1>7. PiecesInOrder'
    <2>1. ASSUME NEW k \in 1..b + n PROVE Placed(buffer'[k], k)
      <3>1. CASE k <= b
        BY <1>2, <1>5, <3>1 DEF PiecesInOrder
      <3>2. CASE k > b
        <4>1. k \in b+1..b+n /\ k - b \in 1..f /\ b + (k - b) = k
          BY <1>1, <1>2, <3>2
        <4>2. Placed(flight[k - b], b + (k - b))
          BY <4>1 DEF PiecesInOrder
        <4> QED BY <1>5, <4>1, <4>2
      <3>3. k <= b \/ k > b
        BY <1>1, <1>2
      <3> QED BY <3>1, <3>2, <3>3
    <2>2. ASSUME NEW k \in 1..f - n PROVE Placed(flight'[k], b + n + k)
      <3>1. n + k \in 1..f /\ b + (n + k) = b + n + k
        BY <1>1, <1>2
      <3>2. Placed(flight[n + k], b + (n + k))
        BY <3>1 DEF PiecesInOrder
      <3> QED BY <1>1, <1>4, <3>1, <3>2
    <2>3. ASSUME NEW k \in 1..o PROVE Placed(out[k], b + n + (f - n) + k)
      <3>1. b + n + (f - n) + k = b + f + k
        BY <1>1, <1>2
      <3> QED BY <3>1 DEF PiecesInOrder
    <2> QED BY <1>1, <1>4, <1>5, <2>1, <2>2, <2>3 DEF PiecesInOrder, Placed
  <1>8. NoneMissing'
    <2>1. Len(buffer') + Len(flight') + Len(out') = b + f + o
      BY <1>1, <1>2, <1>4, <1>5
    <2>2. LinesTaken' = LinesTaken /\ UNCHANGED <<link, received>>
      BY <1>1 DEF LinesTaken
    <2> QED BY <2>1, <2>2 DEF NoneMissing
  <1>9. WritesInTurn' /\ ResponseFollows' /\ ReaderFollows'
    BY <1>1 DEF WritesInTurn, ResponseFollows, ReaderFollows, LinesTaken
  <1> QED BY <1>6, <1>7, <1>8, <1>9

\* The first newline in the host's buffer is that of the next line.
LEMMA NewlineEndsLine ==
    ASSUME HeldInv, \E k \in DOMAIN buffer : Newline(buffer[k])
    PROVE  /\ Parts <= Len(buffer)
           /\ FirstNewline = Parts
  <1>1. /\ Len(buffer) \in Nat /\ DOMAIN buffer = 1..Len(buffer)
        /\ Parts \in Nat /\ Parts >= 2
    BY DEF HeldInv, Held, StreamTypes
  <1>2. ASSUME NEW k \in 1..Len(buffer), k < Parts
        PROVE  ~Newline(buffer[k])
    <2>1. k \in 1..Parts
      BY <1>1, <1>2
    <2>2. buffer[k] = <<Len(received) + 1, k>>
      BY <2>1, BufferStart
    <2> QED BY <1>1, <1>2, <2>2 DEF Newline
  <1>3. Parts <= Len(buffer)
    <2>1. PICK k \in 1..Len(buffer) : Newline(buffer[k])
      BY <1>1
    <2> QED BY <1>1, <1>2, <2>1
  <1>4. Parts \in DOMAIN buffer /\ Newline(buffer[Parts])
    <2>1. Parts \in 1..Len(buffer) /\ Parts \in 1..Parts
      BY <1>1, <1>3
    <2>2. buffer[Parts] = <<Len(received) + 1, Parts>>
      BY <2>1, BufferStart
    <2> QED BY <1>1, <2>1, <2>2 DEF Newline
  <1> DEFINE IsFirst(k) == /\ Newline(buffer[k])
                           /\ \A j \in 1..(k - 1) : ~Newline(buffer[j])
  <1>5. IsFirst(Parts)
    <2>1. ASSUME NEW j \in 1..(Parts - 1) PROVE ~Newline(buffer[j])
      <3>1. j \in 1..Len(buffer) /\ j < Parts
        BY <1>1, <1>3
      <3> QED BY <1>2, <3>1
    <2> QED BY <1>4, <2>1
  <1>6. ASSUME NEW k \in DOMAIN buffer, IsFirst(k)
        PROVE  k = Parts
    <2>1. k \in 1..Len(buffer) /\ k >= Parts
      BY <1>1, <1>2, <1>6
    <2>2. k > Parts => Parts \in 1..(k - 1)
      BY <1>1, <2>1
    <2> QED BY <1>1, <1>4, <1>6, <2>1, <2>2
  <1>7. FirstNewline = CHOOSE k \in DOMAIN buffer : IsFirst(k)
    BY DEF FirstNewline
  <1> HIDE DEF IsFirst
  <1> QED BY <1>3, <1>4, <1>5, <1>6, <1>7

\* The text before that newline is the next message, and no other.
LEMMA TextIsNext ==
    ASSUME HeldInv, Parts <= Len(buffer)
    PROVE  /\ Len(received) + 1 \in 1..Len(emitted)
           /\ \A m \in 1..Len(emitted) :
                SubSeq(buffer, 1, Parts - 1) = SubSeq(Line(m), 1, Parts - 1)
                  <=> m = Len(received) + 1
  <1> USE DEF HeldInv, Held
  <1> DEFINE r == Len(received)
             text == SubSeq(buffer, 1, Parts - 1)
  <1>1. /\ r \in Nat /\ buffer \in Seq(Piece) /\ Len(buffer) \in Nat
        /\ Len(emitted) \in Nat /\ Len(emitted) <= MaxMessages + 2
        /\ Len(delivered) \in Nat /\ Len(delivered) <= Len(emitted)
        /\ Parts - 1 \in Nat /\ 1 \in 1..Parts - 1
    BY DEF StreamTypes, IInv, TypeOK, EmissionBound, QueueInv,
       DeliveredInOrder
  <1>2. /\ text \in Seq(Piece) /\ Len(text) = Parts - 1
        /\ \A p \in 1..Parts - 1 : text[p] = buffer[p]
    BY <1>1
  <1> HIDE DEF text
  <1>3. ASSUME NEW p \in 1..Parts - 1
        PROVE  text[p] = <<r + 1, p>>
    <2>1. p \in 1..Len(buffer) /\ p \in 1..Parts
      BY <1>1
    <2> QED BY <1>2, <2>1, BufferStart
  <1>4. r + 1 \in 1..Len(emitted)
    <2>1. 1 \in 1..Len(buffer) /\ 1 \in 1..Parts
      BY <1>1
    <2>2. buffer[1] = <<r + 1, 1>>
      BY <2>1, BufferStart
    <2>3. buffer[1][1] <= Len(delivered)
      BY <2>1 DEF PiecesInOrder, Placed, PlacedAfter
    <2> QED BY <1>1, <2>2, <2>3
  <1>5. ASSUME NEW m \in 1..Len(emitted)
        PROVE  text = SubSeq(Line(m), 1, Parts - 1) <=> m = r + 1
    <2> DEFINE line == SubSeq(Line(m), 1, Parts - 1)
    <2>1. m \in 1..MaxMessages + 2
      BY <1>1
    <2>2. /\ line \in Seq(Piece) /\ Len(line) = Parts - 1
          /\ \A p \in 1..Parts - 1 : line[p] = <<m, p>>
      BY <1>1, <2>1, LineIsPieces
    <2> HIDE DEF line
    <2>3. text = line => m = r + 1
      BY <1>1, <1>3, <2>2
    <2>4. ASSUME m = r + 1 PROVE text = line
      <3>1. \A p \in 1..Len(text) : text[p] = line[p]
        BY <1>2, <1>3, <2>2, <2>4
      <3> QED BY <1>2, <2>2, <3>1, SeqEqual
    <2> QED BY <2>3, <2>4 DEF line
  <1> QED BY <1>4, <1>5 DEF text

\* A whole line in the buffer goes to the sink as the message it is.
LEMMA FlushTakes ==
    ASSUME HeldInv, FlushLine
    PROVE  /\ Parts <= Len(buffer)
           /\ Len(received) + 1 \in 1..Len(emitted)
           /\ received' = Append(received, emitted[Len(received) + 1])
           /\ reader = "flushing" /\ reader' = "sinking"
           /\ buffer' = SubSeq(buffer, Parts + 1, Len(buffer))
           /\ UNCHANGED <<vars, status, response, out, write, flight, link>>
  <1>1. Parts <= Len(buffer) /\ FirstNewline = Parts /\ Parts # 1
    BY NewlineEndsLine DEF FlushLine
  <1>2. Give(SubSeq(buffer, 1, Parts - 1))
    BY <1>1 DEF FlushLine
  <1> DEFINE whole == {m \in 1..Len(emitted) :
                SubSeq(buffer, 1, Parts - 1) = SubSeq(Line(m), 1, Parts - 1)}
  <1>3. whole = {Len(received) + 1} /\ Len(received) + 1 \in 1..Len(emitted)
    BY <1>1, TextIsNext
  <1>4. IF whole = {}
        THEN reader' = "garbled" /\ UNCHANGED received
        ELSE \E m \in whole : /\ received' = Append(received, emitted[m])
                              /\ reader' = "sinking"
    BY <1>2 DEF Give
  <1> HIDE DEF whole
  <1> QED BY <1>1, <1>3, <1>4 DEF FlushLine, serverVars

\* Nothing is left over when the response ends: every line taken has arrived.
LEMMA DoneMeansAll ==
    ASSUME HeldInv, StreamDone
    PROVE  /\ buffer = <<>> /\ buffer' = <<>>
           /\ LinesTaken = Len(received)
           /\ reader = "reading" /\ reader' = "resolved"
           /\ UNCHANGED <<vars, status, response, out, write, flight, link,
                          received>>
           /\ response = "ended"
  <1> USE DEF HeldInv, Held
  <1>1. /\ reader = "reading" /\ flight = <<>> /\ out = <<>> /\ link = "up"
        /\ response = "ended"
        /\ Len(flight) = 0 /\ Len(out) = 0
    BY DEF StreamDone
  <1>2. /\ Len(buffer) \in Nat /\ buffer \in Seq(Piece)
        /\ LinesTaken - Len(received) \in Int
        /\ LinesTaken \in Int /\ Len(received) \in Int
    BY DEF StreamTypes, LinesTaken, IInv, TypeOK
  <1>3. Len(buffer) = (LinesTaken - Len(received)) * Parts
    BY <1>1, <1>2 DEF NoneMissing
  <1>4. Len(buffer) < Parts
    BY <1>1 DEF ReaderFollows
  <1>5. LinesTaken - Len(received) = 0 /\ Len(buffer) = 0
    BY <1>2, <1>3, <1>4, NoPartOfLine
  <1>6. buffer = <<>> /\ LinesTaken = Len(received)
    BY <1>2, <1>5
  <1> QED BY <1>1, <1>6 DEF StreamDone, serverVars

LEMMA FlushHeld == ASSUME HeldInv, FlushLine PROVE Held'
  <1> USE DEF HeldInv, Held
  <1> DEFINE b == Len(buffer)
             f == Len(flight)
             o == Len(out)
             r == Len(received)
             d == Len(delivered)
  <1>1. /\ Parts <= b /\ r + 1 \in 1..Len(emitted)
        /\ received' = Append(received, emitted[r + 1])
        /\ reader = "flushing" /\ reader' = "sinking"
        /\ buffer' = SubSeq(buffer, Parts + 1, b)
        /\ UNCHANGED <<vars, status, response, out, write, flight, link>>
        /\ UNCHANGED <<phase, sinking, broken, delivered, owed>>
    BY FlushTakes DEF vars
  <1>2. /\ b \in Nat /\ f \in Nat /\ o \in Nat /\ r \in Nat /\ Parts \in Nat
        /\ buffer \in Seq(Piece) /\ received \in Seq(Message)
        /\ flight \in Seq(Piece) /\ out \in Seq(Piece)
    BY DEF StreamTypes
  <1>3. emitted[r + 1] \in Message
    BY <1>1 DEF IInv, TypeOK
  <1>4. received' \in Seq(Message) /\ Len(received') = r + 1
    BY <1>1, <1>2, <1>3, AppendProperties
  <1>5. /\ buffer' \in Seq(Piece) /\ Len(buffer') = b - Parts
        /\ \A k \in 1..b - Parts : buffer'[k] = buffer[k + Parts]
    BY <1>1, <1>2
  <1>6. StreamTypes'
    BY <1>1, <1>2, <1>4, <1>5 DEF StreamTypes
  <1>7. ASSUME NEW piece \in Piece, NEW k \in Int,
               PlacedAfter(piece, k + Parts, r, d)
        PROVE  PlacedAfter(piece, k, r + 1, d)
    <2> DEFINE x == piece[1] - r - 1
    <2>1. x \in Int /\ piece[1] - (r + 1) - 1 = x - 1 /\ piece[2] \in Int
      BY <1>2, PieceFields
    <2>2. x * Parts + piece[2] = k + Parts
      BY <1>7 DEF PlacedAfter
    <2> HIDE DEF x
    <2>3. (x - 1) * Parts + piece[2] = k
      BY <2>1, <2>2, OneLineLess
    <2>4. (piece[1] - (r + 1) - 1) * Parts + piece[2] = k
      BY <2>1, <2>3
    <2> QED BY <1>7, <2>4 DEF PlacedAfter
  <1>8. PiecesInOrder'
    <2>1. ASSUME NEW k \in 1..b - Parts
          PROVE  PlacedAfter(buffer'[k], k, r + 1, d)
      <3>1. k + Parts \in 1..b /\ k \in Int
        BY <1>1, <1>2
      <3>2. PlacedAfter(buffer[k + Parts], k + Parts, r, d)
        BY <3>1 DEF PiecesInOrder, Placed
      <3>3. buffer[k + Parts] \in Piece
        BY <1>2, <3>1
      <3> QED BY <1>5, <1>7, <3>1, <3>2, <3>3
    <2>2. ASSUME NEW k \in 1..f
          PROVE  PlacedAfter(flight[k], (b - Parts) + k, r + 1, d)
      <3>1. b + k = ((b - Parts) + k) + Parts /\ (b - Parts) + k \in Int
        BY <1>1, <1>2
      <3>2. PlacedAfter(flight[k], b + k, r, d)
        BY DEF PiecesInOrder, Placed
      <3>3. flight[k] \in Piece
        BY <1>2
      <3> QED BY <1>7, <3>1, <3>2, <3>3
    <2>3. ASSUME NEW k \in 1..o
          PROVE  PlacedAfter(out[k], (b - Parts) + f + k, r + 1, d)
      <3>1. /\ b + f + k = ((b - Parts) + f + k) + Parts
            /\ (b - Parts) + f + k \in Int
        BY <1>1, <1>2
      <3>2. PlacedAfter(out[k], b + f + k, r, d)
        BY DEF PiecesInOrder, Placed
      <3>3. out[k] \in Piece
        BY <1>2
      <3> QED BY <1>7, <3>1, <3>2, <3>3
    <2> QED BY <1>1, <1>4, <1>5, <2>1, <2>2, <2>3 DEF PiecesInOrder, Placed
  <1>9. NoneMissing'
    <2> DEFINE x == LinesTaken - r
    <2>1. LinesTaken \in Int /\ x \in Int /\ LinesTaken' = LinesTaken
          /\ LinesTaken - (r + 1) = x - 1
      BY <1>1, <1>2 DEF LinesTaken, IInv, TypeOK
    <2>2. (x - 1) * Parts = x * Parts - Parts /\ x * Parts \in Int
      BY <2>1, NextLine
    <2>3. link = "up" => b + f + o = x * Parts
      BY DEF NoneMissing
    <2> HIDE DEF x
    <2>4. link = "up" => (b - Parts) + f + o = (x - 1) * Parts
      BY <1>2, <2>2, <2>3
    <2>5. link = "up" => (b - Parts) + f + o = (LinesTaken - (r + 1)) * Parts
      BY <2>1, <2>4
    <2> QED BY <1>1, <1>4, <1>5, <2>1, <2>5 DEF NoneMissing
  <1>10. WritesInTurn' /\ ResponseFollows' /\ ReaderFollows'
    BY <1>1 DEF WritesInTurn, ResponseFollows, ReaderFollows, LinesTaken
  <1> QED BY <1>6, <1>8, <1>9, <1>10

LEMMA DoneHeld == ASSUME HeldInv, StreamDone PROVE Held'
  <1> USE DEF HeldInv, Held
  <1>1. /\ reader = "reading" /\ reader' = "resolved"
        /\ UNCHANGED <<status, response, out, write, flight, link, received,
                       buffer>>
        /\ UNCHANGED <<phase, sinking, broken, delivered, owed>>
    BY DoneMeansAll DEF vars
  <1>2. StreamTypes' /\ PiecesInOrder' /\ NoneMissing'
    BY <1>1 DEF StreamTypes, PiecesInOrder, Placed, NoneMissing, LinesTaken
  <1>3. WritesInTurn' /\ ResponseFollows' /\ ReaderFollows'
    BY <1>1 DEF WritesInTurn, ResponseFollows, ReaderFollows, LinesTaken
  <1> QED BY <1>2, <1>3

-----------------------------------------------------------------------------
(* Theorems *)

LEMMA HeldStep == ASSUME HeldInv, [HttpNext]_httpVars PROVE HeldInv'
  <1>1. IInv' /\ EmissionBound'
    BY CallSteps, NextHolds, BoundHolds DEF HeldInv
  <1>2. CASE UNCHANGED httpVars
    <2>1. /\ UNCHANGED <<status, response, out, write, flight, link, reader,
                         buffer, received>>
          /\ UNCHANGED <<phase, sinking, broken, delivered, owed>>
      BY <1>2 DEF httpVars, vars, serverVars, hostVars
    <2>2. StreamTypes' /\ PiecesInOrder' /\ NoneMissing'
      BY <2>1 DEF HeldInv, Held, StreamTypes, PiecesInOrder, Placed,
         NoneMissing, LinesTaken
    <2>3. WritesInTurn' /\ ResponseFollows' /\ ReaderFollows'
      BY <2>1 DEF HeldInv, Held, WritesInTurn, ResponseFollows, ReaderFollows,
         LinesTaken
    <2> QED BY <1>1, <2>2, <2>3 DEF HeldInv, Held
  <1>3. CASE HttpNext
    <2>1. Held'
      <3>1. CASE Answer
        BY <3>1, AnswerHeld DEF HeldInv
      <3>2. CASE Begin \/ InCall(ContextCall) \/ InCall(HandlerEnds)
                   \/ InCall(Skipped \/ Drain \/ DrainEnds)
        BY <3>2, CallHeld
      <3>3. CASE Write \/ WriteEnds \/ CloseResponse \/ Transmit \/ Lose
        BY <3>3, WriteHeld, WriteEndsHeld, CloseHeld, TransmitHeld, LoseHeld
      <3>4. CASE HostReads \/ \E threw \in BOOLEAN : HostSinkEnds(threw)
        BY <3>4, ReaderHeld, ChunkHeld, FlushHeld, DoneHeld DEF HostReads
      <3> QED BY <1>3, <3>1, <3>2, <3>3, <3>4 DEF HttpNext, ChainGoesOn
    <2> QED BY <1>1, <2>1 DEF HeldInv
  <1> QED BY <1>2, <1>3

LEMMA HeldAlways == HttpSpec => []HeldInv
  BY HeldInit, HeldStep, PTL DEF HttpSpec

\* However the connection splits and joins the lines, for any length of a line
\* and any window: the host never takes a piece of a message, or two of them,
\* for one, and at most one line waits in the response.
THEOREM LinesStayWhole == HttpSpec => []HttpInv
  <1>1. HeldInv => HttpInv
    BY DEF HeldInv, Held, HttpInv, HttpTypeOK, NeverGarbled, HeldBack, IInv,
       StreamTypes, WritesInTurn, ReaderFollows
  <1> QED BY <1>1, HeldAlways, PTL

-----------------------------------------------------------------------------
(* The stream implements the abstract channel *)

LEMMA HostInit == HttpInit => HostStream!Init
  BY DEF HttpInit, Init, HostStream!Init

\* What the call does without its writes looks the same from the host.
LEMMA HostCallStep ==
    ASSUME HeldInv,
           \/ Begin \/ InCall(ContextCall) \/ InCall(HandlerEnds)
           \/ InCall(Skipped \/ Drain \/ DrainEnds)
    PROVE  \/ HostStream!Send \/ HostStream!Close
           \/ UNCHANGED HostStream!channelVars
  <1> DEFINE closed == phase \in {"draining", "resolved", "rejected"}
  <1>1. UNCHANGED <<status, reader, received>>
    BY DEF Begin, InCall, serverVars, hostVars
  <1>2. CASE Begin \/ InCall(ContextCall) \/ InCall(HandlerEnds)
    <2>1. Refuse \/ Accept \/ ContextCall \/ HandlerEnds
      BY <1>2 DEF Begin, InCall
    <2>2. Emitter!Send
      BY <2>1, EmitStep DEF HeldInv
    <2>3. /\ Emitter!Continues(emitted, emitted')
          /\ closed' = closed /\ owed' = owed
      BY <2>2 DEF Emitter!Send
    <2>4. HostStream!Continues(emitted, emitted')
      BY <2>3 DEF Emitter!Continues, HostStream!Continues
    <2> QED BY <1>1, <2>3, <2>4 DEF HostStream!Send
  <1>3. CASE InCall(Drain)
    BY <1>1, <1>3 DEF InCall, Drain, HostStream!Close
  <1>4. CASE InCall(Skipped)
    BY <1>1, <1>4 DEF InCall, Skipped, HostStream!channelVars
  <1>5. CASE InCall(DrainEnds)
    <2>1. UNCHANGED <<emitted, owed>> /\ closed /\ closed'
      BY <1>5 DEF InCall, DrainEnds
    <2> QED BY <1>1, <2>1 DEF HostStream!channelVars
  <1>6. InCall(Skipped \/ Drain \/ DrainEnds)
          => InCall(Skipped) \/ InCall(Drain) \/ InCall(DrainEnds)
    BY DEF InCall
  <1> QED BY <1>2, <1>3, <1>4, <1>5, <1>6

\* The server's answer, its writes and the connection move pieces only.
LEMMA HostQuietStep ==
    ASSUME HeldInv,
           \/ Answer \/ Write \/ WriteEnds \/ CloseResponse \/ Transmit \/ Lose
    PROVE  UNCHANGED HostStream!channelVars
  <1>1. UNCHANGED <<phase, emitted, owed, reader, received>>
    BY DEF Answer, TurnAway, Preflight, SendHeaders, Write, SinkCalled,
       WriteEnds, Written, WriteFails, SinkEnds, CloseResponse, EndResponse,
       DestroyResponse, Transmit, Lose, vars, hostVars
  <1>2. (reader = "resolved" /\ status = 200)'
          = (reader = "resolved" /\ status = 200)
    <2>1. CASE Answer
      <3>1. reader # "resolved"
        BY <2>1 DEF Answer, TurnAway, Preflight, SendHeaders, HeldInv, Held,
           ReaderFollows
      <3> QED BY <1>1, <3>1
    <2>2. CASE ~Answer
      <3>1. UNCHANGED status
        BY <2>2 DEF Write, WriteEnds, Written, WriteFails, serverVars,
           CloseResponse, EndResponse, DestroyResponse, Transmit, Lose
      <3> QED BY <1>1, <3>1
    <2> QED BY <2>1, <2>2
  <1> QED BY <1>1, <1>2 DEF HostStream!channelVars

LEMMA HostReadStep ==
    ASSUME HeldInv, HostReads \/ \E threw \in BOOLEAN : HostSinkEnds(threw)
    PROVE  \/ HostStream!Receive \/ HostStream!Cut \/ HostStream!Tell
           \/ UNCHANGED HostStream!channelVars
  <1> DEFINE Lost == {"refused", "failed", "threw", "garbled"}
  <1>1. CASE FlushLine
    <2>1. /\ Len(received) + 1 \in 1..Len(emitted)
          /\ received' = Append(received, emitted[Len(received) + 1])
          /\ reader = "flushing" /\ reader' = "sinking"
          /\ UNCHANGED <<phase, emitted, owed, status>>
      BY <1>1, FlushTakes DEF vars
    <2>2. Len(received) < Len(emitted)
      BY <2>1 DEF HeldInv, Held, StreamTypes, IInv, TypeOK
    <2> QED BY <2>1, <2>2 DEF HostStream!Receive
  <1>2. CASE StreamDone
    <2>1. /\ LinesTaken = Len(received) /\ response = "ended"
          /\ reader = "reading" /\ reader' = "resolved"
          /\ UNCHANGED <<phase, emitted, owed, status, received>>
      BY <1>2, DoneMeansAll DEF vars
    <2>2. CASE status = 200
      <3>1. phase = "resolved" /\ Len(received) >= owed
        BY <2>1, <2>2 DEF HeldInv, Held, ResponseFollows
      <3> QED BY <2>1, <2>2, <3>1 DEF HostStream!Tell
    <2>3. CASE status # 200
      BY <2>1, <2>3 DEF HostStream!channelVars
    <2> QED BY <2>2, <2>3
  <1>3. CASE \/ FetchEnds \/ FlushEnds \/ ReadFails
             \/ \E threw \in BOOLEAN : HostSinkEnds(threw)
    <2>1. /\ UNCHANGED <<phase, emitted, owed, status, received>>
          /\ reader \notin Lost /\ reader # "resolved"
          /\ reader' # "resolved"
      BY <1>3 DEF FetchEnds, FlushEnds, ReadFails, HostSinkEnds, vars,
         serverVars
    <2>2. CASE reader' \in Lost
      BY <2>1, <2>2 DEF HostStream!Cut
    <2>3. CASE reader' \notin Lost
      BY <2>1, <2>3 DEF HostStream!channelVars
    <2> QED BY <2>2, <2>3
  <1>4. ASSUME NEW n \in 1..Window, Chunk(n)
        PROVE  UNCHANGED HostStream!channelVars
    BY <1>4 DEF Chunk, vars, serverVars, HostStream!channelVars
  <1> QED BY <1>1, <1>2, <1>3, <1>4 DEF HostReads

\* Whatever the handler emits, wherever the connection breaks and whenever
\* either side stops: the host receives in order what was emitted, none left out
\* and none twice, and its promise resolves only when everything emitted before
\* the handler ended has arrived.
THEOREM HttpRefinesChannel == HttpSpec => HostIsChannel
  <1>1. ASSUME HeldInv, [HttpNext]_httpVars
        PROVE  [HostStream!Next]_HostStream!channelVars
    <2>1. CASE UNCHANGED httpVars
      BY <2>1 DEF httpVars, vars, serverVars, hostVars,
         HostStream!channelVars
    <2>2. CASE HttpNext
      <3>1. CASE Begin \/ InCall(ContextCall) \/ InCall(HandlerEnds)
                   \/ InCall(Skipped \/ Drain \/ DrainEnds)
        BY <1>1, <3>1, HostCallStep DEF HostStream!Next
      <3>2. CASE \/ Answer \/ Write \/ WriteEnds \/ CloseResponse
                 \/ Transmit \/ Lose
        BY <1>1, <3>2, HostQuietStep
      <3>3. CASE HostReads \/ \E threw \in BOOLEAN : HostSinkEnds(threw)
        BY <1>1, <3>3, HostReadStep DEF HostStream!Next
      <3> QED BY <2>2, <3>1, <3>2, <3>3 DEF HttpNext, ChainGoesOn
    <2> QED BY <1>1, <2>1, <2>2
  <1> QED BY HostInit, <1>1, HeldAlways, PTL
          DEF HttpSpec, HostIsChannel, HostStream!Spec
=============================================================================
