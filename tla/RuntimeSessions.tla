-------------------------- MODULE RuntimeSessions --------------------------
(***************************************************************************)
(* The session table of AdapterRuntime (packages/sdk-core) and the eight   *)
(* handlers that share it.  A handler looks its session up, or creates it, *)
(* when its message arrives; what the adapter's code does with the context *)
(* it is given, until it returns or throws, is free; when it is back, a    *)
(* session that was ended is deleted by its id.  Handlers of one session   *)
(* overlap: interrupts and stops pass the queue of the stdio transport,    *)
(* and every HTTP request has a handler of its own.                        *)
(*                                                                         *)
(* What a session object holds (references, state) is left out: a write is *)
(* lost when the object it goes to is no longer the one in the table.      *)
(* Messages that change nothing here (status, deltas, activities and the   *)
(* like) are left out as well.                                             *)
(***************************************************************************)
EXTENDS Naturals, FiniteSets

CONSTANTS
    Handler,      \* calls of handleStream with a session message
    Session,      \* session ids
    Implements,   \* the operations the adapter has a handler for
    MaxObjects    \* bound: session objects created

Op == {"start", "resume", "message", "controls", "input", "interrupt",
       "control", "stop"}

ASSUME SessionsAssumption ==
    /\ Implements \subseteq Op
    /\ MaxObjects \in Nat

Object == 1 .. MaxObjects
NoObject == 0

VARIABLES
    sessions,   \* #sessions: the object of each id, or NoObject
    created,    \* how many objects there are
    gone,       \* objects that were deleted from the table
    op,         \* the operation a handler serves, "none" before it arrives
    session,    \* the session id of its message
    object,     \* the session object it works on
    stage,      \* "idle", "running", "done"
    terminal,   \* state.terminal
    ends,       \* terminal messages its own emitter has emitted
    answers,    \* controls, controlState, interruptResult messages
    ended       \* the session was ended when the adapter's code came back

table == <<sessions, created, gone>>
call == <<op, session, object>>
told == <<terminal, ends, answers>>
vars == <<table, call, stage, told, ended>>

----------------------------------------------------------------------------
Forget(s) ==
    /\ sessions' = [sessions EXCEPT ![s] = NoObject]
    /\ gone' = gone \cup ({sessions[s]} \ {NoObject})

\* Mutant of EnsureSession: every handler makes its session anew.
EnsureAnew(o, s) == o = created + 1

(* #ensureSession: the object in the table, or the next new one. *)
EnsureSession(o, s) ==
    o = IF sessions[s] # NoObject THEN sessions[s] ELSE created + 1

Arrive(h, o, kind) ==
    /\ stage[h] = "idle"
    /\ EnsureSession(o, session[h]) /\ o <= MaxObjects
    /\ created' = IF o > created THEN o ELSE created
    /\ op' = [op EXCEPT ![h] = kind]
    /\ UNCHANGED session
    /\ object' = [object EXCEPT ![h] = o]

Enter(h, o, kind) ==
    /\ kind \in Implements
    /\ Arrive(h, o, kind)
    /\ sessions' = [sessions EXCEPT ![session[h]] = o]
    /\ stage' = [stage EXCEPT ![h] = "running"]
    /\ UNCHANGED <<gone, told, ended>>

(* No handler in the adapter: start and resume fail the session and forget *)
(* it, stop reports it as stopped and forgets it.                          *)
RefuseAndForget(h, o, kind) ==
    /\ kind \in {"start", "resume", "stop"} \ Implements
    /\ Arrive(h, o, kind)
    /\ sessions' = [sessions EXCEPT ![session[h]] = NoObject]
    /\ gone' = gone \cup {o}
    /\ stage' = [stage EXCEPT ![h] = "done"]
    /\ terminal' = [terminal EXCEPT ![h] = TRUE]
    /\ ends' = [ends EXCEPT ![h] = 1]
    /\ ended' = [ended EXCEPT ![h] = TRUE]
    /\ UNCHANGED answers

(* message and input report that the session failed and return before the  *)
(* deletion: the session stays in the table.                               *)
RefuseAndKeep(h, o, kind) ==
    /\ kind \in {"message", "input"} \ Implements
    /\ Arrive(h, o, kind)
    /\ sessions' = [sessions EXCEPT ![session[h]] = o]
    /\ stage' = [stage EXCEPT ![h] = "done"]
    /\ terminal' = [terminal EXCEPT ![h] = TRUE]
    /\ ends' = [ends EXCEPT ![h] = 1]
    /\ UNCHANGED <<gone, answers, ended>>

(* The other three have an answer for what is not supported. *)
AnswerUnsupported(h, o, kind) ==
    /\ kind \in {"controls", "control", "interrupt"} \ Implements
    /\ Arrive(h, o, kind)
    /\ sessions' = [sessions EXCEPT ![session[h]] = o]
    /\ stage' = [stage EXCEPT ![h] = "done"]
    /\ answers' = [answers EXCEPT ![h] = 1]
    /\ UNCHANGED <<gone, terminal, ends, ended>>

----------------------------------------------------------------------------
(* The context.  The adapter's code may keep it and use it after it has    *)
(* returned.                                                               *)

InUse(h) == stage[h] \in {"running", "done"} /\ op[h] \in Implements

(* complete, fail, stopped *)
Settle(h) ==
    /\ InUse(h) /\ ~terminal[h]
    /\ terminal' = [terminal EXCEPT ![h] = TRUE]
    /\ ends' = [ends EXCEPT ![h] = @ + 1]
    /\ UNCHANGED <<table, call, stage, answers, ended>>

(* controls, controlState, interruptResult: not held back by the end of    *)
(* the session.  Bound: two by the adapter's code.                         *)
Answer(h) ==
    /\ InUse(h) /\ op[h] \in {"controls", "control", "interrupt"}
    /\ answers[h] < 2
    /\ answers' = [answers EXCEPT ![h] = @ + 1]
    /\ UNCHANGED <<table, call, stage, terminal, ends, ended>>

----------------------------------------------------------------------------
(* The adapter's code is back. *)

\* Mutant of ForgetEnded: a finally block deletes the session.
ForgetAlways(h, over) == Forget(session[h])

\* Mutant of ForgetEnded: only the handler that a stop came to forgets.
ForgetStopped(h, over) ==
    IF op[h] = "stop" THEN Forget(session[h]) ELSE UNCHANGED <<sessions, gone>>

(* The table loses the id when the handler ended the session, or served a  *)
(* stop, whichever object the id stands for by then.                       *)
ForgetEnded(h, over) ==
    IF over \/ op[h] = "stop" THEN Forget(session[h])
    ELSE UNCHANGED <<sessions, gone>>

Back(h, over) ==
    /\ stage[h] = "running"
    /\ stage' = [stage EXCEPT ![h] = "done"]
    /\ ended' = [ended EXCEPT ![h] = over \/ op[h] = "stop"]
    /\ ForgetEnded(h, over)
    /\ UNCHANGED <<created, call>>

\* Mutant of Returns: controls that the adapter does not return are not sent.
ReturnsNothing(h) ==
    /\ Back(h, terminal[h])
    /\ UNCHANGED <<terminal, ends, answers>>

\* Mutant of Returns: controls are sent whatever the adapter's code has sent.
ReturnsAgain(h) ==
    /\ Back(h, terminal[h])
    /\ answers' = IF op[h] = "controls"
                  THEN [answers EXCEPT ![h] = @ + 1] ELSE answers
    /\ UNCHANGED <<terminal, ends>>

(* Controls are sent unless the adapter's code has sent some itself. *)
Returns(h) ==
    /\ Back(h, terminal[h])
    /\ answers' = IF op[h] = "controls" /\ answers[h] = 0
                  THEN [answers EXCEPT ![h] = 1] ELSE answers
    /\ UNCHANGED <<terminal, ends>>

Throws(h) ==
    /\ Back(h, TRUE)
    /\ terminal' = [terminal EXCEPT ![h] = TRUE]
    /\ ends' = IF terminal[h] THEN ends ELSE [ends EXCEPT ![h] = @ + 1]
    /\ UNCHANGED answers

----------------------------------------------------------------------------
Init ==
    /\ sessions = [s \in Session |-> NoObject]
    /\ created = 0
    /\ gone = {}
    /\ op = [h \in Handler |-> "none"]
    /\ session \in [Handler -> Session]
    /\ object = [h \in Handler |-> NoObject]
    /\ stage = [h \in Handler |-> "idle"]
    /\ terminal = [h \in Handler |-> FALSE]
    /\ ends = [h \in Handler |-> 0]
    /\ answers = [h \in Handler |-> 0]
    /\ ended = [h \in Handler |-> FALSE]

Receive(h) ==
    \E o \in Object, kind \in Op :
        \/ Enter(h, o, kind) \/ RefuseAndForget(h, o, kind)
        \/ RefuseAndKeep(h, o, kind)
        \/ AnswerUnsupported(h, o, kind)

Next ==
    \E h \in Handler :
        \/ Receive(h)
        \/ Settle(h) \/ Answer(h)
        \/ Returns(h) \/ Throws(h)

Spec == Init /\ [][Next]_vars

----------------------------------------------------------------------------
(* Types; a terminal message is emitted at most once by a handler's own    *)
(* emitter, whether the adapter's code ends the session, throws, or both.  *)
TypeOK ==
    /\ sessions \in [Session -> Object \cup {NoObject}]
    /\ created \in 0 .. MaxObjects
    /\ gone \subseteq Object
    /\ op \in [Handler -> Op \cup {"none"}]
    /\ session \in [Handler -> Session]
    /\ object \in [Handler -> Object \cup {NoObject}]
    /\ stage \in [Handler -> {"idle", "running", "done"}]
    /\ terminal \in [Handler -> BOOLEAN]
    /\ ends \in [Handler -> 0 .. 1]
    /\ answers \in [Handler -> 0 .. 2]
    /\ ended \in [Handler -> BOOLEAN]

(* Handlers of one session work on one object, the one in the table: what  *)
(* one of them writes is what the next one reads, unless its object was    *)
(* deleted meanwhile.  A deleted object never comes back into the table.   *)
ObjectIsShared ==
    /\ \A s \in Session : sessions[s] \notin gone
    /\ \A h \in Handler :
         stage[h] # "idle" /\ object[h] \notin gone =>
             sessions[session[h]] = object[h]

(* A handler that ended its session leaves no entry with the object it     *)
(* worked on: what comes later starts from a new one.                      *)
EndedIsForgotten ==
    \A h \in Handler : ended[h] => object[h] \in gone

(* The state of a session is lost only when a handler of that session      *)
(* ended it.                                                               *)
OnlyAnEndForgets ==
    \A h \in Handler :
        object[h] \in gone =>
            \E g \in Handler : session[g] = session[h] /\ ended[g]

(* Both: the entry of a session goes with its end and only then, though    *)
(* the table knows the session by its id alone.                            *)
ForgottenWhenEnded == EndedIsForgotten /\ OnlyAnEndForgets

(* What a handler of controls tells when it gets through.                  *)
TellsOnce(h) ==
    stage[h] # "done" /\ stage'[h] = "done" /\ op'[h] = "controls" =>
        IF answers[h] = 0
        THEN answers'[h] = 1 \/ (answers'[h] = 0 /\ ends'[h] = 1)
        ELSE answers'[h] = answers[h]

(* Whoever asks for the controls is told when the handler is through: some *)
(* controls, an empty list, or the end of the session.  What the adapter's *)
(* code has sent by then itself is not followed by the runtime's own, even *)
(* if it returns controls as well.                                         *)
ControlsAreAnswered == [][\A h \in Handler : TellsOnce(h)]_vars
=============================================================================
