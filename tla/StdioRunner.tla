----------------------------- MODULE StdioRunner -----------------------------
(***************************************************************************)
(* runAdapterStdio of packages/transport-stdio-jsonl/src/index.ts around a *)
(* tool-loop session adapter (ToolLoop): the loop that reads the host's    *)
(* lines, the queue on which most messages wait for the one before, and    *)
(* the messages that overtake it.                                          *)
(*                                                                         *)
(* What ToolLoop leaves to the host, any message at any time, is decided   *)
(* here: a turn or a session.start runs when the queue comes to it.  The   *)
(* lines of one host arrive in the order it wrote them; a line is read at  *)
(* any time.                                                               *)
(***************************************************************************)
EXTENDS ToolLoop

CONSTANTS
    Start,    \* the task of a session.start or session.resume
    NoTask    \* nothing runs on the queue

Task == Turn \cup Input \cup {Start}

ASSUME TaskAssumption == /\ Start \notin Call
                         /\ NoTask \notin Task

VARIABLES
    serial,   \* tasks on the queue that have not begun
    task,     \* the task of the queue that runs
    heard,    \* answers read
    reader    \* where runAdapterStdio stands

stdioVars == <<serial, task, heard, reader>>
allVars == <<vars, stdioVars>>

Queued(x) == \E k \in DOMAIN serial : serial[k] = x

\* Nothing on the queue or running is read again.
Unread(x) == /\ ~Queued(x) /\ task # x
             /\ x \in Turn => phase[x] = "idle"
             /\ x = Start => ~starting

-----------------------------------------------------------------------------
(* The loop over the lines *)

\* session.message, session.start and session.resume wait for what is queued.
ReadQueued(x) == /\ reader = "reading" /\ Unread(x)
                 /\ serial' = Append(serial, x)
                 /\ UNCHANGED <<vars, task, heard, reader>>

\* Mutant of ReadAnswer: the answer waits on the queue as a message does.
ReadAnswerQueued(i) == /\ reader = "reading" /\ i \notin heard
                       /\ heard' = heard \cup {i}
                       /\ serial' = Append(serial, i)
                       /\ UNCHANGED <<vars, task, reader>>

\* session.interaction.resolve, session.interrupt and session.stop are handled
\* when they are read, whatever is queued.
ReadAnswer(i) == /\ reader = "reading"
                 /\ heard' = heard \cup {i}
                 /\ InputArrives(i)
                 /\ UNCHANGED <<serial, task, reader>>

ReadInterrupt(requested) ==
    /\ reader = "reading"
    /\ Interrupt(requested) \/ InterruptNothing(requested)
    /\ UNCHANGED stdioVars

ReadStop == /\ reader = "reading"
            /\ SessionStop
            /\ UNCHANGED stdioVars

\* A line that does not parse ends the loop with an error; nobody waits for
\* what is queued, which runs on.
ReadBadLine == /\ reader = "reading"
               /\ reader' = "rejected"
               /\ UNCHANGED <<vars, serial, task, heard>>

ReadEnd == /\ reader = "reading"
           /\ reader' = "ended"
           /\ UNCHANGED <<vars, serial, task, heard>>

\* Mutant of Returns: what is still queued is not waited for.
ReturnsEarly == /\ reader = "ended"
                /\ task = NoTask
                /\ ~stopping /\ resolving = {}
                /\ reader' = "resolved"
                /\ UNCHANGED <<vars, serial, task, heard>>

\* At the end of the input the queue is awaited, then what overtook it.
Returns == /\ reader = "ended"
           /\ serial = <<>> /\ task = NoTask
           /\ ~stopping /\ resolving = {}
           /\ reader' = "resolved"
           /\ UNCHANGED <<vars, serial, task, heard>>

-----------------------------------------------------------------------------
(* The queue *)

\* Mutant of RunNext: a message runs when it is read.
RunNextAtOnce == /\ serial # <<>>
                 /\ task' = Head(serial)
                 /\ serial' = Tail(serial)
                 /\ \/ Head(serial) \in Turn /\ MessageArrives(Head(serial))
                    \/ Head(serial) \in Input /\ InputArrives(Head(serial))
                    \/ Head(serial) = Start /\ SessionStart
                 /\ UNCHANGED <<heard, reader>>

\* runMessage of the next task, up to its first await.
RunNext == /\ task = NoTask /\ serial # <<>>
           /\ task' = Head(serial)
           /\ serial' = Tail(serial)
           /\ \/ Head(serial) \in Turn /\ MessageArrives(Head(serial))
              \/ Head(serial) \in Input /\ InputArrives(Head(serial))
              \/ Head(serial) = Start /\ SessionStart
           /\ UNCHANGED <<heard, reader>>

\* Mutant of TaskEnds: a session.start that failed breaks the chain.
TaskEndsUnlessFailed ==
    /\ task # NoTask
    /\ task \in Turn => phase[task] = "done" /\ record # "absent"
    /\ task = Start => ~starting
    /\ task' = NoTask
    /\ UNCHANGED <<vars, serial, heard, reader>>

\* handleStream settled: an error is written to stderr and the queue goes on.
TaskEnds ==
    /\ task # NoTask
    /\ task \in Turn => phase[task] = "done"
    /\ task = Start => ~starting
    /\ task' = NoTask
    /\ UNCHANGED <<vars, serial, heard, reader>>

-----------------------------------------------------------------------------
StdioInit == /\ Init
             /\ serial = <<>>
             /\ task = NoTask
             /\ heard = {}
             /\ reader = "reading"

StartReturns == \E failed \in BOOLEAN : SessionStartReturns(failed)

\* What a handler does after its first await.
HandlerStep == /\ \/ \E t \in Turn : TurnStep(t)
                  \/ Resolves
                  \/ StartReturns
                  \/ SessionStopReturns
               /\ UNCHANGED stdioVars

ReadLine == \/ \E x \in Turn \cup {Start} : ReadQueued(x)
            \/ \E i \in Input : ReadAnswer(i)
            \/ \E requested \in Turn \cup {NoTurn} : ReadInterrupt(requested)
            \/ ReadStop
            \/ ReadBadLine
            \/ ReadEnd

QueueStep == RunNext \/ TaskEnds

StdioNext == ReadLine \/ QueueStep \/ Returns \/ HandlerStep

StdioSpec == StdioInit /\ [][StdioNext]_allVars

(***************************************************************************)
(* Fairness: that of ToolLoop, the promise chain of the queue, and hooks   *)
(* that settle.  The host need not write anything.                         *)
(***************************************************************************)
StdioFairSpec ==
    /\ StdioSpec
    /\ \A t \in Turn : /\ WF_allVars(SetupStep(t) /\ UNCHANGED stdioVars)
                       /\ WF_allVars(ModelStep(t) /\ UNCHANGED stdioVars)
                       /\ WF_allVars(ToolEnds(t) /\ UNCHANGED stdioVars)
                       /\ WF_allVars(SaveStep(t) /\ UNCHANGED stdioVars)
    /\ WF_allVars(Resolves /\ UNCHANGED stdioVars)
    /\ WF_allVars(StartReturns /\ UNCHANGED stdioVars)
    /\ WF_allVars(SessionStopReturns /\ UNCHANGED stdioVars)
    /\ WF_allVars(QueueStep)
    /\ WF_allVars(Returns)

-----------------------------------------------------------------------------
(* Properties *)

StdioTypeOK == /\ TypeOK
               /\ serial \in Seq(Task)
               /\ task \in Task \cup {NoTask}
               /\ heard \in SUBSET Input
               /\ reader \in {"reading", "rejected", "ended", "resolved"}

\* On stdio one turn runs at a time, an interrupted one included: a message is
\* never refused because the session is busy, although the adapter does refuse.
OneTurnAtATime ==
    /\ \A t \in Turn : phase[t] \in Running => task = t
    /\ active # NoTurn => active = task

\* So the stored memory holds exactly the exchanges of the turns that completed,
\* interrupts and stops notwithstanding: the save of an interrupted turn cannot
\* run over that of the turn after it, as it can when messages are handled as
\* they come.
MemoryExact == memory = Completed

\* runAdapterStdio resolves only when everything it read was handled.
ResolvedMeansHandled ==
    reader = "resolved" => /\ serial = <<>> /\ task = NoTask
                           /\ \A t \in Turn : phase[t] \in {"idle", "done"}
                           /\ ~starting /\ ~stopping

\* A turn awaits an input, and no answer that was read is still to be handled.
HostOwes == /\ \E t \in Turn : waits[t] # {}
            /\ heard \subseteq answered

\* The types, and what the serial queue ensures of the turns it runs.
StdioInv == /\ StdioTypeOK
            /\ OneTurnAtATime
            /\ MemoryExact
            /\ ResolvedMeansHandled

\* Why: a session.start that has not returned is the task of the queue, and what
\* a turn has loaded is what is stored, as nobody else saves before it does.
RunnerInv == /\ StdioInv
             /\ starting => task = Start
             /\ \A t \in Turn : phase[t] \in Loaded => loaded[t] = memory

\* Every message read begins to be handled, whatever became of those before it,
\* even after a line that ended the loop.  Only a turn that awaits an input holds
\* the queue up, and an answer gets past the queue that turn blocks: as long as
\* one that was read has not reached the adapter, the wait is no excuse.
QueueMoves == \A t \in Turn : Queued(t) ~> phase[t] # "idle" \/ HostOwes

\* At the end of its input the adapter ends, unless a turn still awaits an input
\* that can no longer come.
RunnerReturns == reader = "ended" ~> reader = "resolved" \/ HostOwes

\* Both: nothing but an input the host owes holds the runner up.
RunnerMoves == QueueMoves /\ RunnerReturns
=============================================================================
