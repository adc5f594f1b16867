--------------------------- MODULE ChildTransport ---------------------------
(***************************************************************************)
(* openJsonlChildTransport of                                              *)
(* packages/transport-stdio-jsonl/src/child-process.ts: the host's end of  *)
(* an adapter that runs as a child process, composed with what it is made  *)
(* for: onMessage and onFailure are handleMessage and handleFailure of the *)
(* host's session client, and the host reads the stream of one turn.       *)
(*                                                                         *)
(* The environment is the operating system, the child with the processes   *)
(* it starts, and the host.  One event of Node.js is one action, and a     *)
(* chunk of the child's output gives several lines in one event.  The      *)
(* session is in the client's map as long as the transport is not closed.  *)
(***************************************************************************)
EXTENDS PushIterable

CONSTANTS
    MaxLines,   \* bound: lines the child writes to its output
    MaxNoise,   \* bound: lines it writes to stderr
    Kept        \* stderr lines a failure shows: 20 in the code

ASSUME BoundAssumption == /\ MaxLines \in Nat
                          /\ MaxNoise \in Nat
                          /\ Kept \in Nat \ {0}

VARIABLES
    windows,      \* process.platform
    leader,       \* the child process
    descendants,  \* processes of its group still run
    written,      \* lines the child wrote: its number, or 0 for a bad one
    chunk,        \* lines of the chunk that is being handled
    read,         \* lines read so far, those of the chunk included
    noise,        \* lines written to stderr
    stderrLines,  \* those the transport keeps
    noticed,      \* stderr lines read
    closed,
    killTimer,
    exitSeen,     \* the exit or error event was handled
    delivered,    \* messages onMessage was called with
    failures,     \* calls of onFailure
    host          \* the host's process

processVars == <<windows, leader, descendants, written, noise>>
readerVars == <<chunk, read, delivered>>
stderrVars == <<stderrLines, noticed>>
closeVars == <<closed, killTimer, failures>>
vars == <<processVars, readerVars, stderrVars, closeVars, exitSeen, host,
          streamVars>>

\* The calls of onMessage after a line: it gets what parses.
Given(line) == IF line = 0 THEN delivered ELSE Append(delivered, line)

-----------------------------------------------------------------------------
(***************************************************************************)
(* close sends SIGTERM and arms the timer of SIGKILL; fail tells the host  *)
(* before.  Both do nothing once the transport is closed, and both leave   *)
(* no session in the client, whose turn fails: the client closes the       *)
(* transport in closeSessionState and in failSessionState, which onFailure *)
(* calls.                                                                  *)
(***************************************************************************)
Shut == /\ closed' = TRUE
        /\ killTimer' = "armed"
        /\ Finish("error")

close == IF closed
         THEN UNCHANGED <<closeVars, streamVars>>
         ELSE Shut /\ UNCHANGED failures

\* Mutant of fail: a failure is told although the host closed the transport.
failRegardless == /\ failures' = failures + 1
                  /\ Shut

fail == IF closed
        THEN UNCHANGED <<closeVars, streamVars>>
        ELSE failures' = failures + 1 /\ Shut

-----------------------------------------------------------------------------
(* The lines of the child *)

Idle == host = "here" /\ chunk = <<>>

\* A chunk with n lines of the child's output arrives; a closed reader takes
\* none.
ReadChunk(n) ==
    /\ Idle /\ ~closed
    /\ read + n <= Len(written)
    /\ chunk' = SubSeq(written, read + 1, read + n)
    /\ read' = read + n
    /\ UNCHANGED <<processVars, delivered, stderrVars, closeVars, exitSeen,
                   host, streamVars>>

\* What handleMessage makes of a message: the turn goes on, ends with it, or
\* fails; the session is stopped; or a callback of the host throws.
Reaction == {"message", "last", "failed", "stopped", "throws"}

React(message, reaction) ==
    \/ reaction = "message" /\ Push(message) /\ UNCHANGED closeVars
    \/ reaction = "last" /\ PushLast(message) /\ UNCHANGED closeVars
    \/ reaction = "failed" /\ Finish("error") /\ UNCHANGED closeVars
    \/ reaction = "stopped" /\ close
    \/ reaction = "throws" /\ fail

\* Mutant of HandleLine: the lines of a chunk are taken from its end.
HandleLineLast(reaction) ==
    LET line == chunk[Len(chunk)]
    IN  /\ host = "here" /\ chunk # <<>>
        /\ chunk' = SubSeq(chunk, 1, Len(chunk) - 1)
        /\ delivered' = Given(line)
        /\ \/ line = 0 /\ fail
           \/ line # 0 /\ closed /\ UNCHANGED <<closeVars, streamVars>>
           \/ line # 0 /\ ~closed /\ React(line, reaction)
        /\ UNCHANGED <<processVars, read, stderrVars, exitSeen, host>>

\* Mutant of HandleLine: a line that does not parse is passed over.
HandleLineLeniently(reaction) ==
    LET line == Head(chunk)
    IN  /\ host = "here" /\ chunk # <<>>
        /\ chunk' = Tail(chunk)
        /\ delivered' = Given(line)
        /\ \/ (line = 0 \/ closed) /\ UNCHANGED <<closeVars, streamVars>>
           \/ line # 0 /\ ~closed /\ React(line, reaction)
        /\ UNCHANGED <<processVars, read, stderrVars, exitSeen, host>>

\* The "line" handler runs for every line of the chunk, even if one of them
\* closed the transport: then the client knows no such session any more.
HandleLine(reaction) ==
    LET line == Head(chunk)
    IN  /\ host = "here" /\ chunk # <<>>
        /\ chunk' = Tail(chunk)
        /\ delivered' = Given(line)
        /\ \/ line = 0 /\ fail
           \/ line # 0 /\ closed /\ UNCHANGED <<closeVars, streamVars>>
           \/ line # 0 /\ ~closed /\ React(line, reaction)
        /\ UNCHANGED <<processVars, read, stderrVars, exitSeen, host>>

ReadStderr ==
    /\ Idle /\ ~closed /\ noticed < noise
    /\ noticed' = noticed + 1
    /\ stderrLines' = LET lines == Append(stderrLines, noticed + 1)
                      IN  IF Len(lines) > Kept THEN Tail(lines) ELSE lines
    /\ UNCHANGED <<processVars, readerVars, closeVars, exitSeen, host,
                   streamVars>>

-----------------------------------------------------------------------------
(* The end of the child *)

\* spawn failed: there is no process to signal.
ErrorEvent == /\ Idle /\ leader = "none" /\ ~exitSeen
              /\ exitSeen' = TRUE
              /\ fail
              /\ UNCHANGED <<processVars, readerVars, stderrVars, host>>

\* Mutant of ExitEvent: the timer is cleared on every platform.
ExitEventClearing ==
    /\ Idle /\ leader = "dead" /\ ~exitSeen
    /\ exitSeen' = TRUE
    /\ IF closed
       THEN killTimer' = "none" /\ UNCHANGED <<closed, failures, streamVars>>
       ELSE fail
    /\ UNCHANGED <<processVars, readerVars, stderrVars, host>>

\* Mutant of ExitEvent: an exit with code 0 is no failure.
ExitEventSilent ==
    /\ Idle /\ leader = "dead" /\ ~exitSeen
    /\ exitSeen' = TRUE
    /\ IF closed
       THEN /\ killTimer' = IF windows THEN "none" ELSE killTimer
            /\ UNCHANGED <<closed, failures, streamVars>>
       ELSE fail \/ UNCHANGED <<closeVars, streamVars>>
    /\ UNCHANGED <<processVars, readerVars, stderrVars, host>>

\* The exit may be told before the child's last output was read.  After close
\* the timer stays, except on Windows, for what the child left running.
ExitEvent ==
    /\ Idle /\ leader = "dead" /\ ~exitSeen
    /\ exitSeen' = TRUE
    /\ IF closed
       THEN /\ killTimer' = IF windows THEN "none" ELSE killTimer
            /\ UNCHANGED <<closed, failures, streamVars>>
       ELSE fail
    /\ UNCHANGED <<processVars, readerVars, stderrVars, host>>

\* SIGKILL goes to the group, on Windows to the child alone.
KillTimerFires ==
    /\ Idle /\ killTimer = "armed"
    /\ killTimer' = "none"
    /\ leader' = IF leader = "none" THEN "none" ELSE "dead"
    /\ descendants' = (descendants /\ windows)
    /\ UNCHANGED <<windows, written, noise, readerVars, stderrVars, closed,
                   failures, exitSeen, host, streamVars>>

-----------------------------------------------------------------------------
(* The environment *)

ChildWrites(line) ==
    /\ leader = "alive" /\ Len(written) < MaxLines
    /\ line \in {0, Len(written) + 1}
    /\ written' = Append(written, line)
    /\ UNCHANGED <<windows, leader, descendants, noise, readerVars, stderrVars,
                   closeVars, exitSeen, host, streamVars>>

ChildComplains ==
    /\ leader = "alive" /\ noise < MaxNoise
    /\ noise' = noise + 1
    /\ UNCHANGED <<windows, leader, descendants, written, readerVars,
                   stderrVars, closeVars, exitSeen, host, streamVars>>

ChildForks ==
    /\ leader = "alive" /\ ~descendants
    /\ descendants' = TRUE
    /\ UNCHANGED <<windows, leader, written, noise, readerVars, stderrVars,
                   closeVars, exitSeen, host, streamVars>>

\* By itself or on SIGTERM, which it may also ignore.
ChildExits ==
    /\ leader = "alive"
    /\ leader' = "dead"
    /\ UNCHANGED <<windows, descendants, written, noise, readerVars, stderrVars,
                   closeVars, exitSeen, host, streamVars>>

HostCloses == /\ Idle /\ ~closed
              /\ close
              /\ UNCHANGED <<processVars, readerVars, stderrVars, exitSeen,
                             host>>

\* The timer does not keep the host's process alive.
HostEnds == /\ Idle
            /\ host' = "gone"
            /\ UNCHANGED <<processVars, readerVars, stderrVars, closeVars,
                           exitSeen, streamVars>>

\* The host reads the stream of the turn.
HostReads == /\ Idle
             /\ NextCall
             /\ UNCHANGED <<processVars, readerVars, stderrVars, closeVars,
                            exitSeen, host>>

-----------------------------------------------------------------------------
Init == /\ windows \in BOOLEAN
        /\ leader \in {"alive", "none"}
        /\ descendants = FALSE
        /\ written = <<>>
        /\ chunk = <<>>
        /\ read = 0
        /\ noise = 0
        /\ stderrLines = <<>>
        /\ noticed = 0
        /\ closed = FALSE
        /\ killTimer = "none"
        /\ exitSeen = FALSE
        /\ delivered = <<>>
        /\ failures = 0
        /\ host = "here"
        /\ StreamInit

LineEvent == \/ \E n \in 1..MaxLines : ReadChunk(n)
             \/ \E reaction \in Reaction : HandleLine(reaction)

ChildEnds == ErrorEvent \/ ExitEvent

Next == \/ LineEvent \/ ReadStderr \/ ChildEnds \/ KillTimerFires
        \/ \E line \in 0..MaxLines : ChildWrites(line)
        \/ ChildComplains \/ ChildForks \/ ChildExits
        \/ HostReads \/ HostCloses \/ HostEnds

Spec == Init /\ [][Next]_vars

\* Fairness: events that are due are handled, and a timer fires.
FairSpec == /\ Spec
            /\ WF_vars(LineEvent)
            /\ WF_vars(ChildEnds)
            /\ WF_vars(KillTimerFires)

-----------------------------------------------------------------------------
(* Properties *)

TypeOK ==
    /\ windows \in BOOLEAN
    /\ leader \in {"alive", "none", "dead"}
    /\ descendants \in BOOLEAN
    /\ written \in Seq(0..MaxLines)
    /\ chunk \in Seq(0..MaxLines)
    /\ read \in 0..Len(written)
    /\ noise \in 0..MaxNoise
    /\ stderrLines \in Seq(1..MaxNoise) /\ Len(stderrLines) <= Kept
    /\ noticed \in 0..noise
    /\ closed \in BOOLEAN
    /\ killTimer \in {"none", "armed"}
    /\ exitSeen \in BOOLEAN
    /\ delivered \in Seq(1..MaxLines)
    /\ failures \in 0..1
    /\ host \in {"here", "gone"}
    /\ queue \in Seq(1..MaxLines) /\ pushed \in Seq(1..MaxLines)
    /\ waiters \in Seq(1..MaxCalls)
    /\ state \in {"open"} \cup Over
    /\ answers \in Seq([what : {"pending", "message"} \cup Over,
                        message : 0..MaxLines])

\* Lines the "line" handler is done with.
Handled == read - Len(chunk)

\* No chunk is handled to its end with a bad line in it and the transport open.
BadLineCloses == \A k \in 1..Handled : written[k] = 0 => closed

\* The messages of the child reach the host in order, none twice and none left
\* out, though a chunk goes on after the transport closed.
LinesInOrder ==
    /\ \A j, k \in DOMAIN delivered : j < k => delivered[j] < delivered[k]
    /\ \A line \in 1..MaxLines :
         (\E k \in DOMAIN delivered : delivered[k] = line)
           <=> (\E k \in 1..Handled : written[k] = line)

\* The types, what the lines of the child come to, and that no call of next()
\* waits beside a queued message.
ChildInv == TypeOK /\ BadLineCloses /\ LinesInOrder /\ NoLostWakeup

\* A host that awaits the next message of the turn is answered, at the latest
\* when the child is gone: through the chunk that brings the message, the
\* failure a bad line or the exit makes, or the close.
Waits(c) == c \in DOMAIN answers /\ answers[c] = Pending

AwaitedEndIsTold ==
    \A c \in 1..MaxCalls :
        Waits(c) /\ leader \in {"dead", "none"} ~> ~Waits(c) \/ host = "gone"

\* After close the child dies, and on other platforms than Windows the processes
\* it left behind as well, even if it exits at once and they ignore SIGTERM;
\* unless the host's process ends first.
GroupDies == closed ~> \/ leader # "alive" /\ (~descendants \/ windows)
                       \/ host = "gone"
=============================================================================
