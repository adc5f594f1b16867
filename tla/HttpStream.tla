----------------------------- MODULE HttpStream -----------------------------
(***************************************************************************)
(* One request over packages/transport-http/src/index.ts: the handler of   *)
(* the server around a call of the adapter runtime (RuntimeCall, whose     *)
(* sink is writeResponseChunk), the connection, and the host that reads    *)
(* the response with parseNdjsonStream.                                    *)
(*                                                                         *)
(* A message is a line of Parts pieces, the last of which is its newline;  *)
(* the connection may split or join lines anywhere.  The buffers of the    *)
(* operating system and of HTTP are the environment: they hold Window      *)
(* pieces, and the connection may be lost at any time.                     *)
(***************************************************************************)
EXTENDS RuntimeCall

CONSTANTS
    Parts,       \* pieces of a line
    Window       \* pieces under way on the connection

ASSUME HttpAssumption == /\ Parts \in Nat \ {0, 1}
                         /\ Window \in Nat \ {0}

VARIABLES
    status,     \* of the response; 0 before it is set
    response,   \* the ServerResponse
    out,        \* pieces written and not yet under way
    write,      \* how the last write was taken
    flight,     \* pieces under way
    link,       \* the connection
    reader,     \* where the host stands
    buffer,     \* pieces read that are not yet a whole line
    received    \* messages given to the host's sink

serverVars == <<status, response, out, write>>
hostVars == <<reader, buffer, received>>
httpVars == <<vars, serverVars, flight, link, hostVars>>

\* What the runtime's call does while the rest stands still.
InCall(step) == step /\ UNCHANGED <<serverVars, flight, link, hostVars>>

Piece == (1..(MaxMessages + 2)) \X (1..Parts)
Newline(piece) == piece[2] >= Parts

\* serializeNdjsonMessage of the m-th message.
Line(m) == [p \in 1..Parts |-> <<m, p>>]

-----------------------------------------------------------------------------
(***************************************************************************)
(* The request.  It is turned away before the runtime sees it, or its      *)
(* headers are sent and the runtime handles it.  A request whose URL does  *)
(* not parse, which rejects the listener and gets no answer, is left out.  *)
(***************************************************************************)
RefusalStatus == {404, 405, 400, 500}

TurnAway(code) ==
    /\ status = 0
    /\ code \in {500} => link = "lost"   \* the request's body broke off
    /\ status' = code
    /\ response' = "ended"
    /\ UNCHANGED <<vars, out, write, flight, link, hostVars>>

Preflight ==
    /\ status = 0
    /\ status' = 204
    /\ response' = "ended"
    /\ UNCHANGED <<vars, out, write, flight, link, hostVars>>

SendHeaders ==
    /\ status = 0
    /\ status' = 200
    /\ response' = "streaming"
    /\ UNCHANGED <<vars, out, write, flight, link, hostVars>>

\* The call of the runtime begins only now.
Begin == /\ response = "streaming"
         /\ InCall(Refuse \/ Accept)

-----------------------------------------------------------------------------
(* The sink of the runtime: writeNdjsonMessage, one write at a time *)

\* A write on a lost connection or after the end is refused.
Writable == link = "up" /\ response = "streaming"

\* A write stalls when it returns false: the line filled the response's buffer.
Write == /\ SinkCalled
         /\ IF Writable
            THEN /\ out' = out \o Line(Len(delivered'))
                 /\ write' \in {"flows", "stalls"}
            ELSE /\ write' = "refused"
                 /\ UNCHANGED out
         /\ UNCHANGED <<status, response, flight, link, hostVars>>

Flows == link = "up" /\ write # "refused"

\* Mutant of Written: the write counts as done when the call returns.
WrittenAtOnce == /\ SinkEnds(FALSE)
                 /\ Flows
                 /\ UNCHANGED <<serverVars, flight, link, hostVars>>

\* Mutant of Written: nothing listens for the drain event.
WrittenByCallback == /\ SinkEnds(FALSE)
                     /\ out = <<>>
                     /\ Flows /\ write = "flows"
                     /\ UNCHANGED <<serverVars, flight, link, hostVars>>

\* The callback of the write settles it, unless write had returned false: then
\* the drain event does.  Both come when the response's buffer is empty, as one
\* write is made at a time.
Written == /\ SinkEnds(FALSE)
           /\ out = <<>>
           /\ Flows
           /\ UNCHANGED <<serverVars, flight, link, hostVars>>

\* The callback brings an error, or the error event comes.
WriteFails == /\ SinkEnds(TRUE)
              /\ ~Flows
              /\ UNCHANGED <<serverVars, flight, link, hostVars>>

\* The handler ends the response when the runtime resolves...
EndResponse == /\ phase = "resolved" /\ response = "streaming"
               /\ response' = "ended"
               /\ UNCHANGED <<vars, status, out, write, flight, link,
                              hostVars>>

\* ...and destroys it when the runtime rejects, as the headers are sent.
DestroyResponse == /\ phase = "rejected" /\ response = "streaming"
                   /\ response' = "destroyed"
                   /\ link' = "lost"
                   /\ out' = <<>>
                   /\ UNCHANGED <<vars, status, write, flight, hostVars>>

-----------------------------------------------------------------------------
(* The connection *)

Transmit == /\ link = "up" /\ out # <<>> /\ Len(flight) < Window
            /\ out' = Tail(out)
            /\ flight' = Append(flight, Head(out))
            /\ UNCHANGED <<vars, status, response, write, link, hostVars>>

\* The connection breaks, or the host aborts its request.
Lose == /\ link = "up"
        /\ link' = "lost"
        /\ out' = <<>>
        /\ UNCHANGED <<vars, status, response, write, flight, hostVars>>

-----------------------------------------------------------------------------
(* The host: streamHttpTransportMessage and parseNdjsonStream *)

\* fetch resolves when the headers came.
FetchEnds ==
    /\ reader = "fetching" /\ status # 0
    /\ reader' = IF status \in {200, 204} THEN "reading" ELSE "refused"
    /\ UNCHANGED <<vars, serverVars, flight, link, buffer, received>>

\* Mutant of Chunk: what an earlier chunk left is forgotten.
ChunkAnew(n) ==
    /\ reader = "reading" /\ n \in 1..Len(flight)
    /\ buffer' = SubSeq(flight, 1, n)
    /\ flight' = SubSeq(flight, n + 1, Len(flight))
    /\ reader' = "flushing"
    /\ UNCHANGED <<vars, serverVars, link, received>>

\* A chunk of any length comes.
Chunk(n) ==
    /\ reader = "reading" /\ n \in 1..Len(flight)
    /\ buffer' = buffer \o SubSeq(flight, 1, n)
    /\ flight' = SubSeq(flight, n + 1, Len(flight))
    /\ reader' = "flushing"
    /\ UNCHANGED <<vars, serverVars, link, received>>

\* The pieces up to the first newline.
FirstNewline == CHOOSE k \in DOMAIN buffer :
                  /\ Newline(buffer[k])
                  /\ \A j \in 1..(k - 1) : ~Newline(buffer[j])

\* parseNdjsonMessage of a text and the call of the sink: the text is a message
\* when it is the whole of one.
Give(text) ==
    LET whole == {m \in 1..Len(emitted) :
                    text = SubSeq(Line(m), 1, Parts - 1)}
    IN  IF whole = {}
        THEN reader' = "garbled" /\ UNCHANGED received
        ELSE \E m \in whole : /\ received' = Append(received, emitted[m])
                              /\ reader' = "sinking"

\* flushCompleteLines: the next whole line goes to the sink, a blank one is
\* passed over.
FlushLine ==
    /\ reader = "flushing"
    /\ \E k \in DOMAIN buffer : Newline(buffer[k])
    /\ IF FirstNewline = 1
       THEN UNCHANGED <<reader, received>>
       ELSE Give(SubSeq(buffer, 1, FirstNewline - 1))
    /\ buffer' = SubSeq(buffer, FirstNewline + 1, Len(buffer))
    /\ UNCHANGED <<vars, serverVars, flight, link>>

\* No whole line is left: the next chunk is read.
FlushEnds ==
    /\ reader = "flushing"
    /\ \A k \in DOMAIN buffer : ~Newline(buffer[k])
    /\ reader' = "reading"
    /\ UNCHANGED <<vars, serverVars, flight, link, buffer, received>>

\* The sink is awaited before the next line is looked at.  When it throws, the
\* reader's lock is released, and the rest of the response stays unread.
HostSinkEnds(threw) ==
    /\ reader = "sinking"
    /\ reader' = IF threw THEN "threw" ELSE "flushing"
    /\ UNCHANGED <<vars, serverVars, flight, link, buffer, received>>

\* Mutant of StreamDone: a connection that broke looks like the end.
StreamDoneOrLost ==
    /\ reader = "reading" /\ flight = <<>>
    /\ (response = "ended" /\ out = <<>>) \/ link = "lost"
    /\ IF buffer = <<>>
       THEN reader' = "resolved" /\ UNCHANGED received
       ELSE Give(buffer)
    /\ buffer' = <<>>
    /\ UNCHANGED <<vars, serverVars, flight, link>>

\* The response ends; text without a newline is the last message.
StreamDone ==
    /\ reader = "reading" /\ flight = <<>>
    /\ response = "ended" /\ out = <<>> /\ link = "up"
    /\ IF buffer = <<>>
       THEN reader' = "resolved" /\ UNCHANGED received
       ELSE Give(buffer)
    /\ buffer' = <<>>
    /\ UNCHANGED <<vars, serverVars, flight, link>>

\* Mutant of ReadFails: only fetch rejects.
FetchFails == /\ link = "lost" /\ reader = "fetching"
              /\ reader' = "failed"
              /\ UNCHANGED <<vars, serverVars, flight, link, buffer, received>>

\* A lost connection rejects fetch or read, and what was under way with it.
ReadFails == /\ link = "lost" /\ reader \in {"fetching", "reading"}
             /\ reader' = "failed"
             /\ UNCHANGED <<vars, serverVars, flight, link, buffer, received>>

-----------------------------------------------------------------------------
HttpInit == /\ Init
            /\ status = 0
            /\ response = "none"
            /\ out = <<>>
            /\ write = "none"
            /\ flight = <<>>
            /\ link = "up"
            /\ reader = "fetching"
            /\ buffer = <<>>
            /\ received = <<>>

Answer == \/ \E code \in RefusalStatus : TurnAway(code)
          \/ Preflight
          \/ SendHeaders

WriteEnds == Written \/ WriteFails

\* The chain goes on; its sink is the write.
ChainGoesOn == Write \/ InCall(Skipped \/ Drain \/ DrainEnds)

CloseResponse == EndResponse \/ DestroyResponse

HostReads == \/ FetchEnds
             \/ \E n \in 1..Window : Chunk(n)
             \/ FlushLine
             \/ FlushEnds
             \/ StreamDone
             \/ ReadFails

HttpNext == \/ Answer \/ Begin
            \/ InCall(ContextCall) \/ InCall(HandlerEnds)
            \/ ChainGoesOn \/ WriteEnds \/ CloseResponse
            \/ Transmit \/ Lose
            \/ HostReads
            \/ \E threw \in BOOLEAN : HostSinkEnds(threw)

HttpSpec == HttpInit /\ [][HttpNext]_httpVars

(***************************************************************************)
(* Fairness: the event loops of both sides run, the connection carries     *)
(* what it has room for, and the host's sink settles.  Nothing is assumed  *)
(* of a write that had stalled when the connection was lost: Node.js may   *)
(* call its callback without an error and emit no drain event, and then    *)
(* nothing settles it.                                                     *)
(***************************************************************************)
HttpFairSpec ==
    /\ HttpSpec
    /\ WF_httpVars(ChainGoesOn)
    /\ WF_httpVars(Written)
    /\ WF_httpVars(write # "stalls" /\ WriteFails)
    /\ WF_httpVars(CloseResponse)
    /\ WF_httpVars(Transmit)
    /\ WF_httpVars(HostReads)
    /\ WF_httpVars(\E threw \in BOOLEAN : HostSinkEnds(threw))

-----------------------------------------------------------------------------
(* Properties *)

HttpTypeOK ==
    /\ TypeOK
    /\ status \in {0, 200, 204} \cup RefusalStatus
    /\ response \in {"none", "streaming", "ended", "destroyed"}
    /\ out \in Seq(Piece)
    /\ write \in {"none", "flows", "stalls", "refused"}
    /\ flight \in Seq(Piece) /\ Len(flight) <= Window
    /\ link \in {"up", "lost"}
    /\ reader \in {"fetching", "reading", "flushing", "sinking",
                   "resolved", "refused", "failed", "threw", "garbled"}
    /\ buffer \in Seq(Piece)
    /\ received \in Seq(Message)

\* However the connection splits and joins the lines, the host never takes a
\* piece of a message, or two of them, for one.
NeverGarbled == reader # "garbled"

\* A host that reads slowly holds the adapter's messages back: never more than
\* one line waits in the response.
HeldBack == Len(out) <= Parts

\* The types, and what holds of the pieces of lines on their way.
HttpInv == HttpTypeOK /\ NeverGarbled /\ HeldBack

\* The stream is a channel from the handler's context to the host's sink: the
\* host gets the messages in the order they were emitted, and its promise
\* resolves only when it has every message emitted before the handler ended,
\* though the connection may break anywhere.
HostStream == INSTANCE Channel WITH
    sent <- emitted,
    closed <- phase \in {"draining", "resolved", "rejected"},
    due <- owed,
    cut <- reader \in {"refused", "failed", "threw", "garbled"},
    told <- reader = "resolved" /\ status = 200

HostIsChannel == HostStream!Spec

\* On a connection that holds, a host that reads on hears the end of the call
\* once its handler has ended: backpressure never locks the two sides.
StreamEnds ==
    phase = "ended" ~> \/ reader = "resolved"
                       \/ link = "lost" \/ reader = "threw"

\* When the connection breaks the host's promise settles.
HostSettles == link = "lost" ~> reader \in {"resolved", "refused", "failed",
                                            "threw"}

\* Both: the host learns how its call ended, or that it cannot learn it.
HostLearnsTheEnd == StreamEnds /\ HostSettles
=============================================================================
