----------------------------- MODULE LineStream -----------------------------
(***************************************************************************)
(* How the spectator gets lines out of the stream of its socket            *)
(* (network/src/socket/ClientSocket.cpp, gui/src/network/Client.cpp and    *)
(* gui/src/Core.cpp): every call of tryPopMessage receives once and takes  *)
(* at most one line from its buffer, and a frame is drawn when a call has  *)
(* found none.                                                             *)
(*                                                                         *)
(* A byte is the number of its line, or Newline.  The first line a server  *)
(* sends is its WELCOME; what the others may carry is in Protocol.         *)
(***************************************************************************)
EXTENDS Protocol

CONSTANTS
    Chunk,      \* the most recv returns at once: 4096
    MaxBuffer,  \* kMaxBufferSize: 50000
    MaxLines,   \* bound: lines the server sends
    MaxLine     \* bound: bytes of a line before its end

ASSUME StreamAssumption == {Chunk, MaxBuffer, MaxLines, MaxLine} \subseteq Nat

Newline == 0
Welcome == 1

VARIABLES
    sent,       \* how many lines the server has written
    transit,    \* bytes written and not received
    link,       \* the connection: "open", "closed" by the server, "broken" (reset, timed out),
                \* or "failed" once recv has told of it
    buffer,     \* ClientSocket::_buffer
    dispatched, \* the lines dispatched, in their order
    gui         \* "connecting", "updating", "drawing" or "gone"

streamVars == <<sent, transit, link, buffer, dispatched, gui>>

StreamInit ==
    /\ sent = 0 /\ transit = <<>> /\ link = "open"
    /\ buffer = <<>> /\ dispatched = <<>> /\ gui = "connecting"

ServerSends ==
    /\ sent < MaxLines /\ link = "open"
    /\ sent' = sent + 1
    /\ \E n \in 1 .. MaxLine : transit' = transit \o [i \in 1 .. n |-> sent + 1] \o <<Newline>>
    /\ UNCHANGED <<link, buffer, dispatched, gui>>

ServerHangsUp ==
    /\ link = "open" /\ link' = "closed"
    /\ UNCHANGED <<sent, transit, buffer, dispatched, gui>>

ConnectionBreaks ==
    /\ link \in {"open", "closed"} /\ link' = "broken"
    /\ UNCHANGED <<sent, transit, buffer, dispatched, gui>>

HasLine(b) == Newline \in ToSet(b)
LineOf(b)  == b[1]
Rest_WholeBuffer(b) == <<>>
FirstEnd(b) == CHOOSE k \in DOMAIN b : b[k] = Newline /\ \A j \in 1 .. k - 1 : b[j] # Newline
Rest(b)     == SubSeq(b, FirstEnd(b) + 1, Len(b))

\* tryPopMessage, when recv returns the next n bytes (none when there is nothing to read
\* yet), and what it finds; the caller goes on from there.
Received(n) == buffer \o SubSeq(transit, 1, n)

Found(n) == IF Len(Received(n)) > MaxBuffer THEN "overrun"
            ELSE IF HasLine(Received(n)) THEN "line" ELSE "nothing"

TryPop(n) ==
    /\ n <= Chunk /\ n <= Len(transit)
    /\ link # "failed" /\ ~(link = "closed" /\ transit = <<>>)
    /\ transit' = SubSeq(transit, n + 1, Len(transit))
    /\ buffer' = CASE Found(n) = "overrun" -> buffer
                   [] Found(n) = "line"     -> Rest(Received(n))
                   [] Found(n) = "nothing"  -> Received(n)
    /\ UNCHANGED <<sent, link>>

\* recv fails with neither EINTR nor EAGAIN: tryPopMessage swallows the exception and returns
\* nothing, whatever lines the buffer has, and the caller goes on as with no line.
RecvFails ==
    /\ gui \in {"connecting", "updating"}
    /\ link = "broken" /\ link' = "failed"
    /\ gui' = IF gui = "updating" THEN "drawing" ELSE gui
    /\ UNCHANGED <<sent, transit, buffer, dispatched>>

\* recv returns 0, at the end of the stream or once the failure has been told of: the
\* exception leaves Core::run, and the lines still in the buffer are lost.
Disconnected ==
    /\ gui \in {"connecting", "updating"}
    /\ link = "failed" \/ (link = "closed" /\ transit = <<>>)
    /\ gui' = "gone"
    /\ UNCHANGED <<sent, transit, link, buffer, dispatched>>

\* initNetwork: the first line must be WELCOME, and come within five seconds.
Connect(n) ==
    /\ gui = "connecting" /\ TryPop(n)
    /\ gui' = IF Found(n) = "nothing" THEN gui
              ELSE IF Found(n) = "line" /\ LineOf(Received(n)) = Welcome THEN "updating" ELSE "gone"
    /\ UNCHANGED dispatched

ConnectTimeout ==
    /\ gui = "connecting" /\ gui' = "gone"
    /\ UNCHANGED <<sent, transit, link, buffer, dispatched>>

\* One turn of the loop of Client::update.
UpdateClient(n) ==
    /\ gui = "updating" /\ TryPop(n)
    /\ IF Found(n) = "line"
       THEN dispatched' = Append(dispatched, LineOf(Received(n))) /\ UNCHANGED gui
       ELSE gui' = (IF Found(n) = "nothing" THEN "drawing" ELSE "gone") /\ UNCHANGED dispatched

RenderFrame ==
    /\ gui = "drawing" /\ gui' = "updating"
    /\ UNCHANGED <<sent, transit, link, buffer, dispatched>>

StreamNext ==
    \/ ServerSends \/ ServerHangsUp \/ ConnectionBreaks
    \/ RecvFails \/ Disconnected \/ ConnectTimeout \/ RenderFrame
    \/ \E n \in 0 .. Chunk : Connect(n) \/ UpdateClient(n)

StreamSpec == StreamInit /\ [][StreamNext]_streamVars

\* However the stream is cut into pieces, the lines after WELCOME are dispatched once
\* each and in their order; none of the others is missing from what the spectator has yet
\* to read, as long as it is there; and no frame is drawn while one that has been received
\* waits (docs/gui/core.md: "all pending server commands are dispatched before drawing"),
\* but for the one frame after recv has failed.
LinesComeThroughWhole ==
    /\ dispatched = [i \in 1 .. Len(dispatched) |-> i + 1]
    /\ gui \in {"updating", "drawing"} =>
          \A line \in Len(dispatched) + 2 .. sent : line \in ToSet(buffer \o transit)
    /\ gui = "drawing" => ~HasLine(buffer) \/ link = "failed"

\* A line that came through is read as what was written, field by field, whichever
\* message it carries, negative ids (the layer of an egg of the snapshot) and texts
\* of several words included; and so is what the spectator sends back.
MessagesArriveAsMeant == dispatched # <<>> => AllArrive

\* Between the server's call and the handler's, in pieces or several at once, no line is
\* repeated, overtaken, left waiting or misread, and none is lost before the connection's end.
\* At its end some are: those received with or after the last line that was dispatched.
LinesComeThrough == LinesComeThroughWhole /\ MessagesArriveAsMeant

=============================================================================
