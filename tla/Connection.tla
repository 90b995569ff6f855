----------------------------- MODULE Connection -----------------------------
(***************************************************************************)
(* The connection of an AI to the server (ai/src/Connection.py): the       *)
(* handshake, the thread that reads lines and sorts them into queues, the  *)
(* thread that sends commands and pairs answers with them, and the caller, *)
(* which hands in commands and fetches answers or stops waiting for them.  *)
(* What is locked together in the code is one action here.  Of the server  *)
(* there is what modules Player and Incantation say of one player: answers *)
(* in order, a ritual of its own or of another, and the lines nobody asked *)
(* for.  A line is a kind and the command it answers, 0 for none.          *)
(***************************************************************************)
EXTENDS Integers, SequencesExt

CONSTANTS
    MaxPending,     \* MAX_PENDING_COMMANDS; also the queue of the server, kMaxNbCmd
    MaxAsked,       \* bound: commands handed in
    MaxNews         \* bound: lines nobody asked for, and rituals of others

ASSUME ConnectionAssumption ==
    MaxPending \in Nat \ {0} /\ MaxAsked \in Nat /\ MaxNews \in Nat

VARIABLES
    stage,          \* "welcome", "number", "size" of the handshake, then "up", or "out"
    stream,         \* lines sent by the server and not yet read
    srv,            \* commands the server has and has not answered, and the current one
    ritual,         \* "none", "own" or "theirs"; "over" when the player is dead
    queue,          \* command_queue
    active,         \* active_requests, in the order of insertion
    responses,      \* command_responses
    response_buffer,\* answers to be fetched: <<command, command whose answer it is>>
    broadcasts,     \* how many are in broadcast_queue
    events,         \* event_queue
    running,
    next_id,        \* next_command_id
    news,           \* lines nobody asked for, so far
    unasked         \* history: those taken for an answer

connectionVars == <<stage, stream, srv, ritual, queue, active, responses, response_buffer,
                    broadcasts, events, running, next_id, news, unasked>>

callerVars == <<response_buffer, broadcasts, events, queue, next_id>>
serverVars == <<srv, ritual, news>>

Line(kind, id) == [kind |-> kind, for |-> id]
Request(cmd, id) == [cmd |-> cmd, id |-> id]
IdsOf(requests) == [i \in DOMAIN requests |-> requests[i].id]

ConnectionInit ==
    /\ stage = "welcome" /\ stream = <<Line("welcome", 0)>>
    /\ srv = <<>> /\ ritual = "none" /\ news = 0
    /\ queue = <<>> /\ active = <<>> /\ responses = <<>> /\ response_buffer = {}
    /\ broadcasts = 0 /\ events = <<>> /\ running = FALSE /\ next_id = 0 /\ unasked = 0

-----------------------------------------------------------------------------
(* The server.                                                             *)

Sends(kind, id) == stream' = Append(stream, Line(kind, id))

clientRest == UNCHANGED <<stage, queue, active, responses, response_buffer, broadcasts, events,
                          running, next_id>>

\* The server has let the player in, and it is alive.
InGame == stage \in {"number", "size", "up"} /\ Line("refused", 0) \notin ToSet(stream) /\ ritual # "over"

AnswersCommand ==
    /\ ritual = "none" /\ srv # <<>>
    /\ \/ Sends("answer", Head(srv).id) /\ srv' = Tail(srv) /\ UNCHANGED ritual
       \/ /\ Head(srv).cmd = "Incantation"      \* start() accepts it
          /\ Sends("underway", 0) /\ ritual' = "own" /\ UNCHANGED srv
    /\ UNCHANGED <<news, unasked>> /\ clientRest

OwnRitualEnds ==
    /\ ritual = "own" /\ ritual' = "none" /\ srv' = Tail(srv)
    /\ \E kind \in {"level", "answer"} : Sends(kind, Head(srv).id)
    /\ UNCHANGED <<news, unasked>> /\ clientRest

IsFrozen ==
    /\ InGame /\ ritual = "none" /\ news < MaxNews
    /\ ritual' = "theirs" /\ news' = news + 1
    /\ Sends("underway", 0)
    /\ UNCHANGED <<srv, unasked>> /\ clientRest

\* A ritual that fails sends its "ko" to everybody who was in it.
TheirRitualEnds ==
    /\ ritual = "theirs" /\ ritual' = "none"
    /\ \/ Sends("level", 0) /\ UNCHANGED unasked
       \/ Sends("answer", 0) /\ unasked' = unasked + 1
    /\ UNCHANGED <<srv, news>> /\ clientRest

\* The direction of an eject line is a word, and parse_server_message wants a number:
\* the line falls through to the answers.
SendsNews ==
    /\ InGame /\ news < MaxNews /\ news' = news + 1
    /\ \/ Sends("message", 0) /\ UNCHANGED <<unasked, ritual>>
       \/ Sends("answer", 0) /\ unasked' = unasked + 1 /\ UNCHANGED ritual
       \/ Sends("dead", 0) /\ ritual' = "over" /\ UNCHANGED unasked
    /\ UNCHANGED srv /\ clientRest

-----------------------------------------------------------------------------
(* do_handshake and the loop around it.                                    *)

\* send_raw_command(team_name), and what the server makes of it.
HearsWelcome ==
    /\ stage = "welcome" /\ Head(stream).kind = "welcome"
    /\ stage' = "number"
    /\ \/ stream' = <<Line("number", 0), Line("size", 0)>>
       \/ stream' = <<Line("refused", 0)>>
    /\ UNCHANGED <<running, active, responses, unasked>> /\ UNCHANGED callerVars /\ UNCHANGED serverVars

\* No slot: a new socket, until connect_timeout has passed.
IsRefused ==
    /\ stage = "number" /\ Head(stream).kind = "refused"
    /\ \/ stage' = "welcome" /\ stream' = <<Line("welcome", 0)>>
       \/ stage' = "out" /\ stream' = <<>>
    /\ UNCHANGED <<running, active, responses, unasked>> /\ UNCHANGED callerVars /\ UNCHANGED serverVars

HearsNumber ==
    /\ stage = "number" /\ Head(stream).kind = "number"
    /\ stage' = "size" /\ stream' = Tail(stream)
    /\ UNCHANGED <<running, active, responses, unasked>> /\ UNCHANGED callerVars /\ UNCHANGED serverVars

\* What recv returned beyond the third line is forgotten with the local buffer.  A line
\* of which only the beginning was there comes to the reader as a line of its own.
HearsSize ==
    /\ stage = "size" /\ stage' = "up" /\ running' = TRUE
    /\ \E n \in 1 .. Len(stream) :
          LET kept == SubSeq(stream, n + 1, Len(stream)) IN
          \/ stream' = kept /\ UNCHANGED unasked
          \/ /\ kept # <<>>
             /\ stream' = <<Line("answer", 0)>> \o Tail(kept)
             /\ unasked' = unasked + (IF Head(kept) = Line("answer", 0) THEN 0 ELSE 1)
    /\ UNCHANGED <<active, responses>> /\ UNCHANGED callerVars /\ UNCHANGED serverVars

-----------------------------------------------------------------------------
(* The reader thread: one turn for a line.                                 *)

HasIncantation == \E r \in ToSet(active) : r.cmd = "Incantation"

Reads(kind) == running /\ stream # <<>> /\ Head(stream).kind = kind /\ stream' = Tail(stream)

readerRest == UNCHANGED <<stage, queue, active, response_buffer, next_id>> /\ UNCHANGED serverVars

ReadAnswer ==
    /\ Reads("answer")
    /\ responses' = Append(responses, Head(stream).for)
    /\ UNCHANGED <<broadcasts, events, running, unasked>> /\ readerRest

\* "Current level" is an event, and an answer too while some Incantation has none.
ReadLevel ==
    /\ Reads("level")
    /\ events' = Append(events, "elevation")
    /\ IF HasIncantation
       THEN /\ responses' = Append(responses, Head(stream).for)
            /\ unasked' = unasked + (IF Head(stream).for = 0 THEN 1 ELSE 0)
       ELSE UNCHANGED <<responses, unasked>>
    /\ UNCHANGED <<broadcasts, running>> /\ readerRest

ReadPending ==
    /\ Reads("underway")
    /\ UNCHANGED <<responses, broadcasts, events, running, unasked>> /\ readerRest

ReadMessage ==
    /\ Reads("message") /\ broadcasts' = broadcasts + 1
    /\ UNCHANGED <<responses, events, running, unasked>> /\ readerRest

\* The last line there is.
ReadDead ==
    /\ Reads("dead") /\ running' = FALSE /\ events' = Append(events, "dead")
    /\ UNCHANGED <<responses, broadcasts, unasked>> /\ readerRest

-----------------------------------------------------------------------------
(* The thread of run_receive_poll_cmd.                                     *)

\* The first key of active_requests.
Paired == Head(active)

\* process_incoming_responses, one line: also after running, once.
PairAnswer ==
    /\ stage = "up" /\ responses # <<>> /\ responses' = Tail(responses)
    /\ IF active = <<>>         \* unexpected: dropped
       THEN UNCHANGED <<active, response_buffer>>
       ELSE /\ active' = Tail(active)
            /\ response_buffer' = response_buffer \cup {<<Paired.id, Head(responses)>>}
    /\ UNCHANGED <<stage, stream, queue, broadcasts, events, running, next_id, unasked>>
    /\ UNCHANGED serverVars

\* A send that fails leaves its command first in the queue.
Undo_Last(q) == Append(Tail(q), Head(q))

Undo(q) == q

\* send_cmd_buffer: n commands get through, then the limit, the end or an error.  Beyond
\* its own limit the server forgets a command.
SendCmdBuffer ==
    /\ running /\ queue # <<>>
    /\ \E n \in 0 .. Len(queue) :
          LET sent == SubSeq(queue, 1, n)
              rest == SubSeq(queue, n + 1, Len(queue))
          IN /\ Len(active) + n <= MaxPending
             /\ active' = active \o sent
             /\ queue' = IF rest # <<>> /\ Len(active) + n < MaxPending THEN Undo(rest) ELSE rest
             /\ srv' = LET all == srv \o sent
                       IN SubSeq(all, 1, IF Len(all) < MaxPending THEN Len(all) ELSE MaxPending)
    /\ UNCHANGED <<stage, stream, ritual, responses, response_buffer, broadcasts, events, running,
                   next_id, news, unasked>>

-----------------------------------------------------------------------------
(* The caller.                                                             *)

SendCommand(cmd) ==
    /\ running /\ next_id < MaxAsked
    /\ next_id' = next_id + 1
    /\ queue' = Append(queue, Request(cmd, next_id'))
    /\ UNCHANGED <<stage, stream, active, responses, response_buffer, broadcasts, events, running,
                   unasked>>
    /\ UNCHANGED serverVars

\* get_command_response in time.  When it is not, nothing changes: the request stays
\* active, and its answer stays in the buffer when it comes.
GetCommandResponse ==
    /\ \E r \in response_buffer : response_buffer' = response_buffer \ {r}
    /\ UNCHANGED <<stage, stream, queue, active, responses, broadcasts, events, running, next_id,
                   unasked>>
    /\ UNCHANGED serverVars

\* get_broadcasts, and process_server_events over get_next_event.
GetNews ==
    /\ broadcasts + Len(events) > 0 /\ broadcasts' = 0 /\ events' = <<>>
    /\ running' = (running /\ "dead" \notin ToSet(events))
    /\ UNCHANGED <<stage, stream, queue, active, responses, response_buffer, next_id, unasked>>
    /\ UNCHANGED serverVars

ConnectionNext ==
    \/ AnswersCommand \/ OwnRitualEnds \/ IsFrozen \/ TheirRitualEnds \/ SendsNews
    \/ HearsWelcome \/ IsRefused \/ HearsNumber \/ HearsSize
    \/ ReadAnswer \/ ReadLevel \/ ReadPending \/ ReadMessage \/ ReadDead
    \/ PairAnswer \/ SendCmdBuffer
    \/ \E cmd \in {"Look", "Incantation"} : SendCommand(cmd)
    \/ GetCommandResponse \/ GetNews

-----------------------------------------------------------------------------
(* Refinement.                                                             *)

\* The places of the lines that the reader will take for answers.
Answers(lines) ==
    {i \in DOMAIN lines : lines[i].kind = "answer" \/ (lines[i].kind = "level" /\ lines[i].for # 0)}

\* The answers already read, those on the way and those the server still owes are, in
\* order, one for each of the requests.
InOrder(read, lines, owed, requests) ==
    \E n \in 0 .. Len(requests) :
        /\ Len(requests) = Len(read) + n + Len(owed)
        /\ \A k \in DOMAIN read : read[k] = requests[k].id
        /\ \E at \in [1 .. n -> Answers(lines)] :
              /\ \A j, k \in 1 .. n : j < k => at[j] < at[k]
              /\ Answers(lines) = {at[k] : k \in 1 .. n}
              /\ \A k \in 1 .. n : lines[at[k]].for = requests[Len(read) + k].id
        /\ \A k \in DOMAIN owed : owed[k].id = requests[Len(read) + n + k].id

Pipe == INSTANCE CommandPipe WITH
    Ids    <- 1 .. MaxAsked,
    asked  <- IdsOf(active \o queue),
    given  <- response_buffer,
    inStep <- InOrder(responses, stream, srv, active),
    strays <- unasked

\* The connection keeps what it promises: answers go to their commands in order, and only
\* a line nobody asked for puts them out of step.
AnswersArePaired == Pipe!PipeSpec

=============================================================================
