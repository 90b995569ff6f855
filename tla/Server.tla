------------------------------- MODULE Server -------------------------------
(***************************************************************************)
(* The turns of Core::loop (server/src/Core.cpp) over the connections that *)
(* SessionManager keeps (network/src/SessionManager.cpp): which client is  *)
(* which player, how lines become commands, how answers reach the write    *)
(* buffers, how the dead and the departed are removed, and what an         *)
(* exception in the middle of a turn leaves undone.                        *)
(*                                                                         *)
(* The server is one thread.  A turn is poll, tick, events, flush, and an  *)
(* exception ends it where it is.  Clients are known by their descriptor,  *)
(* which the kernel hands out again once it is closed; history variables   *)
(* number the connections to tell the users of a descriptor apart.  All    *)
(* messages have size one.                                                 *)
(***************************************************************************)
EXTENDS Integers, Sequences, FiniteSets, SequencesExt

CONSTANTS
    Fds,                \* descriptors the kernel may hand out
    kMaxBufferSize,     \* messages a write buffer holds
    kMaxNbCmd,          \* commands a player may have unanswered
    InitialState,       \* messages a new spectator is sent at once
    MaxConnections,     \* bound: connections accepted
    MaxQueue,           \* bound: a client sends nothing beyond this many events
    MaxLines            \* bound: lines of one connection that wait to be handled

ASSUME ServerAssumption ==
    /\ Fds # {} /\ IsFiniteSet(Fds)
    /\ {kMaxBufferSize, kMaxNbCmd, InitialState} \subseteq Nat \ {0}
    /\ {MaxConnections, MaxQueue, MaxLines} \subseteq Nat

VARIABLES
    phase,              \* where Core::loop is in its turn
    polled,             \* the connection this poll has dealt with last, 0 if none
    client,             \* _clients: the connection open on a descriptor, 0 if none
    writeBuffer,        \* _writeBuffers; POLLOUT is asked for while it is not empty
    eventQueue,         \* _eventQueue
    clientStates,       \* _clientStates
    clientToPlayer,     \* _clientToPlayer, 0 if none
    player,             \* _playerList: isDead, commands unanswered (load), answers to send
    guiEvents,          \* whether events wait for the spectators
    connections         \* history: connections accepted so far

netVars  == <<polled, client, writeBuffer, connections>>
coreVars == <<clientStates, clientToPlayer>>
gameVars == <<player, guiEvents>>
vars == <<phase, netVars, eventQueue, coreVars, gameVars>>

\* A player is numbered by the connection that hatched it.
Players == DOMAIN player
Living  == {id \in Players : ~player[id].isDead}
NewPlayer == [isDead |-> FALSE, load |-> 0, buffer |-> 0]

Event(t, f) == [type |-> t, fd |-> f, by |-> client[f]]

Init ==
    /\ phase = "poll" /\ polled = 0
    /\ client = [f \in Fds |-> 0] /\ writeBuffer = [f \in Fds |-> 0]
    /\ eventQueue = <<>>
    /\ clientStates = [f \in Fds |-> "NONE"] /\ clientToPlayer = [f \in Fds |-> 0]
    /\ player = <<>> /\ guiEvents = FALSE
    /\ connections = 0

-----------------------------------------------------------------------------
(* SessionManager: sends and disconnections.                               *)

Open(f) == client[f] # 0

Fits_BeforeIt(f, n) == ~Open(f) \/ writeBuffer[f] <= kMaxBufferSize

\* sendMessage of n messages in a row; a closed descriptor swallows them.
Fits(f, n) == ~Open(f) \/ writeBuffer[f] + n <= kMaxBufferSize

Sent(S, n) == [f \in Fds |-> IF f \in S /\ Open(f) THEN writeBuffer[f] + n[f] ELSE writeBuffer[f]]

Disconnected_Silent(f, queue) == queue

\* disconnectClient: the descriptor is free at once, Core is told by an event
\* behind those already waiting in queue.
Disconnected(f, queue) == IF Open(f) THEN Append(queue, Event("DISCONNECTED", f)) ELSE queue
Closed(f)              == [client EXCEPT ![f] = 0]
Drained(f)             == [writeBuffer EXCEPT ![f] = 0]

\* A turn ends after its last step, or where an exception leaves it.
NextTurn == phase' = "poll" /\ polled' = 0

\* Sends n[f] messages to every f in S, while queue is what waits in the queue.  The
\* loop reaches everyone, or it stops at a client whose buffer is full: some were
\* served before it, the others are not.
SendAll(S, n, queue) ==
    /\ \A f \in S : Fits(f, n[f])
    /\ writeBuffer' = Sent(S, n) /\ eventQueue' = queue
    /\ UNCHANGED <<client, connections>>

SendThrows(S, n, queue) ==
    \E f \in S : \E served \in SUBSET (S \ {f}) :
        /\ ~Fits(f, n[f]) /\ \A g \in served : Fits(g, n[g])
        /\ writeBuffer' = [Sent(served, n) EXCEPT ![f] = 0]
        /\ client' = Closed(f) /\ eventQueue' = Disconnected(f, queue)
        /\ NextTurn /\ UNCHANGED connections

Times(n) == [f \in Fds |-> n]

-----------------------------------------------------------------------------
(* pollNetwork: the clients that are ready, from the last accepted to the  *)
(* first, and the listening socket after them.                             *)

Poll(f) ==
    /\ phase = "poll" /\ Open(f)
    /\ polled = 0 \/ client[f] < polled
    /\ polled' = client[f]

\* The bound on what the clients send.
MaySend(f) ==
    /\ Len(eventQueue) < MaxQueue
    /\ Cardinality({i \in DOMAIN eventQueue : eventQueue[i] = Event("RECEIVED", f)}) < MaxLines

\* handleClientRead: a complete line or part of one; the buffer may go out as well.
PollRead(f) ==
    /\ Poll(f)
    /\ \/ UNCHANGED eventQueue
       \/ MaySend(f) /\ eventQueue' = Append(eventQueue, Event("RECEIVED", f))
    /\ writeBuffer' \in {writeBuffer, Drained(f)}
    /\ UNCHANGED <<phase, client, connections, coreVars, gameVars>>

\* handleClientWrite.
PollWrite(f) ==
    /\ Poll(f) /\ writeBuffer[f] > 0
    /\ writeBuffer' = Drained(f)
    /\ UNCHANGED <<phase, eventQueue, client, connections, coreVars, gameVars>>

\* POLLHUP, or an error of recv; or of send, after something may have been read.
PollHangup(f) ==
    /\ Poll(f)
    /\ \E queue \in {eventQueue, Append(eventQueue, Event("RECEIVED", f))} :
          /\ queue # eventQueue => MaySend(f)
          /\ eventQueue' = Disconnected(f, queue)
    /\ client' = Closed(f) /\ writeBuffer' = Drained(f)
    /\ UNCHANGED <<phase, connections, coreVars, gameVars>>

\* acceptNewConnection, for at most one client per poll.
PollAccept(f) ==
    /\ phase = "poll" /\ ~Open(f)
    /\ connections < MaxConnections
    /\ connections' = connections + 1
    /\ client' = [client EXCEPT ![f] = connections']
    /\ eventQueue' = Append(eventQueue, [type |-> "CONNECTED", fd |-> f, by |-> connections'])
    /\ phase' = "tick"
    /\ UNCHANGED <<polled, writeBuffer, coreVars, gameVars>>

\* Without a living player there is no next tick and poll waits for the network.
PollEnd ==
    /\ phase = "poll"
    /\ polled # 0 \/ Living # {}
    /\ phase' = "tick"
    /\ UNCHANGED <<netVars, eventQueue, coreVars, gameVars>>

-----------------------------------------------------------------------------
(* processGameTick: a player gets an answer, hears something, or dies,     *)
(* which drops the answers it had (Player::kill).                          *)

Answered(p) == [p EXCEPT !.load = @ - 1, !.buffer = @ + 1]
Heard(p)    == [p EXCEPT !.buffer = @ + 1]
Killed(p)   == [p EXCEPT !.isDead = TRUE, !.buffer = 1]

\* Buffers of answers are kept as short as write buffers.
HasRoom(p) == p.buffer < kMaxBufferSize

Tick ==
    /\ phase = "tick"
    /\ phase' = "events"
    /\ \/ UNCHANGED gameVars
       \/ \E id \in Living :
            /\ guiEvents' = TRUE
            /\ \/ player' = [player EXCEPT ![id] = Killed(@)]
               \/ /\ player[id].load > 0 /\ HasRoom(player[id])
                  /\ player' = [player EXCEPT ![id] = Answered(@)]
       \/ \E id \in Players :
            /\ Living # {} /\ HasRoom(player[id])
            /\ player' = [player EXCEPT ![id] = Heard(@)]
            /\ guiEvents' = TRUE
    /\ UNCHANGED <<netVars, eventQueue, coreVars>>

\* A command that throws (Incantation::start, Incantation.cpp:30) stays the current
\* one and throws out of World::update until its player has starved.
TickThrows ==
    /\ phase = "tick" /\ \E id \in Living : player[id].load > 0
    /\ NextTurn
    /\ UNCHANGED <<eventQueue, client, writeBuffer, connections, coreVars, gameVars>>

-----------------------------------------------------------------------------
(* processNetworkEvents, one event at a time.                              *)

Rest    == Tail(eventQueue)
Dequeue == eventQueue' = Rest

\* Sends to S are the last thing the handling of the current event does.
Reply(S, n) ==
    \/ SendAll(S, Times(n), Rest) /\ UNCHANGED <<phase, polled>>
    \/ SendThrows(S, Times(n), Rest)

Handling(type, f) ==
    /\ phase = "events" /\ eventQueue # <<>>
    /\ Head(eventQueue).type = type /\ Head(eventQueue).fd = f

\* handleNewClient; emplace comes after the send, and keeps a state that is there.
HandleNewClient(f) ==
    /\ Handling("CONNECTED", f)
    /\ Reply({f}, 1)
    /\ clientStates' = [clientStates EXCEPT ![f] = IF @ = "NONE" /\ Fits(f, 1) THEN "WAITING" ELSE @]
    /\ UNCHANGED <<clientToPlayer, gameVars>>

\* handleHandshake, "GRAPHIC".
BecomeSpectator(f) ==
    /\ Handling("RECEIVED", f) /\ clientStates[f] = "WAITING"
    /\ clientStates' = [clientStates EXCEPT ![f] = "GUI"]
    /\ Reply({f}, InitialState)
    /\ UNCHANGED <<clientToPlayer, gameVars>>

\* handleHandshake, the name of a team that has an egg.  The new player is told to
\* the spectators only if the answer to its client could be sent.
BecomePlayer(f) ==
    LET id == Head(eventQueue).by IN
    /\ Handling("RECEIVED", f) /\ clientStates[f] = "WAITING"
    /\ player' = [i \in Players \cup {id} |-> IF i = id THEN NewPlayer ELSE player[i]]
    /\ clientToPlayer' = [clientToPlayer EXCEPT ![f] = id]
    /\ clientStates' = [clientStates EXCEPT ![f] = "IN_GAME"]
    /\ Reply({f}, 1)
    /\ guiEvents' = (guiEvents \/ Fits(f, 1))

\* handleHandshake, no such team or no egg left.
Refuse(f) ==
    /\ Handling("RECEIVED", f) /\ clientStates[f] = "WAITING"
    /\ Reply({f}, 1)
    /\ UNCHANGED <<coreVars, gameVars>>

Spectators == {f \in Fds : clientStates[f] = "GUI"}

\* handleGuiMessage; the answer to sst goes to all spectators.
HandleGuiMessage(f) ==
    /\ Handling("RECEIVED", f) /\ clientStates[f] = "GUI"
    /\ Reply({f}, 1) \/ Reply(Spectators, 1)
    /\ UNCHANGED <<coreVars, gameVars>>

\* handleClientMessage and handleInGameMessage find nobody the line is for.
IgnoreMessage(f) ==
    /\ Handling("RECEIVED", f)
    /\ clientStates[f] \in {"NONE", "IN_GAME"} /\ clientToPlayer[f] = 0
    /\ Dequeue
    /\ UNCHANGED <<phase, netVars, coreVars, gameVars>>

\* handleInGameMessage: the command waits its turn or is answered at once.
PushCommand(f) ==
    LET id == clientToPlayer[f] IN
    /\ Handling("RECEIVED", f) /\ clientStates[f] = "IN_GAME" /\ id # 0
    /\ player[id].load < kMaxNbCmd
    /\ \/ player' = [player EXCEPT ![id].load = @ + 1]
       \/ /\ player[id].load = 0 /\ HasRoom(player[id])
          /\ player' = [player EXCEPT ![id].buffer = @ + 1]
    /\ Dequeue
    /\ UNCHANGED <<phase, netVars, coreVars, guiEvents>>

\* handleInGameMessage: TooMuchCmd, or a command that throws as it starts, leaves
\* processNetworkEvents and the turn.
PushThrows(f) ==
    LET id == clientToPlayer[f] IN
    /\ Handling("RECEIVED", f) /\ clientStates[f] = "IN_GAME" /\ id # 0
    /\ \/ player[id].load = kMaxNbCmd /\ UNCHANGED player
       \/ player[id].load = 0 /\ player' = [player EXCEPT ![id].load = 1]
    /\ Dequeue /\ NextTurn
    /\ UNCHANGED <<client, writeBuffer, connections, coreVars, guiEvents>>

RemovePlayers_Kept(ids) == UNCHANGED player

\* World::removePlayer, for each of ids.
RemovePlayers(ids) == player' = [i \in Players \ ids |-> player[i]]

Unmapped_StateOnly(f) == UNCHANGED clientToPlayer

Unmapped(f) == clientToPlayer' = [clientToPlayer EXCEPT ![f] = 0]

HandleClientDisconnection(f) ==
    /\ Handling("DISCONNECTED", f)
    /\ Dequeue
    /\ clientStates' = [clientStates EXCEPT ![f] = "NONE"]
    /\ IF clientToPlayer[f] = 0
       THEN UNCHANGED <<clientToPlayer, gameVars>>
       ELSE Unmapped(f) /\ RemovePlayers({clientToPlayer[f]}) /\ guiEvents' = TRUE
    /\ UNCHANGED <<phase, netVars>>

Handle(f) ==
    \/ HandleNewClient(f) \/ BecomeSpectator(f) \/ BecomePlayer(f) \/ Refuse(f)
    \/ HandleGuiMessage(f) \/ IgnoreMessage(f) \/ PushCommand(f) \/ PushThrows(f)
    \/ HandleClientDisconnection(f)

-----------------------------------------------------------------------------
(* flushPlayerResponses and flushGuiResponses.                             *)

Answers == [f \in Fds |-> IF clientToPlayer[f] = 0 THEN 0 ELSE player[clientToPlayer[f]].buffer]

\* getAllResponsesBuffer empties every buffer before the first send.
FlushPlayerResponses ==
    /\ phase = "events" /\ eventQueue = <<>>
    /\ player' = [id \in Players |-> [player[id] EXCEPT !.buffer = 0]]
    /\ LET S == {f \in Fds : Answers[f] > 0}
       IN  \/ SendAll(S, Answers, eventQueue) /\ phase' = "bury" /\ UNCHANGED polled
           \/ SendThrows(S, Answers, eventQueue)
    /\ UNCHANGED <<coreVars, guiEvents>>

\* The second half of flushPlayerResponses: the dead leave, but those whose
\* client still has something to be sent wait for another turn.  Every player has a
\* client (PlayersHaveClients), so the branch for one that has none is left out.
IsWriting(f)  == writeBuffer[f] # 0
Removable(id) == player[id].isDead /\ \A f \in Fds : clientToPlayer[f] = id => ~IsWriting(f)

BuryDead ==
    LET dead == {id \in Players : Removable(id)}
        gone == {f \in Fds : clientToPlayer[f] \in dead}
    IN
    /\ phase = "bury" /\ phase' = "gui"
    /\ client' = [f \in Fds |-> IF f \in gone THEN 0 ELSE client[f]]
    /\ \E order \in SetToSeqs({f \in gone : Open(f)}) :
          eventQueue' = eventQueue \o [i \in DOMAIN order |-> Event("DISCONNECTED", order[i])]
    /\ clientToPlayer' = [f \in Fds |-> IF f \in gone THEN 0 ELSE clientToPlayer[f]]
    /\ RemovePlayers(dead) /\ guiEvents' = (guiEvents \/ dead # {})
    /\ UNCHANGED <<polled, writeBuffer, connections, clientStates>>

FlushGuiResponses ==
    /\ phase = "gui"
    /\ guiEvents' = FALSE
    /\ LET S == IF guiEvents THEN Spectators ELSE {}
       IN  \/ SendAll(S, Times(1), eventQueue) /\ NextTurn
           \/ SendThrows(S, Times(1), eventQueue)
    /\ UNCHANGED <<coreVars, player>>

Loop ==
    \/ PollEnd \/ Tick \/ TickThrows \/ FlushPlayerResponses \/ BuryDead \/ FlushGuiResponses
    \/ \E f \in Fds : Handle(f)

Network == \E f \in Fds : PollRead(f) \/ PollWrite(f) \/ PollHangup(f) \/ PollAccept(f)

Next == Loop \/ Network

\* The loop goes on as long as poll returns, and World::update succeeds again and
\* again, since a player whose command throws in it starves.  The clients owe nothing.
Spec == Init /\ [][Next]_vars /\ WF_vars(Loop) /\ SF_vars(Tick)

-----------------------------------------------------------------------------
(* Properties.                                                             *)

TypeOK ==
    /\ phase \in {"poll", "tick", "events", "bury", "gui"}
    /\ polled \in 0 .. connections
    /\ client \in [Fds -> 0 .. connections]
    /\ writeBuffer \in [Fds -> 0 .. kMaxBufferSize]
    /\ \A f \in Fds : ~Open(f) => writeBuffer[f] = 0
    /\ eventQueue \in Seq([type : {"CONNECTED", "RECEIVED", "DISCONNECTED"}, fd : Fds, by : 1 .. connections])
    /\ clientStates \in [Fds -> {"NONE", "WAITING", "IN_GAME", "GUI"}]
    /\ clientToPlayer \in [Fds -> 0 .. connections]
    /\ player \in [Players -> [isDead : BOOLEAN, load : 0 .. kMaxNbCmd, buffer : 0 .. kMaxBufferSize]]
    /\ guiEvents \in BOOLEAN /\ connections \in Nat

\* Wherever an exception cuts a turn short, every player in the world belongs to
\* exactly one client and every client in the game has its player: a player nobody
\* can reach would hold a slot of its team until it starves, and a client without
\* its player makes World::pushCommandToPlayer throw from at().
PlayersHaveClients ==
    /\ Players = {clientToPlayer[f] : f \in Fds} \ {0}
    /\ \A f, g \in Fds : clientToPlayer[f] = clientToPlayer[g] /\ f # g => clientToPlayer[f] = 0
    /\ \A f \in Fds : clientToPlayer[f] # 0 => clientStates[f] = "IN_GAME"

\* A player whose connection is gone is still going to be removed: the event that
\* says so waits in the queue, before anything a new user of the descriptor sent.
DepartureIsKnown ==
    \A f \in Fds : clientToPlayer[f] # 0 /\ client[f] # clientToPlayer[f] =>
        \E i \in DOMAIN eventQueue :
            /\ eventQueue[i] = [type |-> "DISCONNECTED", fd |-> f, by |-> clientToPlayer[f]]
            /\ \A j \in 1 .. i : eventQueue[j].fd = f => eventQueue[j].by = clientToPlayer[f]

\* A descriptor is reused while events of its former user are still waiting, after
\* an exception even across several turns: no line ever reaches a player that
\* another connection hatched.
CommandsReachTheirOwner ==
    [][\A f \in Fds : (PushCommand(f) \/ PushThrows(f)) =>
          Head(eventQueue).by = clientToPlayer[f]]_vars

\* poll(-1): nobody lives, and the loop waits for the network alone.
Asleep == phase = "poll" /\ Living = {}

\* Whatever other clients do, and however often exceptions cut turns short, a player
\* whose connection is gone leaves the world; when nobody lives this may take until
\* something else happens on the network.
DepartedAreRemoved ==
    \A id \in 1 .. MaxConnections :
        (id \in Players /\ \A f \in Fds : client[f] # id) ~> (id \notin Players \/ Asleep)

\* docs/server/core.md:15: "The flush functions execute continuously on every loop
\* iteration", and game_engine.md:26: an 11th command is "silently" dropped.
Unflushed(id) == id \in Players /\ player[id].buffer # 0 /\ \E f \in Fds : client[f] = id

AnswersAreFlushed == \A id \in 1 .. MaxConnections : Unflushed(id) ~> ~Unflushed(id)

=============================================================================
