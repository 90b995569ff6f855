---------------------------- MODULE PlayerProofs ----------------------------
(***************************************************************************)
(* Theorems about module Player, for every length of a life, every limit   *)
(* on the queue and every duration of the commands.                        *)
(*                                                                         *)
(* All of them rest on one inductive invariant, PlayerInv.  What the       *)
(* checked invariants lack is the meaning of cmdTick: that due, the ticks  *)
(* left by the clock, is cmdTick plus the tick the flag _isNewCommand will *)
(* skip, and that commands are numbered in the order they stand in line.   *)
(***************************************************************************)
EXTENDS Player, SequenceTheorems, FunctionTheorems, FiniteSetTheorems, TLAPS

USE DEF Kinds

\* The ticks left to the current command, as Player::update counts them.
CountdownInv == due = IF cmdTick > 0 THEN cmdTick + (IF isNewCommand THEN 1 ELSE 0) ELSE 0

\* The queue holds the last commands accepted, behind the current one.
NumberInv ==
    /\ \A i \in DOMAIN commands : commands[i].n = accepted - Len(commands) + i
    /\ currentCommand # <<>> => currentCommand[1].n = accepted - Len(commands)

AliveInv == ~isDead => lifeTick >= 1

PlayerInv ==
    /\ TypeOK
    /\ QueueIsBounded
    /\ NoLostWakeup
    /\ CountdownInv
    /\ NumberInv
    /\ AliveInv

-----------------------------------------------------------------------------
(* The loop of tryStartNextCommand.                                        *)

LEMMA ResponseTypes ==
    /\ \A c \in Command : Reply(c) \in Response /\ Underway(c) \in Seq(Response)
    /\ \A t \in {"event", "underway", "level", "ko", "dead"} : Message(t) \in Response
<1>1. \A t \in {"event", "underway", "level", "ko", "dead"} : Message(t) \in Response
  BY DEF Message, Response
<1>2. \A c \in Command : Reply(c) \in Response
  BY DEF Reply, Response, Command
<1>3. \A m \in Response : <<m>> \in Seq(Response)
  OBVIOUS
<1>4. \A c \in Command : Underway(c) \in Seq(Response)
  BY <1>1, <1>3, EmptySeq DEF Underway
<1> QED BY <1>1, <1>2, <1>4

LEMMA AnswersType ==
    ASSUME NEW done \in Seq(Command), NEW f, NEW lvl
    PROVE  Answers(done, f, lvl) \in Seq(Response)
<1> DEFINE a == [i \in 1 .. Len(done) |-> Reply(done[i])]
<1>1. Len(done) \in Nat /\ DOMAIN done = 1 .. Len(done)
  OBVIOUS
<1>2. \A i \in 1 .. Len(done) : Reply(done[i]) \in Response
  BY ResponseTypes, ElementOfSeq
<1>3. a \in [1 .. Len(done) -> Response]
  BY <1>2
<1>4. a \in Seq(Response)
  BY <1>1, <1>3, SeqDef
<1>5. Answers(done, f, lvl) = a
  BY <1>1 DEF Answers
<1> QED BY <1>4, <1>5

\* q is the end of the line in which last stands at the end.
Numbered(q, last) == \A i \in DOMAIN q : q[i].n = last - Len(q) + i

LEMMA RestOfQueue ==
    ASSUME NEW q \in Seq(Command), NEW last \in Nat, Numbered(q, last),
           NEW k \in Nat, k < Len(q)
    PROVE  /\ SubSeq(q, k + 2, Len(q)) \in Seq(Command)
           /\ Len(SubSeq(q, k + 2, Len(q))) = Len(q) - k - 1
           /\ Numbered(SubSeq(q, k + 2, Len(q)), last)
           /\ q[k + 1] \in Command
           /\ q[k + 1].n = last - Len(SubSeq(q, k + 2, Len(q)))
<1> DEFINE rest == SubSeq(q, k + 2, Len(q))
<1>1. Len(q) \in Nat /\ DOMAIN q = 1 .. Len(q) /\ k + 1 \in DOMAIN q
  BY LenProperties
<1>2. \A i \in k + 2 .. Len(q) : q[i] \in Command
  BY <1>1
<1>3. /\ rest \in Seq(Command)
      /\ Len(rest) = IF k + 2 <= Len(q) THEN Len(q) - (k + 2) + 1 ELSE 0
      /\ \A i \in 1 .. Len(q) - (k + 2) + 1 : rest[i] = q[k + 2 + i - 1]
  BY <1>1, <1>2, SubSeqProperties
<1> HIDE DEF rest
<1>4. Len(rest) = Len(q) - k - 1
  <2>1. CASE k + 2 <= Len(q)
    BY <1>1, <1>3, <2>1
  <2>2. CASE ~(k + 2 <= Len(q))
    <3>1. Len(rest) = 0
      BY <1>3, <2>2
    <3>2. Len(q) \in Nat
      BY <1>1
    <3>3. k + 1 = Len(q)
      BY <2>2, <3>2
    <3> QED BY <3>1, <3>2, <3>3
  <2> QED BY <2>1, <2>2
<1>5. Numbered(rest, last)
  <2> SUFFICES ASSUME NEW i \in 1 .. Len(rest) PROVE rest[i].n = last - Len(rest) + i
    BY <1>3, LenProperties DEF Numbered
  <2>1. i \in Nat /\ 1 <= i /\ i <= Len(q) - k - 1
    BY <1>1, <1>4
  <2>2. k + 1 + i \in DOMAIN q /\ k + 2 + i - 1 = k + 1 + i /\ i \in 1 .. Len(q) - (k + 2) + 1
    BY <1>1, <2>1
  <2>3. rest[i] = q[k + 1 + i] /\ q[k + 1 + i].n = last - Len(q) + (k + 1 + i)
    BY <1>3, <2>2 DEF Numbered
  <2> QED BY <1>1, <1>4, <2>1, <2>3
<1>6. q[k + 1].n = last - Len(q) + (k + 1)
  BY <1>1 DEF Numbered
<1>7. q[k + 1] \in Command /\ q[k + 1].n = last - Len(rest)
  BY <1>1, <1>4, <1>6
<1> QED BY <1>3, <1>4, <1>5, <1>7 DEF rest

\* What the loop leaves of a queue q of numbered commands.
DrainInput(q, out, f, lvl, isMidTick, last) ==
    /\ q \in Seq(Command) /\ Numbered(q, last) /\ last \in Nat
    /\ out \in Seq(Response) /\ f \in Nat /\ lvl \in 1 .. kNbLevel + 1
    /\ isMidTick \in BOOLEAN /\ isNewCommand \in BOOLEAN

Drained(r, q, out, lvl, last) ==
    /\ r.commands \in Seq(Command) /\ r.current \in Seq(Command)
    /\ r.out \in Seq(Response)
    /\ r.ticks \in Nat /\ r.isNew \in BOOLEAN
    /\ r.due = IF r.ticks > 0 THEN r.ticks + (IF r.isNew THEN 1 ELSE 0) ELSE 0
    /\ Len(r.current) <= 1 /\ Len(r.commands) + Len(r.current) <= Len(q)
    /\ Numbered(r.commands, last)
    /\ r.current = <<>> => r.commands = <<>> /\ r.ticks = 0
    /\ r.current # <<>> => /\ r.current[1].n = last - Len(r.commands)
                           /\ r.ticks = 0 => Throws(r.current[1], lvl)
    /\ q = <<>> => r.current = <<>> /\ r.out = out

LEMMA DrainQueueKeeps ==
    ASSUME NEW q, NEW out, NEW f, NEW lvl, NEW isMidTick, NEW last,
           DrainInput(q, out, f, lvl, isMidTick, last),
           NEW r \in DrainQueue(q, out, f, lvl, isMidTick)
    PROVE  Drained(r, q, out, lvl, last)
<1> USE DEF DrainInput, Drained
<1> DEFINE reached == {k \in 0 .. Len(q) : \A i \in 1 .. k : AtOnce(q[i], f, lvl)}
           answers(k) == out \o Answers(SubSeq(q, 1, k), f, lvl)
           isNew(k) == IF \E i \in 1 .. k : ~MayRefuse(q[i], f, lvl)
                       THEN isMidTick ELSE isNewCommand /\ isMidTick
<1>1. Len(q) \in Nat /\ \A k \in reached : k \in Nat /\ k <= Len(q)
  BY LenProperties
<1>2. \A k \in reached : isNew(k) \in BOOLEAN
  OBVIOUS
<1>3. \A k \in reached : answers(k) \in Seq(Response)
  <2> SUFFICES ASSUME NEW k \in reached PROVE answers(k) \in Seq(Response)
    OBVIOUS
  <2>1. \A i \in 1 .. k : q[i] \in Command
    BY <1>1
  <2>2. SubSeq(q, 1, k) \in Seq(Command)
    BY <1>1, <2>1, SubSeqProperties
  <2>3. Answers(SubSeq(q, 1, k), f, lvl) \in Seq(Response)
    BY <2>2, AnswersType
  <2> QED BY <2>3, ConcatProperties
<1>4. q = <<>> => \A k \in reached : k = 0 /\ answers(k) = out
  <2> SUFFICES ASSUME q = <<>>, NEW k \in reached PROVE k = 0 /\ answers(k) = out
    OBVIOUS
  <2>1. k = 0
    BY <1>1, EmptySeq
  <2>2. SubSeq(q, 1, k) = <<>>
    BY <2>1, SubSeqEmpty
  <2>3. Answers(SubSeq(q, 1, k), f, lvl) = <<>>
    BY <2>2 DEF Answers
  <2> QED BY <2>1, <2>3, ConcatEmptySeq
<1> DEFINE emptied(k) == [commands |-> <<>>, current |-> <<>>, ticks |-> 0, due |-> 0,
                          isNew |-> isNew(k), out |-> answers(k)]
           started(k) == [commands |-> SubSeq(q, k + 2, Len(q)), current |-> <<q[k + 1]>>,
                          ticks |-> requiredTicks[q[k + 1].kind],
                          due |-> requiredTicks[q[k + 1].kind] + (IF isMidTick THEN 1 ELSE 0),
                          isNew |-> isMidTick, out |-> answers(k) \o Underway(q[k + 1])]
           thrown(k) == [commands |-> SubSeq(q, k + 2, Len(q)), current |-> <<q[k + 1]>>,
                         ticks |-> 0, due |-> 0, isNew |-> isNew(k), out |-> answers(k)]
<1>5. PICK k \in reached :
         \/ r = emptied(k)
         \/ k < Len(q) /\ requiredTicks[q[k + 1].kind] > 0 /\ r = started(k)
         \/ k < Len(q) /\ Throws(q[k + 1], lvl) /\ r = thrown(k)
  BY DEF DrainQueue
<1>6. k \in Nat /\ answers(k) \in Seq(Response) /\ isNew(k) \in BOOLEAN
  BY <1>1, <1>2, <1>3
<1> HIDE DEF reached, answers, isNew
<1>7. CASE r = emptied(k)
  <2>1. Numbered(<<>>, last)
    BY DEF Numbered
  <2> QED BY <1>1, <1>4, <1>5, <1>6, <1>7, <2>1, EmptySeq
<1>8. CASE k < Len(q) /\ requiredTicks[q[k + 1].kind] > 0 /\ r = started(k)
  <2>1. /\ SubSeq(q, k + 2, Len(q)) \in Seq(Command)
        /\ Len(SubSeq(q, k + 2, Len(q))) = Len(q) - k - 1
        /\ Numbered(SubSeq(q, k + 2, Len(q)), last)
        /\ q[k + 1] \in Command
        /\ q[k + 1].n = last - Len(SubSeq(q, k + 2, Len(q)))
    BY <1>6, <1>8, RestOfQueue
  <2>2. requiredTicks[q[k + 1].kind] \in Nat
    BY <2>1, PlayerAssumption DEF Command
  <2>3. answers(k) \o Underway(q[k + 1]) \in Seq(Response)
    BY <1>6, <2>1, ResponseTypes, ConcatProperties
  <2>4. /\ <<q[k + 1]>> \in Seq(Command) /\ Len(<<q[k + 1]>>) = 1 /\ <<q[k + 1]>> # <<>>
        /\ <<q[k + 1]>>[1] = q[k + 1]
    BY <2>1
  <2>5. q # <<>>
    BY <1>6, <1>8, EmptySeq
  <2>6. /\ r.commands = SubSeq(q, k + 2, Len(q)) /\ r.current = <<q[k + 1]>>
        /\ r.ticks = requiredTicks[q[k + 1].kind] /\ r.isNew = isMidTick
        /\ r.due = r.ticks + (IF isMidTick THEN 1 ELSE 0)
        /\ r.out = answers(k) \o Underway(q[k + 1])
    BY <1>8
  <2>7. r.due = IF r.ticks > 0 THEN r.ticks + (IF r.isNew THEN 1 ELSE 0) ELSE 0
    BY <1>8, <2>6
  <2>8. r.ticks \in Nat /\ r.ticks # 0 /\ r.isNew \in BOOLEAN
    BY <1>8, <2>2, <2>6
  <2>9. Len(r.commands) + Len(r.current) <= Len(q)
    BY <1>1, <1>6, <2>1, <2>4, <2>6
  <2> HIDE <1>8
  <2> QED BY <2>1, <2>3, <2>4, <2>5, <2>6, <2>7, <2>8, <2>9
<1>9. CASE k < Len(q) /\ Throws(q[k + 1], lvl) /\ r = thrown(k)
  <2>1. /\ SubSeq(q, k + 2, Len(q)) \in Seq(Command)
        /\ Len(SubSeq(q, k + 2, Len(q))) = Len(q) - k - 1
        /\ Numbered(SubSeq(q, k + 2, Len(q)), last)
        /\ q[k + 1] \in Command
        /\ q[k + 1].n = last - Len(SubSeq(q, k + 2, Len(q)))
    BY <1>6, <1>9, RestOfQueue
  <2>2. /\ <<q[k + 1]>> \in Seq(Command) /\ Len(<<q[k + 1]>>) = 1 /\ <<q[k + 1]>> # <<>>
        /\ <<q[k + 1]>>[1] = q[k + 1]
    BY <2>1
  <2>3. q # <<>>
    BY <1>6, <1>9, EmptySeq
  <2> QED BY <1>1, <1>6, <1>9, <2>1, <2>2, <2>3
<1> QED BY <1>5, <1>7, <1>8, <1>9

\* The same for the variables that tryStartNextCommand writes.
QueueTypes ==
    /\ commands \in Seq(Command) /\ currentCommand \in Seq(Command)
    /\ Len(currentCommand) <= 1
    /\ cmdTick \in Nat /\ isNewCommand \in BOOLEAN /\ due \in Nat
    /\ buffersResponses \in Seq(Response)

QueueInv == QueueIsBounded /\ NoLostWakeup /\ CountdownInv /\ NumberInv

Leaves(r) ==
    /\ commands' = r.commands /\ currentCommand' = r.current
    /\ cmdTick' = r.ticks /\ due' = r.due /\ isNewCommand' = r.isNew
    /\ buffersResponses' = r.out

LEMMA DrainQueueLeaves ==
    ASSUME NEW r, NEW q, NEW out, NEW lvl, q \in Seq(Command), Len(q) <= kMaxNbCmd,
           Drained(r, q, out, lvl, accepted'), Leaves(r)
    PROVE  QueueTypes' /\ QueueInv'
<1>1. /\ r.commands \in Seq(Command) /\ r.current \in Seq(Command)
      /\ r.out \in Seq(Response)
      /\ r.ticks \in Nat /\ r.isNew \in BOOLEAN
      /\ r.due = IF r.ticks > 0 THEN r.ticks + (IF r.isNew THEN 1 ELSE 0) ELSE 0
      /\ Len(r.current) <= 1 /\ Len(r.commands) + Len(r.current) <= Len(q)
      /\ Numbered(r.commands, accepted')
      /\ r.current = <<>> => r.commands = <<>> /\ r.ticks = 0
      /\ r.current # <<>> => r.current[1].n = accepted' - Len(r.commands)
  BY DEF Drained
<1>2. CountdownInv'
  BY <1>1 DEF Leaves, CountdownInv
<1>3. due' \in Nat
  BY <1>1 DEF Leaves
<1>4. NoLostWakeup'
  BY <1>1 DEF Leaves, NoLostWakeup
<1>5. NumberInv'
  BY <1>1 DEF Leaves, NumberInv, Numbered
<1>6. QueueIsBounded'
  <2> DEFINE n == Len(r.commands) + Len(r.current)
  <2>1. n \in Nat /\ Len(q) \in Nat /\ kMaxNbCmd \in Nat
    <3>1. Len(r.commands) \in Nat /\ Len(r.current) \in Nat
      BY <1>1, LenProperties
    <3>2. Len(q) \in Nat /\ kMaxNbCmd \in Nat
      BY LenProperties, PlayerAssumption
    <3>3. \A a, b \in Nat : a + b \in Nat
      OBVIOUS
    <3> QED BY <3>1, <3>2, <3>3
  <2>2. Load' = n
    BY DEF Leaves, Load
  <2>3. n <= Len(q)
    BY <1>1
  <2> HIDE DEF n
  <2>4. n <= kMaxNbCmd
    BY <2>1, <2>3
  <2> QED BY <2>2, <2>4 DEF QueueIsBounded
<1>7. QueueTypes'
  BY <1>1, <1>3 DEF Leaves, QueueTypes
<1> QED BY <1>2, <1>4, <1>5, <1>6, <1>7 DEF QueueInv

-----------------------------------------------------------------------------
(* PlayerInv is inductive.                                                 *)

LEMMA PlayerInit == Init => PlayerInv
<1> SUFFICES ASSUME Init PROVE PlayerInv
  OBVIOUS
<1> USE DEF Init
<1>1. TypeOK
  <2>1. /\ commands \in Seq(Command) /\ currentCommand \in Seq(Command)
        /\ buffersResponses \in Seq(Response) /\ Len(currentCommand) <= 1
    BY EmptySeq
  <2>2. lifeTick \in 0 .. kNbLifeTickFood /\ food \in Nat /\ cmdTick \in Nat
    BY PlayerAssumption
  <2>3. level \in 1 .. kNbLevel + 1
    BY PlayerAssumption
  <2>4. {enrolled, accepted, flushed, due} \subseteq Nat
    OBVIOUS
  <2>5. isDead \in BOOLEAN /\ isNewCommand \in BOOLEAN /\ isIncanting \in BOOLEAN
    OBVIOUS
  <2> QED BY <2>1, <2>2, <2>3, <2>4, <2>5 DEF TypeOK
<1>2. QueueIsBounded
  BY PlayerAssumption DEF QueueIsBounded, Load
<1>3. NoLostWakeup /\ CountdownInv /\ NumberInv /\ AliveInv
  BY PlayerAssumption DEF NoLostWakeup, CountdownInv, NumberInv, AliveInv
<1> QED BY <1>1, <1>2, <1>3 DEF PlayerInv

LEMMA DigestKeeps ==
    ASSUME TypeOK, Survives
    PROVE  Digest.life \in 1 .. kNbLifeTickFood /\ Digest.food \in Nat
  BY PlayerAssumption DEF TypeOK, Survives, Digest, Hungry

\* A call that leaves the queue alone.
LEMMA QueueUntouched ==
    ASSUME PlayerInv, UNCHANGED queueVars
    PROVE  QueueIsBounded' /\ NoLostWakeup' /\ CountdownInv' /\ NumberInv'
  BY DEF PlayerInv, queueVars, QueueIsBounded, Load, NoLostWakeup, CountdownInv, NumberInv

LEMMA PushCommandKeeps ==
    ASSUME PlayerInv, NEW k \in Kinds, PushCommand(k)
    PROVE  PlayerInv'
<1> DEFINE c == Cmd(accepted + 1, k)
           q == Append(commands, c)
<1>1. TypeOK /\ accepted' = accepted + 1 /\ accepted' \in Nat /\ Load < kMaxNbCmd
  BY DEF PlayerInv, TypeOK, PushCommand, HasRoom
<1>2. UNCHANGED <<lifeTick, food, isDead, isIncanting, level, enrolled, flushed>>
  BY DEF PushCommand
<1>3. c \in Command /\ c.n = accepted + 1
  BY <1>1 DEF Cmd, Command, TypeOK
<1>4. /\ q \in Seq(Command) /\ Len(q) = Len(commands) + 1
      /\ \A i \in DOMAIN commands : q[i] = commands[i]
      /\ q[Len(q)] = c /\ DOMAIN q = 1 .. Len(commands) + 1
  BY <1>1, <1>3 DEF TypeOK
<1>5. Numbered(q, accepted')
  <2>1. accepted \in Nat /\ Len(commands) \in Nat /\ DOMAIN commands = 1 .. Len(commands)
    BY <1>1 DEF TypeOK
  <2> HIDE DEF q, c
  <2> SUFFICES ASSUME NEW i \in 1 .. Len(commands) + 1
               PROVE  q[i].n = accepted' - Len(q) + i
    BY <1>4 DEF Numbered
  <2>2. CASE i \in DOMAIN commands
    <3>1. q[i] = commands[i] /\ commands[i].n = accepted - Len(commands) + i
      BY <1>4, <2>2 DEF PlayerInv, NumberInv
    <3> QED BY <1>1, <1>4, <2>1, <3>1
  <2>3. CASE i = Len(commands) + 1
    BY <1>1, <1>3, <1>4, <2>1, <2>3
  <2> QED BY <2>1, <2>2, <2>3
<1> HIDE DEF q, c
<1>6. TryStartMidTick(q)
  BY DEF PushCommand, q, c
<1>7. CASE cmdTick > 0 \/ currentCommand # <<>>
  <2>1. commands' = q /\ UNCHANGED <<currentCommand, cmdTick, isNewCommand, due, buffersResponses>>
    BY <1>6, <1>7 DEF TryStartMidTick
  <2>2. currentCommand # <<>>
    BY <1>7 DEF PlayerInv, NoLostWakeup
  <2>3. TypeOK'
    BY <1>1, <1>2, <1>4, <2>1 DEF TypeOK
  <2>4. QueueIsBounded' /\ NoLostWakeup' /\ CountdownInv' /\ AliveInv'
    <3>1. QueueIsBounded'
      <4>1. Len(commands) \in Nat /\ Len(currentCommand) \in Nat
        BY <1>1 DEF TypeOK
      <4>2. Len(commands) + Len(currentCommand) < kMaxNbCmd
        BY <1>1 DEF Load
      <4>3. Load' = Len(commands) + 1 + Len(currentCommand)
        BY <1>4, <2>1 DEF Load
      <4> QED BY <4>1, <4>2, <4>3, PlayerAssumption DEF QueueIsBounded
    <3>2. NoLostWakeup' /\ CountdownInv'
      BY <2>1, <2>2 DEF PlayerInv, NoLostWakeup, CountdownInv
    <3>3. AliveInv'
      BY <1>2 DEF PlayerInv, AliveInv
    <3> QED BY <3>1, <3>2, <3>3
  <2>5. NumberInv'
    BY <1>1, <1>4, <1>5, <2>1 DEF PlayerInv, NumberInv, Numbered, TypeOK
  <2> QED BY <2>3, <2>4, <2>5 DEF PlayerInv
<1>8. CASE ~(cmdTick > 0 \/ currentCommand # <<>>)
  <2>1. Len(currentCommand) = 0
    BY <1>8
  <2>2. Len(q) <= kMaxNbCmd
    BY <1>1, <1>4, <2>1, PlayerAssumption DEF Load, TypeOK
  <2>3. TryStartNextCommand(q, buffersResponses, food, level, TRUE)
    BY <1>6, <1>8 DEF TryStartMidTick
  <2>4. QueueTypes' /\ QueueInv'
    <3>1. food \in Nat /\ level \in 1 .. kNbLevel + 1 /\ buffersResponses \in Seq(Response)
      BY <1>1 DEF TypeOK
    <3>2. PICK r \in DrainQueue(q, buffersResponses, food, level, TRUE) : Leaves(r)
      BY <2>3 DEF TryStartNextCommand, Leaves
    <3>3. DrainInput(q, buffersResponses, food, level, TRUE, accepted')
      BY <1>1, <1>4, <1>5, <3>1 DEF DrainInput, TypeOK
    <3>4. Drained(r, q, buffersResponses, level, accepted')
      BY <3>3, DrainQueueKeeps
    <3> QED BY <1>4, <2>2, <3>2, <3>4, DrainQueueLeaves
  <2>5. TypeOK'
    BY <1>1, <1>2, <2>4 DEF TypeOK, QueueTypes
  <2>6. AliveInv'
    BY <1>2 DEF PlayerInv, AliveInv
  <2> QED BY <2>4, <2>5, <2>6 DEF PlayerInv, QueueInv
<1> QED BY <1>7, <1>8

\* The ways through Player::update.
LEMMA UpdateRests ==
    ASSUME PlayerInv, UpdateStarve \/ UpdateFrozen
    PROVE  PlayerInv'
<1>1. TypeOK /\ UNCHANGED queueVars /\ UNCHANGED <<isIncanting, level, enrolled, flushed>>
  BY DEF PlayerInv, UpdateStarve, UpdateFrozen
<1>2. QueueIsBounded' /\ NoLostWakeup' /\ CountdownInv' /\ NumberInv'
  BY <1>1, QueueUntouched
<1>3. CASE UpdateStarve
  <2>1. lifeTick' = 0 /\ isDead' = TRUE /\ food' = food /\ buffersResponses' = <<Message("dead")>>
    BY <1>3 DEF UpdateStarve
  <2>2. buffersResponses' \in Seq(Response)
    BY <2>1, ResponseTypes
  <2>3. TypeOK' /\ AliveInv'
    BY <1>1, <2>1, <2>2, PlayerAssumption DEF TypeOK, AliveInv, queueVars
  <2> QED BY <1>2, <2>3 DEF PlayerInv
<1>4. CASE UpdateFrozen
  <2>1. /\ Survives /\ lifeTick' = Digest.life /\ food' = Digest.food
        /\ UNCHANGED <<isDead, buffersResponses>>
    BY <1>4 DEF UpdateFrozen
  <2>2. lifeTick' \in 1 .. kNbLifeTickFood /\ food' \in Nat
    BY <1>1, <2>1, DigestKeeps
  <2>3. TypeOK'
    BY <1>1, <2>1, <2>2 DEF TypeOK, queueVars
  <2>4. AliveInv'
    BY <2>1, <2>2, PlayerAssumption DEF AliveInv
  <2> QED BY <1>2, <2>3, <2>4 DEF PlayerInv
<1> QED BY <1>3, <1>4

LEMMA UpdateCounts ==
    ASSUME PlayerInv, UpdateWait \/ UpdateThrow
    PROVE  PlayerInv'
<1>1. /\ TypeOK /\ Survives /\ lifeTick' = Digest.life /\ food' = Digest.food
      /\ UNCHANGED <<isDead, isIncanting, level, enrolled, flushed, buffersResponses,
                     commands, currentCommand, accepted>>
      /\ isNewCommand' = FALSE
  BY DEF PlayerInv, UpdateWait, UpdateThrow
<1>2. lifeTick' \in 1 .. kNbLifeTickFood /\ food' \in Nat
  BY <1>1, DigestKeeps
<1>3. cmdTick \in Nat /\ isNewCommand \in BOOLEAN /\ CountdownInv
  BY DEF PlayerInv, TypeOK
<1>4. cmdTick' \in Nat /\ due' \in Nat /\ CountdownInv' /\ (cmdTick' > 0 => cmdTick > 0)
  <2>1. CASE UpdateWait /\ isNewCommand
    <3>1. cmdTick' = cmdTick /\ cmdTick > 0 /\ due' = due - 1 /\ due = cmdTick + 1
      BY <1>3, <2>1 DEF UpdateWait, Elapsed, CountdownInv
    <3> QED BY <1>1, <1>3, <3>1 DEF CountdownInv
  <2>2. CASE UpdateWait /\ ~isNewCommand
    <3>1. cmdTick' = cmdTick - 1 /\ cmdTick' > 0 /\ due' = due - 1 /\ due = cmdTick
      BY <1>3, <2>2 DEF UpdateWait, Elapsed, CountdownInv
    <3> QED BY <1>1, <1>3, <3>1 DEF CountdownInv
  <2>3. CASE UpdateThrow
    BY <2>3 DEF UpdateThrow, CountdownInv
  <2> QED BY <1>3, <2>1, <2>2, <2>3
<1>5. QueueIsBounded' /\ NumberInv' /\ NoLostWakeup' /\ AliveInv'
  BY <1>1, <1>2, <1>4 DEF PlayerInv, QueueIsBounded, Load, NumberInv, NoLostWakeup, AliveInv
<1>6. TypeOK'
  <2>1. lifeTick' \in 0 .. kNbLifeTickFood
    BY <1>2, PlayerAssumption
  <2>2. isNewCommand' \in BOOLEAN
    BY <1>1
  <2> QED BY <1>1, <1>2, <1>4, <2>1, <2>2 DEF TypeOK
<1> QED BY <1>4, <1>5, <1>6 DEF PlayerInv

\* The level and the food a command leaves behind are ones a player can have.
LEMMA OutcomesType ==
    ASSUME TypeOK, NEW c \in Command, NEW f \in Nat, ~Throws(c, level), NEW o \in Outcomes(c, f)
    PROVE  o.food \in Nat /\ o.level \in 1 .. kNbLevel + 1
<1>1. level \in 1 .. kNbLevel + 1 /\ kNbLevel \in Nat
  BY PlayerAssumption DEF TypeOK
<1>2. CASE c.kind = "Take"
  BY <1>1, <1>2 DEF Outcomes
<1>3. CASE c.kind = "Set"
  BY <1>1, <1>3 DEF Outcomes
<1>4. CASE c.kind = "Incantation"
  <2>1. level <= kNbLevel
    BY <1>1, <1>4 DEF Throws
  <2> QED BY <1>1, <1>4, <2>1 DEF Outcomes
<1>5. CASE c.kind \notin {"Take", "Set", "Incantation"}
  BY <1>1, <1>5 DEF Outcomes
<1> QED BY <1>2, <1>3, <1>4, <1>5

\* tryStartNextCommand from update, whatever the answers, the food and the level.
LEMMA StartsFromUpdate ==
    ASSUME PlayerInv, accepted' = accepted,
           NEW out \in Seq(Response), NEW f \in Nat, NEW lvl \in 1 .. kNbLevel + 1,
           NEW r \in DrainQueue(commands, out, f, lvl, FALSE), Leaves(r)
    PROVE  QueueTypes' /\ QueueInv' /\ Drained(r, commands, out, lvl, accepted)
<1>1. TypeOK /\ commands \in Seq(Command) /\ Numbered(commands, accepted)
  BY DEF PlayerInv, TypeOK, NumberInv, Numbered
<1>2. Len(commands) <= kMaxNbCmd
  <2>1. Len(commands) \in Nat /\ Len(currentCommand) \in Nat /\ kMaxNbCmd \in Nat
    BY <1>1, LenProperties, PlayerAssumption DEF TypeOK
  <2>2. Len(commands) + Len(currentCommand) <= kMaxNbCmd
    BY DEF PlayerInv, QueueIsBounded, Load
  <2> QED BY <2>1, <2>2
<1>3. DrainInput(commands, out, f, lvl, FALSE, accepted)
  BY <1>1 DEF DrainInput, TypeOK
<1>4. Drained(r, commands, out, lvl, accepted)
  BY <1>3, DrainQueueKeeps
<1>5. Drained(r, commands, out, lvl, accepted')
  BY <1>4
<1> QED BY <1>1, <1>2, <1>4, <1>5, DrainQueueLeaves

\* execute and the start of what comes next: the line gets shorter.
LEMMA ExecuteStarts ==
    ASSUME PlayerInv, UpdateExecute
    PROVE  /\ QueueTypes' /\ QueueInv' /\ food' \in Nat /\ level' \in 1 .. kNbLevel + 1
           /\ Len(commands') + Len(currentCommand') <= Len(commands)
<1>1. TypeOK /\ Survives /\ UNCHANGED accepted /\ currentCommand # <<>>
  BY DEF PlayerInv, UpdateExecute
<1>2. Digest.food \in Nat
  BY <1>1, DigestKeeps
<1> DEFINE c == currentCommand[1]
           out == Append(buffersResponses, Reply(c))
<1>3. c \in Command
  BY <1>1, EmptySeq, ElementOfSeq DEF TypeOK
<1>4. out \in Seq(Response)
  BY <1>1, <1>3, ResponseTypes DEF TypeOK
<1> HIDE DEF out, c
<1>5. ~Throws(c, level)
  BY DEF UpdateExecute, c
<1>6. PICK o \in Outcomes(c, Digest.food) :
        /\ food' = o.food /\ level' = o.level
        /\ TryStartNextCommand(commands, out, o.food, o.level, FALSE)
  BY DEF UpdateExecute, c, out
<1>7. o.food \in Nat /\ o.level \in 1 .. kNbLevel + 1
  BY <1>1, <1>2, <1>3, <1>5, <1>6, OutcomesType
<1>8. PICK r \in DrainQueue(commands, out, o.food, o.level, FALSE) : Leaves(r)
  BY <1>6 DEF TryStartNextCommand, Leaves
<1>9. QueueTypes' /\ QueueInv' /\ Drained(r, commands, out, o.level, accepted)
  BY <1>1, <1>4, <1>7, <1>8, StartsFromUpdate
<1>10. Len(commands') + Len(currentCommand') <= Len(commands)
  BY <1>8, <1>9 DEF Drained, Leaves
<1> QED BY <1>6, <1>7, <1>9, <1>10

LEMMA UpdateStarts ==
    ASSUME PlayerInv, UpdateExecute \/ UpdateIdle
    PROVE  PlayerInv'
<1>1. /\ TypeOK /\ Survives /\ lifeTick' = Digest.life
      /\ UNCHANGED <<isDead, isIncanting, enrolled, flushed, accepted>>
  BY DEF PlayerInv, UpdateExecute, UpdateIdle
<1>2. Digest.life \in 1 .. kNbLifeTickFood /\ Digest.food \in Nat
  BY <1>1, DigestKeeps
<1>3. QueueTypes' /\ QueueInv' /\ food' \in Nat /\ level' \in 1 .. kNbLevel + 1
  <2>1. CASE UpdateExecute
    BY <2>1, ExecuteStarts
  <2>2. CASE UpdateIdle
    <3>1. food' = Digest.food /\ level' = level
      BY <2>2 DEF UpdateIdle
    <3>2. PICK r \in DrainQueue(commands, buffersResponses, Digest.food, level, FALSE) : Leaves(r)
      BY <2>2 DEF UpdateIdle, TryStartNextCommand, Leaves
    <3>3. level \in 1 .. kNbLevel + 1 /\ buffersResponses \in Seq(Response)
      BY <1>1 DEF TypeOK
    <3> QED BY <1>1, <1>2, <3>1, <3>2, <3>3, StartsFromUpdate
  <2> QED BY <2>1, <2>2
<1>4. AliveInv'
  BY <1>1, <1>2 DEF AliveInv
<1>5. TypeOK'
  <2>1. lifeTick' \in 0 .. kNbLifeTickFood
    BY <1>1, <1>2, PlayerAssumption
  <2> QED BY <1>1, <1>3, <2>1 DEF TypeOK, QueueTypes
<1> QED BY <1>3, <1>4, <1>5 DEF PlayerInv, QueueInv

\* What others do leaves the queue alone; a message and a level are all it leaves.
LEMMA OthersKeep ==
    ASSUME PlayerInv, Hear \/ Enroll \/ (\E success \in BOOLEAN : Release(success)) \/ Responses
    PROVE  PlayerInv'
<1>1. TypeOK /\ UNCHANGED queueVars /\ UNCHANGED <<lifeTick, food, isDead>>
  BY DEF PlayerInv, Hear, Enroll, Release, Responses
<1>2. QueueIsBounded' /\ NoLostWakeup' /\ CountdownInv' /\ NumberInv'
  BY <1>1, QueueUntouched
<1>3. AliveInv'
  BY <1>1 DEF PlayerInv, AliveInv
<1>4. buffersResponses \in Seq(Response) /\ level \in 1 .. kNbLevel + 1 /\ enrolled \in Nat /\ flushed \in Nat
  BY <1>1 DEF TypeOK
<1>5. /\ buffersResponses' \in Seq(Response) /\ level' \in 1 .. kNbLevel + 1
      /\ enrolled' \in Nat /\ flushed' \in Nat /\ isIncanting' \in BOOLEAN
  <2>1. CASE Hear
    <3>1. UNCHANGED <<level, enrolled, flushed, isIncanting>>
      BY <2>1 DEF Hear
    <3>2. buffersResponses' \in Seq(Response)
      BY <1>4, <2>1, ResponseTypes DEF Hear
    <3> QED BY <1>1, <1>4, <3>1, <3>2 DEF TypeOK
  <2>2. CASE Enroll
    <3>1. UNCHANGED <<level, flushed>> /\ enrolled' = enrolled + 1 /\ isIncanting' = TRUE
      BY <2>2 DEF Enroll
    <3>2. buffersResponses' \in Seq(Response)
      BY <1>4, <2>2, ResponseTypes DEF Enroll
    <3> QED BY <1>4, <3>1, <3>2
  <2>3. ASSUME NEW success \in BOOLEAN, Release(success)
        PROVE  /\ buffersResponses' \in Seq(Response) /\ level' \in 1 .. kNbLevel + 1
               /\ enrolled' \in Nat /\ flushed' \in Nat /\ isIncanting' \in BOOLEAN
    <3>1. UNCHANGED flushed /\ enrolled > 0 /\ enrolled' = enrolled - 1 /\ isIncanting' = FALSE
      BY <2>3 DEF Release
    <3>2. level' = level \/ (level <= kNbLevel /\ level' = level + 1)
      BY <2>3 DEF Release
    <3>3. Message(IF success THEN "level" ELSE "ko") \in Response
      BY ResponseTypes
    <3>4. buffersResponses' \in Seq(Response)
      BY <1>4, <2>3, <3>3 DEF Release
    <3>5. level' \in 1 .. kNbLevel + 1
      BY <1>4, <3>2, PlayerAssumption
    <3>6. enrolled' \in Nat /\ flushed' \in Nat
      BY <1>4, <3>1
    <3>7. isIncanting' \in BOOLEAN
      BY <3>1
    <3> QED BY <3>4, <3>5, <3>6, <3>7
  <2>4. CASE Responses
    <3> DEFINE answers == {i \in DOMAIN buffersResponses : buffersResponses[i].to # 0}
    <3>1. /\ UNCHANGED <<level, enrolled, isIncanting>> /\ buffersResponses' = <<>>
          /\ flushed' = flushed + Cardinality(answers)
      BY <2>4 DEF Responses
    <3>2. IsFiniteSet(DOMAIN buffersResponses)
      BY <1>4, LenProperties, FS_Interval
    <3>3. Cardinality(answers) \in Nat
      BY <3>2, FS_Subset, FS_CardinalityType
    <3> HIDE DEF answers
    <3>4. flushed' \in Nat
      BY <1>4, <3>1, <3>3
    <3>5. isIncanting \in BOOLEAN
      BY <1>1 DEF TypeOK
    <3> QED BY <1>4, <3>1, <3>4, <3>5, EmptySeq
  <2> QED BY <2>1, <2>2, <2>3, <2>4
<1>6. TypeOK'
  BY <1>1, <1>5 DEF TypeOK, queueVars
<1> QED BY <1>2, <1>3, <1>6 DEF PlayerInv

LEMMA PlayerStep == PlayerInv /\ [Next]_vars => PlayerInv'
<1> SUFFICES ASSUME PlayerInv, [Next]_vars PROVE PlayerInv'
  OBVIOUS
<1>1. CASE \E k \in Kinds : PushCommand(k)
  BY <1>1, PushCommandKeeps
<1>2. CASE UpdateStarve \/ UpdateFrozen
  BY <1>2, UpdateRests
<1>3. CASE UpdateWait \/ UpdateThrow
  BY <1>3, UpdateCounts
<1>4. CASE UpdateExecute \/ UpdateIdle
  BY <1>4, UpdateStarts
<1>5. CASE Hear \/ Enroll \/ (\E success \in BOOLEAN : Release(success)) \/ Responses
  BY <1>5, OthersKeep
<1>6. CASE UNCHANGED vars
  BY <1>6 DEF vars, PlayerInv, TypeOK, QueueIsBounded, Load, NoLostWakeup, CountdownInv, NumberInv, AliveInv
<1> QED BY <1>1, <1>2, <1>3, <1>4, <1>5, <1>6 DEF Next, Update

LEMMA PlayerInvariant == Spec => []PlayerInv
  BY PlayerInit, PlayerStep, PTL DEF Spec

LEMMA TypesAndQueue == Spec => [](TypeOK /\ QueueIsServed)
<1>1. PlayerInv => TypeOK /\ QueueIsServed
  BY DEF PlayerInv, QueueIsServed
<1> QED BY <1>1, PlayerInvariant, PTL

\* The queue of a player never holds more than kMaxNbCmd commands with the one being
\* carried out, and none waits while the player does nothing, whatever starts, refuses or
\* throws in between: for every limit and every duration of the commands.
THEOREM QueueCorrect == Spec => []QueueIsServed
  BY TypesAndQueue, PTL

\* The types of a player's fields: life never counts past a unit of food, at most one
\* command is being carried out, and no level lies beyond the last.
COROLLARY PlayerTypesCorrect == Spec => []TypeOK
  BY TypesAndQueue, PTL

-----------------------------------------------------------------------------
(* The order of the answers.                                               *)

AnswersIn(b) == {i \in DOMAIN b : b[i].to # 0}

\* A message that answers nothing leaves the run of answers as it is.
LEMMA MessageKeepsRun ==
    ASSUME NEW b \in Seq(Response), NEW first, NEW last, AnswersRun(b, first, last),
           NEW m \in Response, m.to = 0
    PROVE  AnswersRun(Append(b, m), first, last)
<1> DEFINE r == Append(b, m)
<1>1. /\ DOMAIN b = 1 .. Len(b) /\ Len(b) \in Nat
      /\ DOMAIN r = 1 .. Len(b) + 1 /\ r[Len(b) + 1] = m
      /\ \A i \in DOMAIN b : r[i] = b[i]
  OBVIOUS
<1> HIDE DEF r
<1>2. AnswersIn(r) = AnswersIn(b) /\ \A i \in AnswersIn(b) : r[i].to = b[i].to
  BY <1>1 DEF AnswersIn
<1>3. {r[i].to : i \in AnswersIn(r)} = {b[i].to : i \in AnswersIn(b)}
  BY <1>2
<1> QED BY <1>2, <1>3 DEF AnswersRun, AnswersIn, r

\* The next answer makes it longer by one.
LEMMA AnswerExtendsRun ==
    ASSUME NEW b \in Seq(Response), NEW first \in Nat, NEW last \in Int, AnswersRun(b, first, last),
           NEW m \in Response, m.to = last + 1
    PROVE  AnswersRun(Append(b, m), first, last + 1)
<1> DEFINE r == Append(b, m)
           n == Len(b) + 1
<1>1. /\ DOMAIN b = 1 .. Len(b) /\ Len(b) \in Nat
      /\ DOMAIN r = 1 .. n /\ r[n] = m
      /\ \A i \in DOMAIN b : r[i] = b[i]
  OBVIOUS
<1> HIDE DEF r
<1>2. first <= last /\ last + 1 # 0
  BY DEF AnswersRun
<1>3. n \in Nat /\ n \notin DOMAIN b /\ \A i \in DOMAIN b : i < n /\ ~(n < i)
  BY <1>1
<1> HIDE DEF n
<1>4. AnswersIn(r) = AnswersIn(b) \cup {n} /\ \A i \in AnswersIn(b) : r[i].to = b[i].to /\ i \in DOMAIN b
  BY <1>1, <1>2, <1>3 DEF AnswersIn, n
<1>5. {r[i].to : i \in AnswersIn(r)} = {b[i].to : i \in AnswersIn(b)} \cup {last + 1}
  BY <1>1, <1>4
<1>6. {b[i].to : i \in AnswersIn(b)} = first + 1 .. last
  BY DEF AnswersRun, AnswersIn
<1>7. first + 1 .. last + 1 = (first + 1 .. last) \cup {last + 1}
  BY <1>2
<1>8. \A i, j \in AnswersIn(r) : i < j => r[i].to < r[j].to
  <2> SUFFICES ASSUME NEW i \in AnswersIn(r), NEW j \in AnswersIn(r), i < j
               PROVE  r[i].to < r[j].to
    OBVIOUS
  <2>1. i \in AnswersIn(b)
    BY <1>1, <1>3, <1>4
  <2>2. CASE j \in AnswersIn(b)
    BY <1>4, <2>1, <2>2 DEF AnswersRun, AnswersIn
  <2>3. CASE j = n
    <3>1. r[i].to \in first + 1 .. last
      BY <1>4, <1>6, <2>1
    <3> QED BY <1>1, <2>3, <3>1
  <2> QED BY <1>4, <2>2, <2>3
<1>9. first <= last + 1
  BY <1>2
<1>10. {r[i].to : i \in AnswersIn(r)} = first + 1 .. last + 1
  BY <1>5, <1>6, <1>7
<1> QED BY <1>8, <1>9, <1>10 DEF AnswersRun, AnswersIn, r

\* The loop answers the first k commands of the line.
LEMMA LineExtendsRun ==
    ASSUME NEW b \in Seq(Response), NEW first \in Nat, NEW last \in Nat,
           NEW q \in Seq(Command), Numbered(q, last), AnswersRun(b, first, last - Len(q)),
           NEW k \in 0 .. Len(q), NEW f, NEW lvl
    PROVE  AnswersRun(b \o Answers(SubSeq(q, 1, k), f, lvl), first, last - Len(q) + k)
<1> DEFINE a == Answers(SubSeq(q, 1, k), f, lvl)
           r == b \o a
           n == Len(b)
           from == last - Len(q)
<1>1. Len(q) \in Nat /\ DOMAIN q = 1 .. Len(q) /\ k \in Nat /\ \A i \in 1 .. k : i \in DOMAIN q
  BY LenProperties
<1>2. \A i \in 1 .. k : q[i] \in Command
  BY <1>1
<1>3. /\ SubSeq(q, 1, k) \in Seq(Command) /\ Len(SubSeq(q, 1, k)) = k
      /\ \A i \in 1 .. k : SubSeq(q, 1, k)[i] = q[i]
  BY <1>1, <1>2, SubSeqProperties
<1>4. a \in Seq(Response)
  BY <1>3, AnswersType
<1>5. DOMAIN a = 1 .. k /\ \A i \in 1 .. k : a[i].to = q[i].n
  BY <1>1, <1>3, LenProperties DEF Answers, Reply
<1>6. Len(a) = k
  BY <1>1, <1>4, <1>5, LenProperties
<1> HIDE DEF a
<1>7. /\ r \in Seq(Response) /\ n \in Nat /\ DOMAIN b = 1 .. n /\ DOMAIN r = 1 .. n + k
      /\ \A i \in DOMAIN b : r[i] = b[i]
      /\ \A i \in 1 .. k : r[n + i] = a[i]
  <2>1. r \in Seq(Response) /\ Len(r) = n + k
    BY <1>4, <1>6, ConcatProperties
  <2>2. \A i \in 1 .. n + k : r[i] = IF i <= n THEN b[i] ELSE a[i - n]
    BY <1>4, <1>6, ConcatProperties
  <2>3. n \in Nat /\ DOMAIN b = 1 .. n /\ DOMAIN r = 1 .. n + k
    BY <2>1, LenProperties
  <2> HIDE DEF r, n
  <2>4. \A i \in 1 .. k : n + i \in 1 .. n + k /\ ~(n + i <= n) /\ n + i - n = i
    BY <1>1, <2>3
  <2>5. \A i \in 1 .. n : i \in 1 .. n + k /\ i <= n
    BY <1>1, <2>3
  <2> QED BY <2>1, <2>2, <2>3, <2>4, <2>5
<1>8. \A i \in 1 .. k : q[i].n = from + i
  BY <1>1 DEF Numbered
<1>9. first <= from /\ from \in Int
  BY <1>1 DEF AnswersRun
<1> HIDE DEF r, n, from
<1>10. ASSUME NEW i \in 1 .. k
       PROVE  r[n + i].to = from + i /\ from + i # 0
  <2>1. r[n + i] = a[i] /\ a[i].to = q[i].n /\ q[i].n = from + i
    BY <1>5, <1>7, <1>8
  <2>2. from + i # 0
    BY <1>1, <1>9
  <2> QED BY <2>1, <2>2
<1>11. \A i \in DOMAIN r : i \in DOMAIN b \/ \E j \in 1 .. k : i = n + j
  <2> SUFFICES ASSUME NEW i \in 1 .. n + k, ~(i \in 1 .. n) PROVE i - n \in 1 .. k /\ i = n + (i - n)
    BY <1>7
  <2> QED BY <1>1, <1>7
<1>12. \A i \in 1 .. k : n + i \in DOMAIN r /\ \A j \in DOMAIN b : j \in DOMAIN r /\ j < n + i /\ ~(n + i < j)
  BY <1>1, <1>7
<1>13. {b[i].to : i \in AnswersIn(b)} = first + 1 .. from
  BY DEF AnswersRun, AnswersIn, from
<1>14. \A i \in AnswersIn(r) : \/ i \in AnswersIn(b) /\ r[i].to = b[i].to
                              \/ \E j \in 1 .. k : i = n + j /\ r[i].to = from + j
  BY <1>7, <1>10, <1>11 DEF AnswersIn
<1>15. {r[i].to : i \in AnswersIn(r)} = first + 1 .. from + k
  <2>1. ASSUME NEW i \in AnswersIn(r) PROVE r[i].to \in first + 1 .. from + k
    <3>1. CASE i \in AnswersIn(b) /\ r[i].to = b[i].to
      <4>1. r[i].to \in first + 1 .. from
        BY <1>13, <3>1
      <4> QED BY <1>1, <1>9, <4>1
    <3>2. CASE \E j \in 1 .. k : i = n + j /\ r[i].to = from + j
      BY <1>1, <1>9, <3>2
    <3> QED BY <1>14, <3>1, <3>2
  <2>2. ASSUME NEW x \in first + 1 .. from + k PROVE \E i \in AnswersIn(r) : r[i].to = x
    <3>1. CASE x <= from
      <4>1. x \in first + 1 .. from
        BY <1>9, <3>1
      <4>2. PICK i \in AnswersIn(b) : b[i].to = x
        BY <1>13, <4>1
      <4>3. r[i] = b[i] /\ i \in DOMAIN r /\ b[i].to # 0
        BY <1>1, <1>7, <4>2 DEF AnswersIn
      <4> QED BY <4>2, <4>3 DEF AnswersIn
    <3>2. CASE ~(x <= from)
      <4>1. x - from \in 1 .. k /\ x = from + (x - from)
        BY <1>1, <1>9, <3>2
      <4>2. PICK j \in 1 .. k : x = from + j
        BY <4>1
      <4> QED BY <1>10, <1>12, <4>2 DEF AnswersIn
    <3> QED BY <3>1, <3>2
  <2> QED BY <2>1, <2>2
<1>16. \A i, j \in AnswersIn(r) : i < j => r[i].to < r[j].to
  <2> SUFFICES ASSUME NEW i \in AnswersIn(r), NEW j \in AnswersIn(r), i < j
               PROVE  r[i].to < r[j].to
    OBVIOUS
  <2>1. CASE i \in AnswersIn(b) /\ r[i].to = b[i].to /\ j \in AnswersIn(b) /\ r[j].to = b[j].to
    BY <2>1 DEF AnswersRun, AnswersIn
  <2>2. CASE i \in AnswersIn(b) /\ r[i].to = b[i].to /\ \E v \in 1 .. k : j = n + v /\ r[j].to = from + v
    <3>1. r[i].to \in first + 1 .. from
      BY <1>13, <2>2
    <3> QED BY <1>1, <1>9, <2>2, <3>1
  <2>3. CASE (\E u \in 1 .. k : i = n + u) /\ j \in AnswersIn(b)
    BY <1>12, <2>3 DEF AnswersIn
  <2>4. CASE /\ \E u \in 1 .. k : i = n + u /\ r[i].to = from + u
             /\ \E v \in 1 .. k : j = n + v /\ r[j].to = from + v
    BY <1>1, <1>7, <1>9, <2>4
  <2> QED BY <1>14, <2>1, <2>2, <2>3, <2>4
<1>17. first <= from + k
  BY <1>1, <1>9
<1> QED BY <1>15, <1>16, <1>17 DEF AnswersRun, AnswersIn, r, a, from

\* The loop of tryStartNextCommand answers in the order of the line and leaves no gap.
LEMMA DrainQueueOrder ==
    ASSUME NEW q, NEW out, NEW f, NEW lvl, NEW isMidTick, NEW last, NEW first \in Nat,
           DrainInput(q, out, f, lvl, isMidTick, last),
           AnswersRun(out, first, last - Len(q)),
           NEW r \in DrainQueue(q, out, f, lvl, isMidTick)
    PROVE  AnswersRun(r.out, first, last - (Len(r.commands) + Len(r.current)))
<1> DEFINE reached == {k \in 0 .. Len(q) : \A i \in 1 .. k : AtOnce(q[i], f, lvl)}
           answers(k) == out \o Answers(SubSeq(q, 1, k), f, lvl)
           isNew(k) == IF \E i \in 1 .. k : ~MayRefuse(q[i], f, lvl)
                       THEN isMidTick ELSE isNewCommand /\ isMidTick
           emptied(k) == [commands |-> <<>>, current |-> <<>>, ticks |-> 0, due |-> 0,
                          isNew |-> isNew(k), out |-> answers(k)]
           started(k) == [commands |-> SubSeq(q, k + 2, Len(q)), current |-> <<q[k + 1]>>,
                          ticks |-> requiredTicks[q[k + 1].kind],
                          due |-> requiredTicks[q[k + 1].kind] + (IF isMidTick THEN 1 ELSE 0),
                          isNew |-> isMidTick, out |-> answers(k) \o Underway(q[k + 1])]
           thrown(k) == [commands |-> SubSeq(q, k + 2, Len(q)), current |-> <<q[k + 1]>>,
                         ticks |-> 0, due |-> 0, isNew |-> isNew(k), out |-> answers(k)]
<1>1. /\ q \in Seq(Command) /\ Numbered(q, last) /\ last \in Nat /\ out \in Seq(Response)
      /\ Len(q) \in Nat
  BY LenProperties DEF DrainInput
<1>2. \A k \in reached : k \in 0 .. Len(q) /\ AnswersRun(answers(k), first, last - Len(q) + k)
  BY <1>1, LineExtendsRun
<1>3. PICK k \in reached :
         \/ k = Len(q) /\ r = emptied(k)
         \/ k < Len(q) /\ r = started(k)
         \/ k < Len(q) /\ r = thrown(k)
  BY DEF DrainQueue
<1>4. answers(k) \in Seq(Response)
  <2>1. k \in Nat /\ \A i \in 1 .. k : q[i] \in Command
    BY <1>1, <1>2
  <2>2. SubSeq(q, 1, k) \in Seq(Command)
    BY <1>1, <2>1, SubSeqProperties
  <2>3. Answers(SubSeq(q, 1, k), f, lvl) \in Seq(Response)
    BY <2>2, AnswersType
  <2> QED BY <1>1, <2>3, ConcatProperties
<1>5. k \in 0 .. Len(q) /\ AnswersRun(answers(k), first, last - Len(q) + k)
  BY <1>2
<1> HIDE DEF reached, answers, isNew
<1>6. CASE k = Len(q) /\ r = emptied(k)
  <2>1. last - Len(q) + k = last - (Len(r.commands) + Len(r.current))
    BY <1>1, <1>6
  <2> QED BY <1>5, <1>6, <2>1
<1>7. CASE k < Len(q) /\ (r = started(k) \/ r = thrown(k))
  <2>0. /\ r.commands = SubSeq(q, k + 2, Len(q)) /\ r.current = <<q[k + 1]>>
        /\ r.out \in {answers(k), answers(k) \o Underway(q[k + 1])}
    BY <1>7
  <2>1. Len(r.commands) = Len(q) - k - 1 /\ Len(r.current) = 1
    BY <1>1, <1>5, <1>7, <2>0, RestOfQueue
  <2>2. last - Len(q) + k = last - (Len(r.commands) + Len(r.current))
    BY <1>1, <1>5, <2>1
  <2>3. AnswersRun(answers(k) \o Underway(q[k + 1]), first, last - Len(q) + k)
    <3>1. CASE Underway(q[k + 1]) = <<>>
      BY <1>4, <1>5, <3>1, ConcatEmptySeq
    <3>2. CASE Underway(q[k + 1]) = <<Message("underway")>>
      <4>1. Message("underway") \in Response /\ Message("underway").to = 0
        BY ResponseTypes DEF Message
      <4>2. answers(k) \o <<Message("underway")>> = Append(answers(k), Message("underway"))
        BY <1>4, <4>1, AppendIsConcat
      <4> QED BY <1>4, <1>5, <3>2, <4>1, <4>2, MessageKeepsRun
    <3> QED BY <3>1, <3>2 DEF Underway
  <2> QED BY <1>5, <2>0, <2>2, <2>3
<1> QED BY <1>3, <1>6, <1>7

\* A flush takes as many answers as there are in the run.
LEMMA RunLength ==
    ASSUME NEW b \in Seq(Response), NEW first \in Nat, NEW last \in Int, AnswersRun(b, first, last)
    PROVE  Cardinality(AnswersIn(b)) = last - first
<1> DEFINE g == [i \in AnswersIn(b) |-> b[i].to]
<1>1. /\ DOMAIN b = 1 .. Len(b) /\ Len(b) \in Nat
      /\ {b[i].to : i \in AnswersIn(b)} = first + 1 .. last
      /\ first <= last
      /\ \A i, j \in AnswersIn(b) : i < j => b[i].to < b[j].to
  BY LenProperties DEF AnswersRun, AnswersIn
<1>2. \A i \in AnswersIn(b) : i \in Int /\ b[i].to \in Int
  BY <1>1 DEF AnswersIn
<1>3. ASSUME NEW i \in AnswersIn(b), NEW j \in AnswersIn(b), b[i].to = b[j].to
      PROVE  i = j
  <2>1. ~(i < j) /\ ~(j < i)
    BY <1>1, <1>2, <1>3
  <2> QED BY <1>2, <2>1
<1>4. g \in Bijection(AnswersIn(b), first + 1 .. last)
  <2>1. g \in [AnswersIn(b) -> first + 1 .. last]
    BY <1>1
  <2>2. \A y \in first + 1 .. last : \E i \in AnswersIn(b) : g[i] = y
    BY <1>1
  <2> QED BY <1>3, <2>1, <2>2, Fun_IsBij
<1>5. IsFiniteSet(first + 1 .. last) /\ Cardinality(first + 1 .. last) = last - first
  <2>1. first + 1 \in Int
    OBVIOUS
  <2>2. /\ IsFiniteSet(first + 1 .. last)
        /\ Cardinality(first + 1 .. last) = IF first + 1 > last THEN 0 ELSE last - (first + 1) + 1
    BY ONLY <2>1, last \in Int, FS_Interval
  <2> QED BY <1>1, <2>2
<1>6. ExistsBijection(AnswersIn(b), first + 1 .. last)
  BY <1>4 DEF ExistsBijection
<1>7. IsFiniteSet(AnswersIn(b))
  <2>1. IsFiniteSet(1 .. Len(b)) /\ AnswersIn(b) \in SUBSET (1 .. Len(b))
    BY <1>1, FS_Interval DEF AnswersIn
  <2> QED BY <2>1, FS_Subset
<1> QED BY <1>5, <1>6, <1>7, FS_Bijection

\* Every accepted command is answered, is being carried out or stands in line.
OrderInv == isDead \/ AnswersRun(buffersResponses, flushed, accepted - Load)

LEMMA LoadType ==
    ASSUME PlayerInv
    PROVE  /\ accepted \in Nat /\ flushed \in Nat /\ food \in Nat /\ level \in 1 .. kNbLevel + 1
           /\ Load \in Nat /\ Len(commands) \in Nat /\ Len(currentCommand) \in 0 .. 1
           /\ commands \in Seq(Command) /\ currentCommand \in Seq(Command)
           /\ buffersResponses \in Seq(Response)
           /\ currentCommand = <<>> => Len(currentCommand) = 0 /\ commands = <<>> /\ Load = 0
           /\ currentCommand # <<>> => Len(currentCommand) = 1 /\ Load = Len(commands) + 1
<1>1. /\ accepted \in Nat /\ flushed \in Nat /\ food \in Nat /\ level \in 1 .. kNbLevel + 1
      /\ commands \in Seq(Command) /\ currentCommand \in Seq(Command)
      /\ buffersResponses \in Seq(Response) /\ Len(currentCommand) <= 1
  BY DEF PlayerInv, TypeOK
<1>2. Len(commands) \in Nat /\ Len(currentCommand) \in Nat
  BY <1>1, LenProperties
<1>3. currentCommand = <<>> => Len(currentCommand) = 0 /\ commands = <<>> /\ Len(commands) = 0
  BY DEF PlayerInv, NoLostWakeup
<1>4. currentCommand # <<>> => Len(currentCommand) = 1
  <2> DEFINE n == Len(currentCommand)
  <2>1. currentCommand # <<>> => n \in Nat \ {0}
    BY <1>1, EmptySeq, Zenon
  <2>2. n <= 1
    BY <1>1
  <2> HIDE DEF n
  <2>3. currentCommand # <<>> => n = 1
    BY <2>1, <2>2
  <2> QED BY <2>3 DEF n
<1> QED BY <1>1, <1>2, <1>3, <1>4 DEF Load

\* tryStartNextCommand, from the queue q after the answers in out.
LEMMA StartKeepsOrder ==
    ASSUME NEW q \in Seq(Command), NEW out \in Seq(Response), NEW f \in Nat,
           NEW lvl \in 1 .. kNbLevel + 1, NEW isMidTick \in BOOLEAN,
           isNewCommand \in BOOLEAN, accepted' \in Nat, flushed' \in Nat,
           Numbered(q, accepted'), AnswersRun(out, flushed', accepted' - Len(q)),
           TryStartNextCommand(q, out, f, lvl, isMidTick)
    PROVE  OrderInv'
<1>1. DrainInput(q, out, f, lvl, isMidTick, accepted')
  BY DEF DrainInput
<1>2. PICK r \in DrainQueue(q, out, f, lvl, isMidTick) :
         commands' = r.commands /\ currentCommand' = r.current /\ buffersResponses' = r.out
  BY DEF TryStartNextCommand
<1>3. AnswersRun(r.out, flushed', accepted' - (Len(r.commands) + Len(r.current)))
  BY <1>1, DrainQueueOrder
<1>4. Load' = Len(r.commands) + Len(r.current)
  BY <1>2 DEF Load
<1> QED BY <1>2, <1>3, <1>4 DEF OrderInv

LEMMA PushKeepsOrder ==
    ASSUME PlayerInv, OrderInv, NEW k \in Kinds, PushCommand(k)
    PROVE  OrderInv'
<1> DEFINE c == Cmd(accepted + 1, k)
           q == Append(commands, c)
<1>1. /\ accepted' = accepted + 1 /\ TryStartMidTick(q)
      /\ UNCHANGED <<isDead, flushed, food, level>>
  BY DEF PushCommand
<1>2. CASE isDead
  BY <1>1, <1>2 DEF OrderInv
<1>3. CASE ~isDead /\ (cmdTick > 0 \/ currentCommand # <<>>)
  <2>1. commands' = q /\ UNCHANGED <<currentCommand, buffersResponses>>
    BY <1>1, <1>3 DEF TryStartMidTick
  <2>2. c \in Command
    BY LoadType DEF Cmd, Command
  <2>3. Len(q) = Len(commands) + 1
    BY <2>2, LoadType, AppendProperties
  <2>4. Load' = Load + 1
    BY <2>1, <2>3, LoadType DEF Load
  <2>5. accepted' - Load' = accepted - Load
    BY <1>1, <2>4, LoadType
  <2> QED BY <1>1, <1>3, <2>1, <2>5 DEF OrderInv
<1>4. CASE ~isDead /\ cmdTick <= 0 /\ currentCommand = <<>>
  <2>1. commands = <<>> /\ Load = 0
    BY <1>4, LoadType
  <2>2. c \in Command /\ c.n = accepted'
    BY <1>1, LoadType DEF Cmd, Command
  <2>3. q \in Seq(Command) /\ Len(q) = 1 /\ q[1] = c /\ DOMAIN q = {1}
    BY <2>1, <2>2
  <2>4. ~(cmdTick > 0 \/ currentCommand # <<>>)
    BY <1>4 DEF PlayerInv, TypeOK
  <2> HIDE DEF q, c
  <2>5. Numbered(q, accepted')
    BY <1>1, <2>2, <2>3, LoadType DEF Numbered
  <2>6. AnswersRun(buffersResponses, flushed', accepted' - Len(q))
    <3>1. accepted' - Len(q) = accepted - Load
      BY <1>1, <2>1, <2>3, LoadType
    <3> QED BY <1>1, <1>4, <3>1 DEF OrderInv
  <2>7. TryStartNextCommand(q, buffersResponses, food, level, TRUE)
    BY <1>1, <2>4 DEF TryStartMidTick
  <2>8. isNewCommand \in BOOLEAN /\ accepted' \in Nat /\ flushed' \in Nat
    BY <1>1, LoadType DEF PlayerInv, TypeOK
  <2> QED BY <2>3, <2>5, <2>6, <2>7, <2>8, LoadType, StartKeepsOrder
<1> QED BY <1>2, <1>3, <1>4 DEF PlayerInv, TypeOK

LEMMA UpdateKeepsOrder ==
    ASSUME PlayerInv, OrderInv, Update
    PROVE  OrderInv'
<1>1. CASE UpdateStarve
  BY <1>1 DEF UpdateStarve, OrderInv
<1>2. CASE UpdateFrozen \/ UpdateWait \/ UpdateThrow
  <2>1. UNCHANGED <<isDead, flushed, buffersResponses, commands, currentCommand, accepted>>
    BY <1>2 DEF UpdateFrozen, UpdateWait, UpdateThrow, queueVars
  <2> QED BY <2>1 DEF OrderInv, Load
<1>3. ASSUME UpdateExecute \/ UpdateIdle
      PROVE  /\ UNCHANGED <<isDead, flushed, accepted>> /\ ~isDead
             /\ isNewCommand \in BOOLEAN /\ Numbered(commands, accepted')
             /\ accepted' \in Nat /\ flushed' \in Nat
  <2>1. UNCHANGED <<isDead, flushed, accepted>> /\ Survives
    BY <1>3 DEF UpdateExecute, UpdateIdle
  <2> QED BY <2>1, LoadType DEF PlayerInv, TypeOK, Survives, NumberInv, Numbered
<1>4. CASE UpdateExecute
  <2> DEFINE c == currentCommand[1]
             out == Append(buffersResponses, Reply(c))
  <2>1. currentCommand # <<>> /\ ~Throws(c, level) /\ Survives
    BY <1>4 DEF UpdateExecute
  <2>2. c \in Command /\ c.n = accepted - Len(commands)
    BY <2>1, LoadType, EmptySeq, ElementOfSeq DEF PlayerInv, NumberInv
  <2>3. Reply(c) \in Response /\ Reply(c).to = (accepted - Load) + 1
    <3>1. Reply(c) \in Response
      BY <2>2, ResponseTypes, Zenon
    <3>2. Reply(c).to = c.n
      BY DEF Reply
    <3>3. Load = Len(commands) + 1 /\ accepted \in Nat /\ Len(commands) \in Nat
      BY <2>1, LoadType
    <3>4. accepted - Len(commands) = (accepted - Load) + 1
      BY <3>3
    <3> QED BY <2>2, <3>1, <3>2, <3>4
  <2>4. out \in Seq(Response)
    BY <2>3, LoadType, AppendProperties
  <2>5. AnswersRun(out, flushed, (accepted - Load) + 1)
    BY <1>3, <1>4, <2>3, LoadType, AnswerExtendsRun DEF OrderInv
  <2>6. (accepted - Load) + 1 = accepted' - Len(commands)
    BY <1>3, <1>4, <2>1, LoadType
  <2>7. AnswersRun(out, flushed', accepted' - Len(commands))
    BY <1>3, <1>4, <2>5, <2>6
  <2>8. PICK o \in Outcomes(c, Digest.food) : TryStartNextCommand(commands, out, o.food, o.level, FALSE)
    BY <1>4 DEF UpdateExecute
  <2>9. o.food \in Nat /\ o.level \in 1 .. kNbLevel + 1
    BY <2>1, <2>2, <2>8, DigestKeeps, OutcomesType DEF PlayerInv
  <2> HIDE DEF c, out
  <2> QED BY <1>3, <1>4, <2>4, <2>7, <2>8, <2>9, LoadType, StartKeepsOrder
<1>5. CASE UpdateIdle
  <2>1. currentCommand = <<>> /\ Survives /\ TryStartNextCommand(commands, buffersResponses, Digest.food, level, FALSE)
    BY <1>5 DEF UpdateIdle
  <2>2. accepted' - Len(commands) = accepted - Load
    BY <1>3, <1>5, <2>1, LoadType DEF Load
  <2>3. AnswersRun(buffersResponses, flushed', accepted' - Len(commands))
    BY <1>3, <1>5, <2>2 DEF OrderInv
  <2>4. Digest.food \in Nat
    BY <2>1, DigestKeeps DEF PlayerInv
  <2> QED BY <1>3, <1>5, <2>1, <2>3, <2>4, LoadType, StartKeepsOrder
<1> QED BY <1>1, <1>2, <1>4, <1>5 DEF Update

LEMMA OthersKeepOrder ==
    ASSUME PlayerInv, OrderInv, Hear \/ Enroll \/ (\E success \in BOOLEAN : Release(success))
    PROVE  OrderInv'
<1>1. UNCHANGED <<isDead, flushed, commands, currentCommand, accepted>>
  BY DEF Hear, Enroll, Release, queueVars
<1>2. PICK t \in {"event", "underway", "level", "ko"} : buffersResponses' = Append(buffersResponses, Message(t))
  BY DEF Hear, Enroll, Release
<1>3. Message(t) \in Response /\ Message(t).to = 0
  BY ResponseTypes DEF Message
<1>4. CASE isDead
  BY <1>1, <1>4 DEF OrderInv
<1>5. CASE AnswersRun(buffersResponses, flushed, accepted - Load)
  <2>1. AnswersRun(buffersResponses', flushed, accepted - Load)
    BY <1>2, <1>3, <1>5, LoadType, MessageKeepsRun
  <2> QED BY <1>1, <2>1 DEF OrderInv, Load
<1> QED BY <1>4, <1>5 DEF OrderInv

LEMMA FlushKeepsOrder ==
    ASSUME PlayerInv, OrderInv, Responses
    PROVE  OrderInv'
<1>1. UNCHANGED <<isDead, commands, currentCommand, accepted>> /\ buffersResponses' = <<>>
  BY DEF Responses, queueVars
<1>2. CASE isDead
  BY <1>1, <1>2 DEF OrderInv
<1>3. CASE AnswersRun(buffersResponses, flushed, accepted - Load)
  <2>1. flushed' = flushed + Cardinality(AnswersIn(buffersResponses))
    BY DEF Responses, AnswersIn
  <2>2. accepted - Load \in Int
    BY LoadType
  <2>3. Cardinality(AnswersIn(buffersResponses)) = (accepted - Load) - flushed
    BY <1>3, <2>2, LoadType, RunLength
  <2>4. flushed' = accepted - Load
    BY <2>1, <2>2, <2>3, LoadType
  <2>5. flushed' + 1 .. accepted - Load = {} /\ flushed' <= accepted - Load
    BY <2>2, <2>4
  <2>6. DOMAIN buffersResponses' = {}
    BY <1>1
  <2>7. AnswersRun(buffersResponses', flushed', accepted - Load)
    BY <2>5, <2>6 DEF AnswersRun
  <2> QED BY <1>1, <2>7 DEF OrderInv, Load
<1> QED BY <1>2, <1>3 DEF OrderInv

LEMMA OrderStep == PlayerInv /\ OrderInv /\ [Next]_vars => OrderInv'
<1> SUFFICES ASSUME PlayerInv, OrderInv, [Next]_vars PROVE OrderInv'
  OBVIOUS
<1>1. CASE UNCHANGED vars
  BY <1>1 DEF vars, OrderInv, Load
<1> QED BY <1>1, PushKeepsOrder, UpdateKeepsOrder, OthersKeepOrder, FlushKeepsOrder DEF Next

\* The AI may match answers to commands by order alone: whichever commands are refused,
\* instantaneous, failed or frozen, the answers that wait, the command being carried out
\* and the queue are all that was accepted since the last flush, once each and in order.
THEOREM OrderCorrect == Spec => []RepliesInOrder
<1>1. Init => OrderInv
  <2> SUFFICES ASSUME Init PROVE OrderInv
    OBVIOUS
  <2>1. flushed = 0 /\ accepted = 0 /\ Load = 0 /\ buffersResponses = <<>>
    BY DEF Init, Load
  <2>2. flushed + 1 .. accepted - Load = {} /\ flushed <= accepted - Load
    BY <2>1
  <2>3. DOMAIN buffersResponses = {}
    BY <2>1
  <2> QED BY <2>2, <2>3 DEF OrderInv, AnswersRun
<1>2. PlayerInv /\ OrderInv => RepliesInOrder
  <2> SUFFICES ASSUME PlayerInv, OrderInv, ~isDead PROVE RepliesInOrder
    BY DEF RepliesInOrder
  <2>1. AnswersRun(buffersResponses, flushed, accepted - Load)
    BY DEF OrderInv
  <2>2. \A i \in DOMAIN currentCommand : currentCommand[i].n = accepted - Load + i
    <3> SUFFICES ASSUME NEW i \in DOMAIN currentCommand PROVE currentCommand[i].n = accepted - Load + i
      OBVIOUS
    <3>1. DOMAIN currentCommand = 1 .. Len(currentCommand)
      BY LoadType, LenProperties
    <3>2. currentCommand # <<>> /\ i = 1
      BY <3>1, LoadType
    <3>3. currentCommand[1].n = accepted - Len(commands)
      BY <3>2 DEF PlayerInv, NumberInv
    <3> QED BY <3>2, <3>3, LoadType
  <2>3. \A i \in DOMAIN commands : commands[i].n = accepted - Len(commands) + i
    BY DEF PlayerInv, NumberInv
  <2> QED BY <2>1, <2>2, <2>3 DEF RepliesInOrder
<1> QED BY <1>1, <1>2, OrderStep, PlayerInvariant, PTL DEF Spec

-----------------------------------------------------------------------------
(* What a tick does.                                                       *)

LEMMA UpdateCases ==
    Update => \/ UpdateStarve
              \/ Survives /\ (UpdateFrozen \/ UpdateWait \/ UpdateExecute \/ UpdateThrow \/ UpdateIdle)
  BY DEF Update, UpdateFrozen, UpdateWait, UpdateExecute, UpdateThrow, UpdateIdle

\* Eating or not, the player is one unit of life poorer for having lived the tick.
LEMMA DigestCosts ==
    ASSUME TypeOK, AliveInv, Survives
    PROVE  /\ Digest.life + kNbLifeTickFood * Digest.food = Life - 1
           /\ Digest.life \in Nat \ {0} /\ Digest.food \in Nat
           /\ \A g \in Nat : Digest.life + kNbLifeTickFood * g \in Nat \ {0}
<1>1. kNbLifeTickFood \in Nat \ {0} /\ lifeTick \in Nat \ {0} /\ food \in Nat /\ ~isDead
  BY PlayerAssumption DEF TypeOK, AliveInv, Survives
<1>2. Digest.life \in Nat \ {0} /\ Digest.food \in Nat
  BY DigestKeeps
<1> DEFINE whole == kNbLifeTickFood * food
<1>3. whole \in Int /\ Life = lifeTick + whole
  BY <1>1 DEF Life
<1>4. Digest.life + kNbLifeTickFood * Digest.food = Life - 1
  <2>1. CASE Hungry
    <3>1. Digest.life = kNbLifeTickFood /\ Digest.food = food - 1 /\ lifeTick = 1
      BY <1>1, <2>1 DEF Digest, Hungry
    <3>2. kNbLifeTickFood * Digest.food = whole - kNbLifeTickFood
      BY <1>1, <3>1
    <3> HIDE DEF whole
    <3> QED BY <1>1, <1>3, <3>1, <3>2
  <2>2. CASE ~Hungry
    <3>1. Digest.life = lifeTick - 1 /\ Digest.food = food
      BY <1>1, <2>2 DEF Digest
    <3>2. kNbLifeTickFood * Digest.food = whole
      BY <3>1
    <3> HIDE DEF whole
    <3> QED BY <1>1, <1>3, <3>1, <3>2
  <2> QED BY <2>1, <2>2
<1>5. \A g \in Nat : kNbLifeTickFood * g \in Nat
  BY <1>1
<1> QED BY <1>2, <1>4, <1>5

LEMMA LifeStep ==
    ASSUME PlayerInv, Update
    PROVE  Life' - Life + 1 \in Transfer /\ (isDead' <=> Life' = 0)
<1>1. TypeOK /\ AliveInv /\ kNbLifeTickFood \in Nat /\ food \in Nat
  BY PlayerAssumption DEF PlayerInv, TypeOK
<1>2. 0 \in Transfer
  BY DEF Transfer
<1>3. Life \in Int
  BY <1>1 DEF Life, TypeOK
<1>4. CASE UpdateStarve
  <2>1. lifeTick = 1 /\ food = 0 /\ lifeTick' = 0 /\ food' = 0 /\ isDead'
    BY <1>1, <1>4 DEF UpdateStarve, Hungry, TypeOK, AliveInv
  <2>2. Life = 1 /\ Life' = 0
    BY <1>1, <2>1 DEF Life
  <2> QED BY <1>2, <2>1, <2>2
<1>5. CASE Survives /\ (UpdateFrozen \/ UpdateWait \/ UpdateThrow \/ UpdateIdle)
  <2>1. lifeTick' = Digest.life /\ food' = Digest.food /\ isDead' = isDead /\ ~isDead
    <3>1. ~isDead
      BY <1>5 DEF Survives
    <3> QED BY <1>5, <3>1 DEF UpdateFrozen, UpdateWait, UpdateThrow, UpdateIdle
  <2>2. Life' = Digest.life + kNbLifeTickFood * Digest.food
    BY <2>1 DEF Life
  <2>3. Life' = Life - 1 /\ Life' # 0
    BY <1>1, <1>5, <2>2, DigestCosts
  <2> QED BY <1>2, <1>3, <2>1, <2>3
<1>6. CASE Survives /\ UpdateExecute
  <2> DEFINE c == currentCommand[1]
             f == Digest.food
  <2>1. PICK o \in Outcomes(c, f) : food' = o.food
    BY <1>6 DEF UpdateExecute
  <2>2. lifeTick' = Digest.life /\ ~isDead' /\ currentCommand # <<>>
    BY <1>6 DEF UpdateExecute, Survives
  <2>3. /\ Digest.life + kNbLifeTickFood * f = Life - 1
        /\ Digest.life \in Nat /\ f \in Nat
        /\ \A g \in Nat : Digest.life + kNbLifeTickFood * g \in Nat \ {0}
    BY <1>1, <1>6, DigestCosts
  <2>4. Life' = Digest.life + kNbLifeTickFood * food'
    BY <2>2 DEF Life
  <2>5. \/ food' = f
        \/ c.kind = "Take" /\ food' = f + 1
        \/ c.kind = "Set" /\ f > 0 /\ food' = f - 1
    BY <2>1, <2>3 DEF Outcomes
  <2> HIDE DEF c, f
  <2>6. food' \in Nat
    BY <2>3, <2>5
  <2>7. Life' # 0
    BY <2>3, <2>4, <2>6
  <2>8. CASE food' = f
    <3>1. Life' - Life + 1 = 0
      BY <1>3, <2>3, <2>4, <2>8
    <3> QED BY <1>2, <2>2, <2>7, <3>1
  <2> DEFINE part == kNbLifeTickFood * f
  <2>9. part \in Int /\ Life = Digest.life + part + 1
    BY <1>1, <1>3, <2>3
  <2>10. CASE c.kind = "Take" /\ food' = f + 1
    <3>1. kNbLifeTickFood * food' = part + kNbLifeTickFood
      BY <1>1, <2>3, <2>10
    <3>2. Life' - Life + 1 = kNbLifeTickFood
      <4> HIDE DEF part
      <4> QED BY <1>1, <2>3, <2>4, <2>9, <3>1
    <3>3. Transfer = {0, kNbLifeTickFood}
      BY <2>2, <2>10 DEF Transfer, c
    <3> QED BY <2>2, <2>7, <3>2, <3>3
  <2>11. CASE c.kind = "Set" /\ f > 0 /\ food' = f - 1
    <3>1. kNbLifeTickFood * food' = part - kNbLifeTickFood
      BY <1>1, <2>3, <2>11
    <3>2. Life' - Life + 1 = -kNbLifeTickFood
      <4> HIDE DEF part
      <4> QED BY <1>1, <2>3, <2>4, <2>9, <3>1
    <3>3. Transfer = {0, -kNbLifeTickFood}
      BY <2>2, <2>11 DEF Transfer, c
    <3> QED BY <2>2, <2>7, <3>2, <3>3
  <2> QED BY <2>5, <2>8, <2>10, <2>11
<1> QED BY <1>4, <1>5, <1>6, UpdateCases

\* A tick costs one unit of life, eaten or counted down, beyond what the command it
\* completes takes or puts down; and the player dies when the last one is spent.
THEOREM LifeCorrect == Spec => TickCostsOneLife
<1>1. PlayerInv /\ [Next]_vars =>
        [Update => Life' - Life + 1 \in Transfer /\ (isDead' <=> Life' = 0)]_vars
  BY LifeStep
<1> QED BY <1>1, PlayerInvariant, PTL DEF Spec, TickCostsOneLife

-----------------------------------------------------------------------------
(* Time.                                                                   *)

LEMMA TimeStep ==
    ASSUME PlayerInv, [Next]_vars, due > 0, ~isDead'
    PROVE  IF currentCommand' = currentCommand
           THEN due' > 0 \/ Throws(currentCommand[1], level)
           ELSE due = 1
<1>1. /\ TypeOK /\ due \in Nat /\ cmdTick \in Nat /\ cmdTick > 0
      /\ currentCommand # <<>>
      /\ ~isNewCommand => due = cmdTick
      /\ isNewCommand => due = cmdTick + 1
  BY DEF PlayerInv, TypeOK, CountdownInv, NoLostWakeup
<1>2. CASE UNCHANGED <<currentCommand, due>>
  BY <1>2
<1>3. ASSUME NEW k \in Kinds, PushCommand(k)
      PROVE  UNCHANGED <<currentCommand, due>>
  BY <1>1, <1>3 DEF PushCommand, TryStartMidTick
<1>4. UpdateStarve \/ UpdateFrozen => UNCHANGED <<currentCommand, due>>
  BY DEF UpdateStarve, UpdateFrozen, queueVars
<1>5. Hear \/ Enroll \/ (\E success \in BOOLEAN : Release(success)) \/ Responses
        => UNCHANGED <<currentCommand, due>>
  BY DEF Hear, Enroll, Release, Responses, queueVars
<1>6. CASE UpdateWait
  <2>1. due' = due - 1 /\ currentCommand' = currentCommand /\ Elapsed > 0
    BY <1>6 DEF UpdateWait
  <2>2. due' > 0
    <3>1. CASE isNewCommand
      BY <1>1, <2>1, <3>1
    <3>2. CASE ~isNewCommand
      BY <1>1, <2>1, <3>2 DEF Elapsed
    <3> QED BY <3>1, <3>2
  <2> QED BY <2>1, <2>2
<1>7. CASE UpdateThrow
  BY <1>7 DEF UpdateThrow
<1>8. ~UpdateIdle
  BY <1>1 DEF UpdateIdle
<1>9. CASE UpdateExecute
  <2>1. due = 1
    BY <1>1, <1>9 DEF UpdateExecute, Elapsed
  <2>2. /\ QueueTypes' /\ QueueInv' /\ UNCHANGED accepted
        /\ Len(commands') + Len(currentCommand') <= Len(commands)
    BY <1>9, ExecuteStarts DEF UpdateExecute
  <2>3. currentCommand' # currentCommand
    <3> SUFFICES ASSUME currentCommand' = currentCommand PROVE FALSE
      OBVIOUS
    <3>1. Len(commands) \in Nat /\ Len(commands') \in Nat /\ accepted \in Nat
      BY <1>1, <2>2, LenProperties DEF TypeOK, QueueTypes
    <3>2. accepted - Len(commands') = accepted - Len(commands)
      BY <1>1, <2>2 DEF PlayerInv, QueueInv, NumberInv
    <3>3. Len(currentCommand') \in Nat \ {0}
      BY <1>1, <2>2, EmptySeq, LenProperties DEF QueueTypes
    <3> QED BY <2>2, <3>1, <3>2, <3>3
  <2> QED BY <2>1, <2>3
<1> QED BY <1>2, <1>3, <1>4, <1>5, <1>6, <1>7, <1>8, <1>9 DEF Next, Update, vars

\* A command is answered after exactly the ticks it takes, plus the one it is spared
\* when it started between two ticks: for every duration of the commands.
THEOREM TimeCorrect == Spec => CommandsTakeTheirTime
<1>1. PlayerInv /\ [Next]_vars =>
        [due > 0 /\ ~isDead' =>
           IF currentCommand' = currentCommand
           THEN due' > 0 \/ Throws(currentCommand[1], level)
           ELSE due = 1]_vars
  BY TimeStep
<1> QED BY <1>1, PlayerInvariant, PTL DEF Spec, CommandsTakeTheirTime

\* Before the announced tick the player neither eats nor finishes a command.
LEMMA EarlyTick ==
    ASSUME PlayerInv, ~isDead, NextExecutionTick > 1
    PROVE  /\ ~Hungry /\ Digest.life = lifeTick - 1 /\ Digest.food = food
           /\ lifeTick \in Nat /\ lifeTick > 1
           /\ currentCommand # <<>> => cmdTick > 1
           /\ currentCommand = <<>> => commands = <<>> /\ cmdTick = 0
<1>1. /\ lifeTick \in Nat /\ lifeTick >= 1 /\ cmdTick \in Nat
      /\ currentCommand = <<>> => commands = <<>> /\ ~(cmdTick > 0)
  BY PlayerAssumption DEF PlayerInv, TypeOK, AliveInv, NoLostWakeup
<1>2. lifeTick > 1
  BY <1>1 DEF NextExecutionTick
<1>3. currentCommand # <<>> => cmdTick > 1
  BY <1>1 DEF NextExecutionTick
<1> QED BY <1>1, <1>2, <1>3 DEF Digest, Hungry

LEMMA SleepStep ==
    ASSUME PlayerInv, Update, NextExecutionTick > 1
    PROVE  /\ UNCHANGED <<food, isDead, commands, currentCommand, level, buffersResponses>>
           /\ NextExecutionTick' >= NextExecutionTick - 1
<1>1. TypeOK /\ cmdTick \in Nat
  BY DEF PlayerInv, TypeOK
<1>2. ~isDead
  BY DEF Update, UpdateStarve, UpdateFrozen, UpdateWait, UpdateExecute, UpdateThrow, UpdateIdle, Survives
<1>3. /\ ~Hungry /\ Digest.life = lifeTick - 1 /\ Digest.food = food
      /\ lifeTick \in Nat /\ lifeTick > 1
      /\ currentCommand # <<>> => cmdTick > 1
      /\ currentCommand = <<>> => commands = <<>> /\ cmdTick = 0
  BY <1>2, EarlyTick
<1>4. CASE UpdateFrozen
  <2>1. /\ lifeTick' = lifeTick - 1 /\ food' = food
        /\ UNCHANGED <<isDead, level, buffersResponses, commands, currentCommand, cmdTick>>
    BY <1>3, <1>4 DEF UpdateFrozen, queueVars
  <2> QED BY <1>1, <1>3, <2>1 DEF NextExecutionTick
<1>5. CASE UpdateWait
  <2>1. /\ lifeTick' = lifeTick - 1 /\ food' = food /\ cmdTick' = Elapsed /\ Elapsed > 0
        /\ UNCHANGED <<isDead, level, buffersResponses, commands, currentCommand>>
    BY <1>3, <1>5 DEF UpdateWait
  <2>2. cmdTick' = cmdTick \/ cmdTick' = cmdTick - 1
    BY <2>1 DEF Elapsed
  <2>3. cmdTick' > 0
    BY <2>1
  <2> HIDE DEF Elapsed
  <2> QED BY <1>1, <1>3, <2>1, <2>2, <2>3 DEF NextExecutionTick
<1>6. ~(UpdateStarve \/ UpdateExecute \/ UpdateThrow)
  <2>1. Elapsed = 0 => currentCommand = <<>>
    BY <1>1, <1>3 DEF Elapsed
  <2> QED BY <1>3, <2>1 DEF UpdateStarve, UpdateExecute, UpdateThrow
<1>7. CASE UpdateIdle
  <2>1. /\ lifeTick' = lifeTick - 1 /\ food' = food /\ currentCommand = <<>>
        /\ UNCHANGED <<isDead, level, accepted>>
    BY <1>3, <1>7 DEF UpdateIdle
  <2>2. PICK r \in DrainQueue(commands, buffersResponses, Digest.food, level, FALSE) : Leaves(r)
    BY <1>7 DEF UpdateIdle, TryStartNextCommand, Leaves
  <2>3. /\ buffersResponses \in Seq(Response) /\ Digest.food \in Nat
        /\ level \in 1 .. kNbLevel + 1
    BY <1>1, <1>3 DEF TypeOK
  <2>4. Drained(r, commands, buffersResponses, level, accepted)
    BY <2>1, <2>2, <2>3, StartsFromUpdate
  <2>5. /\ commands' = <<>> /\ currentCommand' = <<>> /\ cmdTick' = 0
        /\ buffersResponses' = buffersResponses
    BY <1>3, <2>1, <2>2, <2>4 DEF Drained, Leaves
  <2> QED BY <1>1, <1>3, <2>1, <2>5 DEF NextExecutionTick
<1> QED BY <1>4, <1>5, <1>6, <1>7 DEF Update

\* Sleeping until the announced tick misses nothing: until then an update changes
\* neither the answers, the food, the level nor the queue of the player.
THEOREM SleepCorrect == Spec => SleepMissesNothing
<1>1. PlayerInv /\ [Next]_vars =>
        [Update /\ NextExecutionTick > 1 =>
           /\ UNCHANGED <<food, isDead, commands, currentCommand, level, buffersResponses>>
           /\ NextExecutionTick' >= NextExecutionTick - 1]_vars
  BY SleepStep
<1> QED BY <1>1, PlayerInvariant, PTL DEF Spec, SleepMissesNothing

=============================================================================
