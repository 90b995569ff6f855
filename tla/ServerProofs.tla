---------------------------- MODULE ServerProofs ----------------------------
(***************************************************************************)
(* Clients and players of the server, for any number of descriptors and    *)
(* connections, buffers of any size and any messages: whatever the clients *)
(* do and wherever exceptions cut a turn short, every player has its       *)
(* client, the departed are known, and no line reaches another's player.   *)
(*                                                                         *)
(* What the checked invariants lack is the order of the queue.  The events *)
(* of a descriptor come connection after connection (Ordered), none of     *)
(* them is of a connection before that of the player on it (Behind) or     *)
(* after the one that is open (Latest), and what a closed connection has   *)
(* said is followed by its disconnection (Followed).  QueueInv is stated   *)
(* of any queue q, open connections cl and players cp, so that an action   *)
(* can be taken apart into the steps it makes on them.                     *)
(***************************************************************************)
EXTENDS Server, SequenceTheorems, FiniteSetTheorems, TLAPS

EventType == {"CONNECTED", "RECEIVED", "DISCONNECTED"}
Events(n) == [type : EventType, fd : Fds, by : 1 .. n]
Farewell(f, c) == [type |-> "DISCONNECTED", fd |-> f, by |-> c]

\* A connection is on one descriptor, whoever speaks of it.
Homes(q, cl, cp) ==
    /\ \A f, g \in Fds : f # g => /\ cl[f] # 0 => cl[f] # cl[g] /\ cl[f] # cp[g]
                                  /\ cp[f] # 0 => cp[f] # cp[g]
    /\ \A i \in DOMAIN q : \A f \in Fds : f # q[i].fd => cl[f] # q[i].by /\ cp[f] # q[i].by
    /\ \A i, j \in DOMAIN q : q[i].by = q[j].by => q[i].fd = q[j].fd

Ordered(q) == \A i, j \in DOMAIN q : i < j /\ q[i].fd = q[j].fd => q[i].by <= q[j].by

Latest(q, cl, cp) ==
    \A f \in Fds : cl[f] # 0 =>
        /\ cp[f] <= cl[f]
        /\ \A i \in DOMAIN q : q[i].fd = f => q[i].by <= cl[f]

Behind(q, cp) == \A i \in DOMAIN q : cp[q[i].fd] <= q[i].by

Followed(q, cl) ==
    \A i \in DOMAIN q : q[i].type # "DISCONNECTED" /\ cl[q[i].fd] # q[i].by =>
        \E j \in DOMAIN q : i < j /\ q[j] = Farewell(q[i].fd, q[i].by)

Known(q, cl, cp) ==
    \A f \in Fds : cp[f] # 0 /\ cl[f] # cp[f] =>
        \E i \in DOMAIN q :
            /\ q[i] = Farewell(f, cp[f])
            /\ \A j \in 1 .. i : q[j].fd = f => q[j].by = cp[f]

QueueTypeOK(q, cl, cp, n) ==
    /\ n \in Nat /\ q \in Seq(Events(n))
    /\ cl \in [Fds -> 0 .. n] /\ cp \in [Fds -> 0 .. n]

QueueInv(q, cl, cp, n) ==
    /\ QueueTypeOK(q, cl, cp, n)
    /\ Homes(q, cl, cp)
    /\ Ordered(q)
    /\ Latest(q, cl, cp)
    /\ Behind(q, cp)
    /\ Followed(q, cl)
    /\ Known(q, cl, cp)

-----------------------------------------------------------------------------
(* Steps on the queue.                                                     *)

LEMMA QueueFacts ==
    ASSUME NEW n \in Nat, NEW q \in Seq(Events(n))
    PROVE  /\ Len(q) \in Nat /\ DOMAIN q = 1 .. Len(q)
           /\ \A i \in DOMAIN q : q[i] \in Events(n)
           /\ \A i \in DOMAIN q : q[i].type \in EventType /\ q[i].fd \in Fds /\ q[i].by \in 1 .. n
<1>1. Len(q) \in Nat /\ DOMAIN q = 1 .. Len(q)
  BY LenProperties
<1>2. \A i \in DOMAIN q : q[i] \in Events(n)
  BY <1>1, ElementOfSeq
<1> QED
  BY <1>1, <1>2 DEF Events

LEMMA AppendFacts ==
    ASSUME NEW n \in Nat, NEW q \in Seq(Events(n)), NEW e \in Events(n), NEW r, r = Append(q, e)
    PROVE  /\ r \in Seq(Events(n)) /\ Len(r) = Len(q) + 1
           /\ DOMAIN r = 1 .. Len(q) + 1
           /\ \A i \in DOMAIN q : i \in DOMAIN r /\ r[i] = q[i]
           /\ r[Len(q) + 1] = e
           /\ \A i \in DOMAIN r : i \in DOMAIN q \/ i = Len(q) + 1
<1>1. Len(q) \in Nat /\ DOMAIN q = 1 .. Len(q)
  BY QueueFacts
<1>2. r \in Seq(Events(n)) /\ Len(r) = Len(q) + 1
  BY AppendProperties
<1>3. DOMAIN r = 1 .. Len(q) + 1
  BY <1>2, LenProperties
<1>4. \A i \in 1 .. Len(q) : r[i] = q[i]
  BY AppendProperties
<1>5. r[Len(q) + 1] = e
  BY AppendProperties
<1> QED
  BY <1>1, <1>2, <1>3, <1>4, <1>5

LEMMA TailFacts ==
    ASSUME NEW n \in Nat, NEW q \in Seq(Events(n)), q # <<>>, NEW r, r = Tail(q)
    PROVE  /\ r \in Seq(Events(n)) /\ Len(q) \in Nat \ {0} /\ Len(r) = Len(q) - 1
           /\ DOMAIN q = 1 .. Len(q) /\ DOMAIN r = 1 .. Len(q) - 1
           /\ 1 \in DOMAIN q /\ Head(q) = q[1]
           /\ \A i \in DOMAIN r : i + 1 \in DOMAIN q /\ r[i] = q[i + 1]
<1>1. Len(q) \in Nat \ {0} /\ DOMAIN q = 1 .. Len(q)
  BY QueueFacts, EmptySeq
<1>2. r \in Seq(Events(n)) /\ Len(r) = Len(q) - 1 /\ \A i \in 1 .. Len(q) - 1 : r[i] = q[i + 1]
  BY HeadTailProperties
<1>3. DOMAIN r = 1 .. Len(q) - 1
  BY <1>2, LenProperties
<1>4. Head(q) = q[1]
  BY <1>1
<1> QED
  BY <1>1, <1>2, <1>3, <1>4

\* What is known of the departed does not depend on what comes later.
LEMMA AppendKnown ==
    ASSUME NEW n \in Nat, NEW q \in Seq(Events(n)), NEW e, NEW cl, NEW cp, Known(q, cl, cp)
    PROVE  Known(Append(q, e), cl, cp)
<1> DEFINE r == Append(q, e)
<1>1. Len(q) \in Nat /\ DOMAIN q = 1 .. Len(q)
  BY QueueFacts
<1>2. Len(r) = Len(q) + 1 /\ DOMAIN r = 1 .. Len(q) + 1 /\ \A i \in 1 .. Len(q) : r[i] = q[i]
  BY <1>1
<1> HIDE DEF r
<1>3. \A i \in DOMAIN q : i \in DOMAIN r /\ r[i] = q[i] /\ \A j \in 1 .. i : j \in DOMAIN q /\ r[j] = q[j]
  BY <1>1, <1>2
<1> QED
  BY <1>3 DEF Known, r

\* A player is forgotten.
LEMMA Forget ==
    ASSUME NEW q, NEW cl, NEW cp, NEW n, QueueInv(q, cl, cp, n), NEW f \in Fds
    PROVE  QueueInv(q, cl, [cp EXCEPT ![f] = 0], n)
<1> DEFINE dp == [cp EXCEPT ![f] = 0]
<1>1. /\ n \in Nat /\ q \in Seq(Events(n)) /\ cl \in [Fds -> 0 .. n] /\ cp \in [Fds -> 0 .. n]
  BY DEF QueueInv, QueueTypeOK
<1>2. \A i \in DOMAIN q : q[i].fd \in Fds /\ q[i].by \in 1 .. n
  BY <1>1, QueueFacts
<1>3. dp \in [Fds -> 0 .. n] /\ dp[f] = 0 /\ \A g \in Fds \ {f} : dp[g] = cp[g]
  BY <1>1
<1> HIDE DEF dp
<1>4. QueueTypeOK(q, cl, dp, n)
  BY <1>1, <1>3 DEF QueueTypeOK
<1>5. Homes(q, cl, dp)
  BY <1>1, <1>2, <1>3 DEF QueueInv, Homes
<1>6. Latest(q, cl, dp)
  BY <1>1, <1>3 DEF QueueInv, Latest
<1>7. Behind(q, dp)
  <2> SUFFICES ASSUME NEW i \in DOMAIN q PROVE dp[q[i].fd] <= q[i].by
    BY DEF Behind
  <2>1. CASE q[i].fd = f
    BY <1>2, <1>3, <2>1
  <2>2. CASE q[i].fd # f
    BY <1>2, <1>3, <2>2 DEF QueueInv, Behind
  <2> QED
    BY <2>1, <2>2
<1>8. Known(q, cl, dp)
  BY <1>3 DEF QueueInv, Known
<1> QED
  BY <1>4, <1>5, <1>6, <1>7, <1>8 DEF QueueInv, dp

\* An event is taken from the queue: not the disconnection that a player still waits for.
LEMMA TakeEvent ==
    ASSUME NEW q, NEW cl, NEW cp, NEW n, QueueInv(q, cl, cp, n), q # <<>>,
           Head(q).type # "DISCONNECTED" \/ cp[Head(q).fd] = 0
    PROVE  QueueInv(Tail(q), cl, cp, n)
<1> DEFINE r == Tail(q)
<1>1. /\ n \in Nat /\ q \in Seq(Events(n)) /\ cl \in [Fds -> 0 .. n] /\ cp \in [Fds -> 0 .. n]
  BY DEF QueueInv, QueueTypeOK
<1>2. \A i \in DOMAIN q : q[i].fd \in Fds /\ q[i].by \in 1 .. n
  BY <1>1, QueueFacts
<1>3. /\ r \in Seq(Events(n)) /\ Len(q) \in Nat \ {0}
      /\ DOMAIN q = 1 .. Len(q) /\ DOMAIN r = 1 .. Len(q) - 1
      /\ 1 \in DOMAIN q /\ Head(q) = q[1]
      /\ \A i \in DOMAIN r : i + 1 \in DOMAIN q /\ r[i] = q[i + 1]
  BY <1>1, TailFacts
<1> HIDE DEF r
<1>4. \A i \in DOMAIN r : i \in Nat /\ i >= 1
  BY <1>3
<1>5. QueueTypeOK(r, cl, cp, n)
  BY <1>1, <1>3 DEF QueueTypeOK
<1>6. Homes(r, cl, cp)
  BY <1>3 DEF QueueInv, Homes
<1>7. Ordered(r)
  BY <1>3, <1>4 DEF QueueInv, Ordered
<1>8. Latest(r, cl, cp)
  BY <1>3 DEF QueueInv, Latest
<1>9. Behind(r, cp)
  BY <1>3 DEF QueueInv, Behind
<1>10. \A j \in DOMAIN q : j > 1 => j - 1 \in DOMAIN r /\ r[j - 1] = q[j]
  BY <1>3
<1>11. Followed(r, cl)
  <2> SUFFICES ASSUME NEW i \in DOMAIN r, r[i].type # "DISCONNECTED", cl[r[i].fd] # r[i].by
               PROVE  \E j \in DOMAIN r : i < j /\ r[j] = Farewell(r[i].fd, r[i].by)
    BY DEF Followed
  <2>1. PICK j \in DOMAIN q : i + 1 < j /\ q[j] = Farewell(r[i].fd, r[i].by)
    BY <1>3 DEF QueueInv, Followed
  <2>2. j - 1 \in DOMAIN r /\ r[j - 1] = q[j] /\ i < j - 1
    BY <1>3, <1>4, <1>10, <2>1
  <2> QED
    BY <2>1, <2>2
<1>12. Known(r, cl, cp)
  <2> SUFFICES ASSUME NEW f \in Fds, cp[f] # 0, cl[f] # cp[f]
               PROVE  \E i \in DOMAIN r : /\ r[i] = Farewell(f, cp[f])
                                          /\ \A j \in 1 .. i : r[j].fd = f => r[j].by = cp[f]
    BY DEF Known
  <2>1. PICK i \in DOMAIN q : /\ q[i] = Farewell(f, cp[f])
                              /\ \A j \in 1 .. i : q[j].fd = f => q[j].by = cp[f]
    BY DEF QueueInv, Known
  <2>2. i # 1
    BY <1>3, <2>1 DEF Farewell
  <2>3. i - 1 \in DOMAIN r /\ r[i - 1] = q[i]
    BY <1>3, <1>10, <2>2
  <2>4. \A j \in 1 .. i - 1 : j \in DOMAIN r /\ j + 1 \in 1 .. i
    BY <1>3, <2>3
  <2>5. \A j \in 1 .. i - 1 : r[j].fd = f => r[j].by = cp[f]
    BY <1>3, <2>1, <2>4
  <2> QED
    BY <2>1, <2>3, <2>5
<1> QED
  BY <1>5, <1>6, <1>7, <1>8, <1>9, <1>11, <1>12 DEF QueueInv, r

\* The event at the head makes its connection a player.
LEMMA Hatch ==
    ASSUME NEW q, NEW cl, NEW cp, NEW n, QueueInv(q, cl, cp, n), q # <<>>,
           Head(q).type # "DISCONNECTED", cp[Head(q).fd] = 0
    PROVE  QueueInv(Tail(q), cl, [cp EXCEPT ![Head(q).fd] = Head(q).by], n)
<1> DEFINE r == Tail(q)
           f == Head(q).fd
           c == Head(q).by
           dp == [cp EXCEPT ![f] = c]
<1>1. /\ n \in Nat /\ q \in Seq(Events(n)) /\ cl \in [Fds -> 0 .. n] /\ cp \in [Fds -> 0 .. n]
  BY DEF QueueInv, QueueTypeOK
<1>2. \A i \in DOMAIN q : q[i].fd \in Fds /\ q[i].by \in 1 .. n
  BY <1>1, QueueFacts
<1>3. /\ r \in Seq(Events(n)) /\ Len(q) \in Nat \ {0}
      /\ DOMAIN q = 1 .. Len(q) /\ DOMAIN r = 1 .. Len(q) - 1
      /\ 1 \in DOMAIN q /\ Head(q) = q[1]
      /\ \A i \in DOMAIN r : i + 1 \in DOMAIN q /\ r[i] = q[i + 1]
  BY <1>1, TailFacts
<1>4. f \in Fds /\ c \in 1 .. n /\ q[1].fd = f /\ q[1].by = c /\ q[1].type # "DISCONNECTED"
  BY <1>2, <1>3
<1>5. dp \in [Fds -> 0 .. n] /\ dp[f] = c /\ \A g \in Fds \ {f} : dp[g] = cp[g]
  BY <1>1, <1>4
<1>6. QueueInv(r, cl, cp, n)
  BY TakeEvent
<1> HIDE DEF r, f, c, dp
<1>7. QueueTypeOK(r, cl, dp, n)
  BY <1>5, <1>6 DEF QueueInv, QueueTypeOK
<1>8. Homes(r, cl, dp)
  <2>1. \A g \in Fds \ {f} : cl[g] # c /\ cp[g] # c
    BY <1>3, <1>4 DEF QueueInv, Homes
  <2>2. \A i \in DOMAIN r : r[i].fd # f => r[i].by # c
    BY <1>3, <1>4 DEF QueueInv, Homes
  <2>3. \A g, h \in Fds : g # h => /\ cl[g] # 0 => cl[g] # cl[h] /\ cl[g] # dp[h]
                                   /\ dp[g] # 0 => dp[g] # dp[h]
    BY <1>4, <1>5, <2>1 DEF QueueInv, Homes
  <2>4. \A i \in DOMAIN r : \A g \in Fds : g # r[i].fd => cl[g] # r[i].by /\ dp[g] # r[i].by
    BY <1>4, <1>5, <1>6, <2>2 DEF QueueInv, Homes
  <2> QED
    BY <1>6, <2>3, <2>4 DEF QueueInv, Homes
<1>9. Latest(r, cl, dp)
  <2>1. cl[f] # 0 => c <= cl[f]
    BY <1>3, <1>4 DEF QueueInv, Latest
  <2> QED
    BY <1>4, <1>5, <1>6, <2>1 DEF QueueInv, Latest
<1>10. Behind(r, dp)
  <2> SUFFICES ASSUME NEW i \in DOMAIN r PROVE dp[r[i].fd] <= r[i].by
    BY DEF Behind
  <2>1. CASE r[i].fd = f
    <3>1. 1 < i + 1 /\ i + 1 \in DOMAIN q /\ q[i + 1].fd = f
      BY <1>3, <2>1
    <3> QED
      BY <1>3, <1>4, <1>5, <2>1, <3>1 DEF QueueInv, Ordered
  <2>2. CASE r[i].fd # f
    <3>1. r[i].fd \in Fds \ {f}
      BY <1>2, <1>3, <2>2
    <3> QED
      BY <1>5, <1>6, <3>1 DEF QueueInv, Behind
  <2> QED
    BY <2>1, <2>2
<1>11. Known(r, cl, dp)
  <2> SUFFICES ASSUME NEW g \in Fds, dp[g] # 0, cl[g] # dp[g]
               PROVE  \E i \in DOMAIN r : /\ r[i] = Farewell(g, dp[g])
                                          /\ \A j \in 1 .. i : r[j].fd = g => r[j].by = dp[g]
    BY DEF Known
  <2>1. CASE g = f
    <3>1. PICK k \in DOMAIN q : 1 < k /\ q[k] = Farewell(f, c)
      BY <1>3, <1>4, <1>5, <2>1 DEF QueueInv, Followed
    <3>2. k - 1 \in DOMAIN r /\ r[k - 1] = q[k]
      BY <1>3, <3>1
    <3>3. ASSUME NEW j \in 1 .. k - 1, r[j].fd = f
          PROVE  r[j].by = c
      <4>1. j \in DOMAIN r /\ j + 1 \in DOMAIN q /\ r[j] = q[j + 1] /\ 1 < j + 1 /\ (j + 1 < k \/ j + 1 = k)
        BY <1>3, <3>2, <3>3
      <4>2. q[k].fd = f /\ q[k].by = c
        BY <3>1 DEF Farewell
      <4>3. c <= q[j + 1].by
        BY <1>3, <1>4, <3>3, <4>1 DEF QueueInv, Ordered
      <4>4. j + 1 < k => q[j + 1].by <= c
        BY <3>3, <4>1, <4>2 DEF QueueInv, Ordered
      <4>5. q[j + 1].by \in 1 .. n
        BY <1>2, <4>1
      <4> QED
        BY <1>4, <4>1, <4>2, <4>3, <4>4, <4>5
    <3> QED
      BY <1>5, <2>1, <3>1, <3>2, <3>3
  <2>2. CASE g # f
    BY <1>5, <1>6, <2>2 DEF QueueInv, Known
  <2> QED
    BY <2>1, <2>2
<1> QED
  BY <1>6, <1>7, <1>8, <1>9, <1>10, <1>11 DEF QueueInv, r, dp, f, c

\* A line comes from an open connection.
LEMMA Receive ==
    ASSUME NEW q, NEW cl, NEW cp, NEW n, QueueInv(q, cl, cp, n), NEW f \in Fds, cl[f] # 0
    PROVE  QueueInv(Append(q, [type |-> "RECEIVED", fd |-> f, by |-> cl[f]]), cl, cp, n)
<1> DEFINE e == [type |-> "RECEIVED", fd |-> f, by |-> cl[f]]
           r == Append(q, e)
<1>1. /\ n \in Nat /\ q \in Seq(Events(n)) /\ cl \in [Fds -> 0 .. n] /\ cp \in [Fds -> 0 .. n]
  BY DEF QueueInv, QueueTypeOK
<1>2. /\ Len(q) \in Nat /\ DOMAIN q = 1 .. Len(q)
      /\ \A i \in DOMAIN q : q[i].fd \in Fds /\ q[i].by \in 1 .. n
  BY <1>1, QueueFacts
<1>3. cl[f] \in 1 .. n /\ e \in Events(n) /\ e.fd = f /\ e.by = cl[f] /\ e.type = "RECEIVED"
  BY <1>1 DEF Events, EventType
<1> HIDE DEF e
<1>4. /\ r \in Seq(Events(n)) /\ DOMAIN r = 1 .. Len(q) + 1
      /\ \A i \in DOMAIN q : i \in DOMAIN r /\ r[i] = q[i]
      /\ r[Len(q) + 1] = e
      /\ \A i \in DOMAIN r : i \in DOMAIN q \/ i = Len(q) + 1
  BY <1>1, <1>3, AppendFacts
<1> HIDE DEF r
<1> DEFINE m == Len(q) + 1
<1>5. m \in DOMAIN r /\ r[m] = e /\ \A i \in DOMAIN q : i < m /\ ~(m < i)
  BY <1>2, <1>4
<1>6. \A i \in DOMAIN r : i \in DOMAIN q \/ i = m
  BY <1>4
<1> HIDE DEF m
<1>7. QueueTypeOK(r, cl, cp, n)
  BY <1>1, <1>4 DEF QueueTypeOK
<1>8. Homes(r, cl, cp)
  <2>1. \A g \in Fds : g # f => cl[g] # cl[f] /\ cp[g] # cl[f]
    BY DEF QueueInv, Homes
  <2>2. \A i \in DOMAIN q : q[i].by = cl[f] => q[i].fd = f
    BY DEF QueueInv, Homes
  <2>3. \A i \in DOMAIN r : \A g \in Fds : g # r[i].fd => cl[g] # r[i].by /\ cp[g] # r[i].by
    BY <1>3, <1>4, <1>5, <1>6, <2>1 DEF QueueInv, Homes
  <2>4. \A i, j \in DOMAIN r : r[i].by = r[j].by => r[i].fd = r[j].fd
    BY <1>3, <1>4, <1>5, <1>6, <2>2 DEF QueueInv, Homes
  <2> QED
    BY <2>3, <2>4 DEF QueueInv, Homes
<1>9. Ordered(r)
  <2> SUFFICES ASSUME NEW i \in DOMAIN r, NEW j \in DOMAIN r, i < j, r[i].fd = r[j].fd
               PROVE  r[i].by <= r[j].by
    BY DEF Ordered
  <2>1. i \in DOMAIN q
    BY <1>2, <1>5, <1>6, <1>4
  <2>2. CASE j \in DOMAIN q
    BY <1>4, <2>1, <2>2 DEF QueueInv, Ordered
  <2>3. CASE j = m
    BY <1>3, <1>4, <1>5, <2>1, <2>3 DEF QueueInv, Latest
  <2> QED
    BY <1>6, <2>2, <2>3
<1>10. Latest(r, cl, cp)
  <2>1. cl[f] <= cl[f]
    BY <1>3
  <2> QED
    BY <1>3, <1>4, <1>5, <1>6, <2>1 DEF QueueInv, Latest
<1>11. Behind(r, cp)
  <2>1. cp[f] <= cl[f]
    BY DEF QueueInv, Latest
  <2> QED
    BY <1>3, <1>4, <1>5, <1>6, <2>1 DEF QueueInv, Behind
<1>12. Followed(r, cl)
  BY <1>3, <1>4, <1>5, <1>6 DEF QueueInv, Followed
<1>13. Known(r, cl, cp)
  BY <1>1, AppendKnown DEF QueueInv, r
<1> QED
  BY <1>7, <1>8, <1>9, <1>10, <1>11, <1>12, <1>13 DEF QueueInv, r, e

\* A connection is closed: its disconnection goes behind all it has said.
LEMMA Close ==
    ASSUME NEW q, NEW cl, NEW cp, NEW n, QueueInv(q, cl, cp, n), NEW f \in Fds, cl[f] # 0
    PROVE  QueueInv(Append(q, Farewell(f, cl[f])), [cl EXCEPT ![f] = 0], cp, n)
<1> DEFINE e == Farewell(f, cl[f])
           r == Append(q, e)
           dl == [cl EXCEPT ![f] = 0]
<1>1. /\ n \in Nat /\ q \in Seq(Events(n)) /\ cl \in [Fds -> 0 .. n] /\ cp \in [Fds -> 0 .. n]
  BY DEF QueueInv, QueueTypeOK
<1>2. /\ Len(q) \in Nat /\ DOMAIN q = 1 .. Len(q)
      /\ \A i \in DOMAIN q : q[i].fd \in Fds /\ q[i].by \in 1 .. n
  BY <1>1, QueueFacts
<1>3. /\ cl[f] \in 1 .. n /\ e \in Events(n) /\ e.fd = f /\ e.by = cl[f]
      /\ e.type = "DISCONNECTED" /\ e = Farewell(f, cl[f])
  BY <1>1 DEF Events, EventType, Farewell
<1> HIDE DEF e
<1>4. /\ r \in Seq(Events(n)) /\ DOMAIN r = 1 .. Len(q) + 1
      /\ \A i \in DOMAIN q : i \in DOMAIN r /\ r[i] = q[i]
      /\ r[Len(q) + 1] = e
      /\ \A i \in DOMAIN r : i \in DOMAIN q \/ i = Len(q) + 1
  BY <1>1, <1>3, AppendFacts
<1>5. dl \in [Fds -> 0 .. n] /\ dl[f] = 0 /\ \A g \in Fds \ {f} : dl[g] = cl[g]
  BY <1>1
<1> HIDE DEF r, dl
<1> DEFINE m == Len(q) + 1
<1>6. m \in DOMAIN r /\ r[m] = e /\ \A i \in DOMAIN q : i < m /\ ~(m < i)
  BY <1>2, <1>4
<1>7. \A i \in DOMAIN r : i \in DOMAIN q \/ i = m
  BY <1>4
<1> HIDE DEF m
<1>8. QueueTypeOK(r, dl, cp, n)
  BY <1>1, <1>4, <1>5 DEF QueueTypeOK
<1>9. \A i \in DOMAIN q : q[i].fd = f => q[i].by <= cl[f]
  BY DEF QueueInv, Latest
<1>10. Homes(r, dl, cp)
  <2>1. \A g \in Fds : g # f => cl[g] # cl[f] /\ cp[g] # cl[f]
    BY DEF QueueInv, Homes
  <2>2. \A i \in DOMAIN q : q[i].by = cl[f] => q[i].fd = f
    BY DEF QueueInv, Homes
  <2>3. \A g, h \in Fds : g # h => /\ dl[g] # 0 => dl[g] # dl[h] /\ dl[g] # cp[h]
                                   /\ cp[g] # 0 => cp[g] # cp[h]
    BY <1>5 DEF QueueInv, Homes
  <2>4. \A i \in DOMAIN r : r[i].by # 0
    BY <1>2, <1>3, <1>4, <1>6, <1>7
  <2>5. \A i \in DOMAIN r : \A g \in Fds : g # r[i].fd => dl[g] # r[i].by /\ cp[g] # r[i].by
    BY <1>3, <1>4, <1>5, <1>6, <1>7, <2>1, <2>4 DEF QueueInv, Homes
  <2>6. \A i, j \in DOMAIN r : r[i].by = r[j].by => r[i].fd = r[j].fd
    BY <1>3, <1>4, <1>6, <1>7, <2>2 DEF QueueInv, Homes
  <2> QED
    BY <2>3, <2>5, <2>6 DEF QueueInv, Homes
<1>11. Ordered(r)
  <2> SUFFICES ASSUME NEW i \in DOMAIN r, NEW j \in DOMAIN r, i < j, r[i].fd = r[j].fd
               PROVE  r[i].by <= r[j].by
    BY DEF Ordered
  <2>1. i \in DOMAIN q
    BY <1>2, <1>4, <1>6, <1>7
  <2>2. CASE j \in DOMAIN q
    BY <1>4, <2>1, <2>2 DEF QueueInv, Ordered
  <2>3. CASE j = m
    BY <1>3, <1>4, <1>6, <1>9, <2>1, <2>3
  <2> QED
    BY <1>7, <2>2, <2>3
<1>12. Latest(r, dl, cp)
  BY <1>3, <1>4, <1>5, <1>6, <1>7 DEF QueueInv, Latest
<1>13. Behind(r, cp)
  <2>1. cp[f] <= cl[f]
    BY DEF QueueInv, Latest
  <2> QED
    BY <1>3, <1>4, <1>6, <1>7, <2>1 DEF QueueInv, Behind
<1>14. Followed(r, dl)
  <2> SUFFICES ASSUME NEW i \in DOMAIN r, r[i].type # "DISCONNECTED", dl[r[i].fd] # r[i].by
               PROVE  \E j \in DOMAIN r : i < j /\ r[j] = Farewell(r[i].fd, r[i].by)
    BY DEF Followed
  <2>1. i \in DOMAIN q /\ r[i] = q[i]
    BY <1>3, <1>4, <1>6, <1>7
  <2>2. CASE q[i].fd = f /\ q[i].by = cl[f]
    BY <1>3, <1>6, <2>1, <2>2
  <2>3. CASE ~(q[i].fd = f /\ q[i].by = cl[f])
    <3>1. cl[q[i].fd] # q[i].by
      BY <1>2, <1>5, <2>1, <2>3
    <3>2. PICK j \in DOMAIN q : i < j /\ q[j] = Farewell(q[i].fd, q[i].by)
      BY <2>1, <3>1 DEF QueueInv, Followed
    <3> QED
      BY <1>4, <2>1, <3>2
  <2> QED
    BY <2>2, <2>3
<1>15. Known(r, dl, cp)
  <2>0. Known(r, cl, cp)
    BY <1>1, AppendKnown DEF QueueInv, r
  <2> SUFFICES ASSUME NEW g \in Fds, cp[g] # 0, dl[g] # cp[g]
               PROVE  \E i \in DOMAIN r : /\ r[i] = Farewell(g, cp[g])
                                          /\ \A j \in 1 .. i : r[j].fd = g => r[j].by = cp[g]
    BY DEF Known
  <2>1. CASE cl[g] # cp[g]
    BY <2>0, <2>1 DEF Known
  <2>2. CASE cl[g] = cp[g]
    <3>1. g = f
      BY <1>5, <2>2
    <3>2. r[m] = Farewell(g, cp[g])
      BY <1>3, <1>6, <2>2, <3>1
    <3>3. ASSUME NEW j \in 1 .. m, r[j].fd = g
          PROVE  r[j].by = cp[g]
      <4>1. CASE j = m
        BY <1>3, <1>6, <2>2, <3>1, <4>1
      <4>2. CASE j # m
        <5>1. j \in DOMAIN q /\ r[j] = q[j]
          BY <1>2, <1>4, <4>2 DEF m
        <5>2. q[j].by <= cl[f] /\ cp[g] <= q[j].by
          BY <1>9, <3>1, <3>3, <5>1 DEF QueueInv, Behind
        <5> QED
          BY <1>2, <1>3, <2>2, <3>1, <5>1, <5>2
      <4> QED
        BY <4>1, <4>2
    <3> QED
      BY <1>6, <3>2, <3>3
  <2> QED
    BY <2>1, <2>2
<1> QED
  BY <1>8, <1>10, <1>11, <1>12, <1>13, <1>14, <1>15 DEF QueueInv, r, e, dl

\* A free descriptor is handed out again, to a connection with a new number.
LEMMA Accept ==
    ASSUME NEW q, NEW cl, NEW cp, NEW n, QueueInv(q, cl, cp, n), NEW f \in Fds, cl[f] = 0
    PROVE  QueueInv(Append(q, [type |-> "CONNECTED", fd |-> f, by |-> n + 1]),
                    [cl EXCEPT ![f] = n + 1], cp, n + 1)
<1> DEFINE e == [type |-> "CONNECTED", fd |-> f, by |-> n + 1]
           r == Append(q, e)
           dl == [cl EXCEPT ![f] = n + 1]
<1>1. /\ n \in Nat /\ q \in Seq(Events(n)) /\ cl \in [Fds -> 0 .. n] /\ cp \in [Fds -> 0 .. n]
  BY DEF QueueInv, QueueTypeOK
<1>2. /\ Len(q) \in Nat /\ DOMAIN q = 1 .. Len(q)
      /\ \A i \in DOMAIN q : q[i].fd \in Fds /\ q[i].by \in 1 .. n
  BY <1>1, QueueFacts
<1>3. /\ n + 1 \in Nat /\ e \in Events(n + 1) /\ e.fd = f /\ e.by = n + 1 /\ e.type = "CONNECTED"
      /\ \A k \in 0 .. n : k # n + 1 /\ k <= n + 1 /\ k \in 0 .. n + 1
  BY <1>1 DEF Events, EventType
<1>4. q \in Seq(Events(n + 1))
  <2>1. Events(n) \subseteq Events(n + 1)
    BY <1>1 DEF Events
  <2> QED
    BY <1>1, <2>1, SeqMonotonic
<1> HIDE DEF e
<1>5. /\ r \in Seq(Events(n + 1)) /\ DOMAIN r = 1 .. Len(q) + 1
      /\ \A i \in DOMAIN q : i \in DOMAIN r /\ r[i] = q[i]
      /\ r[Len(q) + 1] = e
      /\ \A i \in DOMAIN r : i \in DOMAIN q \/ i = Len(q) + 1
  BY <1>3, <1>4, AppendFacts
<1>6. dl \in [Fds -> 0 .. n + 1] /\ dl[f] = n + 1 /\ \A g \in Fds \ {f} : dl[g] = cl[g]
  BY <1>1, <1>3
<1> HIDE DEF r, dl
<1> DEFINE m == Len(q) + 1
<1>7. m \in DOMAIN r /\ r[m] = e /\ \A i \in DOMAIN q : i < m /\ ~(m < i)
  BY <1>2, <1>5
<1>8. \A i \in DOMAIN r : i \in DOMAIN q \/ i = m
  BY <1>5
<1> HIDE DEF m
<1>9. /\ \A g \in Fds : cl[g] \in 0 .. n /\ cp[g] \in 0 .. n /\ cl[g] # n + 1 /\ cp[g] # n + 1
      /\ \A i \in DOMAIN q : q[i].by # n + 1
  BY <1>1, <1>2, <1>3
<1>10. QueueTypeOK(r, dl, cp, n + 1)
  <2>1. cp \in [Fds -> 0 .. n + 1]
    BY <1>1, <1>3
  <2> QED
    BY <1>3, <1>5, <1>6, <2>1 DEF QueueTypeOK
<1>11. Homes(r, dl, cp)
  <2>1. \A g, h \in Fds : g # h => /\ dl[g] # 0 => dl[g] # dl[h] /\ dl[g] # cp[h]
                                   /\ cp[g] # 0 => cp[g] # cp[h]
    BY <1>6, <1>9 DEF QueueInv, Homes
  <2>2. \A i \in DOMAIN r : \A g \in Fds : g # r[i].fd => dl[g] # r[i].by /\ cp[g] # r[i].by
    BY <1>3, <1>5, <1>6, <1>7, <1>8, <1>9 DEF QueueInv, Homes
  <2>3. \A i, j \in DOMAIN r : r[i].by = r[j].by => r[i].fd = r[j].fd
    BY <1>3, <1>5, <1>7, <1>8, <1>9 DEF QueueInv, Homes
  <2> QED
    BY <2>1, <2>2, <2>3 DEF Homes
<1>12. Ordered(r)
  <2> SUFFICES ASSUME NEW i \in DOMAIN r, NEW j \in DOMAIN r, i < j, r[i].fd = r[j].fd
               PROVE  r[i].by <= r[j].by
    BY DEF Ordered
  <2>1. i \in DOMAIN q
    BY <1>2, <1>5, <1>7, <1>8
  <2>2. CASE j \in DOMAIN q
    BY <1>5, <2>1, <2>2 DEF QueueInv, Ordered
  <2>3. CASE j = m
    <3>1. r[i].by \in 1 .. n /\ r[j].by = n + 1
      BY <1>2, <1>3, <1>5, <1>7, <2>1, <2>3
    <3> QED
      BY <1>1, <3>1
  <2> QED
    BY <1>8, <2>2, <2>3
<1>13. Latest(r, dl, cp)
  <2>1. \A i \in DOMAIN r : r[i].by <= n + 1
    <3>1. \A k \in 1 .. n : k <= n + 1
      BY <1>1
    <3>2. n + 1 <= n + 1
      BY <1>3
    <3> QED
      BY <1>2, <1>3, <1>5, <1>7, <1>8, <3>1, <3>2
  <2>2. cp[f] <= n + 1
    BY <1>1, <1>3
  <2>3. ASSUME NEW g \in Fds \ {f}, dl[g] # 0
        PROVE  cp[g] <= dl[g] /\ \A i \in DOMAIN r : r[i].fd = g => r[i].by <= dl[g]
    BY <1>3, <1>5, <1>6, <1>7, <1>8, <2>3 DEF QueueInv, Latest
  <2> QED
    BY <1>6, <2>1, <2>2, <2>3 DEF Latest
<1>14. Behind(r, cp)
  <2>1. cp[f] <= n + 1
    BY <1>1, <1>3
  <2> QED
    BY <1>3, <1>5, <1>7, <1>8, <2>1 DEF QueueInv, Behind
<1>15. Followed(r, dl)
  <2> SUFFICES ASSUME NEW i \in DOMAIN r, r[i].type # "DISCONNECTED", dl[r[i].fd] # r[i].by
               PROVE  \E j \in DOMAIN r : i < j /\ r[j] = Farewell(r[i].fd, r[i].by)
    BY DEF Followed
  <2>1. i \in DOMAIN q /\ r[i] = q[i]
    BY <1>3, <1>5, <1>6, <1>7, <1>8
  <2>2. cl[q[i].fd] # q[i].by
    <3>1. CASE q[i].fd = f
      BY <1>2, <2>1, <3>1
    <3>2. CASE q[i].fd # f
      BY <1>2, <1>6, <2>1, <3>2
    <3> QED
      BY <3>1, <3>2
  <2>3. PICK j \in DOMAIN q : i < j /\ q[j] = Farewell(q[i].fd, q[i].by)
    BY <2>1, <2>2 DEF QueueInv, Followed
  <2> QED
    BY <1>5, <2>1, <2>3
<1>16. Known(r, dl, cp)
  <2>0. Known(r, cl, cp)
    BY <1>1, AppendKnown DEF QueueInv, r
  <2>1. \A g \in Fds : cp[g] # 0 /\ dl[g] # cp[g] => cl[g] # cp[g]
    BY <1>6
  <2> QED
    BY <2>0, <2>1 DEF Known
<1> QED
  BY <1>10, <1>11, <1>12, <1>13, <1>14, <1>15, <1>16 DEF QueueInv, r, e, dl

-----------------------------------------------------------------------------
(* The inductive invariant.                                                *)

PlayerType == [isDead : BOOLEAN, load : 0 .. kMaxNbCmd, buffer : 0 .. kMaxBufferSize]

WriteInv(wb, cl) ==
    /\ wb \in [Fds -> 0 .. kMaxBufferSize]
    /\ \A f \in Fds : cl[f] = 0 => wb[f] = 0

TurnTypeOK ==
    /\ phase \in {"poll", "tick", "events", "bury", "gui"}
    /\ polled \in 0 .. connections
    /\ clientStates \in [Fds -> {"NONE", "WAITING", "IN_GAME", "GUI"}]
    /\ guiEvents \in BOOLEAN

ServerInv ==
    /\ TurnTypeOK
    /\ QueueInv(eventQueue, client, clientToPlayer, connections)
    /\ WriteInv(writeBuffer, client)
    /\ player \in [Players -> PlayerType]
    /\ PlayersHaveClients
    /\ phase = "bury" => eventQueue = <<>>

LEMMA Limits ==
    /\ kMaxBufferSize \in Nat \ {0} /\ kMaxNbCmd \in Nat \ {0} /\ InitialState \in Nat \ {0}
    /\ 0 \in 0 .. kMaxBufferSize /\ 1 \in 0 .. kMaxBufferSize
    /\ 0 \in 0 .. kMaxNbCmd /\ 1 \in 0 .. kMaxNbCmd
BY ServerAssumption

LEMMA InvFacts ==
    ASSUME ServerInv
    PROVE  /\ connections \in Nat /\ eventQueue \in Seq(Events(connections))
           /\ client \in [Fds -> 0 .. connections]
           /\ clientToPlayer \in [Fds -> 0 .. connections]
           /\ \A f \in Fds : client[f] # 0 => client[f] \in 1 .. connections
           /\ \A f \in Fds : clientToPlayer[f] # 0 =>
                 /\ clientToPlayer[f] \in Players
                 /\ player[clientToPlayer[f]] \in PlayerType
                 /\ clientStates[f] = "IN_GAME"
           /\ \A id \in Players : id # 0 /\ \E f \in Fds : clientToPlayer[f] = id
<1>1. QueueTypeOK(eventQueue, client, clientToPlayer, connections)
  BY DEF ServerInv, QueueInv
<1>2. /\ connections \in Nat /\ eventQueue \in Seq(Events(connections))
      /\ client \in [Fds -> 0 .. connections]
      /\ clientToPlayer \in [Fds -> 0 .. connections]
  BY <1>1 DEF QueueTypeOK
<1>3. \A f \in Fds : client[f] # 0 => client[f] \in 1 .. connections
  BY <1>2
<1>4. \A f \in Fds : clientToPlayer[f] # 0 =>
         clientToPlayer[f] \in Players /\ clientStates[f] = "IN_GAME"
  BY DEF ServerInv, PlayersHaveClients
<1>5. \A id \in Players : id # 0 /\ \E f \in Fds : clientToPlayer[f] = id
  BY DEF ServerInv, PlayersHaveClients
<1>6. \A id \in Players : player[id] \in PlayerType
  BY DEF ServerInv
<1> QED
  BY <1>2, <1>3, <1>4, <1>5, <1>6

-----------------------------------------------------------------------------
(* What a round of sends does, whether it reaches everyone or throws.      *)

LEMMA SendKeeps ==
    ASSUME NEW q, NEW cp, QueueInv(q, client, cp, connections), WriteInv(writeBuffer, client),
           NEW S \in SUBSET Fds, NEW n \in [Fds -> Nat],
           SendAll(S, n, q) \/ SendThrows(S, n, q)
    PROVE  /\ QueueInv(eventQueue', client', cp, connections')
           /\ WriteInv(writeBuffer', client')
           /\ connections' = connections
<1>1. client \in [Fds -> 0 .. connections] /\ writeBuffer \in [Fds -> 0 .. kMaxBufferSize]
  BY DEF QueueInv, QueueTypeOK, WriteInv
<1>2. ASSUME NEW T \in SUBSET Fds, \A f \in T : Fits(f, n[f])
      PROVE  WriteInv(Sent(T, n), client)
  <2>1. \A f \in Fds : (IF f \in T /\ client[f] # 0 THEN writeBuffer[f] + n[f] ELSE writeBuffer[f])
                        \in 0 .. kMaxBufferSize
    BY <1>1, <1>2, Limits DEF Fits, Open
  <2>2. Sent(T, n) \in [Fds -> 0 .. kMaxBufferSize]
    BY <2>1 DEF Sent, Open
  <2>3. \A f \in Fds : client[f] = 0 => Sent(T, n)[f] = writeBuffer[f]
    BY DEF Sent, Open
  <2> QED
    BY <2>2, <2>3 DEF WriteInv
<1>3. CASE SendAll(S, n, q)
  BY <1>2, <1>3 DEF SendAll
<1>4. CASE SendThrows(S, n, q)
  <2>0. PICK f \in S : \E served \in SUBSET (S \ {f}) :
           /\ ~Fits(f, n[f]) /\ \A g \in served : Fits(g, n[g])
           /\ writeBuffer' = [Sent(served, n) EXCEPT ![f] = 0]
           /\ client' = Closed(f) /\ eventQueue' = Disconnected(f, q)
           /\ UNCHANGED connections
    BY <1>4 DEF SendThrows
  <2>1. PICK served \in SUBSET (S \ {f}) :
           /\ ~Fits(f, n[f]) /\ \A g \in served : Fits(g, n[g])
           /\ writeBuffer' = [Sent(served, n) EXCEPT ![f] = 0]
           /\ client' = Closed(f) /\ eventQueue' = Disconnected(f, q)
           /\ UNCHANGED connections
    BY <2>0
  <2>2. f \in Fds /\ client[f] # 0
    BY <2>1 DEF Fits, Open
  <2>3. client' = [client EXCEPT ![f] = 0] /\ eventQueue' = Append(q, Farewell(f, client[f]))
    BY <2>1, <2>2 DEF Closed, Disconnected, Event, Farewell, Open
  <2>4. QueueInv(eventQueue', client', cp, connections')
    <3>1. QueueInv(Append(q, Farewell(f, client[f])), [client EXCEPT ![f] = 0], cp, connections)
      BY <2>2, Close DEF Farewell
    <3> QED
      BY <2>1, <2>3, <3>1
  <2>5. WriteInv(Sent(served, n), client)
    BY <1>2, <2>1
  <2>6. WriteInv(writeBuffer', client')
    BY <1>1, <2>1, <2>3, <2>5, Limits DEF WriteInv
  <2> QED
    BY <2>1, <2>4, <2>6
<1> QED
  BY <1>3, <1>4

LEMMA ThrowEndsTurn ==
    ASSUME NEW q, NEW S, NEW n, SendThrows(S, n, q)
    PROVE  phase' = "poll" /\ polled' = 0
BY DEF SendThrows, NextTurn

\* The reply that ends the handling of an event.
LEMMA ReplyKeeps ==
    ASSUME ServerInv, phase = "events", NEW cp, QueueInv(Rest, client, cp, connections),
           NEW S \in SUBSET Fds, NEW n \in Nat, Reply(S, n)
    PROVE  /\ QueueInv(eventQueue', client', cp, connections')
           /\ WriteInv(writeBuffer', client')
           /\ connections' = connections
           /\ phase' \in {"events", "poll"} /\ polled' \in 0 .. connections'
<1>1. Times(n) \in [Fds -> Nat]
  BY DEF Times
<1>2. SendAll(S, Times(n), Rest) \/ SendThrows(S, Times(n), Rest)
  BY DEF Reply
<1>3. /\ QueueInv(eventQueue', client', cp, connections')
      /\ WriteInv(writeBuffer', client')
      /\ connections' = connections
  BY <1>1, <1>2, SendKeeps DEF ServerInv
<1>4. CASE UNCHANGED <<phase, polled>>
  BY <1>3, <1>4 DEF ServerInv, TurnTypeOK
<1>5. CASE SendThrows(S, Times(n), Rest)
  BY <1>3, <1>5, ThrowEndsTurn, InvFacts
<1> QED
  BY <1>3, <1>4, <1>5 DEF Reply

-----------------------------------------------------------------------------
(* Steps that leave players and their clients together.                    *)

LEMMA PlayersKept ==
    ASSUME ServerInv, player' \in [Players -> PlayerType], UNCHANGED clientToPlayer,
           \A f \in Fds : clientStates[f] = "IN_GAME" => clientStates'[f] = "IN_GAME"
    PROVE  player' \in [Players' -> PlayerType] /\ PlayersHaveClients'
<1>1. Players' = Players
  BY DEF Players
<1>2. clientToPlayer' = clientToPlayer
  OBVIOUS
<1>3. {clientToPlayer'[f] : f \in Fds} = {clientToPlayer[f] : f \in Fds}
  BY <1>2
<1> QED
  BY <1>1, <1>2, <1>3 DEF ServerInv, PlayersHaveClients

-----------------------------------------------------------------------------
(* The steps of the network.                                               *)

LEMMA NetworkKeeps ==
    ASSUME ServerInv, NEW f \in Fds,
           PollRead(f) \/ PollWrite(f) \/ PollHangup(f) \/ PollAccept(f)
    PROVE  ServerInv'
<1>1. UNCHANGED <<clientStates, clientToPlayer, player, guiEvents>>
  BY DEF PollRead, PollWrite, PollHangup, PollAccept, coreVars, gameVars
<1>2. player' \in [Players' -> PlayerType] /\ PlayersHaveClients'
  BY <1>1, PlayersKept DEF ServerInv
<1>3. phase' \in {"poll", "tick"}
  BY DEF PollRead, PollWrite, PollHangup, PollAccept, Poll
<1>4. QueueInv(eventQueue, client, clientToPlayer, connections) /\ WriteInv(writeBuffer, client)
  BY DEF ServerInv
<1>5. writeBuffer \in [Fds -> 0 .. kMaxBufferSize] /\ \A g \in Fds : client[g] = 0 => writeBuffer[g] = 0
  BY <1>4 DEF WriteInv
<1>6. ASSUME client[f] # 0, writeBuffer' \in {writeBuffer, Drained(f)}, UNCHANGED client
      PROVE  WriteInv(writeBuffer', client')
  BY <1>5, <1>6, Limits DEF WriteInv, Drained
<1>7. ASSUME polled' = client[f], connections' = connections
      PROVE  polled' \in 0 .. connections'
  BY <1>7, InvFacts
<1>8. CASE PollRead(f)
  <2>1. /\ client[f] # 0 /\ polled' = client[f]
        /\ writeBuffer' \in {writeBuffer, Drained(f)} /\ UNCHANGED <<client, connections>>
    BY <1>8 DEF PollRead, Poll, Open
  <2>2. UNCHANGED eventQueue \/ eventQueue' = Append(eventQueue, [type |-> "RECEIVED", fd |-> f, by |-> client[f]])
    BY <1>8 DEF PollRead, Event
  <2>3. QueueInv(eventQueue', client', clientToPlayer', connections')
    BY <1>1, <1>4, <2>1, <2>2, Receive
  <2> QED
    BY <1>1, <1>2, <1>3, <1>6, <1>7, <2>1, <2>3 DEF ServerInv, TurnTypeOK
<1>9. CASE PollWrite(f)
  <2>1. /\ client[f] # 0 /\ polled' = client[f]
        /\ writeBuffer' \in {writeBuffer, Drained(f)} /\ UNCHANGED <<eventQueue, client, connections>>
    BY <1>9 DEF PollWrite, Poll, Open
  <2>2. QueueInv(eventQueue', client', clientToPlayer', connections')
    BY <1>1, <1>4, <2>1
  <2> QED
    BY <1>1, <1>2, <1>3, <1>6, <1>7, <2>1, <2>2 DEF ServerInv, TurnTypeOK
<1>10. CASE PollHangup(f)
  <2> DEFINE heard == Append(eventQueue, [type |-> "RECEIVED", fd |-> f, by |-> client[f]])
  <2>1. /\ client[f] # 0 /\ polled' = client[f] /\ UNCHANGED connections
        /\ client' = [client EXCEPT ![f] = 0] /\ writeBuffer' = [writeBuffer EXCEPT ![f] = 0]
    BY <1>10 DEF PollHangup, Poll, Open, Closed, Drained
  <2>2. PICK queue \in {eventQueue, heard} : eventQueue' = Append(queue, Farewell(f, client[f]))
    BY <1>10, <2>1 DEF PollHangup, Disconnected, Event, Open, Farewell
  <2>3. QueueInv(queue, client, clientToPlayer, connections)
    BY <1>4, <2>1, <2>2, Receive
  <2>4. QueueInv(Append(queue, Farewell(f, client[f])), [client EXCEPT ![f] = 0], clientToPlayer, connections)
    BY <2>1, <2>3, Close
  <2>5. QueueInv(eventQueue', client', clientToPlayer', connections')
    BY <1>1, <2>1, <2>2, <2>4
  <2>6. WriteInv(writeBuffer', client')
    BY <1>5, <2>1, InvFacts, Limits DEF WriteInv
  <2> QED
    BY <1>1, <1>2, <1>3, <1>7, <2>1, <2>5, <2>6 DEF ServerInv, TurnTypeOK
<1>11. CASE PollAccept(f)
  <2>1. /\ client[f] = 0 /\ connections' = connections + 1 /\ UNCHANGED <<polled, writeBuffer>>
        /\ client' = [client EXCEPT ![f] = connections + 1]
        /\ eventQueue' = Append(eventQueue, [type |-> "CONNECTED", fd |-> f, by |-> connections + 1])
    BY <1>11 DEF PollAccept, Open
  <2>2. QueueInv(Append(eventQueue, [type |-> "CONNECTED", fd |-> f, by |-> connections + 1]),
                 [client EXCEPT ![f] = connections + 1], clientToPlayer, connections + 1)
    BY <1>4, <2>1, Accept
  <2>3. QueueInv(eventQueue', client', clientToPlayer', connections')
    BY <1>1, <2>1, <2>2
  <2>4. WriteInv(writeBuffer', client')
    <3>1. \A g \in Fds : client'[g] = 0 => client[g] = 0
      BY <2>1, InvFacts
    <3> QED
      BY <1>5, <2>1, <3>1 DEF WriteInv
  <2>5. polled' \in 0 .. connections'
    <3>1. polled \in 0 .. connections /\ connections \in Nat
      BY InvFacts DEF ServerInv, TurnTypeOK
    <3> QED
      BY <2>1, <3>1
  <2> QED
    BY <1>1, <1>2, <1>3, <2>3, <2>4, <2>5 DEF ServerInv, TurnTypeOK
<1> QED
  BY <1>8, <1>9, <1>10, <1>11

-----------------------------------------------------------------------------
(* The steps of the loop around the events.                                *)

\* Steps that touch neither connections nor the queue.
LEMMA QuietStep ==
    ASSUME ServerInv, UNCHANGED <<client, writeBuffer, connections, eventQueue, coreVars>>,
           phase' \in {"poll", "tick", "events"}, polled' \in {0, polled}, guiEvents' \in BOOLEAN,
           player' \in [Players -> PlayerType]
    PROVE  ServerInv'
<1>1. UNCHANGED <<clientStates, clientToPlayer>>
  BY DEF coreVars
<1>2. player' \in [Players' -> PlayerType] /\ PlayersHaveClients'
  BY <1>1, PlayersKept
<1>3. polled' \in 0 .. connections'
  BY InvFacts DEF ServerInv, TurnTypeOK
<1> QED
  BY <1>1, <1>2, <1>3 DEF ServerInv, TurnTypeOK

LEMMA PollEndKeeps ==
    ASSUME ServerInv, PollEnd
    PROVE  ServerInv'
<1>1. /\ UNCHANGED <<client, writeBuffer, connections, eventQueue, coreVars, polled, guiEvents, player>>
      /\ phase' = "tick"
  BY DEF PollEnd, netVars, gameVars
<1>2. player' \in [Players -> PlayerType] /\ guiEvents' \in BOOLEAN
  BY <1>1 DEF ServerInv, TurnTypeOK
<1> QED
  BY <1>1, <1>2, QuietStep

\* What a tick and a command do to a player.
LEMMA PlayerSteps ==
    ASSUME NEW p \in PlayerType
    PROVE  /\ Killed(p) \in PlayerType
           /\ HasRoom(p) => Heard(p) \in PlayerType
           /\ HasRoom(p) /\ p.load > 0 => Answered(p) \in PlayerType
           /\ p.load < kMaxNbCmd => [p EXCEPT !.load = @ + 1] \in PlayerType
           /\ [p EXCEPT !.load = 1] \in PlayerType
           /\ [p EXCEPT !.buffer = 0] \in PlayerType
<1>1. p.isDead \in BOOLEAN /\ p.load \in 0 .. kMaxNbCmd /\ p.buffer \in 0 .. kMaxBufferSize
  BY DEF PlayerType
<1>2. /\ HasRoom(p) => p.buffer + 1 \in 0 .. kMaxBufferSize
      /\ p.load > 0 => p.load - 1 \in 0 .. kMaxNbCmd
      /\ p.load < kMaxNbCmd => p.load + 1 \in 0 .. kMaxNbCmd
  BY <1>1, Limits DEF HasRoom
<1>3. Killed(p) \in PlayerType
  BY <1>1, Limits DEF PlayerType, Killed
<1>4. HasRoom(p) => Heard(p) \in PlayerType
  BY <1>1, <1>2 DEF PlayerType, Heard
<1>5. HasRoom(p) /\ p.load > 0 => Answered(p) \in PlayerType
  BY <1>1, <1>2 DEF PlayerType, Answered
<1>6. p.load < kMaxNbCmd => [p EXCEPT !.load = @ + 1] \in PlayerType
  BY <1>1, <1>2 DEF PlayerType
<1>7. [p EXCEPT !.load = 1] \in PlayerType /\ [p EXCEPT !.buffer = 0] \in PlayerType
  BY <1>1, Limits DEF PlayerType
<1> QED
  BY <1>3, <1>4, <1>5, <1>6, <1>7

LEMMA TickKeeps ==
    ASSUME ServerInv, Tick
    PROVE  ServerInv'
<1>1. /\ UNCHANGED <<client, writeBuffer, connections, eventQueue, coreVars, polled>>
      /\ phase' = "events"
  BY DEF Tick, netVars
<1>2. player \in [Players -> PlayerType] /\ guiEvents \in BOOLEAN
  BY DEF ServerInv, TurnTypeOK
<1>3. guiEvents' \in BOOLEAN
  BY <1>2 DEF Tick, gameVars
<1>4. player' \in [Players -> PlayerType]
  <2>1. CASE UNCHANGED gameVars
    BY <1>2, <2>1 DEF gameVars
  <2>2. CASE \E id \in Living :
               \/ player' = [player EXCEPT ![id] = Killed(@)]
               \/ /\ player[id].load > 0 /\ HasRoom(player[id])
                  /\ player' = [player EXCEPT ![id] = Answered(@)]
    <3>1. PICK id \in Players :
               \/ player' = [player EXCEPT ![id] = Killed(@)]
               \/ /\ player[id].load > 0 /\ HasRoom(player[id])
                  /\ player' = [player EXCEPT ![id] = Answered(@)]
      BY <2>2 DEF Living
    <3>2. player[id] \in PlayerType
      BY <1>2
    <3>3. /\ Killed(player[id]) \in PlayerType
          /\ HasRoom(player[id]) /\ player[id].load > 0 => Answered(player[id]) \in PlayerType
      BY <3>2, PlayerSteps
    <3> QED
      BY <1>2, <3>1, <3>3
  <2>3. CASE \E id \in Players : HasRoom(player[id]) /\ player' = [player EXCEPT ![id] = Heard(@)]
    <3>1. PICK id \in Players : HasRoom(player[id]) /\ player' = [player EXCEPT ![id] = Heard(@)]
      BY <2>3
    <3>2. Heard(player[id]) \in PlayerType
      BY <1>2, <3>1, PlayerSteps
    <3> QED
      BY <1>2, <3>1, <3>2
  <2> QED
    BY <2>1, <2>2, <2>3 DEF Tick
<1> QED
  BY <1>1, <1>3, <1>4, QuietStep

LEMMA TickThrowsKeeps ==
    ASSUME ServerInv, TickThrows
    PROVE  ServerInv'
<1>1. /\ UNCHANGED <<client, writeBuffer, connections, eventQueue, coreVars, guiEvents, player>>
      /\ phase' = "poll" /\ polled' = 0
  BY DEF TickThrows, NextTurn, gameVars
<1>2. player' \in [Players -> PlayerType] /\ guiEvents' \in BOOLEAN
  BY <1>1 DEF ServerInv, TurnTypeOK
<1> QED
  BY <1>1, <1>2, QuietStep

-----------------------------------------------------------------------------
(* The handling of events.                                                 *)

StatesOK(cs) == cs \in [Fds -> {"NONE", "WAITING", "IN_GAME", "GUI"}]

\* An event is taken and sends are what remains of its handling.
LEMMA ReplyStep ==
    ASSUME ServerInv, phase = "events", QueueInv(Rest, client, clientToPlayer', connections),
           NEW S \in SUBSET Fds, NEW n \in Nat, Reply(S, n),
           StatesOK(clientStates'), guiEvents' \in BOOLEAN,
           player' \in [Players' -> PlayerType], PlayersHaveClients'
    PROVE  ServerInv'
<1>1. /\ QueueInv(eventQueue', client', clientToPlayer', connections')
      /\ WriteInv(writeBuffer', client')
      /\ phase' \in {"events", "poll"} /\ polled' \in 0 .. connections'
  BY ReplyKeeps
<1> QED
  BY <1>1 DEF ServerInv, TurnTypeOK, StatesOK

\* An event is taken and that is all the queue and the connections notice.
LEMMA TakeStep ==
    ASSUME ServerInv, QueueInv(Rest, client, clientToPlayer', connections), Dequeue,
           UNCHANGED <<client, writeBuffer, connections>>,
           phase' \in {"events", "poll"}, polled' \in {0, polled},
           StatesOK(clientStates'), guiEvents' \in BOOLEAN,
           player' \in [Players' -> PlayerType], PlayersHaveClients'
    PROVE  ServerInv'
<1>1. polled' \in 0 .. connections'
  BY InvFacts DEF ServerInv, TurnTypeOK
<1> QED
  BY <1>1 DEF ServerInv, TurnTypeOK, StatesOK, Dequeue

LEMMA Taken ==
    ASSUME ServerInv, NEW f \in Fds, NEW type, Handling(type, f),
           type # "DISCONNECTED" \/ clientToPlayer[f] = 0
    PROVE  /\ phase = "events" /\ eventQueue # <<>> /\ Head(eventQueue).fd = f
           /\ QueueInv(Rest, client, clientToPlayer, connections)
<1>1. /\ phase = "events" /\ eventQueue # <<>>
      /\ Head(eventQueue).fd = f /\ Head(eventQueue).type = type
  BY DEF Handling
<1>2. QueueInv(eventQueue, client, clientToPlayer, connections)
  BY DEF ServerInv
<1> QED
  BY <1>1, <1>2, TakeEvent DEF Rest

\* Events that leave the players and who plays them as they were.
LEMMA BystanderStep ==
    ASSUME ServerInv, NEW f \in Fds, NEW type \in {"CONNECTED", "RECEIVED"}, Handling(type, f),
           NEW S \in SUBSET Fds, NEW n \in Nat, Reply(S, n),
           UNCHANGED <<clientToPlayer, gameVars>>, StatesOK(clientStates'),
           \A g \in Fds : clientStates[g] = "IN_GAME" => clientStates'[g] = "IN_GAME"
    PROVE  ServerInv'
<1>1. phase = "events" /\ QueueInv(Rest, client, clientToPlayer', connections)
  BY Taken
<1>2. player' \in [Players' -> PlayerType] /\ PlayersHaveClients'
  BY PlayersKept DEF ServerInv, gameVars
<1>3. guiEvents' \in BOOLEAN
  BY DEF ServerInv, TurnTypeOK, gameVars
<1> QED
  BY <1>1, <1>2, <1>3, ReplyStep

LEMMA HandleNewClientKeeps ==
    ASSUME ServerInv, NEW f \in Fds, HandleNewClient(f)
    PROVE  ServerInv'
<1>1. StatesOK(clientStates)
  BY DEF ServerInv, TurnTypeOK, StatesOK
<1>2. clientStates' = [clientStates EXCEPT ![f] = IF @ = "NONE" /\ Fits(f, 1) THEN "WAITING" ELSE @]
  BY DEF HandleNewClient
<1>3. \A g \in Fds : clientStates[g] = "IN_GAME" => clientStates'[g] = "IN_GAME"
  BY <1>1, <1>2 DEF StatesOK
<1>4. StatesOK(clientStates')
  BY <1>1, <1>2 DEF StatesOK
<1> QED
  BY <1>3, <1>4, BystanderStep DEF HandleNewClient

LEMMA BecomeSpectatorKeeps ==
    ASSUME ServerInv, NEW f \in Fds, BecomeSpectator(f)
    PROVE  ServerInv'
<1>1. StatesOK(clientStates) /\ clientStates[f] = "WAITING"
  BY DEF ServerInv, TurnTypeOK, StatesOK, BecomeSpectator
<1>2. clientStates' = [clientStates EXCEPT ![f] = "GUI"]
  BY DEF BecomeSpectator
<1>3. /\ StatesOK(clientStates')
      /\ \A g \in Fds : clientStates[g] = "IN_GAME" => clientStates'[g] = "IN_GAME"
  BY <1>1, <1>2 DEF StatesOK
<1> QED
  BY <1>3, Limits, BystanderStep DEF BecomeSpectator

LEMMA AnswerKeeps ==
    ASSUME ServerInv, NEW f \in Fds, Refuse(f) \/ HandleGuiMessage(f)
    PROVE  ServerInv'
<1>1. UNCHANGED <<clientToPlayer, gameVars>> /\ UNCHANGED clientStates /\ Handling("RECEIVED", f)
  BY DEF Refuse, HandleGuiMessage, coreVars
<1>2. StatesOK(clientStates')
  BY <1>1 DEF ServerInv, TurnTypeOK, StatesOK
<1>3. PICK S \in SUBSET Fds : Reply(S, 1)
  BY DEF Refuse, HandleGuiMessage, Spectators
<1> QED
  BY <1>1, <1>2, <1>3, BystanderStep

LEMMA BecomePlayerKeeps ==
    ASSUME ServerInv, NEW f \in Fds, BecomePlayer(f)
    PROVE  ServerInv'
<1> DEFINE id == Head(eventQueue).by
<1>1. /\ Handling("RECEIVED", f) /\ clientStates[f] = "WAITING" /\ Reply({f}, 1)
      /\ player' = [i \in Players \cup {id} |-> IF i = id THEN NewPlayer ELSE player[i]]
      /\ clientToPlayer' = [clientToPlayer EXCEPT ![f] = id]
      /\ clientStates' = [clientStates EXCEPT ![f] = "IN_GAME"]
      /\ guiEvents' = (guiEvents \/ Fits(f, 1))
  BY DEF BecomePlayer
<1>2. clientToPlayer[f] = 0
  BY <1>1 DEF ServerInv, PlayersHaveClients
<1>3. phase = "events" /\ eventQueue # <<>> /\ Head(eventQueue).fd = f /\ Head(eventQueue).type = "RECEIVED"
  BY <1>1 DEF Handling
<1>4. QueueInv(eventQueue, client, clientToPlayer, connections)
  BY DEF ServerInv
<1>5. QueueInv(Rest, client, clientToPlayer', connections)
  BY <1>1, <1>2, <1>3, <1>4, Hatch DEF Rest
<1>6. id \in 1 .. connections /\ id # 0
  <2>1. eventQueue \in Seq(Events(connections)) /\ connections \in Nat
    BY InvFacts
  <2>2. 1 \in DOMAIN eventQueue /\ Head(eventQueue) = eventQueue[1]
    BY <1>3, <2>1, TailFacts
  <2>3. eventQueue[1].by \in 1 .. connections
    BY <2>1, <2>2, QueueFacts
  <2> QED
    BY <2>2, <2>3
<1> HIDE DEF id
<1>7. /\ clientToPlayer \in [Fds -> 0 .. connections] /\ StatesOK(clientStates)
      /\ player \in [Players -> PlayerType]
  BY InvFacts DEF ServerInv, TurnTypeOK, StatesOK
<1>8. Players' = Players \cup {id}
  BY <1>1 DEF Players
<1>9. player' \in [Players' -> PlayerType]
  <2>1. NewPlayer \in PlayerType
    BY Limits DEF NewPlayer, PlayerType
  <2> QED
    BY <1>1, <1>7, <1>8, <2>1
<1>10. clientToPlayer'[f] = id /\ \A g \in Fds \ {f} : clientToPlayer'[g] = clientToPlayer[g]
  BY <1>1, <1>7
<1>11. PlayersHaveClients'
  <2>1. Players' = {clientToPlayer'[g] : g \in Fds} \ {0}
    <3>1. Players = {clientToPlayer[g] : g \in Fds} \ {0}
      BY DEF ServerInv, PlayersHaveClients
    <3>2. {clientToPlayer'[g] : g \in Fds} \ {0} = ({clientToPlayer[g] : g \in Fds} \ {0}) \cup {id}
      BY <1>2, <1>6, <1>10
    <3> QED
      BY <1>8, <3>1, <3>2
  <2>2. \A g, h \in Fds : clientToPlayer'[g] = clientToPlayer'[h] /\ g # h => clientToPlayer'[g] = 0
    BY <1>5 DEF QueueInv, Homes
  <2>3. \A g \in Fds : clientToPlayer'[g] # 0 => clientStates'[g] = "IN_GAME"
    <3>1. clientStates'[f] = "IN_GAME" /\ \A g \in Fds \ {f} : clientStates'[g] = clientStates[g]
      BY <1>1, <1>7 DEF StatesOK
    <3> QED
      BY <1>10, <3>1 DEF ServerInv, PlayersHaveClients
  <2> QED
    BY <2>1, <2>2, <2>3 DEF PlayersHaveClients
<1>12. StatesOK(clientStates')
  BY <1>1, <1>7 DEF StatesOK
<1>13. guiEvents' \in BOOLEAN
  BY <1>1 DEF ServerInv, TurnTypeOK
<1> QED
  BY <1>1, <1>3, <1>5, <1>9, <1>11, <1>12, <1>13, ReplyStep

\* A line is taken, and at most its player notices.
LEMMA LineStep ==
    ASSUME ServerInv, NEW f \in Fds, Handling("RECEIVED", f), Dequeue,
           UNCHANGED <<client, writeBuffer, connections, clientStates, clientToPlayer, guiEvents>>,
           phase' \in {"events", "poll"}, polled' \in {0, polled},
           player' \in [Players -> PlayerType]
    PROVE  ServerInv'
<1>1. phase = "events" /\ QueueInv(Rest, client, clientToPlayer', connections)
  BY Taken
<1>2. player' \in [Players' -> PlayerType] /\ PlayersHaveClients'
  BY PlayersKept
<1>3. guiEvents' \in BOOLEAN /\ StatesOK(clientStates')
  BY DEF ServerInv, TurnTypeOK, StatesOK
<1> QED
  BY <1>1, <1>2, <1>3, TakeStep

LEMMA IgnoreMessageKeeps ==
    ASSUME ServerInv, NEW f \in Fds, IgnoreMessage(f)
    PROVE  ServerInv'
<1>1. /\ Handling("RECEIVED", f) /\ Dequeue /\ UNCHANGED <<phase, polled, player>>
      /\ UNCHANGED <<client, writeBuffer, connections, clientStates, clientToPlayer, guiEvents>>
  BY DEF IgnoreMessage, netVars, coreVars, gameVars
<1>2. phase' \in {"events", "poll"} /\ player' \in [Players -> PlayerType]
  BY <1>1 DEF ServerInv, Handling
<1> QED
  BY <1>1, <1>2, LineStep

LEMMA PushKeeps ==
    ASSUME ServerInv, NEW f \in Fds, PushCommand(f) \/ PushThrows(f)
    PROVE  ServerInv'
<1> DEFINE id == clientToPlayer[f]
<1>1. /\ Handling("RECEIVED", f) /\ Dequeue /\ id # 0
      /\ UNCHANGED <<client, writeBuffer, connections, clientStates, clientToPlayer, guiEvents>>
  BY DEF PushCommand, PushThrows, netVars, coreVars
<1>2. phase' \in {"events", "poll"} /\ polled' \in {0, polled}
  BY DEF PushCommand, PushThrows, Handling, NextTurn, netVars
<1>3. id \in Players /\ player[id] \in PlayerType
  BY <1>1, InvFacts
<1>4. \/ UNCHANGED player
      \/ player[id].load < kMaxNbCmd /\ player' = [player EXCEPT ![id].load = @ + 1]
      \/ HasRoom(player[id]) /\ player' = [player EXCEPT ![id].buffer = @ + 1]
      \/ player' = [player EXCEPT ![id].load = 1]
  BY DEF PushCommand, PushThrows
<1> HIDE DEF id
<1>5. player' \in [Players -> PlayerType]
  <2>1. /\ HasRoom(player[id]) => [player[id] EXCEPT !.buffer = @ + 1] \in PlayerType
        /\ player[id].load < kMaxNbCmd => [player[id] EXCEPT !.load = @ + 1] \in PlayerType
        /\ [player[id] EXCEPT !.load = 1] \in PlayerType
    BY <1>3, PlayerSteps DEF Heard
  <2>2. player \in [Players -> PlayerType]
    BY DEF ServerInv
  <2>3. \E p \in PlayerType : player' = [player EXCEPT ![id] = p]
    <3>1. CASE UNCHANGED player
      BY <1>3, <2>2, <3>1
    <3>2. CASE player[id].load < kMaxNbCmd /\ player' = [player EXCEPT ![id].load = @ + 1]
      BY <2>1, <3>2
    <3>3. CASE HasRoom(player[id]) /\ player' = [player EXCEPT ![id].buffer = @ + 1]
      BY <2>1, <3>3
    <3>4. CASE player' = [player EXCEPT ![id].load = 1]
      BY <2>1, <3>4
    <3> QED
      BY <1>4, <3>1, <3>2, <3>3, <3>4
  <2> QED
    BY <1>3, <2>2, <2>3
<1> QED
  BY <1>1, <1>2, <1>5, LineStep

\* The player of f, if there is one, leaves the world and the maps together.
LEMMA RemovalKeepsPairs ==
    ASSUME ServerInv, NEW gone \in SUBSET Fds,
           NEW dead, dead = {clientToPlayer[f] : f \in gone} \ {0}, RemovePlayers(dead),
           clientToPlayer' = [f \in Fds |-> IF f \in gone THEN 0 ELSE clientToPlayer[f]],
           \A f \in Fds \ gone : clientStates'[f] = clientStates[f]
    PROVE  player' \in [Players' -> PlayerType] /\ PlayersHaveClients'
<1>1. /\ Players = {clientToPlayer[f] : f \in Fds} \ {0}
      /\ \A f, g \in Fds : clientToPlayer[f] = clientToPlayer[g] /\ f # g => clientToPlayer[f] = 0
      /\ \A f \in Fds : clientToPlayer[f] # 0 => clientStates[f] = "IN_GAME"
      /\ player \in [Players -> PlayerType]
  BY DEF ServerInv, PlayersHaveClients
<1>2. Players' = Players \ dead /\ player' \in [Players' -> PlayerType]
  BY <1>1 DEF RemovePlayers, Players
<1>3. Players' = {clientToPlayer'[f] : f \in Fds} \ {0}
  <2>1. ASSUME NEW id \in Players' PROVE \E f \in Fds : clientToPlayer'[f] = id /\ id # 0
    BY <1>1, <1>2
  <2>2. ASSUME NEW f \in Fds, clientToPlayer'[f] # 0 PROVE clientToPlayer'[f] \in Players'
    BY <1>1, <1>2, <2>2
  <2> QED
    BY <2>1, <2>2
<1>4. \A f, g \in Fds : clientToPlayer'[f] = clientToPlayer'[g] /\ f # g => clientToPlayer'[f] = 0
  BY <1>1
<1>5. \A f \in Fds : clientToPlayer'[f] # 0 => clientStates'[f] = "IN_GAME"
  BY <1>1
<1> QED
  BY <1>2, <1>3, <1>4, <1>5 DEF PlayersHaveClients

LEMMA HandleClientDisconnectionKeeps ==
    ASSUME ServerInv, NEW f \in Fds, HandleClientDisconnection(f)
    PROVE  ServerInv'
<1>1. /\ Handling("DISCONNECTED", f) /\ Dequeue /\ UNCHANGED <<phase, polled>>
      /\ UNCHANGED <<client, writeBuffer, connections>>
      /\ clientStates' = [clientStates EXCEPT ![f] = "NONE"]
      /\ IF clientToPlayer[f] = 0
         THEN UNCHANGED <<clientToPlayer, player, guiEvents>>
         ELSE Unmapped(f) /\ RemovePlayers({clientToPlayer[f]}) /\ guiEvents' = TRUE
  BY DEF HandleClientDisconnection, netVars, gameVars
<1>2. phase = "events" /\ eventQueue # <<>> /\ Head(eventQueue).fd = f
  BY <1>1 DEF Handling
<1>3. /\ clientToPlayer \in [Fds -> 0 .. connections] /\ StatesOK(clientStates)
      /\ player \in [Players -> PlayerType]
      /\ QueueInv(eventQueue, client, clientToPlayer, connections)
  BY InvFacts DEF ServerInv, TurnTypeOK, StatesOK
<1>4. clientToPlayer' = [clientToPlayer EXCEPT ![f] = 0]
  BY <1>1, <1>3 DEF Unmapped
<1>5. QueueInv(eventQueue, client, clientToPlayer', connections)
  BY <1>3, <1>4, Forget
<1>6. QueueInv(Rest, client, clientToPlayer', connections)
  BY <1>2, <1>3, <1>4, <1>5, TakeEvent DEF Rest
<1>7. player' \in [Players' -> PlayerType] /\ PlayersHaveClients'
  <2> DEFINE gone == {f}
             dead == {clientToPlayer[g] : g \in gone} \ {0}
  <2>1. dead = IF clientToPlayer[f] = 0 THEN {} ELSE {clientToPlayer[f]}
    OBVIOUS
  <2>2. RemovePlayers(dead)
    BY <1>1, <1>3, <2>1 DEF RemovePlayers
  <2>3. clientToPlayer' = [g \in Fds |-> IF g \in gone THEN 0 ELSE clientToPlayer[g]]
    BY <1>3, <1>4
  <2>4. \A g \in Fds \ gone : clientStates'[g] = clientStates[g]
    BY <1>1, <1>3 DEF StatesOK
  <2> HIDE DEF dead
  <2>5. dead = {clientToPlayer[g] : g \in gone} \ {0} /\ gone \in SUBSET Fds
    BY DEF dead
  <2> HIDE DEF gone
  <2> QED
    BY <2>2, <2>3, <2>4, <2>5, RemovalKeepsPairs
<1>8. StatesOK(clientStates') /\ guiEvents' \in BOOLEAN
  BY <1>1, <1>3 DEF StatesOK, ServerInv, TurnTypeOK
<1> QED
  BY <1>1, <1>2, <1>6, <1>7, <1>8, TakeStep

LEMMA HandleKeeps ==
    ASSUME ServerInv, NEW f \in Fds, Handle(f)
    PROVE  ServerInv'
BY HandleNewClientKeeps, BecomeSpectatorKeeps, BecomePlayerKeeps, AnswerKeeps,
   IgnoreMessageKeeps, PushKeeps, HandleClientDisconnectionKeeps DEF Handle

-----------------------------------------------------------------------------
(* The steps after the events.                                             *)

LEMMA FlushPlayerResponsesKeeps ==
    ASSUME ServerInv, FlushPlayerResponses
    PROVE  ServerInv'
<1> DEFINE S == {f \in Fds : Answers[f] > 0}
<1>1. /\ phase = "events" /\ eventQueue = <<>>
      /\ player' = [id \in Players |-> [player[id] EXCEPT !.buffer = 0]]
      /\ UNCHANGED <<clientStates, clientToPlayer, guiEvents>>
      /\ \/ SendAll(S, Answers, eventQueue) /\ phase' = "bury" /\ UNCHANGED polled
         \/ SendThrows(S, Answers, eventQueue)
  BY DEF FlushPlayerResponses, coreVars
<1>2. Answers \in [Fds -> Nat]
  <2>1. \A f \in Fds : clientToPlayer[f] # 0 => player[clientToPlayer[f]].buffer \in Nat
    BY InvFacts, Limits DEF PlayerType
  <2> QED
    BY <2>1 DEF Answers
<1>3. S \in SUBSET Fds
  OBVIOUS
<1> HIDE DEF S
<1>4. /\ QueueInv(eventQueue', client', clientToPlayer', connections')
      /\ WriteInv(writeBuffer', client') /\ connections' = connections
  <2>1. QueueInv(eventQueue, client, clientToPlayer, connections) /\ WriteInv(writeBuffer, client)
    BY DEF ServerInv
  <2> QED
    BY <1>1, <1>2, <1>3, <2>1, SendKeeps
<1>5. player' \in [Players' -> PlayerType] /\ PlayersHaveClients'
  <2>1. \A id \in Players : [player[id] EXCEPT !.buffer = 0] \in PlayerType
    BY PlayerSteps DEF ServerInv
  <2>2. player' \in [Players -> PlayerType]
    BY <1>1, <2>1
  <2> QED
    BY <1>1, <2>2, PlayersKept
<1>6. CASE SendAll(S, Answers, eventQueue) /\ phase' = "bury" /\ UNCHANGED polled
  <2>1. eventQueue' = <<>> /\ polled' \in 0 .. connections'
    BY <1>1, <1>4, <1>6 DEF SendAll, ServerInv, TurnTypeOK
  <2> QED
    BY <1>1, <1>4, <1>5, <1>6, <2>1 DEF ServerInv, TurnTypeOK
<1>7. CASE SendThrows(S, Answers, eventQueue)
  <2>1. phase' = "poll" /\ polled' \in 0 .. connections'
    BY <1>4, <1>7, ThrowEndsTurn, InvFacts
  <2> QED
    BY <1>1, <1>4, <1>5, <2>1 DEF ServerInv, TurnTypeOK
<1> QED
  BY <1>1, <1>6, <1>7

LEMMA FlushGuiResponsesKeeps ==
    ASSUME ServerInv, FlushGuiResponses
    PROVE  ServerInv'
<1> DEFINE S == IF guiEvents THEN Spectators ELSE {}
<1>1. /\ guiEvents' = FALSE /\ UNCHANGED <<clientStates, clientToPlayer, player>>
      /\ \/ SendAll(S, Times(1), eventQueue) /\ NextTurn
         \/ SendThrows(S, Times(1), eventQueue)
  BY DEF FlushGuiResponses, coreVars
<1>2. Times(1) \in [Fds -> Nat] /\ S \in SUBSET Fds
  BY DEF Times, Spectators
<1> HIDE DEF S
<1>3. /\ QueueInv(eventQueue', client', clientToPlayer', connections')
      /\ WriteInv(writeBuffer', client') /\ connections' = connections
  <2>1. QueueInv(eventQueue, client, clientToPlayer, connections) /\ WriteInv(writeBuffer, client)
    BY DEF ServerInv
  <2> QED
    BY <1>1, <1>2, <2>1, SendKeeps
<1>4. player' \in [Players' -> PlayerType] /\ PlayersHaveClients'
  BY <1>1, PlayersKept DEF ServerInv
<1>5. phase' = "poll" /\ polled' \in 0 .. connections'
  BY <1>1, <1>3, ThrowEndsTurn, InvFacts DEF NextTurn
<1> QED
  BY <1>1, <1>3, <1>4, <1>5 DEF ServerInv, TurnTypeOK

\* Everyone in gone is closed and forgotten at once, while nothing waits in the queue.
LEMMA BurialQueue ==
    ASSUME QueueInv(<<>>, client, clientToPlayer, connections), NEW gone \in SUBSET Fds,
           client' = [f \in Fds |-> IF f \in gone THEN 0 ELSE client[f]],
           clientToPlayer' = [f \in Fds |-> IF f \in gone THEN 0 ELSE clientToPlayer[f]],
           NEW order \in SetToSeqs({f \in gone : client[f] # 0}),
           NEW q, q = [i \in DOMAIN order |-> Farewell(order[i], client[order[i]])]
    PROVE  QueueInv(q, client', clientToPlayer', connections)
<1> DEFINE S == {f \in gone : client[f] # 0}
           N == Cardinality(S)
<1>1. /\ connections \in Nat
      /\ client \in [Fds -> 0 .. connections] /\ clientToPlayer \in [Fds -> 0 .. connections]
  BY DEF QueueInv, QueueTypeOK
<1>2. N \in Nat
  <2>1. S \in SUBSET Fds
    OBVIOUS
  <2> HIDE DEF S
  <2> QED
    BY <2>1, ServerAssumption, FS_Subset, FS_CardinalityType
<1>3. order \in [1 .. N -> S] /\ \A i, j \in 1 .. N : i # j => order[i] # order[j]
  BY DEF SetToSeqs
<1>3a. \A f \in S : f \in gone /\ f \in Fds /\ client[f] \in 1 .. connections
  BY <1>1
<1> HIDE DEF S, N
<1>4. \A i \in 1 .. N : order[i] \in gone /\ order[i] \in Fds /\ client[order[i]] \in 1 .. connections
  BY <1>3, <1>3a
<1>5. DOMAIN q = 1 .. N
  BY <1>3
<1>6. \A i \in DOMAIN q : /\ q[i].type = "DISCONNECTED" /\ q[i].fd = order[i] /\ q[i].by = client[order[i]]
                          /\ q[i] \in Events(connections)
  BY <1>3, <1>4, <1>5 DEF Farewell, Events, EventType
<1>7. q \in Seq(Events(connections))
  <2>1. q = [i \in 1 .. N |-> q[i]]
    BY <1>3, <1>5
  <2>2. q \in [1 .. N -> Events(connections)]
    BY <1>5, <1>6, <2>1
  <2> QED
    BY <1>2, <2>2
<1>8. \A i \in DOMAIN q : /\ q[i].fd \in gone /\ q[i].fd \in Fds
                          /\ client[q[i].fd] = q[i].by /\ q[i].by \in 1 .. connections
  BY <1>4, <1>5, <1>6
<1>9. \A f \in Fds : IF f \in gone THEN client'[f] = 0 /\ clientToPlayer'[f] = 0
                     ELSE client'[f] = client[f] /\ clientToPlayer'[f] = clientToPlayer[f]
  OBVIOUS
<1>10. client' \in [Fds -> 0 .. connections] /\ clientToPlayer' \in [Fds -> 0 .. connections]
  BY <1>1
<1>11. QueueTypeOK(q, client', clientToPlayer', connections)
  BY <1>1, <1>7, <1>10 DEF QueueTypeOK
<1>12. Homes(q, client', clientToPlayer')
  <2>1. \A f, g \in Fds : f # g => /\ client[f] # 0 => client[f] # client[g] /\ client[f] # clientToPlayer[g]
                                   /\ clientToPlayer[f] # 0 => clientToPlayer[f] # clientToPlayer[g]
    BY DEF QueueInv, Homes
  <2>2. \A f, g \in Fds : f # g => /\ client'[f] # 0 => client'[f] # client'[g] /\ client'[f] # clientToPlayer'[g]
                                   /\ clientToPlayer'[f] # 0 => clientToPlayer'[f] # clientToPlayer'[g]
    BY <1>9, <2>1
  <2>3. ASSUME NEW i \in DOMAIN q, NEW f \in Fds, f # q[i].fd
        PROVE  client'[f] # q[i].by /\ clientToPlayer'[f] # q[i].by
    <3>1. q[i].by # 0 /\ client[q[i].fd] # client[f] /\ client[q[i].fd] # clientToPlayer[f]
      BY <1>1, <1>8, <2>1, <2>3
    <3> QED
      BY <1>8, <1>9, <3>1
  <2>4. \A i, j \in DOMAIN q : q[i].by = q[j].by => q[i].fd = q[j].fd
    <3> SUFFICES ASSUME NEW i \in DOMAIN q, NEW j \in DOMAIN q, q[i].by = q[j].by, q[i].fd # q[j].fd
                 PROVE  FALSE
      OBVIOUS
    <3>1. q[i].by # 0
      BY <1>1, <1>8
    <3> QED
      BY <1>8, <2>1, <3>1
  <2> QED
    BY <2>2, <2>3, <2>4 DEF Homes
<1>13. Ordered(q)
  <2> SUFFICES ASSUME NEW i \in DOMAIN q, NEW j \in DOMAIN q, i < j, q[i].fd = q[j].fd
               PROVE  FALSE
    BY DEF Ordered
  <2>1. i # j
    BY <1>2, <1>5
  <2> QED
    BY <1>3, <1>5, <1>6, <2>1
<1>14. Latest(q, client', clientToPlayer')
  BY <1>8, <1>9 DEF QueueInv, Latest
<1>15. Behind(q, clientToPlayer')
  BY <1>1, <1>8, <1>9 DEF Behind
<1>16. Followed(q, client')
  BY <1>6 DEF Followed
<1>17. Known(q, client', clientToPlayer')
  <2>1. \A f \in Fds : clientToPlayer[f] # 0 => client[f] = clientToPlayer[f]
    BY DEF QueueInv, Known
  <2> QED
    BY <1>9, <2>1 DEF Known
<1> QED
  BY <1>11, <1>12, <1>13, <1>14, <1>15, <1>16, <1>17 DEF QueueInv

LEMMA BuryDeadKeeps ==
    ASSUME ServerInv, BuryDead
    PROVE  ServerInv'
<1> DEFINE dead == {id \in Players : Removable(id)}
           gone == {f \in Fds : clientToPlayer[f] \in dead}
<1>1. /\ phase = "bury" /\ phase' = "gui" /\ RemovePlayers(dead)
      /\ client' = [f \in Fds |-> IF f \in gone THEN 0 ELSE client[f]]
      /\ clientToPlayer' = [f \in Fds |-> IF f \in gone THEN 0 ELSE clientToPlayer[f]]
      /\ guiEvents' = (guiEvents \/ dead # {})
      /\ UNCHANGED <<polled, writeBuffer, connections, clientStates>>
  BY DEF BuryDead
<1>2. eventQueue = <<>>
  BY <1>1 DEF ServerInv
<1>3. PICK order \in SetToSeqs({f \in gone : client[f] # 0}) :
         eventQueue' = <<>> \o [i \in DOMAIN order |-> Event("DISCONNECTED", order[i])]
  BY <1>2 DEF BuryDead, Open
<1>4. gone \in SUBSET Fds /\ dead = {clientToPlayer[f] : f \in gone} \ {0}
  <2>1. \A id \in Players : id # 0 /\ \E f \in Fds : clientToPlayer[f] = id
    BY InvFacts
  <2> QED
    BY <2>1
<1>5. \A f \in gone : writeBuffer[f] = 0
  BY DEF Removable, IsWriting
<1> HIDE DEF dead, gone
<1>6. QueueInv(eventQueue', client', clientToPlayer', connections')
  <2> DEFINE q == [i \in DOMAIN order |-> Farewell(order[i], client[order[i]])]
  <2>1. QueueInv(<<>>, client, clientToPlayer, connections)
    BY <1>2 DEF ServerInv
  <2>4. q = [i \in DOMAIN order |-> Event("DISCONNECTED", order[i])]
    BY DEF Farewell, Event
  <2>6. q = [i \in DOMAIN order |-> Farewell(order[i], client[order[i]])]
    OBVIOUS
  <2> HIDE DEF q
  <2>2. QueueInv(q, client', clientToPlayer', connections)
    BY <1>1, <1>3, <1>4, <2>1, <2>6, BurialQueue, Zenon
  <2>3. q \in Seq(Events(connections))
    BY <2>2 DEF QueueInv, QueueTypeOK
  <2>5. eventQueue' = q
    <3>1. <<>> \o q = q
      BY <2>3, ConcatEmptySeq
    <3> QED
      BY <1>3, <2>4, <3>1
  <2> QED
    BY <1>1, <2>2, <2>5
<1>7. WriteInv(writeBuffer', client')
  BY <1>1, <1>4, <1>5 DEF ServerInv, WriteInv
<1>8. player' \in [Players' -> PlayerType] /\ PlayersHaveClients'
  BY <1>1, <1>4, RemovalKeepsPairs
<1>9. TurnTypeOK'
  BY <1>1 DEF ServerInv, TurnTypeOK
<1> QED
  BY <1>1, <1>6, <1>7, <1>8, <1>9 DEF ServerInv

-----------------------------------------------------------------------------
(* The theorems.                                                           *)

LEMMA ServerInvInit == Init => ServerInv
<1> SUFFICES ASSUME Init PROVE ServerInv
  OBVIOUS
<1>1. /\ phase = "poll" /\ polled = 0 /\ eventQueue = <<>> /\ guiEvents = FALSE /\ connections = 0
      /\ client = [f \in Fds |-> 0] /\ clientToPlayer = [f \in Fds |-> 0]
      /\ writeBuffer = [f \in Fds |-> 0] /\ clientStates = [f \in Fds |-> "NONE"]
      /\ player = <<>>
  BY DEF Init
<1>2. QueueInv(eventQueue, client, clientToPlayer, connections)
  <2>1. eventQueue \in Seq(Events(0)) /\ DOMAIN eventQueue = {}
    BY <1>1, EmptySeq
  <2>2. \A f \in Fds : client[f] = 0 /\ clientToPlayer[f] = 0
    BY <1>1
  <2>3. QueueTypeOK(eventQueue, client, clientToPlayer, connections)
    BY <1>1, <2>1 DEF QueueTypeOK
  <2> QED
    BY <2>1, <2>2, <2>3 DEF QueueInv, Homes, Ordered, Latest, Behind, Followed, Known
<1>3. WriteInv(writeBuffer, client)
  BY <1>1, Limits DEF WriteInv
<1>4. Players = {}
  <2>1. player \in Seq({}) /\ Len(player) = 0
    BY <1>1, EmptySeq
  <2>2. DOMAIN player = 1 .. 0
    BY <2>1, LenProperties
  <2> QED
    BY <2>2 DEF Players
<1>5. player \in [Players -> PlayerType] /\ PlayersHaveClients
  <2>1. player = [id \in Players |-> player[id]]
    BY <1>1, <1>4 DEF Players
  <2> QED
    BY <1>1, <1>4, <2>1 DEF PlayersHaveClients
<1>6. TurnTypeOK
  <2>1. polled \in 0 .. connections
    BY <1>1
  <2>2. clientStates \in [Fds -> {"NONE", "WAITING", "IN_GAME", "GUI"}]
    BY <1>1
  <2>3. guiEvents \in BOOLEAN
    BY <1>1
  <2> QED
    BY <1>1, <2>1, <2>2, <2>3 DEF TurnTypeOK
<1> QED
  BY <1>1, <1>2, <1>3, <1>5, <1>6 DEF ServerInv

LEMMA ServerInvNext == ServerInv /\ [Next]_vars => ServerInv'
<1> SUFFICES ASSUME ServerInv, [Next]_vars PROVE ServerInv'
  OBVIOUS
<1>1. CASE Loop
  BY <1>1, PollEndKeeps, TickKeeps, TickThrowsKeeps, FlushPlayerResponsesKeeps, BuryDeadKeeps,
     FlushGuiResponsesKeeps, HandleKeeps DEF Loop
<1>2. CASE Network
  BY <1>2, NetworkKeeps DEF Network
<1>3. CASE UNCHANGED vars
  <2>1. UNCHANGED <<phase, polled, client, writeBuffer, connections, eventQueue, clientStates,
                    clientToPlayer, player, guiEvents>>
    BY <1>3 DEF vars, netVars, coreVars, gameVars
  <2>2. player' \in [Players -> PlayerType]
    BY <2>1 DEF ServerInv
  <2>3. player' \in [Players' -> PlayerType] /\ PlayersHaveClients'
    BY <2>1, <2>2, PlayersKept
  <2> QED
    BY <2>1, <2>3 DEF ServerInv, TurnTypeOK
<1> QED
  BY <1>1, <1>2, <1>3 DEF Next

\* The inductive invariant holds for as long as the server runs.
THEOREM ServerInvariant == Spec => []ServerInv
BY ServerInvInit, ServerInvNext, PTL DEF Spec

\* Types and bounds: no write buffer and no buffer of answers outgrows its limit, no
\* player has more commands waiting than it may, and what is closed has nothing to send.
THEOREM ServerTypesCorrect == Spec => []TypeOK
<1>1. ServerInv => TypeOK
  <2> SUFFICES ASSUME ServerInv PROVE TypeOK
    OBVIOUS
  <2>1. /\ connections \in Nat /\ eventQueue \in Seq(Events(connections))
        /\ client \in [Fds -> 0 .. connections] /\ clientToPlayer \in [Fds -> 0 .. connections]
    BY InvFacts
  <2>2. /\ writeBuffer \in [Fds -> 0 .. kMaxBufferSize]
        /\ \A f \in Fds : ~Open(f) => writeBuffer[f] = 0
    BY DEF ServerInv, WriteInv, Open
  <2> QED
    BY <2>1, <2>2 DEF TypeOK, ServerInv, TurnTypeOK, Events, EventType, PlayerType
<1> QED
  BY <1>1, ServerInvariant, PTL

\* Every player has exactly one client and every client in the game its player, after
\* any number of exceptions in the middle of a turn.
THEOREM PlayersCorrect == Spec => []PlayersHaveClients
<1>1. ServerInv => PlayersHaveClients
  BY DEF ServerInv
<1> QED
  BY <1>1, ServerInvariant, PTL

\* The disconnection of a player whose connection is gone waits in the queue before
\* anything that a later user of the descriptor said.
THEOREM DepartureCorrect == Spec => []DepartureIsKnown
<1>1. ServerInv => DepartureIsKnown
  BY DEF ServerInv, QueueInv, Known, Farewell, DepartureIsKnown
<1> QED
  BY <1>1, ServerInvariant, PTL

\* A line is handled for the player its own connection hatched.
LEMMA OwnLine ==
    ASSUME ServerInv, NEW f \in Fds, Handling("RECEIVED", f), clientToPlayer[f] # 0
    PROVE  Head(eventQueue).by = clientToPlayer[f]
<1>1. eventQueue \in Seq(Events(connections)) /\ connections \in Nat
  BY InvFacts
<1>2. /\ 1 \in DOMAIN eventQueue /\ Head(eventQueue) = eventQueue[1]
      /\ eventQueue[1].fd = f /\ eventQueue[1].type = "RECEIVED"
  BY <1>1, TailFacts DEF Handling
<1>3. QueueInv(eventQueue, client, clientToPlayer, connections)
  BY DEF ServerInv
<1>4. CASE client[f] = clientToPlayer[f]
  <2>1. clientToPlayer[f] <= eventQueue[1].by
    BY <1>2, <1>3 DEF QueueInv, Behind
  <2>2. eventQueue[1].by <= client[f]
    BY <1>2, <1>3, <1>4 DEF QueueInv, Latest
  <2>3. eventQueue[1].by \in 1 .. connections /\ clientToPlayer[f] \in 0 .. connections
    BY <1>1, <1>2, QueueFacts, InvFacts
  <2> QED
    BY <1>1, <1>2, <1>4, <2>1, <2>2, <2>3
<1>5. CASE client[f] # clientToPlayer[f]
  <2>1. PICK i \in DOMAIN eventQueue :
           \A j \in 1 .. i : eventQueue[j].fd = f => eventQueue[j].by = clientToPlayer[f]
    BY <1>3, <1>5 DEF QueueInv, Known
  <2>2. 1 \in 1 .. i
    BY <1>1, QueueFacts
  <2> QED
    BY <1>2, <2>1, <2>2
<1> QED
  BY <1>4, <1>5

\* No line reaches a player that another connection hatched, however the kernel hands
\* out the descriptors.
THEOREM CommandsCorrect == Spec => CommandsReachTheirOwner
<1>1. ASSUME ServerInv, NEW f \in Fds, PushCommand(f) \/ PushThrows(f)
      PROVE  Head(eventQueue).by = clientToPlayer[f]
  BY <1>1, OwnLine DEF PushCommand, PushThrows
<1>2. ServerInv => \A f \in Fds : PushCommand(f) \/ PushThrows(f) =>
                                     Head(eventQueue).by = clientToPlayer[f]
  BY <1>1
<1> QED
  BY <1>2, ServerInvariant, PTL DEF CommandsReachTheirOwner

=============================================================================
