---------------------------- MODULE AirPlayProofs ----------------------------
(* Proofs about streaming to an AirPlay receiver, for any number of callers  *)
(* of stream(), sequence numbers and packets in the backlog, and of senders  *)
(* at one RTSP connection. The stream manager lets one stream in; so the     *)
(* backlog is one sender's, and what it holds is a window of the last        *)
(* packets. The lock of a connection lets one exchange in; so what is on its *)
(* way is that exchange's, until one is given up halfway. And the two tasks  *)
(* of a tunnel never wait for each other both.                               *)
EXTENDS Raop, RtspConnection, DataStream, FiniteSetTheorems, SequenceTheorems, TLAPS

\* What the call of one stream() is: how far, and whether its audio plays.
Progress == [at : {"none", "connect", "initialize", "open", "record", "data", "teardown"},
             playing : BOOLEAN]

\* The accessors' state, and the stream it belongs to.
Owned(o) == {shared.connection, shared.stop, shared.info} \subseteq {o, NoStream}

\* Whoever is past try_lock holds it, and acquired the state too; a future that was dropped gave
\* back the lock and not the state, and nobody gets in after it.
OneIn ==
  /\ streams \in [Streams -> Progress]
  /\ guard \in Streams \cup {NoStream}
  /\ shared \in [acquired : BOOLEAN, connection : Streams \cup {NoStream},
                 stop : Streams \cup {NoStream}, info : Streams \cup {NoStream}]
  /\ \A s \in Streams : streams[s].at # "none" <=> guard = s
  /\ guard # NoStream => shared.acquired /\ Owned(guard)
  /\ ~shared.acquired => Owned(NoStream)
  /\ \E o \in Streams \cup {NoStream} : Owned(o)

\* One owner: what the accessors see is of one stream.
LEMMA OneInSuffices == OneIn => OneStreamsState
<1> SUFFICES ASSUME OneIn PROVE OneStreamsState
  OBVIOUS
<1> DEFINE seen == {shared.connection, shared.stop, shared.info} \ {NoStream}
<1>1. PICK o : seen \subseteq {o}
  BY DEF OneIn, Owned
<1>2. Cardinality(seen) <= 1
  <2>1. Cardinality({o}) = 1 /\ IsFiniteSet({o})
    BY FS_Singleton
  <2>2. Cardinality(seen) <= Cardinality({o})
    BY <1>1, <2>1, FS_Subset
  <2> QED BY <2>1, <2>2
<1>3. seen # {} => shared.acquired
  BY DEF OneIn, Owned
<1>4. guard # NoStream => seen \subseteq {guard}
  BY DEF OneIn, Owned
<1> QED BY <1>2, <1>3, <1>4 DEF OneStreamsState

\* Before the first stream() nobody is in and nothing is set.
LEMMA OneInStarts == RaopInit => OneIn
  BY RaopAssumption DEF RaopInit, OneIn, Progress, Idle, Unused, Owned

\* No step of stream(), stop() or the tasks of a stream lets a second one in.
LEMMA OneInSteps == OneIn /\ [RaopNext]_raopVars => OneIn'
<1> SUFFICES ASSUME OneIn, [RaopNext]_raopVars PROVE OneIn'
  OBVIOUS
<1>1. ASSUME NEW s \in Streams, Enters(s) PROVE OneIn'
  BY ZenonT(60), <1>1, RaopAssumption DEF OneIn, Enters, MayAcquire, Moves, Progress, Owned
<1>2. ASSUME NEW s \in Streams, ConnectsStream(s) PROVE OneIn'
  BY <1>2, RaopAssumption DEF OneIn, ConnectsStream, Moves, Progress, Owned
<1>3. ASSUME NEW s \in Streams, Initializes(s) PROVE OneIn'
  BY <1>3, RaopAssumption DEF OneIn, Initializes, Moves, Progress, Owned
<1>4. ASSUME NEW s \in Streams, Opens(s) PROVE OneIn'
  BY <1>4, RaopAssumption DEF OneIn, Opens, Moves, Progress, Owned
<1>5. ASSUME NEW s \in Streams, StartsData(s) PROVE OneIn'
  BY <1>5, RaopAssumption DEF OneIn, StartsData, Progress, Owned
<1>6. ASSUME NEW s \in Streams, Finishes(s) PROVE OneIn'
  BY <1>6, RaopAssumption DEF OneIn, Finishes, Progress, Owned
<1>7. ASSUME NEW s \in Streams, Releases(s) PROVE OneIn'
  BY <1>7, RaopAssumption DEF OneIn, Releases, Progress, Owned, Idle, Unused
<1>8. ASSUME NEW s \in Streams, Drops(s) PROVE OneIn'
  BY <1>8, RaopAssumption DEF OneIn, Drops, Progress, Owned, Idle
<1>9. CASE StopStream
  BY ZenonT(60), <1>9, RaopAssumption DEF OneIn, StopStream, Progress, Owned
<1>10. CASE UNCHANGED <<streams, guard, shared>>
  BY <1>10 DEF OneIn, Owned
<1>11. ASSUME NEW s \in Streams, SendPacket(s) PROVE OneIn'
  BY <1>10, <1>11 DEF SendPacket
<1>12. ASSUME NEW first, NEW lost, Requested(first, lost) PROVE OneIn'
  BY <1>10, <1>12 DEF Requested
<1>13. CASE Retransmit
  BY <1>10, <1>13 DEF Retransmit
<1>14. CASE UNCHANGED raopVars
  BY <1>10, <1>14 DEF raopVars
<1> QED BY <1>1, <1>2, <1>3, <1>4, <1>5, <1>6, <1>7, <1>8, <1>9, <1>11, <1>12, <1>13, <1>14 DEF RaopNext

\* The remainder of a division, once and for all.
LEMMA Remainder ==
  ASSUME NEW m \in Nat \ {0}, NEW a \in Nat
  PROVE  \E q \in Nat, r \in 0..m-1 : a = m * q + r /\ r = a % m
  OBVIOUS

\* Numbers of two packets less than SeqNumbers apart are different.
LEMMA NumbersDiffer ==
  ASSUME NEW m \in Nat \ {0}, NEW a \in Nat, NEW b \in Nat, a < b, b - a < m
  PROVE  a % m # b % m
<1>1. PICK q \in Nat, r \in 0..m-1 : a = m * q + r /\ r = a % m
  BY Remainder
<1>2. PICK p \in Nat, t \in 0..m-1 : b = m * p + t /\ t = b % m
  BY Remainder
<1> QED BY <1>1, <1>2

\* A sequence number is below their count.
LEMMA NumberInRange ==
  ASSUME NEW m \in Nat \ {0}, NEW a \in Nat
  PROVE  a % m \in 0..m-1
  OBVIOUS

\* The number of a packet of a stream that began at first, and the packets that are kept.
Number(first, n) == (first + n - 1) % SeqNumbers
Room(sent, size) == IF sent < size THEN sent ELSE size

\* The fifo holds the last size packets, each under its number, in order.
Window(fifo, first, sent, size) ==
  /\ fifo.order \in Seq(0..SeqNumbers - 1)
  /\ Len(fifo.order) = Room(sent, size)
  /\ \A k \in 1..Room(sent, size) : fifo.order[k] = Number(first, sent - Room(sent, size) + k)
  /\ DOMAIN fifo.items = {Number(first, n) : n \in {m \in 1..sent : m + size > sent}}
  /\ \A n \in 1..sent : n + size > sent => fifo.items[Number(first, n)] = n

\* What push_back does to the order of the packets.
LEMMA AppendFacts ==
  ASSUME NEW S, NEW o \in Seq(S), NEW x \in S
  PROVE  /\ Append(o, x) \in Seq(S) /\ Len(Append(o, x)) = Len(o) + 1
         /\ Append(o, x)[Len(o) + 1] = x
         /\ \A k \in 1..Len(o) : Append(o, x)[k] = o[k]
  OBVIOUS

\* What pop_front does to it.
LEMMA TailFacts ==
  ASSUME NEW S, NEW o \in Seq(S), o # <<>>
  PROVE  /\ Tail(o) \in Seq(S) /\ Len(Tail(o)) = Len(o) - 1
         /\ \A k \in 1..Len(o) - 1 : Tail(o)[k] = o[k + 1]
  OBVIOUS

\* The sizes as natural numbers, for the provers.
LEMMA Sizes == SeqNumbers \in Nat \ {0} /\ Backlog \in Nat \ {0} /\ Backlog < SeqNumbers
  BY RaopAssumption

\* Two packets within one backlog have different sequence numbers.
LEMMA KeptDiffer ==
  ASSUME NEW first \in Nat, NEW m \in Nat \ {0}, NEW n \in Nat \ {0}, m < n, n <= m + Backlog
  PROVE  Number(first, m) # Number(first, n)
<1>1. first + m - 1 \in Nat /\ first + n - 1 \in Nat
  OBVIOUS
<1>2. first + m - 1 < first + n - 1 /\ (first + n - 1) - (first + m - 1) < SeqNumbers
  BY Sizes
<1> QED BY <1>1, <1>2, NumbersDiffer, Sizes DEF Number

\* The number of a packet is a sequence number.
LEMMA NumberType ==
  ASSUME NEW first \in Nat, NEW n \in Nat \ {0}
  PROVE  Number(first, n) \in 0..SeqNumbers - 1
<1>1. first + n - 1 \in Nat
  OBVIOUS
<1> QED BY <1>1, NumberInRange, Sizes DEF Number

\* A full fifo drops the packet that came first.
LEMMA EvictKeeps ==
  ASSUME NEW fifo, NEW first \in Nat, NEW sent \in Nat, Window(fifo, first, sent, Backlog), Backlog <= sent
  PROVE  Window(Evict(fifo), first, sent, Backlog - 1)
<1> DEFINE room == Evict(fifo)
           oldest == sent - Backlog + 1
<1>1. oldest \in 1..sent /\ Room(sent, Backlog) = Backlog /\ Room(sent, Backlog - 1) = Backlog - 1
  BY Sizes DEF Room
<1>2. fifo.order \in Seq(0..SeqNumbers - 1) /\ Len(fifo.order) = Backlog
  BY <1>1 DEF Window
<1>3. Head(fifo.order) = Number(first, oldest)
  <2>1. fifo.order[1] = Number(first, sent - Backlog + 1)
    BY <1>1, Sizes DEF Window
  <2> QED BY <1>2, <2>1, Sizes
<1>4. room.items = Without(fifo.items, Head(fifo.order)) /\ room.order = Tail(fifo.order)
  BY DEF Evict
<1>5. room.order \in Seq(0..SeqNumbers - 1) /\ Len(room.order) = Backlog - 1
      /\ \A k \in 1..Backlog - 1 : room.order[k] = fifo.order[k + 1]
  <2>1. fifo.order # <<>>
    BY <1>2, Sizes
  <2>2. Backlog \in Nat
    BY Sizes
  <2> QED BY ONLY <1>2, <1>4, <2>1, <2>2, TailFacts
<1>6. ASSUME NEW k \in 1..Backlog - 1
      PROVE  room.order[k] = Number(first, sent - (Backlog - 1) + k)
  <2>1. fifo.order[k + 1] = Number(first, sent - Backlog + (k + 1))
    BY <1>1, Sizes DEF Window
  <2>2. sent - Backlog + (k + 1) = sent - (Backlog - 1) + k
    BY Sizes
  <2> QED BY <1>5, <2>1, <2>2
<1>7. ASSUME NEW n \in 1..sent, n + Backlog > sent, n # oldest
      PROVE  Number(first, n) # Number(first, oldest)
  BY <1>1, <1>7, KeptDiffer, Sizes
<1>8. \A n \in 1..sent : n + (Backlog - 1) > sent <=> n + Backlog > sent /\ n # oldest
  BY Sizes
<1> HIDE DEF oldest, room
<1>9. DOMAIN room.items = DOMAIN fifo.items \ {Number(first, oldest)}
      /\ \A q \in DOMAIN room.items : room.items[q] = fifo.items[q]
  BY <1>3, <1>4 DEF Without
<1>10. DOMAIN room.items = {Number(first, n) : n \in {m \in 1..sent : m + (Backlog - 1) > sent}}
  BY <1>7, <1>8, <1>9 DEF Window
<1>11. ASSUME NEW n \in 1..sent, n + (Backlog - 1) > sent
       PROVE  room.items[Number(first, n)] = n
  <2>1. Number(first, n) \in DOMAIN room.items
    BY <1>10, <1>11
  <2>2. fifo.items[Number(first, n)] = n
    BY <1>8, <1>11 DEF Window
  <2> QED BY <1>9, <2>1, <2>2
<1>12. Window(room, first, sent, Backlog - 1)
  BY <1>1, <1>5, <1>6, <1>10, <1>11 DEF Window
<1> QED BY <1>12 DEF room

\* One more packet goes to the end.
LEMMA AppendKeeps ==
  ASSUME NEW room, NEW first \in Nat, NEW sent \in Nat, NEW size \in 0..Backlog - 1,
         Window(room, first, sent, size),
         NEW fifo, NEW number, number = Number(first, sent + 1),
         fifo.items = [q \in DOMAIN room.items \cup {number} |->
                           IF q = number THEN sent + 1 ELSE room.items[q]],
         fifo.order = Append(room.order, number)
  PROVE  Window(fifo, first, sent + 1, size + 1)
<1>1. number \in 0..SeqNumbers - 1 /\ size \in Nat /\ size + 1 <= Backlog /\ sent + 1 \in Nat \ {0}
  <2>1. sent + 1 \in Nat \ {0}
    OBVIOUS
  <2>2. number \in 0..SeqNumbers - 1
    BY <2>1, NumberType
  <2> QED BY <2>1, <2>2, Sizes
<1>2. Room(sent + 1, size + 1) = Room(sent, size) + 1 /\ Room(sent, size) \in Nat
  BY <1>1 DEF Room
<1>3. room.order \in Seq(0..SeqNumbers - 1) /\ Len(room.order) = Room(sent, size)
  BY DEF Window
<1>4. /\ fifo.order \in Seq(0..SeqNumbers - 1) /\ Len(fifo.order) = Room(sent, size) + 1
      /\ fifo.order[Room(sent, size) + 1] = number
      /\ \A k \in 1..Room(sent, size) : fifo.order[k] = room.order[k]
  BY <1>1, <1>2, <1>3, AppendFacts
<1>5. ASSUME NEW k \in 1..Room(sent + 1, size + 1)
      PROVE  fifo.order[k] = Number(first, sent + 1 - Room(sent + 1, size + 1) + k)
  <2>1. CASE k = Room(sent, size) + 1
    <3>1. sent + 1 - Room(sent + 1, size + 1) + k = sent + 1
      BY <1>2, <2>1
    <3> QED BY <1>4, <2>1, <3>1
  <2>2. CASE k \in 1..Room(sent, size)
    <3>1. sent + 1 - Room(sent + 1, size + 1) + k = sent - Room(sent, size) + k
      BY <1>2, <2>2
    <3>2. room.order[k] = Number(first, sent - Room(sent, size) + k)
      BY <2>2 DEF Window
    <3> QED BY <1>4, <2>2, <3>1, <3>2
  <2>3. k = Room(sent, size) + 1 \/ k \in 1..Room(sent, size)
    BY ONLY <1>2, k \in 1..Room(sent + 1, size + 1)
  <2> QED BY <2>1, <2>2, <2>3
<1>6. \A n \in 1..sent + 1 : n + (size + 1) > sent + 1 <=> n = sent + 1 \/ (n \in 1..sent /\ n + size > sent)
  BY <1>1
<1>7. DOMAIN fifo.items = DOMAIN room.items \cup {number}
  OBVIOUS
<1>8. DOMAIN fifo.items = {Number(first, n) : n \in {m \in 1..sent + 1 : m + (size + 1) > sent + 1}}
  <2>1. DOMAIN room.items = {Number(first, n) : n \in {m \in 1..sent : m + size > sent}}
    BY DEF Window
  <2>2. {m \in 1..sent + 1 : m + (size + 1) > sent + 1} = {m \in 1..sent : m + size > sent} \cup {sent + 1}
    BY <1>1
  <2> QED BY <1>7, <2>1, <2>2
<1>9. ASSUME NEW n \in 1..sent + 1, n + (size + 1) > sent + 1
      PROVE  fifo.items[Number(first, n)] = n
  <2>1. CASE n = sent + 1
    BY <1>7, <2>1
  <2>2. CASE n \in 1..sent /\ n + size > sent
    <3>1. Number(first, n) # number
      BY <1>1, <2>2, KeptDiffer, Sizes
    <3>2. Number(first, n) \in DOMAIN room.items /\ room.items[Number(first, n)] = n
      BY <2>2 DEF Window
    <3> QED BY <1>7, <3>1, <3>2
  <2> QED BY <1>6, <1>9, <2>1, <2>2
<1>10. Len(fifo.order) = Room(sent + 1, size + 1)
  BY <1>2, <1>4
<1> QED BY ONLY SMTT(60), <1>4, <1>5, <1>8, <1>9, <1>10 DEF Window

\* Inserting the packet that is next.
LEMMA InsertKeeps ==
  ASSUME NEW fifo, NEW first \in Nat, NEW sent \in Nat, Window(fifo, first, sent, Backlog)
  PROVE  Window(Insert(fifo, Number(first, sent + 1), sent + 1), first, sent + 1, Backlog)
<1> DEFINE number == Number(first, sent + 1)
           room == IF Len(fifo.order) + 1 > Backlog THEN Evict(fifo) ELSE fifo
           next == [items |-> [q \in DOMAIN room.items \cup {number} |->
                                  IF q = number THEN sent + 1 ELSE room.items[q]],
                    order |-> Append(room.order, number)]
<1>1. number \notin DOMAIN fifo.items
  <2>1. DOMAIN fifo.items = {Number(first, n) : n \in {m \in 1..sent : m + Backlog > sent}}
    BY DEF Window
  <2>2. ASSUME NEW n \in 1..sent, n + Backlog > sent PROVE Number(first, n) # number
    BY <2>2, KeptDiffer, Sizes
  <2> QED BY <2>1, <2>2
<1>2. Insert(fifo, number, sent + 1) = next
  BY <1>1 DEF Insert
<1>3. Len(fifo.order) = Room(sent, Backlog)
  BY DEF Window
<1>4. CASE Backlog <= sent
  <2>1. room = Evict(fifo)
    BY <1>3, <1>4, Sizes DEF Room
  <2>2. Window(room, first, sent, Backlog - 1)
    BY <1>4, <2>1, EvictKeeps
  <2>3. next.items = [q \in DOMAIN room.items \cup {number} |->
                          IF q = number THEN sent + 1 ELSE room.items[q]]
        /\ next.order = Append(room.order, number)
    OBVIOUS
  <2>4. Backlog - 1 \in 0..Backlog - 1 /\ (Backlog - 1) + 1 = Backlog
    BY Sizes
  <2> HIDE DEF room, next, number
  <2>5. Window(next, first, sent + 1, (Backlog - 1) + 1)
    BY <2>2, <2>3, <2>4, AppendKeeps DEF number
  <2> QED BY <1>2, <2>4, <2>5 DEF number
<1>5. CASE sent < Backlog
  <2>1. room = fifo
    BY <1>3, <1>5, Sizes DEF Room
  <2>2. Window(room, first, sent, Backlog - 1)
    BY <1>5, <2>1, Sizes DEF Room, Window
  <2>3. next.items = [q \in DOMAIN room.items \cup {number} |->
                          IF q = number THEN sent + 1 ELSE room.items[q]]
        /\ next.order = Append(room.order, number)
    OBVIOUS
  <2>4. Backlog - 1 \in 0..Backlog - 1 /\ (Backlog - 1) + 1 = Backlog
    BY Sizes
  <2> HIDE DEF room, next, number
  <2>5. Window(next, first, sent + 1, (Backlog - 1) + 1)
    BY <2>2, <2>3, <2>4, AppendKeeps DEF number
  <2> QED BY <1>2, <2>4, <2>5 DEF number
<1> QED BY <1>4, <1>5, Sizes

\* What a lookup in it finds.
Right(first, sent, number) ==
  LET kept == {n \in 1..sent : n + Backlog > sent /\ Number(first, n) = number}
  IN  IF kept = {} THEN 0 ELSE CHOOSE n \in kept : TRUE

\* A number is in the map exactly when a packet of the window has it, and then it finds that one.
LEMMA LookupIsRight ==
  ASSUME NEW fifo, NEW first \in Nat, NEW sent \in Nat, Window(fifo, first, sent, Backlog), NEW number
  PROVE  (IF number \in DOMAIN fifo.items THEN fifo.items[number] ELSE 0) = Right(first, sent, number)
<1> DEFINE kept == {n \in 1..sent : n + Backlog > sent /\ Number(first, n) = number}
<1>1. number \in DOMAIN fifo.items <=> kept # {}
  BY DEF Window
<1>2. ASSUME NEW n \in kept PROVE fifo.items[number] = n
  BY DEF Window
<1>3. kept # {} => fifo.items[number] = CHOOSE n \in kept : TRUE
  <2> HIDE DEF kept
  <2> QED BY <1>2
<1> QED BY <1>1, <1>3 DEF Right

-----------------------------------------------------------------------------
\* What is kept while packets are sent, and that only then lost ones are asked for.
PacketShape ==
  /\ sender \in [first : 0..SeqNumbers - 1, sent : Nat]
  /\ request \in [number : 0..SeqNumbers - 1, left : Nat]
  /\ answer.number \in 0..SeqNumbers

KeptPackets ==
  /\ \A s \in Streams :
        /\ streams[s].at = "open" => backlog = NoPackets
        /\ streams[s].at \in {"record", "data"} => Window(backlog, sender.first, sender.sent, Backlog)
  /\ answer # NoAnswer \/ request # NoRequest => \E s \in Streams : streams[s].at = "data"
  /\ answer # NoAnswer => answer.packet = Right(sender.first, sender.sent, answer.number)

PacketInv == OneIn /\ PacketShape /\ KeptPackets

\* An answer found by its number among the last packets is the one the property asks for.
LEMMA RightIsKept ==
  answer # NoAnswer /\ answer.packet = Right(sender.first, sender.sent, answer.number)
      => RetransmitAnswers
  BY DEF RetransmitAnswers, Right, Number, NumberOf

\* An empty fifo is the window of a stream that has sent nothing.
LEMMA NothingKept ==
  ASSUME NEW first
  PROVE  Window(NoPackets, first, 0, Backlog)
<1>1. Room(0, Backlog) = 0 /\ 1..0 = {}
  BY Sizes DEF Room
<1>2. NoPackets.order = <<>> /\ NoPackets.items = <<>>
  BY DEF NoPackets
<1>3. DOMAIN NoPackets.items = {}
  BY <1>2
<1> QED BY <1>1, <1>2, <1>3 DEF Window

\* No packet is kept or asked for before the first stream().
LEMMA PacketStarts == RaopInit => PacketInv
<1> SUFFICES ASSUME RaopInit PROVE PacketInv
  OBVIOUS
<1>1. OneIn
  BY OneInStarts
<1>2. PacketShape
  BY Sizes DEF RaopInit, PacketShape, NoRequest, NoAnswer
<1>3. KeptPackets
  BY DEF RaopInit, KeptPackets, Idle
<1> QED BY <1>1, <1>2, <1>3 DEF PacketInv

\* A stream that moves while nobody else is in.
LEMMA AloneIn ==
  ASSUME OneIn, NEW s \in Streams, streams[s].at # "none", NEW t \in Streams, t # s
  PROVE  streams[t].at = "none"
  BY DEF OneIn

\* Sending, asking and answering keep the window: the packets of a stream are those of one sender,
\* as whoever sends holds the lock of the manager.
LEMMA PacketSteps == PacketInv /\ [RaopNext]_raopVars => PacketInv'
<1> SUFFICES ASSUME PacketInv, [RaopNext]_raopVars PROVE PacketShape' /\ KeptPackets'
  BY OneInSteps DEF PacketInv
<1> USE DEF PacketInv
<1>1. ASSUME NEW s \in Streams, Enters(s) PROVE PacketShape' /\ KeptPackets'
  <2>1. UNCHANGED packetVars /\ streams' = [streams EXCEPT ![s].at = "connect"] /\ streams[s].at = "none"
    BY <1>1 DEF Enters, Moves
  <2>2. \A t \in Streams : streams'[t].at = streams[t].at \/ (t = s /\ streams'[t].at = "connect")
    BY <2>1 DEF OneIn, Progress
  <2>3. \A t \in Streams : streams[t].at = "data" => streams'[t].at = "data"
    BY <2>1, <2>2
  <2> QED BY <2>1, <2>2, <2>3 DEF packetVars, PacketShape, KeptPackets
<1>2. ASSUME NEW s \in Streams, ConnectsStream(s) PROVE PacketShape' /\ KeptPackets'
  <2>1. UNCHANGED packetVars /\ streams' = [streams EXCEPT ![s].at = "initialize"] /\ streams[s].at = "connect"
    BY <1>2 DEF ConnectsStream, Moves
  <2>2. \A t \in Streams : streams'[t].at = streams[t].at \/ (t = s /\ streams'[t].at = "initialize")
    BY <2>1 DEF OneIn, Progress
  <2>3. \A t \in Streams : streams[t].at = "data" => streams'[t].at = "data"
    BY <2>1, <2>2
  <2> QED BY <2>1, <2>2, <2>3 DEF packetVars, PacketShape, KeptPackets
<1>3. ASSUME NEW s \in Streams, Initializes(s) PROVE PacketShape' /\ KeptPackets'
  <2>1. /\ backlog' = NoPackets /\ UNCHANGED <<sender, request, answer>>
        /\ streams' = [streams EXCEPT ![s].at = "open"] /\ streams[s].at = "initialize"
    BY <1>3 DEF Initializes, Moves
  <2>2. \A t \in Streams : t # s => streams[t].at = "none"
    BY <2>1, AloneIn
  <2>3. \A t \in Streams : streams'[t].at \in {"none", "open"}
    BY <2>1, <2>2 DEF OneIn, Progress
  <2>4. answer = NoAnswer /\ request = NoRequest
    BY <2>1, <2>2 DEF KeptPackets
  <2> QED BY <2>1, <2>3, <2>4 DEF PacketShape, KeptPackets
<1>4. ASSUME NEW s \in Streams, Opens(s) PROVE PacketShape' /\ KeptPackets'
  <2>1. PICK first \in 0..SeqNumbers - 1 : sender' = [first |-> first, sent |-> 0]
    BY <1>4 DEF Opens
  <2>2. /\ UNCHANGED <<backlog, request, answer>>
        /\ streams' = [streams EXCEPT ![s].at = "record"] /\ streams[s].at = "open"
    BY <1>4 DEF Opens, Moves
  <2>3. \A t \in Streams : t # s => streams[t].at = "none"
    BY <2>2, AloneIn
  <2>4. \A t \in Streams : streams'[t].at \in {"none", "record"}
    BY <2>2, <2>3 DEF OneIn, Progress
  <2>5. answer = NoAnswer /\ request = NoRequest /\ backlog = NoPackets
    BY <2>2, <2>3 DEF KeptPackets
  <2>6. Window(backlog', sender'.first, sender'.sent, Backlog)
    BY <2>1, <2>2, <2>5, NothingKept
  <2>7. PacketShape'
    BY <2>1, <2>2 DEF PacketShape
  <2> QED BY <2>2, <2>4, <2>5, <2>6, <2>7 DEF KeptPackets
<1>5. ASSUME NEW s \in Streams, StartsData(s) PROVE PacketShape' /\ KeptPackets'
  <2>1. UNCHANGED packetVars /\ streams[s].at = "record"
        /\ streams' = [streams EXCEPT ![s] = [at |-> "data", playing |-> TRUE]]
    BY <1>5 DEF StartsData
  <2>2. \A t \in Streams : streams'[t].at = streams[t].at \/ (t = s /\ streams'[t].at = "data")
    BY <2>1 DEF OneIn, Progress
  <2>3. \A t \in Streams : streams[t].at = "data" => streams'[t].at = "data"
    BY <2>1, <2>2
  <2>4. Window(backlog, sender.first, sender.sent, Backlog)
    BY <2>1 DEF KeptPackets
  <2> QED BY <2>1, <2>2, <2>3, <2>4 DEF packetVars, PacketShape, KeptPackets
<1>6. ASSUME NEW s \in Streams, Finishes(s) PROVE PacketShape' /\ KeptPackets'
  <2>1. /\ streams[s].at \in {"record", "data"} /\ sender' = sender
        /\ backlog' = NoPackets /\ request' = NoRequest /\ answer' = NoAnswer
        /\ streams' = [streams EXCEPT ![s] = [at |-> "teardown", playing |-> FALSE]]
    BY <1>6 DEF Finishes
  <2>2. \A t \in Streams : t # s => streams[t].at = "none"
    BY <2>1, AloneIn
  <2>3. \A t \in Streams : streams'[t].at \in {"none", "teardown"}
    BY <2>1, <2>2 DEF OneIn, Progress
  <2> QED BY <2>1, <2>3, Sizes DEF PacketShape, KeptPackets, NoRequest, NoAnswer
<1>7. ASSUME NEW s \in Streams, Releases(s) PROVE PacketShape' /\ KeptPackets'
  <2>1. /\ streams[s].at \in {"connect", "initialize", "open", "teardown"}
        /\ UNCHANGED packetVars /\ streams' = [streams EXCEPT ![s] = Idle]
    BY <1>7 DEF Releases
  <2>2. \A t \in Streams : streams'[t].at = streams[t].at \/ (t = s /\ streams'[t].at = "none")
    BY <2>1 DEF OneIn, Progress, Idle
  <2>3. \A t \in Streams : streams[t].at = "data" => streams'[t].at = "data"
    BY <2>1, <2>2
  <2> QED BY <2>1, <2>2, <2>3 DEF packetVars, PacketShape, KeptPackets
<1>8. ASSUME NEW s \in Streams, Drops(s) PROVE PacketShape' /\ KeptPackets'
  <2>1. /\ streams[s].at # "none" /\ sender' = sender
        /\ backlog' = NoPackets /\ request' = NoRequest /\ answer' = NoAnswer
        /\ streams' = [streams EXCEPT ![s] = Idle]
    BY <1>8 DEF Drops
  <2>2. \A t \in Streams : t # s => streams[t].at = "none"
    BY <2>1, AloneIn
  <2>3. \A t \in Streams : streams'[t].at = "none"
    BY <2>1, <2>2 DEF OneIn, Progress, Idle
  <2> QED BY <2>1, <2>3, Sizes DEF PacketShape, KeptPackets, NoRequest, NoAnswer
<1>9. CASE StopStream
  <2>1. UNCHANGED packetVars /\ \A t \in Streams : streams'[t].at = streams[t].at
    BY <1>9 DEF StopStream, OneIn, Progress
  <2> QED BY <2>1 DEF packetVars, PacketShape, KeptPackets
<1>10. ASSUME NEW s \in Streams, SendPacket(s) PROVE PacketShape' /\ KeptPackets'
  <2> DEFINE first == sender.first
             sent == sender.sent
  <2>1. first \in 0..SeqNumbers - 1 /\ first \in Nat /\ sent \in Nat
    BY Sizes DEF PacketShape
  <2>2. /\ streams[s].at = "data" /\ UNCHANGED <<streams, request>> /\ answer' = NoAnswer
        /\ sender' = [sender EXCEPT !.sent = @ + 1]
        /\ backlog' = Insert(backlog, NumberOf(sent + 1), sent + 1)
    BY <1>10 DEF SendPacket
  <2>3. sender' = [first |-> first, sent |-> sent + 1]
    BY <2>2 DEF PacketShape
  <2>4. NumberOf(sent + 1) = Number(first, sent + 1)
    BY DEF NumberOf, Number
  <2>5. Window(backlog, first, sent, Backlog)
    BY <2>2 DEF KeptPackets
  <2> HIDE DEF first, sent
  <2>6. Window(backlog', first, sent + 1, Backlog)
    BY <2>1, <2>2, <2>4, <2>5, InsertKeeps
  <2>7. sender'.first = first /\ sender'.sent = sent + 1
    BY <2>3
  <2>8. PacketShape'
    BY <2>1, <2>2, <2>3, Sizes DEF PacketShape, NoAnswer
  <2>9. Window(backlog', sender'.first, sender'.sent, Backlog)
    BY <2>6, <2>7
  <2>10. \A t \in Streams : streams'[t].at # "open"
    <3>1. \A t \in Streams : t # s => streams[t].at = "none"
      BY <2>2, AloneIn
    <3> QED BY <2>2, <3>1
  <2>11. KeptPackets'
    BY <2>2, <2>9, <2>10 DEF KeptPackets
  <2> QED BY <2>8, <2>11
<1>11. ASSUME NEW number \in 0..SeqNumbers - 1, NEW lost \in Losses, Requested(number, lost)
       PROVE  PacketShape' /\ KeptPackets'
  <2>1. lost \in Nat /\ (IF lost < Backlog THEN lost ELSE Backlog) \in Nat
    BY RaopAssumption
  <2>2. PacketShape'
    BY <1>11, <2>1 DEF Requested, PacketShape
  <2>3. KeptPackets'
    BY <1>11 DEF Requested, KeptPackets
  <2> QED BY <2>2, <2>3
<1>12. CASE Retransmit
  <2> DEFINE number == request.number
             packet == IF number \in DOMAIN backlog.items THEN backlog.items[number] ELSE 0
  <2>1. number \in 0..SeqNumbers - 1 /\ request.left > 0
    BY <1>12 DEF PacketShape, Retransmit
  <2>2. PICK s \in Streams : streams[s].at = "data"
    BY <2>1 DEF KeptPackets, NoRequest
  <2>3. /\ UNCHANGED <<streams, sender, backlog>>
        /\ answer' = [number |-> number, packet |-> packet]
        /\ request' = IF request.left = 1 THEN NoRequest
                      ELSE [number |-> (number + 1) % SeqNumbers, left |-> request.left - 1]
    BY <1>12 DEF Retransmit
  <2>4. packet = Right(sender.first, sender.sent, number)
    <3>1. Window(backlog, sender.first, sender.sent, Backlog)
      BY <2>2 DEF KeptPackets
    <3>2. sender.first \in Nat /\ sender.sent \in Nat
      BY Sizes DEF PacketShape
    <3> QED BY <3>1, <3>2, LookupIsRight
  <2>5. (number + 1) % SeqNumbers \in 0..SeqNumbers - 1
    <3>1. number + 1 \in Nat
      BY <2>1, Sizes
    <3> QED BY <3>1, NumberInRange, Sizes
  <2> HIDE DEF packet, number
  <2>6. answer'.number = number /\ answer'.packet = packet
    BY <2>3
  <2>7. PacketShape'
    <3>1. request.left \in Nat
      BY DEF PacketShape
    <3>2. request' \in [number : 0..SeqNumbers - 1, left : Nat]
      BY <2>1, <2>3, <2>5, <3>1, Sizes DEF NoRequest
    <3> QED BY <2>1, <2>3, <2>6, <3>2, Sizes DEF PacketShape
  <2>8. KeptPackets'
    BY <2>2, <2>3, <2>4, <2>6 DEF KeptPackets
  <2> QED BY <2>7, <2>8
<1>13. CASE UNCHANGED raopVars
  BY <1>13 DEF raopVars, PacketShape, KeptPackets
<1> QED BY <1>1, <1>2, <1>3, <1>4, <1>5, <1>6, <1>7, <1>8, <1>9, <1>10, <1>11, <1>12, <1>13 DEF RaopNext

\* manager.rs:296: with any number of callers streaming, stopping and dropping their futures at any
\* await, what the accessors see belongs to one stream, the one that holds the lock if there is one.
THEOREM OneStreamAtATime == RaopSpec => []OneStreamsState
  BY OneInStarts, OneInSteps, OneInSuffices, PTL DEF RaopSpec

\* net/control.rs:194: whatever the width of the numbers and the size of the backlog below it, a
\* receiver that asks for a number gets the packet that had it among the last ones, or nothing if
\* none had: never a packet from before the numbers wrapped.
THEOREM RetransmitsTheRightPacket == RaopSpec => []RetransmitAnswers
<1>1. PacketInv => RetransmitAnswers
  BY RightIsKept DEF PacketInv, KeptPackets, RetransmitAnswers
<1> QED BY <1>1, PacketStarts, PacketSteps, PTL DEF RaopSpec

\* The fifo is empty or holds the last packets of the sender.
Fifo == backlog = NoPackets \/ Window(backlog, sender.first, sender.sent, Backlog)

\* A window has the numbers of its order in its map, and no more than fit.
LEMMA WindowTypes ==
  ASSUME NEW fifo, NEW first \in Nat, NEW sent \in Nat, Window(fifo, first, sent, Backlog)
  PROVE  DOMAIN fifo.items = {fifo.order[k] : k \in DOMAIN fifo.order} /\ Len(fifo.order) <= Backlog
<1> DEFINE room == Room(sent, Backlog)
<1>1. room \in Nat /\ room <= Backlog /\ room <= sent /\ (room = sent \/ room = Backlog)
  BY Sizes DEF Room
<1>2. Len(fifo.order) = room /\ DOMAIN fifo.order = 1..room
  BY DEF Window
<1>3. \A k \in 1..room : fifo.order[k] = Number(first, sent - room + k)
  BY DEF Window
<1>4. DOMAIN fifo.items = {Number(first, n) : n \in {m \in 1..sent : m + Backlog > sent}}
  BY DEF Window
<1> HIDE DEF room
<1>5. ASSUME NEW n \in 1..sent, n + Backlog > sent
      PROVE  \E k \in 1..room : fifo.order[k] = Number(first, n)
  <2>1. n - (sent - room) \in 1..room /\ sent - room + (n - (sent - room)) = n
    BY <1>1, <1>5, Sizes
  <2> QED BY <1>3, <2>1
<1>6. ASSUME NEW k \in 1..room
      PROVE  \E n \in 1..sent : n + Backlog > sent /\ fifo.order[k] = Number(first, n)
  <2>1. sent - room + k \in 1..sent /\ (sent - room + k) + Backlog > sent
    BY <1>1, <1>6, Sizes
  <2> QED BY <1>3, <2>1
<1>7. DOMAIN fifo.items \subseteq {fifo.order[k] : k \in DOMAIN fifo.order}
  BY ONLY <1>2, <1>4, <1>5
<1>8. {fifo.order[k] : k \in DOMAIN fifo.order} \subseteq DOMAIN fifo.items
  BY ONLY <1>2, <1>4, <1>6
<1>9. Len(fifo.order) <= Backlog
  BY ONLY <1>1, <1>2
<1> QED BY ONLY <1>7, <1>8, <1>9

\* Only a stream that records or sends has packets in the fifo.
LEMMA FifoStays == PacketInv /\ Fifo /\ [RaopNext]_raopVars /\ PacketInv' => Fifo'
<1> SUFFICES ASSUME PacketInv, Fifo, [RaopNext]_raopVars, PacketInv' PROVE Fifo'
  OBVIOUS
<1>1. ASSUME UNCHANGED <<backlog, sender>> PROVE Fifo'
  BY <1>1 DEF Fifo
<1>2. ASSUME NEW s \in Streams, SendPacket(s) PROVE Fifo'
  <2>1. streams'[s].at = "data"
    BY <1>2 DEF SendPacket
  <2> QED BY <2>1 DEF PacketInv, KeptPackets, Fifo
<1>3. ASSUME NEW s \in Streams, Opens(s) PROVE Fifo'
  <2>1. streams[s].at = "open" /\ backlog' = backlog
    BY <1>3 DEF Opens, Moves
  <2> QED BY <2>1 DEF PacketInv, KeptPackets, Fifo, NoPackets
<1>4. ASSUME backlog' = NoPackets PROVE Fifo'
  BY <1>4 DEF Fifo, NoPackets
<1> QED BY <1>1, <1>2, <1>3, <1>4
    DEF RaopNext, raopVars, packetVars, Enters, ConnectsStream, Initializes, StartsData, Finishes, Releases, Drops,
        StopStream, Requested, Retransmit

\* raop/fifo.rs: the map and the order have the same numbers, and no more than the backlog allows.
THEOREM RaopTypes == RaopSpec => []RaopTypeOK
<1>1. RaopInit => Fifo
  BY DEF RaopInit, Fifo
<1>2. PacketInv /\ Fifo => RaopTypeOK
  <2> SUFFICES ASSUME PacketInv, Fifo PROVE RaopTypeOK
    OBVIOUS
  <2>1. sender.first \in Nat /\ sender.sent \in Nat
    BY Sizes DEF PacketInv, PacketShape
  <2>2. DOMAIN backlog.items = {backlog.order[k] : k \in DOMAIN backlog.order} /\ Len(backlog.order) <= Backlog
    <3>1. CASE backlog = NoPackets
      BY <3>1, Sizes DEF NoPackets
    <3>2. CASE Window(backlog, sender.first, sender.sent, Backlog)
      BY <2>1, <3>2, WindowTypes
    <3> QED BY <3>1, <3>2 DEF Fifo
  <2> QED BY <2>2 DEF PacketInv, OneIn, Progress, RaopTypeOK
<1> QED BY <1>1, <1>2, PacketStarts, PacketSteps, FifoStays, PTL DEF RaopSpec

-----------------------------------------------------------------------------
\* Whoever holds the lock is alone in an exchange; unless one was abandoned, all that is on its
\* way belongs to that exchange.
OnItsWay ==
  LET own == exchanges[lock].cseq
  IN  /\ lock = NoSender => requests = <<>> /\ replies = <<>>
      /\ lock # NoSender /\ exchanges[lock].at = "write" => requests = <<>> /\ replies = <<>>
      /\ lock # NoSender /\ exchanges[lock].at = "read" =>
            \/ requests = <<>> /\ replies = <<>>
            \/ requests = <<own>> /\ replies = <<>>
            \/ requests = <<>> /\ replies = <<own>>

\* Where one exchange is, and the number of its request.
InExchange == [at : {"none", "lock", "write", "read"}, cseq : Nat]

\* The lock is with the one exchange that writes or reads.
RtspInv ==
  /\ lock \in Senders \cup {NoSender}
  /\ cseq \in Nat /\ exchanges \in [Senders -> InExchange] /\ DOMAIN outcome = Senders
  /\ \A t \in Senders :
        lock = t <=> exchanges[t].at \in {"write", "read"}
  /\ abandoned \in BOOLEAN
  /\ ~abandoned => OnItsWay
  /\ AnswersOwnUnlessAbandoned

\* The queues of a connection hold one message at most, and moving it keeps which one it is.
LEMMA OneMessage ==
  ASSUME NEW x
  PROVE  /\ Append(<<>>, x) = <<x>>
         /\ Head(<<x>>) = x /\ Tail(<<x>>) = <<>>
         /\ <<x>> # <<>>
  OBVIOUS

\* Nothing is on its way before the first exchange.
LEMMA RtspStarts == RtspInit => RtspInv
<1> SUFFICES ASSUME RtspInit PROVE RtspInv
  OBVIOUS
<1>1. /\ lock = NoSender /\ cseq = 0 /\ exchanges = [t \in Senders |-> Quiet]
      /\ outcome = [t \in Senders |-> Failed] /\ abandoned = FALSE
      /\ requests = <<>> /\ replies = <<>> /\ NoSender \notin Senders
  BY RtspAssumption DEF RtspInit
<1>2. exchanges \in [Senders -> InExchange]
      /\ \A t \in Senders : lock = t <=> exchanges[t].at \in {"write", "read"}
  BY <1>1 DEF InExchange, Quiet
<1>3. OnItsWay
  BY <1>1 DEF OnItsWay
<1>4. AnswersOwnUnlessAbandoned
  BY <1>1 DEF AnswersOwnUnlessAbandoned, AnswersOwnRequest, Failed
<1> QED BY <1>1, <1>2, <1>3, <1>4 DEF RtspInv

\* A step of one exchange moves it and leaves the others where they are.
LEMMA StepFacts ==
  ASSUME RtspInv, NEW t \in Senders, NEW from, NEW to, Step(t, from, to),
         to \in {"none", "lock", "write", "read"}
  PROVE  /\ exchanges[t].at = from
         /\ exchanges' \in [Senders -> InExchange]
         /\ exchanges'[t] = [at |-> to, cseq |-> exchanges[t].cseq]
         /\ \A u \in Senders : u # t => exchanges'[u] = exchanges[u]
  BY DEF RtspInv, Step, InExchange

\* No step of an exchange, of its future being dropped or of the receiver breaks it.
LEMMA RtspSteps == RtspInv /\ [RtspNext]_rtspVars => RtspInv'
<1> SUFFICES ASSUME RtspInv, [RtspNext]_rtspVars PROVE RtspInv'
  OBVIOUS
<1>1. CASE ReceiverAnswers
  <2>1. requests # <<>> /\ requests' = Tail(requests) /\ replies' = Append(replies, Head(requests))
        /\ UNCHANGED <<lock, cseq, exchanges, outcome, garbled, abandoned>>
    BY <1>1 DEF ReceiverAnswers
  <2>2. ~abandoned => OnItsWay'
    BY <2>1, OneMessage DEF RtspInv, OnItsWay
  <2>3. AnswersOwnUnlessAbandoned'
    BY <2>1 DEF RtspInv, AnswersOwnUnlessAbandoned, AnswersOwnRequest
  <2> QED BY <2>1, <2>2, <2>3 DEF RtspInv
<1>2. ASSUME NEW t \in Senders, Exchange(t) PROVE RtspInv'
  <2>1. /\ exchanges[t].at = "none"
        /\ exchanges' \in [Senders -> InExchange]
        /\ exchanges'[t] = [at |-> "lock", cseq |-> exchanges[t].cseq]
        /\ \A u \in Senders : u # t => exchanges'[u] = exchanges[u]
    BY <1>2, StepFacts DEF Exchange
  <2>2. UNCHANGED <<lock, cseq, requests, replies, outcome, garbled, abandoned>>
    BY <1>2 DEF Exchange
  <2>3. ~abandoned => OnItsWay'
    BY <2>1, <2>2 DEF RtspInv, OnItsWay
  <2>4. \A u \in Senders : lock' = u <=> exchanges'[u].at \in {"write", "read"}
    BY <2>1, <2>2, <2>3, RtspAssumption DEF RtspInv
  <2>5. AnswersOwnUnlessAbandoned'
    BY <2>2 DEF RtspInv, AnswersOwnUnlessAbandoned, AnswersOwnRequest
  <2> QED BY <2>1, <2>2, <2>3, <2>4, <2>5 DEF RtspInv
<1>3. ASSUME NEW t \in Senders, Send(t) PROVE RtspInv'
  <2>1. /\ exchanges' \in [Senders -> InExchange]
        /\ exchanges'[t] = [at |-> "write", cseq |-> cseq]
        /\ \A u \in Senders : u # t => exchanges'[u] = exchanges[u]
    BY <1>3 DEF Send, RtspInv, InExchange
  <2>2. lock = NoSender /\ lock' = t /\ t # NoSender /\ cseq' = cseq + 1
        /\ UNCHANGED <<requests, replies, outcome, garbled, abandoned>>
    BY <1>3, RtspAssumption DEF Send
  <2>3. ~abandoned => OnItsWay'
    BY <2>1, <2>2 DEF RtspInv, OnItsWay
  <2>4. \A u \in Senders : lock' = u <=> exchanges'[u].at \in {"write", "read"}
    BY <2>1, <2>2, <2>3, RtspAssumption DEF RtspInv
  <2>5. AnswersOwnUnlessAbandoned'
    BY <2>2 DEF RtspInv, AnswersOwnUnlessAbandoned, AnswersOwnRequest
  <2> QED BY <2>1, <2>2, <2>3, <2>4, <2>5 DEF RtspInv
<1>4. ASSUME NEW t \in Senders, RequestWritten(t) PROVE RtspInv'
  <2>1. /\ exchanges[t].at = "write"
        /\ exchanges' \in [Senders -> InExchange]
        /\ exchanges'[t] = [at |-> "read", cseq |-> exchanges[t].cseq]
        /\ \A u \in Senders : u # t => exchanges'[u] = exchanges[u]
    BY <1>4, StepFacts DEF RequestWritten
  <2>2. /\ requests' = IF garbled THEN requests ELSE Append(requests, exchanges[t].cseq)
        /\ UNCHANGED <<lock, cseq, replies, outcome, garbled, abandoned>>
    BY <1>4 DEF RequestWritten
  <2>3. lock = t /\ t # NoSender
    BY <2>1, RtspAssumption DEF RtspInv
  <2>4. ~abandoned => requests = <<>> /\ replies = <<>>
    BY <2>1, <2>3 DEF RtspInv, OnItsWay
  <2>5. ~abandoned => /\ requests' = <<>> \/ requests' = <<exchanges'[t].cseq>>
                      /\ replies' = <<>>
    BY <2>1, <2>2, <2>4, OneMessage
  <2>6. ~abandoned => OnItsWay'
    BY <2>1, <2>2, <2>3, <2>5 DEF OnItsWay
  <2>7. \A u \in Senders : lock' = u <=> exchanges'[u].at \in {"write", "read"}
    BY <2>1, <2>2, <2>3, <2>6, RtspAssumption DEF RtspInv
  <2>8. AnswersOwnUnlessAbandoned'
    BY <2>2 DEF RtspInv, AnswersOwnUnlessAbandoned, AnswersOwnRequest
  <2> QED BY <2>1, <2>2, <2>3, <2>6, <2>7, <2>8 DEF RtspInv
<1>5. ASSUME NEW t \in Senders, ReadResponse(t) PROVE RtspInv'
  <2>1. /\ exchanges[t].at = "read"
        /\ exchanges' \in [Senders -> InExchange]
        /\ exchanges'[t] = [at |-> "none", cseq |-> exchanges[t].cseq]
        /\ \A u \in Senders : u # t => exchanges'[u] = exchanges[u]
    BY <1>5, StepFacts DEF ReadResponse
  <2>2. /\ replies # <<>> /\ replies' = Tail(replies) /\ lock' = NoSender
        /\ outcome' = [outcome EXCEPT ![t] = [sent |-> exchanges[t].cseq, echoed |-> Head(replies),
                                              ok |-> TRUE]]
        /\ UNCHANGED <<cseq, requests, garbled, abandoned>>
    BY <1>5 DEF ReadResponse
  <2>3. lock = t /\ t # NoSender
    BY <2>1, RtspAssumption DEF RtspInv
  <2>4. ~abandoned => /\ requests = <<>> /\ replies = <<exchanges[t].cseq>>
    BY <2>1, <2>2, <2>3 DEF RtspInv, OnItsWay
  <2>5. ~abandoned => OnItsWay' /\ Head(replies) = exchanges[t].cseq
    BY <2>2, <2>4, OneMessage DEF OnItsWay
  <2>6. AnswersOwnUnlessAbandoned'
    BY <2>2, <2>5 DEF RtspInv, AnswersOwnUnlessAbandoned, AnswersOwnRequest
  <2>7. \A u \in Senders : lock' = u <=> exchanges'[u].at \in {"write", "read"}
    BY <2>1, <2>2, <2>3, <2>5, <2>6, RtspAssumption DEF RtspInv
  <2> QED BY <2>1, <2>2, <2>3, <2>5, <2>6, RtspAssumption, <2>7 DEF RtspInv
<1>6. ASSUME NEW t \in Senders, Abandons(t) PROVE RtspInv'
  <2>1. /\ exchanges[t].at = "read"
        /\ exchanges' \in [Senders -> InExchange]
        /\ exchanges'[t] = [at |-> "none", cseq |-> exchanges[t].cseq]
        /\ \A u \in Senders : u # t => exchanges'[u] = exchanges[u]
    BY <1>6, StepFacts DEF Abandons
  <2>2. abandoned' = TRUE /\ lock' = NoSender /\ DOMAIN outcome' = Senders /\ cseq' = cseq
    BY <1>6 DEF Abandons, RtspInv
  <2>3. \A u \in Senders : lock' = u <=> exchanges'[u].at \in {"write", "read"}
    BY <2>1, <2>2, RtspAssumption DEF RtspInv
  <2>4. AnswersOwnUnlessAbandoned'
    BY <2>2 DEF RtspInv, AnswersOwnUnlessAbandoned, AnswersOwnRequest
  <2> QED BY <2>1, <2>2, RtspAssumption, <2>3, <2>4 DEF RtspInv
<1>7. ASSUME NEW t \in Senders, DropsInWrite(t) PROVE RtspInv'
  <2>1. /\ exchanges[t].at = "write"
        /\ exchanges' \in [Senders -> InExchange]
        /\ exchanges'[t] = [at |-> "none", cseq |-> exchanges[t].cseq]
        /\ \A u \in Senders : u # t => exchanges'[u] = exchanges[u]
    BY <1>7, StepFacts DEF DropsInWrite
  <2>2. /\ lock' = NoSender /\ outcome' = [outcome EXCEPT ![t] = Failed]
        /\ abandoned' = TRUE \/ (abandoned' = abandoned /\ requests' = requests)
        /\ replies' = replies /\ cseq' = cseq
    BY <1>7 DEF DropsInWrite
  <2>3. lock = t /\ t # NoSender
    BY <2>1, RtspAssumption DEF RtspInv
  <2>4. ~abandoned' => OnItsWay'
    BY <2>1, <2>2, <2>3 DEF RtspInv, OnItsWay
  <2>5. AnswersOwnUnlessAbandoned'
    BY <2>2 DEF RtspInv, Failed, AnswersOwnUnlessAbandoned, AnswersOwnRequest
  <2>6. \A u \in Senders : lock' = u <=> exchanges'[u].at \in {"write", "read"}
    BY <2>1, <2>2, <2>3, <2>4, <2>5, RtspAssumption DEF RtspInv
  <2> QED BY <2>1, <2>2, <2>3, <2>4, <2>5, RtspAssumption, <2>6 DEF RtspInv
<1>8. ASSUME NEW t \in Senders, DropsInQueue(t) PROVE RtspInv'
  <2>1. /\ exchanges[t].at = "lock"
        /\ exchanges' \in [Senders -> InExchange]
        /\ exchanges'[t] = [at |-> "none", cseq |-> exchanges[t].cseq]
        /\ \A u \in Senders : u # t => exchanges'[u] = exchanges[u]
    BY <1>8, StepFacts DEF DropsInQueue
  <2>2. /\ outcome' = [outcome EXCEPT ![t] = Failed]
        /\ UNCHANGED <<lock, cseq, requests, replies, garbled, abandoned>>
    BY <1>8 DEF DropsInQueue
  <2>3. ~abandoned => OnItsWay'
    BY <2>1, <2>2 DEF RtspInv, OnItsWay
  <2>4. AnswersOwnUnlessAbandoned'
    BY <2>2 DEF RtspInv, Failed, AnswersOwnUnlessAbandoned, AnswersOwnRequest
  <2>5. \A u \in Senders : lock' = u <=> exchanges'[u].at \in {"write", "read"}
    BY <2>1, <2>2, <2>3, <2>4, RtspAssumption DEF RtspInv
  <2> QED BY <2>1, <2>2, <2>3, <2>4, <2>5 DEF RtspInv
<1>9. CASE UNCHANGED rtspVars
  BY <1>9 DEF rtspVars, RtspInv, OnItsWay, AnswersOwnUnlessAbandoned, AnswersOwnRequest
<1> QED BY <1>1, <1>2, <1>3, <1>4, <1>5, <1>6, <1>7, <1>8, <1>9 DEF RtspNext

\* raop/connection.rs:8, "the connection answers strictly one request at a time": with any number of
\* tasks at one connection, and any of them dropped while it queues or writes, an exchange that
\* returns a response returns its own, until one is given up after its request went out.
THEOREM AnswersAreOwnUnlessAbandoned == RtspSpec => []AnswersOwnUnlessAbandoned
<1>1. RtspInv => AnswersOwnUnlessAbandoned
  BY DEF RtspInv
<1> QED BY <1>1, RtspStarts, RtspSteps, PTL DEF RtspSpec

\* rtsp.rs: one exchange at a time is past the lock, whoever gives up where, and every request has had
\* a CSeq of its own.
THEOREM RtspTypes == RtspSpec => []RtspTypeOK
<1> DEFINE Few == cseq <= MaxExchanges
<1>1. RtspInit => Few
  BY RtspAssumption DEF RtspInit
<1>2. RtspInv /\ Few /\ [RtspNext]_rtspVars => Few'
  BY RtspAssumption
  DEF RtspInv, RtspNext, rtspVars, ReceiverAnswers, Exchange, Send, RequestWritten, ReadResponse, Abandons,
      DropsInWrite, DropsInQueue
<1>3. RtspInv /\ Few => RtspTypeOK
  BY RtspAssumption DEF RtspInv, InExchange, RtspTypeOK
<1> HIDE DEF Few
<1> QED BY <1>1, <1>2, <1>3, RtspStarts, RtspSteps, PTL DEF RtspSpec
-----------------------------------------------------------------------------
\* The two bounded queues of the data stream, the loop and the actor.

\* Nothing is queued before the stream is up.
LEMMA StreamTypesStart == DataStreamInit => DataStreamTypeOK
  BY DataStreamAssumption DEF DataStreamInit, DataStreamTypeOK

\* A step of the loop or the actor leaves the queues within their depths, and frames in the buffer
\* only while they are handled.
LEMMA StreamTypesStep == DataStreamTypeOK /\ [DataStreamNext]_streamVars => DataStreamTypeOK'
<1> SUFFICES ASSUME DataStreamTypeOK, [DataStreamNext]_streamVars PROVE DataStreamTypeOK'
  OBVIOUS
<1> USE DataStreamAssumption DEF DataStreamTypeOK
<1>1. CASE TakeOutbound
  BY <1>1 DEF TakeOutbound, CanTakeOutbound
<1>2. CASE WriteOutbound
  BY <1>2 DEF WriteOutbound, CanWrite
<1>3. CASE ReadFrames
  BY <1>3 DEF ReadFrames, CanRead
<1>4. CASE DrainFrame
  BY <1>4 DEF DrainFrame, CanDrain
<1>5. CASE LoopEnds
  BY <1>5 DEF LoopEnds
<1>6. CASE ActorReceives
  BY <1>6 DEF ActorReceives, CanReceive
<1>7. CASE ActorQueues
  BY <1>7 DEF ActorQueues, CanQueue
<1>8. CASE ActorSends \/ SendTimesOut \/ DeviceStalls
  BY <1>8 DEF ActorSends, SendTimesOut, DeviceStalls
<1>9. CASE DeviceSends
  BY <1>9 DEF DeviceSends
<1>10. CASE UNCHANGED streamVars
  BY <1>10 DEF streamVars
<1> QED
  BY <1>1, <1>2, <1>3, <1>4, <1>5, <1>6, <1>7, <1>8, <1>9, <1>10
  DEF DataStreamNext, LoopMoves, ActorMoves

\* A loop with a frame in hand waits for the device alone, and whoever waits for room in the outbound
\* queue waits for a loop that is free to make some.
LEMMA SomeoneGoesOn == DataStreamTypeOK => NoCircularWait
  BY DataStreamAssumption
  DEF DataStreamTypeOK, NoCircularWait, CanTakeOutbound, CanWrite, CanDrain, CanQueue

\* What the loop holds and the queues do not exceed, and who ended, for any depths (INBOUND_QUEUE_DEPTH,
\* OUTBOUND_QUEUE_DEPTH).
THEOREM StreamTypes == DataStreamSpec => []DataStreamTypeOK
  BY StreamTypesStart, StreamTypesStep, PTL DEF DataStreamSpec

\* data_stream.rs:361: for any depths of the two queues and any order of frames and calls, the loop
\* and the actor never both wait while the device reads.
THEOREM StreamNeverDeadlocks == DataStreamSpec => []NoCircularWait
  BY StreamTypes, SomeoneGoesOn, PTL
=============================================================================
