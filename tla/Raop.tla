-------------------------------- MODULE Raop --------------------------------
(* RAOP streaming (pyatv-proto-airplay: raop/manager.rs, raop/stream.rs,    *)
(* raop/stream/data.rs, raop/fifo.rs, raop/net/control.rs). Callers stream  *)
(* through one manager, which lets one in at a time and keeps what the      *)
(* synchronous accessors see of it; anyone may stop it, and a caller may    *)
(* drop its future at any await. Packets are kept by their 16-bit number to *)
(* answer the receiver's requests for lost ones.                            *)
EXTENDS Naturals, Sequences, FiniteSets

CONSTANTS
    Streams,      \* the callers of stream()
    NoStream,
    SeqNumbers,   \* 2^16
    Backlog,      \* PACKET_BACKLOG_SIZE
    MaxPackets,   \* bound: packets of one source
    Losses        \* the lengths of retransmit requests

ASSUME RaopAssumption ==
    /\ NoStream \notin Streams
    /\ SeqNumbers \in Nat /\ Backlog \in 1..SeqNumbers - 1
    /\ MaxPackets \in Nat /\ Losses \subseteq Nat

VARIABLES
    streams,   \* per caller how far its stream is: [at, playing]
    guard,     \* who holds RaopPlaybackManager.streaming
    shared,    \* SharedState: [acquired, connection, stop, info], the last three by owner
    sender,    \* the stream's packets: [first number, packets sent]
    backlog,   \* PacketFifo: the packet kept under each number, and the numbers in order
    request,   \* what is left of the receiver's request: [number, left]
    answer     \* the number looked up last, and its packet, 0 if there was none

raopVars == <<streams, guard, shared, sender, backlog, request, answer>>

Idle == [at |-> "none", playing |-> FALSE]
Unused == [acquired |-> FALSE, connection |-> NoStream, stop |-> NoStream, info |-> NoStream]
NoPackets == [items |-> <<>>, order |-> <<>>]
NoRequest == [number |-> 0, left |-> 0]
NoAnswer == [number |-> SeqNumbers, packet |-> 0]

RaopInit ==
    /\ streams = [s \in Streams |-> Idle]
    /\ guard = NoStream
    /\ shared = Unused
    /\ sender = [first |-> 0, sent |-> 0]
    /\ backlog = NoPackets
    /\ request = NoRequest /\ answer = NoAnswer

packetVars == <<sender, backlog, request, answer>>

Moves(s, from, to) ==
    /\ streams[s].at = from
    /\ streams' = [streams EXCEPT ![s].at = to]
-----------------------------------------------------------------------------
(* Mutant: only the lock keeps a second stream out.                         *)
MayAlways == TRUE

(* stream(): try_lock, then acquire; either refuses at once.                *)
MayAcquire == ~shared.acquired

Enters(s) ==
    /\ guard = NoStream /\ MayAcquire
    /\ Moves(s, "none", "connect")
    /\ guard' = s
    /\ shared' = [shared EXCEPT !.acquired = TRUE]
    /\ UNCHANGED packetVars

ConnectsStream(s) ==
    /\ Moves(s, "connect", "initialize")
    /\ shared' = [shared EXCEPT !.connection = s]
    /\ UNCHANGED <<guard, packetVars>>

(* initialize binds the control socket; then the stop handle is published.  *)
Initializes(s) ==
    /\ Moves(s, "initialize", "open")
    /\ shared' = [shared EXCEPT !.stop = s]
    /\ backlog' = NoPackets
    /\ UNCHANGED <<guard, sender, request, answer>>

(* The source is open and the volume agreed on: send_audio draws a sequence *)
(* number and sends the metadata.                                           *)
Opens(s) ==
    /\ Moves(s, "open", "record")
    /\ \E first \in 0..SeqNumbers - 1 : sender' = [first |-> first, sent |-> 0]
    /\ shared' = [shared EXCEPT !.info = s]
    /\ UNCHANGED <<guard, backlog, request, answer>>

(* RECORD and FLUSH are answered: stream_data raises the flag.              *)
StartsData(s) ==
    /\ streams[s].at = "record"
    /\ streams' = [streams EXCEPT ![s] = [at |-> "data", playing |-> TRUE]]
    /\ UNCHANGED <<guard, shared, packetVars>>

(* finish(): whatever ended the session, after the source was open.         *)
Finishes(s) ==
    /\ streams[s].at \in {"record", "data"}
    /\ streams' = [streams EXCEPT ![s] = [at |-> "teardown", playing |-> FALSE]]
    /\ backlog' = NoPackets /\ request' = NoRequest /\ answer' = NoAnswer
    /\ UNCHANGED <<guard, shared, sender>>

(* stopped() and release(): TEARDOWN was answered or failed, or an error    *)
(* came before there was anything to finish.                                *)
Releases(s) ==
    /\ streams[s].at \in {"connect", "initialize", "open", "teardown"}
    /\ streams' = [streams EXCEPT ![s] = Idle]
    /\ guard' = NoStream
    /\ shared' = Unused
    /\ UNCHANGED packetVars

(* The caller drops the future of stream(): the lock goes, release() is     *)
(* never reached.                                                           *)
Drops(s) ==
    /\ streams[s].at # "none"
    /\ streams' = [streams EXCEPT ![s] = Idle]
    /\ guard' = NoStream
    /\ backlog' = NoPackets /\ request' = NoRequest /\ answer' = NoAnswer
    /\ UNCHANGED <<shared, sender>>

(* stop(), pause() and close() of the facade.                               *)
StopStream ==
    /\ shared.stop # NoStream
    /\ streams' = [streams EXCEPT ![shared.stop].playing = FALSE]
    /\ UNCHANGED <<guard, shared, packetVars>>
-----------------------------------------------------------------------------
(* PacketFifo::insert refuses a number it has, and otherwise makes room by  *)
(* dropping the packet that came first.                                     *)

Without(items, number) == [q \in DOMAIN items \ {number} |-> items[q]]

(* Mutant: the room is made at the other end.                               *)
EvictNewest(fifo) ==
    LET last == fifo.order[Len(fifo.order)]
    IN  [items |-> Without(fifo.items, last), order |-> SubSeq(fifo.order, 1, Len(fifo.order) - 1)]

Evict(fifo) ==
    [items |-> Without(fifo.items, Head(fifo.order)), order |-> Tail(fifo.order)]

Insert(fifo, number, packet) ==
    LET room == IF Len(fifo.order) + 1 > Backlog THEN Evict(fifo) ELSE fifo
    IN  IF number \in DOMAIN fifo.items THEN fifo
        ELSE [items |-> [q \in DOMAIN room.items \cup {number} |->
                            IF q = number THEN packet ELSE room.items[q]],
              order |-> Append(room.order, number)]

NumberOf(packet) == (sender.first + packet - 1) % SeqNumbers

SendPacket(s) ==
    /\ streams[s].at = "data" /\ streams[s].playing
    /\ sender.sent < MaxPackets
    /\ sender' = [sender EXCEPT !.sent = @ + 1]
    /\ backlog' = Insert(backlog, NumberOf(sender.sent + 1), sender.sent + 1)
    /\ answer' = NoAnswer
    /\ UNCHANGED <<streams, guard, shared, request>>

(* receive_loop: a request longer than the backlog is cut; then one number  *)
(* after the other is looked up, under the lock, and its packet sent.       *)
Requested(first, lost) ==
    /\ request = NoRequest
    /\ \E s \in Streams : streams[s].at = "data"
    /\ request' = [number |-> first, left |-> IF lost < Backlog THEN lost ELSE Backlog]
    /\ UNCHANGED <<streams, guard, shared, sender, backlog, answer>>

Retransmit ==
    LET number == request.number
    IN  /\ request.left > 0
        /\ answer' = [number |-> number,
                      packet |-> IF number \in DOMAIN backlog.items THEN backlog.items[number] ELSE 0]
        /\ request' = IF request.left = 1 THEN NoRequest
                      ELSE [number |-> (number + 1) % SeqNumbers, left |-> request.left - 1]
        /\ UNCHANGED <<streams, guard, shared, sender, backlog>>

RaopNext ==
    \/ \E s \in Streams :
          \/ Enters(s) \/ ConnectsStream(s) \/ Initializes(s) \/ Opens(s) \/ StartsData(s)
          \/ SendPacket(s) \/ Finishes(s) \/ Releases(s) \/ Drops(s)
    \/ StopStream
    \/ \E first \in 0..SeqNumbers - 1, lost \in Losses : Requested(first, lost)
    \/ Retransmit

RaopSpec == RaopInit /\ [][RaopNext]_raopVars
-----------------------------------------------------------------------------
(* The values the variables take.                                           *)
RaopTypeOK ==
    /\ \A s \in Streams : streams[s].at \in {"none", "connect", "initialize", "open", "record",
                                             "data", "teardown"}
    /\ {guard, shared.connection, shared.stop, shared.info} \subseteq Streams \cup {NoStream}
    /\ DOMAIN backlog.items = {backlog.order[k] : k \in DOMAIN backlog.order}
    /\ Len(backlog.order) <= Backlog

(* manager.rs:296: what the accessors see belongs to one stream, through    *)
(* refusals, errors and futures dropped at any await: a stop() or a volume  *)
(* never goes to a stream other than the one whose connection is up.        *)
OneStreamsState ==
    LET seen == {shared.connection, shared.stop, shared.info} \ {NoStream}
    IN  /\ Cardinality(seen) <= 1
        /\ seen # {} => shared.acquired
        /\ guard # NoStream => seen \subseteq {guard}

(* net/control.rs:194: whatever number a receiver asks for, it gets the     *)
(* packet of that number among the last Backlog packets, or nothing: across *)
(* the wrap of the numbers and while packets are sent in between, never an  *)
(* older packet of that number, and never nothing for a packet kept.        *)
RetransmitAnswers ==
    answer # NoAnswer =>
        LET kept == {n \in 1..sender.sent : n + Backlog > sender.sent
                                             /\ NumberOf(n) = answer.number}
        IN  answer.packet = IF kept = {} THEN 0 ELSE CHOOSE n \in kept : TRUE
=============================================================================
