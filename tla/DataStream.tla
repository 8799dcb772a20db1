----------------------------- MODULE DataStream -----------------------------
(* The data stream of an AirPlay 2 session and the MRP actor that talks     *)
(* through it (pyatv-proto-airplay: ap2/data_stream.rs, ap2/event_channel.rs*)
(* has the same loop without the outbound half; pyatv: tunnel.rs). One task *)
(* reads the socket, acknowledges what it read and offers the payloads to a *)
(* bounded queue; it also writes what the actor puts into another bounded   *)
(* queue. The actor receives and sends in one task too.                     *)
EXTENDS Naturals

CONSTANTS
    InboundDepth, OutboundDepth,   \* INBOUND_QUEUE_DEPTH and OUTBOUND_QUEUE_DEPTH
    MaxArriving                    \* bound: frames in the socket

ASSUME DataStreamAssumption ==
    {InboundDepth, OutboundDepth, MaxArriving} \subseteq Nat \ {0}

VARIABLES
    loop,       \* where run() is: select, write, drain, ended
    arriving,   \* frames of the device the loop has not read
    buffer,     \* frames it has read and not handled
    inbound, outbound,   \* payloads in the queues
    device,     \* whether the device reads what is written to it
    actor       \* where the MRP actor is: serve, send, ended

streamVars == <<loop, arriving, buffer, inbound, outbound, device, actor>>

DataStreamInit ==
    /\ loop = "select" /\ arriving = 0 /\ buffer = 0
    /\ inbound = 0 /\ outbound = 0
    /\ device = "reads"
    /\ actor = "serve"
-----------------------------------------------------------------------------
(* select!: a queued frame is written, or what has arrived is read.         *)
CanTakeOutbound == loop = "select" /\ outbound > 0
CanWrite == loop = "write" /\ device = "reads"
CanRead == loop = "select" /\ arriving > 0

TakeOutbound ==
    /\ CanTakeOutbound
    /\ outbound' = outbound - 1
    /\ loop' = "write"
    /\ UNCHANGED <<arriving, buffer, inbound, device, actor>>

WriteOutbound ==
    /\ CanWrite
    /\ loop' = "select"
    /\ UNCHANGED <<arriving, buffer, inbound, outbound, device, actor>>

ReadFrames ==
    /\ CanRead
    /\ \E n \in 1..arriving : buffer' = n /\ arriving' = arriving - n
    /\ loop' = "drain"
    /\ UNCHANGED <<inbound, outbound, device, actor>>

(* Mutant: the payload is handed on before the loop goes on.                *)
CanDrainIfRoom == loop = "drain" /\ device = "reads" /\ inbound < InboundDepth

(* The acknowledgement is written to the device.                            *)
CanDrain == loop = "drain" /\ device = "reads"

(* drain: the acknowledgement is written, then the payload is offered, and  *)
(* dropped if the queue is full.                                            *)
DrainFrame ==
    /\ CanDrain
    /\ inbound' = IF inbound < InboundDepth THEN inbound + 1 ELSE inbound
    /\ buffer' = buffer - 1
    /\ loop' = IF buffer = 1 THEN "select" ELSE "drain"
    /\ UNCHANGED <<arriving, outbound, device, actor>>

(* End of stream, an error of the socket, or close() from any task.         *)
LoopEnds ==
    /\ loop # "ended"
    /\ loop' = "ended"
    /\ buffer' = 0
    /\ UNCHANGED <<arriving, inbound, outbound, device, actor>>

LoopMoves == TakeOutbound \/ WriteOutbound \/ ReadFrames \/ DrainFrame
-----------------------------------------------------------------------------
(* The actor through the tunnel's channel: it is told of the end once the   *)
(* queue is empty and the loop gone.                                        *)
CanReceive == actor = "serve" /\ (inbound > 0 \/ loop = "ended")

ActorReceives ==
    /\ CanReceive
    /\ \/ inbound > 0 /\ inbound' = inbound - 1 /\ UNCHANGED actor
       \/ inbound = 0 /\ loop = "ended" /\ actor' = "ended" /\ UNCHANGED inbound
    /\ UNCHANGED <<loop, arriving, buffer, outbound, device>>

ActorSends ==
    /\ actor = "serve"
    /\ actor' = "send"
    /\ UNCHANGED <<loop, arriving, buffer, inbound, outbound, device>>

(* send_payload waits for room; a loop that is gone is an error.            *)
CanQueue == actor = "send" /\ (outbound < OutboundDepth \/ loop = "ended")

ActorQueues ==
    /\ CanQueue
    /\ \/ /\ loop # "ended"
          /\ outbound' = outbound + 1
          /\ actor' = "serve"
       \/ loop = "ended" /\ actor' = "ended" /\ UNCHANGED outbound
    /\ UNCHANGED <<loop, arriving, buffer, inbound, device>>

(* SEND_TIMEOUT: nothing drained the queue.                                 *)
SendTimesOut ==
    /\ actor = "send" /\ outbound = OutboundDepth
    /\ actor' = "ended"
    /\ UNCHANGED <<loop, arriving, buffer, inbound, outbound, device>>

ActorMoves == ActorReceives \/ ActorQueues

DeviceSends ==
    /\ loop # "ended" /\ arriving < MaxArriving
    /\ arriving' = arriving + 1
    /\ UNCHANGED <<loop, buffer, inbound, outbound, device, actor>>

DeviceStalls ==
    /\ device = "reads"
    /\ device' = "stalled"
    /\ UNCHANGED <<loop, arriving, buffer, inbound, outbound, actor>>

DataStreamNext ==
    LoopMoves \/ LoopEnds \/ ActorMoves \/ ActorSends \/ SendTimesOut \/ DeviceSends \/ DeviceStalls

DataStreamSpec == DataStreamInit /\ [][DataStreamNext]_streamVars
-----------------------------------------------------------------------------
(* The values the variables take.                                           *)
DataStreamTypeOK ==
    /\ loop \in {"select", "write", "drain", "ended"} /\ device \in {"reads", "stalled"}
    /\ arriving \in 0..MaxArriving
    /\ buffer \in 0..MaxArriving /\ (loop = "drain" <=> buffer > 0)
    /\ inbound \in 0..InboundDepth /\ outbound \in 0..OutboundDepth
    /\ actor \in {"serve", "send", "ended"}

(* data_stream.rs:361: "getting the order wrong is a three-way deadlock":   *)
(* the loop waiting for room in the inbound queue, the actor for room in    *)
(* the outbound one. While the device reads, a loop with a frame in hand or *)
(* an actor inside send_payload can go on, or the other can: the condition  *)
(* one of their steps begins with is true.                                  *)
NoCircularWait ==
    device = "reads" /\ (loop \in {"write", "drain"} \/ actor = "send")
        => \/ CanTakeOutbound \/ CanWrite \/ CanRead \/ CanDrain
           \/ CanReceive \/ CanQueue
=============================================================================
