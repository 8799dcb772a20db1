--------------------------- MODULE RtspConnection ---------------------------
(* One RTSP connection of AirPlay (pyatv-proto-airplay: http.rs, rtsp.rs,   *)
(* raop/connection.rs, ap2/session.rs, raop/protocol_v2.rs). The setup, the *)
(* streaming loop, callers that set the volume and a feedback task share it *)
(* behind one lock, which an exchange holds from its request to its         *)
(* response. An exchange may time out, and its caller may go away: teardown *)
(* aborts the feedback task wherever it is.                                 *)
EXTENDS Naturals, Sequences

CONSTANTS
    Senders,      \* the tasks that exchange messages
    NoSender,
    MaxExchanges  \* bound: exchanges of the connection

ASSUME RtspAssumption == NoSender \notin Senders /\ MaxExchanges \in Nat

VARIABLES
    lock,        \* who holds the connection
    cseq,        \* RtspSession.cseq
    exchanges,   \* how far each sender is in an exchange, and its CSeq
    requests,    \* the requests on their way to the receiver, by CSeq
    replies,      \* the responses on their way back, or in HttpConnection.buffer
    outcome,     \* what each sender's last exchange returned: the CSeq answered, or a failure
    garbled,     \* a request was cut off half way: the receiver cannot read on
    abandoned    \* an exchange ended after its request was sent and before its response

rtspVars == <<lock, cseq, exchanges, requests, replies, outcome, garbled, abandoned>>

Quiet == [at |-> "none", cseq |-> 0]
Failed == [sent |-> 0, echoed |-> 0, ok |-> FALSE]

RtspInit ==
    /\ lock = NoSender
    /\ cseq = 0
    /\ exchanges = [t \in Senders |-> Quiet]
    /\ requests = <<>> /\ replies = <<>>
    /\ outcome = [t \in Senders |-> Failed]
    /\ garbled = FALSE /\ abandoned = FALSE

Step(t, from, to) ==
    /\ exchanges[t].at = from
    /\ exchanges' = [exchanges EXCEPT ![t].at = to]
-----------------------------------------------------------------------------
(* with_connection: a caller queues for the lock.                           *)
Exchange(t) ==
    /\ Step(t, "none", "lock")
    /\ UNCHANGED <<lock, cseq, requests, replies, outcome, garbled, abandoned>>

(* Mutant: the requests are kept apart, the responses are not.              *)
SendShared(t) ==
    /\ cseq < MaxExchanges
    /\ exchanges[t].at = "lock"
    /\ lock' = t
    /\ cseq' = cseq + 1
    /\ exchanges' = [exchanges EXCEPT ![t] = [at |-> "write", cseq |-> cseq]]
    /\ UNCHANGED <<requests, replies, outcome, garbled, abandoned>>

(* RtspSession::send under the lock: the request takes the next CSeq.       *)
Send(t) ==
    /\ cseq < MaxExchanges
    /\ exchanges[t].at = "lock"
    /\ lock = NoSender
    /\ lock' = t
    /\ cseq' = cseq + 1
    /\ exchanges' = [exchanges EXCEPT ![t] = [at |-> "write", cseq |-> cseq]]
    /\ UNCHANGED <<requests, replies, outcome, garbled, abandoned>>

RequestWritten(t) ==
    /\ Step(t, "write", "read")
    /\ requests' = IF garbled THEN requests ELSE Append(requests, exchanges[t].cseq)
    /\ UNCHANGED <<lock, cseq, replies, outcome, garbled, abandoned>>

(* read_response returns the first response there is; a CSeq that is not    *)
(* the one of the request is logged.                                        *)
ReadResponse(t) ==
    /\ Step(t, "read", "none")
    /\ replies # <<>>
    /\ replies' = Tail(replies)
    /\ outcome' = [outcome EXCEPT ![t] = [sent |-> exchanges[t].cseq, echoed |-> Head(replies),
                                          ok |-> TRUE]]
    /\ lock' = NoSender
    /\ UNCHANGED <<cseq, requests, garbled, abandoned>>

(* REQUEST_TIMEOUT, or the future is dropped while it waits for the answer. *)
Abandons(t) ==
    /\ Step(t, "read", "none")
    /\ outcome' = [outcome EXCEPT ![t] = Failed]
    /\ lock' = NoSender
    /\ abandoned' = TRUE
    /\ UNCHANGED <<cseq, requests, replies, garbled>>

(* The future is dropped inside write_all: before, within or after the      *)
(* bytes of the request.                                                    *)
DropsInWrite(t) ==
    /\ Step(t, "write", "none")
    /\ outcome' = [outcome EXCEPT ![t] = Failed]
    /\ lock' = NoSender
    /\ \/ garbled' = TRUE /\ UNCHANGED <<requests, abandoned>>
       \/ /\ requests' = IF garbled THEN requests ELSE Append(requests, exchanges[t].cseq)
          /\ abandoned' = TRUE
          /\ UNCHANGED garbled
       \/ UNCHANGED <<requests, garbled, abandoned>>
    /\ UNCHANGED <<cseq, replies>>

(* It is dropped in the queue for the lock.                                 *)
DropsInQueue(t) ==
    /\ Step(t, "lock", "none")
    /\ outcome' = [outcome EXCEPT ![t] = Failed]
    /\ UNCHANGED <<lock, cseq, requests, replies, garbled, abandoned>>

(* The receiver answers one request after the other.                        *)
ReceiverAnswers ==
    /\ requests # <<>>
    /\ requests' = Tail(requests)
    /\ replies' = Append(replies, Head(requests))
    /\ UNCHANGED <<lock, cseq, exchanges, outcome, garbled, abandoned>>

RtspNext ==
    \/ ReceiverAnswers
    \/ \E t \in Senders :
          \/ Exchange(t) \/ Send(t) \/ RequestWritten(t) \/ ReadResponse(t)
          \/ Abandons(t) \/ DropsInWrite(t) \/ DropsInQueue(t)

RtspSpec == RtspInit /\ [][RtspNext]_rtspVars
-----------------------------------------------------------------------------
(* The values the variables take.                                           *)
RtspTypeOK ==
    /\ lock \in Senders \cup {NoSender}
    /\ cseq \in 0..MaxExchanges
    /\ \A t \in Senders : exchanges[t].at \in {"none", "lock", "write", "read"}
    /\ {exchanges[t].at : t \in Senders \ {lock}} \subseteq {"none", "lock"}

(* http.rs:208: send_and_receive reads "until the matching response         *)
(* arrives". An exchange that returns a response returns its own.           *)
AnswersOwnRequest == \A t \in Senders : outcome[t].ok => outcome[t].echoed = outcome[t].sent

(* raop/connection.rs:8: "the connection answers strictly one request at a  *)
(* time". As long as every exchange waits for its response, each returns    *)
(* its own, whoever else wants the connection, whatever queue is left.      *)
AnswersOwnUnlessAbandoned == ~abandoned => AnswersOwnRequest
=============================================================================
