------------------------------ MODULE MdnsScan ------------------------------
(* Scanning for devices (pyatv-mdns: browse.rs, mdns/multicast.rs,          *)
(* mdns/unicast.rs, mdns/query.rs, mdns/parser.rs, scan/registry.rs). The   *)
(* service types are asked for in several messages, again in every round.   *)
(* Datagrams come in any order, twice, or never; a browse ends early when a *)
(* host that answered as often as there were messages is the wanted one, a  *)
(* unicast query of a host when it answered as often.                       *)
EXTENDS Naturals, FiniteSets

CONSTANTS
    TypesAsked,      \* how many service types are asked for: 1..TypesAsked
    PerMessage,      \* SERVICES_PER_MSG
    Hosts,
    TypesOf,         \* the types each host has; those above TypesAsked are foreign
    Sleepers,        \* hosts a sleep proxy answers for until they are woken
    WantedHosts,          \* hosts with an identifier that is scanned for
    ResendRounds     \* resend_rounds

ASSUME ScanAssumption ==
    /\ {TypesAsked, PerMessage, ResendRounds} \subseteq Nat /\ PerMessage > 0
    /\ Sleepers \cup WantedHosts \subseteq Hosts

VARIABLES
    mode,        \* of the scan: multicast or unicast
    rounds,      \* rounds of messages left
    network,     \* datagrams that may arrive, once, twice or never
    woken,
    responses,   \* for each host: count, deep_sleep, the types known by name and in detail
    unicasts,    \* MulticastState.unicasts: hosts to be asked for their instances
    ended,       \* hosts whose answers ended the browse, or their unicast query
    answered,    \* for each host the messages whose answer in detail was accepted
    repeats      \* hosts of which anything else was accepted

scanVars == <<mode, rounds, network, woken, responses, unicasts, ended, answered, repeats>>
-----------------------------------------------------------------------------
(* create_service_queries: a message for every PerMessage types, and it     *)
(* asks for one more than those.                                            *)
Messages == 1..((TypesAsked + PerMessage - 1) \div PerMessage)

QuestionsOf(m) == ((m - 1) * PerMessage + 1)..(m * PerMessage + 1) \cap 1..TypesAsked

Datagram(host, types, detail, message) ==
    [from |-> host, types |-> types, detail |-> detail, message |-> message]

(* What hosts answer to a round, the follow-ups to sleeping hosts included: *)
(* the answer to these is of no message.                                    *)
AnswersTo(asleep) ==
    {d \in {Datagram(h, TypesOf[h] \cap QuestionsOf(m), h \notin asleep, m) :
              h \in Hosts, m \in Messages}
        : d.types # {}}
    \cup {Datagram(h, TypesOf[h] \cap 1..TypesAsked, TRUE, 0) : h \in unicasts \ asleep}

ScanInit ==
    /\ mode \in {"multicast", "unicast"}
    /\ rounds = ResendRounds
    /\ network = {} /\ woken = {}
    /\ responses = [h \in Hosts |-> [count |-> 0, deep_sleep |-> FALSE,
                                     names |-> {}, details |-> {}]]
    /\ unicasts = {} /\ ended = {}
    /\ answered = [h \in Hosts |-> {}] /\ repeats = {}

Over == ended # {} /\ (mode = "multicast" \/ ended = Hosts)

(* send_round and resend_loop; a host that is asked by name, or knocked at, *)
(* may wake up.                                                             *)
SendRound ==
    /\ rounds > 0 /\ ~Over
    /\ rounds' = rounds - 1
    /\ \E awake \in SUBSET (IF mode = "unicast" THEN Sleepers ELSE unicasts) :
          /\ woken' = woken \cup awake
          /\ network' = network \cup AnswersTo(Sleepers \ woken')
    /\ UNCHANGED <<mode, responses, unicasts, ended, answered, repeats>>

(* A host announces what it has, or something sends what cannot be decoded. *)
Unasked ==
    /\ rounds < ResendRounds
    /\ \E h \in Hosts \ Sleepers :
          network' = network \cup {Datagram(h, TypesOf[h], TRUE, 0), Datagram(h, {}, FALSE, 0)}
    /\ network' # network
    /\ UNCHANGED <<mode, rounds, woken, responses, unicasts, ended, answered, repeats>>

Interesting(d) == d.types # {} /\ d.types \subseteq 1..TypesAsked

(* ServiceParser: what is known of the types, in whatever order it came.    *)
Add(response, d) ==
    [response EXCEPT !.count = @ + 1, !.names = @ \cup d.types,
                     !.details = IF d.detail THEN @ \cup d.types ELSE @]

Accept(d, response) == responses' = [responses EXCEPT ![d.from] = response]

EndCondition(h, response) == h \in WantedHosts /\ response.details # {}

(* Mutant: whatever comes from a host counts.                               *)
HandleDatagramCounting(d) ==
    LET h == d.from
        response == IF Interesting(d) THEN Add(responses[h], d)
                    ELSE [responses[h] EXCEPT !.count = @ + 1]
        asleep == Interesting(d) /\ ~d.detail
    IN  /\ Accept(d, [response EXCEPT !.deep_sleep = @ \/ asleep])
        /\ unicasts' = IF asleep THEN unicasts \cup {h} ELSE unicasts
        /\ ended' = IF ~asleep /\ response.count >= Cardinality(Messages)
                       /\ EndCondition(h, response)
                    THEN {h} ELSE ended

(* MulticastState::handle: a datagram with a type nobody asked for is       *)
(* dropped whole; one without any detail comes from a sleep proxy.          *)
HandleDatagram(d) ==
    LET h == d.from
        response == Add(responses[h], d)
    IN  IF ~Interesting(d) THEN UNCHANGED <<responses, unicasts, ended>>
        ELSE /\ Accept(d, [response EXCEPT !.deep_sleep = @ \/ ~d.detail])
             /\ unicasts' = IF d.detail THEN unicasts ELSE unicasts \cup {h}
             /\ ended' = IF d.detail /\ response.count >= Cardinality(Messages)
                            /\ EndCondition(h, response)
                         THEN {h} ELSE ended

(* collect_responses: every datagram that can be decoded counts.            *)
Collect(d) ==
    LET response == Add(responses[d.from], d)
    IN  /\ d.from \notin ended
        /\ IF d.types = {} THEN UNCHANGED <<responses, ended>>
           ELSE /\ Accept(d, response)
                /\ ended' = IF response.count >= Cardinality(Messages)
                            THEN ended \cup {d.from} ELSE ended
        /\ UNCHANGED unicasts

(* The bound: a host is heard once more often than it is asked.             *)
Receive ==
    /\ ~Over
    /\ \E d \in network :
          LET accepted == IF mode = "multicast" THEN Interesting(d) ELSE d.types # {}
              new == d.detail /\ d.message \notin answered[d.from] \cup {0}
          IN  /\ responses[d.from].count <= Cardinality(Messages)
              /\ IF mode = "multicast" THEN HandleDatagram(d) ELSE Collect(d)
              /\ answered' = IF accepted /\ new
                             THEN [answered EXCEPT ![d.from] = @ \cup {d.message}] ELSE answered
              /\ repeats' = IF accepted /\ ~new THEN repeats \cup {d.from} ELSE repeats
    /\ UNCHANGED <<mode, rounds, network, woken>>

ScanNext == SendRound \/ Unasked \/ Receive

ScanSpec == ScanInit /\ [][ScanNext]_scanVars
-----------------------------------------------------------------------------
(* What build_configs makes of the responses when the browse ends or the    *)
(* window elapses: hosts with a service that has an address and a port, and *)
(* of a browse that ended early only the host that ended it.                *)
ScanResult == [h \in {x \in Hosts : responses[x].details # {}
                    /\ (mode = "multicast" /\ ended # {} => x \in ended)}
             |-> responses[h].details]

(* The values the variables take.                                           *)
ScanTypeOK ==
    /\ mode = "multicast" => Cardinality(ended) <= 1
    /\ \A h \in Hosts : responses[h].details \subseteq responses[h].names

(* multicast.rs:298: a source that answered as many datagrams as there were *)
(* messages "is considered done". Answers are counted, not compared with    *)
(* the messages: a scan that ended early has every service of its host as   *)
(* long as each answer was that of another message, in detail.              *)
EarlyEndIsComplete ==
    \A h \in ended \ repeats :
        h \in DOMAIN ScanResult /\ ScanResult[h] = TypesOf[h] \cap 1..TypesAsked
=============================================================================
