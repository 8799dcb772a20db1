--------------------------- MODULE MdnsResponder ---------------------------
(* Publishing one service over mDNS (pyatv-mdns: publish/responder.rs and   *)
(* publish/registration.rs). A serving task answers queries by multicast or *)
(* unicast, an announcing task multicasts all records without the rate      *)
(* limit, a caller does so too, and each writes the log of what was         *)
(* multicast when once its send has returned. Time passes in ticks.         *)
EXTENDS Naturals, FiniteSets

CONSTANTS
    Rest,        \* MULTICAST_RATE_LIMIT and ANNOUNCE_INTERVAL, in ticks
    HostTtl, ServiceTtl,   \* HOST_TTL and SERVICE_TTL, in ticks
    Rounds,      \* ANNOUNCE_COUNT
    Publishers,  \* tasks that call announce_now
    Queries      \* what may be asked: see QueryType

MaxAge == ServiceTtl \div 4

ASSUME PublishersAssumption == {"serve", "announce", "goodbye"} \cap Publishers = {}

ASSUME ResponderAssumption ==
    /\ {Rest, HostTtl, ServiceTtl, Rounds} \subseteq Nat
    /\ Rest <= HostTtl \div 4 /\ HostTtl <= ServiceTtl

VARIABLES
    log,         \* MulticastLog: how long ago each record was multicast, at most MaxAge
    cached,      \* how old each record is in a cache that hears every multicast
    serving,     \* the reply serve() is about to send; stale: its answers that caches hold no
                 \* longer for three quarters of their life; raced: an announcement was under
                 \* way when the log was looked at, or went out since
    replied,     \* ghost: how long ago a reply multicast each record, at most Rest
    unlogged,    \* who has multicast and not yet written the log
    announcing,  \* announce(): the rounds left, and the ticks until the next one
    published,   \* "yes", "withdrawn" once the goodbye was sent, "no" once the tasks ended
    reply        \* the last reply sent: by what way, its stale answers, its records that had
                 \* not rested since a multicast it had to know of

responderVars == <<log, cached, replied, serving, unlogged, announcing, published, reply>>

OwnRecords == {"PTR", "SRV", "TXT", "A"}
QuestionTypes == {"type", "SRV", "TXT", "ANY", "host"}

(* known: the records the query lists with at least half their TTL left.    *)
QueryType == [questions : SUBSET QuestionTypes, unicast : BOOLEAN, legacy : BOOLEAN,
              known : SUBSET OwnRecords]

ASSUME QueriesAssumption == Queries \subseteq QueryType

Ttl(r) == IF r \in {"PTR", "TXT"} THEN ServiceTtl ELSE HostTtl

NoReply == [by |-> "none", answers |-> {}, records |-> {}, stale |-> {}, raced |-> FALSE]

ResponderInit ==
    /\ log = [r \in OwnRecords |-> MaxAge]
    /\ cached = [r \in OwnRecords |-> MaxAge]
    /\ serving = NoReply
    /\ replied = [r \in OwnRecords |-> Rest]
    /\ unlogged = {}
    /\ announcing = [left |-> Rounds, wait |-> 0]
    /\ published = "yes"
    /\ reply = [by |-> "none", stale |-> {}, tooSoon |-> {}]
-----------------------------------------------------------------------------
(* ServiceRegistration::answer                                              *)
Answers(q) == CASE q = "type" -> {"PTR"} [] q = "ANY" -> {"SRV", "TXT"} [] q = "host" -> {"A"}
                [] OTHER -> {q}

Additionals(q) == CASE q = "type" -> {"SRV", "TXT", "A"} [] q \in {"SRV", "ANY"} -> {"A"}
                    [] OTHER -> {}

(* respond: known answers are left out, and a record that is an answer is   *)
(* no additional one.                                                       *)
Respond(q) ==
    LET answers == UNION {Answers(x) : x \in q.questions} \ (IF q.legacy THEN {} ELSE q.known)
    IN  [answers |-> answers,
         records |-> answers \cup UNION {Additionals(x) : x \in q.questions}]

AllRecent(answers) == \A r \in answers : log[r] < Ttl(r) \div 4

(* Mutant: the additional records are not looked at.                        *)
RestedAnswers(answers, records) == (records \ answers) \cup {r \in answers : log[r] >= Rest}

(* drop_rate_limited                                                        *)
Rested(answers, records) == {r \in records : log[r] >= Rest}

(* handle, up to the await of its send.                                     *)
HandleQuery(q) ==
    LET response == Respond(q)
        answers == response.answers
        records == response.records
        rested == Rested(answers, records)
        Sends(by, a, rs) ==
            [by |-> by, answers |-> a, records |-> rs, raced |-> unlogged # {},
             stale |-> {r \in a : cached[r] >= Ttl(r) \div 4}]
    IN  /\ published # "no" /\ serving = NoReply
        /\ answers # {}
        /\ serving' = IF q.legacy THEN Sends("legacy", answers, records)
                      ELSE IF q.unicast /\ AllRecent(answers)
                           THEN Sends("unicast", answers, records)
                      ELSE IF answers \cap rested = {} THEN NoReply
                      ELSE Sends("multicast", answers \cap rested, rested)
        /\ UNCHANGED <<log, cached, replied, unlogged, announcing, published, reply>>

Refreshed(ages, records) == [r \in OwnRecords |-> IF r \in records THEN 0 ELSE ages[r]]

(* Mutant: a reply to one is logged like one to all.                        *)
EveryReplyIsLogged(by) == by # "none"

(* What multicast sends is logged, what send sends is not.                  *)
IsLogged(by) == by = "multicast"

(* The send of handle, which may fail.                                      *)
SendReply ==
    /\ published # "no" /\ serving # NoReply /\ "serve" \notin unlogged
    /\ reply' = [by |-> serving.by, stale |-> serving.stale,
                 tooSoon |-> {r \in serving.records :
                                replied[r] < Rest \/ (~serving.raced /\ cached[r] < Rest)}]
    /\ IF serving.by = "multicast"
       THEN /\ cached' = Refreshed(cached, serving.records)
            /\ replied' = Refreshed(replied, serving.records)
       ELSE UNCHANGED <<cached, replied>>
    /\ IF IsLogged(serving.by) THEN unlogged' = unlogged \cup {"serve"} /\ UNCHANGED serving
                               ELSE serving' = NoReply /\ UNCHANGED unlogged
    /\ UNCHANGED <<log, announcing, published>>

ReplyFails ==
    /\ published # "no" /\ serving # NoReply /\ "serve" \notin unlogged
    /\ serving' = NoReply
    /\ UNCHANGED <<log, cached, replied, unlogged, announcing, published, reply>>

(* The send of multicast, for an announcement: all records go out, past     *)
(* whatever reply serve() is about to send.                                 *)
MulticastAll(m) ==
    /\ unlogged' = unlogged \cup {m}
    /\ cached' = Refreshed(cached, OwnRecords)
    /\ serving' = IF serving = NoReply THEN NoReply ELSE [serving EXCEPT !.raced = TRUE]

Announce ==
    /\ published # "no" /\ "announce" \notin unlogged
    /\ announcing.left > 0 /\ announcing.wait = 0
    /\ announcing' = [left |-> announcing.left - 1, wait |-> Rest]
    /\ \/ MulticastAll("announce")
       \/ UNCHANGED <<cached, serving, unlogged>>
    /\ UNCHANGED <<log, replied, published, reply>>

(* announce_now, from a caller.                                             *)
AnnounceNow(p) ==
    /\ published = "yes" /\ p \notin unlogged
    /\ MulticastAll(p)
    /\ UNCHANGED <<log, replied, announcing, published, reply>>

(* unregister, which no announce_now outlasts: the goodbye is multicast,    *)
(* and caches drop the records.                                             *)
Goodbye ==
    /\ published = "yes" /\ unlogged \cap Publishers = {}
    /\ published' = "withdrawn"
    /\ \/ /\ unlogged' = unlogged \cup {"goodbye"}
          /\ cached' = [r \in OwnRecords |-> MaxAge]
       \/ UNCHANGED <<unlogged, cached>>
    /\ UNCHANGED <<log, replied, serving, announcing, reply>>

MulticastBy(m) == IF m = "serve" THEN serving.records ELSE OwnRecords

(* The end of multicast: what was sent is logged. Nothing is awaited        *)
(* between, so that an aborted task gets here too.                          *)
RecordSent(m) ==
    /\ m \in unlogged
    /\ unlogged' = unlogged \ {m}
    /\ log' = Refreshed(log, MulticastBy(m))
    /\ serving' = IF m = "serve" THEN NoReply ELSE serving
    /\ UNCHANGED <<cached, replied, announcing, published, reply>>

(* The tasks end after unregister, or when the responder is dropped.        *)
StopsTasks ==
    /\ published # "no" /\ unlogged \cap ({"goodbye"} \cup Publishers) = {}
    /\ published' = "no"
    /\ serving' = IF "serve" \in unlogged THEN serving ELSE NoReply
    /\ UNCHANGED <<log, cached, replied, unlogged, announcing, reply>>

Older(n) == IF n < MaxAge THEN n + 1 ELSE n

(* A tick passes; the announcing task sleeps no longer than its interval.   *)
(* Others run between a send and its entry in the log, for less than a tick. *)
Tick ==
    /\ published # "no" /\ unlogged = {}
    /\ log' = [r \in OwnRecords |-> Older(log[r])]
    /\ cached' = [r \in OwnRecords |-> Older(cached[r])]
    /\ replied' = [r \in OwnRecords |-> IF replied[r] < Rest THEN replied[r] + 1 ELSE Rest]
    /\ announcing' = [announcing EXCEPT !.wait = IF @ > 0 THEN @ - 1 ELSE 0]
    /\ UNCHANGED <<serving, unlogged, published, reply>>

ResponderNext ==
    \/ \E q \in Queries : HandleQuery(q)
    \/ \E p \in Publishers : AnnounceNow(p)
    \/ \E m \in unlogged : RecordSent(m)
    \/ SendReply \/ ReplyFails \/ Announce \/ Goodbye \/ StopsTasks \/ Tick

ResponderSpec == ResponderInit /\ [][ResponderNext]_responderVars
-----------------------------------------------------------------------------
(* The values the variables take.                                           *)
ResponderTypeOK ==
    /\ log \in [OwnRecords -> 0..MaxAge] /\ cached \in [OwnRecords -> 0..MaxAge]
    /\ replied \in [OwnRecords -> 0..Rest]
    /\ serving.answers \subseteq serving.records /\ serving.records \subseteq OwnRecords
    /\ unlogged \subseteq {"serve", "announce", "goodbye"} \cup Publishers
    /\ ("serve" \in unlogged => serving.by = "multicast")
    /\ announcing \in [left : 0..Rounds, wait : 0..Rest]
    /\ published \in {"yes", "withdrawn", "no"}

(* responder.rs:251: "a record may not be multicast twice inside one        *)
(* second". No record of a reply, answer or additional, follows a multicast *)
(* of it by less. Announcements do not look at the log: a reply may follow  *)
(* one that raced with it, that is, was sent and not yet logged when the    *)
(* reply was checked, or was sent between that check and the reply; but not *)
(* even then does it follow another reply too soon.                         *)
RepliesRest == published = "yes" /\ reply.by = "multicast" => reply.tooSoon = {}

(* responder.rs:235: a unicast reply "is honoured -- but only while the     *)
(* records are still fresh in everyone else's cache": whoever listened has  *)
(* every answer with three quarters of its life left.                       *)
UnicastOnlyWhileFresh == published = "yes" /\ reply.by = "unicast" => reply.stale = {}
=============================================================================
