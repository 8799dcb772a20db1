---------------------------- MODULE DeviceProofs ----------------------------
(* What the parts that talk to a device on their own promise, proved:        *)
(* the DMAP client's held poll, the mDNS responder and scanner, and the      *)
(* MRP volume and player model. Each has its inductive invariant and one     *)
(* lemma that a step keeps it.                                               *)
EXTENDS DmapUpdates, MdnsResponder, MdnsScan, MrpPlayers, MrpVolume,
        Integers, FiniteSetTheorems, TLAPS
-----------------------------------------------------------------------------
(* DMAP: the held poll                                                      *)

\* A poll under way.
Poll == [at : {"none", "ask", "held", "store", "tell", "sleep"}, from : Nat, answer : Nat]

\* A poller that is not overtaken asks past what the listener was told, or from the start.
AsksOnFromTold ==
  ~overtaken /\ asks["aborted"].at = "none" =>
     /\ asks["poller"].at \in {"ask", "sleep"} => revision \in {0, told}
     /\ asks["poller"].at = "held" => asks["poller"].from \in {0, told}

DmapInv ==
  /\ rev \in Nat \ {0} /\ revision \in Nat /\ told \in Nat /\ overtaken \in BOOLEAN
  /\ asks \in [Tasks -> Poll]
  /\ asks["aborted"].at \in {"none", "store", "tell"}
  /\ \A t \in Readers : asks[t].at \in {"none", "held", "store"}
  /\ AsksOnFromTold

\* The tasks are all different.
LEMMA TasksDiffer == "poller" \in Tasks /\ "aborted" \in Tasks /\ Readers \subseteq Tasks
                     /\ "poller" \notin Readers /\ "aborted" \notin Readers
  BY DmapAssumption DEF Tasks

\* Nobody polls at first.
LEMMA DmapStarts == DmapInit => DmapInv
<1> SUFFICES ASSUME DmapInit PROVE DmapInv
  OBVIOUS
<1>1. rev = 1 /\ revision = 1 /\ told = 0 /\ overtaken = FALSE /\ \A t \in Tasks : asks[t] = NoAsk
  BY DEF DmapInit
<1>2. asks \in [Tasks -> Poll]
  BY DEF DmapInit, Poll, NoAsk
<1>3. asks["poller"].at = "none" /\ asks["aborted"].at = "none"
  BY <1>1, TasksDiffer DEF NoAsk
<1>4. \A t \in Readers : asks[t].at = "none"
  BY <1>1, TasksDiffer DEF NoAsk
<1>5. overtaken \in BOOLEAN
  BY <1>1
<1>6. rev \in Nat \ {0} /\ revision \in Nat /\ told \in Nat
  BY <1>1
<1> QED BY ONLY <1>2, <1>3, <1>4, <1>5, <1>6 DEF DmapInv, AsksOnFromTold

\* The step of another task leaves the poller, and the one before it, where they are.
LEMMA DmapSteps == DmapInv /\ [DmapNext]_dmapVars => DmapInv'
<1> SUFFICES ASSUME DmapInv, [DmapNext]_dmapVars PROVE DmapInv'
  OBVIOUS
<1> USE TasksDiffer DEF DmapInv, Poll, NoAsk
<1>1. CASE DeviceChanges
  BY <1>1 DEF DeviceChanges, AsksOnFromTold
<1>2. CASE StartPolling
  BY <1>2 DEF StartPolling, To, AsksOnFromTold
<1>3. CASE StopPolling
  BY <1>3 DEF StopPolling, AsksOnFromTold
<1>4. CASE Asks
  BY <1>4 DEF Asks, AsksOnFromTold
<1>5. CASE PollFails
  BY <1>5 DEF PollFails, To, AsksOnFromTold
<1>6. CASE Wakes
  BY <1>6 DEF Wakes, To, AsksOnFromTold
<1>7. CASE PollLost
  BY <1>7 DEF PollLost, AsksOnFromTold
<1>8. ASSUME NEW t \in Tasks, StartsRead(t) PROVE DmapInv'
  BY <1>8 DEF StartsRead, AsksOnFromTold
<1>9. ASSUME NEW t \in Tasks, DeviceAnswers(t) PROVE DmapInv'
  BY ZenonT(60), <1>9 DEF DeviceAnswers, AsksOnFromTold
<1>10. ASSUME NEW t \in Tasks, StoresAnswer(t) PROVE DmapInv'
  <2>1. overtaken' = (overtaken \/ (t \in Readers /\ asks[t].answer # told))
    BY <1>10 DEF StoresAnswer
  <2>2. overtaken' \in BOOLEAN /\ (~overtaken' => ~overtaken /\ (t \in Readers => asks[t].answer = told))
    BY <2>1, Zenon
  <2>3. /\ asks[t].at = "store" /\ revision' = asks[t].answer /\ UNCHANGED <<rev, told>>
        /\ asks' = IF t \in Readers THEN [asks EXCEPT ![t] = NoAsk] ELSE [asks EXCEPT ![t].at = "tell"]
    BY <1>10 DEF StoresAnswer, To
  <2>4. CASE t \in Readers
    BY <2>2, <2>3, <2>4 DEF AsksOnFromTold
  <2>5. CASE t = "poller"
    BY <2>2, <2>3, <2>5 DEF AsksOnFromTold
  <2>6. CASE t = "aborted"
    BY <2>2, <2>3, <2>6 DEF AsksOnFromTold
  <2> QED BY <2>4, <2>5, <2>6 DEF Tasks
<1>11. ASSUME NEW t \in Tasks, TellsListener(t) PROVE DmapInv'
  <2>1. overtaken' = IF t = "aborted" THEN asks["poller"] # NoAsk ELSE revision # told'
    BY <1>11 DEF TellsListener
  <2>2. overtaken' \in BOOLEAN
    BY <2>1, Zenon
  <2>3. /\ asks[t].at = "tell" /\ told' = asks[t].answer /\ UNCHANGED <<rev, revision>>
        /\ asks' = IF t = "aborted" THEN [asks EXCEPT ![t] = NoAsk]
                   ELSE [asks EXCEPT ![t] = [NoAsk EXCEPT !.at = "ask"]]
    BY <1>11 DEF TellsListener
  <2>4. asks' \in [Tasks -> Poll] /\ told' \in Nat
    BY <2>3
  <2>5. CASE t = "aborted"
    <3>0. ~overtaken' => asks["poller"] = NoAsk
      BY ONLY <2>1, <2>5, Zenon
    <3>1. ~overtaken' => asks["poller"].at = "none"
      BY <3>0
    <3> QED BY <2>2, <2>3, <2>4, <2>5, <3>1 DEF AsksOnFromTold
  <2>6. CASE t # "aborted"
    <3>1. ~overtaken' => revision = told'
      BY <2>1, <2>6
    <3>2. asks'["aborted"] = asks["aborted"]
      BY <2>3, <2>6
    <3>3. CASE t = "poller"
      BY <2>2, <2>3, <2>4, <3>1, <3>2, <3>3 DEF AsksOnFromTold
    <3>4. CASE t # "poller"
      <4>1. t \in Readers
        BY <2>6, <3>4 DEF Tasks
      <4>2. asks[t].at # "tell"
        BY <4>1
      <4> QED BY <2>3, <4>2
    <3> QED BY <3>3, <3>4
  <2> QED BY <2>5, <2>6
<1>12. ASSUME NEW t \in Tasks, ReadFails(t) PROVE DmapInv'
  BY <1>12 DEF ReadFails, AsksOnFromTold
<1>13. CASE UNCHANGED dmapVars
  BY <1>13 DEF dmapVars, AsksOnFromTold
<1> QED BY <1>1, <1>2, <1>3, <1>4, <1>5, <1>6, <1>7, <1>8, <1>9, <1>10, <1>11, <1>12, <1>13 DEF DmapNext

\* updates.rs:85: with any number of tasks that ask for the play status too, restarts, refused polls
\* and changes at any moment, a poll that the device holds is of a listener that was told what plays,
\* unless another task's answer set the revision.
THEOREM HeldPollMissesNothing == DmapSpec => []HeldPollIsToldUnlessOvertaken
<1>1. DmapInv => HeldPollIsToldUnlessOvertaken
  BY DEF DmapInv, AsksOnFromTold, HeldPollIsToldUnlessOvertaken, HeldPollIsTold, UpToDate, NoAsk
<1> QED BY <1>1, DmapStarts, DmapSteps, PTL DEF DmapSpec

\* Nobody knows a revision that the device has not had.
RevisionsHad ==
  /\ rev <= MaxRev /\ revision <= rev /\ told <= rev
  /\ \A t \in Tasks : asks[t].answer <= rev

\* An answer is of the revision the device is at, and so is what is stored and told of it later.
LEMMA RevisionsStayHad == DmapInv /\ RevisionsHad /\ [DmapNext]_dmapVars => RevisionsHad'
<1> SUFFICES ASSUME DmapInv, RevisionsHad, [DmapNext]_dmapVars PROVE RevisionsHad'
  OBVIOUS
<1> USE TasksDiffer, DmapAssumption DEF DmapInv, Poll, NoAsk, RevisionsHad
<1>1. CASE DeviceChanges
  BY <1>1 DEF DeviceChanges
<1>2. CASE StartPolling \/ Wakes
  BY <1>2 DEF StartPolling, Wakes, To
<1>3. CASE StopPolling
  BY <1>3 DEF StopPolling
<1>4. CASE Asks \/ PollLost
  BY <1>4 DEF Asks, PollLost
<1>5. CASE PollFails
  BY <1>5 DEF PollFails, To
<1>6. ASSUME NEW t \in Tasks, StartsRead(t) \/ DeviceAnswers(t) \/ ReadFails(t) PROVE RevisionsHad'
  BY <1>6 DEF StartsRead, DeviceAnswers, ReadFails
<1>7. ASSUME NEW t \in Tasks, StoresAnswer(t) PROVE RevisionsHad'
  BY <1>7 DEF StoresAnswer, To
<1>8. ASSUME NEW t \in Tasks, TellsListener(t) PROVE RevisionsHad'
  BY <1>8 DEF TellsListener
<1>9. CASE UNCHANGED dmapVars
  BY <1>9 DEF dmapVars
<1> QED BY <1>1, <1>2, <1>3, <1>4, <1>5, <1>6, <1>7, <1>8, <1>9 DEF DmapNext

\* client.rs: the client's revision and the listener's are among those of the device, and an aborted
\* poller has only its answer left to store and to tell.
THEOREM DmapTypes == DmapSpec => []DmapTypeOK
<1>1. DmapInit => RevisionsHad
  BY DmapAssumption, TasksDiffer DEF DmapInit, RevisionsHad, NoAsk
<1>2. DmapInv /\ RevisionsHad => DmapTypeOK
  BY DmapAssumption, TasksDiffer DEF DmapInv, RevisionsHad, DmapTypeOK, Poll
<1> QED BY <1>1, <1>2, DmapStarts, DmapSteps, RevisionsStayHad, PTL DEF DmapSpec

-----------------------------------------------------------------------------
(* mDNS: the responder                                                      *)

\* A reply that serve() is about to send.
Serving == [by : {"none", "legacy", "unicast", "multicast"}, answers : SUBSET OwnRecords,
            records : SUBSET OwnRecords, stale : SUBSET OwnRecords, raced : BOOLEAN]

ResponderShape ==
  /\ log \in [OwnRecords -> Nat] /\ cached \in [OwnRecords -> Nat] /\ replied \in [OwnRecords -> Nat]
  /\ serving \in Serving
  /\ unlogged \subseteq {"serve", "announce", "goodbye"} \cup Publishers
  /\ "serve" \in unlogged => serving.by = "multicast"

\* Has serve() multicast record r, and not yet written the log?
InSend(r) == "serve" \in unlogged /\ r \in serving.records

\* The log knows of every reply to all, but of the one being sent; the next one waits with records
\* that rest since.
RepliesLogged ==
  /\ \A r \in OwnRecords : InSend(r) \/ log[r] <= replied[r] \/ replied[r] >= Rest
  /\ serving.by = "multicast" /\ "serve" \notin unlogged => \A r \in serving.records : replied[r] >= Rest

\* While published, the log tells how old the records are for whoever hears every multicast, but of
\* those that are being sent; a reply to all waits with records that have rested, unless it has
\* raced with an announcement, and a reply to one with answers that everyone holds.
LogIsTrue ==
  published = "yes" =>
     /\ \A r \in OwnRecords : log[r] = cached[r] \/ \E m \in unlogged : r \in MulticastBy(m)
     /\ \A m \in unlogged : \A r \in MulticastBy(m) : cached[r] = 0
     /\ serving.by = "multicast" /\ ~serving.raced /\ "serve" \notin unlogged =>
          \A r \in serving.records : cached[r] >= Rest
     /\ serving.by = "unicast" => serving.stale = {}
     /\ RepliesRest /\ UnicastOnlyWhileFresh

ResponderInv == ResponderShape /\ RepliesLogged /\ LogIsTrue

\* The ages are natural numbers, also the greatest that is told apart.
LEMMA AgesAreNatural == MaxAge \in Nat /\ Rest \in Nat
  BY ResponderAssumption DEF MaxAge

\* A service that is published has sent nothing yet.
LEMMA ResponderStarts == ResponderInit => ResponderInv
<1> USE AgesAreNatural DEF ResponderInit
<1>1. ResponderInit => ResponderShape
  BY DEF ResponderShape, Serving, NoReply
<1>2. ResponderInit => RepliesLogged /\ LogIsTrue
  BY DEF RepliesLogged, LogIsTrue, RepliesRest, UnicastOnlyWhileFresh, NoReply
<1> QED BY <1>1, <1>2 DEF ResponderInv

\* What was multicast is new again in the log, and what was not gets no younger.
LEMMA AgesStayNatural ==
  ASSUME NEW ages \in [OwnRecords -> Nat]
  PROVE  /\ \A records \in SUBSET OwnRecords : Refreshed(ages, records) \in [OwnRecords -> Nat]
         /\ [r \in OwnRecords |-> Older(ages[r])] \in [OwnRecords -> Nat]
         /\ \A r \in OwnRecords : Older(ages[r]) >= ages[r]
  BY AgesAreNatural DEF Refreshed, Older

\* What a query makes serve() send: a reply to all has only records that the log says have rested,
\* and a reply to one only answers that it says are recent.
LEMMA QueryAnswered ==
  ASSUME ResponderShape, NEW q \in Queries, HandleQuery(q)
  PROVE  /\ UNCHANGED <<log, cached, replied, unlogged, announcing, published, reply>>
         /\ serving = NoReply /\ "serve" \notin unlogged
         /\ serving' \in Serving /\ serving'.answers \subseteq serving'.records
         /\ serving'.by = "multicast" => /\ \A r \in serving'.records : log[r] >= Rest
                                         /\ serving'.raced <=> unlogged # {}
         /\ serving'.by = "unicast" =>
              \A r \in serving'.stale : log[r] < Ttl(r) \div 4 /\ cached[r] >= Ttl(r) \div 4
<1> DEFINE answers == Respond(q).answers
           records == Respond(q).records
           rested == Rested(answers, records)
           stale(a) == {r \in a : cached[r] >= Ttl(r) \div 4}
           race == unlogged # {}
<1>1. UNCHANGED <<log, cached, replied, unlogged, announcing, published, reply>> /\ serving = NoReply
  BY DEF HandleQuery
<1>2. answers \subseteq OwnRecords /\ records \subseteq OwnRecords /\ answers \subseteq records
  <2>1. q.questions \subseteq QuestionTypes
    BY QueriesAssumption DEF QueryType
  <2>2. ASSUME NEW x \in QuestionTypes PROVE Answers(x) \subseteq OwnRecords /\ Additionals(x) \subseteq OwnRecords
    BY <2>2 DEF Answers, Additionals, QuestionTypes, OwnRecords
  <2>3. /\ answers = UNION {Answers(x) : x \in q.questions} \ (IF q.legacy THEN {} ELSE q.known)
        /\ records = answers \cup UNION {Additionals(x) : x \in q.questions}
    BY DEF Respond
  <2>4. answers \subseteq OwnRecords
    BY <2>1, <2>2, <2>3
  <2> HIDE DEF answers, records
  <2> QED BY <2>1, <2>2, <2>3, <2>4
<1>3. \/ serving' = NoReply
      \/ serving' = [by |-> "legacy", answers |-> answers, records |-> records,
                     raced |-> race, stale |-> stale(answers)]
      \/ /\ AllRecent(answers)
         /\ serving' = [by |-> "unicast", answers |-> answers, records |-> records,
                        raced |-> race, stale |-> stale(answers)]
      \/ serving' = [by |-> "multicast", answers |-> answers \cap rested, records |-> rested,
                     raced |-> race, stale |-> stale(answers \cap rested)]
  BY DEF HandleQuery
<1>4. rested \subseteq records /\ \A r \in rested : log[r] >= Rest
  BY DEF Rested
<1>5. AllRecent(answers) => \A r \in stale(answers) : log[r] < Ttl(r) \div 4
  BY DEF AllRecent
<1>6. \A a : \A r \in stale(a) : cached[r] >= Ttl(r) \div 4
  OBVIOUS
<1>7. /\ answers \in SUBSET OwnRecords /\ records \in SUBSET OwnRecords
      /\ rested \in SUBSET OwnRecords /\ answers \cap rested \in SUBSET OwnRecords
      /\ stale(answers) \in SUBSET OwnRecords /\ stale(answers \cap rested) \in SUBSET OwnRecords
      /\ race \in BOOLEAN
  BY <1>2, <1>4
<1>8. race <=> unlogged # {}
  OBVIOUS
<1> HIDE DEF answers, records, rested, stale, race
<1>9. ASSUME NEW by \in {"none", "legacy", "unicast", "multicast"}, NEW a \in SUBSET OwnRecords,
             NEW rs \in SUBSET OwnRecords, NEW st \in SUBSET OwnRecords
      PROVE  [by |-> by, answers |-> a, records |-> rs, raced |-> race, stale |-> st] \in Serving
  BY <1>7 DEF Serving
<1>10. NoReply \in Serving
  BY DEF Serving, NoReply
<1>11. serving' \in Serving
  <2>1. [by |-> "legacy", answers |-> answers, records |-> records, raced |-> race,
         stale |-> stale(answers)] \in Serving
    BY ONLY <1>7, <1>9
  <2>2. [by |-> "unicast", answers |-> answers, records |-> records, raced |-> race,
         stale |-> stale(answers)] \in Serving
    BY ONLY <1>7, <1>9
  <2>3. [by |-> "multicast", answers |-> answers \cap rested, records |-> rested, raced |-> race,
         stale |-> stale(answers \cap rested)] \in Serving
    BY ONLY <1>7, <1>9
  <2> QED BY ONLY <1>3, <1>10, <2>1, <2>2, <2>3
<1>12. "serve" \notin unlogged
  BY <1>1 DEF ResponderShape, NoReply
<1>13. serving'.answers \subseteq serving'.records
  BY <1>2, <1>3 DEF NoReply
<1>14. serving'.by = "multicast" => serving'.records = rested /\ serving'.raced = race
  BY <1>3 DEF NoReply
<1>15. serving'.by = "unicast" => serving'.stale = stale(answers) /\ AllRecent(answers)
  BY <1>3 DEF NoReply
<1> QED BY <1>1, <1>4, <1>5, <1>6, <1>8, <1>11, <1>12, <1>13, <1>14, <1>15

\* An announcement changes no reply that waits, but for the mark that it raced.
LEMMA ReplyRaced ==
  ASSUME ResponderShape, NEW m, MulticastAll(m)
  PROVE  /\ serving' \in Serving /\ (serving'.raced \/ serving'.by = "none")
         /\ serving'.by = serving.by /\ serving'.stale = serving.stale
         /\ serving'.answers = serving.answers /\ serving'.records = serving.records
         /\ cached' \in [OwnRecords -> Nat] /\ \A r \in OwnRecords : cached'[r] = 0
  BY AgesStayNatural DEF ResponderShape, MulticastAll, Refreshed, Serving, NoReply

\* Who has multicast is one of the responder's tasks, and serve() has a reply to all then.
LEMMA ShapeStays == ResponderShape /\ [ResponderNext]_responderVars => ResponderShape'
<1> SUFFICES ASSUME ResponderShape, [ResponderNext]_responderVars PROVE ResponderShape'
  OBVIOUS
<1> USE PublishersAssumption DEF ResponderShape
<1>1. ASSUME NEW q \in Queries, HandleQuery(q) PROVE ResponderShape'
  BY <1>1, QueryAnswered
<1>2. CASE SendReply
  <2>1. serving.records \in SUBSET OwnRecords
    BY DEF Serving
  <2>2. cached' \in [OwnRecords -> Nat] /\ replied' \in [OwnRecords -> Nat]
    BY <1>2, <2>1, AgesStayNatural DEF SendReply
  <2>3. log' = log
    BY <1>2 DEF SendReply
  <2>4. CASE IsLogged(serving.by)
    BY <1>2, <2>2, <2>3, <2>4 DEF SendReply, IsLogged
  <2>5. CASE ~IsLogged(serving.by)
    <3>1. serving' = NoReply /\ unlogged' = unlogged /\ "serve" \notin unlogged
      BY <1>2, <2>5 DEF SendReply
    <3>2. NoReply \in Serving
      BY DEF Serving, NoReply
    <3> QED BY <2>2, <2>3, <3>1, <3>2
  <2> QED BY <2>4, <2>5
<1>3. CASE ReplyFails
  BY <1>3 DEF ReplyFails, NoReply, Serving
<1>4. CASE Announce
  <2>1. log' = log /\ replied' = replied
    BY <1>4 DEF Announce
  <2>2. CASE MulticastAll("announce")
    BY <2>1, <2>2, ReplyRaced DEF MulticastAll
  <2>3. CASE UNCHANGED <<cached, serving, unlogged>>
    BY <2>1, <2>3
  <2> QED BY <1>4, <2>2, <2>3 DEF Announce
<1>5. ASSUME NEW p \in Publishers, AnnounceNow(p) PROVE ResponderShape'
  BY <1>5, ReplyRaced DEF AnnounceNow, MulticastAll
<1>6. CASE Goodbye
  BY <1>6, AgesAreNatural DEF Goodbye
<1>7. ASSUME NEW m \in unlogged, RecordSent(m) PROVE ResponderShape'
  <2>1. MulticastBy(m) \in SUBSET OwnRecords
    BY DEF MulticastBy, Serving
  <2>2. log' \in [OwnRecords -> Nat]
    BY <1>7, <2>1, AgesStayNatural DEF RecordSent
  <2> QED BY <1>7, <2>2 DEF RecordSent, Serving, NoReply
<1>8. CASE StopsTasks
  BY <1>8 DEF StopsTasks, Serving, NoReply
<1>9. CASE Tick
  <2>1. log' \in [OwnRecords -> Nat] /\ cached' \in [OwnRecords -> Nat]
    BY <1>9, AgesStayNatural DEF Tick
  <2>2. replied' \in [OwnRecords -> Nat]
    BY <1>9, AgesAreNatural DEF Tick
  <2> QED BY <1>9, <2>1, <2>2 DEF Tick
<1>10. CASE UNCHANGED responderVars
  BY <1>10 DEF responderVars
<1> QED BY <1>1, <1>2, <1>3, <1>4, <1>5, <1>6, <1>7, <1>8, <1>9, <1>10 DEF ResponderNext

\* serve() looks at the log only when its own last reply is in it, whatever the others do.
LEMMA RepliesStayLogged ==
  ResponderShape /\ RepliesLogged /\ [ResponderNext]_responderVars => RepliesLogged'
<1> SUFFICES ASSUME ResponderShape, RepliesLogged, [ResponderNext]_responderVars PROVE RepliesLogged'
  OBVIOUS
<1> USE AgesAreNatural DEF RepliesLogged, InSend
<1>1. ASSUME NEW q \in Queries, HandleQuery(q) PROVE RepliesLogged'
  <2>1. /\ UNCHANGED <<log, replied, unlogged>> /\ "serve" \notin unlogged /\ serving' \in Serving
        /\ serving'.by = "multicast" => \A r \in serving'.records : log[r] >= Rest
    BY <1>1, QueryAnswered
  <2>2. ASSUME NEW r \in OwnRecords, log[r] >= Rest PROVE replied[r] >= Rest
    BY <2>1, <2>2 DEF ResponderShape
  <2> QED BY <2>1, <2>2 DEF Serving
<1>2. CASE SendReply
  <2>1. /\ "serve" \notin unlogged /\ log' = log
        /\ IF serving.by = "multicast"
           THEN replied' = Refreshed(replied, serving.records) /\ "serve" \in unlogged' /\ serving' = serving
           ELSE replied' = replied /\ serving' = NoReply
    BY <1>2 DEF SendReply, IsLogged
  <2>2. CASE serving.by = "multicast"
    BY <2>1, <2>2 DEF Refreshed
  <2>3. CASE serving.by # "multicast"
    BY <2>1, <2>3 DEF NoReply
  <2> QED BY <2>2, <2>3
<1>3. CASE ReplyFails
  BY <1>3 DEF ReplyFails, NoReply
<1>4. ASSUME NEW m, m # "serve", MulticastAll(m), UNCHANGED <<log, replied>> PROVE RepliesLogged'
  <2>1. "serve" \in unlogged' <=> "serve" \in unlogged
    BY <1>4 DEF MulticastAll
  <2> QED BY <1>4, <2>1, ReplyRaced
<1>5. CASE Announce
  BY <1>4, <1>5 DEF Announce
<1>6. ASSUME NEW p \in Publishers, AnnounceNow(p) PROVE RepliesLogged'
  BY <1>4, <1>6, PublishersAssumption DEF AnnounceNow
<1>7. CASE Goodbye
  BY <1>7 DEF Goodbye
<1>8. ASSUME NEW m \in unlogged, RecordSent(m) PROVE RepliesLogged'
  <2>1. \A r \in OwnRecords : r \in MulticastBy(m) => log'[r] = 0
    BY <1>8 DEF RecordSent, Refreshed
  <2>2. \A r \in OwnRecords : r \notin MulticastBy(m) => log'[r] = log[r]
    BY <1>8 DEF RecordSent, Refreshed
  <2>3. CASE m = "serve"
    BY <1>8, <2>1, <2>2, <2>3 DEF RecordSent, MulticastBy, NoReply, ResponderShape
  <2>4. CASE m # "serve"
    BY <1>8, <2>1, <2>4 DEF RecordSent, MulticastBy, ResponderShape
  <2> QED BY <2>3, <2>4
<1>9. CASE StopsTasks
  BY <1>9 DEF StopsTasks, NoReply
<1>10. CASE Tick
  <2>1. /\ unlogged = {} /\ UNCHANGED <<serving, unlogged>>
        /\ \A r \in OwnRecords : log'[r] = Older(log[r])
        /\ \A r \in OwnRecords : replied'[r] = IF replied[r] < Rest THEN replied[r] + 1 ELSE Rest
    BY <1>10 DEF Tick
  <2>2. ASSUME NEW r \in OwnRecords
        PROVE  /\ log'[r] <= replied'[r] \/ replied'[r] >= Rest
               /\ replied[r] >= Rest => replied'[r] >= Rest
    <3>1. log[r] \in Nat /\ replied[r] \in Nat
      BY DEF ResponderShape
    <3>2. log[r] <= replied[r] \/ replied[r] >= Rest
      BY <2>1
    <3> QED BY <2>1, <3>1, <3>2 DEF Older
  <2>3. serving.records \subseteq OwnRecords
    BY DEF ResponderShape, Serving
  <2> QED BY <2>1, <2>2, <2>3
<1>11. CASE UNCHANGED responderVars
  BY <1>11 DEF responderVars
<1> QED BY <1>1, <1>2, <1>3, <1>5, <1>6, <1>7, <1>8, <1>9, <1>10, <1>11 DEF ResponderNext

\* Whoever multicasts is known to be sending until the log has it.
LEMMA LogStaysTrue ==
  ResponderShape /\ RepliesLogged /\ LogIsTrue /\ [ResponderNext]_responderVars => LogIsTrue'
<1> SUFFICES ASSUME ResponderShape, RepliesLogged, LogIsTrue, [ResponderNext]_responderVars, published' = "yes"
             PROVE  LogIsTrue'
  BY DEF LogIsTrue
<1>0. published = "yes"
  BY DEF ResponderNext, HandleQuery, SendReply, ReplyFails, Announce, AnnounceNow, Goodbye, RecordSent,
         StopsTasks, Tick, responderVars
<1> USE <1>0 DEF RepliesRest, UnicastOnlyWhileFresh
<1>1. ASSUME NEW q \in Queries, HandleQuery(q) PROVE LogIsTrue'
  <2>1. /\ UNCHANGED <<log, cached, unlogged, published, reply>> /\ serving = NoReply
        /\ "serve" \notin unlogged /\ serving' \in Serving
        /\ serving'.by = "multicast" => /\ \A r \in serving'.records : log[r] >= Rest
                                        /\ serving'.raced <=> unlogged # {}
        /\ serving'.by = "unicast" =>
             \A r \in serving'.stale : log[r] < Ttl(r) \div 4 /\ cached[r] >= Ttl(r) \div 4
    BY <1>1, QueryAnswered
  <2>2. \A m \in unlogged : MulticastBy(m)' = MulticastBy(m)
    BY <2>1 DEF MulticastBy
  <2>3. ASSUME NEW r \in OwnRecords, log[r] < Ttl(r) \div 4, cached[r] >= Ttl(r) \div 4 PROVE FALSE
    <3>1. log[r] \in Nat /\ cached[r] \in Nat /\ Ttl(r) \div 4 \in Int
      BY ResponderAssumption DEF ResponderShape, Ttl
    <3>2. log[r] = cached[r] \/ cached[r] = 0
      BY DEF LogIsTrue
    <3> QED BY <2>3, <3>1, <3>2
  <2>4. serving'.by = "unicast" => serving'.stale = {}
    BY <2>1, <2>3 DEF Serving
  <2>5. serving'.by = "multicast" /\ ~serving'.raced => \A r \in serving'.records : cached[r] >= Rest
    BY <2>1 DEF LogIsTrue, Serving
  <2> QED BY <2>1, <2>2, <2>4, <2>5 DEF LogIsTrue
<1>2. CASE SendReply
  <2>1. serving.records \subseteq OwnRecords
    BY DEF ResponderShape, Serving
  <2>2. /\ UNCHANGED <<log, published>> /\ "serve" \notin unlogged
        /\ reply' = [by |-> serving.by, stale |-> serving.stale,
                     tooSoon |-> {r \in serving.records :
                                    replied[r] < Rest \/ (~serving.raced /\ cached[r] < Rest)}]
    BY <1>2 DEF SendReply
  <2>3. reply'.by = "unicast" => reply'.stale = {}
    BY <2>2 DEF LogIsTrue
  <2>4. CASE serving.by = "multicast"
    <3>1. /\ cached' = Refreshed(cached, serving.records)
          /\ unlogged' = unlogged \cup {"serve"} /\ serving' = serving
      BY <1>2, <2>4 DEF SendReply, IsLogged
    <3>2. reply'.tooSoon = {}
      <4>1. ASSUME NEW r \in serving.records
            PROVE  ~(replied[r] < Rest) /\ (~serving.raced => ~(cached[r] < Rest))
        <5>1. replied[r] \in Nat /\ cached[r] \in Nat
          BY <2>1 DEF ResponderShape
        <5>2. replied[r] >= Rest /\ (~serving.raced => cached[r] >= Rest)
          BY <2>2, <2>4 DEF RepliesLogged, LogIsTrue
        <5> QED BY <5>1, <5>2, AgesAreNatural
      <4> QED BY <2>2, <4>1
    <3>3. /\ \A m : MulticastBy(m)' = MulticastBy(m)
          /\ MulticastBy("serve") = serving.records
      BY <3>1 DEF MulticastBy
    <3>4. \A r \in OwnRecords : cached'[r] = IF r \in serving.records THEN 0 ELSE cached[r]
      BY <3>1 DEF Refreshed
    <3>5. \A r \in OwnRecords : log'[r] = cached'[r] \/ \E m \in unlogged' : r \in MulticastBy(m)
      BY <2>2, <3>1, <3>3, <3>4 DEF LogIsTrue
    <3>6. \A m \in unlogged' : MulticastBy(m) \subseteq OwnRecords
      BY <2>1 DEF MulticastBy
    <3>7. \A m \in unlogged' : \A r \in MulticastBy(m) : cached'[r] = 0
      BY <3>1, <3>3, <3>4, <3>6 DEF LogIsTrue
    <3> QED BY <2>2, <2>3, <2>4, <3>1, <3>2, <3>3, <3>5, <3>7 DEF LogIsTrue
  <2>5. CASE serving.by # "multicast"
    <3>1. cached' = cached /\ unlogged' = unlogged /\ serving' = NoReply
      BY <1>2, <2>5 DEF SendReply, IsLogged
    <3>2. \A m \in unlogged : MulticastBy(m)' = MulticastBy(m)
      BY <2>2 DEF MulticastBy
    <3> QED BY <2>2, <2>3, <2>5, <3>1, <3>2 DEF LogIsTrue, NoReply
  <2> QED BY <2>4, <2>5
<1>3. CASE ReplyFails
  <2>1. \A m \in unlogged : MulticastBy(m)' = MulticastBy(m)
    BY <1>3 DEF ReplyFails, MulticastBy
  <2> QED BY <1>3, <2>1 DEF ReplyFails, LogIsTrue, NoReply
<1>4. ASSUME NEW m, m # "serve", MulticastAll(m), UNCHANGED <<log, published, reply>> PROVE LogIsTrue'
  <2>1. /\ (serving'.raced \/ serving'.by = "none")
        /\ serving'.by = serving.by /\ serving'.stale = serving.stale /\ serving'.records = serving.records
        /\ \A r \in OwnRecords : cached'[r] = 0
    BY <1>4, ReplyRaced
  <2>2. m \in unlogged' /\ MulticastBy(m)' = OwnRecords
    BY <1>4 DEF MulticastAll, MulticastBy
  <2>3. \A n : MulticastBy(n)' \subseteq OwnRecords
    BY <2>1 DEF MulticastBy, ResponderShape, Serving
  <2> QED BY <1>4, <2>1, <2>2, <2>3 DEF LogIsTrue
<1>5. CASE Announce
  <2>1. CASE MulticastAll("announce")
    BY <1>4, <1>5, <2>1 DEF Announce
  <2>2. CASE UNCHANGED <<cached, serving, unlogged>>
    <3>1. \A m : MulticastBy(m)' = MulticastBy(m)
      BY <2>2 DEF MulticastBy
    <3> QED BY <1>5, <2>2, <3>1 DEF Announce, LogIsTrue
  <2> QED BY <1>5, <2>1, <2>2 DEF Announce
<1>6. ASSUME NEW p \in Publishers, AnnounceNow(p) PROVE LogIsTrue'
  BY <1>4, <1>6, PublishersAssumption DEF AnnounceNow
<1>7. CASE Goodbye
  BY <1>7 DEF Goodbye
<1>8. ASSUME NEW m \in unlogged, RecordSent(m) PROVE LogIsTrue'
  <2>1. /\ unlogged' = unlogged \ {m} /\ UNCHANGED <<cached, published, reply>>
        /\ serving' = IF m = "serve" THEN NoReply ELSE serving
        /\ \A r \in OwnRecords : log'[r] = IF r \in MulticastBy(m) THEN 0 ELSE log[r]
    BY <1>8 DEF RecordSent, Refreshed
  <2>2. \A n \in unlogged' : MulticastBy(n)' = MulticastBy(n)
    BY <2>1 DEF MulticastBy
  <2>3. \A r \in OwnRecords : log'[r] = cached'[r] \/ \E n \in unlogged' : r \in MulticastBy(n)
    BY <2>1 DEF LogIsTrue
  <2>4. \A n \in unlogged' : \A r \in MulticastBy(n) : cached'[r] = 0
    BY <2>1 DEF LogIsTrue
  <2>5. /\ serving'.by = "multicast" /\ ~serving'.raced /\ "serve" \notin unlogged' =>
             \A r \in serving'.records : cached'[r] >= Rest
        /\ serving'.by = "unicast" => serving'.stale = {}
    BY <2>1 DEF LogIsTrue, NoReply
  <2> QED BY <2>1, <2>2, <2>3, <2>4, <2>5 DEF LogIsTrue
<1>9. CASE StopsTasks
  BY <1>9 DEF StopsTasks
<1>10. CASE Tick
  <2>1. /\ \A r \in OwnRecords : log'[r] = Older(log[r]) /\ cached'[r] = Older(cached[r])
        /\ unlogged = {} /\ UNCHANGED <<serving, unlogged, published, reply>>
    BY <1>10 DEF Tick
  <2>2. \A r \in OwnRecords : cached[r] >= Rest => cached'[r] >= Rest
    <3>1. ASSUME NEW r \in OwnRecords PROVE cached[r] \in Nat /\ cached'[r] \in Nat /\ cached'[r] >= cached[r]
      BY <2>1, AgesAreNatural DEF ResponderShape, Older
    <3> QED BY <3>1, AgesAreNatural
  <2>3. serving.records \subseteq OwnRecords
    BY DEF ResponderShape, Serving
  <2> QED BY <2>1, <2>2, <2>3 DEF LogIsTrue
<1>11. CASE UNCHANGED responderVars
  <2>1. \A m : MulticastBy(m)' = MulticastBy(m)
    BY <1>11 DEF responderVars, MulticastBy
  <2> QED BY <1>11, <2>1 DEF responderVars, LogIsTrue
<1> QED BY <1>1, <1>2, <1>3, <1>5, <1>6, <1>7, <1>8, <1>9, <1>10, <1>11 DEF ResponderNext

\* Every step of the responder keeps its invariant.
LEMMA ResponderSteps == ResponderInv /\ [ResponderNext]_responderVars => ResponderInv'
  BY ShapeStays, RepliesStayLogged, LogStaysTrue DEF ResponderInv

\* responder.rs:251: whatever is asked and announced, and however sends, log entries and looks at the
\* log interleave, no record of a reply to all follows another reply by less than the rate limit, nor
\* any multicast unless an announcement raced with the reply.
THEOREM RepliesKeepTheRate == ResponderSpec => []RepliesRest
<1>1. ResponderInv => RepliesRest
  BY DEF ResponderInv, LogIsTrue, RepliesRest
<1> QED BY <1>1, ResponderStarts, ResponderSteps, PTL DEF ResponderSpec

\* responder.rs:235: a query is answered by unicast only while everyone who listened has every answer
\* with three quarters of its life left.
THEOREM UnicastWhenAllHaveIt == ResponderSpec => []UnicastOnlyWhileFresh
<1>1. ResponderInv => UnicastOnlyWhileFresh
  BY DEF ResponderInv, LogIsTrue, UnicastOnlyWhileFresh
<1> QED BY <1>1, ResponderStarts, ResponderSteps, PTL DEF ResponderSpec

\* The ages that are told apart, and the rounds of announcements that are left.
Aging ==
  /\ \A r \in OwnRecords : log[r] <= MaxAge /\ cached[r] <= MaxAge /\ replied[r] <= Rest
  /\ serving.answers \subseteq serving.records
  /\ announcing \in [left : 0..Rounds, wait : 0..Rest]
  /\ published \in {"yes", "withdrawn", "no"}

\* What is multicast is new, and what is older than MaxAge is as old as that.
LEMMA AgesBounded ==
  ASSUME NEW n \in Nat, NEW ages \in [OwnRecords -> Nat], \A r \in OwnRecords : ages[r] <= n
  PROVE  /\ \A records \in SUBSET OwnRecords : \A r \in OwnRecords : Refreshed(ages, records)[r] <= n
         /\ n = MaxAge => \A r \in OwnRecords : Older(ages[r]) <= n
  BY AgesAreNatural DEF Refreshed, Older

\* A reply's answers are among its records, and the announcing task counts down.
LEMMA AgingStays == ResponderShape /\ Aging /\ [ResponderNext]_responderVars => Aging'
<1> SUFFICES ASSUME ResponderShape, Aging, [ResponderNext]_responderVars PROVE Aging'
  OBVIOUS
<1> USE AgesAreNatural, ResponderAssumption DEF Aging
<1>1. ASSUME NEW q \in Queries, HandleQuery(q) PROVE Aging'
  BY <1>1, QueryAnswered
<1>2. CASE SendReply
  <2>1. serving.records \in SUBSET OwnRecords
    BY DEF ResponderShape, Serving
  <2>2. \A r \in OwnRecords : cached'[r] <= MaxAge /\ replied'[r] <= Rest
    BY <1>2, <2>1, AgesBounded DEF SendReply, ResponderShape
  <2> QED BY <1>2, <2>2 DEF SendReply, NoReply
<1>3. CASE ReplyFails \/ StopsTasks
  BY <1>3 DEF ReplyFails, StopsTasks, NoReply
<1>4. ASSUME NEW m, MulticastAll(m)
      PROVE  (\A r \in OwnRecords : cached'[r] <= MaxAge) /\ serving'.answers \subseteq serving'.records
  BY <1>4, ReplyRaced
<1>5. CASE Announce
  <2>1. /\ announcing' \in [left : 0..Rounds, wait : 0..Rest]
        /\ UNCHANGED <<log, replied, published>>
    BY <1>5 DEF Announce
  <2>2. CASE MulticastAll("announce")
    BY <1>4, <2>1, <2>2
  <2>3. CASE UNCHANGED <<cached, serving, unlogged>>
    BY <2>1, <2>3
  <2> QED BY <1>5, <2>2, <2>3 DEF Announce
<1>6. ASSUME NEW p \in Publishers, AnnounceNow(p) PROVE Aging'
  BY <1>4, <1>6 DEF AnnounceNow
<1>7. CASE Goodbye
  BY <1>7 DEF Goodbye
<1>8. ASSUME NEW m \in unlogged, RecordSent(m) PROVE Aging'
  BY <1>8 DEF RecordSent, Refreshed, NoReply
<1>9. CASE Tick
  <2>1. \A r \in OwnRecords : log'[r] <= MaxAge /\ cached'[r] <= MaxAge
    BY <1>9, AgesBounded DEF Tick, ResponderShape
  <2>2. \A r \in OwnRecords : replied'[r] <= Rest
    BY <1>9 DEF Tick, ResponderShape
  <2> QED BY <1>9, <2>1, <2>2 DEF Tick
<1>10. CASE UNCHANGED responderVars
  BY <1>10 DEF responderVars
<1> QED BY <1>1, <1>2, <1>3, <1>5, <1>6, <1>7, <1>8, <1>9, <1>10 DEF ResponderNext

\* responder.rs: a reply answers with records of the service, its additional ones the rest; only a
\* reply to all is in the course of being logged; no age that is told apart is passed, and no round
\* of announcements is announced twice.
THEOREM ResponderTypes == ResponderSpec => []ResponderTypeOK
<1>1. ResponderInit => Aging
  BY AgesAreNatural, ResponderAssumption DEF ResponderInit, Aging, NoReply
<1>2. ResponderInv /\ Aging => ResponderTypeOK
  <2> SUFFICES ASSUME ResponderInv, Aging PROVE ResponderTypeOK
    OBVIOUS
  <2> USE DEF ResponderInv, ResponderShape
  <2>1. log \in [OwnRecords -> 0..MaxAge] /\ cached \in [OwnRecords -> 0..MaxAge] /\ replied \in [OwnRecords -> 0..Rest]
    BY AgesAreNatural DEF Aging
  <2>2. serving.records \subseteq OwnRecords
    BY DEF Serving
  <2> QED BY <2>1, <2>2 DEF Aging, ResponderTypeOK
<1>3. ResponderInv /\ Aging /\ [ResponderNext]_responderVars => Aging'
  BY AgingStays DEF ResponderInv
<1> QED BY <1>1, <1>2, <1>3, ResponderStarts, ResponderSteps, PTL DEF ResponderSpec

-----------------------------------------------------------------------------
(* mDNS: the scanner                                                        *)

\* The types of a host that one message asks for.
Asked(h, m) == TypesOf[h] \cap QuestionsOf(m)

\* A datagram answers a message with what it asks for, or none.
AnswersOneMessage(d) ==
  /\ d.from \in Hosts
  /\ d.message = 0 \/ (d.message \in Messages /\ d.types = Asked(d.from, d.message))

Response(r) == DOMAIN r = {"count", "deep_sleep", "names", "details"} /\ r.count \in Nat

\* Of a host that was heard once for each message and not more, what is known is what it answered.
HeardOnce(count, details, h, messages) ==
  /\ messages \subseteq Messages
  /\ count = Cardinality(messages)
  /\ details = UNION {Asked(h, m) : m \in messages}

HostsHeard ==
  \A h \in Hosts \ repeats : HeardOnce(responses[h].count, responses[h].details, h, answered[h])

EndedRight ==
  \A h \in ended : responses[h].count >= Cardinality(Messages) /\ (h \in repeats \/ responses[h].details # {})

ScanInv ==
  /\ mode \in {"multicast", "unicast"} /\ ended \subseteq Hosts /\ unicasts \subseteq Hosts
  /\ DOMAIN responses = Hosts /\ \A h \in Hosts : Response(responses[h])
  /\ DOMAIN answered = Hosts
  /\ \A d \in network : AnswersOneMessage(d)
  /\ HostsHeard
  /\ EndedRight

\* The messages are a finite set of numbers.
LEMMA MessagesAreFinite ==
  /\ IsFiniteSet(Messages) /\ Cardinality(Messages) \in Nat
  /\ 0 \notin Messages /\ Messages \subseteq Nat
<1>1. (TypesAsked + PerMessage - 1) \div PerMessage \in Int
  BY ScanAssumption
<1>2. IsFiniteSet(Messages)
  BY <1>1, FS_Interval DEF Messages
<1> QED BY <1>1, <1>2, FS_CardinalityType DEF Messages

\* Division, once and for all.
LEMMA Quotient ==
  ASSUME NEW a \in Nat, NEW m \in Nat \ {0}
  PROVE  \E q \in Nat, r \in 0..m-1 : a = m * q + r /\ q = a \div m
  OBVIOUS

\* Every type is asked for in some message.
LEMMA EveryTypeIsAsked ==
  ASSUME NEW t \in 1..TypesAsked
  PROVE  \E m \in Messages : t \in QuestionsOf(m)
<1>1. TypesAsked \in Nat /\ PerMessage \in Nat \ {0} /\ t - 1 \in Nat
  BY ScanAssumption
<1>2. PICK q \in Nat, r \in 0..PerMessage-1 : t - 1 = PerMessage * q + r /\ q = (t - 1) \div PerMessage
  BY <1>1, Quotient
<1>3. TypesAsked + PerMessage - 1 \in Nat
  BY <1>1
<1>4. PICK p \in Nat, s \in 0..PerMessage-1 :
         TypesAsked + PerMessage - 1 = PerMessage * p + s /\ p = (TypesAsked + PerMessage - 1) \div PerMessage
  BY <1>1, <1>3, Quotient
<1>5. q + 1 <= p
  <2>1. SUFFICES ASSUME p <= q PROVE FALSE
    OBVIOUS
  <2>2. PerMessage * p <= PerMessage * q
    BY <1>1, <2>1
  <2> QED BY ONLY <1>1, <1>2, <1>4, <2>2, t \in 1..TypesAsked
<1>6. q + 1 \in Messages
  BY <1>2, <1>4, <1>5 DEF Messages
<1>7. t \in QuestionsOf(q + 1)
  <2>1. (q + 1 - 1) * PerMessage + 1 <= t /\ t <= (q + 1) * PerMessage + 1
    BY ONLY <1>1, <1>2, t \in 1..TypesAsked
  <2> QED BY <1>1, <1>2, <2>1 DEF QuestionsOf
<1> QED BY <1>6, <1>7

\* The messages together ask for all types.
LEMMA AllIsAsked ==
  ASSUME NEW h
  PROVE  UNION {Asked(h, m) : m \in Messages} = TypesOf[h] \cap 1..TypesAsked
  BY EveryTypeIsAsked DEF Asked, QuestionsOf

\* A host heard once for as many messages as there are has answered all of them.
LEMMA CountedIsAll ==
  ASSUME NEW h, NEW messages, NEW count, NEW details, HeardOnce(count, details, h, messages),
         count >= Cardinality(Messages)
  PROVE  details = TypesOf[h] \cap 1..TypesAsked
<1>1. messages \subseteq Messages /\ count = Cardinality(messages)
  BY DEF HeardOnce
<1>2. Cardinality(messages) <= Cardinality(Messages) /\ IsFiniteSet(messages)
  BY <1>1, MessagesAreFinite, FS_Subset
<1>3. Cardinality(messages) \in Nat
  BY <1>2, FS_CardinalityType
<1>4. Cardinality(Messages) = Cardinality(messages)
  BY <1>1, <1>2, <1>3, MessagesAreFinite
<1>5. messages = Messages
  BY <1>1, <1>4, MessagesAreFinite, FS_Subset
<1> QED BY <1>5, AllIsAsked DEF HeardOnce

\* The answer to one more message.
LEMMA HeardOnceMore ==
  ASSUME NEW h, NEW messages, NEW count, NEW details, HeardOnce(count, details, h, messages),
         NEW m \in Messages, m \notin messages
  PROVE  HeardOnce(count + 1, details \cup Asked(h, m), h, messages \cup {m})
<1>1. messages \subseteq Messages /\ IsFiniteSet(messages)
  BY MessagesAreFinite, FS_Subset DEF HeardOnce
<1>2. Cardinality(messages \cup {m}) = Cardinality(messages) + 1
  BY <1>1, FS_AddElement
<1>3. UNION {Asked(h, k) : k \in messages \cup {m}} = (UNION {Asked(h, k) : k \in messages}) \cup Asked(h, m)
  OBVIOUS
<1> QED BY <1>1, <1>2, <1>3 DEF HeardOnce

\* Nothing was heard before the first round.
LEMMA ScanStarts == ScanInit => ScanInv
<1> SUFFICES ASSUME ScanInit PROVE ScanInv
  OBVIOUS

<1>1. ASSUME NEW h \in Hosts PROVE HeardOnce(0, {}, h, {})
  BY FS_EmptySet DEF HeardOnce
<1>2. \A h \in Hosts : responses[h] = [count |-> 0, deep_sleep |-> FALSE, names |-> {}, details |-> {}]
                       /\ answered[h] = {}
  BY DEF ScanInit
<1>3. HostsHeard
  BY <1>1, <1>2 DEF HostsHeard
<1>4. \A h \in Hosts : Response(responses[h])
  BY <1>2 DEF Response
<1> QED BY <1>3, <1>4 DEF ScanInit, ScanInv, EndedRight

\* What comes into the network answers one message or none.
LEMMA AnswersAreOfMessages ==
  ASSUME NEW asleep, NEW d \in AnswersTo(asleep), unicasts \subseteq Hosts
  PROVE  AnswersOneMessage(d)
  BY DEF AnswersTo, Datagram, AnswersOneMessage, Asked

\* What an answer adds to what is known of its host.
LEMMA AddFacts ==
  ASSUME NEW r, Response(r), NEW d, NEW deep_sleep
  PROVE  /\ Response(Add(r, d)) /\ Add(r, d).count = r.count + 1
         /\ Add(r, d).details = IF d.detail THEN r.details \cup d.types ELSE r.details
         /\ Response([Add(r, d) EXCEPT !.deep_sleep = deep_sleep])
         /\ [Add(r, d) EXCEPT !.deep_sleep = deep_sleep].count = r.count + 1
         /\ [Add(r, d) EXCEPT !.deep_sleep = deep_sleep].details =
               IF d.detail THEN r.details \cup d.types ELSE r.details
  BY DEF Response, Add

\* A datagram that is accepted: its host is heard once more, or set aside.
LEMMA AcceptedKeeps ==
  ASSUME ScanInv, NEW d \in network, NEW r, responses' = [responses EXCEPT ![d.from] = r],
         Response(r), r.count = responses[d.from].count + 1,
         r.details = IF d.detail THEN responses[d.from].details \cup d.types ELSE responses[d.from].details,
         d.types # {},
         IF d.detail /\ d.message \notin answered[d.from] \cup {0}
         THEN answered' = [answered EXCEPT ![d.from] = @ \cup {d.message}] /\ repeats' = repeats
         ELSE answered' = answered /\ repeats' = repeats \cup {d.from}
  PROVE  /\ HostsHeard' /\ DOMAIN responses' = Hosts /\ DOMAIN answered' = Hosts
         /\ \A h \in Hosts : Response(responses'[h])
         /\ \A h \in Hosts : h # d.from => responses'[h] = responses[h]
         /\ responses'[d.from] = r
         /\ d.from \notin repeats' => r.details # {}
<1> DEFINE h == d.from
           new == d.detail /\ d.message \notin answered[h] \cup {0}
<1>1. h \in Hosts /\ DOMAIN responses = Hosts /\ DOMAIN answered = Hosts /\ AnswersOneMessage(d)
  BY DEF ScanInv, AnswersOneMessage
<1>2. /\ DOMAIN responses' = Hosts /\ DOMAIN answered' = Hosts /\ responses'[h] = r
      /\ \A x \in Hosts : x # h => responses'[x] = responses[x] /\ answered'[x] = answered[x]
  BY <1>1
<1>3. \A x \in Hosts : Response(responses'[x])
  BY <1>2 DEF ScanInv
<1>4. h \notin repeats' => new /\ h \notin repeats
  OBVIOUS
<1>5. ASSUME h \notin repeats'
      PROVE  HeardOnce(responses'[h].count, responses'[h].details, h, answered'[h]) /\ r.details # {}
  <2>1. /\ d.message \in Messages /\ d.types = Asked(h, d.message) /\ d.message \notin answered[h]
        /\ answered'[h] = answered[h] \cup {d.message}
        /\ r.details = responses[h].details \cup d.types
    BY <1>1, <1>4, <1>5 DEF AnswersOneMessage
  <2>2. HeardOnce(responses[h].count, responses[h].details, h, answered[h])
    BY <1>1, <1>4, <1>5 DEF ScanInv, HostsHeard
  <2> HIDE DEF h
  <2>3. HeardOnce(responses[h].count + 1, responses[h].details \cup Asked(h, d.message), h, answered[h] \cup {d.message})
    BY <2>1, <2>2, HeardOnceMore
  <2>4. r.count = responses[h].count + 1
    BY DEF h
  <2>5. responses'[h].count = responses[h].count + 1
        /\ responses'[h].details = responses[h].details \cup Asked(h, d.message)
    BY <1>2, <2>1, <2>4
  <2> QED BY <2>1, <2>3, <2>5
<1>6. \A x \in Hosts : x # h /\ x \notin repeats' => HeardOnce(responses'[x].count, responses'[x].details, x, answered'[x])
  <2>1. repeats \subseteq repeats'
    OBVIOUS
  <2> QED BY <1>2, <2>1 DEF ScanInv, HostsHeard
<1> QED BY <1>1, <1>2, <1>3, <1>5, <1>6 DEF HostsHeard

\* An answer of the host that ends the browse, or its unicast query, was counted like the others.
LEMMA ReceiveSteps == ScanInv /\ Receive => ScanInv'
<1> SUFFICES ASSUME ScanInv, Receive PROVE ScanInv'
  OBVIOUS
<1>1. PICK d \in network :
         LET accepted == IF mode = "multicast" THEN Interesting(d) ELSE d.types # {}
             new == d.detail /\ d.message \notin answered[d.from] \cup {0}
         IN  /\ IF mode = "multicast" THEN HandleDatagram(d) ELSE Collect(d)
             /\ answered' = IF accepted /\ new
                            THEN [answered EXCEPT ![d.from] = @ \cup {d.message}] ELSE answered
             /\ repeats' = IF accepted /\ ~new THEN repeats \cup {d.from} ELSE repeats
  BY DEF Receive
<1> DEFINE h == d.from
           r == Add(responses[h], d)
<1>2. UNCHANGED <<mode, network>> /\ ~Over /\ h \in Hosts /\ Response(responses[h])
  BY DEF Receive, ScanInv, AnswersOneMessage
<1>3. CASE mode = "multicast" /\ ~Interesting(d)
  <2>1. UNCHANGED <<responses, unicasts, ended, answered, repeats>>
    BY <1>1, <1>3 DEF HandleDatagram
  <2> QED BY <1>2, <2>1 DEF ScanInv, HostsHeard, EndedRight
<1>4. CASE mode = "multicast" /\ Interesting(d)
  <2> DEFINE s == [r EXCEPT !.deep_sleep = @ \/ ~d.detail]
  <2>1. /\ responses' = [responses EXCEPT ![h] = s]
        /\ unicasts' \subseteq unicasts \cup {h}
        /\ ended' = IF d.detail /\ r.count >= Cardinality(Messages) /\ EndCondition(h, r)
                    THEN {h} ELSE ended
    BY <1>1, <1>4 DEF HandleDatagram, Accept
  <2>2. /\ Response(s) /\ s.count = responses[h].count + 1 /\ s.count = r.count
        /\ s.details = IF d.detail THEN responses[h].details \cup d.types ELSE responses[h].details
        /\ s.details = r.details
    <3>1. PICK x : s = [r EXCEPT !.deep_sleep = x]
      OBVIOUS
    <3> HIDE DEF s
    <3> QED BY SMTT(60), <1>2, <3>1, AddFacts
  <2>3. d.types # {}
    BY <1>4 DEF Interesting
  <2>4. IF d.detail /\ d.message \notin answered[h] \cup {0}
        THEN answered' = [answered EXCEPT ![h] = @ \cup {d.message}] /\ repeats' = repeats
        ELSE answered' = answered /\ repeats' = repeats \cup {h}
    BY <1>1, <1>4
  <2> HIDE DEF s, r
  <2>5. /\ HostsHeard' /\ DOMAIN responses' = Hosts /\ DOMAIN answered' = Hosts
        /\ \A x \in Hosts : Response(responses'[x])
        /\ responses'[h] = s
    BY <2>1, <2>2, <2>3, <2>4, AcceptedKeeps
  <2>6. ended = {}
    BY <1>2, <1>4 DEF Over
  <2>7. EndedRight'
    BY <2>1, <2>2, <2>5, <2>6 DEF EndedRight, EndCondition
  <2>8. ended' \subseteq Hosts /\ unicasts' \subseteq Hosts
    BY <1>2, <2>1, <2>6 DEF ScanInv
  <2> QED BY <1>2, <2>5, <2>7, <2>8 DEF ScanInv
<1>5. CASE mode = "unicast" /\ d.types = {}
  <2>1. UNCHANGED <<responses, unicasts, ended, answered, repeats>>
    BY <1>1, <1>5 DEF Collect
  <2> QED BY <1>2, <2>1 DEF ScanInv, HostsHeard, EndedRight
<1>6. CASE mode = "unicast" /\ d.types # {}
  <2>1. /\ responses' = [responses EXCEPT ![h] = r] /\ unicasts' = unicasts /\ h \notin ended
        /\ ended' = IF r.count >= Cardinality(Messages) THEN ended \cup {h} ELSE ended
    BY <1>1, <1>6 DEF Collect, Accept
  <2>2. /\ Response(r) /\ r.count = responses[h].count + 1
        /\ r.details = IF d.detail THEN responses[h].details \cup d.types ELSE responses[h].details
    BY <1>2, AddFacts
  <2>3. IF d.detail /\ d.message \notin answered[h] \cup {0}
        THEN answered' = [answered EXCEPT ![h] = @ \cup {d.message}] /\ repeats' = repeats
        ELSE answered' = answered /\ repeats' = repeats \cup {h}
    BY <1>1, <1>6
  <2> HIDE DEF r
  <2>4. /\ HostsHeard' /\ DOMAIN responses' = Hosts /\ DOMAIN answered' = Hosts
        /\ \A x \in Hosts : Response(responses'[x])
        /\ \A x \in Hosts : x # h => responses'[x] = responses[x]
        /\ responses'[h] = r
        /\ h \notin repeats' => r.details # {}
    BY <1>6, <2>1, <2>2, <2>3, AcceptedKeeps
  <2>5. EndedRight'
    <3>1. repeats \subseteq repeats'
      BY <2>3
    <3> QED BY <2>1, <2>4, <3>1 DEF ScanInv, EndedRight
  <2> QED BY <1>2, <2>1, <2>4, <2>5 DEF ScanInv
<1> QED BY <1>3, <1>4, <1>5, <1>6 DEF ScanInv

\* Every step of the scan keeps its invariant.
LEMMA ScanSteps == ScanInv /\ [ScanNext]_scanVars => ScanInv'
<1> SUFFICES ASSUME ScanInv, [ScanNext]_scanVars PROVE ScanInv'
  OBVIOUS
<1>1. ASSUME UNCHANGED <<mode, responses, unicasts, ended, answered, repeats>>,
             \A d \in network' : AnswersOneMessage(d)
      PROVE  ScanInv'
  BY <1>1 DEF ScanInv, HostsHeard, EndedRight
<1>2. CASE SendRound
  <2>1. PICK asleep : network' = network \cup AnswersTo(asleep)
    BY <1>2 DEF SendRound
  <2>2. \A d \in network' : AnswersOneMessage(d)
    BY <2>1, AnswersAreOfMessages DEF ScanInv
  <2> QED BY <1>1, <1>2, <2>2 DEF SendRound
<1>3. CASE Unasked
  <2>1. \A d \in network' : AnswersOneMessage(d)
    BY <1>3 DEF Unasked, Datagram, AnswersOneMessage, ScanInv
  <2> QED BY <1>1, <1>3, <2>1 DEF Unasked
<1>4. CASE Receive
  BY <1>4, ReceiveSteps
<1>5. CASE UNCHANGED scanVars
  BY <1>1, <1>5 DEF scanVars, ScanInv
<1> QED BY <1>2, <1>3, <1>4, <1>5 DEF ScanNext

\* multicast.rs:298: for any number of types to a message, hosts and rounds, in whatever order
\* datagrams come: a scan that ended early has every service of the host that ended it, if each of
\* its answers was that of another message and in detail.
THEOREM EarlyEndHasAll == ScanSpec => []EarlyEndIsComplete
<1>1. ScanInv => EarlyEndIsComplete
  <2> SUFFICES ASSUME ScanInv, NEW h \in ended \ repeats
               PROVE  h \in DOMAIN ScanResult /\ ScanResult[h] = TypesOf[h] \cap 1..TypesAsked
    BY DEF EarlyEndIsComplete
  <2>1. h \in Hosts /\ responses[h].count >= Cardinality(Messages) /\ responses[h].details # {}
    BY DEF ScanInv, EndedRight
  <2>2. HeardOnce(responses[h].count, responses[h].details, h, answered[h])
    BY <2>1 DEF ScanInv, HostsHeard
  <2>3. responses[h].details = TypesOf[h] \cap 1..TypesAsked
    BY <2>1, <2>2, CountedIsAll
  <2> QED BY <2>1, <2>3 DEF ScanResult
<1> QED BY <1>1, ScanStarts, ScanSteps, PTL DEF ScanSpec

\* A browse ends with one host at most, and what is known in detail is known by name.
OneEnds ==
  /\ mode = "multicast" => \A x, y \in ended : x = y
  /\ \A h \in Hosts : responses[h].details \subseteq responses[h].names

\* A datagram adds to the names whatever it adds in detail.
LEMMA AddsToBoth ==
  ASSUME NEW r, Response(r), NEW d, r.details \subseteq r.names
  PROVE  /\ Add(r, d).details \subseteq Add(r, d).names
         /\ \A b : [Add(r, d) EXCEPT !.deep_sleep = b].details \subseteq [Add(r, d) EXCEPT !.deep_sleep = b].names
<1>1. /\ Add(r, d).details \in {r.details, r.details \cup d.types} /\ Add(r, d).names = r.names \cup d.types
      /\ \A b : /\ [Add(r, d) EXCEPT !.deep_sleep = b].details = Add(r, d).details
                /\ [Add(r, d) EXCEPT !.deep_sleep = b].names = Add(r, d).names
  BY DEF Add, Response
<1> QED BY <1>1

\* The datagram that ends a browse is the last one that is received.
LEMMA OneEndsStays == ScanInv /\ OneEnds /\ [ScanNext]_scanVars => OneEnds'
<1> SUFFICES ASSUME ScanInv, OneEnds, [ScanNext]_scanVars PROVE OneEnds'
  OBVIOUS
<1>1. CASE UNCHANGED <<mode, responses, ended>>
  BY <1>1 DEF OneEnds
<1>2. CASE Receive
  <2>1. PICK d \in network : IF mode = "multicast" THEN HandleDatagram(d) ELSE Collect(d)
    BY <1>2 DEF Receive
  <2>2. d.from \in Hosts /\ Response(responses[d.from]) /\ DOMAIN responses = Hosts /\ mode' = mode
    BY <1>2, <2>1 DEF ScanInv, AnswersOneMessage, Receive
  <2> DEFINE r == Add(responses[d.from], d)
             s == [r EXCEPT !.deep_sleep = @ \/ ~d.detail]
  <2>3. r.details \subseteq r.names /\ s.details \subseteq s.names
    BY <2>2, AddsToBoth DEF OneEnds
  <2>4. responses' = responses \/ responses' = [responses EXCEPT ![d.from] = r]
        \/ responses' = [responses EXCEPT ![d.from] = s]
    BY <2>1 DEF HandleDatagram, Collect, Accept
  <2>5. mode = "multicast" => ended' \in {ended, {d.from}}
    BY <2>1 DEF HandleDatagram
  <2> HIDE DEF r, s
  <2>6. \A h \in Hosts : responses'[h].details \subseteq responses'[h].names
    BY <2>2, <2>3, <2>4 DEF OneEnds
  <2> QED BY <2>2, <2>5, <2>6 DEF OneEnds
<1> QED BY <1>1, <1>2 DEF ScanNext, SendRound, Unasked, scanVars

\* multicast.rs:298: the first host that ends a browse is the only one; a service that is known in
\* detail is known by name, in whatever order its records came.
THEOREM ScanTypes == ScanSpec => []ScanTypeOK
<1>1. ScanInit => OneEnds
  BY DEF ScanInit, OneEnds
<1>2. ScanInv /\ OneEnds => ScanTypeOK
  <2> SUFFICES ASSUME ScanInv, OneEnds, mode = "multicast" PROVE Cardinality(ended) <= 1
    BY DEF ScanTypeOK, OneEnds
  <2>1. CASE ended = {}
    BY <2>1, FS_EmptySet
  <2>2. CASE ended # {}
    <3>1. PICK h : h \in ended
      BY <2>2
    <3>2. ended = {h}
      BY <3>1 DEF OneEnds
    <3> QED BY <3>2, FS_Singleton
  <2> QED BY <2>1, <2>2
<1> QED BY <1>1, <1>2, ScanStarts, ScanSteps, OneEndsStays, PTL DEF ScanSpec

-----------------------------------------------------------------------------
(* MRP: what plays                                                          *)

\* A player, and what is shown of one.
Player == [state : States \cup {NoName}, item : Queues \cup {NoItem}]

\* A client with its players; and the tree of all of them.
IsClient(c) ==
  /\ c = [active |-> c.active, players |-> c.players]
  /\ \A p \in DOMAIN c.players : c.players[p] \in Player

IsTree(tree) == DOMAIN tree \subseteq Clients /\ \A c \in DOMAIN tree : IsClient(tree[c])

\* What the listener was told last, once all that is queued is delivered.
LastTold(q, s) == IF q = <<>> THEN s ELSE q[Len(q)]

PlayersInv ==
  /\ IsTree(clients) /\ playing \in DOMAIN clients \cup {NoName}
  /\ active \in BOOLEAN /\ excused \in BOOLEAN
  /\ DOMAIN posters = Posters
  /\ \A t \in Posters : /\ posters[t] = [at |-> posters[t].at, view |-> posters[t].view]
                        /\ posters[t].view \in Player
  /\ queue \in Seq(Player) /\ Len(queue) <= Depth /\ shown \in Player
  /\ (\A t \in Posters : posters[t].at = "none") /\ active /\ ~excused => LastTold(queue, shown) = Now

\* Nothing plays without a client.
LEMMA NobodyPlays ==
  ASSUME NEW tree, NEW client, client \notin DOMAIN tree
  PROVE  View(tree, client) = Nothing
  BY DEF View, PlayingId

\* What plays is of the active client alone.
LEMMA SameClient ==
  ASSUME NEW tree, NEW other, NEW client,
         client \in DOMAIN tree <=> client \in DOMAIN other,
         client \in DOMAIN tree => tree[client] = other[client]
  PROVE  View(tree, client) = View(other, client)
<1>1. CASE client \in DOMAIN tree
  BY <1>1 DEF View, PlayingId
<1>2. CASE client \notin DOMAIN tree
  BY <1>2, NobodyPlays
<1> QED BY <1>1, <1>2

\* What is read of the tree can be queued.
LEMMA ViewIsPlayer ==
  ASSUME NEW tree, IsTree(tree), NEW client
  PROVE  View(tree, client) \in Player
<1>1. Nothing \in Player
  BY DEF Nothing, Player
<1>2. CASE client \notin DOMAIN tree
  BY <1>1, <1>2, NobodyPlays
<1>3. CASE client \in DOMAIN tree
  <2>1. IsClient(tree[client])
    BY <1>3 DEF IsTree
  <2> DEFINE id == ActiveId(tree[client])
  <2>2. CASE id \notin DOMAIN tree[client].players
    BY <1>1, <2>2 DEF View, PlayingId
  <2>3. CASE id \in DOMAIN tree[client].players
    <3>1. tree[client].players[id] \in Player /\ PlayingId(tree, client) = id
      BY <1>3, <2>1, <2>3 DEF IsClient, PlayingId
    <3> HIDE DEF id
    <3>2. PlaybackState(tree[client].players[id]) \in States \cup {NoName} /\ tree[client].players[id].item \in Queues \cup {NoItem}
      BY <3>1 DEF PlaybackState, Player
    <3>3. View(tree, client) = IF id = NoName THEN Nothing
                               ELSE [state |-> PlaybackState(tree[client].players[id]), item |-> tree[client].players[id].item]
      BY <3>1 DEF View
    <3> QED BY <1>1, <3>2, <3>3 DEF Player
  <2> QED BY <2>2, <2>3
<1> QED BY <1>2, <1>3

\* A client that comes in place of what was there.
LEMMA WithClientFacts ==
  ASSUME PlayersInv, NEW c \in Clients, NEW client, IsClient(client)
  PROVE  /\ IsTree(WithClient(c, client)) /\ DOMAIN WithClient(c, client) = DOMAIN clients \cup {c}
         /\ WithClient(c, client)[c] = client
         /\ \A k \in DOMAIN clients : k # c => WithClient(c, client)[k] = clients[k]
  BY DEF PlayersInv, IsTree, WithClient, With

\* client_mut gives the client that is there, or a new one.
LEMMA ClientOfFacts ==
  ASSUME PlayersInv, NEW c \in Clients
  PROVE  IsClient(ClientOf(c)) /\ (c \in DOMAIN clients => ClientOf(c) = clients[c])
<1>1. IsClient(NewClient)
  BY DEF NewClient, IsClient
<1> QED BY <1>1 DEF ClientOf, PlayersInv, IsTree

\* The tree changes at one client: what plays does not, if it is another.
LEMMA OtherClientPlays ==
  ASSUME PlayersInv, NEW c \in Clients, NEW client, IsClient(client), playing # c
  PROVE  View(WithClient(c, client), playing) = Now
<1> DEFINE tree == WithClient(c, client)
<1>1. DOMAIN tree = DOMAIN clients \cup {c} /\ \A k \in DOMAIN clients : k # c => tree[k] = clients[k]
  BY ONLY PlayersInv, c \in Clients, IsClient(client), WithClientFacts
<1> HIDE DEF tree
<1>2. View(tree, playing) = View(clients, playing)
  <2>1. playing \in DOMAIN tree <=> playing \in DOMAIN clients
    BY <1>1
  <2>2. playing \in DOMAIN tree => tree[playing] = clients[playing]
    BY <1>1, <2>1
  <2> QED BY <2>1, <2>2, SameClient
<1> QED BY <1>2 DEF Now, tree

\* The players of a client with one more, or another in its place.
LEMMA WithFacts ==
  ASSUME NEW f, NEW p, NEW player
  PROVE  /\ DOMAIN With(f, p, player) = DOMAIN f \cup {p}
         /\ With(f, p, player)[p] = player
         /\ \A k \in DOMAIN f : k # p => With(f, p, player)[k] = f[k]
  BY DEF With

\* A client of players is still one with one more of them.
LEMMA WithIsClient ==
  ASSUME NEW name, NEW f, \A k \in DOMAIN f : f[k] \in Player, NEW p, NEW player \in Player
  PROVE  IsClient([active |-> name, players |-> With(f, p, player)])
<1>1. \A k \in DOMAIN With(f, p, player) : With(f, p, player)[k] \in Player
  <2> SUFFICES ASSUME NEW k \in DOMAIN With(f, p, player) PROVE With(f, p, player)[k] \in Player
    OBVIOUS
  <2>1. CASE k = p
    BY <2>1 DEF With
  <2>2. CASE k # p
    <3>1. k \in DOMAIN f /\ With(f, p, player)[k] = f[k]
      BY <2>2 DEF With
    <3> QED BY <3>1
  <2> QED BY <2>1, <2>2
<1> QED BY <1>1 DEF IsClient

\* Two clients that agree on all players but one, which plays in neither:
\* what plays is the same.
LEMMA SameButOne ==
  ASSUME NEW tree, NEW other, NEW c, NEW p, p # NoName,
         c \in DOMAIN tree, c \in DOMAIN other,
         tree[c].active = other[c].active,
         DOMAIN tree[c].players \cup {p} = DOMAIN other[c].players \cup {p},
         \A k \in DOMAIN tree[c].players : k # p => tree[c].players[k] = other[c].players[k],
         ActiveId(tree[c]) # p, ActiveId(other[c]) # p
  PROVE  View(tree, c) = View(other, c)
<1>1. ActiveId(tree[c]) = ActiveId(other[c])
  BY DEF ActiveId
<1>2. PlayingId(tree, c) = PlayingId(other, c)
  BY <1>1 DEF PlayingId
<1>3. CASE PlayingId(tree, c) = NoName
  BY <1>2, <1>3 DEF View
<1>4. CASE PlayingId(tree, c) # NoName
  <2> DEFINE id == ActiveId(tree[c])
  <2>1. id \in DOMAIN tree[c].players /\ PlayingId(tree, c) = id /\ id # p
    BY <1>4 DEF PlayingId
  <2> HIDE DEF id
  <2>2. tree[c].players[id] = other[c].players[id]
    BY <2>1
  <2> QED BY <1>2, <2>1, <2>2 DEF View
<1> QED BY <1>3, <1>4

\* SET_STATE_MESSAGE of a player that does not play changes nothing that plays.
LEMMA OtherPlayerPlays ==
  ASSUME PlayersInv, NEW c \in Clients, NEW p, NEW player \in Player,
         ~ShouldNotify(WithPlayer(c, p, player), playing, OfPlayer(p))
  PROVE  View(WithPlayer(c, p, player), playing) = Now
<1> DEFINE old == ClientOf(c)
           client == [active |-> old.active, players |-> With(old.players, p, player)]
<1>1. IsClient(old) /\ (c \in DOMAIN clients => old = clients[c])
  BY ClientOfFacts
<1>2. WithPlayer(c, p, player) = WithClient(c, client)
  <2>1. old = [active |-> old.active, players |-> old.players]
    BY <1>1 DEF IsClient
  <2>2. [old EXCEPT !.players = With(@, p, player)] = client
    BY <2>1
  <2> QED BY <2>2 DEF WithPlayer
<1> HIDE DEF old
<1>3. IsClient(client)
  BY <1>1, WithIsClient DEF IsClient
<1>4. CASE playing # c
  BY <1>2, <1>3, <1>4, OtherClientPlays
<1>5. CASE playing = c
  <2> DEFINE tree == WithClient(c, client)
  <2>1. c # NoName
    BY PlayersAssumption
  <2>2. c \in DOMAIN clients /\ old = clients[c]
    BY <1>1, <1>5, <2>1 DEF PlayersInv
  <2>3. tree[c] = client /\ c \in DOMAIN tree
    BY ZenonT(60), <1>3, WithClientFacts
  <2>4. p # NoName /\ p # PlayingId(tree, c)
    BY <1>2, <1>5, <2>1 DEF ShouldNotify, OfPlayer
  <2>5. /\ client.active = clients[c].active
        /\ DOMAIN client.players = DOMAIN clients[c].players \cup {p}
        /\ \A k \in DOMAIN clients[c].players : k # p => client.players[k] = clients[c].players[k]
    <3>1. client.active = old.active /\ client.players = With(old.players, p, player)
      OBVIOUS
    <3> HIDE DEF client
    <3>2. /\ DOMAIN client.players = DOMAIN old.players \cup {p}
          /\ \A k \in DOMAIN old.players : k # p => client.players[k] = old.players[k]
      BY ONLY <3>1 DEF With
    <3> QED BY ONLY <2>2, <3>1, <3>2
  <2> HIDE DEF tree, client
  <2>6. ActiveId(client) # p
    BY <2>3, <2>4, <2>5 DEF PlayingId
  <2>7. ActiveId(clients[c]) # p
    BY <2>5, <2>6, PlayersAssumption DEF ActiveId
  <2>8. View(tree, c) = View(clients, c)
    <3>1. /\ tree[c].active = clients[c].active
          /\ DOMAIN clients[c].players \cup {p} = DOMAIN tree[c].players \cup {p}
          /\ \A k \in DOMAIN clients[c].players : k # p => clients[c].players[k] = tree[c].players[k]
      BY <2>3, <2>5
    <3> QED BY <2>2, <2>3, <2>4, <2>6, <2>7, <3>1, SameButOne
  <2> QED BY <1>2, <1>5, <2>8 DEF Now, tree
<1> QED BY <1>4, <1>5

\* The tree without one client.
LEMMA WithoutClient ==
  ASSUME PlayersInv, NEW c \in Clients
  PROVE  /\ IsTree(Restrict(clients, DOMAIN clients \ {c}))
         /\ DOMAIN Restrict(clients, DOMAIN clients \ {c}) = DOMAIN clients \ {c}
         /\ playing # c => View(Restrict(clients, DOMAIN clients \ {c}), playing) = Now
<1> DEFINE tree == Restrict(clients, DOMAIN clients \ {c})
<1>1. DOMAIN tree = DOMAIN clients \ {c} /\ \A k \in DOMAIN clients : k # c => tree[k] = clients[k]
  BY DEF Restrict
<1> HIDE DEF tree
<1>2. IsTree(tree)
  <2>1. DOMAIN clients \subseteq Clients /\ \A k \in DOMAIN clients : IsClient(clients[k])
    BY DEF PlayersInv, IsTree
  <2>2. \A k \in DOMAIN tree : IsClient(tree[k])
    <3> SUFFICES ASSUME NEW k \in DOMAIN tree PROVE IsClient(tree[k])
      OBVIOUS
    <3>1. k \in DOMAIN clients /\ tree[k] = clients[k]
      BY <1>1
    <3> QED BY <2>1, <3>1
  <2> QED BY <1>1, <2>1, <2>2 DEF IsTree
<1>3. ASSUME playing # c PROVE View(tree, playing) = View(clients, playing)
  <2>1. playing \in DOMAIN tree <=> playing \in DOMAIN clients
    BY <1>1, <1>3
  <2>2. playing \in DOMAIN tree => tree[playing] = clients[playing]
    BY <1>1, <1>3, <2>1
  <2> QED BY <2>1, <2>2, SameClient
<1> QED BY <1>1, <1>2, <1>3 DEF Now, tree

\* mutate: what is read later, or was read before, makes up for the change;
\* or the view is the same; or the change is one of those that are excused.
LEMMA MutateKeeps ==
  ASSUME PlayersInv, NEW tree, IsTree(tree), NEW client \in DOMAIN tree \cup {NoName},
         clients' = tree, playing' = client, UNCHANGED <<active, queue, shown>>,
         \/ posters' = [posters EXCEPT !["actor"].at = "read"]
         \/ /\ posters' = posters
            /\ excused' \/ (~excused /\ View(tree, client) = Now),
         excused' \in BOOLEAN
  PROVE  PlayersInv'
<1>1. /\ IsTree(clients') /\ playing' \in DOMAIN clients' \cup {NoName}
      /\ active' \in BOOLEAN /\ queue' \in Seq(Player) /\ Len(queue') <= Depth /\ shown' \in Player
  BY DEF PlayersInv
<1>2. LastTold(queue', shown') = LastTold(queue, shown) /\ Now' = View(tree, client)
  BY DEF Now
<1>3. CASE posters' = [posters EXCEPT !["actor"].at = "read"]
  <2>1. DOMAIN posters = Posters /\ "actor" \in Posters /\ "start" \in Posters
    BY DEF PlayersInv, Posters
  <2>2. posters["actor"] = [at |-> posters["actor"].at, view |-> posters["actor"].view] /\ posters["actor"].view \in Player
    BY <2>1 DEF PlayersInv
  <2>3. DOMAIN posters' = Posters /\ posters'["actor"].at = "read"
        /\ posters'["actor"] = [at |-> "read", view |-> posters["actor"].view]
        /\ \A t \in Posters : t # "actor" => posters'[t] = posters[t]
    BY <1>3, <2>1, <2>2
  <2>4. \A t \in Posters : posters'[t] = [at |-> posters'[t].at, view |-> posters'[t].view] /\ posters'[t].view \in Player
    BY <2>2, <2>3 DEF PlayersInv
  <2>5. ~\A t \in Posters : posters'[t].at = "none"
    BY <2>1, <2>3
  <2> QED BY <1>1, <2>3, <2>4, <2>5 DEF PlayersInv
<1>4. CASE posters' = posters /\ (excused' \/ (~excused /\ View(tree, client) = Now))
  <2>1. /\ DOMAIN posters' = Posters
        /\ \A t \in Posters : posters'[t] = [at |-> posters'[t].at, view |-> posters'[t].view] /\ posters'[t].view \in Player
    BY <1>4 DEF PlayersInv
  <2>2. ASSUME \A t \in Posters : posters'[t].at = "none", active', ~excused'
        PROVE  LastTold(queue', shown') = Now'
    <3>1. ~excused /\ View(tree, client) = Now /\ active /\ \A t \in Posters : posters[t].at = "none"
      BY <1>4, <2>2
    <3>2. LastTold(queue, shown) = Now
      BY <3>1 DEF PlayersInv
    <3> QED BY <1>2, <3>1, <3>2
  <2> QED BY <1>1, <2>1, <2>2 DEF PlayersInv
<1> QED BY <1>3, <1>4

\* Without a word, or with one.
LEMMA ScopedKeeps ==
  ASSUME PlayersInv, NEW tree, IsTree(tree), NEW client \in DOMAIN tree \cup {NoName}, NEW scope,
         Scoped(tree, client, scope), ~ShouldNotify(tree, client, scope) => View(tree, client) = Now
  PROVE  PlayersInv'
<1>1. /\ clients' = tree /\ playing' = client /\ UNCHANGED <<active, queue, shown>> /\ UNCHANGED excused
      /\ posters' = IF ShouldNotify(tree, client, scope) THEN [posters EXCEPT !["actor"].at = "read"] ELSE posters
  BY DEF Scoped, Mutate
<1>2. excused' \in BOOLEAN
  BY <1>1 DEF PlayersInv
<1>3. CASE ShouldNotify(tree, client, scope)
  BY <1>1, <1>2, <1>3, MutateKeeps
<1>4. CASE ~ShouldNotify(tree, client, scope)
  <2>1. posters' = posters /\ View(tree, client) = Now
    BY <1>1, <1>4
  <2>2. excused' \/ (~excused /\ View(tree, client) = Now)
    BY <1>1, <2>1
  <2> QED BY <1>1, <1>2, <2>1, <2>2, MutateKeeps
<1> QED BY <1>3, <1>4

\* A player that comes in place of what was there.
LEMMA WithPlayerFacts ==
  ASSUME PlayersInv, NEW c \in Clients, NEW p, NEW player \in Player
  PROVE  /\ IsTree(WithPlayer(c, p, player))
         /\ DOMAIN WithPlayer(c, p, player) = DOMAIN clients \cup {c}
<1> DEFINE old == ClientOf(c)
           client == [active |-> old.active, players |-> With(old.players, p, player)]
<1>1. IsClient(old)
  BY ClientOfFacts
<1>2. WithPlayer(c, p, player) = WithClient(c, client)
  <2>1. old = [active |-> old.active, players |-> old.players]
    BY <1>1 DEF IsClient
  <2>2. [old EXCEPT !.players = With(@, p, player)] = client
    BY <2>1
  <2> QED BY <2>2 DEF WithPlayer
<1> HIDE DEF old
<1>3. IsClient(client)
  BY <1>1, WithIsClient DEF IsClient
<1> QED BY <1>2, <1>3, WithClientFacts

\* player_mut gives a player.
LEMMA PlayerOfFacts ==
  ASSUME PlayersInv, NEW c \in Clients, NEW p
  PROVE  PlayerOf(c, p) \in Player
<1>1. NewPlayer \in Player
  BY DEF NewPlayer, Player
<1>2. IsClient(ClientOf(c))
  BY ClientOfFacts
<1> QED BY <1>1, <1>2 DEF PlayerOf, IsClient

\* SET_STATE_MESSAGE.
LEMMA SetStateKeeps ==
  ASSUME PlayersInv, NEW c \in Clients, NEW p \in Players,
         NEW state \in States \cup {NoName}, NEW item \in Queues \cup {NoItem},
         SetState(c, p, state, item)
  PROVE  PlayersInv'
<1> DEFINE player == [state |-> IF state = NoName THEN PlayerOf(c, p).state ELSE state,
                      item |-> IF item = NoItem THEN PlayerOf(c, p).item
                               ELSE IF item = "empty" THEN NoItem ELSE item]
           tree == WithPlayer(c, p, player)
<1>1. Scoped(tree, playing, OfPlayer(p))
  BY DEF SetState
<1>2. player \in Player
  <2>1. PlayerOf(c, p) \in Player
    BY PlayerOfFacts
  <2> QED BY <2>1 DEF Player
<1> HIDE DEF player
<1>3. IsTree(tree) /\ playing \in DOMAIN tree \cup {NoName}
  <2>1. IsTree(tree) /\ DOMAIN tree = DOMAIN clients \cup {c}
    BY ONLY PlayersInv, c \in Clients, <1>2, WithPlayerFacts
  <2> HIDE DEF tree
  <2> QED BY <2>1 DEF PlayersInv
<1>4. ~ShouldNotify(tree, playing, OfPlayer(p)) => View(tree, playing) = Now
  BY <1>2, OtherPlayerPlays
<1> HIDE DEF tree
<1> QED BY <1>1, <1>3, <1>4, ScopedKeeps

\* SET_NOW_PLAYING_CLIENT_MESSAGE.
LEMMA SetNowPlayingClientKeeps ==
  ASSUME PlayersInv, NEW c \in Clients, SetNowPlayingClient(c)
  PROVE  PlayersInv'
<1> DEFINE tree == WithClient(c, ClientOf(c))
<1>1. Scoped(tree, c, Always)
  BY DEF SetNowPlayingClient
<1>2. IsTree(tree) /\ c \in DOMAIN tree \cup {NoName}
  BY ClientOfFacts, WithClientFacts
<1>3. ShouldNotify(tree, c, Always)
  BY DEF ShouldNotify, Always
<1> HIDE DEF tree
<1> QED BY <1>1, <1>2, <1>3, ScopedKeeps

\* The messages about one client.
LEMMA OneClientKeeps ==
  ASSUME PlayersInv, NEW c \in Clients, NEW client, IsClient(client),
         Scoped(WithClient(c, client), playing, OfClient(c))
  PROVE  PlayersInv'
<1> DEFINE tree == WithClient(c, client)
<1>1. IsTree(tree) /\ playing \in DOMAIN tree \cup {NoName}
  BY WithClientFacts DEF PlayersInv
<1>2. ~ShouldNotify(tree, playing, OfClient(c)) => View(tree, playing) = Now
  BY OtherClientPlays DEF ShouldNotify, OfClient
<1>3. Scoped(tree, playing, OfClient(c))
  OBVIOUS
<1> HIDE DEF tree
<1> QED BY <1>1, <1>2, <1>3, ScopedKeeps

\* SET_NOW_PLAYING_PLAYER_MESSAGE.
LEMMA SetNowPlayingPlayerKeeps ==
  ASSUME PlayersInv, NEW c \in Clients, NEW p \in Players, SetNowPlayingPlayer(c, p)
  PROVE  PlayersInv'
<1> DEFINE client == [active |-> p, players |-> With(ClientOf(c).players, p, PlayerOf(c, p))]
<1>1. IsClient(client)
  <2>1. IsClient(ClientOf(c)) /\ PlayerOf(c, p) \in Player
    BY ClientOfFacts, PlayerOfFacts
  <2> QED BY <2>1, WithIsClient DEF IsClient
<1>2. Scoped(WithClient(c, client), playing, OfClient(c))
  BY DEF SetNowPlayingPlayer
<1> HIDE DEF client
<1> QED BY <1>1, <1>2, OneClientKeeps

\* UPDATE_CLIENT_MESSAGE.
LEMMA UpdateClientKeeps ==
  ASSUME PlayersInv, NEW c \in Clients, UpdateClient(c)
  PROVE  PlayersInv'
<1>1. IsClient(ClientOf(c)) /\ Scoped(WithClient(c, ClientOf(c)), playing, OfClient(c))
  BY ClientOfFacts DEF UpdateClient
<1> QED BY <1>1, OneClientKeeps

\* REMOVE_CLIENT_MESSAGE.
LEMMA RemoveClientKeeps ==
  ASSUME PlayersInv, NEW c \in Clients, RemoveClient(c)
  PROVE  PlayersInv'
<1> DEFINE tree == Restrict(clients, DOMAIN clients \ {c})
           client == IF playing = c THEN NoName ELSE playing
<1>1. IsTree(tree) /\ client \in DOMAIN tree \cup {NoName}
  BY WithoutClient DEF PlayersInv
<1>2. playing # c => View(tree, client) = Now
  BY WithoutClient
<1>3. /\ clients' = tree /\ playing' = client /\ UNCHANGED <<active, queue, shown>> /\ UNCHANGED excused
      /\ posters' = IF c \in DOMAIN clients /\ playing = c THEN [posters EXCEPT !["actor"].at = "read"] ELSE posters
  BY DEF RemoveClient, Mutate
<1>4. playing = c => c \in DOMAIN clients
  BY PlayersAssumption DEF PlayersInv
<1>5. excused' \in BOOLEAN
  BY <1>3 DEF PlayersInv
<1> HIDE DEF tree, client
<1>6. CASE playing = c
  BY <1>1, <1>3, <1>4, <1>5, <1>6, MutateKeeps
<1>7. CASE playing # c
  <2>1. posters' = posters /\ View(tree, client) = Now
    BY <1>2, <1>3, <1>7
  <2>2. excused' \/ (~excused /\ View(tree, client) = Now)
    BY <1>3, <2>1
  <2> QED BY <1>1, <1>3, <1>5, <2>1, <2>2, MutateKeeps
<1> QED BY <1>6, <1>7

\* REMOVE_PLAYER_MESSAGE: the removal of a default player that nobody chose
\* is excused if it changes what plays.
LEMMA RemovePlayerKeeps ==
  ASSUME PlayersInv, NEW c \in Clients, NEW p \in Players, RemovePlayer(c, p)
  PROVE  PlayersInv'
<1> DEFINE old == ClientOf(c)
           left == [old EXCEPT !.players = Restrict(@, DOMAIN @ \ {p})]
           wasActive == p \in {ActiveId(left), left.active}
           client == IF wasActive THEN [left EXCEPT !.active = NoName] ELSE left
           tree == WithClient(c, client)
           notify == wasActive /\ ShouldNotify(tree, playing, OfClient(c))
<1>1. /\ clients' = tree /\ playing' = playing /\ UNCHANGED <<active, queue, shown>>
      /\ posters' = IF notify THEN [posters EXCEPT !["actor"].at = "read"] ELSE posters
  BY DEF RemovePlayer, Mutate
<1>2. excused' = (excused \/ (~wasActive /\ View(tree, playing) # Now))
  BY Zenon DEF RemovePlayer
<1>3. IsClient(client)
  <2>1. old = [active |-> old.active, players |-> old.players] /\ \A k \in DOMAIN old.players : old.players[k] \in Player
    BY ClientOfFacts DEF IsClient
  <2> HIDE DEF old
  <2>2. left = [active |-> old.active, players |-> Restrict(old.players, DOMAIN old.players \ {p})]
    BY <2>1
  <2>3. \A k \in DOMAIN Restrict(old.players, DOMAIN old.players \ {p}) :
           Restrict(old.players, DOMAIN old.players \ {p})[k] \in Player
    BY <2>1 DEF Restrict
  <2> HIDE DEF left
  <2>4. IsClient(left)
    BY <2>2, <2>3 DEF IsClient
  <2>5. IsClient([left EXCEPT !.active = NoName])
    <3>1. [left EXCEPT !.active = NoName] = [active |-> NoName, players |-> left.players]
      BY <2>2
    <3> QED BY <2>4, <3>1 DEF IsClient
  <2> QED BY <2>4, <2>5
<1> HIDE DEF client
<1>4. IsTree(tree) /\ playing \in DOMAIN tree \cup {NoName}
  BY <1>3, WithClientFacts DEF PlayersInv
<1>5. wasActive /\ ~notify => View(tree, playing) = Now
  <2>1. ~ShouldNotify(tree, playing, OfClient(c)) => playing # c
    BY DEF ShouldNotify, OfClient
  <2> QED BY <1>3, <2>1, OtherClientPlays
<1> HIDE DEF wasActive, tree
<1>6. excused' \in BOOLEAN
  BY <1>2
<1>7. CASE notify
  BY <1>1, <1>4, <1>6, <1>7, MutateKeeps
<1>8. CASE ~notify
  <2>1. posters' = posters
    BY <1>1, <1>8
  <2>2. excused \in BOOLEAN
    BY DEF PlayersInv
  <2>3. ~excused' => ~excused /\ (wasActive \/ View(tree, playing) = Now)
    BY ONLY <1>2, <2>2, Zenon
  <2>4. excused' \/ (~excused /\ View(tree, playing) = Now)
    BY <1>5, <1>8, <2>3
  <2> QED BY <1>1, <1>4, <1>6, <2>1, <2>4, MutateKeeps
<1> QED BY <1>7, <1>8

\* One poster moves on.
LEMMA PosterMoves ==
  ASSUME PlayersInv, NEW t \in Posters, NEW poster,
         poster = [at |-> poster.at, view |-> poster.view], poster.view \in Player,
         posters' = [posters EXCEPT ![t] = poster]
  PROVE  /\ DOMAIN posters' = Posters /\ posters'[t] = poster
         /\ \A u \in Posters : /\ posters'[u] = [at |-> posters'[u].at, view |-> posters'[u].view]
                               /\ posters'[u].view \in Player
<1>1. DOMAIN posters' = Posters /\ posters'[t] = poster /\ \A u \in Posters : u # t => posters'[u] = posters[u]
  BY DEF PlayersInv
<1>2. ASSUME NEW u \in Posters
      PROVE  posters'[u] = [at |-> posters'[u].at, view |-> posters'[u].view] /\ posters'[u].view \in Player
  <2>1. CASE u = t
    BY <1>1, <2>1
  <2>2. CASE u # t
    BY <1>1, <2>2 DEF PlayersInv
  <2> QED BY <2>1, <2>2
<1> QED BY <1>1, <1>2

\* The listener was told last what was queued last.
LEMMA ToldLast ==
  ASSUME NEW q \in Seq(Player), NEW view \in Player, NEW s \in Player
  PROVE  /\ Append(q, view) \in Seq(Player) /\ LastTold(Append(q, view), s) = view /\ Len(Append(q, view)) = Len(q) + 1
         /\ q # <<>> => /\ Tail(q) \in Seq(Player) /\ Head(q) \in Player /\ Len(Tail(q)) <= Len(q)
                        /\ LastTold(Tail(q), Head(q)) = LastTold(q, s)
<1>1. Append(q, view) \in Seq(Player) /\ LastTold(Append(q, view), s) = view /\ Len(Append(q, view)) = Len(q) + 1
  BY DEF LastTold
<1>2. ASSUME q # <<>> PROVE Tail(q) \in Seq(Player) /\ Head(q) \in Player /\ Len(Tail(q)) <= Len(q) /\ LastTold(Tail(q), Head(q)) = LastTold(q, s)
  <2>1. Tail(q) \in Seq(Player) /\ Head(q) = q[1] /\ Head(q) \in Player /\ Len(Tail(q)) = Len(q) - 1 /\ Len(q) \in Nat \ {0}
    BY <1>2
  <2>2. CASE Tail(q) = <<>>
    <3>1. Len(q) = 1
      BY <2>1, <2>2
    <3> QED BY <1>2, <2>1, <2>2, <3>1 DEF LastTold
  <2>3. CASE Tail(q) # <<>>
    <3>1. Len(q) > 1
      BY <2>1, <2>3
    <3>2. Tail(q)[Len(q) - 1] = q[Len(q)]
      BY <2>1, <3>1
    <3> QED BY <1>2, <2>1, <2>3, <3>2 DEF LastTold
  <2> QED BY <2>1, <2>2, <2>3
<1> QED BY <1>1, <1>2

\* Switching updates on, and off.
LEMMA SwitchKeeps ==
  ASSUME PlayersInv, StartUpdates \/ StopUpdates
  PROVE  PlayersInv'
<1>1. CASE StartUpdates
  <2>1. /\ active' = TRUE /\ UNCHANGED <<clients, playing, queue, shown, excused>>
        /\ posters["start"] = Resting /\ posters' = [posters EXCEPT !["start"].at = "read"] /\ "start" \in Posters
    BY <1>1 DEF StartUpdates, Posters
  <2> DEFINE poster == [at |-> "read", view |-> Nothing]
  <2>2. posters' = [posters EXCEPT !["start"] = poster]
    <3>1. [Resting EXCEPT !.at = "read"] = poster
      BY DEF Resting
    <3>2. [posters EXCEPT !["start"].at = "read"] = [posters EXCEPT !["start"] = [posters["start"] EXCEPT !.at = "read"]]
      OBVIOUS
    <3> HIDE DEF poster
    <3> QED BY <2>1, <3>1, <3>2
  <2>3. poster = [at |-> poster.at, view |-> poster.view] /\ poster.view \in Player /\ poster.at # "none"
    BY DEF Player, Nothing
  <2> HIDE DEF poster
  <2>4. /\ DOMAIN posters' = Posters /\ posters'["start"] = poster
        /\ \A u \in Posters : posters'[u] = [at |-> posters'[u].at, view |-> posters'[u].view] /\ posters'[u].view \in Player
    BY <2>1, <2>2, <2>3, PosterMoves
  <2>5. ~\A u \in Posters : posters'[u].at = "none"
    BY <2>1, <2>3, <2>4
  <2> QED BY <2>1, <2>4, <2>5 DEF PlayersInv
<1>2. CASE StopUpdates
  <2>1. ~active' /\ active' \in BOOLEAN /\ UNCHANGED <<clients, playing, posters, queue, shown, excused>>
    BY <1>2 DEF StopUpdates
  <2> QED BY <2>1 DEF PlayersInv
<1> QED BY <1>1, <1>2

\* post_update reads what plays: it is still to be queued, or updates are off.
LEMMA ReadsViewKeeps ==
  ASSUME PlayersInv, NEW t \in Posters, ReadsView(t)
  PROVE  PlayersInv'
<1> DEFINE poster == IF active THEN [at |-> "post", view |-> Now] ELSE Resting
<1>1. posters' = [posters EXCEPT ![t] = poster] /\ UNCHANGED <<clients, playing, active, queue, shown, excused>>
  BY DEF ReadsView
<1>2. Now \in Player /\ Nothing \in Player
  BY ViewIsPlayer DEF Now, PlayersInv, Nothing, Player
<1>3. poster = [at |-> poster.at, view |-> poster.view] /\ poster.view \in Player /\ (active => poster.at # "none")
  BY <1>2 DEF Resting
<1> HIDE DEF poster
<1>4. /\ DOMAIN posters' = Posters /\ posters'[t] = poster
      /\ \A u \in Posters : posters'[u] = [at |-> posters'[u].at, view |-> posters'[u].view] /\ posters'[u].view \in Player
  BY <1>1, <1>3, PosterMoves
<1>5. ~(active' /\ \A u \in Posters : posters'[u].at = "none")
  BY <1>1, <1>3, <1>4
<1> QED BY <1>1, <1>4, <1>5 DEF PlayersInv

\* What was read is queued: it is what plays, or it is excused.
LEMMA PostsViewKeeps ==
  ASSUME PlayersInv, NEW t \in Posters, PostsView(t)
  PROVE  PlayersInv'
<1> DEFINE view == posters[t].view
<1>1. /\ posters' = [posters EXCEPT ![t] = Resting] /\ UNCHANGED <<clients, playing, active, shown>>
      /\ queue' = IF Len(queue) < Depth THEN Append(queue, view) ELSE queue
  BY DEF PostsView
<1>2. excused' = (Len(queue) = Depth \/ view # Now)
  BY Zenon DEF PostsView
<1>3. Resting = [at |-> Resting.at, view |-> Resting.view] /\ Resting.view \in Player
  BY DEF Resting, Nothing, Player
<1>4. /\ DOMAIN posters' = Posters
      /\ \A u \in Posters : posters'[u] = [at |-> posters'[u].at, view |-> posters'[u].view] /\ posters'[u].view \in Player
  BY <1>1, <1>3, PosterMoves
<1>5. view \in Player /\ queue \in Seq(Player) /\ Len(queue) \in Nat /\ Len(queue) <= Depth /\ shown \in Player
  BY DEF PlayersInv
<1> HIDE DEF view
<1>6. queue' \in Seq(Player) /\ Len(queue') <= Depth
  BY <1>1, <1>5, ToldLast, PlayersAssumption
<1>7. ~excused' => LastTold(queue', shown') = Now'
  <2> SUFFICES ASSUME ~excused' PROVE LastTold(queue', shown') = Now'
    OBVIOUS
  <2>1. Len(queue) # Depth /\ view = Now
    BY <1>2
  <2>2. CASE Len(queue) < Depth
    <3>1. queue' = Append(queue, view)
      BY <1>1, <2>2
    <3>2. LastTold(queue', shown) = view
      BY <1>5, <3>1, ToldLast
    <3> QED BY <1>1, <2>1, <3>2 DEF Now
  <2> QED BY <1>5, <2>1, <2>2, PlayersAssumption
<1>8. excused' \in BOOLEAN
  BY <1>2
<1> QED BY <1>1, <1>4, <1>5, <1>6, <1>7, <1>8 DEF PlayersInv

\* The listener is handed the oldest: what it will be told last stays.
LEMMA DeliversKeeps ==
  ASSUME PlayersInv, Delivers
  PROVE  PlayersInv'
<1>1. /\ queue # <<>> /\ shown' = Head(queue) /\ queue' = Tail(queue)
      /\ UNCHANGED <<clients, playing, active, posters, excused>>
  BY DEF Delivers
<1>2. queue \in Seq(Player) /\ Len(queue) <= Depth /\ shown \in Player
  BY DEF PlayersInv
<1>3. /\ queue' \in Seq(Player) /\ shown' \in Player /\ LastTold(queue', shown') = LastTold(queue, shown)
      /\ Len(queue') <= Len(queue) /\ Len(queue') \in Nat /\ Len(queue) \in Nat
  BY <1>1, <1>2, ToldLast
<1>5. Len(queue') <= Depth
  BY <1>2, <1>3, PlayersAssumption
<1>4. Now' = Now
  BY <1>1 DEF Now
<1> QED BY <1>1, <1>3, <1>4, <1>5 DEF PlayersInv

\* PlayersInv is inductive.
LEMMA PlayersInductive == PlayersSpec => []PlayersInv
<1>1. PlayersInit => PlayersInv
  <2> SUFFICES ASSUME PlayersInit PROVE PlayersInv
    OBVIOUS
  <2>1. /\ clients = <<>> /\ playing = NoName /\ active = FALSE /\ excused = FALSE
        /\ posters = [t \in Posters |-> Resting] /\ queue = <<>> /\ shown = Nothing
    BY DEF PlayersInit
  <2>2. DOMAIN clients = {}
    BY <2>1
  <2>3. Nothing \in Player /\ Resting = [at |-> Resting.at, view |-> Resting.view] /\ Resting.view \in Player
    BY DEF Resting, Nothing, Player
  <2>4. queue \in Seq(Player) /\ Len(queue) <= Depth
    BY <2>1, PlayersAssumption
  <2> QED BY <2>1, <2>2, <2>3, <2>4 DEF PlayersInv, IsTree
<1>2. PlayersInv /\ [PlayersNext]_playersVars => PlayersInv'
  <2> SUFFICES ASSUME PlayersInv, [PlayersNext]_playersVars PROVE PlayersInv'
    OBVIOUS
  <2>1. CASE Handle
    <3>1. PICK c \in Clients :
             \/ SetNowPlayingClient(c) \/ UpdateClient(c) \/ RemoveClient(c)
             \/ \E p \in Players :
                   \/ SetNowPlayingPlayer(c, p) \/ RemovePlayer(c, p)
                   \/ \E state \in States \cup {NoName}, item \in Queues \cup {NoItem} : SetState(c, p, state, item)
      BY <2>1 DEF Handle
    <3> QED BY <3>1, SetNowPlayingClientKeeps, UpdateClientKeeps, RemoveClientKeeps,
               SetNowPlayingPlayerKeeps, RemovePlayerKeeps, SetStateKeeps
  <2>2. CASE StartUpdates \/ StopUpdates
    BY <2>2, SwitchKeeps
  <2>3. CASE Delivers
    BY <2>3, DeliversKeeps
  <2>4. CASE \E t \in Posters : ReadsView(t) \/ PostsView(t)
    BY <2>4, ReadsViewKeeps, PostsViewKeeps
  <2>5. CASE UNCHANGED playersVars
    <3>1. Now' = Now
      BY <2>5 DEF Now, playersVars
    <3> QED BY <2>5, <3>1 DEF playersVars, PlayersInv
  <2> QED BY <2>1, <2>2, <2>3, <2>4, <2>5 DEF PlayersNext
<1> QED BY <1>1, <1>2, PTL DEF PlayersSpec

\* notify.rs:33: while updates are on and none is under way, the listener was
\* told last what plays now, whatever clients and players come, go and change;
\* an update that was dropped or overtaken, and the removal of a default player,
\* are the exceptions.
THEOREM ListenerIsShownNow == PlayersSpec => []ShownIsCurrent
<1>1. PlayersInv => ShownIsCurrent
  <2> SUFFICES ASSUME PlayersInv, active, queue = <<>>, posters = [t \in Posters |-> Resting], ~excused
               PROVE  shown = Now
    BY DEF ShownIsCurrent
  <2>1. \A t \in Posters : posters[t].at = "none"
    BY DEF Resting
  <2> QED BY <2>1 DEF PlayersInv, LastTold
<1> QED BY <1>1, PlayersInductive, PTL

\* The players of each client are players that messages name.
Known(tree) == \A c \in DOMAIN tree : DOMAIN tree[c].players \subseteq Players

\* A client is created with no players, and a message adds the one it names or removes one.
LEMMA KnownOfClient ==
  ASSUME PlayersInv, Known(clients), NEW c \in Clients
  PROVE  /\ ClientOf(c) = [active |-> ClientOf(c).active, players |-> ClientOf(c).players]
         /\ DOMAIN ClientOf(c).players \subseteq Players
         /\ \A p \in Players : \A x : DOMAIN With(ClientOf(c).players, p, x) \subseteq Players
         /\ \A p : DOMAIN Restrict(ClientOf(c).players, DOMAIN ClientOf(c).players \ {p}) \subseteq Players
         /\ \A client : DOMAIN client.players \subseteq Players => Known(WithClient(c, client))
<1>1. CASE c \in DOMAIN clients
  <2>1. ClientOf(c) = clients[c]
    BY <1>1 DEF ClientOf
  <2>2. clients[c] = [active |-> clients[c].active, players |-> clients[c].players]
    BY <1>1 DEF PlayersInv, IsTree, IsClient
  <2> QED BY <1>1, <2>1, <2>2 DEF Known, With, WithClient, Restrict
<1>2. CASE c \notin DOMAIN clients
  <2>1. ClientOf(c) = [active |-> NoName, players |-> <<>>] /\ DOMAIN ClientOf(c).players = {}
    BY <1>2 DEF ClientOf, NewClient
  <2>2. ClientOf(c) = [active |-> ClientOf(c).active, players |-> ClientOf(c).players]
    BY <2>1
  <2> QED BY <2>1, <2>2 DEF Known, With, WithClient, Restrict
<1> QED BY <1>1, <1>2

\* Whatever a message makes of the clients.
LEMMA KnownStays == PlayersInv /\ Known(clients) /\ [PlayersNext]_playersVars => Known(clients')
<1> SUFFICES ASSUME PlayersInv, Known(clients), [PlayersNext]_playersVars PROVE Known(clients')
  OBVIOUS
<1>1. CASE UNCHANGED clients
  BY <1>1
<1>2. ASSUME NEW c \in Clients, SetNowPlayingClient(c) \/ UpdateClient(c) PROVE Known(clients')
  BY <1>2, KnownOfClient DEF SetNowPlayingClient, UpdateClient, Scoped, Mutate
<1>3. ASSUME NEW c \in Clients, RemoveClient(c) PROVE Known(clients')
  BY <1>3 DEF RemoveClient, Mutate, Restrict, Known
<1>4. ASSUME NEW c \in Clients, NEW p \in Players, SetNowPlayingPlayer(c, p) PROVE Known(clients')
  <2> DEFINE after == With(ClientOf(c).players, p, PlayerOf(c, p))
  <2>1. clients' = WithClient(c, [active |-> p, players |-> after])
    BY <1>4 DEF SetNowPlayingPlayer, Scoped, Mutate
  <2>2. DOMAIN after \subseteq Players
    BY KnownOfClient
  <2> HIDE DEF after
  <2>3. DOMAIN [active |-> p, players |-> after].players \subseteq Players
    BY <2>2
  <2> QED BY <2>1, <2>3, KnownOfClient
<1>5. ASSUME NEW c \in Clients, NEW p \in Players, RemovePlayer(c, p) PROVE Known(clients')
  <2> DEFINE after == Restrict(ClientOf(c).players, DOMAIN ClientOf(c).players \ {p})
             client == [ClientOf(c) EXCEPT !.players = after]
  <2>1. clients' = WithClient(c, client) \/ clients' = WithClient(c, [client EXCEPT !.active = NoName])
    BY <1>5 DEF RemovePlayer, Mutate
  <2>2. DOMAIN after \subseteq Players
    BY KnownOfClient
  <2> HIDE DEF after
  <2>3. client.players = after /\ [client EXCEPT !.active = NoName].players = after
    BY KnownOfClient
  <2> HIDE DEF client
  <2> QED BY <2>1, <2>2, <2>3, KnownOfClient
<1>6. ASSUME NEW c \in Clients, NEW p \in Players, NEW state, NEW item, SetState(c, p, state, item)
      PROVE  Known(clients')
  <2>1. PICK x : clients' = WithPlayer(c, p, x)
    BY <1>6 DEF SetState, Scoped, Mutate
  <2> DEFINE after == With(ClientOf(c).players, p, x)
             client == [ClientOf(c) EXCEPT !.players = after]
  <2>2. clients' = WithClient(c, client)
    BY <2>1 DEF WithPlayer
  <2>3. DOMAIN after \subseteq Players
    BY KnownOfClient
  <2> HIDE DEF after
  <2>4. client.players = after
    BY KnownOfClient
  <2> HIDE DEF client
  <2> QED BY <2>2, <2>3, <2>4, KnownOfClient
<1>7. Handle => Known(clients')
  BY <1>2, <1>3, <1>4, <1>5, <1>6 DEF Handle
<1> QED BY <1>1, <1>7 DEF PlayersNext, playersVars, StartUpdates, StopUpdates, Delivers, ReadsView, PostsView

\* notify.rs: the queue holds no more than its depth; who plays is a client that is there, and its
\* players are ones that messages named.
THEOREM PlayersTypes == PlayersSpec => []PlayersTypeOK
<1>1. PlayersInit => Known(clients)
  BY DEF PlayersInit, Known
<1>2. PlayersInv /\ Known(clients) => PlayersTypeOK
  BY DEF PlayersInv, PlayersTypeOK, IsTree, Known
<1> DEFINE K == Known(clients)
<1>3. PlayersInv /\ K /\ [PlayersNext]_playersVars => K'
  BY KnownStays
<1>4. PlayersInit => K
  BY <1>1
<1>5. PlayersInv /\ K => PlayersTypeOK
  BY <1>2
<1> HIDE DEF K
<1>6. PlayersSpec => []K
  BY <1>3, <1>4, PlayersInductive, PTL DEF PlayersSpec
<1> QED BY <1>5, <1>6, PlayersInductive, PTL

-----------------------------------------------------------------------------
(* MRP: the volume                                                          *)

\* What a caller, a command and a report are.
Call == [at : {"idle", "read", "send", "sent", "wait", "done"}, op : Operations \cup {"none"},
         want : Levels, waits : BOOLEAN, knew : BOOLEAN, executed : BOOLEAN, told : BOOLEAN]
Command == [by : Callers, op : Operations, want : Levels]
Report == [on : {"volume", "group"}, own : BOOLEAN, level : Levels]
Volume == [absolute : BOOLEAN, relative : BOOLEAN, level : Levels, known : BOOLEAN]

\* The last report of a level is the level of the device; if none is on its way, the one that is
\* known is.
Own(report) == report.on = "volume" /\ report.own

Reported(level, known, reports, actual) ==
  \/ \E k \in 1..Len(reports) :
        /\ Own(reports[k]) /\ reports[k].level = actual
        /\ \A j \in 1..Len(reports) : j > k => ~Own(reports[j])
  \/ /\ \A k \in 1..Len(reports) : ~Own(reports[k])
     /\ known => level = actual

\* The level shows that a call changes something.
WouldMove(call, level) ==
  /\ call.op = "set" => level # call.want
  /\ call.op = "up" => level # MaxLevel
  /\ call.op = "down" => level # 0

\* A caller that is to be told has been, or knows a level that its command changes; once the
\* command was carried out, a report of its kind is on its way.
Promised(call, level, known, reports) ==
  /\ call.at \in {"idle", "read", "send"} => ~call.executed
  /\ call.at \in {"send", "sent", "wait"} => call.op # "none"
  /\ call.at = "wait" => call.waits
  /\ call.at \in {"send", "sent", "wait"} /\ call.waits /\ call.knew /\ ~call.told =>
        /\ call.op # "group" => known /\ WouldMove(call, level)
        /\ call.executed => \E k \in 1..Len(reports) : reports[k].on = "group" <=> call.op = "group"

\* A command is its caller's, who has one.
Issued(command, call) ==
  call.at \in {"sent", "wait", "done"} /\ call.op = command.op /\ call.want = command.want

VolumeTypes ==
  /\ volume \in Volume /\ deviceLevel \in Levels
  /\ commands \in Seq(Command) /\ pushes \in Seq(Report)
  /\ callers \in [Callers -> Call]

VolumeInv ==
  /\ VolumeTypes
  /\ Reported(volume.level, volume.known, pushes, deviceLevel)
  /\ \A k \in 1..Len(commands) : Issued(commands[k], callers[commands[k].by])
  /\ \A c \in Callers : Promised(callers[c], volume.level, volume.known, pushes)

\* At first no level is known and nobody waits.
LEMMA VolumeStarts == VolumeInit => VolumeInv
<1> SUFFICES ASSUME VolumeInit PROVE VolumeInv
  OBVIOUS
<1>1. Len(commands) = 0 /\ Len(pushes) = 0 /\ commands \in Seq(Command) /\ pushes \in Seq(Report)
  BY DEF VolumeInit
<1>2. volume \in Volume /\ deviceLevel \in Levels /\ volume.known = FALSE
  BY VolumeAssumption DEF VolumeInit, Volume, Levels
<1>3. callers \in [Callers -> Call] /\ \A c \in Callers : callers[c].at = "idle" /\ callers[c].executed = FALSE
  <2>1. ASSUME NEW c \in Callers
        PROVE  callers[c] = [at |-> "idle", op |-> "none", want |-> 0, waits |-> FALSE, knew |-> FALSE,
                             executed |-> FALSE, told |-> FALSE]
    BY DEF VolumeInit, Called
  <2>2. 0 \in Levels
    BY VolumeAssumption DEF Levels
  <2>3. [at |-> "idle", op |-> "none", want |-> 0, waits |-> FALSE, knew |-> FALSE,
         executed |-> FALSE, told |-> FALSE] \in Call
    BY ONLY <2>2 DEF Call
  <2> QED BY <2>1, <2>3 DEF VolumeInit
<1> QED BY <1>1, <1>2, <1>3 DEF VolumeInv, VolumeTypes, Reported, Promised

\* What is in a queue.
LEMMA InQueue ==
  ASSUME NEW S, NEW q \in Seq(S), NEW k \in 1..Len(q)
  PROVE  q[k] \in S
  OBVIOUS

\* A report that goes to the end of the queue.
LEMMA Queued ==
  ASSUME NEW S, NEW q \in Seq(S), NEW x \in S
  PROVE  /\ Append(q, x) \in Seq(S) /\ Len(Append(q, x)) = Len(q) + 1
         /\ Append(q, x)[Len(q) + 1] = x /\ Len(q) \in Nat
         /\ \A k \in 1..Len(q) : Append(q, x)[k] = q[k]
  OBVIOUS

\* And one that is taken from its front.
LEMMA Dequeued ==
  ASSUME NEW S, NEW q \in Seq(S), q # <<>>
  PROVE  /\ Tail(q) \in Seq(S) /\ Len(Tail(q)) = Len(q) - 1 /\ Len(q) \in Nat \ {0}
         /\ Head(q) = q[1] /\ Head(q) \in S
         /\ \A k \in 1..Len(q) - 1 : Tail(q)[k] = q[k + 1]
  OBVIOUS

\* A report of the device on its own volume says, once delivered, what it
\* says.
LEMMA OwnReport ==
  ASSUME NEW q \in Seq(Report), NEW x \in Report, Own(x), NEW level, NEW known
  PROVE  Reported(level, known, Append(q, x), x.level)
  BY Queued DEF Reported

\* Any other report changes nothing of what will be known.
LEMMA OtherReport ==
  ASSUME NEW q \in Seq(Report), NEW x \in Report, ~Own(x), NEW level, NEW known, NEW actual,
         Reported(level, known, q, actual)
  PROVE  Reported(level, known, Append(q, x), actual)
<1>1. \A k \in 1..Len(q) + 1 : k \in 1..Len(q) \/ k = Len(q) + 1
  BY Queued
<1> QED BY <1>1, Queued DEF Reported

\* Taking the oldest report leaves what will be known as it was.
LEMMA ReportTaken ==
  ASSUME NEW q \in Seq(Report), q # <<>>, NEW level, NEW known, NEW actual,
         Reported(level, known, q, actual)
  PROVE  /\ Own(Head(q)) => Reported(Head(q).level, TRUE, Tail(q), actual)
         /\ ~Own(Head(q)) => Reported(level, known, Tail(q), actual)
<1>1. /\ Len(Tail(q)) = Len(q) - 1 /\ Len(q) \in Nat \ {0} /\ Head(q) = q[1]
      /\ \A k \in 1..Len(q) - 1 : Tail(q)[k] = q[k + 1] /\ k + 1 \in 1..Len(q)
  BY Dequeued
<1>2. CASE \A k \in 1..Len(q) : ~Own(q[k])
  BY <1>1, <1>2 DEF Reported
<1>3. ASSUME NEW k \in 1..Len(q), Own(q[k]), q[k].level = actual,
             \A j \in 1..Len(q) : j > k => ~Own(q[j])
      PROVE  /\ Own(Head(q)) => Reported(Head(q).level, TRUE, Tail(q), actual)
             /\ ~Own(Head(q)) => Reported(level, known, Tail(q), actual)
  <2>1. CASE k = 1
    <3>1. \A j \in 1..Len(q) - 1 : ~Own(Tail(q)[j])
      BY <1>1, <1>3, <2>1
    <3> QED BY <1>1, <1>3, <2>1, <3>1 DEF Reported
  <2>2. CASE k # 1
    <3>1. k - 1 \in 1..Len(q) - 1 /\ Tail(q)[k - 1] = q[k]
      <4>1. k - 1 \in 1..Len(q) - 1 /\ (k - 1) + 1 = k
        BY <1>1, <2>2
      <4> QED BY <1>1, <4>1
    <3>2. \A j \in 1..Len(q) - 1 : j > k - 1 => ~Own(Tail(q)[j])
      BY <1>1, <1>3
    <3> QED BY <1>1, <1>3, <3>1, <3>2 DEF Reported
  <2> QED BY <2>1, <2>2
<1> QED BY <1>2, <1>3 DEF Reported

\* A level that is not the device's has a report on its way.
LEMMA ReportOnItsWay ==
  ASSUME NEW reports \in Seq(Report), NEW level, NEW actual, Reported(level, TRUE, reports, actual), level # actual
  PROVE  \E k \in 1..Len(reports) : reports[k].on = "volume"
  BY DEF Reported, Own

\* Every command has a caller.
LEMMA CommandIssued ==
  ASSUME VolumeInv, NEW k \in 1..Len(commands)
  PROVE  commands[k].by \in Callers /\ Issued(commands[k], callers[commands[k].by])
<1>1. commands[k] \in Command
  BY InQueue DEF VolumeInv, VolumeTypes
<1>2. commands[k].by \in Callers
  BY <1>1 DEF Command
<1> QED BY <1>2 DEF VolumeInv

\* One more report keeps what was promised.
LEMMA PromisedStill ==
  ASSUME NEW q \in Seq(Report), NEW x \in Report, NEW call, NEW level, NEW known,
         Promised(call, level, known, q)
  PROVE  Promised(call, level, known, Append(q, x))
<1>1. \A k \in 1..Len(q) : k \in 1..Len(Append(q, x)) /\ Append(q, x)[k] = q[k]
  BY Queued
<1> HIDE DEF WouldMove
<1> QED BY <1>1 DEF Promised

\* A caller's own step.
LEMMA CallerMoves ==
  ASSUME VolumeInv, NEW c \in Callers, NEW call \in Call, callers' = [callers EXCEPT ![c] = call],
         UNCHANGED <<volume, deviceLevel, commands, pushes>>,
         Promised(call, volume.level, volume.known, pushes),
         callers[c].at \in {"sent", "wait", "done"} =>
            call.at \in {"sent", "wait", "done"} /\ call.op = callers[c].op /\ call.want = callers[c].want
  PROVE  VolumeInv'
<1>1. callers' \in [Callers -> Call] /\ callers'[c] = call /\ \A b \in Callers : b # c => callers'[b] = callers[b]
  BY DEF VolumeInv, VolumeTypes
<1>2. ASSUME NEW k \in 1..Len(commands) PROVE Issued(commands[k], callers'[commands[k].by])
  <2>1. commands[k].by \in Callers /\ Issued(commands[k], callers[commands[k].by])
    BY CommandIssued
  <2> QED BY <1>1, <2>1 DEF Issued
<1> QED BY <1>1, <1>2 DEF VolumeInv, VolumeTypes

\* Every step of the callers, the actor and the device keeps the invariant.
LEMMA VolumeSteps == VolumeInv /\ [VolumeNext]_volumeVars => VolumeInv'
<1> SUFFICES ASSUME VolumeInv, [VolumeNext]_volumeVars PROVE VolumeInv'
  OBVIOUS
<1>0. \A c \in Callers : callers[c] \in Call /\ Promised(callers[c], volume.level, volume.known, pushes)
  BY DEF VolumeInv, VolumeTypes
<1>1. ASSUME NEW c \in Callers, CallsAudio(c) PROVE VolumeInv'
  <2>1. PICK op \in Operations, level \in Levels :
           callers' = [callers EXCEPT ![c] = [Called EXCEPT !.op = op, !.want = level]]
    BY <1>1 DEF CallsAudio
  <2>2. [Called EXCEPT !.op = op, !.want = level] \in Call
        /\ [Called EXCEPT !.op = op, !.want = level].at = "read"
        /\ [Called EXCEPT !.op = op, !.want = level].executed = FALSE
    BY DEF Called, Call
  <2> QED BY <1>1, <2>1, <2>2, CallerMoves DEF CallsAudio, Promised
<1>2. ASSUME NEW c \in Callers, NEW waits \in BOOLEAN, callers[c].at = "read", callers[c].op # "none",
             waits /\ callers[c].op # "group" => WouldMove(callers[c], volume.level),
             callers' = [callers EXCEPT ![c] = Sending(c, waits)],
             UNCHANGED <<volume, deviceLevel, commands, pushes>>
      PROVE  VolumeInv'
  <2>1. Sending(c, waits) \in Call
    BY <1>0 DEF Sending, Call, VolumeInv, VolumeTypes, Volume
  <2>2. /\ Sending(c, waits).at = "send" /\ Sending(c, waits).waits = waits /\ Sending(c, waits).knew = volume.known
        /\ Sending(c, waits).op = callers[c].op /\ Sending(c, waits).want = callers[c].want
        /\ Sending(c, waits).executed = callers[c].executed
    BY <1>0 DEF Sending, Call
  <2>3. ~callers[c].executed
    BY <1>0, <1>2 DEF Promised
  <2>4. waits /\ callers[c].op # "group" => WouldMove(Sending(c, waits), volume.level)
    BY <1>2, <2>2 DEF WouldMove
  <2> HIDE DEF Sending
  <2>5. Promised(Sending(c, waits), volume.level, volume.known, pushes)
    BY <1>2, <2>2, <2>3, <2>4 DEF Promised
  <2> QED BY <1>2, <2>1, <2>5, CallerMoves
<1>3. ASSUME NEW c \in Callers, SetLevel(c) PROVE VolumeInv'
  BY <1>2, <1>3 DEF SetLevel, WouldMove
<1>4. ASSUME NEW c \in Callers, ModifyGroup(c) PROVE VolumeInv'
  BY <1>2, <1>4 DEF ModifyGroup
<1>5. ASSUME NEW c \in Callers, callers' = [callers EXCEPT ![c] = Returned(c)],
             UNCHANGED <<volume, deviceLevel, commands, pushes>>
      PROVE  VolumeInv'
  <2>1. /\ Returned(c) \in Call /\ Returned(c).at = "done"
        /\ Returned(c).op = callers[c].op /\ Returned(c).want = callers[c].want
    BY <1>0 DEF Returned, Call
  <2> HIDE DEF Returned
  <2> QED BY <1>5, <2>1, CallerMoves DEF Promised
<1>6. ASSUME NEW c \in Callers, NEW up \in BOOLEAN, TakesStep(c, up) PROVE VolumeInv'
  <2> DEFINE boundary == IF up THEN MaxLevel ELSE 0
             done == (volume.absolute /\ volume.level = boundary) \/ ~(volume.absolute \/ volume.relative)
             named == [callers[c] EXCEPT !.op = "set", !.want = Target(up)]
  <2>1. /\ callers[c].at = "read" /\ callers[c].op = (IF up THEN "up" ELSE "down")
        /\ callers' = [callers EXCEPT ![c] =
              IF done THEN Returned(c) ELSE IF volume.relative THEN Sending(c, volume.absolute) ELSE named]
        /\ UNCHANGED <<volume, deviceLevel, commands, pushes>>
    BY <1>6 DEF TakesStep
  <2>2. CASE done
    BY <1>5, <2>1, <2>2
  <2>3. CASE ~done /\ volume.relative
    <3>1. volume.absolute \in BOOLEAN
      BY DEF VolumeInv, VolumeTypes, Volume
    <3>2. volume.absolute => WouldMove(callers[c], volume.level)
      BY <2>1, <2>3 DEF WouldMove
    <3> QED BY <1>2, <2>1, <2>3, <3>1, <3>2
  <2>4. CASE ~done /\ ~volume.relative
    <3>1. Target(up) \in Levels
      BY VolumeAssumption DEF Target, Levels, VolumeInv, VolumeTypes, Volume
    <3>2. named \in Call /\ named.at = "read" /\ named.executed = callers[c].executed
      BY <1>0, <2>1, <3>1 DEF Call, Operations
    <3>3. Promised(named, volume.level, volume.known, pushes)
      BY <1>0, <2>1, <3>2 DEF Promised
    <3> HIDE DEF named
    <3> QED BY <2>1, <2>4, <3>2, <3>3, CallerMoves
  <2> QED BY <2>2, <2>3, <2>4
<1>7. ASSUME NEW c \in Callers, Sends(c) PROVE VolumeInv'
  <2> DEFINE command == [by |-> c, op |-> callers[c].op, want |-> callers[c].want]
  <2>1. /\ callers[c].at = "send" /\ commands' = Append(commands, command)
        /\ callers' = [callers EXCEPT ![c].at = "sent"]
        /\ UNCHANGED <<volume, deviceLevel, pushes>>
    BY <1>7 DEF Sends
  <2>2. command \in Command /\ commands \in Seq(Command)
    BY <1>0, <2>1 DEF Command, Call, Promised, VolumeInv, VolumeTypes
  <2>3. /\ callers' \in [Callers -> Call] /\ \A b \in Callers : b # c => callers'[b] = callers[b]
        /\ callers'[c] = [callers[c] EXCEPT !.at = "sent"]
    BY ZenonT(60), <2>1 DEF VolumeInv, VolumeTypes, Call
  <2>4. Promised(callers'[c], volume.level, volume.known, pushes)
    BY <1>0, <2>1, <2>3 DEF Promised, Call, WouldMove
  <2>5. Issued(command, callers'[c])
    BY <1>0, <2>3 DEF Issued, Call
  <2> HIDE DEF command
  <2>6. commands' \in Seq(Command) /\ Len(commands') = Len(commands) + 1 /\ commands'[Len(commands) + 1] = command
        /\ \A k \in 1..Len(commands) : commands'[k] = commands[k]
    BY <2>1, <2>2, Queued
  <2>7. ASSUME NEW k \in 1..Len(commands') PROVE Issued(commands'[k], callers'[commands'[k].by])
    <3>1. CASE k = Len(commands) + 1
      BY <2>5, <2>6, <3>1 DEF command
    <3>2. CASE k \in 1..Len(commands)
      <4>1. commands[k].by \in Callers /\ Issued(commands[k], callers[commands[k].by])
        BY <3>2, CommandIssued
      <4> QED BY <2>1, <2>3, <2>6, <3>2, <4>1 DEF Issued
    <3>3. k = Len(commands) + 1 \/ k \in 1..Len(commands)
      BY <2>2, <2>6
    <3> QED BY <3>1, <3>2, <3>3
  <2> QED BY <1>0, <2>1, <2>3, <2>4, <2>6, <2>7 DEF VolumeInv, VolumeTypes
<1>8. ASSUME NEW c \in Callers, SendFails(c) PROVE VolumeInv'
  BY <1>5, <1>8 DEF SendFails
<1>9. ASSUME NEW c \in Callers, SendReturns(c) PROVE VolumeInv'
  <2> DEFINE waiting == [callers[c] EXCEPT !.at = "wait"]
  <2>1. /\ callers[c].at = "sent" /\ UNCHANGED <<volume, deviceLevel, commands, pushes>>
        /\ callers' = [callers EXCEPT ![c] = IF callers[c].waits THEN waiting ELSE Returned(c)]
    BY <1>9 DEF SendReturns
  <2>2. CASE ~callers[c].waits
    BY <1>5, <2>1, <2>2
  <2>3. CASE callers[c].waits
    <3>1. /\ waiting \in Call /\ waiting.at = "wait" /\ waiting.op = callers[c].op /\ waiting.want = callers[c].want
          /\ waiting.waits = callers[c].waits /\ waiting.knew = callers[c].knew
          /\ waiting.executed = callers[c].executed /\ waiting.told = callers[c].told
      BY <1>0 DEF Call
    <3> HIDE DEF waiting
    <3>2. Promised(waiting, volume.level, volume.known, pushes)
      BY <1>0, <2>1, <2>3, <3>1 DEF Promised, WouldMove
    <3> QED BY <2>1, <2>3, <3>1, <3>2, CallerMoves
  <2> QED BY <2>2, <2>3
<1>10. ASSUME NEW c \in Callers, Confirmed(c) \/ TimesOut(c) PROVE VolumeInv'
  BY <1>5, <1>10 DEF Confirmed, TimesOut

<1>11. CASE Executes
  <2> DEFINE command == Head(commands)
             by == command.by
             Near(l) == IF l < 0 THEN 0 ELSE IF l > MaxLevel THEN MaxLevel ELSE l
             level == CASE command.op = "set" -> command.want
                        [] command.op = "up" -> Near(deviceLevel + 1)
                        [] command.op = "down" -> Near(deviceLevel - 1)
                        [] OTHER -> deviceLevel
  <2>1. /\ commands # <<>> /\ commands' = Tail(commands) /\ volume' = volume /\ deviceLevel' = level
        /\ callers' = [callers EXCEPT ![by].executed = TRUE]
        /\ IF command.op = "group" THEN pushes' = Append(pushes, [on |-> "group", own |-> TRUE, level |-> 0])
           ELSE IF level = deviceLevel THEN UNCHANGED pushes
           ELSE pushes' = Append(pushes, [on |-> "volume", own |-> TRUE, level |-> level])
    BY <1>11 DEF Executes, SendsReport
  <2>2. /\ commands' \in Seq(Command) /\ Len(commands') = Len(commands) - 1 /\ Len(commands) \in Nat \ {0}
        /\ command = commands[1] /\ command \in Command
        /\ \A k \in 1..Len(commands) - 1 : commands'[k] = commands[k + 1]
    BY <2>1, Dequeued DEF VolumeInv, VolumeTypes
  <2>3. by \in Callers /\ Issued(command, callers[by])
    <3>1. 1 \in 1..Len(commands)
      BY <2>2
    <3> QED BY <2>2, <3>1 DEF VolumeInv, Command
  <2>4. /\ callers' \in [Callers -> Call] /\ \A b \in Callers : b # by => callers'[b] = callers[b]
        /\ callers'[by] = [callers[by] EXCEPT !.executed = TRUE]
    BY ZenonT(60), <2>1, <2>3 DEF VolumeInv, VolumeTypes, Call
  <2>5. ASSUME NEW k \in 1..Len(commands') PROVE Issued(commands'[k], callers'[commands'[k].by])
    <3>1. k + 1 \in 1..Len(commands) /\ commands'[k] = commands[k + 1]
      BY <2>2
    <3>2. commands'[k].by \in Callers /\ Issued(commands'[k], callers[commands'[k].by])
      BY <3>1, CommandIssued
    <3>3. commands'[k].by = by => Issued(commands'[k], callers'[by])
      BY <1>0, <2>3, <2>4, <3>2 DEF Issued, Call
    <3> QED BY <2>4, <3>2, <3>3
  <2>6. level \in Levels /\ 0 \in Levels /\ deviceLevel \in Levels /\ pushes \in Seq(Report)
    <3>1. deviceLevel \in Levels /\ pushes \in Seq(Report) /\ command.want \in Levels
      BY <2>2 DEF VolumeInv, VolumeTypes, Command
    <3>2. Near(deviceLevel + 1) \in Levels /\ Near(deviceLevel - 1) \in Levels /\ 0 \in Levels
      BY <3>1, VolumeAssumption DEF Levels
    <3> HIDE DEF command, Near
    <3> QED BY <3>1, <3>2
  <2>7. SUFFICES /\ pushes' \in Seq(Report) /\ Reported(volume.level, volume.known, pushes', deviceLevel')
                 /\ \A c \in Callers : Promised(callers'[c], volume.level, volume.known, pushes')
    BY <2>1, <2>2, <2>4, <2>5, <2>6 DEF VolumeInv, VolumeTypes
  <2>8. /\ callers'[by].at = callers[by].at /\ callers'[by].op = command.op /\ callers[by].op = command.op
        /\ callers'[by].want = command.want /\ callers[by].want = command.want
        /\ callers'[by].waits = callers[by].waits /\ callers'[by].knew = callers[by].knew
        /\ callers'[by].told = callers[by].told /\ callers[by].at \in {"sent", "wait", "done"}
    BY <1>0, <2>3, <2>4 DEF Issued, Call
  <2>9. Promised(callers[by], volume.level, volume.known, pushes) /\ command.op \in Operations
    BY <1>0, <2>2, <2>3 DEF Command
  <2>10. CASE command.op = "group"
    <3> DEFINE report == [on |-> "group", own |-> TRUE, level |-> 0]
    <3>1. report \in Report /\ ~Own(report) /\ report.on = "group" /\ pushes' = Append(pushes, report)
      BY <2>1, <2>6, <2>10 DEF Report, Own
    <3>2. level = deviceLevel
      BY <2>10
    <3> HIDE DEF report, command, level
    <3>3. pushes' \in Seq(Report) /\ Reported(volume.level, volume.known, pushes', deviceLevel')
      BY <2>1, <2>6, <3>1, <3>2, Queued, OtherReport DEF VolumeInv
    <3>4. \A c \in Callers : c # by => Promised(callers'[c], volume.level, volume.known, pushes')
      BY <1>0, <2>4, <2>6, <3>1, PromisedStill
    <3>5. Promised(callers'[by], volume.level, volume.known, pushes')
      <4>1. Len(pushes) + 1 \in 1..Len(pushes') /\ pushes'[Len(pushes) + 1].on = "group"
        BY <2>6, <3>1, Queued
      <4> QED BY <2>8, <2>9, <2>10, <4>1 DEF Promised
    <3> QED BY <3>3, <3>4, <3>5
  <2>11. CASE command.op # "group" /\ level = deviceLevel
    <3>1. pushes' = pushes
      BY <2>1, <2>11
    <3>2. Reported(volume.level, volume.known, pushes', deviceLevel')
      BY <2>1, <2>11, <3>1 DEF VolumeInv
    <3>3. \A c \in Callers : c # by => Promised(callers'[c], volume.level, volume.known, pushes')
      BY <1>0, <2>4, <3>1
    <3>4. WouldMove(callers[by], volume.level) => volume.level # level
      BY <2>6, <2>8, <2>9, <2>11, VolumeAssumption DEF WouldMove, Operations, Levels
    <3> HIDE DEF command, level
    <3>5. volume.known /\ WouldMove(callers[by], volume.level) => \E k \in 1..Len(pushes) : pushes[k].on = "volume"
      <4>1. volume.known \in BOOLEAN
        BY DEF VolumeInv, VolumeTypes, Volume
      <4>2. Reported(volume.level, volume.known, pushes, deviceLevel)
        BY DEF VolumeInv
      <4>3. volume.known => Reported(volume.level, TRUE, pushes, deviceLevel)
        BY <4>1, <4>2 DEF Reported
      <4> QED BY <2>6, <2>11, <3>4, <4>3, ReportOnItsWay
    <3>6. WouldMove(callers'[by], volume.level) <=> WouldMove(callers[by], volume.level)
      BY <2>8 DEF WouldMove
    <3>7. Promised(callers'[by], volume.level, volume.known, pushes')
      BY <2>8, <2>9, <2>11, <3>1, <3>5, <3>6 DEF Promised
    <3> QED BY <2>6, <3>1, <3>2, <3>3, <3>7
  <2>12. CASE command.op # "group" /\ level # deviceLevel
    <3> DEFINE report == [on |-> "volume", own |-> TRUE, level |-> level]
    <3> HIDE DEF level
    <3>1. report \in Report /\ Own(report) /\ report.on = "volume" /\ report.level = level
          /\ pushes' = Append(pushes, report)
      BY <2>1, <2>6, <2>12 DEF Report, Own
    <3> HIDE DEF report, command
    <3>2. pushes' \in Seq(Report) /\ Reported(volume.level, volume.known, pushes', deviceLevel')
      BY <2>1, <2>6, <3>1, Queued, OwnReport
    <3>3. \A c \in Callers : c # by => Promised(callers'[c], volume.level, volume.known, pushes')
      BY <1>0, <2>4, <2>6, <3>1, PromisedStill
    <3>4. Promised(callers'[by], volume.level, volume.known, pushes')
      <4>1. Len(pushes) + 1 \in 1..Len(pushes') /\ pushes'[Len(pushes) + 1].on = "volume"
        BY <2>6, <3>1, Queued
      <4>2. WouldMove(callers'[by], volume.level) <=> WouldMove(callers[by], volume.level)
        BY <2>8 DEF WouldMove
      <4> QED BY <2>8, <2>9, <2>12, <4>1, <4>2 DEF Promised
    <3> QED BY <3>2, <3>3, <3>4
  <2> QED BY <2>10, <2>11, <2>12
<1>12. CASE DeviceMoves
  <2>1. PICK report \in Report :
           /\ pushes' = Append(pushes, report) /\ UNCHANGED <<volume, commands, callers>> /\ deviceLevel' \in Levels
           /\ IF Own(report) THEN deviceLevel' = report.level ELSE deviceLevel' = deviceLevel
    <3>1. ASSUME NEW level \in Levels
          PROVE  /\ [on |-> "volume", own |-> TRUE, level |-> level] \in Report
                 /\ Own([on |-> "volume", own |-> TRUE, level |-> level])
                 /\ [on |-> "volume", own |-> TRUE, level |-> level].level = level
      BY DEF Report, Own
    <3>2. [on |-> "volume", own |-> FALSE, level |-> 0] \in Report
          /\ ~Own([on |-> "volume", own |-> FALSE, level |-> 0])
      BY VolumeAssumption DEF Report, Own, Levels
    <3>3. UNCHANGED <<volume, commands, callers>> /\ deviceLevel \in Levels
      BY <1>12 DEF DeviceMoves, VolumeInv, VolumeTypes
    <3>4. CASE \E level \in Levels \ {deviceLevel} :
                  deviceLevel' = level /\ SendsReport([on |-> "volume", own |-> TRUE, level |-> level])
      BY <3>1, <3>3, <3>4 DEF SendsReport
    <3>5. CASE SendsReport([on |-> "volume", own |-> FALSE, level |-> 0]) /\ UNCHANGED deviceLevel
      BY <3>2, <3>3, <3>5 DEF SendsReport
    <3> QED BY <1>12, <3>4, <3>5 DEF DeviceMoves
  <2>2. pushes \in Seq(Report) /\ Reported(volume.level, volume.known, pushes, deviceLevel)
    BY DEF VolumeInv, VolumeTypes
  <2>3. pushes' \in Seq(Report) /\ Reported(volume.level, volume.known, pushes', deviceLevel')
    BY <2>1, <2>2, Queued, OwnReport, OtherReport
  <2>4. \A c \in Callers : Promised(callers[c], volume.level, volume.known, pushes')
    BY <1>0, <2>1, <2>2, PromisedStill
  <2> QED BY <2>1, <2>3, <2>4 DEF VolumeInv, VolumeTypes
<1>13. CASE CapabilitiesChange
  <2>1. volume' \in Volume /\ volume'.level = volume.level /\ volume'.known = volume.known
        /\ UNCHANGED <<deviceLevel, commands, pushes, callers>>
    BY <1>13 DEF CapabilitiesChange, VolumeInv, VolumeTypes, Volume
  <2> QED BY <2>1 DEF VolumeInv, VolumeTypes
<1>14. CASE HandleReport
  <2> DEFINE report == Head(pushes)
             Tells(c) == Hears(c) /\ (report.on = "group" <=> callers[c].op = "group")
  <2>1. /\ pushes # <<>> /\ pushes' = Tail(pushes) /\ UNCHANGED <<deviceLevel, commands>>
        /\ volume' = IF report.on = "volume" /\ report.own
                     THEN [volume EXCEPT !.level = report.level, !.known = TRUE] ELSE volume
        /\ callers' = [c \in Callers |-> IF Tells(c) THEN [callers[c] EXCEPT !.told = TRUE] ELSE callers[c]]
    BY <1>14 DEF HandleReport
  <2>2. /\ pushes \in Seq(Report) /\ pushes' \in Seq(Report) /\ report \in Report /\ report = pushes[1]
        /\ Len(pushes') = Len(pushes) - 1 /\ Len(pushes) \in Nat \ {0}
        /\ \A k \in 1..Len(pushes) - 1 : pushes'[k] = pushes[k + 1]
    BY <2>1, Dequeued DEF VolumeInv, VolumeTypes
  <2>3. /\ volume' \in Volume
        /\ Own(report) => volume'.level = report.level /\ volume'.known = TRUE
        /\ ~Own(report) => volume' = volume
    BY <2>1, <2>2 DEF Own, Report, VolumeInv, VolumeTypes, Volume
  <2>4. Reported(volume'.level, volume'.known, pushes', deviceLevel)
    <3>1. Reported(volume.level, volume.known, pushes, deviceLevel)
      BY DEF VolumeInv
    <3> HIDE DEF report
    <3>2. /\ Own(report) => Reported(report.level, TRUE, pushes', deviceLevel)
          /\ ~Own(report) => Reported(volume.level, volume.known, pushes', deviceLevel)
      BY <2>1, <2>2, <3>1, ReportTaken DEF report
    <3> QED BY <2>3, <3>2
  <2> HIDE DEF report
  <2>5. ASSUME NEW c \in Callers
        PROVE  /\ callers'[c] \in Call /\ callers'[c].at = callers[c].at /\ callers'[c].op = callers[c].op
               /\ callers'[c].want = callers[c].want /\ callers'[c].waits = callers[c].waits
               /\ callers'[c].knew = callers[c].knew /\ callers'[c].executed = callers[c].executed
               /\ ~callers'[c].told => ~callers[c].told /\ ~Tells(c)
    BY <1>0, <2>1 DEF Call
  <2>6. callers' \in [Callers -> Call]
    BY <2>1, <2>5
  <2> HIDE DEF Tells
  <2>7. ASSUME NEW c \in Callers PROVE Promised(callers'[c], volume'.level, volume'.known, pushes')
    <3>1. SUFFICES ASSUME callers[c].at \in {"send", "sent", "wait"}, callers[c].waits, callers[c].knew,
                          ~callers'[c].told
                   PROVE  /\ callers[c].op # "group" => volume'.known /\ WouldMove(callers'[c], volume'.level)
                          /\ callers[c].executed => \E k \in 1..Len(pushes') : pushes'[k].on = "group" <=> callers[c].op = "group"
      BY <1>0, <2>5 DEF Promised
    <3>2. ~callers[c].told /\ ~(report.on = "group" <=> callers[c].op = "group")
      BY <2>5, <3>1 DEF Tells, Hears
    <3>3. callers[c].op # "group" => volume' = volume
      BY <2>3, <3>2 DEF Own
    <3>4. callers[c].op # "group" => volume'.known /\ WouldMove(callers'[c], volume'.level)
      BY <1>0, <2>5, <3>1, <3>2, <3>3 DEF Promised, WouldMove
    <3>5. ASSUME callers[c].executed
          PROVE  \E k \in 1..Len(pushes') : pushes'[k].on = "group" <=> callers[c].op = "group"
      <4>1. PICK k \in 1..Len(pushes) : pushes[k].on = "group" <=> callers[c].op = "group"
        BY <1>0, <3>1, <3>2, <3>5 DEF Promised
      <4>2. k # 1
        BY <2>2, <3>2, <4>1
      <4>3. k - 1 \in 1..Len(pushes') /\ k - 1 \in 1..Len(pushes) - 1 /\ (k - 1) + 1 = k
        BY <2>2, <4>2
      <4>4. pushes'[k - 1] = pushes[k]
        BY <2>2, <4>3
      <4> QED BY <4>1, <4>3, <4>4
    <3> QED BY <3>4, <3>5
  <2>8. ASSUME NEW k \in 1..Len(commands) PROVE Issued(commands[k], callers'[commands[k].by])
    <3>1. commands[k].by \in Callers /\ Issued(commands[k], callers[commands[k].by])
      BY CommandIssued
    <3> QED BY <2>5, <3>1 DEF Issued
  <2> QED BY <2>1, <2>2, <2>3, <2>4, <2>6, <2>7, <2>8 DEF VolumeInv, VolumeTypes
<1>15. CASE UNCHANGED volumeVars
  BY <1>15 DEF volumeVars, VolumeInv, VolumeTypes
<1> QED
  BY <1>1, <1>3, <1>4, <1>6, <1>7, <1>8, <1>9, <1>10, <1>11, <1>12, <1>13, <1>14, <1>15 DEF VolumeNext

\* volume.rs:96: with any number of callers, levels and reports on their way, a caller whose command
\* was carried out, and who had heard a level, has been told, or a report is on its way.
THEOREM NobodyWaitsInVain == VolumeSpec => []NoWaitInVain
<1>1. VolumeInv => NoWaitInVain
  <2> SUFFICES ASSUME VolumeInv, NEW c \in Callers, callers[c].at = "wait", callers[c].executed, callers[c].knew,
                      ~callers[c].told
               PROVE  pushes # <<>>
    BY DEF NoWaitInVain
  <2>1. \E k \in 1..Len(pushes) : TRUE
    BY DEF VolumeInv, Promised
  <2> QED BY <2>1 DEF VolumeInv, VolumeTypes
<1> QED BY <1>1, VolumeStarts, VolumeSteps, PTL DEF VolumeSpec

\* Neither line is longer than its bound.
LinesAreShort == Len(commands) <= MaxCommands /\ Len(pushes) <= MaxReports

\* Only a step that sees room puts something in a line.
LEMMA LinesStayShort == VolumeInv /\ LinesAreShort /\ [VolumeNext]_volumeVars => LinesAreShort'
<1> SUFFICES ASSUME VolumeInv, LinesAreShort, [VolumeNext]_volumeVars PROVE LinesAreShort'
  OBVIOUS
<1>1. /\ commands \in Seq(Command) /\ pushes \in Seq(Report) /\ Len(commands) <= MaxCommands
      /\ Len(pushes) <= MaxReports
  BY DEF VolumeInv, VolumeTypes, LinesAreShort
<1>2. commands # <<>> => Len(Tail(commands)) < Len(commands)
  BY <1>1
<1>3. pushes # <<>> => Len(Tail(pushes)) < Len(pushes)
  BY <1>1
<1>4. \A c : Len(Append(commands, c)) = Len(commands) + 1
  BY <1>1
<1>5. \A r : Len(Append(pushes, r)) = Len(pushes) + 1
  BY <1>1
<1>6. Len(commands) \in Nat /\ Len(pushes) \in Nat
  BY <1>1
<1>7. MaxCommands \in Int /\ MaxReports \in Int
  BY VolumeAssumption
<1>8. ASSUME NEW r, SendsReport(r) PROVE Len(pushes') <= MaxReports
  BY <1>5, <1>6, <1>7, <1>8 DEF SendsReport
<1>9. CASE Executes
  <2>1. commands # <<>> /\ commands' = Tail(commands)
    BY <1>9 DEF Executes
  <2>2. Len(pushes') <= MaxReports
    BY <1>1, <1>8, <1>9 DEF Executes
  <2> QED BY <1>1, <1>2, <1>6, <1>7, <2>1, <2>2 DEF LinesAreShort
<1>10. CASE DeviceMoves
  BY <1>1, <1>8, <1>10 DEF DeviceMoves, LinesAreShort
<1>11. CASE HandleReport
  BY <1>1, <1>3, <1>6, <1>7, <1>11 DEF HandleReport, LinesAreShort
<1>12. ASSUME NEW c \in Callers, Sends(c) PROVE LinesAreShort'
  BY <1>1, <1>4, <1>6, <1>7, <1>12 DEF Sends, LinesAreShort
<1>13. CASE UNCHANGED <<commands, pushes>>
  BY <1>1, <1>13 DEF LinesAreShort
<1> QED BY <1>9, <1>10, <1>11, <1>12, <1>13
    DEF VolumeNext, volumeVars, CapabilitiesChange, CallsAudio, SetLevel, ModifyGroup, TakesStep, SendFails,
        SendReturns, Confirmed, TimesOut

\* volume.rs: whatever is set, stepped and reported in whatever order, the level that is known and the
\* device's are levels, between 0 and the greatest.
THEOREM VolumeTypesCorrect == VolumeSpec => []VolumeTypeOK
<1>1. VolumeInit => LinesAreShort
  BY VolumeAssumption DEF VolumeInit, LinesAreShort
<1>2. VolumeInv /\ LinesAreShort => VolumeTypeOK
  BY DEF VolumeInv, VolumeTypes, LinesAreShort, VolumeTypeOK, Call, Volume
<1> QED BY <1>1, <1>2, VolumeStarts, VolumeSteps, LinesStayShort, PTL DEF VolumeSpec
=============================================================================
