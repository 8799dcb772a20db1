------------------------- MODULE CompanionActorProofs -------------------------
(***************************************************************************)
(* Proofs about CompanionActor, for any number of callers, event names and *)
(* XIDs and any queue lengths: which XIDs are outstanding, whose response  *)
(* a caller is given, and what is registered at the device.                *)
(***************************************************************************)
EXTENDS CompanionActor, SequenceTheorems, WellFoundedInduction, TLAPS

NoRepeats(s) == \A i, j \in 1 .. Len(s) : s[i] = s[j] => i = j

-----------------------------------------------------------------------------
(* The inductive invariant. *)

CallShape ==
  \A c \in Callers :
    /\ phase[c] = "idle" <=> op[c] = "none"
    /\ phase[c] # "wait" => reply[c] = "none"

\* Caller c waits, for an operation o that has no result yet.
Waits(c, o) == phase[c] = "wait" /\ op[c] = o /\ reply[c] = "none"

\* A caller has at most one request, in the channel or in the actor's hands.
QueueShape ==
  /\ \A i \in 1 .. Len(requests) :
       /\ Waits(requests[i].who, requests[i].op)
       /\ requests[i].who # job.who
       /\ requests[i].op \in {"register", "deregister"} => requests[i].name \in Names
  /\ \A i, j \in 1 .. Len(requests) : requests[i].who = requests[j].who => i = j

\* Only a send and a response that is awaited have a job; a teardown remembers who asked for it.
JobShape ==
  /\ pc \notin {"write", "await", "teardown"} => job = NoJob
  /\ pc \in {"write", "await"} => job.kind # "none"
  /\ pc = "await" => job.xid # None
  /\ pc = "teardown" => job.kind = "none" /\ job.who # None /\ job.xid = None /\ job.name = None
  /\ job.kind \in {"command", "volume"} => job.xid # None /\ job.name = None
  /\ job.kind \in {"register", "deregister"} => job.xid = None /\ job.name # None
  /\ job.kind = "teardown" => (job.xid = None <=> job.name # None)
  /\ job.kind \in {"command", "register", "deregister"} => job.who # None /\ Waits(job.who, job.kind)
  /\ job.kind = "teardown" \/ pc = "teardown" => job.who # None /\ Waits(job.who, "close")
  /\ job.kind = "volume" => job.who = None

TearingDown == pc = "teardown" \/ job.kind = "teardown"

\* The names to deregister are on one of two lists, once.
ListShape ==
  /\ ~TearingDown => teardown = <<>>
  /\ TearingDown => subscribed = <<>>
  /\ \A i, j \in 1 .. Len(teardown) : teardown[i] = teardown[j] /\ teardown[i] # None => i = j
  /\ NoRepeats(subscribed)
  /\ pc = "lost" => device = "gone"
  /\ pc = "stopped" /\ device = "up" => subscribed = <<>>

\* While the device is there, the XID outstanding is that of the exchange under way.
OutstandingShape ==
  /\ NoRepeats(outstanding)
  /\ device = "up" => outstanding = IF job.xid = None THEN <<>> ELSE <<job.xid>>

\* Whoever the response to the awaited XID is meant for is the one who awaits it.
Owns(who) == who \in {None, job.who}

OwnersMatch ==
  job.kind = "command" =>
    /\ \A a \in accepted : a.xid = job.xid => Owns(a.who)
    /\ \A f \in stash : f.xid = job.xid => Owns(f.who)
    /\ \A i \in 1 .. Len(inbound) : inbound[i].xid = job.xid => Owns(inbound[i].who)

\* What is to be deregistered in the end, and what the _interest under way makes of the device's list.
Listed == (ToSet(subscribed) \cup ToSet(teardown)) \ {None}

RegisteredNext ==
  IF job.name = None THEN registered
  ELSE IF job.kind = "register" THEN registered \cup {job.name}
  ELSE registered \ {job.name}

ListsAgree == device = "up" => RegisteredNext = Listed

Shape == CallShape /\ QueueShape /\ JobShape /\ ListShape

IInv ==
  /\ TypeOK /\ Shape /\ OutstandingShape /\ StashWithinOutstanding
  /\ OwnersMatch /\ AnswersMatch /\ ListsAgree

-----------------------------------------------------------------------------
(* Sequences: a queue's first element, and a list without one of its names. *)

\* A queue without its head.
LEMMA TailFacts ==
  ASSUME NEW S, NEW q \in Seq(S), q # <<>>
  PROVE  /\ Head(q) \in S /\ Head(q) = q[1] /\ Len(q) \in Nat \ {0}
         /\ Tail(q) \in Seq(S) /\ Len(Tail(q)) = Len(q) - 1
         /\ \A i \in 1 .. Len(q) - 1 : Tail(q)[i] = q[i + 1]
  OBVIOUS

\* A queue with one more at its end.
LEMMA AppendFacts ==
  ASSUME NEW S, NEW q \in Seq(S), NEW e \in S
  PROVE  /\ Append(q, e) \in Seq(S) /\ Len(q) \in Nat /\ Len(Append(q, e)) = Len(q) + 1
         /\ \A i \in 1 .. Len(q) : Append(q, e)[i] = q[i]
         /\ Append(q, e)[Len(q) + 1] = e
  OBVIOUS

\* What ToSet says, by position.
LEMMA InToSet ==
  ASSUME NEW S, NEW s \in Seq(S), NEW x
  PROVE  x \in ToSet(s) <=> \E i \in 1 .. Len(s) : s[i] = x
  BY DEF ToSet

\* What an appended list holds.
LEMMA ToSetOfAppend ==
  ASSUME NEW S, NEW s \in Seq(S), NEW x \in S
  PROVE  ToSet(Append(s, x)) = ToSet(s) \cup {x}
<1>1. ASSUME NEW y PROVE y \in ToSet(Append(s, x)) <=> y \in ToSet(s) \/ y = x
  <2>1. /\ Append(s, x) \in Seq(S) /\ Len(s) \in Nat /\ Len(Append(s, x)) = Len(s) + 1
        /\ \A i \in 1 .. Len(s) : Append(s, x)[i] = s[i]
        /\ Append(s, x)[Len(s) + 1] = x
    BY AppendFacts
  <2>2. y \in ToSet(s) <=> \E i \in 1 .. Len(s) : s[i] = y
    BY InToSet
  <2>3. y \in ToSet(Append(s, x)) <=> \E i \in 1 .. Len(Append(s, x)) : Append(s, x)[i] = y
    BY <2>1, InToSet
  <2> QED BY <2>1, <2>2, <2>3
<1> QED BY <1>1

\* What a list holds is its head and what its tail holds.
LEMMA ToSetOfTail ==
  ASSUME NEW S, NEW s \in Seq(S), s # <<>>
  PROVE  ToSet(s) = {Head(s)} \cup ToSet(Tail(s))
<1>1. ASSUME NEW y PROVE y \in ToSet(s) <=> y = Head(s) \/ y \in ToSet(Tail(s))
  <2>1. ASSUME NEW i \in 1 .. Len(s), s[i] = y PROVE y = Head(s) \/ y \in ToSet(Tail(s))
    <3>1. CASE i = 1
      BY <2>1, <3>1, TailFacts
    <3>2. CASE i # 1
      <4>1. i - 1 \in 1 .. Len(s) - 1 /\ Tail(s)[i - 1] = s[i]
        BY <3>2, TailFacts
      <4> QED BY <2>1, <4>1, TailFacts, InToSet
    <3> QED BY <3>1, <3>2
  <2>2. ASSUME y = Head(s) PROVE y \in ToSet(s)
    BY <2>2, TailFacts, InToSet
  <2>3. ASSUME y \in ToSet(Tail(s)) PROVE y \in ToSet(s)
    <3>0. Tail(s) \in Seq(S)
      BY TailFacts
    <3>1. PICK i \in 1 .. Len(Tail(s)) : Tail(s)[i] = y
      BY <2>3, <3>0, InToSet
    <3>2. i + 1 \in 1 .. Len(s) /\ s[i + 1] = y
      BY <3>1, TailFacts
    <3> QED BY <3>2, InToSet
  <2> QED BY <2>1, <2>2, <2>3, InToSet
<1> QED BY <1>1

\* Of a list without repetitions RemoveFirst removes one position, and with it the element.
LEMMA RemoveFirstAt ==
  ASSUME NEW S, NEW s \in Seq(S), NoRepeats(s), NEW x, NEW k \in 1 .. Len(s), s[k] = x
  PROVE  /\ RemoveFirst(s, x) \in Seq(S) /\ Len(RemoveFirst(s, x)) = Len(s) - 1
         /\ \A i \in 1 .. Len(s) - 1 : RemoveFirst(s, x)[i] = IF i < k THEN s[i] ELSE s[i + 1]
<1>1. {i \in 1 .. Len(s) : s[i] = x} = {k}
  BY DEF NoRepeats
<1>2. Min({k}) = k
  BY DEF Min
<1>3. SelectInSeq(s, LAMBDA v : v = x) = k
  BY <1>1, <1>2 DEF SelectInSeq
<1>4. RemoveFirst(s, x) = SubSeq(s, 1, k - 1) \o SubSeq(s, k + 1, Len(s))
  BY <1>3 DEF RemoveFirst, RemoveAt
<1> DEFINE t == SubSeq(s, 1, k - 1)  u == SubSeq(s, k + 1, Len(s))
<1>5. /\ t \in Seq(S) /\ Len(t) = k - 1
      /\ \A i \in 1 .. k - 1 : t[i] = s[i]
  BY SubSeqProperties
<1>6. /\ u \in Seq(S) /\ Len(u) = Len(s) - k
      /\ \A i \in 1 .. Len(s) - k : u[i] = s[k + i]
  <2>1. \A i \in k + 1 .. Len(s) : s[i] \in S
    OBVIOUS
  <2>2. /\ u \in Seq(S)
        /\ Len(u) = IF k + 1 <= Len(s) THEN Len(s) - (k + 1) + 1 ELSE 0
        /\ \A i \in 1 .. Len(s) - (k + 1) + 1 : u[i] = s[k + 1 + i - 1]
    BY <2>1, SubSeqProperties
  <2> QED BY <2>2
<1> HIDE DEF t, u
<1>7. /\ t \o u \in Seq(S) /\ Len(t \o u) = Len(t) + Len(u)
      /\ \A i \in 1 .. Len(t) + Len(u) : (t \o u)[i] = IF i <= Len(t) THEN t[i] ELSE u[i - Len(t)]
  BY <1>5, <1>6, ConcatProperties
<1>8. ASSUME NEW i \in 1 .. Len(s) - 1 PROVE (t \o u)[i] = IF i < k THEN s[i] ELSE s[i + 1]
  BY <1>5, <1>6, <1>7
<1>9. RemoveFirst(s, x) = t \o u
  BY <1>4 DEF t, u
<1>10. Len(t \o u) = Len(s) - 1
  BY <1>5, <1>6, <1>7
<1> QED BY <1>7, <1>8, <1>9, <1>10

\* retain on a list without repeats: one name less, and still no repeats.
LEMMA RemoveFirstFacts ==
  ASSUME NEW S, NEW s \in Seq(S), NoRepeats(s), NEW x
  PROVE  /\ RemoveFirst(s, x) \in Seq(S) /\ Len(RemoveFirst(s, x)) <= Len(s)
         /\ NoRepeats(RemoveFirst(s, x))
         /\ ToSet(RemoveFirst(s, x)) = ToSet(s) \ {x}
<1>1. CASE x \notin ToSet(s)
  <2>1. RemoveFirst(s, x) = s
    BY <1>1, InToSet DEF RemoveFirst
  <2> QED BY <1>1, <2>1
<1>2. CASE x \in ToSet(s)
  <2> DEFINE t == RemoveFirst(s, x)
  <2>1. PICK k \in 1 .. Len(s) : s[k] = x
    BY <1>2, InToSet
  <2>2. /\ t \in Seq(S) /\ Len(t) = Len(s) - 1
        /\ \A i \in 1 .. Len(s) - 1 : t[i] = IF i < k THEN s[i] ELSE s[i + 1]
    BY <2>1, RemoveFirstAt
  <2> HIDE DEF t
  <2>3. NoRepeats(t)
    BY <2>2 DEF NoRepeats
  <2>4. ASSUME NEW y PROVE y \in ToSet(t) <=> y \in ToSet(s) /\ y # x
    <3>1. ASSUME NEW i \in 1 .. Len(t), t[i] = y PROVE y \in ToSet(s) /\ y # x
      <4>1. PICK j \in 1 .. Len(s) : j # k /\ s[j] = y
        BY <2>2, <3>1
      <4> QED BY <2>1, <4>1, InToSet DEF NoRepeats
    <3>2. ASSUME NEW i \in 1 .. Len(s), s[i] = y, y # x PROVE y \in ToSet(t)
      <4>1. i # k
        BY <2>1, <3>2
      <4>2. PICK j \in 1 .. Len(s) - 1 : t[j] = y
        <5>1. CASE i < k
          BY <2>2, <3>2, <5>1
        <5>2. CASE i > k
          <6>1. i - 1 \in 1 .. Len(s) - 1 /\ t[i - 1] = y
            BY <2>2, <3>2, <5>2
          <6> QED BY <6>1
        <5> QED BY <4>1, <5>1, <5>2
      <4> QED BY <2>2, <4>2, InToSet
    <3> QED BY <2>2, <3>1, <3>2, InToSet
  <2> QED BY <2>2, <2>3, <2>4 DEF t
<1> QED BY <1>1, <1>2

-----------------------------------------------------------------------------
(* What the actor's helpers do. *)

\* The channel after a request was taken from it.
LEMMA SelectsFacts ==
  ASSUME TypeOK, NEW o, Selects(o)
  PROVE  /\ pc = "select" /\ requests # <<>> /\ Len(requests) \in Nat \ {0}
         /\ Head(requests) = requests[1] /\ Head(requests) \in Request /\ Head(requests).op \in o
         /\ Head(requests).who \in Callers
         /\ requests' \in Seq(Request) /\ Len(requests') = Len(requests) - 1
         /\ Len(requests') <= RequestQueue
         /\ \A i \in 1 .. Len(requests') : i + 1 \in 1 .. Len(requests) /\ requests'[i] = requests[i + 1]
<1>1. requests \in Seq(Request) /\ requests # <<>> /\ requests' = Tail(requests)
  BY DEF TypeOK, Selects
<1>2. /\ Head(requests) \in Request /\ Head(requests) = requests[1] /\ Len(requests) \in Nat \ {0}
      /\ requests' \in Seq(Request) /\ Len(requests') = Len(requests) - 1
      /\ \A i \in 1 .. Len(requests) - 1 : requests'[i] = requests[i + 1]
  BY <1>1, TailFacts
<1>3. Len(requests) <= RequestQueue /\ RequestQueue \in Nat
  BY BoundAssumption DEF TypeOK
<1>4. \A i \in 1 .. Len(requests') : i + 1 \in 1 .. Len(requests) /\ requests'[i] = requests[i + 1]
  BY <1>2
<1>5. Head(requests).who \in Callers /\ Len(requests') <= RequestQueue
  BY <1>2, <1>3 DEF Request
<1> QED BY <1>1, <1>2, <1>4, <1>5 DEF Selects

\* An exchange begins with an XID that nothing in flight has, and evicts the oldest one.
LEMMA IssueFacts ==
  ASSUME TypeOK, NoRepeats(outstanding), StashWithinOutstanding,
         NEW x \in Xids, ~InUse(x), Issue(x)
  PROVE  /\ outstanding' \in Seq(Xids) /\ Len(outstanding') <= MaxOutstanding
         /\ NoRepeats(outstanding')
         /\ outstanding = <<>> => outstanding' = <<x>>
         /\ stash' \subseteq stash
         /\ \A f \in stash' : f.xid \in ToSet(outstanding') /\ f.xid # x
<1>1. outstanding \in Seq(Xids) /\ Len(outstanding) \in Nat /\ Len(outstanding) <= MaxOutstanding
  BY DEF TypeOK
<1>2. \A i \in 1 .. Len(outstanding) : outstanding[i] # x
  BY <1>1, InToSet DEF InUse
<1>3. \A f \in stash : f.xid \in ToSet(outstanding) /\ f.xid # x
  BY DEF StashWithinOutstanding, InUse
<1>4. CASE Len(outstanding) < MaxOutstanding
  <2>1. outstanding' = Append(outstanding, x) /\ stash' = stash
    BY <1>4 DEF Issue
  <2>2. ToSet(outstanding') = ToSet(outstanding) \cup {x}
    BY <1>1, <2>1, ToSetOfAppend
  <2>3. NoRepeats(outstanding')
    BY <1>1, <1>2, <2>1, AppendFacts DEF NoRepeats
  <2>4. outstanding' \in Seq(Xids) /\ Len(outstanding') <= MaxOutstanding
    BY <1>1, <1>4, <2>1, AppendFacts, BoundAssumption
  <2>5. outstanding = <<>> => outstanding' = <<x>>
    BY <2>1
  <2> QED BY <1>3, <2>1, <2>2, <2>3, <2>4, <2>5
<1>5. CASE ~(Len(outstanding) < MaxOutstanding)
  <2>1. outstanding # <<>>
    BY <1>1, <1>5, BoundAssumption
  <2> DEFINE t == Tail(outstanding)
  <2>2. /\ t \in Seq(Xids) /\ Len(t) = Len(outstanding) - 1 /\ Len(outstanding) \in Nat \ {0}
        /\ Head(outstanding) = outstanding[1]
        /\ \A i \in 1 .. Len(t) : t[i] = outstanding[i + 1]
    BY <1>1, <2>1, TailFacts
  <2>3. ToSet(outstanding) = {Head(outstanding)} \cup ToSet(t)
    BY <1>1, <2>1, ToSetOfTail
  <2>4. outstanding' = Append(t, x) /\ stash' = {f \in stash : f.xid # Head(outstanding)}
    BY <1>5 DEF Issue
  <2> HIDE DEF t
  <2>5. ToSet(outstanding') = ToSet(t) \cup {x}
    BY <2>2, <2>4, ToSetOfAppend
  <2>6. NoRepeats(outstanding')
    <3>1. \A i \in 1 .. Len(t) : t[i] # x
      BY <1>2, <2>2
    <3>2. NoRepeats(t)
      BY <2>2 DEF NoRepeats
    <3> QED BY <2>2, <2>4, <3>1, <3>2, AppendFacts DEF NoRepeats
  <2>7. outstanding' \in Seq(Xids) /\ Len(outstanding') <= MaxOutstanding
    BY <1>1, <2>2, <2>4, AppendFacts, BoundAssumption
  <2> QED BY <1>3, <2>1, <2>3, <2>4, <2>5, <2>6, <2>7
<1> QED BY <1>4, <1>5

\* begin_exchange: an identifier nobody uses, and the job that owns it.
LEMMA BeginExchangeFacts ==
  ASSUME TypeOK, OutstandingShape, StashWithinOutstanding, NEW kind, NEW who, BeginExchange(kind, who)
  PROVE  /\ pc' = "write"
         /\ \E x \in Xids :
              /\ ~InUse(x)
              /\ job' = [kind |-> kind, who |-> who, xid |-> x, name |-> None]
              /\ outstanding' \in Seq(Xids) /\ Len(outstanding') <= MaxOutstanding
              /\ NoRepeats(outstanding')
              /\ outstanding = <<>> => outstanding' = <<x>>
              /\ stash' \subseteq stash
              /\ \A f \in stash' : f.xid \in ToSet(outstanding') /\ f.xid # x
<1>1. next_xid \in Xids /\ ~InUse(next_xid)
  BY DEF BeginExchange, next_xid
<1>2. /\ pc' = "write" /\ Issue(next_xid)
      /\ job' = [kind |-> kind, who |-> who, xid |-> next_xid, name |-> None]
  BY DEF BeginExchange
<1> HIDE DEF next_xid
<1> QED BY <1>1, <1>2, IssueFacts DEF OutstandingShape

\* Settling an exchange takes its identifier off the list and its answer
\* off the stash.
LEMMA ResolveFacts ==
  ASSUME TypeOK, OutstandingShape, StashWithinOutstanding, NEW x, Resolve(x)
  PROVE  /\ outstanding' \in Seq(Xids) /\ Len(outstanding') <= MaxOutstanding
         /\ NoRepeats(outstanding')
         /\ outstanding = <<x>> => outstanding' = <<>>
         /\ stash' \subseteq stash
         /\ StashWithinOutstanding'
<1>1. outstanding \in Seq(Xids) /\ Len(outstanding) \in Nat /\ NoRepeats(outstanding)
  BY DEF TypeOK, OutstandingShape
<1>2. /\ outstanding' \in Seq(Xids) /\ Len(outstanding') <= Len(outstanding)
      /\ NoRepeats(outstanding') /\ ToSet(outstanding') = ToSet(outstanding) \ {x}
  BY <1>1, RemoveFirstFacts DEF Resolve
<1>3. ASSUME outstanding = <<x>> PROVE outstanding' = <<>>
  <2>1. x \notin ToSet(outstanding')
    BY <1>2
  <2>2. ASSUME NEW i \in 1 .. Len(outstanding') PROVE FALSE
    <3>1. outstanding'[i] \in ToSet(outstanding)
      BY <1>2, InToSet
    <3>2. \A y \in ToSet(outstanding) : y = x
      BY <1>3 DEF ToSet
    <3>3. outstanding'[i] \in ToSet(outstanding')
      BY <1>2, InToSet
    <3> QED BY <2>1, <3>1, <3>2, <3>3
  <2> QED BY <1>2, <2>2
<1>4. stash' = {f \in stash : f.xid # x}
  BY DEF Resolve
<1>5. StashWithinOutstanding'
  BY <1>2, <1>4 DEF StashWithinOutstanding
<1>6. Len(outstanding) <= MaxOutstanding /\ Len(outstanding') \in Nat
  BY <1>2 DEF TypeOK
<1>7. Len(outstanding') <= MaxOutstanding
  BY <1>1, <1>2, <1>6, BoundAssumption
<1>8. stash' \subseteq stash
  BY <1>4
<1> QED BY <1>2, <1>3, <1>5, <1>7, <1>8

\* A job that ends tells at most the caller it was done for.
LEMMA FinishFacts ==
  ASSUME TypeOK, JobShape, pc \in {"write", "await"},
         NEW r \in {"answer", "done", "failed"}, NEW w \in Callers \cup {None}, Finish(r, w)
  PROVE  /\ job' \in Job /\ job'.kind = "none" /\ job'.xid = None /\ job'.name = None
         /\ job.kind = "teardown" => pc' = "teardown" /\ job'.who = job.who
         /\ job.kind # "teardown" => pc' \in {"select", "drain"} /\ job' = NoJob
         /\ reply' \in [Callers -> {"none", "answer", "done", "failed", "closed"}]
         /\ got' \in [Callers -> Callers \cup {None}]
         /\ \A c \in Callers : c # job.who => reply'[c] = reply[c] /\ got'[c] = got[c]
         /\ job.kind \in {"command", "register", "deregister"} => reply'[job.who] = r /\ got'[job.who] = w
         /\ job.kind \notin {"command", "register", "deregister"} => UNCHANGED <<reply, got>>
         /\ volume' \in {"zero", "read"}
         /\ passes' \in 0 .. MaxDrainPasses - 1
<1> USE NameAssumption, BoundAssumption DEF NoJob
<1>1. job \in Job /\ job.kind # "none"
  BY DEF TypeOK, JobShape
<1>2. job' = [NoJob EXCEPT !.who = IF job.kind = "teardown" THEN job.who ELSE None]
  BY DEF Finish
<1>3. /\ job' \in Job /\ job'.kind = "none" /\ job'.xid = None /\ job'.name = None
      /\ job.kind = "teardown" => job'.who = job.who
      /\ job.kind # "teardown" => job' = NoJob
  BY <1>1, <1>2 DEF Job
<1>4. /\ job.kind = "teardown" => pc' = "teardown"
      /\ job.kind # "teardown" => pc' \in {"select", "drain"}
  BY DEF Finish
<1>5. /\ reply' \in [Callers -> {"none", "answer", "done", "failed", "closed"}]
      /\ got' \in [Callers -> Callers \cup {None}]
      /\ \A c \in Callers : c # job.who => reply'[c] = reply[c] /\ got'[c] = got[c]
      /\ job.kind \in {"command", "register", "deregister"} => reply'[job.who] = r /\ got'[job.who] = w
      /\ job.kind \notin {"command", "register", "deregister"} => UNCHANGED <<reply, got>>
  <2>1. /\ reply \in [Callers -> {"none", "answer", "done", "failed", "closed"}]
        /\ got \in [Callers -> Callers \cup {None}]
    BY DEF TypeOK
  <2>2. CASE job.kind \in {"command", "register", "deregister"}
    <3>1. job.who \in Callers
      BY <1>1, <2>2 DEF JobShape, Job
    <3>2. reply' = [reply EXCEPT ![job.who] = r] /\ got' = [got EXCEPT ![job.who] = w]
      BY <2>2 DEF Finish
    <3> QED BY <2>1, <2>2, <3>1, <3>2
  <2>3. CASE job.kind \notin {"command", "register", "deregister"}
    <3>1. reply' = reply /\ got' = got
      BY <2>3 DEF Finish
    <3> QED BY <2>1, <2>3, <3>1
  <2> QED BY <2>2, <2>3
<1>6. volume' \in {"zero", "read"}
  BY DEF Finish, TypeOK
<1>7. passes' \in 0 .. MaxDrainPasses - 1
  BY SMTT(60) DEF Finish, TypeOK, NextPass
<1> QED BY <1>3, <1>4, <1>5, <1>6, <1>7

\* A frame that nobody awaits becomes an event, or is kept for an XID that is outstanding.
LEMMA FileFacts ==
  ASSUME TypeOK, inbound # <<>>, FileFrame(Head(inbound)), inbound' = Tail(inbound)
  PROVE  /\ inbound' \in Seq(Frame)
         /\ \A i \in 1 .. Len(inbound') : i + 1 \in 1 .. Len(inbound) /\ inbound'[i] = inbound[i + 1]
         /\ Head(inbound) = inbound[1] /\ 1 \in 1 .. Len(inbound)
         /\ events' \in Seq({"volume", "novolume"})
         /\ \A f \in stash' : \/ f \in stash
                              \/ f = Head(inbound) /\ f \in Frame /\ f.xid \in ToSet(outstanding)
<1> DEFINE f == Head(inbound)
<1>1. /\ f \in Frame /\ f = inbound[1] /\ inbound' \in Seq(Frame)
      /\ Len(inbound) \in Nat \ {0} /\ Len(inbound') = Len(inbound) - 1
      /\ \A i \in 1 .. Len(inbound) - 1 : inbound'[i] = inbound[i + 1]
  BY TailFacts DEF TypeOK
<1> HIDE DEF f
<1>2. CASE f.kind = "response"
  <2>1. stash' = Stashed(f) /\ events' = events
    BY <1>2 DEF FileFrame, f
  <2> QED BY <1>1, <2>1 DEF f, Stashed, TypeOK
<1>3. CASE f.kind # "response"
  <2>1. stash' = stash /\ events' = Append(events, f.kind)
    BY <1>3 DEF FileFrame, f
  <2>2. f.kind \in {"volume", "novolume"} /\ events \in Seq({"volume", "novolume"})
    BY <1>1, <1>3 DEF Frame, TypeOK
  <2>3. events' \in Seq({"volume", "novolume"})
    BY <2>1, <2>2, AppendFacts
  <2> QED BY <1>1, <2>1, <2>3 DEF f
<1> QED BY <1>2, <1>3

\* A frame that arrives comes after those that did.
LEMMA ArriveFacts ==
  ASSUME TypeOK, NEW f \in Frame, Arrives(f)
  PROVE  /\ inbound' \in Seq(Frame) /\ Len(inbound) \in Nat
         /\ \A i \in 1 .. Len(inbound') : (i \in 1 .. Len(inbound) /\ inbound'[i] = inbound[i]) \/ inbound'[i] = f
<1>1. inbound \in Seq(Frame) /\ inbound' = Append(inbound, f)
  BY DEF TypeOK, Arrives
<1>2. /\ inbound' \in Seq(Frame) /\ Len(inbound) \in Nat /\ Len(inbound') = Len(inbound) + 1
      /\ \A i \in 1 .. Len(inbound) : inbound'[i] = inbound[i]
      /\ inbound'[Len(inbound) + 1] = f
  BY <1>1, AppendFacts
<1> QED BY <1>2

\* The response that is taken: it was filed before, or it is the next frame.
LEMMA AwaitTakesFacts ==
  ASSUME TypeOK, AwaitTakes
  PROVE  /\ pc = "await" /\ inbound' \in Seq(Frame)
         /\ \A i \in 1 .. Len(inbound') : \E j \in 1 .. Len(inbound) : inbound'[i] = inbound[j]
         /\ \E f \in Frame :
              /\ f.xid = job.xid
              /\ f \in stash \/ \E i \in 1 .. Len(inbound) : inbound[i] = f
              /\ Finish(IF f.ok THEN "answer" ELSE "failed", f.who)
<1> DEFINE ready == {f \in stash : f.xid = job.xid}
           f == IF ready # {} THEN CHOOSE g \in ready : TRUE ELSE Head(inbound)
<1>1. /\ pc = "await"
      /\ ready # {} \/ (inbound # <<>> /\ Takes(f))
      /\ inbound' = IF ready # {} THEN inbound ELSE Tail(inbound)
      /\ Finish(IF f.ok THEN "answer" ELSE "failed", f.who)
  BY DEF AwaitTakes
<1>2. CASE ready # {}
  <2>1. f \in ready
    BY <1>2
  <2>2. f \in stash /\ f \in Frame /\ f.xid = job.xid
    BY <2>1 DEF TypeOK
  <2>3. inbound' = inbound /\ inbound \in Seq(Frame)
    BY <1>1, <1>2 DEF TypeOK
  <2> HIDE DEF f
  <2> QED BY <1>1, <2>2, <2>3
<1>3. CASE ready = {}
  <2>1. f = Head(inbound) /\ inbound # <<>> /\ Takes(f) /\ inbound' = Tail(inbound)
    BY <1>1, <1>3
  <2>2. /\ f \in Frame /\ f = inbound[1] /\ inbound' \in Seq(Frame)
        /\ Len(inbound) \in Nat \ {0} /\ Len(inbound') = Len(inbound) - 1
        /\ \A i \in 1 .. Len(inbound) - 1 : inbound'[i] = inbound[i + 1]
    BY ZenonT(60), <2>1, TailFacts DEF TypeOK
  <2> HIDE DEF f, ready
  <2>3. \A i \in 1 .. Len(inbound') : i + 1 \in 1 .. Len(inbound) /\ inbound'[i] = inbound[i + 1]
    BY <2>2
  <2>4. f.xid = job.xid /\ 1 \in 1 .. Len(inbound)
    BY <2>1, <2>2 DEF Takes
  <2> QED BY <1>1, <2>2, <2>3, <2>4
<1> QED BY <1>2, <1>3

-----------------------------------------------------------------------------
(* Types. *)

\* Every step keeps the types.
LEMMA TypeStep ==
  ASSUME TypeOK, Shape, OutstandingShape, StashWithinOutstanding, [Next]_vars
  PROVE  TypeOK'
<1> USE NameAssumption, BoundAssumption DEF callVars, protocolVars, stateVars, deviceVars
<1>0. CASE UNCHANGED vars
  BY <1>0 DEF vars, TypeOK
<1>1. ASSUME NEW c \in Callers, Start(c) PROVE TypeOK'
  <2>1. PICK o \in CallerOps[c] : op' = [op EXCEPT ![c] = o]
    BY <1>1 DEF Start
  <2>2. o \in {"command", "register", "deregister", "close"}
    BY <2>1, OpsAssumption
  <2> QED BY <1>1, <2>1, <2>2 DEF Start, TypeOK
<1>2. ASSUME NEW c \in Callers, Submit(c) PROVE TypeOK'
  BY <1>2 DEF Submit, TypeOK, Shape, CallShape, Request
<1>3. ASSUME NEW c \in Callers, Return(c) PROVE TypeOK'
  BY <1>3 DEF Return, TypeOK
<1>4. ASSUME ServeCommand PROVE TypeOK'
  <2>1. requests' \in Seq(Request) /\ Len(requests') <= RequestQueue /\ Head(requests).who \in Callers
    BY <1>4, SelectsFacts DEF ServeCommand
  <2>2. PICK x \in Xids :
          /\ job' = [kind |-> "command", who |-> Head(requests).who, xid |-> x, name |-> None]
          /\ outstanding' \in Seq(Xids) /\ Len(outstanding') <= MaxOutstanding
          /\ stash' \subseteq stash /\ pc' = "write"
    BY <1>4, BeginExchangeFacts DEF ServeCommand
  <2>3. job' \in Job
    BY <2>1, <2>2 DEF Job
  <2> QED BY <1>4, <2>1, <2>2, <2>3 DEF ServeCommand, TypeOK
<1>5. ASSUME ServeInterest PROVE TypeOK'
  <2> DEFINE r == Head(requests)
  <2>1. /\ requests' \in Seq(Request) /\ Len(requests') <= RequestQueue
        /\ r \in Request /\ r.who \in Callers /\ r.name \in Names
        /\ r.op \in {"register", "deregister"}
    BY <1>5, SelectsFacts DEF ServeInterest, TypeOK, Request, Shape, QueueShape
  <2> HIDE DEF r
  <2>2. CASE Redundant(r)
    BY <1>5, <2>1, <2>2 DEF r, ServeInterest, TypeOK
  <2>3. CASE ~Redundant(r)
    <3>1. /\ subscribed' = Interest(r) /\ reply' = reply /\ pc' = "write"
          /\ job' = [kind |-> r.op, who |-> r.who, xid |-> None, name |-> r.name]
          /\ UNCHANGED protocolVars
      BY <1>5, <2>3 DEF r, ServeInterest, BeginEvent
    <3>2. subscribed' \in Seq(Names)
      <4>1. subscribed \in Seq(Names) /\ NoRepeats(subscribed)
        BY DEF TypeOK, Shape, ListShape
      <4> QED BY <2>1, <3>1, <4>1, RemoveFirstFacts, AppendFacts DEF Interest
    <3>3. job' \in Job
      BY <2>1, <3>1 DEF Job
    <3> QED BY <1>5, <2>1, <3>1, <3>2, <3>3 DEF ServeInterest, TypeOK
  <2> QED BY <2>2, <2>3
<1>6. ASSUME ServeShutdown PROVE TypeOK'
  <2>1. requests' \in Seq(Request) /\ Len(requests') <= RequestQueue /\ Head(requests).who \in Callers
    BY <1>6, SelectsFacts DEF ServeShutdown
  <2>2. teardown' \in Seq(Names \cup {None})
    BY <1>6 DEF ServeShutdown, TeardownOf, TypeOK
  <2>3. job' \in Job
    BY <1>6, <2>1 DEF ServeShutdown, Job, NoJob
  <2>4. /\ subscribed' = <<>> /\ deferred' \in BOOLEAN /\ pc' = "teardown"
        /\ UNCHANGED <<callVars, passes, protocolVars, events, stateVars, heard, deviceVars, inbound>>
    BY <1>6 DEF ServeShutdown
  <2> QED BY <2>1, <2>2, <2>3, <2>4 DEF TypeOK
<1>7. ASSUME Poll PROVE TypeOK'
  <2>1. /\ inbound' \in Seq(Frame) /\ events' \in Seq({"volume", "novolume"}) /\ stash' \subseteq Frame
    BY <1>7, FileFacts DEF Poll, TypeOK
  <2> QED BY <1>7, <2>1 DEF Poll, TypeOK
<1>8. ASSUME PollFails PROVE TypeOK'
  BY <1>8 DEF PollFails, TypeOK
<1>9. ASSUME ReportLoss PROVE TypeOK'
  BY <1>9 DEF ReportLoss, TypeOK
<1>10. ASSUME WriteOk PROVE TypeOK'
  <2>1. job \in Job /\ pc = "write" /\ JobShape
    BY <1>10 DEF WriteOk, TypeOK, Shape
  <2>2. accepted' \subseteq [xid : Xids, who : Callers \cup {None}]
    <3>1. [xid |-> job.xid, who |-> IF job.kind = "command" THEN job.who ELSE None]
            \in [xid : Xids \cup {None}, who : Callers \cup {None}]
      BY <2>1 DEF Job
    <3>2. CASE UNCHANGED accepted
      BY <3>2 DEF TypeOK
    <3>3. CASE /\ job.xid # None
               /\ accepted' = accepted \cup {[xid |-> job.xid, who |-> IF job.kind = "command" THEN job.who ELSE None]}
      BY <2>1, <3>3 DEF TypeOK, Job
    <3> QED BY <1>10, <3>2, <3>3 DEF WriteOk
  <2>3. registered' \subseteq Names
    <3>1. job.name \in Names \cup {None} /\ registered \subseteq Names
      BY <2>1 DEF TypeOK, Job
    <3>2. /\ device # "up" \/ job.name = None => registered' = registered
          /\ device = "up" /\ job.name # None => registered' \subseteq registered \cup {job.name}
      BY <1>10 DEF WriteOk
    <3> QED BY <3>1, <3>2
  <2>4. CASE job.xid # None
    BY <1>10, <2>2, <2>3, <2>4 DEF WriteOk, TypeOK
  <2>5. CASE job.xid = None
    <3>1. Finish("done", None)
      BY <1>10, <2>5 DEF WriteOk
    <3>2. /\ job' \in Job /\ pc' \in {"teardown", "select", "drain"}
          /\ reply' \in [Callers -> {"none", "answer", "done", "failed", "closed"}]
          /\ got' \in [Callers -> Callers \cup {None}]
          /\ volume' \in {"zero", "read"} /\ passes' \in 0 .. MaxDrainPasses - 1
      BY <2>1, <3>1, FinishFacts
    <3> QED BY <1>10, <2>2, <2>3, <3>2 DEF WriteOk, TypeOK
  <2> QED BY <2>4, <2>5
<1>11. ASSUME WriteFails PROVE TypeOK'
  <2>1. /\ job' \in Job /\ pc' \in {"teardown", "select", "drain"}
        /\ reply' \in [Callers -> {"none", "answer", "done", "failed", "closed"}]
        /\ got' \in [Callers -> Callers \cup {None}]
        /\ volume' \in {"zero", "read"} /\ passes' \in 0 .. MaxDrainPasses - 1
    BY <1>11, FinishFacts DEF WriteFails, Shape
  <2> QED BY <1>11, <2>1 DEF WriteFails, TypeOK
<1>12. ASSUME AwaitTakes PROVE TypeOK'
  <2>1. PICK f \in Frame : Finish(IF f.ok THEN "answer" ELSE "failed", f.who)
    BY <1>12, AwaitTakesFacts
  <2>2. /\ inbound' \in Seq(Frame) /\ f.who \in Callers \cup {None}
    BY <1>12, AwaitTakesFacts DEF Frame
  <2>3. /\ job' \in Job /\ pc' \in {"teardown", "select", "drain"}
        /\ reply' \in [Callers -> {"none", "answer", "done", "failed", "closed"}]
        /\ got' \in [Callers -> Callers \cup {None}]
        /\ volume' \in {"zero", "read"} /\ passes' \in 0 .. MaxDrainPasses - 1
    BY <1>12, <2>1, <2>2, FinishFacts DEF AwaitTakes, Shape
  <2>4. outstanding' \in Seq(Xids) /\ Len(outstanding') <= MaxOutstanding /\ stash' \subseteq stash
    BY <1>12, ResolveFacts DEF AwaitTakes
  <2> QED BY <1>12, <2>2, <2>3, <2>4 DEF AwaitTakes, TypeOK
<1>13. ASSUME AwaitFiles PROVE TypeOK'
  <2>1. /\ inbound' \in Seq(Frame) /\ events' \in Seq({"volume", "novolume"}) /\ stash' \subseteq Frame
    BY <1>13, FileFacts DEF AwaitFiles, TypeOK
  <2> QED BY <1>13, <2>1 DEF AwaitFiles, TypeOK
<1>14. ASSUME AwaitFails PROVE TypeOK'
  <2>1. /\ job' \in Job /\ pc' \in {"teardown", "select", "drain"}
        /\ reply' \in [Callers -> {"none", "answer", "done", "failed", "closed"}]
        /\ got' \in [Callers -> Callers \cup {None}]
        /\ volume' \in {"zero", "read"} /\ passes' \in 0 .. MaxDrainPasses - 1
    BY <1>14, FinishFacts DEF AwaitFails, Shape
  <2>2. outstanding' \in Seq(Xids) /\ Len(outstanding') <= MaxOutstanding /\ stash' \subseteq stash
    BY <1>14, ResolveFacts DEF AwaitFails
  <2> QED BY <1>14, <2>1, <2>2 DEF AwaitFails, TypeOK
<1>15. ASSUME Drain PROVE TypeOK'
  <2>1. events' \in Seq({"volume", "novolume"}) /\ controls' \in BOOLEAN
    <3> DEFINE n == IF Len(events) < MaxEventsPerDrain THEN Len(events) ELSE MaxEventsPerDrain
    <3>1. n \in Nat /\ events \in Seq({"volume", "novolume"}) /\ n <= Len(events)
      BY DEF TypeOK
    <3>2. /\ events' = SubSeq(events, n + 1, Len(events))
          /\ controls' = IF n = 0 THEN controls ELSE SubSeq(events, 1, n)[n] = "volume"
      BY <1>15 DEF Drain
    <3> HIDE DEF n
    <3>3. \A i \in n + 1 .. Len(events) : events[i] \in {"volume", "novolume"}
      BY <3>1
    <3>4. n + 1 \in Int /\ Len(events) \in Int
      BY <3>1
    <3>5. SubSeq(events, n + 1, Len(events)) \in Seq({"volume", "novolume"})
      BY <3>3, <3>4, SubSeqProperties
    <3>6. controls' \in BOOLEAN
      BY <3>2 DEF TypeOK
    <3> QED BY <3>2, <3>5, <3>6
  <2>2. volume' \in {"zero", "read"} /\ deferred' \in BOOLEAN
    BY <1>15 DEF Drain, TypeOK
  <2>3. CASE BeginExchange("volume", None) /\ UNCHANGED passes
    <3>1. PICK x \in Xids :
            /\ job' = [kind |-> "volume", who |-> None, xid |-> x, name |-> None]
            /\ outstanding' \in Seq(Xids) /\ Len(outstanding') <= MaxOutstanding
            /\ stash' \subseteq stash /\ pc' = "write"
      BY <2>3, BeginExchangeFacts
    <3>2. job' \in Job
      BY <3>1 DEF Job
    <3> QED BY <1>15, <2>1, <2>2, <2>3, <3>1, <3>2 DEF Drain, TypeOK
  <2>4. CASE pc' = "select" /\ passes' = 0 /\ UNCHANGED <<job, protocolVars>>
    <3>1. UNCHANGED <<callVars, requests, teardown, subscribed, heard, deviceVars, inbound>>
      BY <1>15 DEF Drain
    <3>2. passes' \in 0 .. MaxDrainPasses - 1
      BY <2>4
    <3> QED BY <2>1, <2>2, <2>4, <3>1, <3>2 DEF TypeOK
  <2> QED BY <1>15, <2>3, <2>4 DEF Drain
<1>16. ASSUME TeardownSend PROVE TypeOK'
  <2>1. /\ Head(teardown) \in Names \cup {None} /\ teardown' \in Seq(Names \cup {None})
        /\ job.who \in Callers /\ pc = "teardown"
    BY <1>16, TailFacts DEF TeardownSend, TypeOK, Shape, JobShape, Job
  <2>2. CASE BeginExchange("teardown", job.who)
    <3>1. PICK x \in Xids :
            /\ job' = [kind |-> "teardown", who |-> job.who, xid |-> x, name |-> None]
            /\ outstanding' \in Seq(Xids) /\ Len(outstanding') <= MaxOutstanding
            /\ stash' \subseteq stash /\ pc' = "write"
      BY <2>2, BeginExchangeFacts
    <3>2. job' \in Job
      BY <2>1, <3>1 DEF Job
    <3> QED BY <1>16, <2>1, <3>1, <3>2 DEF TeardownSend, TypeOK
  <2>3. CASE BeginEvent("teardown", job.who, Head(teardown))
    <3>1. job' \in Job
      BY <2>1, <2>3 DEF BeginEvent, Job
    <3> QED BY <1>16, <2>1, <2>3, <3>1 DEF TeardownSend, BeginEvent, TypeOK
  <2> QED BY <1>16, <2>2, <2>3 DEF TeardownSend
<1>17. ASSUME TeardownDone PROVE TypeOK'
  BY <1>17 DEF TeardownDone, TypeOK, NoJob, Job
<1>18. ASSUME DeviceAnswers PROVE TypeOK'
  BY <1>18 DEF DeviceAnswers, Arrives, TypeOK, Frame
<1>19. ASSUME DevicePushes PROVE TypeOK'
  BY <1>19 DEF DevicePushes, Arrives, TypeOK, Frame
<1>20. ASSUME DeviceErrs PROVE TypeOK'
  <2>1. PICK x \in ToSet(outstanding) : Arrives([kind |-> "response", xid |-> x, who |-> None, ok |-> TRUE])
    BY <1>20 DEF DeviceErrs
  <2>2. x \in Xids
    BY <2>1 DEF TypeOK, ToSet
  <2> QED BY <1>20, <2>1, <2>2 DEF DeviceErrs, Arrives, TypeOK, Frame
<1>21. ASSUME DeviceFails PROVE TypeOK'
  BY <1>21 DEF DeviceFails, TypeOK
<1> QED
  BY <1>0, <1>1, <1>2, <1>3, <1>4, <1>5, <1>6, <1>7, <1>8, <1>9, <1>10, <1>11, <1>12, <1>13, <1>14,
     <1>15, <1>16, <1>17, <1>18, <1>19, <1>20, <1>21
     DEF Next, CallerStep, ActorStep, ServeStep, PollStep, WriteStep, AwaitStep, TeardownStep, DeviceStep

-----------------------------------------------------------------------------
(* The shape of calls, the channel, the job and the lists. *)

\* A request is of a caller.
LEMMA RequestWho ==
  ASSUME TypeOK, NEW i \in 1 .. Len(requests)
  PROVE  requests[i] \in Request /\ requests[i].who \in Callers /\ requests[i].who # None
<1>1. requests[i] \in Request
  BY DEF TypeOK
<1>2. requests[i].who \in Callers
  BY <1>1 DEF Request
<1> QED BY <1>1, <1>2, NameAssumption

\* Who asked for the request that is taken waits for it, and nobody else in the channel is the same.
LEMMA QueueTaken ==
  ASSUME TypeOK, QueueShape, NEW o, Selects(o)
  PROVE  /\ Waits(Head(requests).who, Head(requests).op) /\ Head(requests).who # job.who
         /\ Head(requests).op \in {"register", "deregister"} => Head(requests).name \in Names
         /\ \A i \in 1 .. Len(requests') :
              /\ Waits(requests'[i].who, requests'[i].op)
              /\ requests'[i].who \notin {job.who, Head(requests).who}
              /\ requests'[i].op \in {"register", "deregister"} => requests'[i].name \in Names
         /\ \A i, j \in 1 .. Len(requests') : requests'[i].who = requests'[j].who => i = j
<1>1. /\ Len(requests) \in Nat \ {0} /\ Head(requests) = requests[1]
      /\ requests' \in Seq(Request)
      /\ \A i \in 1 .. Len(requests') : i + 1 \in 1 .. Len(requests) /\ requests'[i] = requests[i + 1]
  BY SelectsFacts
<1>2. 1 \in 1 .. Len(requests)
  BY <1>1
<1>3. \A i \in 1 .. Len(requests') : i + 1 # 1 /\ i \in Nat
  BY <1>1
<1>4. ASSUME NEW i \in 1 .. Len(requests'), NEW j \in 1 .. Len(requests'),
             requests'[i].who = requests'[j].who
      PROVE  i = j
  <2>1. i + 1 = j + 1
    BY <1>1, <1>4 DEF QueueShape
  <2> QED BY <1>3, <2>1
<1>5. \A i \in 1 .. Len(requests') : requests'[i].who # requests[1].who
  BY <1>1, <1>2, <1>3 DEF QueueShape
<1>6. /\ Waits(Head(requests).who, Head(requests).op) /\ Head(requests).who # job.who
      /\ Head(requests).op \in {"register", "deregister"} => Head(requests).name \in Names
  BY ONLY <1>1, <1>2, QueueShape DEF QueueShape
<1>7. ASSUME NEW i \in 1 .. Len(requests')
      PROVE  /\ Waits(requests'[i].who, requests'[i].op)
             /\ requests'[i].who \notin {job.who, Head(requests).who}
             /\ requests'[i].op \in {"register", "deregister"} => requests'[i].name \in Names
  <2>1. /\ i + 1 \in 1 .. Len(requests) /\ requests'[i] = requests[i + 1] /\ Head(requests) = requests[1]
        /\ requests'[i].who # requests[1].who
    BY <1>1, <1>5
  <2> QED BY ONLY <2>1, QueueShape DEF QueueShape
<1> QED BY ONLY <1>4, <1>6, <1>7

\* The end of a job concerns nobody in the channel.
LEMMA FinishKeepsQueue ==
  ASSUME TypeOK, Shape, pc \in {"write", "await"}, UNCHANGED <<requests, phase, op>>,
         NEW r \in {"answer", "done", "failed"}, NEW w \in Callers \cup {None}, Finish(r, w)
  PROVE  QueueShape'
<1>1. /\ job'.who \in {None, job.who}
      /\ \A c \in Callers : c # job.who => reply'[c] = reply[c]
  BY FinishFacts, NameAssumption DEF Shape, NoJob
<1>2. \A i \in 1 .. Len(requests) : requests[i].who \in Callers /\ requests[i].who # None
  BY RequestWho
<1> QED BY <1>1, <1>2 DEF Shape, QueueShape, Waits

\* The end of a job leaves the next one well formed.
LEMMA FinishKeepsJob ==
  ASSUME TypeOK, Shape, pc \in {"write", "await"}, UNCHANGED <<phase, op>>,
         NEW r \in {"answer", "done", "failed"}, NEW w \in Callers \cup {None}, Finish(r, w)
  PROVE  JobShape'
<1>1. JobShape
  BY DEF Shape
<1>2. CASE job.kind = "teardown"
  <2>1. /\ pc' = "teardown" /\ job'.who = job.who /\ job'.kind = "none"
        /\ job'.xid = None /\ job'.name = None /\ reply' = reply
    BY <1>1, <1>2, FinishFacts
  <2> QED BY <1>1, <1>2, <2>1 DEF JobShape, Waits
<1>3. CASE job.kind # "teardown"
  <2>1. pc' \in {"select", "drain"} /\ job' = NoJob
    BY <1>1, <1>3, FinishFacts
  <2> QED BY <2>1 DEF JobShape, NoJob
<1> QED BY <1>2, <1>3

\* The end of a job that is no subscription leaves the lists as they were.
LEMMA FinishKeepsLists ==
  ASSUME TypeOK, Shape, pc \in {"write", "await"}, UNCHANGED <<teardown, subscribed, device>>,
         NEW r \in {"answer", "done", "failed"}, NEW w \in Callers \cup {None}, Finish(r, w)
  PROVE  ListShape'
<1>1. TearingDown' <=> TearingDown
  BY FinishFacts DEF TearingDown, Shape, JobShape
<1>2. pc' \notin {"lost", "stopped"}
  BY FinishFacts DEF Shape
<1> QED BY <1>1, <1>2 DEF Shape, ListShape, NoRepeats

\* Calls begin with an operation, and a reply comes to those who wait.
LEMMA CallShapeStep ==
  ASSUME TypeOK, Shape, [Next]_vars
  PROVE  CallShape'
<1> USE NameAssumption, BoundAssumption DEF callVars, protocolVars, stateVars, deviceVars
<1>0. CASE UNCHANGED vars
  BY <1>0 DEF vars, TypeOK, Shape, CallShape, JobShape, Waits, QueueShape
<1>1. ASSUME NEW c \in Callers, Start(c) PROVE CallShape'
  <2>1. PICK o \in CallerOps[c] : op' = [op EXCEPT ![c] = o] /\ phase' = [phase EXCEPT ![c] = "submit"]
                                  /\ phase[c] = "idle" /\ reply' = reply
    BY <1>1 DEF Start
  <2>2. o # "none"
    BY <2>1, OpsAssumption
  <2> QED BY <2>1, <2>2 DEF Shape, CallShape, TypeOK
<1>2. ASSUME NEW c \in Callers, Submit(c) PROVE CallShape'
  BY <1>2 DEF Submit, TypeOK, Shape, CallShape, JobShape, Waits, QueueShape
<1>3. ASSUME NEW c \in Callers, Return(c) PROVE CallShape'
  BY <1>3 DEF Return, TypeOK, Shape, CallShape, JobShape, Waits, QueueShape
<1>4. ASSUME ServeCommand PROVE CallShape'
  BY <1>4 DEF ServeCommand, Selects, TypeOK, Shape, CallShape, JobShape, Waits, QueueShape
<1>5. ASSUME ServeInterest PROVE CallShape'
  <2>1. Waits(Head(requests).who, Head(requests).op) /\ Head(requests).who \in Callers
    BY <1>5, QueueTaken, SelectsFacts DEF ServeInterest, Shape
  <2>2. UNCHANGED <<phase, op>> /\ reply' \in {reply, [reply EXCEPT ![Head(requests).who] = "done"]}
    BY <1>5 DEF ServeInterest
  <2>3. \A c \in Callers : phase[c] # "wait" => reply'[c] = reply[c]
    BY <2>1, <2>2 DEF Waits, TypeOK
  <2> QED BY <2>2, <2>3 DEF Shape, CallShape
<1>6. ASSUME ServeShutdown PROVE CallShape'
  BY <1>6 DEF ServeShutdown, TypeOK, Shape, CallShape, JobShape, Waits, QueueShape
<1>7. ASSUME Poll PROVE CallShape'
  BY <1>7 DEF Poll, TypeOK, Shape, CallShape, JobShape, Waits, QueueShape
<1>8. ASSUME PollFails PROVE CallShape'
  BY <1>8 DEF PollFails, TypeOK, Shape, CallShape, JobShape, Waits, QueueShape
<1>9. ASSUME ReportLoss PROVE CallShape'
  BY <1>9 DEF ReportLoss, TypeOK, Shape, CallShape, JobShape, Waits, QueueShape
<1>10. ASSUME WriteOk PROVE CallShape'
  BY SMTT(60), <1>10 DEF WriteOk, Finish, TypeOK, Shape, CallShape, JobShape, Waits, QueueShape
<1>11. ASSUME WriteFails PROVE CallShape'
  BY <1>11 DEF WriteFails, Finish, TypeOK, Shape, CallShape, JobShape, Waits, QueueShape
<1>12. ASSUME AwaitTakes PROVE CallShape'
  BY SMTT(60), <1>12 DEF AwaitTakes, Finish, TypeOK, Shape, CallShape, JobShape, Waits, QueueShape
<1>13. ASSUME AwaitFiles PROVE CallShape'
  BY <1>13 DEF AwaitFiles, TypeOK, Shape, CallShape, JobShape, Waits, QueueShape
<1>14. ASSUME AwaitFails PROVE CallShape'
  BY <1>14 DEF AwaitFails, Finish, TypeOK, Shape, CallShape, JobShape, Waits, QueueShape
<1>15. ASSUME Drain PROVE CallShape'
  BY <1>15 DEF Drain, TypeOK, Shape, CallShape, JobShape, Waits, QueueShape
<1>16. ASSUME TeardownSend PROVE CallShape'
  BY <1>16 DEF TeardownSend, TypeOK, Shape, CallShape, JobShape, Waits, QueueShape
<1>17. ASSUME TeardownDone PROVE CallShape'
  BY <1>17 DEF TeardownDone, TypeOK, Shape, CallShape, JobShape, Waits, QueueShape
<1>18. ASSUME DeviceAnswers PROVE CallShape'
  BY <1>18 DEF DeviceAnswers, Arrives, TypeOK, Shape, CallShape, JobShape, Waits, QueueShape
<1>19. ASSUME DevicePushes PROVE CallShape'
  BY <1>19 DEF DevicePushes, Arrives, TypeOK, Shape, CallShape, JobShape, Waits, QueueShape
<1>20. ASSUME DeviceErrs PROVE CallShape'
  BY <1>20 DEF DeviceErrs, Arrives, TypeOK, Shape, CallShape, JobShape, Waits, QueueShape
<1>21. ASSUME DeviceFails PROVE CallShape'
  BY <1>21 DEF DeviceFails, TypeOK, Shape, CallShape, JobShape, Waits, QueueShape
<1> QED
  BY <1>0, <1>1, <1>2, <1>3, <1>4, <1>5, <1>6, <1>7, <1>8, <1>9, <1>10, <1>11, <1>12, <1>13, <1>14,
     <1>15, <1>16, <1>17, <1>18, <1>19, <1>20, <1>21
     DEF Next, CallerStep, ActorStep, ServeStep, PollStep, WriteStep, AwaitStep, TeardownStep, DeviceStep

\* Each caller has one request.
LEMMA QueueShapeStep ==
  ASSUME TypeOK, Shape, OutstandingShape, StashWithinOutstanding, [Next]_vars
  PROVE  QueueShape'
<1> USE NameAssumption, BoundAssumption DEF callVars, protocolVars, stateVars, deviceVars
<1>0. CASE UNCHANGED vars
  BY <1>0 DEF vars, TypeOK, Shape, QueueShape, JobShape, Waits, CallShape, Request, Job
<1>1. ASSUME NEW c \in Callers, Start(c) PROVE QueueShape'
  BY <1>1 DEF Start, TypeOK, Shape, QueueShape, JobShape, Waits, CallShape, Request, Job
<1>2. ASSUME NEW c \in Callers, Submit(c) PROVE QueueShape'
  <2>1. PICK n \in Names \cup {None} :
          /\ n = None <=> op[c] \in {"command", "close"}
          /\ requests' = Append(requests, [op |-> op[c], who |-> c, name |-> n])
    BY <1>2 DEF Submit
  <2> DEFINE r == [op |-> op[c], who |-> c, name |-> n]
             W(d, o) == phase'[d] = "wait" /\ op'[d] = o /\ reply'[d] = "none"
  <2>2. phase[c] = "submit" /\ phase' = [phase EXCEPT ![c] = "wait"] /\ UNCHANGED <<op, reply, job>>
    BY <1>2 DEF Submit
  <2>3. r \in Request /\ r.op = op[c] /\ r.who = c /\ (r.op \in {"register", "deregister"} => r.name \in Names)
    BY <2>1, <2>2 DEF Request, TypeOK, Shape, CallShape
  <2> HIDE DEF r
  <2>4. /\ Len(requests) \in Nat /\ Len(requests') = Len(requests) + 1
        /\ \A i \in 1 .. Len(requests) : requests'[i] = requests[i]
        /\ requests'[Len(requests) + 1] = r
    BY <2>1, <2>3, AppendFacts DEF r, TypeOK
  <2>5. \A d \in Callers : \A o : Waits(d, o) => d # c /\ W(d, o)
    BY <2>2 DEF Waits, TypeOK
  <2>6. W(c, op[c])
    BY <2>2 DEF Waits, TypeOK, Shape, CallShape
  <2> HIDE DEF W
  <2>7. c # job.who
    BY <2>2, NameAssumption DEF Shape, JobShape, Waits, NoJob, TypeOK, Job
  <2>8. ASSUME NEW i \in 1 .. Len(requests)
        PROVE  /\ requests[i].who \in Callers /\ requests[i].who # c
               /\ W(requests[i].who, requests[i].op)
               /\ requests[i].who # job.who
               /\ requests[i].op \in {"register", "deregister"} => requests[i].name \in Names
    <3>1. Waits(requests[i].who, requests[i].op)
      BY DEF Shape, QueueShape
    <3>2. requests[i].who \in Callers
      BY RequestWho
    <3>3. requests[i].who # c /\ W(requests[i].who, requests[i].op)
      BY <2>5, <3>1, <3>2
    <3> QED BY <3>2, <3>3 DEF Shape, QueueShape
  <2>9. \A i \in 1 .. Len(requests') : i \in 1 .. Len(requests) \/ i = Len(requests) + 1
    BY <2>4
  <2>10. ASSUME NEW i \in 1 .. Len(requests')
         PROVE  /\ W(requests'[i].who, requests'[i].op)
                /\ requests'[i].who # job'.who
                /\ requests'[i].op \in {"register", "deregister"} => requests'[i].name \in Names
    <3>1. CASE i \in 1 .. Len(requests)
      <4>1. requests'[i] = requests[i] /\ job' = job
        BY <2>2, <2>4, <3>1
      <4> QED BY <2>8, <3>1, <4>1
    <3>2. CASE i = Len(requests) + 1
      <4>1. requests'[i] = r /\ job' = job
        BY <2>2, <2>4, <3>2
      <4>2. W(r.who, r.op) /\ r.who # job.who
        BY <2>3, <2>6, <2>7
      <4> QED BY <2>3, <4>1, <4>2
    <3> QED BY <2>9, <3>1, <3>2
  <2>11. ASSUME NEW i \in 1 .. Len(requests'), NEW j \in 1 .. Len(requests'),
                requests'[i].who = requests'[j].who
         PROVE  i = j
    <3>1. \A k \in 1 .. Len(requests) : requests'[k] = requests[k] /\ requests[k].who # c
      BY <2>4, <2>8
    <3>2. requests'[Len(requests) + 1].who = c
      BY <2>3, <2>4
    <3>3. CASE i \in 1 .. Len(requests) /\ j \in 1 .. Len(requests)
      BY <2>11, <3>1, <3>3 DEF Shape, QueueShape
    <3> QED BY <2>9, <2>11, <3>1, <3>2, <3>3
  <2>12. \A i \in 1 .. Len(requests') :
           /\ W(requests'[i].who, requests'[i].op)
           /\ requests'[i].who # job'.who
           /\ requests'[i].op \in {"register", "deregister"} => requests'[i].name \in Names
    BY <2>10
  <2>13. \A i, j \in 1 .. Len(requests') : requests'[i].who = requests'[j].who => i = j
    BY <2>11
  <2> QED BY <2>12, <2>13 DEF QueueShape, Waits, W
<1>3. ASSUME NEW c \in Callers, Return(c) PROVE QueueShape'
  BY <1>3 DEF Return, TypeOK, Shape, QueueShape, JobShape, Waits, CallShape, Request, Job
<1>4. ASSUME ServeCommand PROVE QueueShape'
  <2>1. job'.who = Head(requests).who /\ UNCHANGED <<phase, op, reply>>
    BY <1>4, BeginExchangeFacts DEF ServeCommand
  <2>2. \A c, o : Waits(c, o)' <=> Waits(c, o)
    BY <2>1 DEF Waits
  <2> QED BY <1>4, <2>1, <2>2, QueueTaken DEF ServeCommand, Shape, QueueShape
<1>5. ASSUME ServeInterest PROVE QueueShape'
  <2>1. job'.who \in {job.who, Head(requests).who} /\ UNCHANGED <<phase, op>>
    BY <1>5 DEF ServeInterest, BeginEvent
  <2>2. \A c \in Callers : c # Head(requests).who => reply'[c] = reply[c]
    BY <1>5 DEF ServeInterest, TypeOK
  <2>3. \A c \in Callers : \A o : c # Head(requests).who => (Waits(c, o)' <=> Waits(c, o))
    BY <2>1, <2>2 DEF Waits
  <2>4. \A i \in 1 .. Len(requests') : requests'[i].who \in Callers
    BY <1>5, SelectsFacts, RequestWho DEF ServeInterest
  <2>5. Selects({"register", "deregister"}) /\ QueueShape
    BY <1>5 DEF ServeInterest, Shape
  <2> QED BY <2>1, <2>3, <2>4, <2>5, QueueTaken DEF QueueShape
<1>6. ASSUME ServeShutdown PROVE QueueShape'
  <2>1. job'.who = Head(requests).who /\ UNCHANGED <<phase, op, reply>>
    BY <1>6 DEF ServeShutdown, NoJob
  <2>2. \A c, o : Waits(c, o)' <=> Waits(c, o)
    BY <2>1 DEF Waits
  <2> QED BY <1>6, <2>1, <2>2, QueueTaken DEF ServeShutdown, Shape, QueueShape
<1>7. ASSUME Poll PROVE QueueShape'
  BY <1>7 DEF Poll, TypeOK, Shape, QueueShape, JobShape, Waits, CallShape, Request, Job
<1>8. ASSUME PollFails PROVE QueueShape'
  BY <1>8 DEF PollFails, TypeOK, Shape, QueueShape, JobShape, Waits, CallShape, Request, Job
<1>9. ASSUME ReportLoss PROVE QueueShape'
  BY <1>9 DEF ReportLoss, TypeOK, Shape, QueueShape, JobShape, Waits, CallShape, Request, Job
<1>10. ASSUME WriteOk PROVE QueueShape'
  <2>1. CASE job.xid = None
    BY <1>10, <2>1, FinishKeepsQueue DEF WriteOk
  <2>2. CASE job.xid # None
    BY <1>10, <2>2 DEF WriteOk, TypeOK, Shape, QueueShape, Waits
  <2> QED BY <2>1, <2>2
<1>11. ASSUME WriteFails PROVE QueueShape'
  BY <1>11, FinishKeepsQueue DEF WriteFails
<1>12. ASSUME AwaitTakes PROVE QueueShape'
  <2>1. PICK f \in Frame : Finish(IF f.ok THEN "answer" ELSE "failed", f.who)
    BY <1>12, AwaitTakesFacts
  <2>2. f.who \in Callers \cup {None}
    BY DEF Frame
  <2> QED BY <1>12, <2>1, <2>2, FinishKeepsQueue DEF AwaitTakes
<1>13. ASSUME AwaitFiles PROVE QueueShape'
  BY <1>13 DEF AwaitFiles, TypeOK, Shape, QueueShape, JobShape, Waits, CallShape, Request, Job
<1>14. ASSUME AwaitFails PROVE QueueShape'
  BY <1>14, FinishKeepsQueue DEF AwaitFails
<1>15. ASSUME Drain PROVE QueueShape'
  <2>1. job'.who \in {None, job.who} /\ UNCHANGED <<requests, phase, op, reply>>
    BY <1>15, BeginExchangeFacts DEF Drain
  <2>2. \A i \in 1 .. Len(requests) : requests[i].who # None
    BY RequestWho
  <2> QED BY <2>1, <2>2 DEF Shape, QueueShape, Waits
<1>16. ASSUME TeardownSend PROVE QueueShape'
  <2>1. job'.who = job.who /\ UNCHANGED <<requests, phase, op, reply>>
    BY <1>16, BeginExchangeFacts DEF TeardownSend, BeginEvent
  <2> QED BY <2>1 DEF Shape, QueueShape, Waits
<1>17. ASSUME TeardownDone PROVE QueueShape'
  BY <1>17 DEF TeardownDone, TypeOK, Shape, QueueShape, JobShape, Waits, CallShape, Request, Job
<1>18. ASSUME DeviceAnswers PROVE QueueShape'
  BY <1>18 DEF DeviceAnswers, Arrives, TypeOK, Shape, QueueShape, JobShape, Waits, CallShape, Request, Job
<1>19. ASSUME DevicePushes PROVE QueueShape'
  BY <1>19 DEF DevicePushes, Arrives, TypeOK, Shape, QueueShape, JobShape, Waits, CallShape, Request, Job
<1>20. ASSUME DeviceErrs PROVE QueueShape'
  BY <1>20 DEF DeviceErrs, Arrives, TypeOK, Shape, QueueShape, JobShape, Waits, CallShape, Request, Job
<1>21. ASSUME DeviceFails PROVE QueueShape'
  <2>1. UNCHANGED <<phase, op, reply, requests, job>>
    BY <1>21 DEF DeviceFails, callVars
  <2> QED BY ONLY <2>1, Shape DEF Shape, QueueShape, Waits
<1> QED
  BY <1>0, <1>1, <1>2, <1>3, <1>4, <1>5, <1>6, <1>7, <1>8, <1>9, <1>10, <1>11, <1>12, <1>13, <1>14,
     <1>15, <1>16, <1>17, <1>18, <1>19, <1>20, <1>21
     DEF Next, CallerStep, ActorStep, ServeStep, PollStep, WriteStep, AwaitStep, TeardownStep, DeviceStep

\* The actor has a job exactly when it sends or awaits, for somebody who waits for it.
LEMMA JobShapeStep ==
  ASSUME TypeOK, Shape, OutstandingShape, StashWithinOutstanding, [Next]_vars
  PROVE  JobShape'
<1> USE NameAssumption, BoundAssumption DEF callVars, protocolVars, stateVars, deviceVars
<1>0. CASE UNCHANGED vars
  BY <1>0 DEF vars, TypeOK, Shape, QueueShape, JobShape, Waits, CallShape, Job
<1>1. ASSUME NEW c \in Callers, Start(c) PROVE JobShape'
  BY <1>1 DEF Start, TypeOK, Shape, QueueShape, JobShape, Waits, CallShape, Job
<1>2. ASSUME NEW c \in Callers, Submit(c) PROVE JobShape'
  BY <1>2 DEF Submit, TypeOK, Shape, QueueShape, JobShape, Waits, CallShape, Job
<1>3. ASSUME NEW c \in Callers, Return(c) PROVE JobShape'
  BY <1>3 DEF Return, TypeOK, Shape, QueueShape, JobShape, Waits, CallShape, Job
<1>4. ASSUME ServeCommand PROVE JobShape'
  <2>1. PICK x \in Xids : job' = [kind |-> "command", who |-> Head(requests).who, xid |-> x, name |-> None]
    BY <1>4, BeginExchangeFacts DEF ServeCommand
  <2>2. pc' = "write" /\ UNCHANGED <<phase, op, reply>>
    BY <1>4, BeginExchangeFacts DEF ServeCommand
  <2>3. Waits(Head(requests).who, "command") /\ Head(requests).who \in Callers
    BY <1>4, QueueTaken, SelectsFacts DEF ServeCommand, Shape
  <2> QED BY <2>1, <2>2, <2>3 DEF JobShape, Waits
<1>5. ASSUME ServeInterest PROVE JobShape'
  <2> DEFINE r == Head(requests)
  <2>1. CASE Redundant(r)
    BY <1>5, <2>1 DEF ServeInterest, Selects, Shape, JobShape, NoJob
  <2>2. CASE ~Redundant(r)
    <3>1. Waits(r.who, r.op) /\ r.who \in Callers /\ r.op \in {"register", "deregister"} /\ r.name \in Names
      BY <1>5, QueueTaken, SelectsFacts DEF ServeInterest, Shape
    <3>2. /\ job' = [kind |-> r.op, who |-> r.who, xid |-> None, name |-> r.name]
          /\ pc' = "write" /\ UNCHANGED <<phase, op, reply>>
      BY <1>5, <2>2 DEF ServeInterest, BeginEvent
    <3> HIDE DEF r
    <3> QED BY <3>1, <3>2 DEF JobShape, Waits
  <2> QED BY <2>1, <2>2
<1>6. ASSUME ServeShutdown PROVE JobShape'
  <2>1. Waits(Head(requests).who, "close") /\ Head(requests).who \in Callers
    BY SMTT(60), <1>6, QueueTaken, SelectsFacts DEF ServeShutdown, Shape
  <2>2. /\ job' = [NoJob EXCEPT !.who = Head(requests).who]
        /\ pc' = "teardown" /\ UNCHANGED <<phase, op, reply>>
    BY <1>6 DEF ServeShutdown
  <2> QED BY <2>1, <2>2 DEF JobShape, Waits, NoJob
<1>7. ASSUME Poll PROVE JobShape'
  BY <1>7 DEF Poll, TypeOK, Shape, QueueShape, JobShape, Waits, CallShape, Job
<1>8. ASSUME PollFails PROVE JobShape'
  BY <1>8 DEF PollFails, TypeOK, Shape, QueueShape, JobShape, Waits, CallShape, Job
<1>9. ASSUME ReportLoss PROVE JobShape'
  BY <1>9 DEF ReportLoss, TypeOK, Shape, QueueShape, JobShape, Waits, CallShape, Job
<1>10. ASSUME WriteOk PROVE JobShape'
  <2>1. CASE job.xid = None
    BY <1>10, <2>1, FinishKeepsJob DEF WriteOk
  <2>2. CASE job.xid # None
    <3>1. pc = "write" /\ pc' = "await" /\ UNCHANGED <<phase, op, reply, job>>
      BY <1>10, <2>2 DEF WriteOk
    <3> QED BY <2>2, <3>1 DEF Shape, JobShape, Waits
  <2> QED BY <2>1, <2>2
<1>11. ASSUME WriteFails PROVE JobShape'
  BY <1>11, FinishKeepsJob DEF WriteFails
<1>12. ASSUME AwaitTakes PROVE JobShape'
  <2>1. PICK f \in Frame : Finish(IF f.ok THEN "answer" ELSE "failed", f.who)
    BY <1>12, AwaitTakesFacts
  <2>2. f.who \in Callers \cup {None}
    BY DEF Frame
  <2> QED BY <1>12, <2>1, <2>2, FinishKeepsJob DEF AwaitTakes
<1>13. ASSUME AwaitFiles PROVE JobShape'
  BY <1>13 DEF AwaitFiles, TypeOK, Shape, QueueShape, JobShape, Waits, CallShape, Job
<1>14. ASSUME AwaitFails PROVE JobShape'
  BY <1>14, FinishKeepsJob DEF AwaitFails
<1>15. ASSUME Drain PROVE JobShape'
  <2>1. UNCHANGED <<phase, op, reply>> /\ pc = "drain"
    BY <1>15 DEF Drain
  <2>2. CASE BeginExchange("volume", None)
    <3>1. PICK x \in Xids : job' = [kind |-> "volume", who |-> None, xid |-> x, name |-> None] /\ pc' = "write"
      BY <2>2, BeginExchangeFacts
    <3> QED BY <3>1 DEF JobShape
  <2>3. CASE pc' = "select" /\ UNCHANGED job
    BY <2>1, <2>3 DEF Shape, JobShape, NoJob
  <2> QED BY <1>15, <2>2, <2>3 DEF Drain
<1>16. ASSUME TeardownSend PROVE JobShape'
  <2>1. UNCHANGED <<phase, op, reply>> /\ job.who # None /\ Waits(job.who, "close")
    BY <1>16 DEF TeardownSend, Shape, JobShape
  <2>2. CASE BeginExchange("teardown", job.who)
    <3>1. PICK x \in Xids : job' = [kind |-> "teardown", who |-> job.who, xid |-> x, name |-> None] /\ pc' = "write"
      BY <2>2, BeginExchangeFacts
    <3> QED BY <2>1, <3>1 DEF JobShape, Waits
  <2>3. CASE BeginEvent("teardown", job.who, Head(teardown)) /\ Head(teardown) # None
    BY <2>1, <2>3 DEF BeginEvent, JobShape, Waits
  <2> QED BY <1>16, <2>2, <2>3 DEF TeardownSend
<1>17. ASSUME TeardownDone PROVE JobShape'
  <2>1. job' = NoJob /\ pc' = "stopped"
    BY <1>17 DEF TeardownDone
  <2> QED BY <2>1 DEF JobShape, NoJob
<1>18. ASSUME DeviceAnswers PROVE JobShape'
  BY <1>18 DEF DeviceAnswers, Arrives, TypeOK, Shape, QueueShape, JobShape, Waits, CallShape, Job
<1>19. ASSUME DevicePushes PROVE JobShape'
  BY <1>19 DEF DevicePushes, Arrives, TypeOK, Shape, QueueShape, JobShape, Waits, CallShape, Job
<1>20. ASSUME DeviceErrs PROVE JobShape'
  BY <1>20 DEF DeviceErrs, Arrives, TypeOK, Shape, QueueShape, JobShape, Waits, CallShape, Job
<1>21. ASSUME DeviceFails PROVE JobShape'
  BY <1>21 DEF DeviceFails, TypeOK, Shape, QueueShape, JobShape, Waits, CallShape, Job
<1> QED
  BY <1>0, <1>1, <1>2, <1>3, <1>4, <1>5, <1>6, <1>7, <1>8, <1>9, <1>10, <1>11, <1>12, <1>13, <1>14,
     <1>15, <1>16, <1>17, <1>18, <1>19, <1>20, <1>21
     DEF Next, CallerStep, ActorStep, ServeStep, PollStep, WriteStep, AwaitStep, TeardownStep, DeviceStep

\* A name is on one list, once.
LEMMA ListShapeStep ==
  ASSUME TypeOK, Shape, OutstandingShape, StashWithinOutstanding, [Next]_vars
  PROVE  ListShape'
<1> USE NameAssumption, BoundAssumption DEF callVars, protocolVars, stateVars, deviceVars
<1>0. CASE UNCHANGED vars
  BY <1>0 DEF vars, Shape, ListShape, JobShape, TearingDown, NoRepeats, NoJob
<1>1. ASSUME NEW c \in Callers, Start(c) PROVE ListShape'
  BY <1>1 DEF Start, Shape, ListShape, JobShape, TearingDown, NoRepeats, NoJob
<1>2. ASSUME NEW c \in Callers, Submit(c) PROVE ListShape'
  BY <1>2 DEF Submit, Shape, ListShape, JobShape, TearingDown, NoRepeats, NoJob
<1>3. ASSUME NEW c \in Callers, Return(c) PROVE ListShape'
  BY <1>3 DEF Return, Shape, ListShape, JobShape, TearingDown, NoRepeats, NoJob
<1>4. ASSUME ServeCommand PROVE ListShape'
  <2>1. UNCHANGED <<teardown, subscribed, device>> /\ pc' = "write" /\ pc = "select" /\ job'.kind = "command"
    BY <1>4, BeginExchangeFacts DEF ServeCommand, Selects
  <2> QED BY <2>1 DEF Shape, ListShape, JobShape, TearingDown, NoJob, NoRepeats
<1>5. ASSUME ServeInterest PROVE ListShape'
  <2> DEFINE r == Head(requests)
  <2>1. /\ r.op \in {"register", "deregister"} /\ r.name \in Names /\ pc = "select" /\ pc' \in {"drain", "write"}
    BY <1>5, SelectsFacts, QueueTaken DEF ServeInterest, BeginEvent, Shape
  <2>2. /\ job'.kind \in {job.kind, r.op} /\ UNCHANGED <<teardown, device>>
        /\ subscribed' = subscribed \/ (~Redundant(r) /\ subscribed' = Interest(r))
    BY <1>5 DEF ServeInterest, BeginEvent
  <2>3. subscribed \in Seq(Names) /\ NoRepeats(subscribed) /\ ~TearingDown /\ teardown = <<>>
    BY <2>1 DEF TypeOK, Shape, ListShape, JobShape, TearingDown, NoJob
  <2> HIDE DEF r
  <2>4. ASSUME ~Redundant(r), subscribed' = Interest(r) PROVE NoRepeats(subscribed')
    <3>1. CASE r.op = "register"
      <4>1. \A i \in 1 .. Len(subscribed) : subscribed[i] # r.name
        BY <2>3, <2>4, <3>1, InToSet DEF Redundant
      <4>2. subscribed' = Append(subscribed, r.name)
        BY <2>4, <3>1 DEF Interest
      <4> QED BY <2>1, <2>3, <4>1, <4>2, AppendFacts DEF NoRepeats
    <3>2. CASE r.op # "register"
      BY <2>3, <2>4, <3>2, RemoveFirstFacts DEF Interest
    <3> QED BY <3>1, <3>2
  <2>5. ~TearingDown'
    BY <2>1, <2>2, <2>3 DEF TearingDown
  <2>6. NoRepeats(subscribed')
    BY <2>2, <2>3, <2>4
  <2> QED BY <2>1, <2>2, <2>3, <2>5, <2>6 DEF ListShape
<1>6. ASSUME ServeShutdown PROVE ListShape'
  <2>1. /\ teardown' = subscribed \o <<None, None, None>> /\ subscribed' = <<>> /\ pc' = "teardown"
    BY <1>6 DEF ServeShutdown, TeardownOf
  <2>2. subscribed \in Seq(Names) /\ NoRepeats(subscribed)
    BY DEF TypeOK, Shape, ListShape
  <2>3. \A i, j \in 1 .. Len(teardown') : teardown'[i] = teardown'[j] /\ teardown'[i] # None => i = j
    <3>1. \A i \in 1 .. Len(teardown') : teardown'[i] # None => i \in 1 .. Len(subscribed) /\ teardown'[i] = subscribed[i]
      <4>1. /\ subscribed \in Seq(Names \cup {None}) /\ <<None, None, None>> \in Seq(Names \cup {None})
            /\ Len(<<None, None, None>>) = 3
            /\ \A i \in 1 .. 3 : <<None, None, None>>[i] = None
        BY <2>2
      <4>2. /\ Len(teardown') = Len(subscribed) + 3 /\ Len(subscribed) \in Nat
            /\ \A i \in 1 .. Len(subscribed) + 3 :
                 teardown'[i] = IF i <= Len(subscribed) THEN subscribed[i] ELSE <<None, None, None>>[i - Len(subscribed)]
        BY <2>1, <4>1, ConcatProperties
      <4>3. \A i \in 1 .. Len(teardown') : i <= Len(subscribed) \/ i - Len(subscribed) \in 1 .. 3
        BY <4>2
      <4> QED BY <4>1, <4>2, <4>3
    <3> QED BY <2>2, <3>1 DEF NoRepeats
  <2> QED BY <2>1, <2>3 DEF ListShape, NoRepeats, TearingDown
<1>7. ASSUME Poll PROVE ListShape'
  BY <1>7 DEF Poll, Shape, ListShape, JobShape, TearingDown, NoRepeats, NoJob
<1>8. ASSUME PollFails PROVE ListShape'
  BY <1>8 DEF PollFails, Shape, ListShape, JobShape, TearingDown, NoRepeats, NoJob
<1>9. ASSUME ReportLoss PROVE ListShape'
  BY <1>9 DEF ReportLoss, Shape, ListShape, JobShape, TearingDown, NoRepeats, NoJob
<1>10. ASSUME WriteOk PROVE ListShape'
  <2>1. CASE job.xid = None
    BY <1>10, <2>1, FinishKeepsLists DEF WriteOk
  <2>2. CASE job.xid # None
    <3>1. pc = "write" /\ pc' = "await" /\ UNCHANGED <<job, teardown, subscribed, device>>
      BY <1>10, <2>2 DEF WriteOk
    <3> QED BY <3>1 DEF Shape, ListShape, TearingDown, NoRepeats
  <2> QED BY <2>1, <2>2
<1>11. ASSUME WriteFails PROVE ListShape'
  BY <1>11, FinishKeepsLists DEF WriteFails
<1>12. ASSUME AwaitTakes PROVE ListShape'
  <2>1. PICK f \in Frame : Finish(IF f.ok THEN "answer" ELSE "failed", f.who)
    BY <1>12, AwaitTakesFacts
  <2>2. f.who \in Callers \cup {None}
    BY DEF Frame
  <2> QED BY <1>12, <2>1, <2>2, FinishKeepsLists DEF AwaitTakes
<1>13. ASSUME AwaitFiles PROVE ListShape'
  BY <1>13 DEF AwaitFiles, Shape, ListShape, JobShape, TearingDown, NoRepeats, NoJob
<1>14. ASSUME AwaitFails PROVE ListShape'
  BY <1>14, FinishKeepsLists DEF AwaitFails
<1>15. ASSUME Drain PROVE ListShape'
  <2>1. UNCHANGED <<teardown, subscribed, device>> /\ pc' \in {"select", "write"} /\ pc = "drain"
        /\ job'.kind \in {"volume", job.kind}
    BY <1>15, BeginExchangeFacts DEF Drain
  <2> QED BY <2>1 DEF Shape, ListShape, JobShape, TearingDown, NoJob, NoRepeats
<1>16. ASSUME TeardownSend PROVE ListShape'
  <2>1. /\ pc = "teardown" /\ teardown # <<>> /\ teardown' = Tail(teardown) /\ UNCHANGED <<subscribed, device>>
        /\ job'.kind = "teardown" /\ pc' = "write"
    BY <1>16, BeginExchangeFacts DEF TeardownSend, BeginEvent
  <2>2. /\ Len(teardown) \in Nat \ {0} /\ Len(teardown') = Len(teardown) - 1
        /\ \A i \in 1 .. Len(teardown) - 1 : teardown'[i] = teardown[i + 1]
    BY <2>1, TailFacts DEF TypeOK
  <2>3. \A i, j \in 1 .. Len(teardown') : teardown'[i] = teardown'[j] /\ teardown'[i] # None => i = j
    BY <2>2 DEF Shape, ListShape
  <2> QED BY <2>1, <2>3 DEF Shape, ListShape, TearingDown
<1>17. ASSUME TeardownDone PROVE ListShape'
  BY <1>17 DEF TeardownDone, Shape, ListShape, JobShape, TearingDown, NoRepeats, NoJob
<1>18. ASSUME DeviceAnswers PROVE ListShape'
  BY <1>18 DEF DeviceAnswers, Arrives, Shape, ListShape, JobShape, TearingDown, NoRepeats, NoJob
<1>19. ASSUME DevicePushes PROVE ListShape'
  BY <1>19 DEF DevicePushes, Arrives, Shape, ListShape, JobShape, TearingDown, NoRepeats, NoJob
<1>20. ASSUME DeviceErrs PROVE ListShape'
  BY <1>20 DEF DeviceErrs, Arrives, Shape, ListShape, JobShape, TearingDown, NoRepeats, NoJob
<1>21. ASSUME DeviceFails PROVE ListShape'
  BY <1>21 DEF DeviceFails, Shape, ListShape, JobShape, TearingDown, NoRepeats, NoJob
<1> QED
  BY <1>0, <1>1, <1>2, <1>3, <1>4, <1>5, <1>6, <1>7, <1>8, <1>9, <1>10, <1>11, <1>12, <1>13, <1>14,
     <1>15, <1>16, <1>17, <1>18, <1>19, <1>20, <1>21
     DEF Next, CallerStep, ActorStep, ServeStep, PollStep, WriteStep, AwaitStep, TeardownStep, DeviceStep

-----------------------------------------------------------------------------
(* What is outstanding, and whose. *)

\* Only the exchange under way has an XID outstanding, unless the device is gone.
LEMMA OutstandingStep ==
  ASSUME TypeOK, Shape, OutstandingShape, StashWithinOutstanding, [Next]_vars
  PROVE  OutstandingShape'
<1> USE NameAssumption, BoundAssumption DEF callVars, protocolVars, stateVars, deviceVars
<1>0. CASE UNCHANGED vars
  BY <1>0 DEF vars, Shape, JobShape, OutstandingShape, NoRepeats, NoJob
<1>1. ASSUME NEW c \in Callers, Start(c) PROVE OutstandingShape'
  BY <1>1 DEF Start, Shape, JobShape, OutstandingShape, NoRepeats, NoJob
<1>2. ASSUME NEW c \in Callers, Submit(c) PROVE OutstandingShape'
  BY <1>2 DEF Submit, Shape, JobShape, OutstandingShape, NoRepeats, NoJob
<1>3. ASSUME NEW c \in Callers, Return(c) PROVE OutstandingShape'
  BY <1>3 DEF Return, Shape, JobShape, OutstandingShape, NoRepeats, NoJob
<1>4. ASSUME ServeCommand PROVE OutstandingShape'
  <2>1. BeginExchange("command", Head(requests).who) /\ device' = device
    BY <1>4 DEF ServeCommand
  <2>2. PICK x \in Xids : /\ job'.xid = x /\ NoRepeats(outstanding')
                          /\ outstanding = <<>> => outstanding' = <<x>>
    BY <2>1, BeginExchangeFacts
  <2>3. job.xid = None
    BY <1>4 DEF ServeCommand, Selects, Shape, JobShape, NoJob
  <2> QED BY <2>1, <2>2, <2>3 DEF OutstandingShape
<1>5. ASSUME ServeInterest PROVE OutstandingShape'
  <2>1. job.xid = None /\ job'.xid = None /\ UNCHANGED <<outstanding, device>>
    BY <1>5 DEF ServeInterest, Selects, BeginEvent, Shape, JobShape, NoJob
  <2> QED BY <2>1 DEF OutstandingShape, NoRepeats
<1>6. ASSUME ServeShutdown PROVE OutstandingShape'
  <2>1. job.xid = None /\ job'.xid = None /\ UNCHANGED <<outstanding, device>>
    BY <1>6 DEF ServeShutdown, Selects, Shape, JobShape, NoJob
  <2> QED BY <2>1 DEF OutstandingShape, NoRepeats
<1>7. ASSUME Poll PROVE OutstandingShape'
  BY <1>7 DEF Poll, FileFrame, Shape, JobShape, OutstandingShape, NoRepeats, NoJob
<1>8. ASSUME PollFails PROVE OutstandingShape'
  BY <1>8 DEF PollFails, Shape, JobShape, OutstandingShape, NoRepeats, NoJob
<1>9. ASSUME ReportLoss PROVE OutstandingShape'
  BY <1>9 DEF ReportLoss, Shape, JobShape, OutstandingShape, NoRepeats, NoJob
<1>10. ASSUME WriteOk PROVE OutstandingShape'
  BY <1>10 DEF WriteOk, Finish, Shape, JobShape, OutstandingShape, NoRepeats, NoJob
<1>11. ASSUME WriteFails PROVE OutstandingShape'
  BY <1>11 DEF WriteFails, Finish, Shape, JobShape, OutstandingShape, NoRepeats, NoJob
<1>12. ASSUME AwaitTakes PROVE OutstandingShape'
  <2>1. PICK f \in Frame : Finish(IF f.ok THEN "answer" ELSE "failed", f.who)
    BY <1>12, AwaitTakesFacts
  <2>2. pc = "await" /\ job.xid # None /\ Resolve(job.xid) /\ device' = device
    BY <1>12 DEF AwaitTakes, Shape, JobShape
  <2>3. job'.xid = None
    BY <2>1 DEF Finish, NoJob
  <2>4. NoRepeats(outstanding') /\ (outstanding = <<job.xid>> => outstanding' = <<>>)
    BY <2>2, ResolveFacts
  <2> QED BY <2>2, <2>3, <2>4 DEF OutstandingShape
<1>13. ASSUME AwaitFiles PROVE OutstandingShape'
  BY <1>13 DEF AwaitFiles, FileFrame, Shape, JobShape, OutstandingShape, NoRepeats, NoJob
<1>14. ASSUME AwaitFails PROVE OutstandingShape'
  <2>1. job'.xid = None
    BY <1>14 DEF AwaitFails, Finish, NoJob
  <2>2. pc = "await" /\ job.xid # None /\ Resolve(job.xid) /\ device' = device
    BY <1>14 DEF AwaitFails, Shape, JobShape
  <2>3. NoRepeats(outstanding') /\ (outstanding = <<job.xid>> => outstanding' = <<>>)
    BY <2>2, ResolveFacts
  <2> QED BY <2>1, <2>2, <2>3 DEF OutstandingShape
<1>15. ASSUME Drain PROVE OutstandingShape'
  <2>1. job.xid = None /\ device' = device
    BY <1>15 DEF Drain, Shape, JobShape, NoJob
  <2>2. CASE BeginExchange("volume", None)
    <3>1. PICK x \in Xids : /\ job'.xid = x /\ NoRepeats(outstanding')
                            /\ outstanding = <<>> => outstanding' = <<x>>
      BY <2>2, BeginExchangeFacts
    <3> QED BY <2>1, <3>1 DEF OutstandingShape
  <2>3. CASE UNCHANGED <<job, outstanding>>
    BY <2>1, <2>3 DEF OutstandingShape, NoRepeats
  <2> QED BY <1>15, <2>2, <2>3 DEF Drain
<1>16. ASSUME TeardownSend PROVE OutstandingShape'
  <2>1. job.xid = None /\ device' = device
    BY <1>16 DEF TeardownSend, Shape, JobShape
  <2>2. CASE BeginExchange("teardown", job.who)
    <3>1. PICK x \in Xids : /\ job'.xid = x /\ NoRepeats(outstanding')
                            /\ outstanding = <<>> => outstanding' = <<x>>
      BY <2>2, BeginExchangeFacts
    <3> QED BY <2>1, <3>1 DEF OutstandingShape
  <2>3. CASE BeginEvent("teardown", job.who, Head(teardown))
    BY <2>1, <2>3 DEF BeginEvent, OutstandingShape, NoRepeats
  <2> QED BY <1>16, <2>2, <2>3 DEF TeardownSend
<1>17. ASSUME TeardownDone PROVE OutstandingShape'
  <2>1. outstanding' = <<>> /\ job' = NoJob
    BY <1>17 DEF TeardownDone
  <2> QED BY <2>1 DEF OutstandingShape, NoRepeats, NoJob
<1>18. ASSUME DeviceAnswers PROVE OutstandingShape'
  BY <1>18 DEF DeviceAnswers, Arrives, Shape, JobShape, OutstandingShape, NoRepeats, NoJob
<1>19. ASSUME DevicePushes PROVE OutstandingShape'
  BY <1>19 DEF DevicePushes, Arrives, Shape, JobShape, OutstandingShape, NoRepeats, NoJob
<1>20. ASSUME DeviceErrs PROVE OutstandingShape'
  BY <1>20 DEF DeviceErrs, Arrives, Shape, JobShape, OutstandingShape, NoRepeats, NoJob
<1>21. ASSUME DeviceFails PROVE OutstandingShape'
  BY <1>21 DEF DeviceFails, Shape, JobShape, OutstandingShape, NoRepeats, NoJob
<1> QED
  BY <1>0, <1>1, <1>2, <1>3, <1>4, <1>5, <1>6, <1>7, <1>8, <1>9, <1>10, <1>11, <1>12, <1>13, <1>14,
     <1>15, <1>16, <1>17, <1>18, <1>19, <1>20, <1>21
     DEF Next, CallerStep, ActorStep, ServeStep, PollStep, WriteStep, AwaitStep, TeardownStep, DeviceStep

\* A response that is kept goes when its XID does.
LEMMA StashStep ==
  ASSUME TypeOK, Shape, OutstandingShape, StashWithinOutstanding, [Next]_vars
  PROVE  StashWithinOutstanding'
<1> USE NameAssumption, BoundAssumption DEF callVars, protocolVars, stateVars, deviceVars
<1>0. CASE UNCHANGED vars
  BY <1>0 DEF vars, StashWithinOutstanding
<1>1. ASSUME NEW c \in Callers, Start(c) PROVE StashWithinOutstanding'
  BY <1>1 DEF Start, StashWithinOutstanding
<1>2. ASSUME NEW c \in Callers, Submit(c) PROVE StashWithinOutstanding'
  BY <1>2 DEF Submit, StashWithinOutstanding
<1>3. ASSUME NEW c \in Callers, Return(c) PROVE StashWithinOutstanding'
  BY <1>3 DEF Return, StashWithinOutstanding
<1>4. ASSUME ServeCommand PROVE StashWithinOutstanding'
  <2>1. BeginExchange("command", Head(requests).who)
    BY <1>4 DEF ServeCommand
  <2> QED BY <2>1, BeginExchangeFacts DEF StashWithinOutstanding
<1>5. ASSUME ServeInterest PROVE StashWithinOutstanding'
  BY <1>5 DEF ServeInterest, BeginEvent, StashWithinOutstanding
<1>6. ASSUME ServeShutdown PROVE StashWithinOutstanding'
  BY <1>6 DEF ServeShutdown, StashWithinOutstanding
<1>7. ASSUME Poll PROVE StashWithinOutstanding'
  <2>1. /\ inbound # <<>> /\ FileFrame(Head(inbound)) /\ inbound' = Tail(inbound)
        /\ outstanding' = outstanding
    BY <1>7 DEF Poll
  <2>2. \A f \in stash' : f \in stash \/ f.xid \in ToSet(outstanding)
    BY <2>1, FileFacts
  <2> QED BY <2>1, <2>2 DEF StashWithinOutstanding
<1>8. ASSUME PollFails PROVE StashWithinOutstanding'
  BY <1>8 DEF PollFails, StashWithinOutstanding
<1>9. ASSUME ReportLoss PROVE StashWithinOutstanding'
  BY <1>9 DEF ReportLoss, StashWithinOutstanding
<1>10. ASSUME WriteOk PROVE StashWithinOutstanding'
  BY <1>10 DEF WriteOk, StashWithinOutstanding
<1>11. ASSUME WriteFails PROVE StashWithinOutstanding'
  BY <1>11 DEF WriteFails, StashWithinOutstanding
<1>12. ASSUME AwaitTakes PROVE StashWithinOutstanding'
  BY <1>12, ResolveFacts DEF AwaitTakes
<1>13. ASSUME AwaitFiles PROVE StashWithinOutstanding'
  <2>1. /\ inbound # <<>> /\ FileFrame(Head(inbound)) /\ inbound' = Tail(inbound)
        /\ outstanding' = outstanding
    BY <1>13 DEF AwaitFiles
  <2>2. \A f \in stash' : f \in stash \/ f.xid \in ToSet(outstanding)
    BY <2>1, FileFacts
  <2> QED BY <2>1, <2>2 DEF StashWithinOutstanding
<1>14. ASSUME AwaitFails PROVE StashWithinOutstanding'
  BY <1>14, ResolveFacts DEF AwaitFails
<1>15. ASSUME Drain PROVE StashWithinOutstanding'
  <2>1. CASE BeginExchange("volume", None)
    BY <2>1, BeginExchangeFacts DEF StashWithinOutstanding
  <2>2. CASE UNCHANGED <<outstanding, stash>>
    BY <2>2 DEF StashWithinOutstanding
  <2> QED BY <1>15, <2>1, <2>2 DEF Drain
<1>16. ASSUME TeardownSend PROVE StashWithinOutstanding'
  <2>1. CASE BeginExchange("teardown", job.who)
    BY <2>1, BeginExchangeFacts DEF StashWithinOutstanding
  <2>2. CASE BeginEvent("teardown", job.who, Head(teardown))
    BY <2>2 DEF BeginEvent, StashWithinOutstanding
  <2> QED BY <1>16, <2>1, <2>2 DEF TeardownSend
<1>17. ASSUME TeardownDone PROVE StashWithinOutstanding'
  BY <1>17 DEF TeardownDone, StashWithinOutstanding
<1>18. ASSUME DeviceAnswers PROVE StashWithinOutstanding'
  BY <1>18 DEF DeviceAnswers, Arrives, StashWithinOutstanding
<1>19. ASSUME DevicePushes PROVE StashWithinOutstanding'
  BY <1>19 DEF DevicePushes, Arrives, StashWithinOutstanding
<1>20. ASSUME DeviceErrs PROVE StashWithinOutstanding'
  BY <1>20 DEF DeviceErrs, Arrives, StashWithinOutstanding
<1>21. ASSUME DeviceFails PROVE StashWithinOutstanding'
  BY <1>21 DEF DeviceFails, StashWithinOutstanding
<1> QED
  BY <1>0, <1>1, <1>2, <1>3, <1>4, <1>5, <1>6, <1>7, <1>8, <1>9, <1>10, <1>11, <1>12, <1>13, <1>14,
     <1>15, <1>16, <1>17, <1>18, <1>19, <1>20, <1>21
     DEF Next, CallerStep, ActorStep, ServeStep, PollStep, WriteStep, AwaitStep, TeardownStep, DeviceStep

\* A command's XID was in nothing else in flight when it was issued, so its response is its own.
LEMMA OwnersStep ==
  ASSUME TypeOK, Shape, OutstandingShape, StashWithinOutstanding, OwnersMatch, [Next]_vars
  PROVE  OwnersMatch'
<1> USE NameAssumption, BoundAssumption DEF callVars, protocolVars, stateVars, deviceVars
<1>0. CASE UNCHANGED vars
  BY <1>0 DEF vars, OwnersMatch, Owns
<1>1. ASSUME NEW c \in Callers, Start(c) PROVE OwnersMatch'
  BY <1>1 DEF Start, OwnersMatch, Owns
<1>2. ASSUME NEW c \in Callers, Submit(c) PROVE OwnersMatch'
  BY <1>2 DEF Submit, OwnersMatch, Owns
<1>3. ASSUME NEW c \in Callers, Return(c) PROVE OwnersMatch'
  BY <1>3 DEF Return, OwnersMatch, Owns
<1>4. ASSUME ServeCommand PROVE OwnersMatch'
  <2>1. BeginExchange("command", Head(requests).who) /\ UNCHANGED <<accepted, inbound>>
    BY <1>4 DEF ServeCommand
  <2>2. PICK x \in Xids : /\ ~InUse(x) /\ job'.xid = x
                          /\ \A f \in stash' : f.xid # x
    BY <2>1, BeginExchangeFacts
  <2>3. /\ \A a \in accepted : a.xid # x
        /\ \A i \in 1 .. Len(inbound) : inbound[i].xid # x
    BY <2>2 DEF InUse
  <2> QED BY <2>1, <2>2, <2>3 DEF OwnersMatch
<1>5. ASSUME ServeInterest PROVE OwnersMatch'
  <2>1. Head(requests).op # "command" /\ job.kind # "command" /\ job'.kind \in {job.kind, Head(requests).op}
    BY <1>5 DEF ServeInterest, Selects, BeginEvent, Shape, JobShape, NoJob
  <2> QED BY <2>1 DEF OwnersMatch
<1>6. ASSUME ServeShutdown PROVE OwnersMatch'
  <2>1. job'.kind # "command"
    BY <1>6 DEF ServeShutdown, NoJob
  <2> QED BY <2>1 DEF OwnersMatch
<1>7. ASSUME Poll PROVE OwnersMatch'
  <2>1. /\ inbound # <<>> /\ FileFrame(Head(inbound)) /\ inbound' = Tail(inbound)
        /\ UNCHANGED <<job, accepted>>
    BY <1>7 DEF Poll
  <2>2. /\ \A f \in stash' : f \in stash \/ \E i \in 1 .. Len(inbound) : f = inbound[i]
        /\ \A i \in 1 .. Len(inbound') : \E j \in 1 .. Len(inbound) : inbound'[i] = inbound[j]
    BY <2>1, FileFacts
  <2> QED BY <2>1, <2>2 DEF OwnersMatch, Owns
<1>8. ASSUME PollFails PROVE OwnersMatch'
  BY <1>8 DEF PollFails, OwnersMatch, Owns
<1>9. ASSUME ReportLoss PROVE OwnersMatch'
  BY <1>9 DEF ReportLoss, OwnersMatch, Owns
<1>10. ASSUME WriteOk PROVE OwnersMatch'
  <2>1. CASE job.xid = None
    <3>1. job'.kind = "none"
      BY <1>10, <2>1 DEF WriteOk, Finish, NoJob
    <3> QED BY <3>1 DEF OwnersMatch
  <2>2. CASE job.xid # None
    <3>1. UNCHANGED <<job, stash, inbound>>
      BY <1>10, <2>2 DEF WriteOk
    <3>2. \A a \in accepted' : a \in accepted \/ (job.kind = "command" => a.who = job.who)
      BY <1>10 DEF WriteOk
    <3> QED BY <3>1, <3>2 DEF OwnersMatch, Owns
  <2> QED BY <2>1, <2>2
<1>11. ASSUME WriteFails PROVE OwnersMatch'
  <2>1. job'.kind # "command"
    BY <1>11 DEF WriteFails, Finish, NoJob
  <2> QED BY <2>1 DEF OwnersMatch
<1>12. ASSUME AwaitTakes PROVE OwnersMatch'
  <2>1. job'.kind # "command"
    BY <1>12 DEF AwaitTakes, Finish, NoJob
  <2> QED BY <2>1 DEF OwnersMatch
<1>13. ASSUME AwaitFiles PROVE OwnersMatch'
  <2>1. /\ inbound # <<>> /\ FileFrame(Head(inbound)) /\ inbound' = Tail(inbound)
        /\ UNCHANGED <<job, accepted>>
    BY <1>13 DEF AwaitFiles
  <2>2. /\ \A f \in stash' : f \in stash \/ \E i \in 1 .. Len(inbound) : f = inbound[i]
        /\ \A i \in 1 .. Len(inbound') : \E j \in 1 .. Len(inbound) : inbound'[i] = inbound[j]
    BY <2>1, FileFacts
  <2> QED BY <2>1, <2>2 DEF OwnersMatch, Owns
<1>14. ASSUME AwaitFails PROVE OwnersMatch'
  <2>1. job'.kind # "command"
    BY <1>14 DEF AwaitFails, Finish, NoJob
  <2> QED BY <2>1 DEF OwnersMatch
<1>15. ASSUME Drain PROVE OwnersMatch'
  <2>1. job.kind # "command"
    BY <1>15 DEF Drain, Shape, JobShape, NoJob
  <2>2. job'.kind # "command"
    BY <1>15, <2>1, BeginExchangeFacts DEF Drain
  <2> QED BY <2>2 DEF OwnersMatch
<1>16. ASSUME TeardownSend PROVE OwnersMatch'
  <2>1. job'.kind # "command"
    BY <1>16, BeginExchangeFacts DEF TeardownSend, BeginEvent
  <2> QED BY <2>1 DEF OwnersMatch
<1>17. ASSUME TeardownDone PROVE OwnersMatch'
  <2>1. job'.kind # "command"
    BY <1>17 DEF TeardownDone, NoJob
  <2> QED BY <2>1 DEF OwnersMatch
<1>18. ASSUME DeviceAnswers PROVE OwnersMatch'
  <2>1. PICK a \in accepted, ok \in BOOLEAN :
          /\ accepted' = accepted \ {a}
          /\ Arrives([kind |-> "response", xid |-> a.xid, who |-> a.who, ok |-> ok])
    BY <1>18 DEF DeviceAnswers
  <2> DEFINE f == [kind |-> "response", xid |-> a.xid, who |-> a.who, ok |-> ok]
  <2>2. f \in Frame /\ f.xid = a.xid /\ f.who = a.who
    BY DEF TypeOK, Frame
  <2>3. UNCHANGED <<job, stash>>
    BY <2>1 DEF Arrives
  <2> HIDE DEF f
  <2>4. Arrives(f)
    BY <2>1 DEF f
  <2>5. \A i \in 1 .. Len(inbound') : (i \in 1 .. Len(inbound) /\ inbound'[i] = inbound[i]) \/ inbound'[i] = f
    BY <2>2, <2>4, ArriveFacts
  <2> QED BY <2>1, <2>2, <2>3, <2>5 DEF OwnersMatch, Owns
<1>19. ASSUME DevicePushes PROVE OwnersMatch'
  <2>1. PICK k \in {"volume", "novolume"} : Arrives([kind |-> k, xid |-> None, who |-> None, ok |-> TRUE])
    BY <1>19 DEF DevicePushes
  <2> DEFINE f == [kind |-> k, xid |-> None, who |-> None, ok |-> TRUE]
  <2>2. f \in Frame /\ f.who = None
    BY DEF Frame
  <2>3. UNCHANGED <<job, stash, accepted>>
    BY <1>19, <2>1 DEF DevicePushes, Arrives
  <2> HIDE DEF f
  <2>4. Arrives(f)
    BY <2>1 DEF f
  <2>5. \A i \in 1 .. Len(inbound') : (i \in 1 .. Len(inbound) /\ inbound'[i] = inbound[i]) \/ inbound'[i] = f
    BY <2>2, <2>4, ArriveFacts
  <2> QED BY <2>1, <2>2, <2>3, <2>5 DEF OwnersMatch, Owns
<1>20. ASSUME DeviceErrs PROVE OwnersMatch'
  <2>1. PICK x \in ToSet(outstanding) : Arrives([kind |-> "response", xid |-> x, who |-> None, ok |-> TRUE])
    BY <1>20 DEF DeviceErrs
  <2> DEFINE f == [kind |-> "response", xid |-> x, who |-> None, ok |-> TRUE]
  <2>2. x \in Xids
    <3>1. outstanding \in Seq(Xids)
      BY DEF TypeOK
    <3>2. PICK i \in 1 .. Len(outstanding) : outstanding[i] = x
      BY <3>1, InToSet
    <3> QED BY <3>1, <3>2
  <2>3. f \in Frame /\ f.who = None
    BY <2>2 DEF Frame
  <2>4. UNCHANGED <<job, stash, accepted>>
    BY <1>20, <2>1 DEF DeviceErrs, Arrives
  <2> HIDE DEF f
  <2>5. Arrives(f)
    BY <2>1 DEF f
  <2>6. \A i \in 1 .. Len(inbound') : (i \in 1 .. Len(inbound) /\ inbound'[i] = inbound[i]) \/ inbound'[i] = f
    BY <2>3, <2>5, ArriveFacts
  <2> QED BY <2>1, <2>3, <2>4, <2>6 DEF OwnersMatch, Owns
<1>21. ASSUME DeviceFails PROVE OwnersMatch'
  BY <1>21 DEF DeviceFails, OwnersMatch, Owns
<1> QED
  BY <1>0, <1>1, <1>2, <1>3, <1>4, <1>5, <1>6, <1>7, <1>8, <1>9, <1>10, <1>11, <1>12, <1>13, <1>14,
     <1>15, <1>16, <1>17, <1>18, <1>19, <1>20, <1>21
     DEF Next, CallerStep, ActorStep, ServeStep, PollStep, WriteStep, AwaitStep, TeardownStep, DeviceStep

\* What a caller is given is the response to its own command.
LEMMA AnswersStep ==
  ASSUME TypeOK, Shape, OwnersMatch, AnswersMatch, [Next]_vars
  PROVE  AnswersMatch'
<1> USE NameAssumption, BoundAssumption DEF callVars, protocolVars, stateVars, deviceVars
<1>0. CASE UNCHANGED vars
  BY <1>0 DEF vars, TypeOK, Shape, JobShape, AnswersMatch, NoJob
<1>1. ASSUME NEW c \in Callers, Start(c) PROVE AnswersMatch'
  BY <1>1 DEF Start, TypeOK, Shape, JobShape, AnswersMatch, NoJob
<1>2. ASSUME NEW c \in Callers, Submit(c) PROVE AnswersMatch'
  BY <1>2 DEF Submit, TypeOK, Shape, JobShape, AnswersMatch, NoJob
<1>3. ASSUME NEW c \in Callers, Return(c) PROVE AnswersMatch'
  BY <1>3 DEF Return, TypeOK, Shape, JobShape, AnswersMatch, NoJob
<1>4. ASSUME ServeCommand PROVE AnswersMatch'
  BY <1>4 DEF ServeCommand, TypeOK, Shape, JobShape, AnswersMatch, NoJob
<1>5. ASSUME ServeInterest PROVE AnswersMatch'
  BY <1>5 DEF ServeInterest, TypeOK, Shape, JobShape, AnswersMatch, NoJob
<1>6. ASSUME ServeShutdown PROVE AnswersMatch'
  BY <1>6 DEF ServeShutdown, TypeOK, Shape, JobShape, AnswersMatch, NoJob
<1>7. ASSUME Poll PROVE AnswersMatch'
  BY <1>7 DEF Poll, FileFrame, TypeOK, Shape, JobShape, AnswersMatch, NoJob
<1>8. ASSUME PollFails PROVE AnswersMatch'
  BY <1>8 DEF PollFails, TypeOK, Shape, JobShape, AnswersMatch, NoJob
<1>9. ASSUME ReportLoss PROVE AnswersMatch'
  BY <1>9 DEF ReportLoss, TypeOK, Shape, JobShape, AnswersMatch, NoJob
<1>10. ASSUME WriteOk PROVE AnswersMatch'
  BY <1>10 DEF WriteOk, Finish, TypeOK, Shape, JobShape, AnswersMatch, NoJob
<1>11. ASSUME WriteFails PROVE AnswersMatch'
  BY <1>11 DEF WriteFails, Finish, TypeOK, Shape, JobShape, AnswersMatch, NoJob
<1>12. ASSUME AwaitTakes PROVE AnswersMatch'
  <2>1. PICK f \in Frame : /\ f.xid = job.xid
                           /\ f \in stash \/ \E i \in 1 .. Len(inbound) : inbound[i] = f
                           /\ Finish(IF f.ok THEN "answer" ELSE "failed", f.who)
    BY <1>12, AwaitTakesFacts
  <2>2. job.kind = "command" => Owns(f.who)
    BY <2>1 DEF OwnersMatch
  <2>3. job.kind \in {"command", "volume", "teardown"}
    BY <1>12 DEF AwaitTakes, TypeOK, Job, Shape, JobShape
  <2>4. /\ job.kind # "command" => got' = got
        /\ job.kind = "command" => got' = [got EXCEPT ![job.who] = f.who]
    BY <2>1, <2>3 DEF Finish
  <2> QED BY <2>2, <2>4 DEF AnswersMatch, Owns, TypeOK
<1>13. ASSUME AwaitFiles PROVE AnswersMatch'
  BY <1>13 DEF AwaitFiles, TypeOK, Shape, JobShape, AnswersMatch, NoJob
<1>14. ASSUME AwaitFails PROVE AnswersMatch'
  BY <1>14 DEF AwaitFails, Finish, TypeOK, Shape, JobShape, AnswersMatch, NoJob
<1>15. ASSUME Drain PROVE AnswersMatch'
  BY <1>15 DEF Drain, TypeOK, Shape, JobShape, AnswersMatch, NoJob
<1>16. ASSUME TeardownSend PROVE AnswersMatch'
  BY <1>16 DEF TeardownSend, TypeOK, Shape, JobShape, AnswersMatch, NoJob
<1>17. ASSUME TeardownDone PROVE AnswersMatch'
  BY <1>17 DEF TeardownDone, TypeOK, Shape, JobShape, AnswersMatch, NoJob
<1>18. ASSUME DeviceAnswers PROVE AnswersMatch'
  BY <1>18 DEF DeviceAnswers, Arrives, TypeOK, Shape, JobShape, AnswersMatch, NoJob
<1>19. ASSUME DevicePushes PROVE AnswersMatch'
  BY <1>19 DEF DevicePushes, Arrives, TypeOK, Shape, JobShape, AnswersMatch, NoJob
<1>20. ASSUME DeviceErrs PROVE AnswersMatch'
  BY <1>20 DEF DeviceErrs, Arrives, TypeOK, Shape, JobShape, AnswersMatch, NoJob
<1>21. ASSUME DeviceFails PROVE AnswersMatch'
  BY <1>21 DEF DeviceFails, TypeOK, Shape, JobShape, AnswersMatch, NoJob
<1> QED
  BY <1>0, <1>1, <1>2, <1>3, <1>4, <1>5, <1>6, <1>7, <1>8, <1>9, <1>10, <1>11, <1>12, <1>13, <1>14,
     <1>15, <1>16, <1>17, <1>18, <1>19, <1>20, <1>21
     DEF Next, CallerStep, ActorStep, ServeStep, PollStep, WriteStep, AwaitStep, TeardownStep, DeviceStep

\* The device has registered what is listed, up to the _interest on its way.
LEMMA ListsAgreeStep ==
  ASSUME TypeOK, Shape, OutstandingShape, StashWithinOutstanding, ListsAgree, [Next]_vars
  PROVE  ListsAgree'
<1> USE NameAssumption, BoundAssumption DEF callVars, protocolVars, stateVars, deviceVars
<1>0. CASE UNCHANGED vars
  BY <1>0 DEF vars, ListsAgree, Listed, RegisteredNext
<1>1. ASSUME NEW c \in Callers, Start(c) PROVE ListsAgree'
  BY <1>1 DEF Start, ListsAgree, Listed, RegisteredNext
<1>2. ASSUME NEW c \in Callers, Submit(c) PROVE ListsAgree'
  BY <1>2 DEF Submit, ListsAgree, Listed, RegisteredNext
<1>3. ASSUME NEW c \in Callers, Return(c) PROVE ListsAgree'
  BY <1>3 DEF Return, ListsAgree, Listed, RegisteredNext
<1>4. ASSUME ServeCommand PROVE ListsAgree'
  <2>1. /\ job'.name = None /\ job.name = None /\ UNCHANGED <<device, registered, subscribed, teardown>>
    BY <1>4 DEF ServeCommand, Selects, BeginExchange, NoJob, Shape, JobShape
  <2> QED BY <2>1 DEF ListsAgree, Listed, RegisteredNext
<1>5. ASSUME ServeInterest PROVE ListsAgree'
  <2> DEFINE r == Head(requests)
  <2>1. /\ r.op \in {"register", "deregister"} /\ r.name \in Names /\ pc = "select"
    BY <1>5, SelectsFacts, QueueTaken DEF ServeInterest, Shape
  <2>2. job.name = None /\ ~TearingDown
    BY <2>1 DEF Shape, JobShape, TearingDown, NoJob
  <2>3. subscribed \in Seq(Names) /\ NoRepeats(subscribed)
    BY DEF TypeOK, Shape, ListShape
  <2>4. CASE Redundant(r)
    <3>1. UNCHANGED <<job, subscribed, teardown, device, registered>>
      BY <1>5, <2>4 DEF ServeInterest
    <3> QED BY <3>1 DEF ListsAgree, Listed, RegisteredNext
  <2>5. CASE ~Redundant(r)
    <3>1. /\ job'.kind = r.op /\ job'.name = r.name /\ subscribed' = Interest(r)
          /\ UNCHANGED <<teardown, device, registered>>
      BY <1>5, <2>5 DEF ServeInterest, BeginEvent
    <3> HIDE DEF r
    <3>2. r.op = "register" => ToSet(subscribed') = ToSet(subscribed) \cup {r.name}
      BY <2>1, <2>3, <3>1, ToSetOfAppend DEF Interest
    <3>3. r.op # "register" => ToSet(subscribed') = ToSet(subscribed) \ {r.name}
      BY <2>1, <2>3, <3>1, RemoveFirstFacts DEF Interest
    <3>4. teardown = <<>> /\ ToSet(teardown) = {}
      BY <2>2 DEF Shape, ListShape, ToSet
    <3>5. device = "up" => registered = Listed
      BY <2>2 DEF ListsAgree, RegisteredNext
    <3>6. RegisteredNext' = IF r.op = "register" THEN registered \cup {r.name} ELSE registered \ {r.name}
      BY <2>1, <3>1 DEF RegisteredNext
    <3>7. Listed' = (ToSet(subscribed') \cup ToSet(teardown)) \ {None}
      BY <3>1 DEF Listed
    <3> QED BY <2>1, <3>1, <3>2, <3>3, <3>4, <3>5, <3>6, <3>7 DEF ListsAgree, Listed
  <2> QED BY <2>4, <2>5
<1>6. ASSUME ServeShutdown PROVE ListsAgree'
  <2>1. /\ teardown' = subscribed \o <<None, None, None>> /\ subscribed' = <<>>
        /\ job'.name = None /\ job.name = None /\ ~TearingDown /\ UNCHANGED <<device, registered>>
    BY <1>6 DEF ServeShutdown, Selects, TeardownOf, NoJob, Shape, JobShape, TearingDown
  <2>2. teardown = <<>> /\ subscribed \in Seq(Names)
    BY <2>1 DEF TypeOK, Shape, ListShape
  <2>3. ToSet(teardown') \ {None} = ToSet(subscribed) \ {None}
    <3>1. /\ subscribed \in Seq(Names \cup {None}) /\ <<None, None, None>> \in Seq(Names \cup {None})
          /\ Len(<<None, None, None>>) = 3
          /\ \A i \in 1 .. 3 : <<None, None, None>>[i] = None
      BY <2>2
    <3>2. /\ teardown' \in Seq(Names \cup {None})
          /\ Len(teardown') = Len(subscribed) + 3 /\ Len(subscribed) \in Nat
          /\ \A i \in 1 .. Len(subscribed) + 3 :
               teardown'[i] = IF i <= Len(subscribed) THEN subscribed[i] ELSE <<None, None, None>>[i - Len(subscribed)]
      BY <2>1, <3>1, ConcatProperties
    <3>3. \A i \in 1 .. Len(teardown') : i <= Len(subscribed) \/ i - Len(subscribed) \in 1 .. 3
      BY <3>2
    <3>4. \A i \in 1 .. Len(teardown') : teardown'[i] # None => i \in 1 .. Len(subscribed) /\ teardown'[i] = subscribed[i]
      BY <3>1, <3>2, <3>3
    <3>5. \A i \in 1 .. Len(subscribed) : i \in 1 .. Len(teardown') /\ teardown'[i] = subscribed[i]
      BY <3>2
    <3>6. ASSUME NEW x, x # None PROVE x \in ToSet(teardown') <=> x \in ToSet(subscribed)
      BY SMTT(60), <2>2, <3>2, <3>4, <3>5, <3>6, InToSet
    <3> QED BY <3>6
  <2>4. ToSet(subscribed') = {} /\ ToSet(teardown) = {}
    BY <2>1, <2>2 DEF ToSet
  <2> QED BY <2>1, <2>3, <2>4 DEF ListsAgree, Listed, RegisteredNext
<1>7. ASSUME Poll PROVE ListsAgree'
  BY <1>7 DEF Poll, ListsAgree, Listed, RegisteredNext
<1>8. ASSUME PollFails PROVE ListsAgree'
  BY <1>8 DEF PollFails, ListsAgree, Listed, RegisteredNext
<1>9. ASSUME ReportLoss PROVE ListsAgree'
  BY <1>9 DEF ReportLoss, ListsAgree, Listed, RegisteredNext
<1>10. ASSUME WriteOk PROVE ListsAgree'
  <2>1. UNCHANGED <<device, subscribed, teardown>>
    BY <1>10 DEF WriteOk
  <2>2. job'.name = None
    BY <1>10, NameAssumption DEF WriteOk, Finish, NoJob, Shape, JobShape, TypeOK, Job
  <2>3. device = "up" => registered' = RegisteredNext
    BY <1>10 DEF WriteOk, RegisteredNext
  <2> QED BY <2>1, <2>2, <2>3 DEF ListsAgree, Listed, RegisteredNext
<1>11. ASSUME WriteFails PROVE ListsAgree'
  <2>1. device' # "up"
    BY <1>11 DEF WriteFails
  <2> QED BY <2>1 DEF ListsAgree
<1>12. ASSUME AwaitTakes PROVE ListsAgree'
  <2>1. /\ job'.name = None /\ job.name = None /\ UNCHANGED <<device, registered, subscribed, teardown>>
    BY <1>12 DEF AwaitTakes, Finish, NoJob, Shape, JobShape, TypeOK, Job
  <2> QED BY <2>1 DEF ListsAgree, Listed, RegisteredNext
<1>13. ASSUME AwaitFiles PROVE ListsAgree'
  BY <1>13 DEF AwaitFiles, ListsAgree, Listed, RegisteredNext
<1>14. ASSUME AwaitFails PROVE ListsAgree'
  <2>1. /\ job'.name = None /\ job.name = None /\ UNCHANGED <<device, registered, subscribed, teardown>>
    BY <1>14 DEF AwaitFails, Finish, NoJob, Shape, JobShape, TypeOK, Job
  <2> QED BY <2>1 DEF ListsAgree, Listed, RegisteredNext
<1>15. ASSUME Drain PROVE ListsAgree'
  <2>1. /\ job'.name = None /\ job.name = None /\ UNCHANGED <<device, registered, subscribed, teardown>>
    BY <1>15 DEF Drain, BeginExchange, NoJob, Shape, JobShape
  <2> QED BY <2>1 DEF ListsAgree, Listed, RegisteredNext
<1>16. ASSUME TeardownSend PROVE ListsAgree'
  <2>1. /\ pc = "teardown" /\ teardown # <<>> /\ teardown' = Tail(teardown)
        /\ job.name = None /\ UNCHANGED <<device, registered, subscribed>>
    BY <1>16 DEF TeardownSend, Shape, JobShape
  <2>2. job'.kind = "teardown" /\ job'.name = Head(teardown)
    BY <1>16, BeginExchangeFacts DEF TeardownSend, BeginEvent
  <2>3. /\ Len(teardown) \in Nat \ {0} /\ Len(teardown') = Len(teardown) - 1 /\ Head(teardown) = teardown[1]
        /\ teardown' \in Seq(Names \cup {None})
        /\ \A i \in 1 .. Len(teardown) - 1 : teardown'[i] = teardown[i + 1]
    BY <2>1, TailFacts DEF TypeOK
  <2>4. ToSet(teardown) = {Head(teardown)} \cup ToSet(teardown')
    BY <2>1, ToSetOfTail DEF TypeOK
  <2>5. ASSUME Head(teardown) # None PROVE Head(teardown) \notin ToSet(teardown')
    <3>1. \A i \in 1 .. Len(teardown') : i + 1 \in 1 .. Len(teardown) /\ i + 1 # 1 /\ teardown'[i] = teardown[i + 1]
      BY <2>3
    <3>2. \A i \in 1 .. Len(teardown') : teardown'[i] # Head(teardown)
      BY <2>3, <2>5, <3>1 DEF Shape, ListShape
    <3> QED BY <2>3, <3>2, InToSet
  <2>6. subscribed = <<>> /\ ToSet(subscribed) = {}
    BY <2>1 DEF Shape, ListShape, TearingDown, ToSet
  <2>7. Listed = ToSet(teardown) \ {None} /\ Listed' = ToSet(teardown') \ {None}
    BY <2>1, <2>6 DEF Listed
  <2>8. device = "up" => registered = Listed
    BY <2>1 DEF ListsAgree, RegisteredNext
  <2>9. RegisteredNext' = IF Head(teardown) = None THEN registered ELSE registered \ {Head(teardown)}
    BY <2>1, <2>2 DEF RegisteredNext
  <2>10. CASE Head(teardown) = None
    BY <2>1, <2>4, <2>7, <2>8, <2>9, <2>10 DEF ListsAgree
  <2>11. CASE Head(teardown) # None
    BY <2>1, <2>4, <2>5, <2>7, <2>8, <2>9, <2>11 DEF ListsAgree
  <2> QED BY <2>10, <2>11
<1>17. ASSUME TeardownDone PROVE ListsAgree'
  <2>1. job'.name = None /\ job.name = None /\ UNCHANGED <<device, registered, subscribed, teardown>>
    BY <1>17 DEF TeardownDone, NoJob, Shape, JobShape
  <2> QED BY <2>1 DEF ListsAgree, Listed, RegisteredNext
<1>18. ASSUME DeviceAnswers PROVE ListsAgree'
  BY <1>18 DEF DeviceAnswers, Arrives, ListsAgree, Listed, RegisteredNext
<1>19. ASSUME DevicePushes PROVE ListsAgree'
  BY <1>19 DEF DevicePushes, Arrives, ListsAgree, Listed, RegisteredNext
<1>20. ASSUME DeviceErrs PROVE ListsAgree'
  BY <1>20 DEF DeviceErrs, Arrives, ListsAgree, Listed, RegisteredNext
<1>21. ASSUME DeviceFails PROVE ListsAgree'
  BY <1>21 DEF DeviceFails, ListsAgree, Listed, RegisteredNext
<1> QED
  BY <1>0, <1>1, <1>2, <1>3, <1>4, <1>5, <1>6, <1>7, <1>8, <1>9, <1>10, <1>11, <1>12, <1>13, <1>14,
     <1>15, <1>16, <1>17, <1>18, <1>19, <1>20, <1>21
     DEF Next, CallerStep, ActorStep, ServeStep, PollStep, WriteStep, AwaitStep, TeardownStep, DeviceStep

-----------------------------------------------------------------------------
(* Theorems. *)

\* The session starts within its invariant.
LEMMA InitIInv == Init => IInv
<1> SUFFICES ASSUME Init PROVE IInv
  OBVIOUS
<1> USE NameAssumption, BoundAssumption DEF Init, NoJob
<1>1. TypeOK
  <2>1. job \in Job /\ passes \in 0 .. MaxDrainPasses - 1
    BY DEF Job
  <2>2. /\ requests \in Seq(Request) /\ Len(requests) <= RequestQueue
        /\ outstanding \in Seq(Xids) /\ Len(outstanding) <= MaxOutstanding
        /\ teardown \in Seq(Names \cup {None}) /\ events \in Seq({"volume", "novolume"})
        /\ inbound \in Seq(Frame) /\ subscribed \in Seq(Names)
    OBVIOUS
  <2> QED BY <2>1, <2>2 DEF TypeOK
<1>2. Shape
  BY DEF Shape, CallShape, QueueShape, JobShape, ListShape, NoRepeats, TearingDown
<1>3. OutstandingShape /\ StashWithinOutstanding /\ OwnersMatch /\ AnswersMatch
  BY DEF OutstandingShape, NoRepeats, StashWithinOutstanding, OwnersMatch, AnswersMatch
<1>4. ListsAgree
  <2>1. ToSet(subscribed) = {MediaControl} /\ ToSet(teardown) = {}
    BY DEF ToSet
  <2> QED BY <2>1 DEF ListsAgree, Listed, RegisteredNext
<1> QED BY <1>1, <1>2, <1>3, <1>4 DEF IInv

\* Every step of the session keeps it.
LEMMA NextIInv == IInv /\ [Next]_vars => IInv'
<1> SUFFICES ASSUME IInv, [Next]_vars PROVE IInv'
  OBVIOUS
<1>1. TypeOK /\ Shape /\ OutstandingShape /\ StashWithinOutstanding /\ OwnersMatch /\ AnswersMatch /\ ListsAgree
  BY DEF IInv
<1>2. TypeOK'
  BY <1>1, TypeStep
<1>3. CallShape' /\ QueueShape' /\ JobShape' /\ ListShape'
  BY <1>1, CallShapeStep, QueueShapeStep, JobShapeStep, ListShapeStep
<1>4. Shape'
  BY <1>3 DEF Shape
<1>5. OutstandingShape' /\ StashWithinOutstanding'
  BY <1>1, OutstandingStep, StashStep
<1>6. OwnersMatch' /\ AnswersMatch'
  BY <1>1, OwnersStep, AnswersStep
<1>7. ListsAgree'
  BY <1>1, ListsAgreeStep
<1> QED BY <1>2, <1>4, <1>5, <1>6, <1>7 DEF IInv

\* The inductive invariant of the session.
THEOREM SessionInductive == Spec => []IInv
  BY InitIInv, NextIInv, PTL DEF Spec

\* Every queue of the session keeps within its capacity: the request channel within REQUEST_QUEUE,
\* the outstanding XIDs within MAX_OUTSTANDING, the drain rounds within MAX_DRAIN_PASSES.
THEOREM SessionTypes == Spec => []TypeOK
<1>1. IInv => TypeOK
  BY DEF IInv
<1> QED BY <1>1, SessionInductive, PTL

\* No command returns the response to another one, however late a response comes and whatever was
\* stashed for a later exchange (exchange_opack, dispatch_response).
THEOREM AnswersAreOwn == Spec => []AnswersMatch
<1>1. IInv => AnswersMatch
  BY DEF IInv
<1> QED BY <1>1, SessionInductive, PTL

\* The stash holds responses to outstanding XIDs only, so that it is no longer than MAX_OUTSTANDING
\* allows (stash_response).
THEOREM StashIsBounded == Spec => []StashWithinOutstanding
<1>1. IInv => StashWithinOutstanding
  BY DEF IInv
<1> QED BY <1>1, SessionInductive, PTL

\* Between exchanges no XID is outstanding while the device is there (pump).
THEOREM ExchangesLeaveNothing == Spec => []NothingOutstanding
<1>1. IInv => NothingOutstanding
  BY DEF IInv, Shape, JobShape, OutstandingShape, NothingOutstanding, NoJob
<1> QED BY <1>1, SessionInductive, PTL

\* The actor's list is the device's, whenever no _interest is on its way (filter_interest).
THEOREM ListIsTheDevices == Spec => []SubscriptionsAgree
<1>1. IInv => SubscriptionsAgree
  BY DEF IInv, ListsAgree, Listed, RegisteredNext, SubscriptionsAgree
<1> QED BY <1>1, SessionInductive, PTL

\* A close deregisters every event (Actor::shutdown).
THEOREM CloseDeregisters == Spec => []NothingLeftRegistered
<1>1. IInv => NothingLeftRegistered
  <2> SUFFICES ASSUME IInv, pc = "stopped", device = "up" PROVE registered = {}
    BY DEF NothingLeftRegistered
  <2>1. subscribed = <<>> /\ teardown = <<>> /\ job.name = None
    BY DEF IInv, Shape, JobShape, ListShape, TearingDown, NoJob
  <2>2. ToSet(subscribed) = {} /\ ToSet(teardown) = {}
    BY <2>1 DEF ToSet
  <2> QED BY <2>1, <2>2 DEF IInv, ListsAgree, Listed, RegisteredNext
<1> QED BY <1>1, SessionInductive, PTL

-----------------------------------------------------------------------------
(* The session implements RpcChannel: what each step does to the commands. *)

Up == job.kind # "teardown" /\ pc \notin {"teardown", "lost", "stopped"}
Awaits(c) == pc = "await" /\ job.kind = "command" /\ job.who = c

\* A call whose caller does not move, and whose identifier is listed as
\* before, looks the same to RpcChannel.
LEMMA SameCall ==
  ASSUME NEW c \in Callers, AnswersMatch, AnswersMatch', op'[c] = op[c],
         op[c] = "command" => reply'[c] = reply[c] /\ (Awaits(c)' <=> Awaits(c))
  PROVE  RpcCall(c)' = RpcCall(c)
  BY DEF RpcCall, Awaits, AnswersMatch

\* What a call that waits for an outcome looks like to RpcChannel.
LEMMA OpenOrSent ==
  ASSUME NEW c, op[c] = "command", reply[c] = "none"
  PROVE  RpcCall(c) = IF Awaits(c) THEN "sent" ELSE "open"
  BY DEF RpcCall, Awaits

\* If every call looks the same and the session is up as before, RpcChannel
\* does nothing.
LEMMA Stutters ==
  ASSUME \A c \in Callers : RpcCall(c)' = RpcCall(c), Up' <=> Up
  PROVE  UNCHANGED Rpc!vars
<1>1. [c \in Callers |-> RpcCall(c)]' = [c \in Callers |-> RpcCall(c)]
  OBVIOUS
<1>2. (job.kind # "teardown" /\ pc \notin {"teardown", "lost", "stopped"})' =
      (job.kind # "teardown" /\ pc \notin {"teardown", "lost", "stopped"})
  BY Zenon DEF Up
<1> QED BY <1>1, <1>2 DEF Rpc!vars

\* One call moves and the connection stays as it is.
LEMMA OneMoves ==
  ASSUME NEW c \in Callers, \A d \in Callers : d # c => RpcCall(d)' = RpcCall(d), Up' <=> Up
  PROVE  /\ RpcCall(c) = "idle" /\ RpcCall(c)' = "open" => Rpc!Next
         /\ Up /\ RpcCall(c) = "open" /\ RpcCall(c)' = "sent" => Rpc!Next
         /\ Up /\ RpcCall(c) = "sent" /\ RpcCall(c)' = "answered" => Rpc!Next
         /\ RpcCall(c) # "idle" /\ RpcCall(c)' = "idle" => Rpc!Next
         /\ RpcCall(c) \in {"open", "sent"} /\ RpcCall(c)' = "failed" => Rpc!Next
<1> DEFINE call == [d \in Callers |-> RpcCall(d)]
           up == job.kind # "teardown" /\ pc \notin {"teardown", "lost", "stopped"}
<1>1. up' = up /\ (Up => up)
  BY Zenon DEF Up
<1>2. ASSUME NEW v, RpcCall(c)' = v PROVE call' = [call EXCEPT ![c] = v]
  BY <1>2
<1>3. call[c] = RpcCall(c)
  OBVIOUS
<1> HIDE DEF call, up
<1>4. ASSUME RpcCall(c) = "idle", RpcCall(c)' = "open" PROVE Rpc!Next
  <2>1. Rpc!Invoke(c)
    BY <1>1, <1>2, <1>3, <1>4 DEF Rpc!Invoke, call, up
  <2> QED BY <2>1 DEF Rpc!Next
<1>5. ASSUME Up, RpcCall(c) = "open", RpcCall(c)' = "sent" PROVE Rpc!Next
  <2>1. Rpc!Transmit(c)
    BY <1>1, <1>2, <1>3, <1>5 DEF Rpc!Transmit, call, up
  <2> QED BY <2>1 DEF Rpc!Next
<1>6. ASSUME Up, RpcCall(c) = "sent", RpcCall(c)' = "answered" PROVE Rpc!Next
  <2>1. Rpc!Answer(c)
    BY <1>1, <1>2, <1>3, <1>6 DEF Rpc!Answer, call, up
  <2> QED BY <2>1 DEF Rpc!Next
<1>7. ASSUME RpcCall(c) # "idle", RpcCall(c)' = "idle" PROVE Rpc!Next
  <2>1. Rpc!Return(c)
    BY <1>1, <1>2, <1>3, <1>7 DEF Rpc!Return, call, up
  <2> QED BY <2>1 DEF Rpc!Next
<1>8. ASSUME RpcCall(c) \in {"open", "sent"}, RpcCall(c)' = "failed" PROVE Rpc!Next
  <2>1. call' = [d \in Callers |-> IF d \in {c} THEN "failed" ELSE call[d]]
    BY <1>8 DEF call
  <2>2. Rpc!Fail({c})
    BY <1>1, <1>3, <1>8, <2>1 DEF Rpc!Fail, call, up
  <2> QED BY <2>2 DEF Rpc!Next
<1> QED BY <1>4, <1>5, <1>6, <1>7, <1>8

\* If every call looks the same and the session goes down, RpcChannel goes
\* down.
LEMMA GoesDown ==
  ASSUME \A c \in Callers : RpcCall(c)' = RpcCall(c), Up, ~Up'
  PROVE  Rpc!Next
<1> DEFINE call == [d \in Callers |-> RpcCall(d)]
           up == job.kind # "teardown" /\ pc \notin {"teardown", "lost", "stopped"}
<1>1. up /\ up' = FALSE
  BY Zenon DEF Up
<1>2. call' = call
  OBVIOUS
<1>3. Rpc!GoDown
  BY <1>1, <1>2 DEF Rpc!GoDown
<1> QED BY <1>3 DEF Rpc!Next

\* The end of a job decides a command, or nothing.
LEMMA FinishDecides ==
  ASSUME TypeOK, Shape, AnswersMatch, AnswersMatch', pc \in {"write", "await"}, UNCHANGED <<phase, op>>,
         NEW r \in {"answer", "done", "failed"}, NEW w \in Callers \cup {None}, Finish(r, w),
         job.kind = "command" => r = "failed" \/ (r = "answer" /\ pc = "await")
  PROVE  Rpc!Next \/ UNCHANGED Rpc!vars
<1>1. /\ job'.kind = "none"
      /\ job.kind = "teardown" => pc' = "teardown"
      /\ job.kind # "teardown" => pc' \in {"select", "drain"}
      /\ \A c \in Callers : c # job.who => reply'[c] = reply[c]
      /\ job.kind \in {"command", "register", "deregister"} => reply'[job.who] = r
      /\ job.kind \notin {"command", "register", "deregister"} => UNCHANGED reply
  BY FinishFacts DEF Shape
<1>2. Up' <=> Up
  BY <1>1 DEF Up
<1>3. \A c : ~Awaits(c)'
  BY <1>1 DEF Awaits
<1>4. ASSUME NEW c \in Callers, c # job.who \/ job.kind # "command" PROVE RpcCall(c)' = RpcCall(c)
  <2>1. ~Awaits(c)
    BY <1>4 DEF Awaits
  <2>2. op[c] = "command" => reply'[c] = reply[c]
    BY <1>1, <1>4 DEF Shape, JobShape, Waits
  <2> QED BY <1>3, <2>1, <2>2, SameCall
<1>5. CASE job.kind = "command"
  <2>1. job.who \in Callers /\ op[job.who] = "command" /\ reply[job.who] = "none"
    BY <1>5 DEF Shape, JobShape, Waits, TypeOK, Job
  <2>2. RpcCall(job.who) = IF pc = "await" THEN "sent" ELSE "open"
    BY <1>5, <2>1, OpenOrSent DEF Awaits
  <2>3. \A c \in Callers : c # job.who => RpcCall(c)' = RpcCall(c)
    BY <1>4
  <2>4. PICK c \in Callers : c = job.who
    BY <2>1
  <2>5. op'[c] = "command" /\ reply'[c] = r
    BY <1>1, <1>5, <2>1, <2>4
  <2>6. Up
    BY <1>5 DEF Up
  <2>7. CASE r = "failed"
    <3>1. RpcCall(c)' = "failed"
      BY <2>5, <2>7 DEF RpcCall
    <3> QED BY <1>2, <2>2, <2>3, <2>4, <3>1, OneMoves
  <2>8. CASE r = "answer" /\ pc = "await"
    <3>1. RpcCall(c)' = "answered"
      BY <2>5, <2>8 DEF RpcCall, AnswersMatch
    <3> QED BY <1>2, <2>2, <2>3, <2>4, <2>6, <2>8, <3>1, OneMoves
  <2> QED BY <1>5, <2>7, <2>8
<1>6. CASE job.kind # "command"
  BY <1>2, <1>4, <1>6, Stutters
<1> QED BY <1>5, <1>6

\* Every step of the session is a step of the channel, or none.
LEMMA RpcStep ==
  ASSUME TypeOK, Shape, OutstandingShape, StashWithinOutstanding, AnswersMatch, AnswersMatch', [Next]_vars
  PROVE  Rpc!Next \/ UNCHANGED Rpc!vars
<1> USE NameAssumption, BoundAssumption DEF callVars, protocolVars, stateVars, deviceVars
<1>0. CASE UNCHANGED vars
  <2>1. Up' <=> Up
    BY <1>0 DEF vars, Up
  <2>2. ASSUME NEW e \in Callers PROVE RpcCall(e)' = RpcCall(e)
    BY <1>0 DEF vars, RpcCall
  <2> QED BY <2>1, <2>2, Stutters
<1>1. ASSUME NEW c \in Callers, Start(c) PROVE Rpc!Next \/ UNCHANGED Rpc!vars
  <2>1. PICK o \in CallerOps[c] : op' = [op EXCEPT ![c] = o]
    BY <1>1 DEF Start
  <2>2. /\ phase[c] = "idle" /\ op[c] = "none" /\ reply[c] = "none" /\ UNCHANGED <<reply, pc, job>>
    BY <1>1 DEF Start, Shape, CallShape
  <2>3. ~Awaits(c)
    BY <2>2 DEF Shape, JobShape, Waits, Awaits
  <2>4. \A d \in Callers : d # c => RpcCall(d)' = RpcCall(d)
    <3> SUFFICES ASSUME NEW d \in Callers, d # c PROVE RpcCall(d)' = RpcCall(d)
      OBVIOUS
    <3>1. op'[d] = op[d] /\ (Awaits(d)' <=> Awaits(d))
      BY <2>1, <2>2 DEF TypeOK, Awaits
    <3> QED BY <2>2, <3>1, SameCall
  <2>5. op'[c] = o
    BY <2>1 DEF TypeOK
  <2>6. RpcCall(c) = "idle"
    BY <2>2 DEF RpcCall
  <2>7. RpcCall(c)' = IF o = "command" THEN "open" ELSE "idle"
    BY <2>2, <2>3, <2>5 DEF RpcCall, Awaits
  <2>8. Up' <=> Up
    BY <2>2 DEF Up
  <2>9. CASE o = "command"
    BY <2>4, <2>6, <2>7, <2>8, <2>9, OneMoves
  <2>10. CASE o # "command"
    BY <2>4, <2>6, <2>7, <2>8, <2>10, Stutters
  <2> QED BY <2>9, <2>10
<1>2. ASSUME NEW c \in Callers, Submit(c) PROVE Rpc!Next \/ UNCHANGED Rpc!vars
  <2>1. Up' <=> Up
    BY <1>2 DEF Submit, Up
  <2>2. ASSUME NEW e \in Callers PROVE RpcCall(e)' = RpcCall(e)
    <3>1. op' = op /\ reply' = reply /\ (Awaits(e)' <=> Awaits(e))
      BY <1>2 DEF Submit, Awaits
    <3> QED BY <3>1, SameCall
  <2> QED BY <2>1, <2>2, Stutters
<1>3. ASSUME NEW c \in Callers, Return(c) PROVE Rpc!Next \/ UNCHANGED Rpc!vars
  <2>1. /\ op' = [op EXCEPT ![c] = "none"] /\ reply' = [reply EXCEPT ![c] = "none"] /\ UNCHANGED <<pc, job>>
    BY <1>3 DEF Return
  <2>2. \A d \in Callers : d # c => RpcCall(d)' = RpcCall(d)
    <3> SUFFICES ASSUME NEW d \in Callers, d # c PROVE RpcCall(d)' = RpcCall(d)
      OBVIOUS
    <3>1. op'[d] = op[d] /\ reply'[d] = reply[d] /\ (Awaits(d)' <=> Awaits(d))
      BY <2>1 DEF TypeOK, Awaits
    <3> QED BY <3>1, SameCall
  <2>3. op'[c] = "none"
    BY <2>1 DEF TypeOK
  <2>4. RpcCall(c)' = "idle"
    BY <2>3 DEF RpcCall
  <2>5. Up' <=> Up
    BY <2>1 DEF Up
  <2>6. CASE RpcCall(c) # "idle"
    BY <2>2, <2>4, <2>5, <2>6, OneMoves
  <2>7. CASE RpcCall(c) = "idle"
    BY <2>2, <2>4, <2>5, <2>7, Stutters
  <2> QED BY <2>6, <2>7
<1>4. ASSUME ServeCommand PROVE Rpc!Next \/ UNCHANGED Rpc!vars
  <2>1. /\ pc = "select" /\ pc' = "write" /\ job'.kind = "command" /\ UNCHANGED <<op, reply>>
    BY <1>4, BeginExchangeFacts DEF ServeCommand, Selects
  <2>2. Up' /\ Up
    BY <2>1 DEF Up, Shape, JobShape, NoJob
  <2>3. ASSUME NEW e \in Callers PROVE RpcCall(e)' = RpcCall(e)
    <3>1. ~Awaits(e)' /\ ~Awaits(e)
      BY <2>1 DEF Awaits
    <3> QED BY <2>1, <3>1, SameCall
  <2> QED BY <2>2, <2>3, Stutters
<1>5. ASSUME ServeInterest PROVE Rpc!Next \/ UNCHANGED Rpc!vars
  <2>1. /\ Waits(Head(requests).who, Head(requests).op) /\ Head(requests).op \in {"register", "deregister"}
    BY <1>5, QueueTaken, SelectsFacts DEF ServeInterest, Shape
  <2>2. /\ pc = "select" /\ pc' \in {"drain", "write"} /\ job'.kind \in {job.kind, Head(requests).op}
        /\ op' = op /\ reply' \in {reply, [reply EXCEPT ![Head(requests).who] = "done"]}
    BY <1>5 DEF ServeInterest, Selects, BeginEvent
  <2>3. Up' /\ Up
    BY <2>1, <2>2 DEF Up, Shape, JobShape, NoJob
  <2>4. ASSUME NEW e \in Callers PROVE RpcCall(e)' = RpcCall(e)
    <3>1. ~Awaits(e)' /\ ~Awaits(e)
      BY <2>2 DEF Awaits
    <3>2. op[e] = "command" => reply'[e] = reply[e]
      BY <2>1, <2>2 DEF Waits, TypeOK
    <3> QED BY <2>2, <3>1, <3>2, SameCall
  <2> QED BY <2>3, <2>4, Stutters
<1>6. ASSUME ServeShutdown PROVE Rpc!Next \/ UNCHANGED Rpc!vars
  <2>1. /\ pc = "select" /\ pc' = "teardown" /\ UNCHANGED <<op, reply>>
    BY <1>6 DEF ServeShutdown, Selects
  <2>2. ~Up' /\ Up
    BY <2>1 DEF Up, Shape, JobShape, NoJob
  <2>3. ASSUME NEW e \in Callers PROVE RpcCall(e)' = RpcCall(e)
    <3>1. ~Awaits(e)' /\ ~Awaits(e)
      BY <2>1 DEF Awaits
    <3> QED BY <2>1, <3>1, SameCall
  <2> QED BY <2>2, <2>3, GoesDown
<1>7. ASSUME Poll PROVE Rpc!Next \/ UNCHANGED Rpc!vars
  <2>1. Up' <=> Up
    BY <1>7 DEF Poll, Up
  <2>2. ASSUME NEW e \in Callers PROVE RpcCall(e)' = RpcCall(e)
    <3>1. op' = op /\ reply' = reply /\ (Awaits(e)' <=> Awaits(e))
      BY <1>7 DEF Poll, Awaits
    <3> QED BY <3>1, SameCall
  <2> QED BY <2>1, <2>2, Stutters
<1>8. ASSUME PollFails PROVE Rpc!Next \/ UNCHANGED Rpc!vars
  <2>1. /\ pc = "select" /\ pc' = "lost" /\ UNCHANGED <<op, reply, job>>
    BY <1>8 DEF PollFails
  <2>2. ~Up' /\ Up
    BY <2>1 DEF Up, Shape, JobShape, NoJob
  <2>3. ASSUME NEW e \in Callers PROVE RpcCall(e)' = RpcCall(e)
    <3>1. ~Awaits(e)' /\ ~Awaits(e)
      BY <2>1 DEF Awaits
    <3> QED BY <2>1, <3>1, SameCall
  <2> QED BY <2>2, <2>3, GoesDown
<1>9. ASSUME ReportLoss PROVE Rpc!Next \/ UNCHANGED Rpc!vars
  <2>1. Up' <=> Up
    BY <1>9 DEF ReportLoss, Up
  <2>2. ASSUME NEW e \in Callers PROVE RpcCall(e)' = RpcCall(e)
    <3>1. op' = op /\ reply' = reply /\ (Awaits(e)' <=> Awaits(e))
      BY <1>9 DEF ReportLoss, Awaits
    <3> QED BY <3>1, SameCall
  <2> QED BY <2>1, <2>2, Stutters
<1>10. ASSUME WriteOk PROVE Rpc!Next \/ UNCHANGED Rpc!vars
  <2>1. pc = "write" /\ UNCHANGED <<phase, op>>
    BY <1>10 DEF WriteOk
  <2>2. CASE job.xid = None
    <3>1. Finish("done", None) /\ job.kind # "command"
      BY <1>10, <2>2 DEF WriteOk, Shape, JobShape
    <3> QED BY <2>1, <3>1, FinishDecides
  <2>3. CASE job.xid # None
    <3>1. pc' = "await" /\ UNCHANGED <<op, reply, job>>
      BY <1>10, <2>3 DEF WriteOk
    <3>2. Up' <=> Up
      BY <2>1, <3>1 DEF Up
    <3>3. ASSUME NEW e \in Callers, job.kind # "command" \/ e # job.who PROVE RpcCall(e)' = RpcCall(e)
      <4>1. ~Awaits(e)' /\ ~Awaits(e)
        BY <3>1, <3>3 DEF Awaits
      <4> QED BY <3>1, <4>1, SameCall
    <3>4. CASE job.kind = "command"
      <4>1. PICK c \in Callers : c = job.who
        BY <3>4 DEF Shape, JobShape, TypeOK, Job
      <4>2. op[c] = "command" /\ reply[c] = "none"
        BY <3>4, <4>1 DEF Shape, JobShape, Waits
      <4>3. RpcCall(c) = "open"
        BY <2>1, <4>2, OpenOrSent DEF Awaits
      <4>4. RpcCall(c)' = "sent"
        BY <3>1, <3>4, <4>1, <4>2 DEF RpcCall
      <4>5. Up
        BY <2>1, <3>4 DEF Up
      <4>6. \A d \in Callers : d # c => RpcCall(d)' = RpcCall(d)
        BY <3>3, <4>1
      <4> QED BY <3>2, <4>3, <4>4, <4>5, <4>6, OneMoves
    <3>5. CASE job.kind # "command"
      BY <3>2, <3>3, <3>5, Stutters
    <3> QED BY <3>4, <3>5
  <2> QED BY <2>2, <2>3
<1>11. ASSUME WriteFails PROVE Rpc!Next \/ UNCHANGED Rpc!vars
  <2>1. pc \in {"write", "await"} /\ UNCHANGED <<phase, op>> /\ Finish("failed", None)
    BY <1>11 DEF WriteFails
  <2> QED BY <2>1, FinishDecides
<1>12. ASSUME AwaitTakes PROVE Rpc!Next \/ UNCHANGED Rpc!vars
  <2>1. PICK f \in Frame : Finish(IF f.ok THEN "answer" ELSE "failed", f.who)
    BY <1>12, AwaitTakesFacts
  <2>2. pc = "await" /\ UNCHANGED <<phase, op>>
    BY <1>12 DEF AwaitTakes
  <2>3. f.who \in Callers \cup {None}
    BY DEF Frame
  <2> QED BY <2>1, <2>2, <2>3, FinishDecides
<1>13. ASSUME AwaitFiles PROVE Rpc!Next \/ UNCHANGED Rpc!vars
  <2>1. Up' <=> Up
    BY <1>13 DEF AwaitFiles, Up
  <2>2. ASSUME NEW e \in Callers PROVE RpcCall(e)' = RpcCall(e)
    <3>1. op' = op /\ reply' = reply /\ (Awaits(e)' <=> Awaits(e))
      BY <1>13 DEF AwaitFiles, Awaits
    <3> QED BY <3>1, SameCall
  <2> QED BY <2>1, <2>2, Stutters
<1>14. ASSUME AwaitFails PROVE Rpc!Next \/ UNCHANGED Rpc!vars
  <2>1. pc \in {"write", "await"} /\ UNCHANGED <<phase, op>> /\ Finish("failed", None)
    BY <1>14 DEF AwaitFails
  <2> QED BY <2>1, FinishDecides
<1>15. ASSUME Drain PROVE Rpc!Next \/ UNCHANGED Rpc!vars
  <2>1. /\ pc = "drain" /\ pc' \in {"write", "select"} /\ job'.kind \in {"volume", job.kind} /\ UNCHANGED <<op, reply>>
    BY <1>15, BeginExchangeFacts DEF Drain
  <2>2. Up' /\ Up
    BY <2>1 DEF Up, Shape, JobShape, NoJob
  <2>3. ASSUME NEW e \in Callers PROVE RpcCall(e)' = RpcCall(e)
    <3>1. ~Awaits(e)' /\ ~Awaits(e)
      BY <2>1 DEF Awaits
    <3> QED BY <2>1, <3>1, SameCall
  <2> QED BY <2>2, <2>3, Stutters
<1>16. ASSUME TeardownSend PROVE Rpc!Next \/ UNCHANGED Rpc!vars
  <2>1. /\ pc = "teardown" /\ pc' = "write" /\ job'.kind = "teardown" /\ UNCHANGED <<op, reply>>
    BY <1>16, BeginExchangeFacts DEF TeardownSend, BeginEvent
  <2>2. ~Up' /\ ~Up
    BY <2>1 DEF Up
  <2>3. ASSUME NEW e \in Callers PROVE RpcCall(e)' = RpcCall(e)
    <3>1. ~Awaits(e)' /\ ~Awaits(e)
      BY <2>1 DEF Awaits
    <3> QED BY <2>1, <3>1, SameCall
  <2> QED BY <2>2, <2>3, Stutters
<1>17. ASSUME TeardownDone PROVE Rpc!Next \/ UNCHANGED Rpc!vars
  <2>1. /\ pc = "teardown" /\ pc' = "stopped" /\ op' = op
    BY <1>17 DEF TeardownDone
  <2>2. PICK r \in {"done", "failed"} :
          reply' = [c \in Callers |-> IF c = job.who THEN r
                                      ELSE IF phase[c] = "wait" /\ reply[c] = "none" THEN "closed" ELSE reply[c]]
    BY <1>17 DEF TeardownDone
  <2>3. op[job.who] = "close"
    BY <2>1 DEF Shape, JobShape, Waits
  <2>4. ~Up' /\ ~Up
    BY <2>1 DEF Up
  <2> DEFINE S == {c \in Callers : op[c] = "command" /\ phase[c] = "wait" /\ reply[c] = "none"}
  <2>5. ASSUME NEW c \in Callers
        PROVE  /\ c \in S => RpcCall(c) = "open" /\ RpcCall(c)' = "failed"
               /\ c \notin S => RpcCall(c)' = RpcCall(c)
    <3>1. ~Awaits(c)' /\ ~Awaits(c)
      BY <2>1 DEF Awaits
    <3>2. CASE c \in S
      <4>1. op'[c] = "command" /\ reply'[c] = "closed"
        BY <2>1, <2>2, <2>3, <3>2
      <4>2. RpcCall(c)' = "failed"
        BY <4>1 DEF RpcCall
      <4> QED BY <3>1, <3>2, <4>2, OpenOrSent
    <3>3. CASE c \notin S
      <4>1. op'[c] = op[c] /\ (op[c] = "command" => reply'[c] = reply[c])
        BY <2>1, <2>2, <2>3, <3>3
      <4> QED BY <3>1, <3>3, <4>1, SameCall
    <3> QED BY <3>2, <3>3
  <2> DEFINE call == [d \in Callers |-> RpcCall(d)]
             up == job.kind # "teardown" /\ pc \notin {"teardown", "lost", "stopped"}
  <2> HIDE DEF S
  <2>6. call' = [d \in Callers |-> IF d \in S THEN "failed" ELSE call[d]]
    BY <2>5
  <2>7. \A c \in S : call[c] = "open"
    BY <2>5 DEF S
  <2>8. up' = up
    BY <2>4, Zenon DEF Up
  <2>9. S \in SUBSET Callers
    BY DEF S
  <2> HIDE DEF call, up
  <2>10. Rpc!Fail(S)
    BY <2>6, <2>7, <2>8 DEF Rpc!Fail, call, up
  <2> QED BY <2>9, <2>10 DEF Rpc!Next
<1>18. ASSUME DeviceAnswers PROVE Rpc!Next \/ UNCHANGED Rpc!vars
  <2>1. Up' <=> Up
    BY <1>18 DEF DeviceAnswers, Arrives, Up
  <2>2. ASSUME NEW e \in Callers PROVE RpcCall(e)' = RpcCall(e)
    <3>1. op' = op /\ reply' = reply /\ (Awaits(e)' <=> Awaits(e))
      BY <1>18 DEF DeviceAnswers, Arrives, Awaits
    <3> QED BY <3>1, SameCall
  <2> QED BY <2>1, <2>2, Stutters
<1>19. ASSUME DevicePushes PROVE Rpc!Next \/ UNCHANGED Rpc!vars
  <2>1. Up' <=> Up
    BY <1>19 DEF DevicePushes, Arrives, Up
  <2>2. ASSUME NEW e \in Callers PROVE RpcCall(e)' = RpcCall(e)
    <3>1. op' = op /\ reply' = reply /\ (Awaits(e)' <=> Awaits(e))
      BY <1>19 DEF DevicePushes, Arrives, Awaits
    <3> QED BY <3>1, SameCall
  <2> QED BY <2>1, <2>2, Stutters
<1>20. ASSUME DeviceErrs PROVE Rpc!Next \/ UNCHANGED Rpc!vars
  <2>1. Up' <=> Up
    BY <1>20 DEF DeviceErrs, Arrives, Up
  <2>2. ASSUME NEW e \in Callers PROVE RpcCall(e)' = RpcCall(e)
    <3>1. op' = op /\ reply' = reply /\ (Awaits(e)' <=> Awaits(e))
      BY <1>20 DEF DeviceErrs, Arrives, Awaits
    <3> QED BY <3>1, SameCall
  <2> QED BY <2>1, <2>2, Stutters
<1>21. ASSUME DeviceFails PROVE Rpc!Next \/ UNCHANGED Rpc!vars
  <2>1. Up' <=> Up
    BY <1>21 DEF DeviceFails, Up
  <2>2. ASSUME NEW e \in Callers PROVE RpcCall(e)' = RpcCall(e)
    <3>1. op' = op /\ reply' = reply /\ (Awaits(e)' <=> Awaits(e))
      BY <1>21 DEF DeviceFails, Awaits
    <3> QED BY <3>1, SameCall
  <2> QED BY <2>1, <2>2, Stutters
<1> QED
  BY <1>0, <1>1, <1>2, <1>3, <1>4, <1>5, <1>6, <1>7, <1>8, <1>9, <1>10, <1>11, <1>12, <1>13, <1>14,
     <1>15, <1>16, <1>17, <1>18, <1>19, <1>20, <1>21
     DEF Next, CallerStep, ActorStep, ServeStep, PollStep, WriteStep, AwaitStep, TeardownStep, DeviceStep

\* Every command behaves as RpcChannel says, whatever the callers, the device and the socket do: it
\* is answered only after its request was written and before the teardown, and only once.
THEOREM SessionImplementsRpcChannel == Spec => ImplementsRpcChannel
<1>1. Init => Rpc!Init
  <2> SUFFICES ASSUME Init PROVE Rpc!Init
    OBVIOUS
  <2>1. \A c \in Callers : RpcCall(c) = "idle"
    BY DEF Init, RpcCall
  <2>2. Up
    BY DEF Init, Up, NoJob
  <2>3. [c \in Callers |-> RpcCall(c)] = [c \in Callers |-> "idle"]
    BY <2>1
  <2>4. (job.kind # "teardown" /\ pc \notin {"teardown", "lost", "stopped"}) = TRUE
    BY <2>2, Zenon DEF Up
  <2> QED BY <2>3, <2>4 DEF Rpc!Init
<1>2. IInv /\ IInv' /\ [Next]_vars => [Rpc!Next]_Rpc!vars
  BY RpcStep DEF IInv
<1> QED BY <1>1, <1>2, SessionInductive, PTL DEF Spec, ImplementsRpcChannel, Rpc!Spec
===============================================================================
