---------------------------- MODULE FacadeProofs ----------------------------
(* Claims on the relayers, for any number of protocols, interfaces and      *)
(* claimants and whatever each of them claims, in any order and even twice: *)
(* what is taken over is what one guard has to give back. Then the life of  *)
(* a facade, for any number of services and callers: connect makes one      *)
(* connection per protocol, close ends all there are, and the relayers      *)
(* underneath see nothing but registrations and claims. Then the hub its    *)
(* protocols report to: what the listeners are told is one chain.           *)
EXTENDS Facade, ListenerHub, FiniteSetTheorems, TLAPS

\* A guard that is not there has nothing to give back; a claim counts from 1.
ClaimShape ==
  \A c \in Claimants :
      /\ claims[c].next >= 1
      /\ claims[c].at = "free" => claims[c].taken = {}

RelayerInv == RelayerTypeOK /\ ClaimShape /\ TakenByItsGuard

Holds(c, i) == claims[c].at # "free" /\ i \in claims[c].taken

\* TakenByItsGuard, by claimants instead of sets of them.
GuardsAgree ==
  \A i \in Interfaces :
      /\ \A c, d \in Claimants : Holds(c, i) /\ Holds(d, i) => c = d
      /\ takeover[i] # None => \E c \in Claimants : Holds(c, i)
      /\ \A c \in Claimants : Holds(c, i) => takeover[i] = ClaimOf[c].protocol

\* The two say the same.
LEMMA GuardsByClaimant == RelayerTypeOK => (TakenByItsGuard <=> GuardsAgree)
<1>1. \A c \in Claimants : ClaimOf[c].protocol # None
  BY RelayerAssumption
<1> QED BY <1>1 DEF TakenByItsGuard, GuardsAgree, Holds

\* Every step about claims replaces the claim of one claimant.
Becomes(c, claim) == claims' = [claims EXCEPT ![c] = claim]

\* One claim is replaced, the others are not.
LEMMA BecomesFacts ==
  ASSUME RelayerTypeOK, NEW c \in Claimants, NEW claim \in Claim, Becomes(c, claim)
  PROVE  /\ claims' \in [Claimants -> Claim]
         /\ claims'[c] = claim
         /\ \A d \in Claimants : d # c => claims'[d] = claims[d]
  BY DEF Becomes, RelayerTypeOK

\* takeover asks for an interface of the facade.
LEMMA WantedIsInterface ==
  ASSUME RelayerTypeOK, ClaimShape, NEW c \in Claimants,
         claims[c].next <= Len(ClaimOf[c].interfaces)
  PROVE  Wanted(c) \in Interfaces
<1>1. ClaimOf[c].interfaces \in Seq(Interfaces)
  BY RelayerAssumption
<1>2. claims[c].next \in 1..Len(ClaimOf[c].interfaces)
  BY DEF RelayerTypeOK, ClaimShape, Claim
<1> QED BY <1>1, <1>2 DEF Wanted

\* Taking an interface adds it to the claim.
LEMMA TakeBecomes ==
  ASSUME RelayerTypeOK, ClaimShape, NEW c \in Claimants, Take(c)
  PROVE  /\ Wanted(c) \in Interfaces
         /\ \E claim \in Claim :
               /\ Becomes(c, claim)
               /\ claim.at = "claiming" /\ claim.next = claims[c].next + 1
               /\ claim.taken = claims[c].taken \cup {Wanted(c)}
<1> DEFINE x == [at |-> "claiming", next |-> claims[c].next + 1,
                 taken |-> claims[c].taken \cup {Wanted(c)}]
<1>1. Wanted(c) \in Interfaces
  BY WantedIsInterface DEF Take
<1>2. x \in Claim
  BY <1>1 DEF RelayerTypeOK, Claim
<1>3. Becomes(c, x)
  BY DEF Take, Becomes
<1> QED BY <1>1, <1>2, <1>3

\* A claim starts with the first interface of its list.
LEMMA StartBecomes ==
  ASSUME RelayerTypeOK, NEW c \in Claimants, StartClaim(c)
  PROVE  \E claim \in Claim :
            /\ Becomes(c, claim)
            /\ claim.at = "claiming" /\ claim.next = 1 /\ claim.taken = claims[c].taken
<1> DEFINE x == [at |-> "claiming", next |-> 1, taken |-> claims[c].taken]
<1>1. x \in Claim
  BY DEF RelayerTypeOK, Claim
<1>2. Becomes(c, x)
  BY DEF StartClaim, Becomes
<1> QED BY <1>1, <1>2

\* The steps that only move on within the claim.
Moves(c) == Refuse(c) \/ Hold(c) \/ DropGuard(c) \/ Released(c)

\* They leave what was taken as it is, and end empty-handed.
LEMMA MoveBecomes ==
  ASSUME RelayerTypeOK, NEW c \in Claimants, Moves(c)
  PROVE  \E claim \in Claim :
            /\ Becomes(c, claim)
            /\ claim.next = claims[c].next /\ claim.taken = claims[c].taken
            /\ claims[c].at # "free"
            /\ claim.at = "free" => claim.taken = {}
<1>1. claims[c] \in Claim /\ claims \in [Claimants -> Claim]
  BY DEF RelayerTypeOK
<1>2. PICK at \in {"free", "holding", "releasing"} :
        /\ claims' = [claims EXCEPT ![c].at = at]
        /\ claims[c].at # "free"
        /\ at = "free" => claims[c].taken = {}
  BY DEF Moves, Refuse, Hold, DropGuard, Released
<1> DEFINE x == [claims[c] EXCEPT !.at = at]
<1>3. x \in Claim /\ x.at = at /\ x.next = claims[c].next /\ x.taken = claims[c].taken
  BY <1>1 DEF Claim
<1>4. Becomes(c, x)
  BY <1>1, <1>2 DEF Becomes
<1> HIDE DEF x
<1> QED BY <1>2, <1>3, <1>4

\* Releasing takes one interface off the claim.
LEMMA ReleaseBecomes ==
  ASSUME RelayerTypeOK, NEW c \in Claimants, NEW i \in Interfaces, ReleaseOne(c, i)
  PROVE  \E claim \in Claim :
            /\ Becomes(c, claim)
            /\ claim.at = "releasing" /\ claim.next = claims[c].next
            /\ claim.taken = claims[c].taken \ {i}
<1>1. claims[c] \in Claim /\ claims \in [Claimants -> Claim]
  BY DEF RelayerTypeOK
<1> DEFINE x == [claims[c] EXCEPT !.taken = @ \ {i}]
<1>2. x \in Claim /\ x.at = "releasing" /\ x.next = claims[c].next
      /\ x.taken = claims[c].taken \ {i}
  BY <1>1 DEF Claim, ReleaseOne
<1>3. Becomes(c, x)
  BY <1>1 DEF Becomes, ReleaseOne
<1> HIDE DEF x
<1> QED BY <1>2, <1>3

\* Nothing is taken over before the first claim.
LEMMA RelayerStarts == RelayerInit => RelayerInv
<1> SUFFICES ASSUME RelayerInit PROVE RelayerInv
  OBVIOUS
<1>1. RelayerTypeOK
  BY DEF RelayerInit, RelayerTypeOK, Claim
<1>2. ClaimShape
  BY DEF RelayerInit, ClaimShape
<1>3. TakenByItsGuard
  BY DEF RelayerInit, TakenByItsGuard
<1> QED BY <1>1, <1>2, <1>3 DEF RelayerInv

\* A new protocol touches neither claims nor takeovers.
LEMMA AddProtocolKeeps ==
  ASSUME RelayerTypeOK, ClaimShape, GuardsAgree, NEW p \in Protocols, AddProtocol(p)
  PROVE  RelayerTypeOK' /\ ClaimShape' /\ GuardsAgree'
<1>1. added' \subseteq Protocols /\ takeover' = takeover /\ claims' = claims
  BY DEF RelayerTypeOK, AddProtocol
<1>2. registered' \in [Interfaces -> SUBSET Protocols]
  BY DEF RelayerTypeOK, AddProtocol
<1>3. owners' \in [Features -> Protocols \cup {None}]
  BY DEF RelayerTypeOK, AddProtocol
<1>4. RelayerTypeOK'
  BY <1>1, <1>2, <1>3 DEF RelayerTypeOK
<1>5. ClaimShape' /\ GuardsAgree'
  BY <1>1 DEF ClaimShape, GuardsAgree, Holds
<1> QED BY <1>4, <1>5

\* Nor does a step within a claim change what is taken: a claim that ends has nothing any more.
LEMMA WithinClaimKeeps ==
  ASSUME RelayerTypeOK, ClaimShape, GuardsAgree, NEW c \in Claimants, StartClaim(c) \/ Moves(c)
  PROVE  RelayerTypeOK' /\ ClaimShape' /\ GuardsAgree'
<1>1. UNCHANGED <<added, registered, owners, takeover>>
  BY DEF StartClaim, Moves, Refuse, Hold, DropGuard, Released
<1>2. PICK claim \in Claim :
        /\ Becomes(c, claim)
        /\ claim.next >= 1 /\ claim.taken = claims[c].taken
        /\ claims[c].at = "free" \/ claim.at = "free" => claim.taken = {}
  <2>1. CASE StartClaim(c)
    <3>1. claims[c].taken = {}
      BY <2>1 DEF StartClaim, ClaimShape
    <3>2. PICK claim \in Claim :
            /\ Becomes(c, claim)
            /\ claim.at = "claiming" /\ claim.next = 1 /\ claim.taken = claims[c].taken
      BY <2>1, StartBecomes
    <3>3. claim.next >= 1
      BY <3>2
    <3> QED BY <3>1, <3>2, <3>3, Zenon
  <2>2. CASE Moves(c)
    BY <2>2, MoveBecomes DEF ClaimShape
  <2> QED BY <2>1, <2>2
<1>3. /\ claims' \in [Claimants -> Claim] /\ claims'[c] = claim
      /\ \A d \in Claimants : d # c => claims'[d] = claims[d]
  BY <1>2, BecomesFacts
<1>4. RelayerTypeOK'
  BY <1>1, <1>3 DEF RelayerTypeOK
<1>5. ClaimShape'
  BY <1>2, <1>3 DEF ClaimShape
<1>6. \A d \in Claimants, i \in Interfaces : Holds(d, i)' <=> Holds(d, i)
  BY <1>2, <1>3 DEF Holds
<1>7. GuardsAgree'
  BY <1>1, <1>6 DEF GuardsAgree
<1> QED BY <1>4, <1>5, <1>7

\* What is taken was nobody's, and is the taker's now.
LEMMA TakeKeeps ==
  ASSUME RelayerTypeOK, ClaimShape, GuardsAgree, NEW c \in Claimants, Take(c)
  PROVE  RelayerTypeOK' /\ ClaimShape' /\ GuardsAgree'
<1> DEFINE w == Wanted(c)
<1>1. PICK claim \in Claim :
        /\ w \in Interfaces /\ Becomes(c, claim)
        /\ claim.at = "claiming" /\ claim.next = claims[c].next + 1
        /\ claim.taken = claims[c].taken \cup {w}
  BY TakeBecomes
<1>2. /\ claims' \in [Claimants -> Claim] /\ claims'[c] = claim
      /\ \A d \in Claimants : d # c => claims'[d] = claims[d]
  BY <1>1, BecomesFacts
<1>3. /\ claims[c].at = "claiming" /\ takeover[w] = None
      /\ takeover' = [takeover EXCEPT ![w] = ClaimOf[c].protocol]
      /\ UNCHANGED <<added, registered, owners>>
  BY DEF Take
<1>4. ClaimOf[c].protocol \in Protocols /\ \A d \in Claimants : ClaimOf[d].protocol # None
  BY RelayerAssumption
<1>5. /\ takeover'[w] = ClaimOf[c].protocol
      /\ \A i \in Interfaces : i # w => takeover'[i] = takeover[i]
  BY <1>1, <1>3 DEF RelayerTypeOK
<1> HIDE DEF w
<1>6. RelayerTypeOK'
  BY <1>1, <1>2, <1>3, <1>4 DEF RelayerTypeOK
<1>7. ClaimShape'
  BY <1>1, <1>2 DEF ClaimShape, RelayerTypeOK, Claim
<1>8. \A d \in Claimants : ~Holds(d, w)
  BY <1>1, <1>3, <1>4 DEF GuardsAgree
<1>9. \A d \in Claimants, i \in Interfaces : Holds(d, i)' <=> Holds(d, i) \/ (d = c /\ i = w)
  BY <1>1, <1>2, <1>3 DEF Holds
<1>10. GuardsAgree'
  BY <1>1, <1>4, <1>5, <1>8, <1>9 DEF GuardsAgree
<1> QED BY <1>6, <1>7, <1>10

\* What a guard gives back was its own, so nobody else loses it.
LEMMA ReleaseKeeps ==
  ASSUME RelayerTypeOK, ClaimShape, GuardsAgree, NEW c \in Claimants, NEW j \in Interfaces,
         ReleaseOne(c, j)
  PROVE  RelayerTypeOK' /\ ClaimShape' /\ GuardsAgree'
<1>1. PICK claim \in Claim :
        /\ Becomes(c, claim)
        /\ claim.at = "releasing" /\ claim.next = claims[c].next
        /\ claim.taken = claims[c].taken \ {j}
  BY ReleaseBecomes
<1>2. /\ claims' \in [Claimants -> Claim] /\ claims'[c] = claim
      /\ \A d \in Claimants : d # c => claims'[d] = claims[d]
  BY <1>1, BecomesFacts
<1>3. /\ Holds(c, j) /\ claims[c].at = "releasing"
      /\ takeover' = [takeover EXCEPT ![j] = None]
      /\ UNCHANGED <<added, registered, owners>>
  BY DEF ReleaseOne, Holds
<1>4. takeover'[j] = None /\ \A i \in Interfaces : i # j => takeover'[i] = takeover[i]
  BY <1>3 DEF RelayerTypeOK
<1>5. RelayerTypeOK'
  BY <1>2, <1>3 DEF RelayerTypeOK
<1>6. ClaimShape'
  BY <1>1, <1>2 DEF ClaimShape
<1>7. \A d \in Claimants, i \in Interfaces : Holds(d, i)' <=> Holds(d, i) /\ ~(d = c /\ i = j)
  BY <1>1, <1>2, <1>3 DEF Holds
<1>8. \A d \in Claimants : Holds(d, j) => d = c
  BY <1>3 DEF GuardsAgree
<1>9. GuardsAgree'
  BY <1>4, <1>7, <1>8 DEF GuardsAgree
<1> QED BY <1>5, <1>6, <1>9

\* Every step keeps the invariant.
LEMMA RelayerSteps == RelayerInv /\ [RelayerNext]_relayerVars => RelayerInv'
<1> SUFFICES ASSUME RelayerInv, [RelayerNext]_relayerVars PROVE RelayerInv'
  OBVIOUS
<1>1. RelayerTypeOK /\ ClaimShape /\ GuardsAgree
  BY GuardsByClaimant DEF RelayerInv
<1>2. RelayerTypeOK' /\ ClaimShape' /\ GuardsAgree'
  <2>1. ASSUME NEW p \in Protocols, AddProtocol(p) PROVE RelayerTypeOK' /\ ClaimShape' /\ GuardsAgree'
    BY <1>1, <2>1, AddProtocolKeeps
  <2>2. ASSUME NEW c \in Claimants, StartClaim(c) \/ Moves(c) PROVE RelayerTypeOK' /\ ClaimShape' /\ GuardsAgree'
    BY <1>1, <2>2, WithinClaimKeeps
  <2>3. ASSUME NEW c \in Claimants, Take(c) PROVE RelayerTypeOK' /\ ClaimShape' /\ GuardsAgree'
    BY <1>1, <2>3, TakeKeeps
  <2>4. ASSUME NEW c \in Claimants, NEW i \in Interfaces, ReleaseOne(c, i) PROVE RelayerTypeOK' /\ ClaimShape' /\ GuardsAgree'
    BY <1>1, <2>4, ReleaseKeeps
  <2>5. CASE UNCHANGED relayerVars
    BY <1>1, <2>5 DEF relayerVars, RelayerTypeOK, ClaimShape, GuardsAgree, Holds
  <2> QED BY <2>1, <2>2, <2>3, <2>4, <2>5 DEF RelayerNext, ClaimEnds, Moves
<1>3. TakenByItsGuard'
  BY <1>2, GuardsByClaimant, PTL
<1> QED BY <1>2, <1>3 DEF RelayerInv

\* takeover.rs:98, "Nothing remains claimed in that case": however many tasks claim and release,
\* an interface is taken over exactly while one guard holds it, for the protocol of that guard.
THEOREM TakenByItsGuardAlways == RelayerSpec => []TakenByItsGuard
<1>1. RelayerInv => TakenByItsGuard
  BY DEF RelayerInv
<1> QED BY <1>1, RelayerStarts, RelayerSteps, PTL DEF RelayerSpec

\* The variables of the relayers keep their types.
THEOREM RelayerTypeCorrect == RelayerSpec => []RelayerTypeOK
<1>1. RelayerInv => RelayerTypeOK
  BY DEF RelayerInv
<1> QED BY <1>1, RelayerStarts, RelayerSteps, PTL DEF RelayerSpec
-----------------------------------------------------------------------------
\* What add_protocol has filed: each interface with those that offer it, and each
\* feature with the one of those that offer it that stands first in the default order.
Offering(f) == {p \in added : f \in Offers[p].features}

Filed ==
  /\ \A i \in Interfaces : registered[i] = {p \in added : i \in Offers[p].interfaces}
  /\ \A f \in Features :
        IF owners[f] = None THEN Offering(f) = {}
        ELSE /\ owners[f] \in Offering(f)
             /\ \A q \in Offering(f) : DefaultRank[owners[f]] <= DefaultRank[q]

\* Nothing is filed before the first protocol.
LEMMA FiledAtFirst == RelayerInit => Filed
  BY DEF RelayerInit, Filed, Offering

\* One more protocol gets the features nobody had, and those of whoever stands behind it.
LEMMA AddProtocolFiles ==
  ASSUME RelayerTypeOK, Filed, NEW p \in Protocols, AddProtocol(p)
  PROVE  Filed'
<1>1. p \notin added /\ added' = added \cup {p} /\ added \subseteq Protocols
  BY DEF AddProtocol, RelayerTypeOK
<1>2. ASSUME NEW i \in Interfaces
      PROVE  registered'[i] = {q \in added' : i \in Offers[q].interfaces}
  <2>1. registered'[i] = IF i \in Offers[p].interfaces THEN registered[i] \cup {p} ELSE registered[i]
    BY DEF AddProtocol
  <2>2. registered[i] = {q \in added : i \in Offers[q].interfaces}
    BY DEF Filed
  <2> QED BY <1>1, <2>1, <2>2
<1>3. ASSUME NEW f \in Features
      PROVE  IF owners'[f] = None THEN Offering(f)' = {}
             ELSE /\ owners'[f] \in Offering(f)'
                  /\ \A q \in Offering(f)' : DefaultRank[owners'[f]] <= DefaultRank[q]
  <2>1. owners'[f] = IF f \in Offers[p].features /\ has_higher_priority(p, owners[f])
                     THEN p ELSE owners[f]
    BY DEF AddProtocol
  <2>2. Offering(f)' = IF f \in Offers[p].features THEN Offering(f) \cup {p} ELSE Offering(f)
    BY <1>1 DEF Offering
  <2>3. IF owners[f] = None THEN Offering(f) = {}
        ELSE /\ owners[f] \in Offering(f)
             /\ \A q \in Offering(f) : DefaultRank[owners[f]] <= DefaultRank[q]
    BY DEF Filed
  <2>4. /\ Offering(f) \subseteq Protocols /\ p # None
        /\ \A q \in Protocols : DefaultRank[q] \in Nat
    BY <1>1, RelayerAssumption DEF Offering
  <2>5. CASE f \in Offers[p].features /\ owners[f] = None
    BY <2>1, <2>2, <2>3, <2>4, <2>5 DEF has_higher_priority
  <2>6. CASE f \in Offers[p].features /\ owners[f] # None /\ DefaultRank[p] < DefaultRank[owners[f]]
    <3>1. owners'[f] = p
      BY <2>1, <2>6 DEF has_higher_priority
    <3>2. \A q \in Offering(f) : DefaultRank[p] <= DefaultRank[q]
      BY <2>3, <2>4, <2>6
    <3> QED BY <2>2, <2>4, <2>6, <3>1, <3>2
  <2>7. CASE f \in Offers[p].features /\ owners[f] # None /\ ~(DefaultRank[p] < DefaultRank[owners[f]])
    <3>1. owners'[f] = owners[f]
      BY <2>1, <2>7 DEF has_higher_priority
    <3>2. DefaultRank[owners[f]] <= DefaultRank[p]
      BY <2>3, <2>4, <2>7
    <3> QED BY <2>2, <2>3, <2>7, <3>1, <3>2
  <2>8. CASE f \notin Offers[p].features
    BY <2>1, <2>2, <2>3, <2>8
  <2> QED BY <2>5, <2>6, <2>7, <2>8
<1> QED BY <1>2, <1>3 DEF Filed

\* Claims file nothing.
LEMMA FiledSteps == RelayerInv /\ Filed /\ [RelayerNext]_relayerVars => Filed'
<1> SUFFICES ASSUME RelayerInv, Filed, [RelayerNext]_relayerVars PROVE Filed'
  OBVIOUS
<1>1. RelayerTypeOK
  BY DEF RelayerInv
<1>2. CASE \E p \in Protocols : AddProtocol(p)
  BY <1>1, <1>2, AddProtocolFiles
<1>3. CASE UNCHANGED <<added, registered, owners>>
  BY <1>3 DEF Filed, Offering
<1>4. ASSUME NEW c \in Claimants, StartClaim(c) \/ ClaimEnds(c) \/ DropGuard(c)
      PROVE  UNCHANGED <<added, registered, owners>>
  BY <1>4 DEF StartClaim, ClaimEnds, DropGuard, Take, Refuse, Hold, ReleaseOne, Released
<1> QED BY <1>2, <1>3, <1>4 DEF RelayerNext, relayerVars

\* A relayer in the default order that nobody has taken over looks at the same protocols in the
\* same order, so it comes to the same one.
LEMMA FiledAnswers ==
  ASSUME RelayerTypeOK, Filed
  PROVE  FeatureAnsweredByCallee
<1> SUFFICES ASSUME NEW f \in Features, RankOf[InterfaceOf[f]] = DefaultRank,
                    takeover[InterfaceOf[f]] = None, instance_for(f) # None
             PROVE  owners[f] = instance_for(f)
  BY DEF FeatureAnsweredByCallee
<1> DEFINE i == InterfaceOf[f]
<1>1. i \in Interfaces /\ added \subseteq Protocols /\ None \notin added
  BY RelayerAssumption DEF RelayerTypeOK
<1>2. {p \in registered[i] : f \in Offers[p].features} = Offering(f)
  BY <1>1, RelayerAssumption DEF Filed, Offering
<1>3. instance_for(f) = First(i, Offering(f))
  BY <1>2 DEF instance_for
<1>4. Offering(f) # {}
  BY <1>3 DEF First
<1>5. /\ owners[f] \in Offering(f)
      /\ \A q \in Offering(f) : DefaultRank[owners[f]] <= DefaultRank[q]
  BY <1>4 DEF Filed
<1>6. \A p, q \in Offering(f) : Before(i, p, q) <=> DefaultRank[p] <= DefaultRank[q]
  BY <1>1 DEF Before, Offering
<1>7. instance_for(f) = CHOOSE p \in Offering(f) : \A q \in Offering(f) : Before(i, p, q)
  BY <1>3, <1>4 DEF First
<1> HIDE DEF i
<1>8. /\ instance_for(f) \in Offering(f)
      /\ \A q \in Offering(f) : Before(i, instance_for(f), q)
  <2>1. \E p \in Offering(f) : \A q \in Offering(f) : Before(i, p, q)
    BY <1>5, <1>6
  <2> QED BY <1>7, <2>1, Zenon
<1>9. /\ DefaultRank[owners[f]] <= DefaultRank[instance_for(f)]
      /\ DefaultRank[instance_for(f)] <= DefaultRank[owners[f]]
  BY <1>5, <1>6, <1>8
<1>10. owners[f] \in Protocols /\ instance_for(f) \in Protocols
  BY <1>1, <1>5, <1>8 DEF Offering
<1> QED BY <1>9, <1>10, RelayerAssumption

\* facade.rs:241: in whatever order the protocols are added, whatever they offer and whoever claims
\* and releases meanwhile, the protocol asked about a feature is the one its method is called on.
THEOREM AskedIsCalled == RelayerSpec => []FeatureAnsweredByCallee
<1>1. RelayerInit => RelayerInv /\ Filed
  BY RelayerStarts, FiledAtFirst
<1>2. RelayerInv /\ Filed /\ [RelayerNext]_relayerVars => (RelayerInv /\ Filed)'
  BY RelayerSteps, FiledSteps
<1>3. RelayerInv /\ Filed => FeatureAnsweredByCallee
  BY FiledAnswers DEF RelayerInv
<1> QED BY <1>1, <1>2, <1>3, PTL DEF RelayerSpec
-----------------------------------------------------------------------------

\* connect sets up a service once, and what is up is registered.
NothingTwice ==
  /\ todo \subseteq Enabled
  /\ todo \cap added = {}
  /\ handles \in Seq(Protocols)
  /\ \A k \in DOMAIN handles : handles[k] \in added
  /\ OneConnectionPerProtocol

\* Nobody calls a facade before it is connected; whoever closes it still has
\* before it every connection that is up.
StillToClose ==
  /\ DOMAIN calls = Users
  /\ open \subseteq DOMAIN handles
  /\ \A u \in Users :
        /\ calls[u].op # "none" => stage = "connected"
        /\ calls[u].op = "close" => /\ calls[u].left \in Seq(Nat)
                                    /\ \A k \in open : \E n \in 1..Len(calls[u].left) : calls[u].left[n] = k

FacadeInv == NothingTwice /\ StillToClose

\* A registration adds one connection, of the protocol it is for.
LEMMA RegistersAppends ==
  ASSUME handles \in Seq(Protocols), NEW p \in Protocols, Registers(p)
  PROVE  /\ added' = added \cup {p}
         /\ handles' \in Seq(Protocols) /\ Len(handles') = Len(handles) + 1
         /\ DOMAIN handles = 1..Len(handles) /\ DOMAIN handles' = 1..(Len(handles) + 1)
         /\ handles'[Len(handles) + 1] = p
         /\ \A k \in 1..Len(handles) : handles'[k] = handles[k]
         /\ open' = open \cup {Len(handles) + 1}
         /\ UNCHANGED <<stage, calls, running>>
<1>1. handles' = Append(handles, p) /\ open' = open \cup {Len(handles) + 1}
      /\ UNCHANGED <<stage, calls, running>>
  BY DEF Registers
<1>2. added' = added \cup {p}
  BY DEF Registers, AddProtocol, relayerVars
<1> QED BY <1>1, <1>2

\* One more connection, of a protocol that had none.
LEMMA RegistersKeeps ==
  ASSUME FacadeInv, NEW p \in Protocols, Registers(p), p \notin added,
         stage = "connecting", todo' \subseteq todo, p \notin todo'
  PROVE  FacadeInv'
<1>1. /\ added' = added \cup {p}
      /\ handles' \in Seq(Protocols) /\ Len(handles') = Len(handles) + 1
      /\ DOMAIN handles = 1..Len(handles) /\ DOMAIN handles' = 1..(Len(handles) + 1)
      /\ handles'[Len(handles) + 1] = p
      /\ \A k \in 1..Len(handles) : handles'[k] = handles[k]
      /\ open' = open \cup {Len(handles) + 1}
      /\ UNCHANGED <<stage, calls, running>>
  BY RegistersAppends DEF FacadeInv, NothingTwice
<1>2. Len(handles) \in Nat
  BY DEF FacadeInv, NothingTwice
<1>3. NothingTwice'
  <2>1. todo' \subseteq Enabled /\ todo' \cap added' = {}
    BY <1>1 DEF FacadeInv, NothingTwice
  <2>2. \A k \in DOMAIN handles' : handles'[k] \in added'
    BY <1>1, <1>2 DEF FacadeInv, NothingTwice
  <2>3. ASSUME NEW k \in DOMAIN handles', NEW l \in DOMAIN handles', handles'[k] = handles'[l]
        PROVE  k = l
    <3>1. \A n \in 1..Len(handles) : handles'[n] # p
      BY <1>1 DEF FacadeInv, NothingTwice
    <3>2. CASE k \in 1..Len(handles) /\ l \in 1..Len(handles)
      BY <1>1, <2>3, <3>2 DEF FacadeInv, NothingTwice, OneConnectionPerProtocol
    <3>3. CASE k = Len(handles) + 1 \/ l = Len(handles) + 1
      BY <1>1, <1>2, <2>3, <3>1, <3>3
    <3> QED BY <1>1, <1>2, <3>2, <3>3
  <2> QED BY <1>1, <2>1, <2>2, <2>3 DEF NothingTwice, OneConnectionPerProtocol
<1>4. StillToClose'
  <2>1. \A u \in Users : calls[u].op = "none"
    BY DEF FacadeInv, StillToClose
  <2> QED BY <1>1, <1>2, <2>1 DEF FacadeInv, StillToClose
<1> QED BY <1>3, <1>4 DEF FacadeInv

\* What a user's step does to the calls: it replaces the user's own.
LEMMA GoesFacts ==
  ASSUME DOMAIN calls = Users, NEW u \in Users, NEW op, NEW left, NEW error, Goes(u, op, left, error)
  PROVE  /\ DOMAIN calls' = Users
         /\ calls'[u].op = op /\ calls'[u].left = left
         /\ \A v \in Users : v # u => calls'[v] = calls[v]
  BY DEF Goes

\* Connections may go down while a facade is in use, and the caller whose call changes has nothing
\* to close, or still has what is up.
LEMMA UsersKeep ==
  ASSUME FacadeInv, NEW u \in Users, NEW op, NEW left, NEW error, Goes(u, op, left, error),
         UNCHANGED <<added, todo, stage, handles>>,
         open' \subseteq open,
         op # "none" => stage = "connected",
         op = "close" => left \in Seq(Nat) /\ \A k \in open' : \E n \in 1..Len(left) : left[n] = k
  PROVE  FacadeInv'
<1>1. /\ DOMAIN calls' = Users
      /\ calls'[u].op = op /\ calls'[u].left = left
      /\ \A v \in Users : v # u => calls'[v] = calls[v]
  BY GoesFacts DEF FacadeInv, StillToClose
<1>2. NothingTwice'
  BY DEF FacadeInv, NothingTwice, OneConnectionPerProtocol
<1>3. open' \subseteq DOMAIN handles'
  BY DEF FacadeInv, StillToClose
<1>4. ASSUME NEW v \in Users
      PROVE  /\ calls'[v].op # "none" => stage' = "connected"
             /\ calls'[v].op = "close" => /\ calls'[v].left \in Seq(Nat)
                                          /\ \A k \in open' : \E n \in 1..Len(calls'[v].left) : calls'[v].left[n] = k
  <2>1. CASE v = u
    BY <1>1, <2>1
  <2>2. CASE v # u
    BY <1>1, <2>2 DEF FacadeInv, StillToClose
  <2> QED BY <2>1, <2>2
<1>5. StillToClose'
  BY <1>1, <1>3, <1>4 DEF StillToClose
<1> QED BY <1>2, <1>5 DEF FacadeInv

\* A step that leaves the connections and the calls alone.
LEMMA AloneKeeps ==
  ASSUME FacadeInv, UNCHANGED <<added, handles, open, calls>>, todo' \subseteq todo,
         stage' = stage \/ stage = "connecting"
  PROVE  FacadeInv'
<1>1. NothingTwice'
  BY DEF FacadeInv, NothingTwice, OneConnectionPerProtocol
<1>2. StillToClose'
  BY DEF FacadeInv, StillToClose
<1> QED BY <1>1, <1>2 DEF FacadeInv

\* Setting up.
LEMMA ConnectKeeps ==
  ASSUME FacadeInv, Connect
  PROVE  FacadeInv'
<1>1. ASSUME NEW p \in Enabled, Connects(p) PROVE FacadeInv'
  <2>1. p \in Protocols
    BY FacadeAssumption
  <2>2. p \in todo /\ p \notin added /\ todo' = todo \ {p} /\ stage = "connecting" /\ Registers(p)
    BY <1>1 DEF Connects, NextService, FacadeInv, NothingTwice
  <2> QED BY <2>1, <2>2, RegistersKeeps
<1>2. ASSUME NEW p \in Enabled, SetupFails(p) PROVE FacadeInv'
  BY <1>2, AloneKeeps DEF SetupFails, NextService, relayerVars
<1>3. ASSUME ConnectsTunnel PROVE FacadeInv'
  <2>1. Mrp \in Protocols /\ Mrp \notin todo
    <3>1. Mrp \in Protocols /\ AirPlay \in Protocols /\ DefaultRank[Mrp] < DefaultRank[AirPlay]
          /\ DefaultRank[Mrp] \in Nat /\ DefaultRank[AirPlay] \in Nat
      BY FacadeAssumption, RelayerAssumption
    <3>2. \A q \in todo : DefaultRank[AirPlay] < DefaultRank[q]
      BY <1>3 DEF ConnectsTunnel
    <3>3. ~(DefaultRank[AirPlay] < DefaultRank[Mrp])
      BY <3>1
    <3> QED BY <3>1, <3>2, <3>3
  <2>2. Mrp \notin added /\ todo' = todo /\ stage = "connecting" /\ Registers(Mrp)
    BY <1>3 DEF ConnectsTunnel, TunnelWanted
  <2> QED BY <2>1, <2>2, RegistersKeeps
<1>4. ASSUME Connected PROVE FacadeInv'
  BY <1>4, AloneKeeps DEF Connected, relayerVars
<1> QED BY <1>1, <1>2, <1>3, <1>4 DEF Connect

\* Using and closing.
LEMMA CallsKeep ==
  ASSUME FacadeInv, NEW u \in Users, Calls(u)
  PROVE  FacadeInv'
<1>1. CASE Starts(u)
  BY <1>1, UsersKeep DEF Starts, relayerVars
<1>2. CASE StartOne(u)
  <2>1. PICK error : Goes(u, "start", Tail(calls[u].left), error)
    BY <1>2 DEF StartOne
  <2>2. stage = "connected" /\ UNCHANGED <<added, todo, stage, handles, open>>
    BY <1>2 DEF StartOne, relayerVars, FacadeInv, StillToClose
  <2> QED BY <2>1, <2>2, UsersKeep
<1>3. CASE Stops(u)
  BY <1>3, AloneKeeps DEF Stops, relayerVars
<1>4. CASE Closes(u)
  <2> DEFINE left == [k \in DOMAIN handles |-> k]
  <2>1. left \in Seq(Nat) /\ Len(left) = Len(handles)
        /\ \A k \in DOMAIN handles : k \in 1..Len(left) /\ left[k] = k
    <3>1. DOMAIN handles = 1..Len(handles) /\ Len(handles) \in Nat
      BY DEF FacadeInv, NothingTwice
    <3>2. left \in [1..Len(handles) -> Nat]
      BY <3>1
    <3>3. left \in Seq(Nat) /\ Len(left) = Len(handles)
      BY <3>1, <3>2
    <3> QED BY <3>1, <3>3
  <2>2. Goes(u, "close", left, FALSE) /\ stage = "connected"
        /\ UNCHANGED <<added, todo, stage, handles, open>>
    BY <1>4 DEF Closes, relayerVars
  <2>3. \A k \in open' : \E n \in 1..Len(left) : left[n] = k
    BY <2>1, <2>2 DEF FacadeInv, StillToClose
  <2> HIDE DEF left
  <2> QED BY <2>1, <2>2, <2>3, UsersKeep
<1>5. CASE CloseOne(u)
  <2> DEFINE old == calls[u].left
             left == Tail(old)
  <2>1. PICK error : Goes(u, "close", left, error)
    BY <1>5 DEF CloseOne
  <2>2. /\ old \in Seq(Nat) /\ old # <<>> /\ open' = open \ {Head(old)}
        /\ \A k \in open : \E n \in 1..Len(old) : old[n] = k
        /\ stage = "connected" /\ UNCHANGED <<added, todo, stage, handles>>
    BY <1>5 DEF CloseOne, relayerVars, FacadeInv, StillToClose
  <2> HIDE DEF old
  <2>3. left \in Seq(Nat) /\ Len(left) = Len(old) - 1 /\ Len(old) \in Nat /\ Head(old) = old[1]
        /\ \A n \in 1..Len(left) : left[n] = old[n + 1]
    BY <2>2
  <2>4. ASSUME NEW k \in open' PROVE \E n \in 1..Len(left) : left[n] = k
    <3>1. PICK n \in 1..Len(old) : old[n] = k
      BY <2>2
    <3>2. n # 1
      BY <2>2, <2>3, <3>1
    <3>3. n - 1 \in 1..Len(left) /\ left[n - 1] = old[(n - 1) + 1] /\ (n - 1) + 1 = n
      BY <2>3, <3>2
    <3> QED BY <3>1, <3>3
  <2> HIDE DEF left
  <2> QED BY <2>1, <2>2, <2>3, <2>4, UsersKeep
<1>6. CASE CallReturns(u)
  BY <1>6, UsersKeep DEF CallReturns, relayerVars
<1> QED BY <1>1, <1>2, <1>3, <1>4, <1>5, <1>6 DEF Calls

\* Nothing is up and nobody calls before connect.
LEMMA FacadeStarts == FacadeInit => FacadeInv
  BY DEF FacadeInit, RelayerInit, FacadeInv, NothingTwice, StillToClose, OneConnectionPerProtocol, NoCall

\* Every step keeps the invariant.
LEMMA FacadeSteps == FacadeInv /\ [FacadeNext]_facadeVars => FacadeInv'
<1> SUFFICES ASSUME FacadeInv, [FacadeNext]_facadeVars PROVE FacadeInv'
  OBVIOUS
<1>1. CASE Connect
  BY <1>1, ConnectKeeps
<1>2. CASE Claims
  <2>1. added' = added
    BY <1>2 DEF Claims, StartClaim, ClaimEnds, DropGuard, Take, Refuse, Hold, ReleaseOne, Released
  <2> QED BY <1>2, <2>1, AloneKeeps DEF Claims
<1>3. CASE \E u \in Users : Calls(u)
  BY <1>3, CallsKeep
<1>4. CASE UNCHANGED facadeVars
  BY <1>4, AloneKeeps DEF facadeVars, relayerVars
<1> QED BY <1>1, <1>2, <1>3, <1>4 DEF FacadeNext

\* connect.rs:231: whichever services a device has, whichever of them fail to set up, and with MRP on
\* its own socket or through the AirPlay tunnel, a connected facade has one connection per protocol.
THEOREM ConnectedOnce == FacadeSpec => []OneConnectionPerProtocol
<1>1. FacadeInv => OneConnectionPerProtocol
  BY DEF FacadeInv, NothingTwice
<1> QED BY <1>1, FacadeStarts, FacadeSteps, PTL DEF FacadeSpec

\* facade.rs:420, "one protocol refusing to shut down cleanly must not leave the others connected":
\* with any number of callers closing at once and any handles failing, whoever comes to the end of
\* close() leaves no connection up.
THEOREM CloseEndsAll == FacadeSpec => []ClosedMeansAll
<1>1. FacadeInv => ClosedMeansAll
  <2> SUFFICES ASSUME FacadeInv, NEW u \in Users, calls[u].op = "close", calls[u].left = <<>>
               PROVE  open = {}
    BY DEF ClosedMeansAll
  <2>1. \A k \in open : \E n \in 1..Len(calls[u].left) : calls[u].left[n] = k
    BY DEF FacadeInv, StillToClose
  <2>2. Len(calls[u].left) = 0
    OBVIOUS
  <2> QED BY <2>1, <2>2
<1> QED BY <1>1, FacadeStarts, FacadeSteps, PTL DEF FacadeSpec

\* facade.rs: whatever connect and the callers do, the relayers underneath see registrations and
\* claims only, so all that holds of the relayers alone holds of them in a facade.
THEOREM FacadeUsesRelayers == FacadeSpec => RelayerSpec
<1>1. FacadeInit => RelayerInit
  BY DEF FacadeInit
<1>2. [FacadeNext]_facadeVars => [RelayerNext]_relayerVars
  <2> SUFFICES ASSUME [FacadeNext]_facadeVars PROVE [RelayerNext]_relayerVars
    OBVIOUS
  <2>1. ASSUME NEW p \in Protocols, Registers(p) PROVE [RelayerNext]_relayerVars
    BY <2>1 DEF Registers, RelayerNext
  <2>2. CASE Connect
    <3>1. \A p \in Enabled : p \in Protocols
      BY FacadeAssumption
    <3>2. Mrp \in Protocols
      BY FacadeAssumption
    <3> QED BY <2>1, <2>2, <3>1, <3>2 DEF Connect, Connects, SetupFails, ConnectsTunnel, Connected
  <2>3. CASE Claims
    BY <2>3 DEF Claims, RelayerNext
  <2>4. CASE \E u \in Users : Calls(u)
    BY <2>4 DEF Calls, Starts, StartOne, Stops, Closes, CloseOne, CallReturns
  <2>5. CASE UNCHANGED facadeVars
    BY <2>5 DEF facadeVars
  <2> QED BY <2>2, <2>3, <2>4, <2>5 DEF FacadeNext
<1> QED BY <1>1, <1>2, PTL DEF FacadeSpec, RelayerSpec

\* takeover.rs:98 and facade.rs:241, of the relayers of a facade.
COROLLARY FacadeRelaysFaithfully == FacadeSpec => [](TakenByItsGuard /\ FeatureAnsweredByCallee)
  BY FacadeUsesRelayers, TakenByItsGuardAlways, AskedIsCalled, PTL
-----------------------------------------------------------------------------
(* The push updaters a facade starts.                                       *)

\* Any finite number of places can be put in a strict order of them.
LEMMA SortedPlaces ==
  ASSUME NEW n \in Nat, NEW R,
         \A a, b \in 1..n : a # b => (<<a, b>> \in R \/ <<b, a>> \in R),
         \A a, b \in 1..n : <<a, b>> \in R => <<b, a>> \notin R,
         \A a, b, c \in 1..n : <<a, b>> \in R /\ <<b, c>> \in R => <<a, c>> \in R
  PROVE  \E P \in [1..n -> 1..n] : \A i, j \in 1..n : i < j => <<P[i], P[j]>> \in R
<1> DEFINE upTo(a) == {b \in 1..n : b = a \/ <<b, a>> \in R}
           place == [a \in 1..n |-> Cardinality(upTo(a))]
           P == [i \in 1..n |-> CHOOSE a \in 1..n : place[a] = i]
<1>1. IsFiniteSet(1..n) /\ Cardinality(1..n) = n
  BY FS_Interval
<1>2. ASSUME NEW a \in 1..n PROVE IsFiniteSet(upTo(a)) /\ Cardinality(upTo(a)) \in 1..n
  <2>1. upTo(a) \subseteq 1..n /\ a \in upTo(a)
    OBVIOUS
  <2> HIDE DEF upTo
  <2>2. IsFiniteSet(upTo(a)) /\ Cardinality(upTo(a)) \in Nat /\ Cardinality(upTo(a)) <= n
    BY <1>1, <2>1, FS_Subset, FS_CardinalityType
  <2>3. Cardinality(upTo(a)) # 0
    BY <2>1, <2>2, FS_EmptySet
  <2> QED BY <2>2, <2>3
<1>3. ASSUME NEW a \in 1..n, NEW b \in 1..n, <<a, b>> \in R PROVE place[a] < place[b]
  <2>1. upTo(a) \subseteq upTo(b)
    BY <1>3
  <2>2. b \in upTo(b) /\ b \notin upTo(a)
    BY <1>3
  <2> HIDE DEF upTo
  <2>3. /\ Cardinality(upTo(a)) <= Cardinality(upTo(b))
        /\ Cardinality(upTo(b)) = Cardinality(upTo(a)) => upTo(b) = upTo(a)
    BY <1>2, <2>1, FS_Subset
  <2>4. Cardinality(upTo(a)) < Cardinality(upTo(b))
    BY <1>2, <2>2, <2>3
  <2> QED BY <2>4
<1>4. place \in [1..n -> 1..n]
  BY <1>2
<1> HIDE DEF place, upTo
<1>5. place \in Injection(1..n, 1..n)
  <2>1. ASSUME NEW a \in 1..n, NEW b \in 1..n, place[a] = place[b] PROVE a = b
    <3>1. place[a] \in Int /\ place[b] \in Int
      BY <1>4
    <3>2. ~(<<a, b>> \in R) /\ ~(<<b, a>> \in R)
      <4>1. <<a, b>> \in R => place[a] < place[b]
        BY <1>3
      <4>2. <<b, a>> \in R => place[b] < place[a]
        BY <1>3
      <4> QED BY <2>1, <3>1, <4>1, <4>2
    <3> QED BY <3>2
  <2> QED BY <1>4, <2>1 DEF Injection, IsInjective
<1>6. \A i \in 1..n : \E a \in 1..n : place[a] = i
  <2>1. place \in Surjection(1..n, 1..n)
    BY <1>1, <1>5, FS_Injection
  <2> QED BY <2>1 DEF Surjection
<1>7. \A i \in 1..n : P[i] \in 1..n /\ place[P[i]] = i
  BY <1>6
<1>8. P \in [1..n -> 1..n]
  BY <1>7
<1> HIDE DEF P
<1>9. ASSUME NEW i \in 1..n, NEW j \in 1..n, i < j PROVE <<P[i], P[j]>> \in R
  <2>1. P[i] \in 1..n /\ P[j] \in 1..n /\ place[P[i]] = i /\ place[P[j]] = j
    BY <1>7
  <2>2. ~(<<P[j], P[i]>> \in R)
    <3>1. <<P[j], P[i]>> \in R => j < i
      BY <1>3, <2>1
    <3> QED BY <1>9, <3>1
  <2>3. P[i] # P[j]
    BY <1>9, <2>1
  <2> QED BY <2>1, <2>2, <2>3
<1> QED BY <1>8, <1>9

\* search_order ranks any two protocols, and ranks them consistently.
LEMMA BeforeOrders ==
  ASSUME NEW i \in Interfaces, NEW p \in Protocols, NEW q \in Protocols, NEW r \in Protocols
  PROVE  /\ Before(i, p, q) \/ Before(i, q, p)
         /\ Before(i, p, q) /\ Before(i, q, r) => Before(i, p, r)
<1>1. RankOf[i][p] \in Nat /\ RankOf[i][q] \in Nat /\ RankOf[i][r] \in Nat
  BY RelayerAssumption
<1> QED BY <1>1 DEF Before

\* instances(): the protocols registered for the interface and no others, in their order.
LEMMA UpdatersAreRegistered ==
  ASSUME registered[PushUpdater] \subseteq Protocols, IsFiniteSet(registered[PushUpdater])
  PROVE  Updaters \in Seq(registered[PushUpdater])
<1> DEFINE S == registered[PushUpdater]
           n == Cardinality(S)
           before(p, q) == Before(PushUpdater, p, q)
           sorted(s) == \A i, j \in DOMAIN s : i < j => s[i] # s[j] /\ before(s[i], s[j])
<1>1. n \in Nat /\ ExistsBijection(1..n, S)
  BY FS_CardinalityType
<1>2. Updaters = CHOOSE s \in [1..n -> S] : sorted(s)
  BY DEF Updaters
<1>3. PICK g \in [1..n -> S] : \A a, b \in 1..n : g[a] = g[b] => a = b
  BY <1>1 DEF ExistsBijection, Bijection, Injection, IsInjective
<1>4. \A a, b, c \in 1..n : /\ before(g[a], g[b]) \/ before(g[b], g[a])
                            /\ before(g[a], g[b]) /\ before(g[b], g[c]) => before(g[a], g[c])
  <2>1. PushUpdater \in Interfaces
    BY FacadeAssumption
  <2>2. \A a \in 1..n : g[a] \in Protocols
    BY <1>3
  <2> HIDE DEF S, n
  <2> QED BY <2>1, <2>2, BeforeOrders
<1> HIDE DEF S, n, before, sorted
<1> DEFINE R == {ab \in (1..n) \X (1..n) :
                   /\ ab[1] # ab[2] /\ before(g[ab[1]], g[ab[2]])
                   /\ before(g[ab[2]], g[ab[1]]) => ab[1] < ab[2]}
<1>5. \A a, b \in 1..n : <<a, b>> \in R <=> /\ a # b /\ before(g[a], g[b])
                                            /\ before(g[b], g[a]) => a < b
  OBVIOUS
<1> HIDE DEF R
<1>6. \A a, b \in 1..n : a # b => (<<a, b>> \in R \/ <<b, a>> \in R)
  BY <1>1, <1>4, <1>5
<1>7. \A a, b \in 1..n : <<a, b>> \in R => <<b, a>> \notin R
  BY <1>1, <1>4, <1>5
<1>8. \A a, b, c \in 1..n : <<a, b>> \in R /\ <<b, c>> \in R => <<a, c>> \in R
  <2> SUFFICES ASSUME NEW a \in 1..n, NEW b \in 1..n, NEW c \in 1..n, <<a, b>> \in R, <<b, c>> \in R
               PROVE  <<a, c>> \in R
    OBVIOUS
  <2>1. /\ before(g[a], g[b]) /\ (before(g[b], g[a]) => a < b)
        /\ before(g[b], g[c]) /\ (before(g[c], g[b]) => b < c)
    BY <1>5
  <2>2. before(g[a], g[c])
    BY <1>4, <2>1
  <2>3. before(g[c], g[a]) => a < b /\ b < c
    BY <1>4, <2>1
  <2>4. a # c /\ (before(g[c], g[a]) => a < c)
    <3>1. a = c => a < b /\ b < c
      BY <2>1
    <3> QED BY <2>3, <3>1
  <2> QED BY <1>5, <2>2, <2>4
<1>9. PICK P \in [1..n -> 1..n] : \A i, j \in 1..n : i < j => <<P[i], P[j]>> \in R
  BY <1>1, <1>6, <1>7, <1>8, SortedPlaces
<1> DEFINE list == [i \in 1..n |-> g[P[i]]]
<1>10. list \in [1..n -> S]
  BY <1>3, <1>9
<1>11. sorted(list)
  <2> SUFFICES ASSUME NEW i \in 1..n, NEW j \in 1..n, i < j
               PROVE  list[i] # list[j] /\ before(list[i], list[j])
    BY DEF sorted
  <2>1. P[i] \in 1..n /\ P[j] \in 1..n /\ <<P[i], P[j]>> \in R
    BY <1>9
  <2>2. P[i] # P[j] /\ before(g[P[i]], g[P[j]])
    BY <1>5, <2>1
  <2>3. g[P[i]] # g[P[j]]
    BY <1>3, <2>1, <2>2
  <2> QED BY <2>2, <2>3
<1> HIDE DEF list
<1>12. Updaters \in [1..n -> S]
  BY <1>2, <1>10, <1>11
<1> QED BY <1>1, <1>12 DEF S

\* A caller that starts updaters starts those of registered protocols.
Active ==
  /\ IsFiniteSet(added)
  /\ \A i \in Interfaces : registered[i] \subseteq added
  /\ stage \in {"connecting", "connected", "failed"}
  /\ running \subseteq added
  /\ \A u \in Users : /\ calls[u].op \in {"none", "start", "close"}
                      /\ calls[u].op = "start" => calls[u].left \in Seq(added)

\* Nothing runs before connect.
LEMMA ActiveStarts == FacadeInit => Active
  BY FS_EmptySet DEF FacadeInit, RelayerInit, Active, NoCall

\* One more protocol.
LEMMA RegistersActive ==
  ASSUME RelayerTypeOK, FacadeInv, Active, NEW p \in Protocols, Registers(p), stage = "connecting"
  PROVE  Active'
<1>1. UNCHANGED <<stage, calls, running>>
  BY DEF Registers
<1>2. added \subseteq added' /\ IsFiniteSet(added') /\ \A i \in Interfaces : registered'[i] \subseteq added'
  <2>1. CASE p \in added
    BY <2>1 DEF Registers, relayerVars, Active
  <2>2. CASE p \notin added
    <3>1. /\ added' = added \cup {p}
          /\ registered' = [i \in Interfaces |->
                              IF i \in Offers[p].interfaces THEN registered[i] \cup {p} ELSE registered[i]]
      BY <2>2 DEF Registers, AddProtocol
    <3> QED BY <3>1, FS_AddElement DEF Active
  <2> QED BY <2>1, <2>2
<1>3. \A u \in Users : calls[u].op # "start"
  BY DEF FacadeInv, StillToClose
<1> QED BY <1>1, <1>2, <1>3 DEF Active

\* A caller's call changes.
LEMMA GoesActive ==
  ASSUME FacadeInv, Active, NEW u \in Users, NEW op \in {"none", "start", "close"}, NEW left, NEW error,
         Goes(u, op, left, error), UNCHANGED <<added, registered, stage>>,
         op = "start" => left \in Seq(added), running' \subseteq added
  PROVE  Active'
<1>1. /\ calls'[u].op = op /\ calls'[u].left = left
      /\ \A v \in Users : v # u => calls'[v] = calls[v]
  BY GoesFacts DEF FacadeInv, StillToClose
<1>2. ASSUME NEW v \in Users
      PROVE  /\ calls'[v].op \in {"none", "start", "close"}
             /\ calls'[v].op = "start" => calls'[v].left \in Seq(added)
  BY <1>1 DEF Active
<1> QED BY <1>2 DEF Active

\* A step that changes neither the registrations nor the calls.
LEMMA AloneActive ==
  ASSUME Active, UNCHANGED <<added, registered, calls>>, running' \subseteq added,
         stage' \in {"connecting", "connected", "failed"}
  PROVE  Active'
  BY DEF Active

\* Every step keeps the updaters to those of registered protocols.
LEMMA ActiveSteps == RelayerTypeOK /\ FacadeInv /\ Active /\ [FacadeNext]_facadeVars => Active'
<1> SUFFICES ASSUME RelayerTypeOK, FacadeInv, Active, [FacadeNext]_facadeVars PROVE Active'
  OBVIOUS
<1>1. CASE Connect
  <2>1. Mrp \in Protocols /\ \A p \in Enabled : p \in Protocols
    BY FacadeAssumption
  <2>2. ASSUME NEW p \in Enabled, Connects(p) PROVE Active'
    BY <2>1, <2>2, RegistersActive DEF Connects, NextService
  <2>3. ASSUME NEW p \in Enabled, SetupFails(p) PROVE Active'
    BY <2>3 DEF SetupFails, relayerVars, Active
  <2>4. ASSUME ConnectsTunnel PROVE Active'
    BY <2>1, <2>4, RegistersActive DEF ConnectsTunnel
  <2>5. ASSUME Connected PROVE Active'
    BY <2>5 DEF Connected, relayerVars, Active
  <2> QED BY <1>1, <2>2, <2>3, <2>4, <2>5 DEF Connect
<1>2. CASE Claims
  <2>1. added' = added /\ registered' = registered
    BY <1>2 DEF Claims, StartClaim, ClaimEnds, DropGuard, Take, Refuse, Hold, ReleaseOne, Released
  <2> QED BY <1>2, <2>1 DEF Claims, Active
<1>3. ASSUME NEW u \in Users, Calls(u) PROVE Active'
  <2>1. CASE Starts(u)
    <3>1. PushUpdater \in Interfaces
      BY FacadeAssumption
    <3>2. registered[PushUpdater] \subseteq Protocols /\ registered[PushUpdater] \subseteq added
      BY <3>1 DEF RelayerTypeOK, Active
    <3>3. IsFiniteSet(registered[PushUpdater])
      BY <3>2, FS_Subset DEF Active
    <3>4. Updaters \in Seq(added)
      BY <3>2, <3>3, UpdatersAreRegistered
    <3>5. Goes(u, "start", Updaters, FALSE) /\ UNCHANGED <<added, registered, stage, running>>
      BY <2>1 DEF Starts, relayerVars
    <3> QED BY <3>4, <3>5, GoesActive DEF Active
  <2>2. CASE StartOne(u)
    <3>1. PICK error : Goes(u, "start", Tail(calls[u].left), error)
      BY <2>2 DEF StartOne
    <3>2. calls[u].left \in Seq(added) /\ calls[u].left # <<>>
      BY <2>2 DEF StartOne, Active
    <3>3. Tail(calls[u].left) \in Seq(added) /\ Head(calls[u].left) \in added
      BY <3>2
    <3>4. running' \subseteq added /\ UNCHANGED <<added, registered, stage>>
      BY <2>2, <3>3 DEF StartOne, relayerVars, Active
    <3> QED BY <3>1, <3>3, <3>4, GoesActive
  <2>3. CASE Stops(u)
    BY <2>3 DEF Stops, StopAll, relayerVars, Active
  <2>4. CASE Closes(u)
    <3>1. running' \subseteq added
      BY <2>4 DEF Closes, StopAll, Active
    <3>2. PICK left : Goes(u, "close", left, FALSE)
      BY <2>4 DEF Closes
    <3>3. UNCHANGED <<added, registered, stage>>
      BY <2>4 DEF Closes, relayerVars
    <3> QED BY <3>1, <3>2, <3>3, GoesActive
  <2>5. CASE CloseOne(u)
    <3>1. PICK error : Goes(u, "close", Tail(calls[u].left), error)
      BY <2>5 DEF CloseOne
    <3>2. UNCHANGED <<added, registered, stage, running>>
      BY <2>5 DEF CloseOne, relayerVars
    <3> QED BY <3>1, <3>2, GoesActive DEF Active
  <2>6. CASE CallReturns(u)
    <3>1. Goes(u, "none", <<>>, FALSE) /\ UNCHANGED <<added, registered, stage, running>>
      BY <2>6 DEF CallReturns, relayerVars
    <3> QED BY <3>1, GoesActive DEF Active
  <2> QED BY <1>3, <2>1, <2>2, <2>3, <2>4, <2>5, <2>6 DEF Calls
<1>4. CASE UNCHANGED facadeVars
  BY <1>4 DEF facadeVars, relayerVars, Active
<1> QED BY <1>1, <1>2, <1>3, <1>4 DEF FacadeNext

\* facade/playback.rs and facade.rs: whoever starts and stops the updaters while protocols register,
\* only updaters of registered protocols run; and connections, calls and claims take the values they should.
THEOREM FacadeTypes == FacadeSpec => []FacadeTypeOK
<1>1. RelayerTypeOK /\ FacadeInv /\ Active => FacadeTypeOK
  BY DEF FacadeInv, NothingTwice, StillToClose, Active, FacadeTypeOK
<1>2. FacadeSpec => []RelayerTypeOK
  BY FacadeUsesRelayers, RelayerTypeCorrect, PTL
<1> QED BY <1>1, <1>2, FacadeStarts, FacadeSteps, ActiveStarts, ActiveSteps, PTL DEF FacadeSpec
-----------------------------------------------------------------------------
(* The listener hub.                                                        *)

\* Whose report is about to be told, with this value on that side.
Tellers(r, side, k, v) ==
  {p \in Protocols : r[p].at = "telling" /\ r[p].kind = k /\ r[p][side] = v}

Report == [at : {"none", "asked", "telling"}, kind : Kinds \cup {None}, old : Values, new : Values]

\* A report under way is about a kind, and is told only if it changes something.
HubShape ==
  /\ tracked \in [Kinds -> Values]
  /\ balance \in [Kinds -> [Values -> Int]]
  /\ reports \in [Protocols -> Report]
  /\ \A p \in Protocols :
        /\ reports[p].at # "none" => reports[p].kind \in Kinds
        /\ reports[p].at = "telling" => reports[p].old # reports[p].new

HubInv == HubShape /\ ChangesChain

\* As numbers: whether two are the same, whether one is in a set.
Same(x, y) == IF x = y THEN 1 ELSE 0
In(x, S) == IF x \in S THEN 1 ELSE 0

\* When one report changes, the tellers change by that one at most.
LEMMA OneTeller ==
  ASSUME NEW r, NEW s, NEW p \in Protocols, \A q \in Protocols : q # p => s[q] = r[q],
         NEW side, NEW k, NEW v
  PROVE  /\ Cardinality(Tellers(r, side, k, v)) \in Nat /\ Cardinality(Tellers(s, side, k, v)) \in Nat
         /\ Cardinality(Tellers(s, side, k, v)) + In(p, Tellers(r, side, k, v))
              = Cardinality(Tellers(r, side, k, v)) + In(p, Tellers(s, side, k, v))
<1> DEFINE R == Tellers(r, side, k, v)
           S == Tellers(s, side, k, v)
<1>1. R \subseteq Protocols /\ S \subseteq Protocols /\ IsFiniteSet(Protocols)
  BY HubAssumption DEF Tellers
<1>2. IsFiniteSet(R) /\ IsFiniteSet(S)
  BY <1>1, FS_Subset
<1>3. R \ {p} = S \ {p}
  BY DEF Tellers
<1> HIDE DEF R, S
<1>4. /\ Cardinality(R \ {p}) = IF p \in R THEN Cardinality(R) - 1 ELSE Cardinality(R)
      /\ Cardinality(S \ {p}) = IF p \in S THEN Cardinality(S) - 1 ELSE Cardinality(S)
  BY <1>2, FS_RemoveElement
<1>5. Cardinality(R) \in Nat /\ Cardinality(S) \in Nat
  BY <1>2, FS_CardinalityType
<1>6. Cardinality(S) + In(p, R) = Cardinality(R) + In(p, S)
  BY <1>3, <1>4, <1>5 DEF Same, In
<1> QED BY <1>5, <1>6 DEF R, S

Telling(r, k, v) == Cardinality(Tellers(r, "new", k, v)) - Cardinality(Tellers(r, "old", k, v))

\* The chain, said of the variables one by one.
ChainOf(b, r, t) ==
  \A k \in Kinds, v \in Values : b[k][v] + Telling(r, k, v) = Same(v, t[k]) - Same(v, Initial)

\* It says what ChangesChain says, of this state and of the next.
LEMMA ChainCounts == ChangesChain <=> ChainOf(balance, reports, tracked)
  BY DEF ChangesChain, ChainOf, Pending, Telling, Tellers, Same, In

\* The same of the next state.
LEMMA ChainCountsNext == ChangesChain' <=> ChainOf(balance', reports', tracked')
  BY DEF ChangesChain, ChainOf, Pending, Telling, Tellers, Same, In

\* How much a report counts for a value: once if it is about to tell it is this now, less once if
\* it is about to tell it is no more.
Weight(r, k, v) ==
  IF r.at = "telling" /\ r.kind = k THEN Same(r.new, v) - Same(r.old, v) ELSE 0

\* What is about to be told of a value moves by the weights of the report that changes.
LEMMA TellingMoves ==
  ASSUME NEW f, NEW p \in Protocols, NEW r, NEW g,
         g[p] = r, \A q \in Protocols : q # p => g[q] = f[q],
         NEW k, NEW v
  PROVE  /\ Telling(f, k, v) \in Int /\ Telling(g, k, v) \in Int
         /\ Telling(g, k, v) = Telling(f, k, v) + Weight(r, k, v) - Weight(f[p], k, v)
<1>1. g[p] = r /\ \A q \in Protocols : q # p => g[q] = f[q]
  OBVIOUS
<1>2. ASSUME NEW side
      PROVE  /\ Cardinality(Tellers(f, side, k, v)) \in Nat
             /\ Cardinality(Tellers(g, side, k, v)) \in Nat
             /\ Cardinality(Tellers(g, side, k, v)) + In(p, Tellers(f, side, k, v))
                  = Cardinality(Tellers(f, side, k, v)) + In(p, Tellers(g, side, k, v))
  <2>1. \A q \in Protocols : q # p => g[q] = f[q]
    BY <1>1
  <2> QED BY ONLY <2>1, OneTeller, SMT
<1> DEFINE newF == Tellers(f, "new", k, v)
           newG == Tellers(g, "new", k, v)
           oldF == Tellers(f, "old", k, v)
           oldG == Tellers(g, "old", k, v)
<1>3. /\ Weight(r, k, v) = In(p, newG) - In(p, oldG)
      /\ Weight(f[p], k, v) = In(p, newF) - In(p, oldF)
  BY <1>1 DEF Weight, Same, In, Tellers
<1>4. /\ Cardinality(newF) \in Nat /\ Cardinality(newG) \in Nat
      /\ Cardinality(oldF) \in Nat /\ Cardinality(oldG) \in Nat
      /\ Cardinality(newG) + In(p, newF) = Cardinality(newF) + In(p, newG)
      /\ Cardinality(oldG) + In(p, oldF) = Cardinality(oldF) + In(p, oldG)
  BY <1>2
<1>5. /\ Telling(f, k, v) = Cardinality(newF) - Cardinality(oldF)
      /\ Telling(g, k, v) = Cardinality(newG) - Cardinality(oldG)
  BY DEF Telling
<1>6. \A x, y : Same(x, y) \in {0, 1} /\ In(x, y) \in {0, 1}
  BY DEF Same, In
<1> HIDE DEF newF, newG, oldF, oldG
<1> QED BY <1>3, <1>4, <1>5, <1>6

\* What the listeners were told, what they are about to be told and what the hub answers with
\* move together when report q becomes r.
Together(b, c, q, r, t, u) ==
  \A k \in Kinds, v \in Values :
     c[k][v] + Weight(r, k, v) + Same(v, t[k]) = b[k][v] + Weight(q, k, v) + Same(v, u[k])

\* One report of them all is replaced.
Replaced(f, g, p, r) == g[p] = r /\ \A q \in Protocols : q # p => g[q] = f[q]

\* A step of one report keeps the chain if they do.
LEMMA ChainMoves ==
  ASSUME NEW b \in [Kinds -> [Values -> Int]], NEW c \in [Kinds -> [Values -> Int]],
         NEW f, NEW p \in Protocols, NEW r, NEW g,
         Replaced(f, g, p, r),
         NEW t, NEW u, ChainOf(b, f, t), Together(b, c, f[p], r, t, u)
  PROVE  ChainOf(c, g, u)
<1> SUFFICES ASSUME NEW k \in Kinds, NEW v \in Values
             PROVE  c[k][v] + Telling(g, k, v) = Same(v, u[k]) - Same(v, Initial)
  BY DEF ChainOf
<1>1. b[k][v] + Telling(f, k, v) = Same(v, t[k]) - Same(v, Initial)
  BY DEF ChainOf
<1>2. /\ Telling(f, k, v) \in Int /\ Telling(g, k, v) \in Int
      /\ Telling(g, k, v) = Telling(f, k, v) + Weight(r, k, v) - Weight(f[p], k, v)
  <2>1. g[p] = r /\ \A q \in Protocols : q # p => g[q] = f[q]
    BY DEF Replaced
  <2> QED BY ONLY <2>1, TellingMoves, SMT
<1>3. b[k][v] \in Int /\ c[k][v] \in Int
  OBVIOUS
<1>4. Weight(r, k, v) \in Int /\ Weight(f[p], k, v) \in Int
  BY DEF Weight, Same, In
<1>5. c[k][v] + Weight(r, k, v) + Same(v, t[k]) = b[k][v] + Weight(f[p], k, v) + Same(v, u[k])
  BY DEF Together
<1>6. Same(v, t[k]) \in Int /\ Same(v, u[k]) \in Int /\ Same(v, Initial) \in Int
  BY DEF Same
<1>7. PICK n \in Int, x \in Int, y \in Int, w \in Int, z \in Int :
        /\ n = b[k][v] /\ x = Telling(f, k, v) /\ y = Telling(g, k, v)
        /\ w = Weight(r, k, v) /\ z = Weight(f[p], k, v)
  BY ONLY <1>2, <1>3, <1>4
<1>8. PICK m \in Int, s \in Int, l \in Int, i \in Int :
        m = c[k][v] /\ s = Same(v, t[k]) /\ l = Same(v, u[k]) /\ i = Same(v, Initial)
  BY ONLY <1>3, <1>6
<1>9. n + x = s - i /\ y = x + w - z /\ m + w + s = n + z + l
  BY ONLY <1>1, <1>2, <1>5, <1>7, <1>8
<1>10. m + y = l - i
  BY ONLY <1>9
<1> QED BY ONLY <1>7, <1>8, <1>10

\* The same, of the variables of the hub.
LEMMA ReportMoves ==
  ASSUME HubShape, ChangesChain, NEW p \in Protocols, NEW r, reports' = [reports EXCEPT ![p] = r],
         balance' \in [Kinds -> [Values -> Int]],
         Together(balance, balance', reports[p], r, tracked, tracked')
  PROVE  ChangesChain'
<1>1. Replaced(reports, reports', p, r) /\ balance \in [Kinds -> [Values -> Int]]
  BY DEF HubShape, Replaced
<1>2. ChainOf(balance, reports, tracked)
  BY ChainCounts
<1>3. ChainOf(balance', reports', tracked')
  BY <1>1, <1>2, ChainMoves
<1> QED BY <1>3, ChainCountsNext

\* The hub's variables keep their shape when one report is replaced by a proper one.
LEMMA ShapeMoves ==
  ASSUME HubShape, NEW p \in Protocols, NEW r \in Report, reports' = [reports EXCEPT ![p] = r],
         r.at # "none" => r.kind \in Kinds,
         r.at = "telling" => r.old # r.new,
         tracked' \in [Kinds -> Values], balance' \in [Kinds -> [Values -> Int]]
  PROVE  HubShape'
<1>1. reports' \in [Protocols -> Report]
  BY DEF HubShape
<1>2. reports'[p] = r /\ \A q \in Protocols : q # p => reports'[q] = reports[q]
  BY DEF HubShape
<1> QED BY <1>1, <1>2 DEF HubShape

\* No report weighs nothing.
LEMMA NoReportShape ==
  NoReport \in Report /\ NoReport.at = "none" /\ \A k, v : Weight(NoReport, k, v) = 0
  BY HubAssumption DEF NoReport, Report, Weight

\* A report that begins tells nothing yet.
LEMMA ReportsKeeps ==
  ASSUME HubInv, NEW p \in Protocols, NEW k \in Kinds, NEW v \in Values, Reports(p, k, v)
  PROVE  HubInv'
<1> DEFINE r == [at |-> "asked", kind |-> k, old |-> tracked[k], new |-> v]
<1>1. reports' = [reports EXCEPT ![p] = r] /\ tracked' = tracked /\ balance' = balance
      /\ reports[p] = NoReport
  BY DEF Reports
<1>2. r \in Report /\ r.kind \in Kinds /\ r.at = "asked" /\ \A j, w : Weight(r, j, w) = 0
  BY DEF HubInv, HubShape, Report, Weight
<1>3. tracked' \in [Kinds -> Values] /\ balance' \in [Kinds -> [Values -> Int]]
  BY <1>1 DEF HubInv, HubShape
<1> HIDE DEF r
<1>4. HubShape'
  BY <1>1, <1>2, <1>3, ShapeMoves DEF HubInv
<1>5. Together(balance, balance', reports[p], r, tracked, tracked')
  BY <1>1, <1>2, NoReportShape DEF Together
<1>6. ChangesChain'
  BY <1>1, <1>3, <1>5, ReportMoves DEF HubInv
<1> QED BY <1>4, <1>6 DEF HubInv

\* What is stored is what will be told, from the value the hub had until now.
LEMMA StoresKeeps ==
  ASSUME HubInv, NEW p \in Protocols, Stores(p)
  PROVE  HubInv'
<1> DEFINE old == reports[p]
           x == old.kind
           n == old.new
<1>1. old.at = "asked" /\ old \in Report /\ x \in Kinds /\ n \in Values /\ balance' = balance
      /\ DOMAIN reports = Protocols
  BY DEF Stores, HubInv, HubShape, Report
<1>2. \A k, v : Weight(old, k, v) = 0
  BY <1>1 DEF Weight
<1>3. tracked \in [Kinds -> Values] /\ balance' \in [Kinds -> [Values -> Int]]
  BY <1>1 DEF HubInv, HubShape
<1>4. CASE tracked[x] = n
  <2>1. reports' = [reports EXCEPT ![p] = NoReport] /\ tracked' = tracked
    BY <1>4 DEF Stores, Current
  <2>2. HubShape'
    BY <1>3, <2>1, NoReportShape, ShapeMoves DEF HubInv
  <2>3. Together(balance, balance', reports[p], NoReport, tracked, tracked')
    BY <1>1, <1>2, <2>1, NoReportShape DEF Together
  <2>4. ChangesChain'
    BY <1>3, <2>1, <2>3, ReportMoves DEF HubInv
  <2> QED BY <2>2, <2>4 DEF HubInv
<1>5. CASE tracked[x] # n
  <2> DEFINE r == [at |-> "telling", kind |-> x, old |-> tracked[x], new |-> n]
  <2>1. tracked' = [tracked EXCEPT ![x] = n]
    BY <1>5 DEF Stores, Current
  <2>2. reports' = [reports EXCEPT ![p] = r]
    BY <1>1, <1>5 DEF Stores, Current, Report
  <2>3. r \in Report /\ r.kind \in Kinds /\ r.old # r.new
    BY <1>1, <1>3, <1>5 DEF Report
  <2>4. tracked' \in [Kinds -> Values]
    BY <1>1, <1>3, <2>1
  <2>5. ASSUME NEW k \in Kinds, NEW v \in Values
        PROVE  Weight(r, k, v) + Same(v, tracked[k]) = Same(v, tracked'[k])
    <3>1. CASE k = x
      BY <1>1, <1>3, <1>5, <2>1, <3>1 DEF Weight, Same, In
    <3>2. CASE k # x
      BY <1>1, <1>3, <2>1, <3>2 DEF Weight, Same, In
    <3> QED BY <3>1, <3>2
  <2>6. HubShape'
    <3> HIDE DEF r
    <3> QED BY <1>3, <2>2, <2>3, <2>4, ShapeMoves DEF HubInv
  <2>7. ASSUME NEW k \in Kinds, NEW v \in Values
        PROVE  balance'[k][v] + Weight(r, k, v) + Same(v, tracked[k])
                 = balance[k][v] + Weight(old, k, v) + Same(v, tracked'[k])
    <3>1. balance'[k][v] = balance[k][v] /\ balance[k][v] \in Int
      BY <1>1 DEF HubInv, HubShape
    <3>2. Weight(r, k, v) \in Int /\ Weight(old, k, v) = 0
      BY <1>2 DEF Weight, Same, In
    <3> HIDE DEF r
    <3> QED BY <2>5, <3>1, <3>2 DEF Same, In
  <2>8. ChangesChain'
    <3> HIDE DEF r
    <3>1. Together(balance, balance', reports[p], r, tracked, tracked')
      BY <2>7 DEF Together
    <3> QED BY <1>3, <2>2, <3>1, ReportMoves DEF HubInv
  <2> QED BY <2>6, <2>8 DEF HubInv
<1> QED BY <1>4, <1>5

\* What is told moves from what will be told to what was told.
LEMMA TellsKeeps ==
  ASSUME HubInv, NEW p \in Protocols, Tells(p)
  PROVE  HubInv'
<1> DEFINE old == reports[p]
<1>1. old \in Report /\ old.at = "telling" /\ old.kind \in Kinds /\ old.old # old.new
  BY DEF Tells, HubInv, HubShape
<1>2. /\ reports' = [reports EXCEPT ![p] = NoReport] /\ tracked' = tracked
      /\ balance' = Moved(balance, old)
  BY DEF Tells
<1>3. old.old \in Values /\ old.new \in Values
  BY <1>1 DEF Report
<1> HIDE DEF old
<1> DEFINE row == [v \in Values |-> balance[old.kind][v] + (IF v = old.new THEN 1 ELSE 0)
                                                     - (IF v = old.old THEN 1 ELSE 0)]
<1>4. balance[old.kind] \in [Values -> Int] /\ balance \in [Kinds -> [Values -> Int]]
  BY <1>1 DEF HubInv, HubShape
<1>5. row \in [Values -> Int]
      /\ \A v \in Values : row[v] = balance[old.kind][v] + Same(old.new, v) - Same(old.old, v)
  BY <1>1, <1>3, <1>4 DEF Same, In
<1>6. balance' = [balance EXCEPT ![old.kind] = row]
  BY <1>2 DEF Moved
<1> HIDE DEF row
<1>7. balance' \in [Kinds -> [Values -> Int]] /\ tracked' \in [Kinds -> Values]
  BY <1>1, <1>2, <1>4, <1>5, <1>6 DEF HubInv, HubShape
<1>8. ASSUME NEW k \in Kinds, NEW v \in Values
      PROVE  balance'[k][v] = balance[k][v] + Weight(old, k, v)
  <2>0. balance[k][v] \in Int
    BY <1>4
  <2>1. CASE k = old.kind
    <3>1. balance'[k][v] = row[v]
      BY <1>4, <1>6, <2>1
    <3>2. Weight(old, k, v) = Same(old.new, v) - Same(old.old, v)
      BY <1>1, <2>1 DEF Weight
    <3>3. row[v] = balance[k][v] + Same(old.new, v) - Same(old.old, v)
      BY <1>5, <2>1
    <3> QED BY <2>0, <3>1, <3>2, <3>3 DEF Same, In
  <2>2. CASE k # old.kind
    <3>1. balance'[k] = balance[k] /\ Weight(old, k, v) = 0
      BY <1>4, <1>6, <2>2 DEF Weight
    <3> QED BY <2>0, <3>1
  <2> QED BY <2>1, <2>2
<1>9. HubShape'
  BY <1>2, <1>7, NoReportShape, ShapeMoves DEF HubInv
<1>10. ASSUME NEW k \in Kinds, NEW v \in Values
       PROVE  balance'[k][v] + Weight(NoReport, k, v) + Same(v, tracked[k])
                = balance[k][v] + Weight(reports[p], k, v) + Same(v, tracked'[k])
  <2>1. balance'[k][v] = balance[k][v] + Weight(old, k, v) /\ Weight(NoReport, k, v) = 0
        /\ tracked' = tracked /\ old = reports[p]
    BY <1>2, <1>8, NoReportShape DEF old
  <2>2. balance[k][v] \in Int /\ Weight(old, k, v) \in Int /\ Same(v, tracked[k]) \in Int
    BY <1>4 DEF Weight, Same, In
  <2> QED BY <2>1, <2>2
<1>11. Together(balance, balance', reports[p], NoReport, tracked, tracked')
  BY <1>10 DEF Together
<1>12. ChangesChain'
  BY <1>2, <1>7, <1>11, ReportMoves DEF HubInv
<1> QED BY <1>9, <1>12 DEF HubInv

\* Nothing is told before the first report.
LEMMA HubStarts == HubInit => HubInv
<1> SUFFICES ASSUME HubInit PROVE HubInv
  OBVIOUS
<1>1. HubShape
  BY HubAssumption, NoReportShape DEF HubInit, HubShape
<1>2. \A k, v, side : Tellers(reports, side, k, v) = {}
  BY NoReportShape DEF HubInit, Tellers
<1>3. \A k, v : Telling(reports, k, v) = 0
  BY <1>2, FS_EmptySet DEF Telling
<1>4. ChangesChain
  BY <1>3, ChainCounts DEF ChainOf, HubInit, Same, In
<1> QED BY <1>1, <1>4 DEF HubInv

\* Every step keeps the invariant.
LEMMA HubSteps == HubInv /\ [HubNext]_hubVars => HubInv'
<1> SUFFICES ASSUME HubInv, [HubNext]_hubVars PROVE HubInv'
  OBVIOUS
<1>1. CASE UNCHANGED <<tracked, reports, balance>>
  BY <1>1 DEF HubInv, HubShape, ChangesChain, Pending
<1>2. ASSUME NEW p \in Protocols, NEW k \in Kinds, NEW v \in Values, Reports(p, k, v) PROVE HubInv'
  BY <1>2, ReportsKeeps
<1>3. ASSUME NEW p \in Protocols, Stores(p) PROVE HubInv'
  BY <1>3, StoresKeeps
<1>4. ASSUME NEW p \in Protocols, Tells(p) PROVE HubInv'
  BY <1>4, TellsKeeps
<1> QED BY <1>1, <1>2, <1>3, <1>4 DEF HubNext, hubVars

\* listeners.rs: however many protocols report at once, and whoever takes over or registers
\* meanwhile, the changes told and about to be told lead from the initial value to the tracked one.
THEOREM ChangesAreAChain == HubSpec => []ChangesChain
<1>1. HubInv => ChangesChain
  BY DEF HubInv
<1> QED BY <1>1, HubStarts, HubSteps, PTL DEF HubSpec

\* listeners.rs: the hub and its reports take the values they should, and the changes are counted.
THEOREM HubTypes == HubSpec => []HubTypeOK
<1>1. HubInv => HubTypeOK
  BY DEF HubInv, HubShape, Report, HubTypeOK
<1> QED BY <1>1, HubStarts, HubSteps, PTL DEF HubSpec
=============================================================================
