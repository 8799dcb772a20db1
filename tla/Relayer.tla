------------------------------ MODULE Relayer ------------------------------
(* The relayers of the facade (pyatv-core: relayer.rs, facade.rs,           *)
(* facade/features.rs, facade/takeover.rs). Every interface of the facade   *)
(* has a relayer, which picks one of the protocols that registered for it,  *)
(* by priority. A protocol may take interfaces over for a time (RAOP while  *)
(* it streams, AirPlay while it plays a URL): it claims them one relayer    *)
(* after the other and gives them back one after the other, while others    *)
(* do the same.                                                             *)
EXTENDS Naturals, Sequences, FiniteSets

CONSTANTS
    Protocols, Interfaces, Features, None,
    InterfaceOf,   \* the interface a feature is a method of
    Offers,        \* what SetupData brings: [interfaces, features] of each protocol
    DefaultRank,   \* DEFAULT_PRIORITIES: the place of each protocol, 0 first
    RankOf,        \* the place of each protocol in the priorities of a relayer
    Claimants,     \* the tasks that call claim
    ClaimOf        \* what each claims: [protocol, interfaces]

ASSUME RelayerAssumption ==
    /\ None \notin Protocols
    /\ InterfaceOf \in [Features -> Interfaces]
    /\ Offers \in [Protocols -> [interfaces : SUBSET Interfaces, features : SUBSET Features]]
    /\ DefaultRank \in [Protocols -> Nat]
    /\ \A p, q \in Protocols : DefaultRank[p] = DefaultRank[q] => p = q
    /\ \A p \in Protocols : \A f \in Offers[p].features : InterfaceOf[f] \in Offers[p].interfaces
    /\ RankOf \in [Interfaces -> [Protocols -> Nat]]
    /\ ClaimOf \in [Claimants -> [protocol : Protocols, interfaces : Seq(Interfaces)]]

VARIABLES
    added,       \* the protocols add_protocol was called for
    registered,  \* Relayer.state.instances of each interface
    owners,      \* FacadeFeatures.state.owners
    takeover,    \* Relayer.state.takeover of each interface
    claims       \* the claim each claimant makes: what its guard has taken, and how far it is

relayerVars == <<added, registered, owners, takeover, claims>>

Claim == [at : {"free", "claiming", "holding", "releasing"},
          next : Nat, taken : SUBSET Interfaces]

RelayerInit ==
    /\ added = {}
    /\ registered = [i \in Interfaces |-> {}]
    /\ owners = [f \in Features |-> None]
    /\ takeover = [i \in Interfaces |-> None]
    /\ claims = [c \in Claimants |-> [at |-> "free", next |-> 1, taken |-> {}]]

-----------------------------------------------------------------------------
(* search_order, main_protocol and instance_for: the first protocol of a    *)
(* set, the one that has taken the interface over before all others.        *)

Before(i, p, q) ==
    IF takeover[i] \in {p, q} THEN takeover[i] = p ELSE RankOf[i][p] <= RankOf[i][q]

First(i, ps) ==
    IF ps = {} THEN None ELSE CHOOSE p \in ps : \A q \in ps : Before(i, p, q)

main_protocol(i) == First(i, registered[i])

instance_for(f) ==
    First(InterfaceOf[f],
          {p \in registered[InterfaceOf[f]] : f \in Offers[p].features})

-----------------------------------------------------------------------------
(* add_protocol files every handle under its interface and gives each       *)
(* feature to the protocol that stands first in the default priorities.     *)

(* Mutant: the protocol that registers last gets the feature.               *)
LastWins(p, q) == TRUE

has_higher_priority(p, q) == q = None \/ DefaultRank[p] < DefaultRank[q]

AddProtocol(p) ==
    /\ p \notin added
    /\ added' = added \cup {p}
    /\ registered' = [i \in Interfaces |->
           IF i \in Offers[p].interfaces THEN registered[i] \cup {p} ELSE registered[i]]
    /\ owners' = [f \in Features |->
           IF f \in Offers[p].features /\ has_higher_priority(p, owners[f])
           THEN p ELSE owners[f]]
    /\ UNCHANGED <<takeover, claims>>

(* TakeoverRegistry::claim. *)
Wanted(c) == ClaimOf[c].interfaces[claims[c].next]

StartClaim(c) ==
    /\ claims[c].at = "free"
    /\ claims' = [claims EXCEPT ![c] = [at |-> "claiming", next |-> 1, taken |-> claims[c].taken]]
    /\ UNCHANGED <<added, registered, owners, takeover>>

Take(c) ==
    /\ claims[c].at = "claiming"
    /\ claims[c].next <= Len(ClaimOf[c].interfaces)
    /\ takeover[Wanted(c)] = None
    /\ takeover' = [takeover EXCEPT ![Wanted(c)] = ClaimOf[c].protocol]
    /\ claims' = [claims EXCEPT ![c] =
           [at |-> "claiming", next |-> claims[c].next + 1, taken |-> claims[c].taken \cup {Wanted(c)}]]
    /\ UNCHANGED <<added, registered, owners>>

(* Mutant: the error returns with what was taken still taken.               *)
RefuseKeeps(c) ==
    /\ claims[c].at = "claiming"
    /\ claims[c].next <= Len(ClaimOf[c].interfaces)
    /\ takeover[Wanted(c)] # None
    /\ claims' = [claims EXCEPT ![c] = [@ EXCEPT !.at = "free", !.taken = {}]]
    /\ UNCHANGED <<added, registered, owners, takeover>>

(* The error returns from claim and drops the guard: release_all.           *)
Refuse(c) ==
    /\ claims[c].at = "claiming"
    /\ claims[c].next <= Len(ClaimOf[c].interfaces)
    /\ takeover[Wanted(c)] # None
    /\ claims' = [claims EXCEPT ![c].at = "releasing"]
    /\ UNCHANGED <<added, registered, owners, takeover>>

Hold(c) ==
    /\ claims[c].at = "claiming"
    /\ claims[c].next > Len(ClaimOf[c].interfaces)
    /\ claims' = [claims EXCEPT ![c].at = "holding"]
    /\ UNCHANGED <<added, registered, owners, takeover>>

(* The stream ends, is cancelled or fails: its guard is dropped.            *)
DropGuard(c) ==
    /\ claims[c].at = "holding"
    /\ claims' = [claims EXCEPT ![c].at = "releasing"]
    /\ UNCHANGED <<added, registered, owners, takeover>>

(* Relayer::release, which does not ask who holds the relayer.              *)
ReleaseOne(c, i) ==
    /\ claims[c].at = "releasing"
    /\ i \in claims[c].taken
    /\ takeover' = [takeover EXCEPT ![i] = None]
    /\ claims' = [claims EXCEPT ![c].taken = @ \ {i}]
    /\ UNCHANGED <<added, registered, owners>>

Released(c) ==
    /\ claims[c].at = "releasing"
    /\ claims[c].taken = {}
    /\ claims' = [claims EXCEPT ![c].at = "free"]
    /\ UNCHANGED <<added, registered, owners, takeover>>

ClaimEnds(c) ==
    \/ Take(c)
    \/ Refuse(c)
    \/ Hold(c)
    \/ \E i \in Interfaces : ReleaseOne(c, i)
    \/ Released(c)

RelayerNext ==
    \/ \E p \in Protocols : AddProtocol(p)
    \/ \E c \in Claimants : StartClaim(c) \/ ClaimEnds(c) \/ DropGuard(c)

RelayerSpec == RelayerInit /\ [][RelayerNext]_relayerVars
-----------------------------------------------------------------------------
(* The values the variables take.                                           *)
RelayerTypeOK ==
    /\ added \subseteq Protocols
    /\ registered \in [Interfaces -> SUBSET Protocols]
    /\ owners \in [Features -> Protocols \cup {None}]
    /\ takeover \in [Interfaces -> Protocols \cup {None}]
    /\ claims \in [Claimants -> Claim]

(* takeover.rs:98: "Nothing remains claimed in that case". An interface is  *)
(* taken over exactly while one guard holds it, on behalf of the protocol   *)
(* of that guard: no failed claim leaves one taken, and, as release() asks  *)
(* nobody, no guard gives back what another has taken.                      *)
TakenByItsGuard ==
    \A i \in Interfaces :
        LET holders == {c \in Claimants : claims[c].at # "free" /\ i \in claims[c].taken}
        IN  /\ \A c, d \in holders : c = d
            /\ takeover[i] # None <=> holders # {}
            /\ \A c \in holders : takeover[i] = ClaimOf[c].protocol

(* facade.rs:241: the protocol asked whether a feature is available is the  *)
(* one a call of that feature reaches, in whatever order the protocols were *)
(* added, as long as nobody has taken the interface over. It holds of the   *)
(* relayers that use the default priorities.                                *)
FeatureAnsweredByCallee ==
    \A f \in Features :
        /\ RankOf[InterfaceOf[f]] = DefaultRank
        /\ takeover[InterfaceOf[f]] = None
        /\ instance_for(f) # None
        => owners[f] = instance_for(f)
=============================================================================
