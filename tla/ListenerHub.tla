---------------------------- MODULE ListenerHub ----------------------------
(* The hub every protocol reports what it observed to (pyatv-core: facade/  *)
(* listeners.rs). Each protocol reports from a task of its own: the hub     *)
(* drops what changes nothing, stores the rest under its lock and tells the *)
(* listeners after the lock is gone. Keyboard focus and power are heard     *)
(* from the main protocol of their relayer only, and takeovers move that.   *)
EXTENDS Relayer, Integers

CONSTANTS
    Kinds,        \* what is reported: values of the Tracked record
    FilterOf,     \* the interface whose main protocol a kind is heard from, or None
    Values,       \* the values reported
    Initial       \* the value of Tracked::default

ASSUME HubAssumption ==
    /\ IsFiniteSet(Protocols)
    /\ FilterOf \in [Kinds -> Interfaces \cup {None}]
    /\ Initial \in Values

VARIABLES
    tracked,   \* ListenerHub.tracked
    reports,   \* the report each protocol is in the middle of
    balance    \* per kind and value: times the listeners were told it became this, less
               \* the times they were told it was this and is no more

hubVars == <<relayerVars, tracked, reports, balance>>

NoReport == [at |-> "none", kind |-> None, old |-> Initial, new |-> Initial]

HubInit ==
    /\ RelayerInit
    /\ tracked = [k \in Kinds |-> Initial]
    /\ reports = [p \in Protocols |-> NoReport]
    /\ balance = [k \in Kinds |-> [v \in Values |-> 0]]

(* is_main: nobody registered means nobody to prefer.                       *)
is_main(k, p) ==
    FilterOf[k] # None => main_protocol(FilterOf[k]) \in {None, p}

(* The update arrives off the wire; for a filtered kind the question who is *)
(* main is asked before the lock is taken.                                  *)
Reports(p, k, v) ==
    /\ p \in added /\ reports[p] = NoReport
    /\ is_main(k, p)
    /\ reports' = [reports EXCEPT ![p] =
                       [at |-> "asked", kind |-> k, old |-> tracked[k], new |-> v]]
    /\ UNCHANGED <<relayerVars, tracked, balance>>

(* Mutant: the value to compare with was read before the lock was taken.    *)
CurrentWhenAsked(r) == r.old

(* Under the lock: the old value is read and replaced.                      *)
Current(r) == tracked[r.kind]

Stores(p) ==
    LET r == reports[p]
    IN  /\ r.at = "asked"
        /\ IF Current(r) = r.new
           THEN reports' = [reports EXCEPT ![p] = NoReport] /\ UNCHANGED tracked
           ELSE /\ reports' = [reports EXCEPT ![p].at = "telling", ![p].old = Current(r)]
                /\ tracked' = [tracked EXCEPT ![r.kind] = r.new]
        /\ UNCHANGED <<relayerVars, balance>>

Moved(b, r) ==
    [b EXCEPT ![r.kind] = [v \in Values |->
        b[r.kind][v] + (IF v = r.new THEN 1 ELSE 0) - (IF v = r.old THEN 1 ELSE 0)]]

(* The listeners are called, with no lock held.                             *)
Tells(p) ==
    /\ reports[p].at = "telling"
    /\ balance' = Moved(balance, reports[p])
    /\ reports' = [reports EXCEPT ![p] = NoReport]
    /\ UNCHANGED <<relayerVars, tracked>>

HubNext ==
    \/ RelayerNext /\ UNCHANGED <<tracked, reports, balance>>
    \/ \E p \in Protocols :
          \/ \E k \in Kinds, v \in Values : Reports(p, k, v)
          \/ Stores(p)
          \/ Tells(p)

HubSpec == HubInit /\ [][HubNext]_hubVars
-----------------------------------------------------------------------------
(* The values the variables take.                                           *)
HubTypeOK ==
    /\ tracked \in [Kinds -> Values]
    /\ balance \in [Kinds -> [Values -> Int]]
    /\ \A p \in Protocols : reports[p].at \in {"none", "asked", "telling"}

(* The changes the listeners are told of, with those about to be told, link *)
(* up to one chain from the initial value to the one the hub answers with,  *)
(* however many protocols report at once: no change is missing from it, and *)
(* none is told twice or from a value that was not the hub's.               *)
Pending(k, v) ==
    LET at(side) == {p \in Protocols : reports[p].at = "telling" /\ reports[p].kind = k
                                        /\ reports[p][side] = v}
    IN  Cardinality(at("new")) - Cardinality(at("old"))

ChangesChain ==
    \A k \in Kinds, v \in Values :
        balance[k][v] + Pending(k, v)
            = (IF v = tracked[k] THEN 1 ELSE 0) - (IF v = Initial THEN 1 ELSE 0)
=============================================================================
