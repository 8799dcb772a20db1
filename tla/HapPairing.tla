----------------------------- MODULE HapPairing -----------------------------
(* HAP pairing between the handlers of several users and their devices:      *)
(* pair-setup, pair-verify and transient pairing (pyatv-pairing, pairing),   *)
(* driven by MRP (pyatv-proto-mrp, pairing.rs and auth.rs) or, transiently,  *)
(* by AirPlay, against the accessory the repository has for its tests        *)
(* (server). One step sends, the device answers or does not, and the user's  *)
(* side may have given up by then: the device still handles what was sent.   *)
(*                                                                           *)
(* Every run has a number, which stands for all that is random in it: the    *)
(* seed and pairing identifier, the salt of the device, the exchange key. A  *)
(* session key is the tuple it is computed from; what is sealed names the    *)
(* key that opens it; a signature is who signed and what.                    *)
EXTENDS Naturals, Sequences

CONSTANTS
    Controllers, Devices,
    Pins, PinOf,      \* the PIN each device shows
    TransientPin,
    MaxRuns,          \* bound: runs of a procedure
    TlvError,         \* an answer with an error entry
    Missing

ASSUME PairingAssumption ==
    /\ PinOf \in [Devices -> Pins] /\ TransientPin \notin Pins
    /\ MaxRuns \in Nat

VARIABLES
    handlers,     \* per user: the step under way, its run, and the session
    lastRun,
    wire,         \* per run: the request that its device has not handled
    answers,      \* per run: the answer that arrived last
    accessories,
    transport,    \* per run: the keys the device has installed
    verified,     \* of the runs that passed: the credentials, and the shared secret
    credentials   \* per user: those in the service and the storage

pairingVars == <<handlers, lastRun, wire, answers, accessories, transport, verified, credentials>>

Runs == 1..MaxRuns
SrpKey(pin, run, salt) == <<"K", pin, run, salt>>
Secret(run, device) == <<"X25519", run, device>>
-----------------------------------------------------------------------------
PairingInit ==
    /\ handlers = [u \in Controllers |->
          [step |-> "idle", run |-> 0, device |-> Missing, procedure |-> Missing, pin |-> Missing,
           key |-> Missing, creds |-> Missing, has_paired |-> FALSE]]
    /\ lastRun = 0
    /\ wire = [n \in Runs |-> Missing]
    /\ answers = [n \in Runs |-> Missing]
    /\ accessories = [d \in Devices |->
          [setup |-> Missing, pairings |-> <<>>, secret |-> Missing, ephemeral |-> Missing]]
    /\ transport = [n \in Runs |-> Missing]
    /\ verified = <<>>
    /\ credentials = [u \in Controllers |-> Missing]

(* exchange: the request goes out, and its answer is waited for.             *)
SendStep(u, h, kind, state, data) ==
    /\ handlers' = [handlers EXCEPT ![u] = h]
    /\ wire' = [wire EXCEPT ![h.run] =
          [run |-> h.run, device |-> h.device, kind |-> kind, state |-> state, data |-> data]]
    /\ answers' = [answers EXCEPT ![h.run] = Missing]

NewRun(u) ==
    /\ handlers[u].step = "idle" /\ lastRun < MaxRuns
    /\ lastRun' = lastRun + 1

Begun(u, d, step) == [handlers[u] EXCEPT !.step = step, !.run = lastRun + 1, !.device = d]

AtRest(u) == [handlers[u] EXCEPT !.step = "idle", !.run = 0, !.device = Missing,
                               !.key = Missing, !.creds = Missing]

(* decode_response, of the answer to what u sent last.                       *)
Accepted(u, state) ==
    LET answer == answers[handlers[u].run]
    IN  answer # Missing /\ answer.data # TlvError /\ answer.state = state

Waits(u, step) == handlers[u].step = step /\ answers[handlers[u].run] # Missing

Answer(u) == answers[handlers[u].run].data

(* The ? of every step: the session ends and keeps nothing of the run.       *)
Fails(u) ==
    /\ handlers' = [handlers EXCEPT ![u] = AtRest(u)]
    /\ UNCHANGED <<lastRun, wire, answers, accessories, transport, verified, credentials>>
-----------------------------------------------------------------------------
(* begin_inner: a new connection, and M1. The procedure of an earlier begin  *)
(* is replaced when the device has answered.                                 *)
BeginPairing(u, d) ==
    /\ NewRun(u)
    /\ SendStep(u, Begun(u, d, "M2"), "setup", 1, "pin")
    /\ UNCHANGED <<accessories, transport, verified, credentials>>

HoldChallenge(u) ==
    /\ Waits(u, "M2")
    /\ handlers' = [handlers EXCEPT ![u] =
          [AtRest(u) EXCEPT !.procedure = [run |-> handlers[u].run, device |-> handlers[u].device],
                          !.has_paired = FALSE]]
    /\ UNCHANGED <<lastRun, wire, answers, accessories, transport, verified, credentials>>

EnterPin(u) ==
    /\ handlers[u].step = "idle"
    /\ \E pin \in Pins : handlers' = [handlers EXCEPT ![u].pin = pin]
    /\ UNCHANGED <<lastRun, wire, answers, accessories, transport, verified, credentials>>

(* finish_inner takes the procedure, whatever becomes of it; PairSetup       *)
(* handles the challenge and sends M3.                                       *)
FinishPairing(u) ==
    LET p == handlers[u].procedure
    IN  /\ handlers[u].step = "idle" /\ handlers[u].pin # Missing /\ p # Missing
        /\ LET key == SrpKey(handlers[u].pin, p.run, answers[p.run].data)
           IN  SendStep(u, [handlers[u] EXCEPT !.procedure = Missing, !.step = "M4", !.run = p.run,
                                               !.device = p.device, !.key = key],
                        "setup", 3, [public_key |-> p.run, proof |-> key])
        /\ UNCHANGED <<lastRun, accessories, transport, verified, credentials>>

(* The device's proof is checked, and the identity sent.                     *)
SendIdentity(u) ==
    LET h == handlers[u]
    IN  /\ Waits(u, "M4") /\ Accepted(u, 4) /\ Answer(u) = h.key
        /\ SendStep(u, [h EXCEPT !.step = "M6"], "setup", 5,
                    [sealed |-> h.key, identifier |-> h.run, public_key |-> h.run,
                     signature |-> <<h.run, h.key, h.run>>])
        /\ UNCHANGED <<lastRun, accessories, transport, verified, credentials>>

(* M6 gives the credentials, and they are verified on the same connection.   *)
TakeCredentials(u) ==
    LET h == handlers[u]
    IN  /\ Waits(u, "M6") /\ Accepted(u, 6)
        /\ Answer(u).sealed = h.key
        /\ Answer(u).signature = <<Answer(u).public_key, h.key, Answer(u).identifier>>
        /\ SendStep(u, [h EXCEPT !.step = "verify M2", !.key = Missing,
                                 !.creds = [ltpk |-> Answer(u).public_key, atv_id |-> Answer(u).identifier,
                                            ltsk |-> h.run, client_id |-> h.run]],
                    "verify", 1, h.run)
        /\ UNCHANGED <<lastRun, accessories, transport, verified, credentials>>

(* Verifying what is stored when a connection is set up.                     *)
VerifyStored(u, d) ==
    /\ NewRun(u) /\ credentials[u] # Missing
    /\ SendStep(u, [Begun(u, d, "verify M2") EXCEPT !.creds = credentials[u]], "verify", 1, lastRun + 1)
    /\ UNCHANGED <<accessories, transport, verified, credentials>>

(* PairVerify::handle_m2                                                     *)
ProveIdentity(u) ==
    LET h == handlers[u]
        secret == Secret(h.run, Answer(u).public_key)
    IN  /\ Waits(u, "verify M2") /\ Accepted(u, 2)
        /\ Answer(u).sealed = secret
        /\ Answer(u).identifier = h.creds.atv_id
        /\ Answer(u).signature = <<h.creds.ltpk, Answer(u).public_key, h.creds.atv_id, h.run>>
        /\ SendStep(u, [h EXCEPT !.step = "verify M4", !.key = secret], "verify", 3,
                    [sealed |-> secret, identifier |-> h.creds.client_id,
                     signature |-> <<h.creds.ltsk, h.run, h.creds.client_id, Answer(u).public_key>>])
        /\ UNCHANGED <<lastRun, accessories, transport, verified, credentials>>

(* Mutant: "TODO: check status code", as the original has it.                *)
AcceptsAny(u) == answers[handlers[u].run] # Missing

AcceptsM4(u) == Accepted(u, 4)

Passes(n, creds, secret) ==
    verified' = [k \in DOMAIN verified \cup {n} |->
                    IF k = n THEN [creds |-> creds, secret |-> secret] ELSE verified[k]]

(* handle_m4, then the keys; a run that pairs stores its credentials.        *)
CompleteVerify(u) ==
    LET h == handlers[u]
    IN  /\ Waits(u, "verify M4") /\ AcceptsM4(u)
        /\ Passes(h.run, h.creds, h.key)
        /\ credentials' = [credentials EXCEPT ![u] = h.creds]
        /\ handlers' = [handlers EXCEPT ![u] =
              [AtRest(u) EXCEPT !.has_paired = @ \/ h.creds.client_id = h.run]]
        /\ UNCHANGED <<lastRun, wire, answers, accessories, transport>>

(* TransientPairSetup: four messages, a PIN that everyone knows, and the SRP *)
(* session key for a shared secret.                                          *)
BeginTransient(u, d) ==
    /\ NewRun(u)
    /\ SendStep(u, Begun(u, d, "transient M2"), "setup", 1, "transient")
    /\ UNCHANGED <<accessories, transport, verified, credentials>>

ContinueTransient(u) ==
    LET h == handlers[u]
        key == SrpKey(TransientPin, h.run, Answer(u))
    IN  /\ Waits(u, "transient M2") /\ Accepted(u, 2)
        /\ SendStep(u, [h EXCEPT !.step = "transient M4", !.key = key], "setup", 3,
                    [public_key |-> h.run, proof |-> key])
        /\ UNCHANGED <<lastRun, accessories, transport, verified, credentials>>

CompleteTransient(u) ==
    LET h == handlers[u]
    IN  /\ Waits(u, "transient M4") /\ Accepted(u, 4) /\ Answer(u) = h.key
        /\ Passes(h.run, Missing, h.key)
        /\ handlers' = [handlers EXCEPT ![u] = AtRest(u)]
        /\ UNCHANGED <<lastRun, wire, answers, accessories, transport, credentials>>

(* An answer that is an error; one that does not come, or not in time.       *)
Refused(u) ==
    /\ handlers[u].step \notin {"idle", "M2"}
    /\ answers[handlers[u].run] # Missing /\ answers[handlers[u].run].data = TlvError
    /\ Fails(u)

GivesUp(u) == handlers[u].step # "idle" /\ Fails(u)

ClosePairing(u) ==
    /\ handlers[u].step = "idle" /\ handlers[u].procedure # Missing
    /\ handlers' = [handlers EXCEPT ![u].procedure = Missing]
    /\ UNCHANGED <<lastRun, wire, answers, accessories, transport, verified, credentials>>
-----------------------------------------------------------------------------
(* What the device makes of a request: its new state and its answer, none    *)
(* where the code has an error.                                              *)
Reply(a, data) == [state |-> a, data |-> data]
Refusal(a) == Reply(a, Missing)

setup_m1(d, r) ==
    LET session == [salt |-> r.run, key |-> Missing, transient |-> r.data = "transient",
                    pin |-> IF r.data = "transient" THEN TransientPin ELSE PinOf[d]]
    IN  Reply([accessories[d] EXCEPT !.setup = session], r.run)

setup_m3(d, r) ==
    LET a == accessories[d]
        key == SrpKey(a.setup.pin, r.data.public_key, a.setup.salt)
    IN  IF a.setup = Missing THEN Refusal(a)
        ELSE IF r.data.proof # key THEN Reply([a EXCEPT !.setup = Missing], TlvError)
        ELSE Reply([a EXCEPT !.setup.key = key,
                             !.secret = IF a.setup.transient THEN key ELSE @], key)

setup_m5(d, r) ==
    LET a == accessories[d]
    IN  IF a.setup = Missing THEN Refusal(a)
        ELSE IF a.setup.key # r.data.sealed THEN Refusal(a)
        ELSE IF r.data.signature # <<r.data.public_key, a.setup.key, r.data.identifier>>
        THEN Reply(a, TlvError)
        ELSE Reply([a EXCEPT !.pairings = Append(@, [client_id |-> r.data.identifier,
                                                     ltpk |-> r.data.public_key])],
                   [sealed |-> a.setup.key, identifier |-> d, public_key |-> d,
                    signature |-> <<d, a.setup.key, d>>])

verify_m1(d, r) ==
    LET secret == Secret(r.data, d)
    IN  Reply([accessories[d] EXCEPT !.secret = secret, !.ephemeral = r.data],
              [public_key |-> d, sealed |-> secret, identifier |-> d,
               signature |-> <<d, d, d, r.data>>])

verify_m3(d, r) ==
    LET a == accessories[d]
        Known(k) == a.pairings[k].client_id = r.data.identifier
        signed == \E k \in DOMAIN a.pairings :
                     /\ Known(k) /\ \A j \in 1..k - 1 : ~Known(j)
                     /\ r.data.signature = <<a.pairings[k].ltpk, a.ephemeral, r.data.identifier, d>>
    IN  IF a.secret # r.data.sealed THEN Refusal(a)
        ELSE Reply(a, IF signed THEN "done" ELSE TlvError)

Handled(d, r) ==
    CASE r.kind = "setup" /\ r.state = 1 -> setup_m1(d, r)
      [] r.kind = "setup" /\ r.state = 3 -> setup_m3(d, r)
      [] r.kind = "setup" /\ r.state = 5 -> setup_m5(d, r)
      [] r.kind = "verify" /\ r.state = 1 -> verify_m1(d, r)
      [] r.kind = "verify" /\ r.state = 3 -> verify_m3(d, r)

(* handle_crypto_pairing: after the last message, whatever it says, the      *)
(* connection goes on with the keys the accessory has.                       *)
DeviceHandles(r) ==
    LET reply == Handled(r.device, r)
        a == reply.state
        keyed == reply.data # Missing /\ r.state = 3 /\
                    (r.kind = "verify" \/ (reply.data # TlvError /\ a.setup.transient))
    IN  /\ wire' = [wire EXCEPT ![r.run] = Missing]
        /\ accessories' = [accessories EXCEPT ![r.device] = a]
        /\ answers' = IF reply.data = Missing THEN answers
                      ELSE [answers EXCEPT ![r.run] = [state |-> r.state + 1, data |-> reply.data]]
        /\ transport' = IF keyed THEN [transport EXCEPT ![r.run] = a.secret] ELSE transport
        /\ UNCHANGED <<handlers, lastRun, verified, credentials>>

(* Somebody removes the pairings in the settings of the device.              *)
DropsPairings(d) ==
    /\ accessories[d].pairings # <<>>
    /\ accessories' = [accessories EXCEPT ![d].pairings = <<>>]
    /\ UNCHANGED <<handlers, lastRun, wire, answers, transport, verified, credentials>>

PairingNext ==
    \/ \E u \in Controllers :
          \/ \E d \in Devices : BeginPairing(u, d) \/ VerifyStored(u, d) \/ BeginTransient(u, d)
          \/ HoldChallenge(u) \/ EnterPin(u) \/ FinishPairing(u) \/ SendIdentity(u)
          \/ TakeCredentials(u) \/ ProveIdentity(u) \/ CompleteVerify(u)
          \/ ContinueTransient(u) \/ CompleteTransient(u)
          \/ Refused(u) \/ GivesUp(u) \/ ClosePairing(u)
    \/ \E n \in Runs : wire[n] # Missing /\ DeviceHandles(wire[n])
    \/ \E d \in Devices : DropsPairings(d)
-----------------------------------------------------------------------------
PairingSpec == PairingInit /\ [][PairingNext]_pairingVars

PairingTypeOK ==
    /\ lastRun \in 0..MaxRuns
    /\ \A u \in Controllers : handlers[u].run \in 0..lastRun /\ handlers[u].pin \in Pins \cup {Missing}
    /\ \A n \in Runs : wire[n] # Missing => n <= lastRun /\ wire[n].run = n

(* pairing.rs:24: "finish proves the credentials before reporting success".  *)
(* Whatever other users do on the same device, and whatever it handles late: *)
(* a run that was verified shares its key with the device its credentials    *)
(* name, which did not refuse; and what is stored was verified.              *)
StoredAreProven ==
    /\ \A n \in DOMAIN verified :
          /\ transport[n] = verified[n].secret
          /\ answers[n].data # TlvError
          /\ verified[n].creds # Missing =>
                verified[n].secret = Secret(n, verified[n].creds.ltpk)
    /\ \A u \in Controllers :
          credentials[u] # Missing => \E n \in DOMAIN verified : verified[n].creds = credentials[u]
=============================================================================
