-------------------------------- MODULE Tlv8 --------------------------------
(* TLV8, the records of HAP pairing messages (pyatv-pairing, tlv8.rs): tags  *)
(* in the order they were set, long values cut in consecutive entries that   *)
(* the reader puts together again. A message is built by setting one tag     *)
(* after another, a tag perhaps twice.                                       *)
EXTENDS Naturals, SequencesExt

CONSTANTS
    MaxChunk,   \* MAX_CHUNK, 255 in the code
    Tags,
    TlvValues,  \* the values a tag is given, sequences of bytes
    MaxSets     \* bound: how often a tag is set

ASSUME Tlv8Assumption ==
    MaxChunk \in Nat \ {0} /\ Tags \subseteq Nat /\ TlvValues \subseteq Seq(Nat)

VARIABLE tlv   \* the entries, and how often one was set

(* set_raw: a tag that is there keeps its place.                             *)
set_raw(entries, tag, value) ==
    IF \E k \in DOMAIN entries : entries[k][1] = tag
    THEN [k \in DOMAIN entries |-> IF entries[k][1] = tag THEN <<tag, value>> ELSE entries[k]]
    ELSE Append(entries, <<tag, value>>)

(* chunks(MAX_CHUNK); alone, a mutant in which an empty value has no entry.  *)
ChunksOfBytes(value) ==
    [k \in 1..((Len(value) + MaxChunk - 1) \div MaxChunk) |->
        SubSeq(value, (k - 1) * MaxChunk + 1,
               IF k * MaxChunk < Len(value) THEN k * MaxChunk ELSE Len(value))]

(* An empty value has one entry all the same.                                *)
Chunks(value) ==
    IF value = <<>> THEN << <<>> >>
    ELSE ChunksOfBytes(value)

Fragment(tag, chunk) == <<tag, Len(chunk)>> \o chunk

EncodeEntry(entry) ==
    FlattenSeq([k \in DOMAIN Chunks(entry[2]) |-> Fragment(entry[1], Chunks(entry[2])[k])])

encode(entries) == FlattenSeq([k \in DOMAIN entries |-> EncodeEntry(entries[k])])

(* What follows a tag that was seen is put behind its value.                 *)
Extend(entries, tag, chunk) ==
    IF \E k \in DOMAIN entries : entries[k][1] = tag
    THEN [k \in DOMAIN entries |->
             IF entries[k][1] = tag THEN <<tag, entries[k][2] \o chunk>> ELSE entries[k]]
    ELSE Append(entries, <<tag, chunk>>)

(* A turn of decode's loop: the entry at d.at, unless it is cut off.         *)
DecodeEntry(in, d) ==
    IF ~d.ok \/ d.at > Len(in) THEN d
    ELSE IF d.at = Len(in) \/ d.at + 1 + in[d.at + 1] > Len(in) THEN [d EXCEPT !.ok = FALSE]
    ELSE LET end == d.at + 1 + in[d.at + 1]
         IN  [ok |-> TRUE, at |-> end + 1,
              entries |-> Extend(d.entries, in[d.at], SubSeq(in, d.at + 2, end))]

(* An entry takes a place at least, so as many turns as places are enough.   *)
decode(in) ==
    LET Read[n \in 0..Len(in)] ==
            IF n = 0 THEN [ok |-> TRUE, at |-> 1, entries |-> <<>>] ELSE DecodeEntry(in, Read[n - 1])
    IN  Read[Len(in)]
-----------------------------------------------------------------------------
Tlv8Init == tlv = [entries |-> <<>>, sets |-> 0]

SetTag ==
    /\ tlv.sets < MaxSets
    /\ \E tag \in Tags, value \in TlvValues :
          tlv' = [entries |-> set_raw(tlv.entries, tag, value), sets |-> tlv.sets + 1]

Tlv8Next == SetTag

Tlv8Spec == Tlv8Init /\ [][Tlv8Next]_tlv
-----------------------------------------------------------------------------
(* tlv8.rs:20: "round-trips back through decode as the same message", with   *)
(* its tags in the same order, for values that are empty, fill their entries *)
(* or spill over; and what is cut off within an entry is not taken for a     *)
(* shorter message.                                                          *)
Tlv8RoundTrips ==
    LET wire == encode(tlv.entries)
    IN  /\ decode(wire).ok /\ decode(wire).entries = tlv.entries
        /\ \A n \in 0..Len(wire) :
              LET cut == decode(SubSeq(wire, 1, n))
              IN  cut.ok => encode(cut.entries) = SubSeq(wire, 1, n)
=============================================================================
