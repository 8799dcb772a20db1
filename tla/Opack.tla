------------------------------- MODULE Opack -------------------------------
(* OPACK, the serialisation under Companion messages and HAP pairing        *)
(* (pyatv-opack: ser.rs, de.rs, objects.rs). A value that was written before *)
(* is replaced by a pointer into a table that writer and reader number each *)
(* on its own, the one by the bytes it wrote, the other by the values it    *)
(* read. A caller builds a message and packs it.                            *)
(*                                                                          *)
(* Values are tuples: a kind and its contents. On the wire a scalar is one  *)
(* token, the value it is read as; a container is a header, its parts and   *)
(* perhaps an end mark. Strings stand for data and UUIDs too. The budget of *)
(* unpack and the MAX_BUCKET of its table, far above, are left out.         *)
EXTENDS Naturals, SequencesExt

CONSTANTS
    SmallLimit,    \* SMALL_INT_LIMIT
    ByteBase,      \* values of a byte
    InlinePointers,   \* POINTER_INLINE_MAX_INDEX
    EndlessCount,  \* CONTAINER_ENDLESS_COUNT
    MaxDepth,
    Elements, Keys,   \* what a message is made of
    MaxParts       \* bound: parts of a message

ASSUME OpackAssumption ==
    /\ SmallLimit \in 0..ByteBase - 1 /\ InlinePointers \in 0..ByteBase - 1
    /\ {EndlessCount, MaxDepth} \subseteq Nat \ {0}

VARIABLE message

NaN == <<"float", "nan">>
Zeros == {<<"float", "0.0">>, <<"float", "-0.0">>}
IsContainer(v) == v[1] \in {"array", "dict"}

(* The values a container writes: a dictionary's are keys and entries.      *)
Parts(v) == IF v[1] = "dict" THEN FlattenSeq(v[2]) ELSE v[2]

narrowest_for(n) ==
    IF n < ByteBase THEN 1 ELSE IF n < ByteBase ^ 2 THEN 2 ELSE IF n < ByteBase ^ 4 THEN 4 ELSE 8

(* write_uint: an integer that is not small is read back with its width.    *)
Token(v) ==
    IF v[1] = "uint" /\ v[2] >= SmallLimit THEN <<"sized", v[2], narrowest_for(v[2])>> ELSE v

Encodable(v) ==
    /\ v[1] # "time"
    /\ v[1] = "sized" /\ v[3] < 8 => v[2] < ByteBase ^ v[3]

Header(v) ==
    <<IF v[1] = "array" THEN "array of" ELSE "dict of",
      IF Len(v[2]) < EndlessCount THEN Len(v[2]) ELSE EndlessCount>>
End == <<"end">>
-----------------------------------------------------------------------------
(* Mutant: pyatv's rule, everything that takes more than a byte.            *)
InternedByLength(v) ==
    /\ v[1] \notin {"null", "bool"} /\ v # <<"string", "">>
    /\ v[1] = "uint" => v[2] >= SmallLimit

is_interned(v) ==
    /\ v[1] \notin {"null", "bool"} /\ ~IsContainer(v)
    /\ v[1] = "uint" => v[2] >= SmallLimit

(* The shortest pointer; none beyond two bytes.                             *)
pointer_bytes(index) ==
    IF index <= InlinePointers THEN << <<"pointer", 0, index>> >>
    ELSE IF index < ByteBase THEN << <<"pointer", 1, index>> >>
    ELSE IF index < ByteBase ^ 2 THEN << <<"pointer", 2, index>> >>
    ELSE <<>>

(* Encoder::value and write, with the output and the table so far.          *)
RECURSIVE PackValue(_, _, _)

WriteValue(e, v, depth) ==
    IF ~IsContainer(v)
    THEN [e EXCEPT !.out = Append(@, Token(v)), !.ok = @ /\ Encodable(v)]
    ELSE IF depth >= MaxDepth THEN [e EXCEPT !.ok = FALSE]
    ELSE LET opened == [e EXCEPT !.out = Append(@, Header(v))]
             filled == FoldLeft(LAMBDA f, part : PackValue(f, part, depth + 1), opened, Parts(v))
         IN  IF Len(v[2]) < EndlessCount THEN filled
             ELSE [filled EXCEPT !.out = Append(@, End)]

PackValue(e, v, depth) ==
    LET written == WriteValue(e, v, depth)
        encoding == SubSeq(written.out, Len(e.out) + 1, Len(written.out))
        known == {k \in DOMAIN written.table : written.table[k] = encoding}
    IN  IF known # {}
        THEN LET pointer == pointer_bytes((CHOOSE k \in known : TRUE) - 1)
             IN  IF pointer = <<>> THEN written ELSE [written EXCEPT !.out = e.out \o pointer]
        ELSE IF is_interned(v) THEN [written EXCEPT !.table = Append(@, encoding)]
        ELSE written

pack(v) == PackValue([ok |-> TRUE, out |-> <<>>, table |-> <<>>], v, 0)
-----------------------------------------------------------------------------
(* Value's ==, which is not reflexive, and the digest, which tells more.    *)
Equal(v, w) == (v = w /\ v # NaN) \/ (v \in Zeros /\ w \in Zeros)

(* Mutant: a digest that agrees with == everywhere.                         *)
DigestOfKind(v) == IF v \in Zeros THEN Zeros ELSE {v}

digest_of(v) == {v}

Record(d, v) ==
    IF \E k \in DOMAIN d.table : digest_of(d.table[k]) = digest_of(v) /\ Equal(d.table[k], v)
    THEN d ELSE [d EXCEPT !.table = Append(@, v)]

(* Decoder::value, array and dict.                                          *)
RECURSIVE UnpackValue(_, _)
RECURSIVE UnpackEntries(_, _, _, _)

UnpackEntries(d, kind, left, depth) ==
    IF ~d.ok THEN d
    ELSE IF left = EndlessCount /\ d.at <= Len(d.in) /\ d.in[d.at] = End THEN [d EXCEPT !.at = @ + 1]
    ELSE IF left = 0 THEN d
    ELSE LET got == d.value[2]
             first == UnpackValue(d, depth)
             second == IF kind = "dict" THEN UnpackValue(first, depth) ELSE first
             entry == IF kind = "dict" THEN <<first.value, second.value>> ELSE first.value
         IN  UnpackEntries([second EXCEPT !.value = <<kind, Append(got, entry)>>], kind,
                           IF left = EndlessCount THEN left ELSE left - 1, depth)

UnpackValue(d, depth) ==
    LET token == d.in[d.at]
        next == [d EXCEPT !.at = @ + 1]
        Container(kind) ==
            IF depth >= MaxDepth THEN [d EXCEPT !.ok = FALSE]
            ELSE UnpackEntries([next EXCEPT !.value = <<kind, <<>>>>], kind, token[2], depth + 1)
    IN  IF ~d.ok \/ d.at > Len(d.in) THEN [d EXCEPT !.ok = FALSE]
        ELSE CASE token[1] = "pointer" ->
                    IF token[3] < Len(d.table) THEN [next EXCEPT !.value = d.table[token[3] + 1]]
                    ELSE [d EXCEPT !.ok = FALSE]
               [] token[1] = "array of" -> Container("array")
               [] token[1] = "dict of" -> Container("dict")
               [] token[1] = "end" -> [d EXCEPT !.ok = FALSE]
               [] token[1] \in {"null", "bool", "uint"} -> [next EXCEPT !.value = token]
               [] OTHER -> Record([next EXCEPT !.value = token], token)

unpack(in) == UnpackValue([ok |-> TRUE, in |-> in, at |-> 1, table |-> <<>>, value |-> End], 0)
-----------------------------------------------------------------------------
OpackInit == message \in {<<"array", <<>>>>, <<"dict", <<>>>>}

AddItem ==
    /\ message[1] = "array" /\ Len(Parts(message)) < MaxParts
    /\ \E v \in Elements : message' = <<"array", Append(message[2], v)>>

AddEntry ==
    /\ message[1] = "dict" /\ Len(Parts(message)) + 1 < MaxParts
    /\ \E k \in Keys, v \in Elements : message' = <<"dict", Append(message[2], <<k, v>>)>>

OpackNext == AddItem \/ AddEntry

OpackSpec == OpackInit /\ [][OpackNext]_message
-----------------------------------------------------------------------------
(* What a message is read back as, with every integer above the small ones  *)
(* in its width, and whether it can be packed at all.                       *)
RECURSIVE AsDecoded(_)

AsDecoded(v) ==
    CASE v[1] = "array" -> <<"array", [k \in DOMAIN v[2] |-> AsDecoded(v[2][k])]>>
      [] v[1] = "dict" -> <<"dict", [k \in DOMAIN v[2] |->
                                        <<AsDecoded(v[2][k][1]), AsDecoded(v[2][k][2])>>]>>
      [] OTHER -> Token(v)

RECURSIVE Packable(_, _)

Packable(v, depth) ==
    IF IsContainer(v)
    THEN depth < MaxDepth /\ \A k \in DOMAIN Parts(v) : Packable(Parts(v)[k], depth + 1)
    ELSE Encodable(v)

(* objects.rs:34: "aligns both sides". What is packed is unpacked as it     *)
(* was, and packs to the same again: writer and reader number alike through *)
(* containers, values that repeat, equal values of different bytes, a NaN   *)
(* that equals nothing, and pointers too long to be written.                *)
OpackRoundTrips ==
    LET packed == pack(message)
        read == unpack(packed.out)
    IN  /\ packed.ok <=> Packable(message, 0)
        /\ packed.ok => /\ read.ok /\ read.at = Len(packed.out) + 1
                        /\ read.value = AsDecoded(message)
                        /\ pack(read.value).out = packed.out
=============================================================================
