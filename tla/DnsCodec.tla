------------------------------ MODULE DnsCodec ------------------------------
(* DNS messages as they are packed and read (pyatv-mdns, dns: name.rs,       *)
(* message.rs, record.rs). A name whose end was written before is cut short  *)
(* by a pointer to it, and a service instance is one label however many dots *)
(* it has.                                                                   *)
(*                                                                           *)
(* A name is the sequence of its pieces between dots. On the wire one cell   *)
(* stands for a label, a pointer, the root, or the fixed fields of a record; *)
(* offsets and lengths count cells, and the length of a label its pieces.    *)
(* TXT contents are one cell.                                                *)
EXTENDS Naturals, SequencesExt

CONSTANTS
    Underscored,    \* the pieces that begin with '_'
    Transports,     \* "_tcp" and "_udp"
    LabelLimit,     \* MAX_LABEL_LENGTH
    PointerLimit,   \* MAX_POINTER_OFFSET
    JumpLimit,      \* MAX_POINTER_JUMPS
    HeaderLength,
    RecordsToSend,  \* [name, type, target], the target of a PTR or SRV
    MaxRecords      \* bound: records of a message

ASSUME DnsAssumption == {LabelLimit, JumpLimit, HeaderLength, PointerLimit} \subseteq Nat

VARIABLE dns   \* the questions, the other three sections one after the other, and the packet

Root == <<"">>
Field(x) == <<"field", x>>

(* name_to_labels, with split_name: an instance is what stands before the    *)
(* first _service._tcp.                                                      *)
name_to_labels(name) ==
    LET services == {k \in 1..Len(name) - 1 : name[k] \in Underscored /\ name[k + 1] \in Transports}
        before == IF services = {} THEN 0 ELSE Min(services) - 1
        single == [k \in 1..Len(name) - before |-> <<name[k + before]>>]
        labels == IF before = 0 THEN single ELSE <<SubSeq(name, 1, before)>> \o single
    IN  IF labels # <<>> /\ Last(labels) = Root THEN labels ELSE Append(labels, Root)

(* encode_label                                                              *)
Label(label) ==
    <<"label", SubSeq(label, 1, IF Len(label) < LabelLimit THEN Len(label) ELSE LabelLimit)>>

(* Mutant: every end is remembered, and a pointer has 14 bits for it.        *)
RememberedAll(at) == TRUE

Remembered(at) == at <= PointerLimit

(* NameCompressor::encode_labels, with the output and the offsets so far.    *)
EncodeName(e, name) ==
    LET labels == name_to_labels(name)
        End(k) == SubSeq(labels, k, Len(labels))
        At(k) == Len(e.out) + k - 1
        stop == Min({k \in DOMAIN labels : labels[k] = Root \/ End(k) \in DOMAIN e.offsets})
        fresh == {k \in 1..stop - 1 : e.compress /\ Remembered(At(k))}
        last == IF labels[stop] = Root THEN <<"root">>
                ELSE <<"pointer", e.offsets[End(stop)] % (PointerLimit + 1)>>
    IN  [e EXCEPT !.out = (@ \o [k \in 1..stop - 1 |-> Label(labels[k])]) \o <<last>>,
                  !.offsets = [end \in {End(k) : k \in fresh} |-> At(Len(labels) - Len(end) + 1)] @@ @]

(* encode_name: the target of an SRV, which is not to be compressed.         *)
EncodePlain(e, name) ==
    [e EXCEPT !.out = EncodeName([e EXCEPT !.offsets = <<>>, !.compress = FALSE], name).out]

WriteQuestion(e, q) == LET named == EncodeName(e, q.name)
                       IN  [named EXCEPT !.out = Append(@, Field(q.type))]

(* RecordData::write_with_length: the length is filled in behind the data.   *)
WriteData(e, r) ==
    LET head == [e EXCEPT !.out = Append(@, Field(0))]
        body == CASE r.type = "PTR" -> EncodeName(head, r.target)
                  [] r.type = "SRV" -> EncodePlain([head EXCEPT !.out = Append(@, Field("port"))], r.target)
                  [] OTHER -> [head EXCEPT !.out = Append(@, Field("data"))]
    IN  [body EXCEPT !.out[Len(head.out)] = Field(Len(body.out) - Len(head.out))]

WriteRecord(e, r) ==
    LET named == EncodeName(e, r.name)
    IN  WriteData([named EXCEPT !.out = Append(@, Field(r.type))], r)

(* pack and pack_compressed                                                  *)
pack_inner(message, compress) ==
    LET header == [k \in 1..HeaderLength |->
                      IF k = 1 THEN Field(<<Len(message.questions), Len(message.records)>>) ELSE Field(0)]
        start == [out |-> header, offsets |-> <<>>, compress |-> compress]
    IN  FoldLeft(WriteRecord, FoldLeft(WriteQuestion, start, message.questions), message.records).out
-----------------------------------------------------------------------------
(* parse_name: the pieces, and where the name ends where it began.           *)
ParseName(in, at) ==
    LET failed == [ok |-> FALSE, pieces |-> <<>>, end |-> at]
        Name[from \in 1..Len(in) + 1, jumps \in 0..JumpLimit] ==
            IF from > Len(in) THEN failed
            ELSE CASE in[from] = <<"root">> -> [ok |-> TRUE, pieces |-> <<>>, end |-> from + 1]
                   [] in[from][1] = "label" ->
                        [Name[from + 1, jumps] EXCEPT !.pieces = in[from][2] \o @]
                   [] in[from][1] = "pointer" ->
                        IF jumps = JumpLimit THEN failed
                        ELSE [Name[in[from][2] + 1, jumps + 1] EXCEPT !.end = from + 1]
                   [] OTHER -> failed
    IN  Name[at, 0]

ReadQuestion(d) ==
    LET name == ParseName(d.in, d.at)
    IN  [d EXCEPT !.ok = @ /\ name.ok, !.at = name.end + 1,
                  !.questions = Append(@, [name |-> name.pieces, type |-> d.in[name.end][2]])]

(* parse_rdata: a target, if there is one, and where the data ends.          *)
ParseData(in, type, start) ==
    LET target == ParseName(in, IF type = "SRV" THEN start + 1 ELSE start)
    IN  IF type \in {"PTR", "SRV"} THEN target ELSE [ok |-> TRUE, pieces |-> <<>>, end |-> start + 1]

(* DnsResource::unpack: what the data is read as has to fill its length.     *)
ReadRecord(d) ==
    LET name == ParseName(d.in, d.at)
        type == d.in[name.end][2]
        data == ParseData(d.in, type, name.end + 2)
    IN  [d EXCEPT !.ok = @ /\ name.ok /\ data.ok /\ d.in[name.end + 1] = Field(data.end - name.end - 2),
                  !.at = data.end,
                  !.records = Append(@, [name |-> name.pieces, type |-> type, target |-> data.pieces])]

unpack_message(in) ==
    LET start == [in |-> in, at |-> HeaderLength + 1, ok |-> TRUE, questions |-> <<>>, records |-> <<>>]
        Times(n) == [k \in 1..n |-> k]
        asked == FoldLeft(LAMBDA d, k : IF d.ok THEN ReadQuestion(d) ELSE d, start, Times(in[1][2][1]))
    IN  FoldLeft(LAMBDA d, k : IF d.ok THEN ReadRecord(d) ELSE d, asked, Times(in[1][2][2]))
-----------------------------------------------------------------------------
DnsInit == dns = [questions |-> <<>>, records |-> <<>>, packet |-> <<>>]

AddQuestion ==
    /\ dns.packet = <<>> /\ dns.records = <<>> /\ Len(dns.questions) < MaxRecords
    /\ \E r \in RecordsToSend :
          dns' = [dns EXCEPT !.questions = Append(@, [name |-> r.name, type |-> r.type])]

AddRecord ==
    /\ dns.packet = <<>> /\ Len(dns.questions) + Len(dns.records) < MaxRecords
    /\ \E r \in RecordsToSend : dns' = [dns EXCEPT !.records = Append(@, r)]

PackMessage ==
    /\ dns.packet = <<>>
    /\ \E compress \in BOOLEAN : dns' = [dns EXCEPT !.packet = pack_inner(dns, compress)]

DnsNext == AddQuestion \/ AddRecord \/ PackMessage
-----------------------------------------------------------------------------
(* A name as it is read: without the dot at its end, and with no more of an  *)
(* instance than a label takes.                                              *)
AsRead(name) ==
    LET labels == name_to_labels(name)
    IN  FlattenSeq([k \in 1..Len(labels) - 1 |-> Label(labels[k])[2]])

(* name.rs: whoever reads a message, packed with or without pointers, gets   *)
(* the names that were put in, in every record: pointers within pointers,    *)
(* into targets and questions, and none where the offset is too far.         *)
DnsRoundTrips ==
    LET read == unpack_message(dns.packet)
    IN  dns.packet # <<>> =>
            /\ read.ok /\ read.at = Len(dns.packet) + 1
            /\ read.questions = [k \in DOMAIN dns.questions |->
                                    [dns.questions[k] EXCEPT !.name = AsRead(@)]]
            /\ read.records = [k \in DOMAIN dns.records |->
                                  [dns.records[k] EXCEPT !.name = AsRead(@), !.target = AsRead(@)]]
=============================================================================
