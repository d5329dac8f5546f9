----------------------------- MODULE BacnetCodec -----------------------------
(***************************************************************************)
(* How BacnetServer reads a datagram: BVLC and NPDU headers, the tags of   *)
(* the service requests, and what is to be done then; and what it, and the *)
(* clients, write.  Pure operators on sequences of bytes: BacnetObjects    *)
(* applies them to the datagrams its threads take.                         *)
(***************************************************************************)
EXTENDS Integers, SequencesExt

CONSTANT Device  \* BacnetDevice, without its strings

AnalogValue == 2
DeviceType == 8
PresentValue == 85
AnalogValueProperties == {75, 77, 79, 28, PresentValue, 117, 111}
DeviceProperties == {75, 77, 79, 28, 121, 120, 70, 62, 107, 98, 99, 76}

\* An instance number has 22 bits.
MaxInstance == 4194303

\* ObjectId and Unsigned are those of the code for such a device only.
ASSUME DeviceAssumption ==
    /\ Device.instance \in 0..MaxInstance
    /\ {Device.max_apdu_length_accepted, Device.segmentation_supported,
        Device.vendor_identifier} \subseteq Nat

From(s, k) == SubSeq(s, k, Len(s))
Bit(b, mask) == (b \div mask) % 2 = 1
Number(bytes) ==
    LET upTo[k \in 0..Len(bytes)] == IF k = 0 THEN 0 ELSE 256 * upTo[k - 1] + bytes[k]
    IN  upTo[Len(bytes)]

-----------------------------------------------------------------------------
(* Encoding *)

Tag(number, context) == 16 * number + (IF context THEN 8 ELSE 0)
Unsigned(n) ==
    LET bytes[k \in 0..n] == IF k < 256 THEN <<k>> ELSE bytes[k \div 256] \o <<k % 256>>
    IN  bytes[n]
\* The type in the upper ten bits.
ObjectId(type, instance) ==
    << type \div 4, (type % 4) * 64 + instance \div 65536, (instance \div 256) % 256, instance % 256 >>
Tagged(tag, bytes) ==
    (IF Len(bytes) <= 4 THEN <<tag + Len(bytes)>> ELSE <<tag + 5, Len(bytes)>>) \o bytes

Opening == Tag(3, TRUE) + 6
Closing == Tag(3, TRUE) + 7
RealTag == Tag(4, FALSE) + 4

Bvlc(function, npdu) == <<129, function, (4 + Len(npdu)) \div 256, (4 + Len(npdu)) % 256>> \o npdu
IAm ==
    Bvlc(10, <<1, 0>> \o <<16, 0>>
        \o Tagged(Tag(12, FALSE), ObjectId(DeviceType, Device.instance))
        \o Tagged(Tag(2, FALSE), Unsigned(Device.max_apdu_length_accepted))
        \o Tagged(Tag(9, FALSE), Unsigned(Device.segmentation_supported))
        \o Tagged(Tag(2, FALSE), Unsigned(Device.vendor_identifier)))

-----------------------------------------------------------------------------
(* Decoding *)

\* The element of payload p at position k, if it bears the tag: its bytes and the
\* position after it, else the same position; "raises" for the IndexError when p
\* ends before the length of an extended tag.
Element(p, k, tag) ==
    LET none == [is |-> "no", bytes |-> <<>>, next |-> k]
        extended == p[k] % 8 = 5
        first == IF extended THEN k + 2 ELSE k + 1
        next == first + (IF extended THEN p[k + 1] ELSE p[k] % 8)
    IN  IF k > Len(p) THEN none
        ELSE IF (p[k] \div 8) * 8 # tag THEN none
        ELSE IF extended /\ k = Len(p) THEN [none EXCEPT !.is = "raises"]
        ELSE IF next > Len(p) + 1 THEN none
        ELSE [is |-> "yes", bytes |-> SubSeq(p, first, next - 1), next |-> next]

\* Object, property and, passed over, array index; what follows is at next.
PropertyReference(p) ==
    LET e[n \in 0..2] == Element(p, IF n = 0 THEN 1 ELSE e[n - 1].next, Tag(n, TRUE))
        id == Number(e[0].bytes)
    IN  IF e[0].is = "yes" /\ Len(e[0].bytes) = 4 /\ e[1].is = "yes" /\ e[2].is # "raises"
        THEN [is |-> "yes", type |-> id \div (MaxInstance + 1), object |-> id % (MaxInstance + 1),
              property |-> Number(e[1].bytes), next |-> e[2].next]
        ELSE [is |-> "no"]

-----------------------------------------------------------------------------
(* What is to be done for a datagram: "answer" it from the configuration   *)
(* alone, "read" or "write" an Analog Value, or "drop" it.  An exception   *)
(* drops it, too: socketserver logs it.                                    *)

Drop == [step |-> "drop"]
Respond == [step |-> "answer"]

WhoIs(p) ==
    LET lower == Element(p, 1, Tag(2, FALSE))
        upper == Element(p, lower.next, Tag(2, FALSE))
    IN  IF lower.is = "no" THEN Respond
        ELSE IF "raises" \in {lower.is, upper.is} \/ Device.instance < Number(lower.bytes) THEN Drop
        ELSE IF upper.is = "yes" /\ Device.instance > Number(upper.bytes) THEN Drop
        ELSE Respond

\* Of payload p, which begins with the reference r.
ReadReferenced(r, p) ==
    IF r.is # "yes" \/ r.next # Len(p) + 1 THEN Drop
    ELSE IF r.type = DeviceType /\ r.object = Device.instance
    THEN IF r.property \in DeviceProperties THEN Respond ELSE Drop
    ELSE IF r.type = AnalogValue
    THEN [step |-> "read", object |-> r.object, property |-> r.property]
    ELSE Drop

ReadProperty(p) == ReadReferenced(PropertyReference(p), p)

RealAccepted(bytes) == Len(bytes) = 5 /\ Head(bytes) = RealTag

\* The property value ends at the first byte that looks like the closing tag.
WriteReferenced(r, p) ==
    LET ends == {k \in r.next + 1..Len(p) : p[k] = Closing}
        end == CHOOSE k \in ends : \A m \in ends : k <= m
        written == SubSeq(p, r.next + 1, end - 1)
    IN  IF r.is # "yes" \/ r.next > Len(p) THEN Drop
        ELSE IF p[r.next] # Opening \/ ends = {} THEN Drop
        ELSE IF r.type = AnalogValue /\ r.property = PresentValue /\ RealAccepted(written)
        THEN [step |-> "write", object |-> r.object, real |-> Tail(written)]
        ELSE Drop
WriteProperty(p) == WriteReferenced(PropertyReference(p), p)

\* Mutant: without the hop count.
ApduStartNoHops(n) ==
    LET destination == IF ~Bit(n[2], 32) THEN 2
                       ELSE IF Len(n) < 5 THEN Len(n) + 1 ELSE 5 + n[5]
        source == IF ~Bit(n[2], 8) THEN destination
                  ELSE IF Len(n) < destination + 3 THEN Len(n) + 1
                  ELSE destination + 3 + n[destination + 3]
    IN  IF Bit(n[2], 128) THEN source + 1 ELSE source

\* Bytes of the NPDU header; more than there are, if it is cut short.  The hop
\* count is passed over with the destination, although it follows the source.
ApduStart(n) ==
    LET destination == IF ~Bit(n[2], 32) THEN 2
                       ELSE IF Len(n) < 5 THEN Len(n) + 1 ELSE 5 + n[5] + 1
        source == IF ~Bit(n[2], 8) THEN destination
                  ELSE IF Len(n) < destination + 3 THEN Len(n) + 1
                  ELSE destination + 3 + n[destination + 3]
    IN  IF Bit(n[2], 128) THEN source + 1 ELSE source

Apdu(d) ==
    LET n == From(d, 5) IN
    IF Len(d) < 6 THEN <<>>
    ELSE IF d[1] # 129 \/ d[2] \notin {10, 11} \/ Number(SubSeq(d, 3, 4)) # Len(d) THEN <<>>
    ELSE IF n[1] # 1 \/ ApduStart(n) > Len(n) THEN <<>>
    ELSE From(n, ApduStart(n) + 1)

ApduMeaning(a) ==
    IF Len(a) < 2 THEN Drop
    ELSE IF a[1] \div 16 = 1 THEN IF a[2] = 8 THEN WhoIs(From(a, 3)) ELSE Drop
    ELSE IF a[1] \div 16 # 0 \/ Len(a) < 4 THEN Drop
    ELSE IF a[4] = 12 THEN ReadProperty(From(a, 5))
    ELSE IF a[4] = 15 THEN WriteProperty(From(a, 5))
    ELSE Drop

\* handle_datagram, but for what touches the objects.
Meaning(d) == ApduMeaning(Apdu(d))

-----------------------------------------------------------------------------
(* Clients.  A route is what the NPDU header says of the way: the length   *)
(* of the destination address, or -1 where there is none, and the source   *)
(* address, or <<>>.  The bytes of a destination are passed over.          *)

Address(bytes) == <<0, 5, Len(bytes)>> \o bytes
Datagram(route, apdu) ==
    Bvlc(10, <<1, (IF route.to < 0 THEN 0 ELSE 32) + (IF route.from = <<>> THEN 0 ELSE 8)>>
        \o (IF route.to < 0 THEN <<>> ELSE Address([k \in 1..route.to |-> 7]))
        \o (IF route.from = <<>> THEN <<>> ELSE Address(route.from))
        \o (IF route.to < 0 THEN <<>> ELSE <<255>>)
        \o apdu)
Reference(type, instance, property) ==
    Tagged(Tag(0, TRUE), ObjectId(type, instance)) \o Tagged(Tag(1, TRUE), Unsigned(property))
ReadRequest(type, instance, property) ==
    <<0, 5, 1, 12>> \o Reference(type, instance, property)
WriteRequest(type, instance, property, bytes) ==
    <<0, 5, 1, 15>> \o Reference(type, instance, property) \o <<Opening>> \o bytes \o <<Closing>>
WhoIsRequest(limits) ==
    <<16, 8>> \o FlattenSeq([k \in DOMAIN limits |-> Tagged(Tag(2, FALSE), Unsigned(limits[k]))])

\* The Starter's readiness probe, and its test of the response.
Probe == <<129, 10, 0, 8, 1, 0, 16, 8>>
ProbeAccepts(response) ==
    Len(response) >= 8 /\ SubSeq(response, 1, 2) = <<129, 10>> /\ SubSeq(response, 7, 8) = <<16, 0>>

-----------------------------------------------------------------------------
(* Properties *)

\* Of MS/TP and of BACnet/IP nodes.
SourceAddresses == {<<1>>, <<5>>, <<10, 0, 0, 5, 186, 192>>, <<6, 0, 0, 5, 186, 192>>,
                    <<1, 2, 16, 8, 186, 192>>, <<0, 0, 0, 0, 12, 12>>}
Routes == {[to |-> n, from |-> m] : n \in {-1, 0, 6}, m \in {<<>>} \cup SourceAddresses}
Instances == {0, 1, 63, Device.instance, 65536, MaxInstance}

\* Behind a destination, the first byte of the source address is taken for its
\* length, since the hop count was passed over too early.
Misread(route) == route.to >= 0 /\ route.from # <<>> /\ Head(route.from) # Len(route.from)

\* What a client means is what the server does, whatever the route, the widths of
\* the numbers and the object asked for, but for two kinds of request: those a
\* router forwards with a source address that is misread, and writes of a value in
\* which a byte looks like the closing tag.  The probe of the Starter is answered,
\* and the answer is one the Starter accepts.
MeaningIsIntended ==
    /\ \A route \in Routes, instance \in Instances, property \in {0, 28, 75, PresentValue, 300} :
          ~Misread(route) =>
          /\ Meaning(Datagram(route, ReadRequest(AnalogValue, instance, property)))
                = [step |-> "read", object |-> instance, property |-> property]
          /\ Meaning(Datagram(route, ReadRequest(DeviceType, instance, property)))
                = IF instance = Device.instance /\ property \in DeviceProperties
                  THEN Respond ELSE Drop
          /\ \A real \in [1..4 -> {0, Closing, 65, 255}] :
                Meaning(Datagram(route, WriteRequest(AnalogValue, instance, property, <<RealTag>> \o real)))
                   = IF property = PresentValue /\ \A k \in 1..4 : real[k] # Closing
                     THEN [step |-> "write", object |-> instance, real |-> real] ELSE Drop
    /\ \A route \in Routes : \A low, high \in Instances :
          ~Misread(route) =>
          /\ Meaning(Datagram(route, WhoIsRequest(<<>>))) = Respond
          /\ Meaning(Datagram(route, WhoIsRequest(<<low, high>>)))
                = IF Device.instance \in low..high THEN Respond ELSE Drop
    /\ Meaning(Probe) = Respond /\ ProbeAccepts(IAm)
=============================================================================
