----------------------------- MODULE CipRequests -----------------------------
(***************************************************************************)
(* What EnipServer does with a CIP request: path segments, services and    *)
(* status codes, the Identity object and the Assembly objects.  Pure       *)
(* operators: EnipSessions applies them to its shared Assembly data.       *)
(*                                                                         *)
(* A request is a sequence of bytes; assemblies is a function from the     *)
(* Assembly instances there are to their bytes.                            *)
(***************************************************************************)
EXTENDS Integers, SequencesExt

CONSTANT Identity  \* EnipIdentity, product_name as its characters' codes, serial_number as its bytes

\* Dictionary f with k set to v, and with k set to v unless it is there.
Updated(f, k, v) == [x \in DOMAIN f \cup {k} |-> IF x = k THEN v ELSE f[x]]
Default(f, k, v) == [x \in DOMAIN f \cup {k} |-> IF x \in DOMAIN f THEN f[x] ELSE v]

Success                == 0
PathSegmentError       == 4
PathDestinationUnknown == 5
ServiceNotSupported    == 8
AttributeNotSettable   == 14
NotEnoughData          == 19
AttributeNotSupported  == 20

GetAttributesAll   == 1
GetAttributeSingle == 14
SetAttributeSingle == 16
IdentityClass == 1
AssemblyClass == 4
AssemblyData  == 3

-----------------------------------------------------------------------------
(* Paths *)

SegmentType ==
    [s \in (32..34) \cup (36..38) \cup (48..50) |->
        IF s <= 34 THEN "class" ELSE IF s <= 38 THEN "instance" ELSE "attribute"]
\* Bytes of its value: 1, 2 or 4.
Width(s) == CASE s % 4 = 0 -> 1 [] s % 4 = 1 -> 2 [] OTHER -> 4

LittleEndian(bytes) ==
    LET from[i \in 1..Len(bytes) + 1] ==
          IF i > Len(bytes) THEN 0 ELSE bytes[i] + 256 * from[i + 1]
    IN  from[1]

\* Mutant: zero bytes are padding to two bytes, not skipped one by one.
ParseByWord(path) ==
    LET from[i \in 1..Len(path) + 2] ==
          IF i > Len(path) THEN <<>>
          ELSE IF path[i] = 0 THEN from[i + 2]
          ELSE IF path[i] \notin DOMAIN SegmentType \/ i + Width(path[i]) > Len(path)
          THEN [error |-> path[i]]
          ELSE Default(from[i + 1 + Width(path[i])], SegmentType[path[i]],
                       LittleEndian(SubSeq(path, i + 1, i + Width(path[i]))))
    IN  from[1]

\* From each kind of segment in the path to its value, where the last one counts,
\* zero bytes between segments skipped; "error" when one is unknown or cut short.
ParsePath(path) ==
    LET from[i \in 1..Len(path) + 1] ==
          IF i > Len(path) THEN <<>>
          ELSE IF path[i] = 0 THEN from[i + 1]
          ELSE IF path[i] \notin DOMAIN SegmentType \/ i + Width(path[i]) > Len(path)
          THEN [error |-> path[i]]
          ELSE Default(from[i + 1 + Width(path[i])], SegmentType[path[i]],
                       LittleEndian(SubSeq(path, i + 1, i + Width(path[i]))))
    IN  from[1]

WellFormed(p) == {"class", "instance"} \subseteq DOMAIN p /\ "error" \notin DOMAIN p

-----------------------------------------------------------------------------
(* Objects *)

Reply(status, bytes) == [status |-> status, data |-> bytes]
Refusal(status) == Reply(status, <<>>)
\* struct.error or UnicodeEncodeError: the handler thread dies.
Raises == Refusal(-1)

U16(n) == <<n % 256, n \div 256>>

\* The name is encoded as ASCII and struct.pack raises when a value is too wide;
\* every attribute is packed, whichever is asked for.
NameIsAscii == ToSet(Identity.product_name) \subseteq 0..127
FieldsFit ==
    LET id == Identity IN
    /\ {id.vendor_id, id.device_type, id.product_code, id.status} \subseteq 0..65535
    /\ {id.revision_major, id.revision_minor, id.state, Len(id.product_name)} \subseteq 0..255
    /\ Len(id.serial_number) = 4
IdentityPacks == NameIsAscii /\ FieldsFit

IdentityAttributes ==
    LET id == Identity IN
    << U16(id.vendor_id), U16(id.device_type), U16(id.product_code),
       <<id.revision_major, id.revision_minor>>, U16(id.status), id.serial_number,
       <<Len(id.product_name)>> \o id.product_name, <<id.state>> >>

IsIdentity(p) == p["class"] = IdentityClass /\ p["instance"] = 1
IsAssembly(p) == p["class"] = AssemblyClass

GetAttribute(p, attribute, assemblies) ==
    IF IsIdentity(p) /\ ~IdentityPacks THEN Raises
    ELSE IF IsIdentity(p) /\ attribute \in DOMAIN IdentityAttributes
    THEN Reply(Success, IdentityAttributes[attribute])
    ELSE IF ~(IsIdentity(p) \/ IsAssembly(p)) THEN Refusal(PathDestinationUnknown)
    ELSE IF IsIdentity(p) \/ attribute # AssemblyData THEN Refusal(AttributeNotSupported)
    ELSE IF p["instance"] \notin DOMAIN assemblies THEN Refusal(PathDestinationUnknown)
    ELSE Reply(Success, assemblies[p["instance"]])

GetAll(p, assemblies) ==
    IF IsIdentity(p) /\ ~IdentityPacks THEN Raises
    ELSE IF IsIdentity(p)
    THEN Reply(Success, FlattenSeq(SubSeq(IdentityAttributes, 1, 7)))
    ELSE IF IsAssembly(p) THEN GetAttribute(p, AssemblyData, assemblies)
    ELSE Refusal(PathDestinationUnknown)

\* Mutant: an instance that is not there is made, as the application may do.
SetCreates(p, attribute, assemblies) ==
    IF IsIdentity(p) THEN AttributeNotSettable
    ELSE IF ~IsAssembly(p) THEN PathDestinationUnknown
    ELSE IF attribute # AssemblyData THEN AttributeNotSupported
    ELSE Success

SetStatus(p, attribute, assemblies) ==
    IF IsIdentity(p) THEN AttributeNotSettable
    ELSE IF ~IsAssembly(p) THEN PathDestinationUnknown
    ELSE IF attribute # AssemblyData THEN AttributeNotSupported
    ELSE IF p["instance"] \notin DOMAIN assemblies THEN PathDestinationUnknown
    ELSE Success

-----------------------------------------------------------------------------
(* Requests: service, length of the path in words, path, data *)

PathEnd(req) == 2 + 2 * req[2]
PathOf(req) == ParsePath(SubSeq(req, 3, PathEnd(req)))
DataOf(req) == SubSeq(req, PathEnd(req) + 1, Len(req))

\* The status and the data of the response.
Answer(req, assemblies) ==
    LET p == PathOf(req) IN
    IF Len(req) < 2 \/ Len(req) < PathEnd(req) THEN Refusal(NotEnoughData)
    ELSE IF ~WellFormed(p) THEN Refusal(PathSegmentError)
    ELSE IF req[1] = GetAttributesAll THEN GetAll(p, assemblies)
    ELSE IF req[1] \notin {GetAttributeSingle, SetAttributeSingle} THEN Refusal(ServiceNotSupported)
    ELSE IF "attribute" \notin DOMAIN p THEN Refusal(PathDestinationUnknown)
    ELSE IF req[1] = GetAttributeSingle THEN GetAttribute(p, p["attribute"], assemblies)
    ELSE Refusal(SetStatus(p, p["attribute"], assemblies))

\* The Assembly data the request leaves behind.
AssembliesAfter(req, assemblies) ==
    IF Len(req) >= 2 /\ req[1] = SetAttributeSingle /\ Answer(req, assemblies).status = Success
    THEN Updated(assemblies, PathOf(req)["instance"], DataOf(req))
    ELSE assemblies

-----------------------------------------------------------------------------
(* Properties *)

\* Segments to be sent: a value in any width that holds it, after some zero bytes
\* (pad), packed or, when it is wider than a byte, in CIP's padded format, which has
\* a zero byte between the code and the value.
SentSegments ==
    {[code |-> c, bytes |-> b, pad |-> n, padded |-> FALSE] :
        c \in {32, 36, 48}, n \in {0, 1},
        b \in {<<3>>, <<3, 0>>, <<0, 3>>, <<3, 0, 0, 0>>, <<0, 0, 3, 0>>}}
    \cup
    {[code |-> c, bytes |-> b, pad |-> 0, padded |-> TRUE] :
        c \in {32, 36, 48}, b \in {<<3, 0>>, <<0, 3>>, <<0, 0, 3, 0>>}}
Zeros(n) == [k \in 1..n |-> 0]
Encoded(s) ==
    Zeros(s.pad) \o <<s.code + (Len(s.bytes) \div 2)>>
        \o Zeros(IF s.padded THEN 1 ELSE 0) \o s.bytes
SentPaths == UNION {[1..n -> SentSegments] : n \in 1..3}

\* What the server makes of a segment.  It knows the packed format only: of a padded
\* segment it takes the pad byte for the value's first byte, which makes the value
\* 256 times too large, and the value's last byte for the beginning of what follows.
ValueRead(s) == (IF s.padded THEN 256 ELSE 1) * LittleEndian(s.bytes)
Overruns(s) == s.padded /\ Last(s.bytes) # 0

\* A path means the last class, instance and attribute in it, in whatever widths and
\* behind however many zero bytes they were sent, the padded ones 256 times too
\* large; it is refused when a padded segment runs over into what follows, or when
\* it is cut inside the value of its last segment, instead of being read as a
\* shorter one.
MeansItsSegments(segs) ==
    LET path == FlattenSeq([i \in DOMAIN segs |-> Encoded(segs[i])])
        p == ParsePath(path)
    IN  IF \E i \in DOMAIN segs : Overruns(segs[i]) THEN ~WellFormed(p)
        ELSE /\ DOMAIN p = {SegmentType[segs[i].code] : i \in DOMAIN segs}
             /\ \A i \in DOMAIN segs :
                   \/ \E j \in i + 1..Len(segs) : segs[j].code = segs[i].code
                   \/ p[SegmentType[segs[i].code]] = ValueRead(segs[i])
             /\ Last(segs).padded \/ \A n \in 1..Len(Last(segs).bytes) :
                   ~WellFormed(ParsePath(SubSeq(path, 1, Len(path) - n)))
FormatsHaveMeaning == \A segs \in SentPaths : MeansItsSegments(segs)

\* Requests for each service, with and without an attribute, and tables of objects.
Request(service, c, i, a, value) ==
    LET path == <<32, c, 36, i>> \o (IF a = 0 THEN <<>> ELSE <<48, a>>)
    IN  <<service, Len(path) \div 2>> \o path \o value
Values == {<<>>, <<7>>, <<1, 2>>}
Tables == UNION {[S -> Values] : S \in SUBSET {1, 100}}

\* The services agree on the objects there are.  What a successful Set wrote is
\* what Get returns, nothing else changes, and a Set succeeds just where a Get
\* of Assembly data does; GetAttributesAll is what the single Gets return, one
\* after the other.
ServicesMatch(c, i, a, v, t) ==
    LET get == Answer(Request(GetAttributeSingle, c, i, a, <<>>), t)
        set == Answer(Request(SetAttributeSingle, c, i, a, v), t)
        after == AssembliesAfter(Request(SetAttributeSingle, c, i, a, v), t)
        all == Answer(Request(GetAttributesAll, c, i, a, <<>>), t)
        singles == {b \in 1..9 :
            Answer(Request(GetAttributeSingle, c, i, b, <<>>), t).status = Success}
    IN  /\ set.status = Success <=> c = AssemblyClass /\ get.status = Success
        /\ set.status = Success =>
              Answer(Request(GetAttributeSingle, c, i, a, <<>>), after) = Reply(Success, v)
        /\ DOMAIN after = DOMAIN t
        /\ \A j \in DOMAIN t : after[j] # t[j] => j = i /\ set.status = Success
        /\ all.status = Success <=> singles # {}
        /\ all.status = Success =>
              all.data = FlattenSeq([b \in 1..7 |->
                  Answer(Request(GetAttributeSingle, c, i, b, <<>>), t).data])
ServicesConsistent ==
    \A c \in {1, 4, 5}, i \in {1, 100, 101}, a \in 0..9, v \in Values, t \in Tables :
        ServicesMatch(c, i, a, v, t)
=============================================================================
