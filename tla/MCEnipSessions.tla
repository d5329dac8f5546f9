--------------------------- MODULE MCEnipSessions ---------------------------
(* Constants of EnipSessions for TLC. *)
EXTENDS EnipSessions

\* The defaults of EnipIdentity, the product name shortened to its first letters.
MCIdentity ==
    [vendor_id |-> 1, device_type |-> 12, product_code |-> 65001, revision_major |-> 1,
     revision_minor |-> 0, status |-> 48, serial_number |-> <<38, 32, 218, 192>>,
     product_name |-> <<49, 55, 53, 54>>, state |-> 3]

Frm(cmd, handle, items, payload) ==
    [cmd |-> cmd, handle |-> handle, interface |-> 0, count |-> Len(items), items |-> items,
     payload |-> payload]
NullAddress == [unconnected |-> FALSE, bytes |-> <<>>]
Cip(bytes) == [unconnected |-> TRUE, bytes |-> bytes]
Bytes(n) == [k \in 1..n |-> k]

\* Handle 1 is the first to be granted.  The Set fills the largest payload there
\* is, MaxPayload = 45, with 25 bytes of data behind the shortest frame around.
MCFrames ==
    {Frm("register", 0, <<>>, 1), Frm("unregister", 1, <<>>, 0), Frm("identity", 0, <<>>, 0),
     Frm("stateless", 0, <<>>, 1),
     Frm("rrdata", 1, <<NullAddress, Cip(Request(GetAttributeSingle, 4, 100, 3, <<>>))>>, 1),
     Frm("rrdata", 1, <<Cip(Request(SetAttributeSingle, 4, 100, 3, Bytes(25)))>>, 2)}

\* 26 bytes are one more than a response has room for.
MCConfigurations == {[a \in {100} |-> Bytes(n)] : n \in {0, 26}}
MCApiData == {Bytes(26)}

\* Connections start alike and no property names one.
ConnSymmetry == Permutations(Conns)
=============================================================================
