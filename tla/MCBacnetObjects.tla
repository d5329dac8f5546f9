--------------------------- MODULE MCBacnetObjects ---------------------------
(* Constants of BacnetObjects for TLC. *)
EXTENDS BacnetObjects

CONSTANTS
    huge,   \* 1e39, more than a Real can carry
    c1, c2  \* clients

MCDevice == [instance |-> 1234, vendor_identifier |-> 999,
             max_apdu_length_accepted |-> 1476, segmentation_supported |-> 3]

\* IEEE 754 single precision, most significant byte first.
Zero == <<0, 0, 0, 0>>
One == <<63, 128, 0, 0>>
Level == <<65, 72, 0, 0>>  \* 12.5

MCInitial == 1 :> Zero

\* Routers forward what 1.2.16.8 and, on MS/TP, node 1 send: the first address is
\* misread, so that a request is taken for a Who-Is; the other is not.
Local == [to |-> -1, from |-> <<>>]
ByRouter == [to |-> 0, from |-> <<1, 2, 16, 8, 186, 192>>]
FromNode1 == [to |-> 0, from |-> <<1>>]
MCRequests ==
    {[kind |-> k, object |-> 1, value |-> Zero, route |-> Local] : k \in {"read", "discover", "cut"}}
        \cup {[kind |-> "write", object |-> 1, value |-> One, route |-> Local]}
        \cup {[kind |-> k, object |-> 9, value |-> Level, route |-> Local] : k \in {"read", "write"}}
        \cup {[kind |-> "write", object |-> 1, value |-> Level, route |-> r] : r \in {ByRouter, FromNode1}}

\* One client writes and then reads, or writes twice, next to another.
MCMaxRequests == c1 :> 2 @@ c2 :> 1

\* Threads start alike and no property names one.
MCSymmetry == Permutations(Threads)
=============================================================================
