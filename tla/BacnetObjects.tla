---------------------------- MODULE BacnetObjects ----------------------------
(***************************************************************************)
(* The BACnet/IP server while it serves.  socketserver gives every         *)
(* datagram a thread of its own, so the requests of one client, and copies *)
(* of one request, are handled in any order and at the same time.  The     *)
(* threads share the present-values of the Analog Value objects, which are *)
(* written under _analog_value_lock and read outside it.  The application  *)
(* may set present-values meanwhile.                                       *)
(*                                                                         *)
(* Clients send one request at a time and may repeat it or give up.  UDP   *)
(* may lose, delay and duplicate datagrams; a lost one is a copy that is   *)
(* never delivered.  Replies bear the invoke id of their request, which    *)
(* is the request's number here.                                           *)
(***************************************************************************)
EXTENDS BacnetCodec

CONSTANTS
    Clients,
    Threads,      \* threads that may handle datagrams at one time
    Initial,      \* present-value of each configured object
    ApiValues,    \* values the application sets
    Requests,     \* requests clients send
    MaxRequests,  \* bound on the requests of each client
    MaxAgain,     \* bound on the requests that are repeated, once each
    MaxSets       \* bound on the values the application sets

Configured == DOMAIN Initial
Reals == [1..4 -> 0..255]  \* a number that a Real can carry is its four bytes
Values == Reals \cup ApiValues

\* "cut" is a request that ends within the tag of its object identifier.  An
\* instance number has 22 bits, the length of an address one byte.  No address of a
\* client has more than six bytes, the size of those of BACnet/IP, /SC and Ethernet.
Request ==
    {q \in [kind : {"read", "write", "discover", "cut"}, object : 0..MaxInstance, value : Reals,
            route : [to : -1..255, from : Seq(0..255)]] : Len(q.route.from) <= 6}
AsDatagram(q) ==
    Datagram(q.route,
        CASE q.kind = "read" -> ReadRequest(AnalogValue, q.object, PresentValue)
          [] q.kind = "write" ->
                WriteRequest(AnalogValue, q.object, PresentValue, <<RealTag>> \o q.value)
          [] q.kind = "discover" -> WhoIsRequest(<<>>)
          [] q.kind = "cut" -> <<0, 5, 1, 12, Tag(0, TRUE) + 5>>)
Parsed == [q \in Requests |-> Meaning(AsDatagram(q))]
Intended(q) ==
    CASE q.kind = "read" -> [step |-> "read", object |-> q.object, property |-> PresentValue]
      [] q.kind = "write" -> [step |-> "write", object |-> q.object, real |-> q.value]
      [] q.kind = "discover" -> Respond
      [] q.kind = "cut" -> Drop

ASSUME BacnetAssumption ==
    /\ MaxRequests \in [Clients -> Nat] /\ MaxAgain \in Nat /\ MaxSets \in Nat
    /\ {"config", "application"} \cap Clients = {}
    /\ Configured \subseteq Nat /\ Initial \in [Configured -> Reals]
    /\ Requests \subseteq Request

VARIABLES
    \* the server
    value,     \* present_value of each Analog Value
    handler,   \* what each thread is doing: idle, or a step of a request
    \* the clients and the network
    requests,  \* requests each client has sent
    copies,    \* copies of each request in flight
    replies,   \* replies sent so far; a client may receive one at any later time
    awaiting,  \* the client waits for a reply to its last request
    \* history, read by no step but for the bounds
    log,       \* values each object has had, in order, with who set them
    sentAt,    \* length of the object's log when each request was first sent
    handled,   \* requests some thread has taken
    again,     \* requests that were repeated
    gaveUp,    \* clients that gave up on a write
    sets       \* values the application has set

network == <<requests, copies, awaiting, sentAt, again, gaveUp>>
vars == <<value, handler, replies, network, log, handled, sets>>

Idle == [pc |-> "idle"]
Asked(t) == Parsed[requests[handler[t].client][handler[t].i]]
Entry(by, i, v) == [by |-> by, i |-> i, value |-> v]

Init ==
    /\ value = Initial
    /\ handler = [t \in Threads |-> Idle]
    /\ requests = [c \in Clients |-> <<>>]
    /\ copies = [c \in Clients |-> <<>>]
    /\ replies = {}
    /\ awaiting = [c \in Clients |-> FALSE]
    /\ log = [o \in Configured |-> <<Entry("config", 0, Initial[o])>>]
    /\ sentAt = [c \in Clients |-> <<>>]
    /\ handled = {}
    /\ again = {}
    /\ gaveUp = {}
    /\ sets = 0

-----------------------------------------------------------------------------
(* Clients, network and application *)

Send(c) ==
    /\ ~awaiting[c]
    /\ Len(requests[c]) < MaxRequests[c]
    /\ \E q \in Requests :
          /\ requests' = [requests EXCEPT ![c] = Append(@, q)]
          /\ sentAt' = [sentAt EXCEPT ![c] =
                Append(@, IF q.object \in Configured THEN Len(log[q.object]) ELSE 0)]
    /\ copies' = [copies EXCEPT ![c] = Append(@, 1)]
    /\ awaiting' = [awaiting EXCEPT ![c] = TRUE]
    /\ UNCHANGED <<value, handler, replies, log, handled, again, gaveUp, sets>>

\* The client repeats the request it waits for, or the network duplicates one.
Repeat(c, i) ==
    /\ <<c, i>> \notin again /\ Cardinality(again) < MaxAgain
    /\ copies[c][i] > 0 \/ (awaiting[c] /\ i = Len(requests[c]))
    /\ copies' = [copies EXCEPT ![c][i] = @ + 1]
    /\ again' = again \cup {<<c, i>>}
    /\ UNCHANGED <<value, handler, replies, requests, awaiting, sentAt, gaveUp, log, handled, sets>>

Receive(c) ==
    /\ awaiting[c]
    /\ \E r \in replies : r.client = c /\ r.i = Len(requests[c])
    /\ awaiting' = [awaiting EXCEPT ![c] = FALSE]
    /\ UNCHANGED <<value, handler, replies, requests, copies, sentAt, again, gaveUp, log, handled, sets>>

GiveUp(c) ==
    /\ awaiting[c]
    /\ awaiting' = [awaiting EXCEPT ![c] = FALSE]
    /\ gaveUp' = IF Last(requests[c]).kind = "write" THEN gaveUp \cup {c} ELSE gaveUp
    /\ UNCHANGED <<value, handler, replies, requests, copies, sentAt, again, log, handled, sets>>

\* set_present_value raises KeyError for other objects.
SetPresentValue(o) ==
    /\ sets < MaxSets
    /\ sets' = sets + 1
    /\ \E v \in ApiValues :
          /\ value' = [value EXCEPT ![o] = v]
          /\ log' = [log EXCEPT ![o] = Append(@, Entry("application", 0, v))]
    /\ UNCHANGED <<handler, replies, network, handled>>

-----------------------------------------------------------------------------
(* handle_datagram, by thread t.  A reply is in flight as soon as its      *)
(* content is fixed: sending it later is the same as receiving it later.   *)

At(t, step) == handler[t].pc = step
Goto(t, step) == handler' = [handler EXCEPT ![t].pc = step]
End(t) == handler' = [handler EXCEPT ![t] = Idle]
ReplyTo(c, i, body) == replies' = replies \cup {[client |-> c, i |-> i, body |-> body]}
Answer(t, body) == ReplyTo(handler[t].client, handler[t].i, body) /\ End(t)
NoAnswer(t) == End(t) /\ UNCHANGED replies

\* A thread is made for a copy of request i of client c, and parses it; a request
\* it can answer, or drop, without what the threads share is done with at once.  An
\* answer to what was no Who-Is is no reply: an I-Am bears no invoke id.
Deliver(t, c, i) ==
    /\ At(t, "idle")
    /\ copies[c][i] > 0
    /\ copies' = [copies EXCEPT ![c][i] = @ - 1]
    /\ handled' = handled \cup {<<c, i>>}
    /\ LET q == requests[c][i]
           step == Parsed[q].step
       IN  /\ handler' = IF step \in {"read", "write"}
                         THEN [handler EXCEPT ![t] = [pc |-> step, client |-> c, i |-> i]]
                         ELSE handler
           /\ IF step = "answer" /\ q.kind = "discover" THEN ReplyTo(c, i, "device")
              ELSE UNCHANGED replies
    /\ UNCHANGED <<value, requests, awaiting, sentAt, again, gaveUp, log, sets>>

\* Mutant: without the test for an object that is not there.
LookupUnchecked(t) ==
    /\ At(t, "read")
    /\ Goto(t, IF Asked(t).object \in Configured THEN "value" ELSE "crashed")
    /\ UNCHANGED <<value, replies, network, log, handled, sets>>

\* Under the lock: the object, not yet its value.
Lookup(t) ==
    /\ At(t, "read")
    /\ IF Asked(t).object \in Configured THEN Goto(t, "value") ELSE End(t)
    /\ UNCHANGED <<value, replies, network, log, handled, sets>>

\* Mutant: the value of the configuration, not of the server's copy.
ReadConfig(t) ==
    /\ At(t, "value")
    /\ Answer(t, Initial[Asked(t).object])
    /\ UNCHANGED <<value, network, log, handled, sets>>

\* Outside the lock.  Every property is encoded whichever one was asked for, so
\* a present_value that no Real can carry fails them all: struct.pack raises.
ReadValue(t) ==
    /\ At(t, "value")
    /\ LET v == value[Asked(t).object] IN
       IF v \notin Reals THEN Goto(t, "crashed") /\ UNCHANGED replies
       ELSE IF Asked(t).property \in AnalogValueProperties THEN Answer(t, v)
       ELSE NoAnswer(t)
    /\ UNCHANGED <<value, network, log, handled, sets>>

\* What an assignment of v to the object's present_value adds to its log.
Logged(t, v) == log' = [log EXCEPT ![Asked(t).object] =
                           Append(@, Entry(handler[t].client, handler[t].i, v))]

\* Mutant: an unknown object is acknowledged, too.
WriteAcksAll(t) ==
    /\ At(t, "write")
    /\ LET q == Asked(t) IN
       IF q.object \in Configured
       THEN value' = [value EXCEPT ![q.object] = q.real] /\ Logged(t, q.real)
       ELSE UNCHANGED <<value, log>>
    /\ Answer(t, "ack")
    /\ UNCHANGED <<network, handled, sets>>

\* Mutant: the value is written to a copy of the object.
WriteCopy(t) ==
    /\ At(t, "write")
    /\ LET q == Asked(t) IN
       IF q.object \in Configured
       THEN Logged(t, q.real) /\ Answer(t, "ack")
       ELSE NoAnswer(t) /\ UNCHANGED log
    /\ UNCHANGED <<value, network, handled, sets>>

\* Mutant: struct.unpack(...) without [0].
WriteTuple(t) ==
    /\ At(t, "write")
    /\ LET q == Asked(t) IN
       IF q.object \in Configured
       THEN /\ value' = [value EXCEPT ![q.object] = <<q.real>>]
            /\ Logged(t, <<q.real>>) /\ Answer(t, "ack")
       ELSE NoAnswer(t) /\ UNCHANGED <<value, log>>
    /\ UNCHANGED <<network, handled, sets>>

\* Mutant: the request is dropped while another thread is about to write.
WriteTries(t) ==
    /\ At(t, "write")
    /\ LET q == Asked(t) IN
       IF q.object \in Configured /\ ~\E u \in Threads \ {t} : At(u, "write")
       THEN /\ value' = [value EXCEPT ![q.object] = q.real]
            /\ Logged(t, q.real) /\ Answer(t, "ack")
       ELSE NoAnswer(t) /\ UNCHANGED <<value, log>>
    /\ UNCHANGED <<network, handled, sets>>

\* Under the lock: the object and its value.
Write(t) ==
    /\ At(t, "write")
    /\ LET q == Asked(t) IN
       IF q.object \in Configured
       THEN /\ value' = [value EXCEPT ![q.object] = q.real]
            /\ Logged(t, q.real) /\ Answer(t, "ack")
       ELSE NoAnswer(t) /\ UNCHANGED <<value, log>>
    /\ UNCHANGED <<network, handled, sets>>

\* The exception is logged by socketserver.
Crash(t) ==
    /\ At(t, "crashed")
    /\ NoAnswer(t)
    /\ UNCHANGED <<value, network, log, handled, sets>>

HandlerStep(t) == Lookup(t) \/ ReadValue(t) \/ Write(t) \/ Crash(t)

Next ==
    \/ \E c \in Clients : Send(c) \/ Receive(c) \/ GiveUp(c)
    \/ \E c \in Clients : \E i \in DOMAIN requests[c] :
          Repeat(c, i) \/ \E t \in Threads : Deliver(t, c, i)
    \/ \E t \in Threads : HandlerStep(t)
    \/ \E o \in Configured : SetPresentValue(o)

Spec == Init /\ [][Next]_vars

-----------------------------------------------------------------------------
(* Properties *)

Bodies == {"ack", "device"} \cup Reals

\* A request with a source address that is misread is dropped, or answered as a
\* Who-Is: neither part of the address nor part of the request, taken for a request,
\* reads or writes anything.
NeverAnother ==
    \A q \in Requests : \A route \in Routes :
        Misread(route) => Meaning(AsDatagram([q EXCEPT !.route = route])) \in {Drop, Respond}

\* What was sent is what the handler that takes it does: the route and the widths
\* of the numbers make no difference to its meaning, but for what MeaningIsIntended
\* excludes; and what a router forwards is never taken for another read or write.
RequestsUnderstood == handled # {} => MeaningIsIntended /\ NeverAnother

\* Every variable stays in its range; above all a present_value is a number.
TypeOK ==
    /\ value \in [Configured -> Values]
    /\ handler \in [Threads -> {Idle} \cup
          [pc : {"read", "value", "write", "crashed"}, client : Clients, i : Nat]]
    /\ replies \subseteq [client : Clients, i : Nat, body : Bodies]
    /\ requests \in [Clients -> Seq(Requests)]
    /\ copies \in [Clients -> Seq(Nat)]
    /\ awaiting \in [Clients -> BOOLEAN]

Applied(c, i) ==
    LET o == requests[c][i].object IN
    o \in Configured /\ \E k \in DOMAIN log[o] : log[o][k].by = c /\ log[o][k].i = i

InHand(c, i) ==
    \E t \in Threads : ~At(t, "idle") /\ handler[t].client = c /\ handler[t].i = i

\* What a reply says is so.  An acknowledged write has taken place.  A read is
\* atomic although it is made outside the lock: its reply carries a value the
\* object had at some moment since the request was sent, so that a client whose
\* write is acknowledged and who then reads sees that write or a later one.
RepliesAreTrue ==
    \A r \in replies :
        LET q == requests[r.client][r.i] IN
        /\ q.kind = "write" => r.body = "ack" /\ Applied(r.client, r.i)
        /\ q.kind = "read" =>
              /\ q.object \in Configured
              /\ \E k \in sentAt[r.client][r.i] .. Len(log[q.object]) : log[q.object][k].value = r.body

\* Threads and reordering lose no update: the value of a client's last write
\* stands once it is acknowledged, unless a datagram of the client was repeated,
\* it gave up on an earlier write, or somebody else writes the object.
LastAckedWriteStands ==
    \A c \in Clients \ gaveUp :
        requests[c] # <<>> /\ ~awaiting[c] /\ (\A i \in DOMAIN requests[c] : <<c, i>> \notin again) =>
            LET q == Last(requests[c]) IN
            q.kind = "write" /\ (\A k \in DOMAIN log[q.object] : log[q.object][k].by \in {c, "config"})
                => value[q.object] = q.value

\* A write that was handled takes place, but for three reasons: the object is not
\* configured, a byte of the value looks like the closing tag, or a router forwarded
\* the request and the server misread its source address.
UnappliedWriteHasCause ==
    \A c \in Clients : \A i \in DOMAIN requests[c] :
        LET q == requests[c][i] IN
        <<c, i>> \in handled /\ q.kind = "write" /\ ~Applied(c, i) =>
            \/ InHand(c, i)
            \/ q.object \notin Configured
            \/ \E k \in 1..4 : q.value[k] = Closing
            \/ Misread(q.route)

\* Only the application can make an object unreadable: what clients write can be
\* read again.
CrashNeedsApplication ==
    \A t \in Threads : At(t, "crashed") =>
        LET o == Asked(t).object IN
        o \in Configured /\ \E k \in DOMAIN log[o] : log[o][k].by = "application"

\* The README says the server supports WriteProperty for Analog Value objects:
\* every handled write of a number to a configured object takes place.
HandledWriteApplied ==
    \A c \in Clients : \A i \in DOMAIN requests[c] :
        LET q == requests[c][i] IN
        <<c, i>> \in handled /\ q.kind = "write" /\ q.object \in Configured =>
            \/ Applied(c, i)
            \/ InHand(c, i)
=============================================================================
