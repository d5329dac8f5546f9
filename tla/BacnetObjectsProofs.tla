------------------------ MODULE BacnetObjectsProofs ------------------------
(***************************************************************************)
(* The safety properties of BacnetObjects, for any number of clients,      *)
(* threads, objects and requests.  IInv is the inductive invariant: what   *)
(* was handled, replied to and logged fits what was sent, and a thread is  *)
(* where its request sends it.  OneByOne, inductive relative to IInv, says *)
(* in which order a client's own writes take place.                        *)
(***************************************************************************)
EXTENDS BacnetCodecProofs

-----------------------------------------------------------------------------
(* The parts of the invariant *)

\* The histories stay in their ranges and match each other.
Entries == [by : Clients \cup {"config", "application"}, i : Nat, value : Values]
Sent(c) == 1..Len(requests[c])
Histories ==
    /\ log \in [Configured -> Seq(Entries)]
    /\ sentAt \in [Clients -> Seq(Nat)]
    /\ \A c \in Clients : Len(copies[c]) = Len(requests[c]) /\ Len(sentAt[c]) = Len(requests[c])
    /\ \A p \in handled \cup again : \E c \in Clients : \E i \in Sent(c) : p = <<c, i>>
    /\ \A r \in replies : r.i \in Sent(r.client) /\ <<r.client, r.i>> \in handled

\* A thread at work has taken a request, and is where the request sends it.
AtWork ==
    \A t \in Threads : ~At(t, "idle") =>
        /\ handler[t].i \in Sent(handler[t].client)
        /\ <<handler[t].client, handler[t].i>> \in handled
        /\ Asked(t).step = IF At(t, "write") THEN "write" ELSE "read"
        /\ At(t, "value") \/ At(t, "crashed") => Asked(t).object \in Configured

\* An entry of the log is the configuration, a value the application set, or what a
\* write request carried.
Founded(o, k) ==
    LET e == log[o][k] IN
    /\ e.by # "application" => e.value \in Reals
    /\ k > 1 => e.by # "config"
    /\ e.by \in Clients =>
          /\ e.i \in Sent(e.by) /\ <<e.by, e.i>> \in handled
          /\ LET q == requests[e.by][e.i] IN
             q.kind = "write" /\ q.object = o /\ q.value = e.value

\* The log of an object begins with its configuration and ends with its value.
Logs ==
    \A o \in Configured :
        /\ log[o] # <<>> /\ log[o][Len(log[o])].value = value[o]
        /\ log[o][1].by = "config"
        /\ \A k \in 1..Len(log[o]) : Founded(o, k)

\* A request was sent when the log of its object was no longer than it is now.
SentBefore ==
    \A c \in Clients : \A i \in Sent(c) :
        LET o == requests[c][i].object IN
        o \in Configured => sentAt[c][i] \in 1..Len(log[o])

Work == [pc : {"read", "value", "write", "crashed"}, client : Clients, i : Nat]

-----------------------------------------------------------------------------
\* An appended sequence.
LEMMA Appended ==
    \A S : \A s \in Seq(S), e \in S :
        /\ Append(s, e) \in Seq(S) /\ Len(Append(s, e)) = Len(s) + 1 /\ Append(s, e) # <<>>
        /\ \A i \in 1..Len(s) : Append(s, e)[i] = s[i]
        /\ Append(s, e)[Len(s) + 1] = e
BY AppendProperties

\* The length and the members of a sequence.
LEMMA Members == \A S : \A s \in Seq(S) : Len(s) \in Nat /\ DOMAIN s = 1..Len(s) /\ \A i \in 1..Len(s) : s[i] \in S
BY ElementOfSeq, LenProperties

\* The value of a request, four bytes, is one an object may have.
LEMMA ValueOf == \A q \in Request : q.value \in Reals /\ q.value \in Values
<1> SUFFICES ASSUME NEW q \in Request PROVE q.value \in Reals /\ q.value \in Values
  OBVIOUS
<1>1. q.value \in Reals
  BY DEF Request
<1> QED
  BY <1>1, Zenon DEF Values

\* What is made of a request is what it says, or nothing that reads or writes.
LEMMA Understood ==
    \A q \in Requests :
        /\ q \in Request
        /\ Parsed[q].step \in {"read", "write", "answer", "drop"}
        /\ Parsed[q].step = "read" =>
              q.kind = "read" /\ Parsed[q].object = q.object /\ Parsed[q].property = PresentValue
        /\ Parsed[q].step = "write" =>
              q.kind = "write" /\ Parsed[q].object = q.object /\ Parsed[q].real = q.value
        /\ Parsed[q].step = "answer" => q.kind = "discover" \/ Misread(q.route)
        /\ Parsed[q].step = "drop" =>
              q.kind = "cut" \/ Misread(q.route) \/ (q.kind = "write" /\ HasClosing(q.value))
<1> SUFFICES ASSUME NEW q \in Requests
             PROVE  /\ q \in Request
                    /\ Parsed[q].step \in {"read", "write", "answer", "drop"}
                    /\ Parsed[q].step = "read" =>
                          q.kind = "read" /\ Parsed[q].object = q.object /\ Parsed[q].property = PresentValue
                    /\ Parsed[q].step = "write" =>
                          q.kind = "write" /\ Parsed[q].object = q.object /\ Parsed[q].real = q.value
                    /\ Parsed[q].step = "answer" => q.kind = "discover" \/ Misread(q.route)
                    /\ Parsed[q].step = "drop" =>
                          q.kind = "cut" \/ Misread(q.route) \/ (q.kind = "write" /\ HasClosing(q.value))
  OBVIOUS
<1> DEFINE m == Parsed[q]
<1>1. q \in Request
  BY BacnetAssumption
<1>2. q.kind \in {"read", "write", "discover", "cut"}
  BY <1>1 DEF Request
<1>3. m = Meaning(AsDatagram(q))
  BY DEF Parsed
<1>4. \/ m = Intended(q)
      \/ m = Drop /\ q.kind = "write" /\ HasClosing(q.value)
      \/ m \in {Drop, Respond} /\ Misread(q.route)
  <2>1. CASE Misread(q.route)
    BY <1>1, <1>3, <2>1, MisreadTouchesNothing, Zenon
  <2>2. CASE ~Misread(q.route)
    BY <1>1, <1>3, <2>2, RequestsAreUnderstood, Zenon
  <2> QED
    BY <2>1, <2>2
<1> HIDE DEF m
<1>5. CASE m = Drop /\ q.kind = "write" /\ HasClosing(q.value)
  <2>1. m.step = "drop"
    BY <1>5 DEF Drop
  <2> QED
    BY <1>1, <1>5, <2>1 DEF m
<1>7. CASE m \in {Drop, Respond} /\ Misread(q.route)
  <2>1. m.step \in {"drop", "answer"}
    BY <1>7 DEF Drop, Respond
  <2> QED
    BY <1>1, <1>7, <2>1 DEF m
<1>6. CASE m = Intended(q)
  <2>1. CASE q.kind = "read"
    <3>1. m = [step |-> "read", object |-> q.object, property |-> PresentValue]
      BY <1>6, <2>1 DEF Intended
    <3> QED
      BY <1>1, <2>1, <3>1 DEF m
  <2>2. CASE q.kind = "write"
    <3>1. m = [step |-> "write", object |-> q.object, real |-> q.value]
      BY <1>6, <2>2 DEF Intended
    <3> QED
      BY <1>1, <2>2, <3>1 DEF m
  <2>3. CASE q.kind = "discover"
    <3>1. m = [step |-> "answer"]
      BY <1>6, <2>3 DEF Intended, Respond
    <3> QED
      BY <1>1, <2>3, <3>1 DEF m
  <2>4. CASE q.kind = "cut"
    <3>1. m = [step |-> "drop"]
      BY <1>6, <2>4 DEF Intended, Drop
    <3> QED
      BY <1>1, <2>4, <3>1 DEF m
  <2> QED
    BY <1>2, <2>1, <2>2, <2>3, <2>4
<1> QED
  BY <1>4, <1>5, <1>6, <1>7

\* What a thread at work is asked.
LEMMA WorkOf ==
    TypeOK /\ AtWork => \A t \in Threads :
        /\ IF At(t, "idle") THEN handler[t] = Idle ELSE handler[t] \in Work
        /\ ~At(t, "idle") =>
              LET q == requests[handler[t].client][handler[t].i] IN
              /\ handler[t].client \in Clients /\ q \in Requests /\ q \in Request
              /\ IF At(t, "write")
                 THEN q.kind = "write" /\ Asked(t).object = q.object /\ Asked(t).real = q.value
                 ELSE q.kind = "read" /\ Asked(t).object = q.object /\ Asked(t).property = PresentValue
<1> SUFFICES ASSUME TypeOK, AtWork, NEW t \in Threads
             PROVE  /\ IF At(t, "idle") THEN handler[t] = Idle ELSE handler[t] \in Work
                    /\ ~At(t, "idle") =>
                          LET q == requests[handler[t].client][handler[t].i] IN
                          /\ handler[t].client \in Clients /\ q \in Requests /\ q \in Request
                          /\ IF At(t, "write")
                             THEN q.kind = "write" /\ Asked(t).object = q.object /\ Asked(t).real = q.value
                             ELSE q.kind = "read" /\ Asked(t).object = q.object /\ Asked(t).property = PresentValue
  BY Zenon
<1>1. IF At(t, "idle") THEN handler[t] = Idle ELSE handler[t] \in Work
  BY DEF TypeOK, Idle, At, Work
<1>2. SUFFICES ASSUME ~At(t, "idle")
               PROVE  LET q == requests[handler[t].client][handler[t].i] IN
                      /\ handler[t].client \in Clients /\ q \in Requests /\ q \in Request
                      /\ IF At(t, "write")
                         THEN q.kind = "write" /\ Asked(t).object = q.object /\ Asked(t).real = q.value
                         ELSE q.kind = "read" /\ Asked(t).object = q.object /\ Asked(t).property = PresentValue
  BY <1>1, Zenon
<1> DEFINE c == handler[t].client
           i == handler[t].i
           q == requests[c][i]
<1>3. c \in Clients
  BY <1>1, <1>2 DEF Work
<1>4. i \in 1..Len(requests[c]) /\ Asked(t).step = IF At(t, "write") THEN "write" ELSE "read"
  BY <1>2 DEF AtWork, Sent
<1>5. requests[c] \in Seq(Requests)
  BY <1>3 DEF TypeOK
<1>6. Asked(t) = Parsed[q]
  BY DEF Asked
<1> HIDE DEF c, i
<1>7. q \in Requests
  BY <1>4, <1>5, Members
<1> HIDE DEF q
<1>8. /\ q \in Request
      /\ IF At(t, "write")
         THEN q.kind = "write" /\ Asked(t).object = q.object /\ Asked(t).real = q.value
         ELSE q.kind = "read" /\ Asked(t).object = q.object /\ Asked(t).property = PresentValue
  BY <1>4, <1>6, <1>7, Understood
<1> QED
  BY <1>3, <1>7, <1>8 DEF c, i, q

-----------------------------------------------------------------------------
(* Initially *)

\* The invariant holds before anything happens.
LEMMA Initially == Init => TypeOK /\ Histories /\ AtWork /\ Logs /\ SentBefore
<1> SUFFICES ASSUME Init PROVE TypeOK /\ Histories /\ AtWork /\ Logs /\ SentBefore
  OBVIOUS
<1> USE DEF Init
<1>1. Initial \in [Configured -> Reals]
  BY BacnetAssumption
<1>2. TypeOK
  <2>1. value \in [Configured -> Values]
    BY <1>1 DEF Values
  <2> QED
    BY <2>1 DEF TypeOK
<1>3. log \in [Configured -> Seq(Entries)]
  <2>1. \A o \in Configured : Entry("config", 0, Initial[o]) \in Entries
    BY <1>1 DEF Entry, Entries, Values
  <2> QED
    BY <2>1
<1>4. \A c \in Clients : Sent(c) = {}
  BY DEF Sent
<1>5. Histories
  BY <1>3 DEF Histories
<1>6. AtWork
  BY DEF AtWork, At, Idle
<1>7. Logs
  <2> SUFFICES ASSUME NEW o \in Configured
               PROVE  /\ log[o] # <<>> /\ log[o][Len(log[o])].value = value[o]
                      /\ log[o][1].by = "config"
                      /\ \A k \in 1..Len(log[o]) : Founded(o, k)
    BY DEF Logs
  <2>1. Len(log[o]) = 1 /\ log[o] # <<>> /\ log[o][1] = Entry("config", 0, Initial[o])
    OBVIOUS
  <2>2. log[o][1].by = "config" /\ log[o][1].value = Initial[o]
    BY <2>1 DEF Entry
  <2>3. "config" \notin Clients
    BY BacnetAssumption
  <2> QED
    BY <1>1, <2>1, <2>2, <2>3 DEF Founded
<1>8. SentBefore
  BY <1>4 DEF SentBefore
<1> QED
  BY <1>2, <1>5, <1>6, <1>7, <1>8

-----------------------------------------------------------------------------
(* What a step does to the histories *)

\* Requests are only added, with the length of the log when they were sent.
LEMMA RequestsKept ==
    TypeOK /\ Histories /\ [Next]_vars =>
        /\ requests' \in [Clients -> Seq(Requests)] /\ sentAt' \in [Clients -> Seq(Nat)]
        /\ \A c \in Clients :
              /\ Sent(c) \subseteq Sent(c)' /\ Len(sentAt'[c]) = Len(requests'[c])
              /\ \A i \in Sent(c) : requests'[c][i] = requests[c][i] /\ sentAt'[c][i] = sentAt[c][i]
<1> SUFFICES ASSUME TypeOK, Histories, [Next]_vars
             PROVE  /\ requests' \in [Clients -> Seq(Requests)] /\ sentAt' \in [Clients -> Seq(Nat)]
                    /\ \A c \in Clients :
                          /\ Sent(c) \subseteq Sent(c)' /\ Len(sentAt'[c]) = Len(requests'[c])
                          /\ \A i \in Sent(c) : requests'[c][i] = requests[c][i] /\ sentAt'[c][i] = sentAt[c][i]
  BY Zenon
<1>1. /\ requests \in [Clients -> Seq(Requests)] /\ sentAt \in [Clients -> Seq(Nat)]
      /\ \A c \in Clients : Len(sentAt[c]) = Len(requests[c])
  BY DEF TypeOK, Histories
<1>2. UNCHANGED <<requests, sentAt>> \/ \E c \in Clients : Send(c)
  BY ZenonT(20) DEF Next, Repeat, Receive, GiveUp, Deliver, HandlerStep, Lookup, ReadValue, Write,
        Crash, SetPresentValue, vars, network
<1>3. CASE UNCHANGED <<requests, sentAt>>
  BY <1>1, <1>3 DEF Sent
<1>4. CASE \E c \in Clients : Send(c)
  <2>1. PICK d \in Clients, q \in Requests :
          /\ requests' = [requests EXCEPT ![d] = Append(@, q)]
          /\ sentAt' = [sentAt EXCEPT ![d] =
                Append(@, IF q.object \in Configured THEN Len(log[q.object]) ELSE 0)]
    BY <1>4 DEF Send
  <2> DEFINE n == IF q.object \in Configured THEN Len(log[q.object]) ELSE 0
             s == sentAt[d]
             r == requests[d]
  <2>2. n \in Nat
    BY Members DEF Histories
  <2>3. r \in Seq(Requests) /\ s \in Seq(Nat) /\ Len(s) = Len(r)
    BY <1>1
  <2>4. requests' = [requests EXCEPT ![d] = Append(r, q)] /\ sentAt' = [sentAt EXCEPT ![d] = Append(s, n)]
    BY <2>1
  <2> HIDE DEF n
  <2>5. /\ Append(r, q) \in Seq(Requests) /\ Len(Append(r, q)) = Len(r) + 1
        /\ \A i \in 1..Len(r) : Append(r, q)[i] = r[i]
    BY <2>3, Appended
  <2>6. /\ Append(s, n) \in Seq(Nat) /\ Len(Append(s, n)) = Len(s) + 1
        /\ \A i \in 1..Len(s) : Append(s, n)[i] = s[i]
    BY <2>2, <2>3, Appended
  <2>7. requests' \in [Clients -> Seq(Requests)] /\ sentAt' \in [Clients -> Seq(Nat)]
    BY <1>1, <2>4, <2>5, <2>6
  <2>8. ASSUME NEW c \in Clients
        PROVE  /\ Sent(c) \subseteq Sent(c)' /\ Len(sentAt'[c]) = Len(requests'[c])
               /\ \A i \in Sent(c) : requests'[c][i] = requests[c][i] /\ sentAt'[c][i] = sentAt[c][i]
    <3>1. CASE c = d
      <4>1. requests'[c] = Append(r, q) /\ sentAt'[c] = Append(s, n)
        BY <1>1, <2>4, <3>1
      <4>2. Len(r) \in Nat
        BY <2>3, Members
      <4> QED
        BY <2>3, <2>5, <2>6, <3>1, <4>1, <4>2 DEF Sent
    <3>2. CASE c # d
      BY <1>1, <2>4, <3>2 DEF Sent
    <3> QED
      BY <3>1, <3>2
  <2> QED
    BY <2>7, <2>8
<1> QED
  BY <1>2, <1>3, <1>4

\* What a thread writes is what its request says.
LEMMA WriteIs ==
    TypeOK /\ AtWork => \A t \in Threads : Write(t) =>
        LET c == handler[t].client
            i == handler[t].i
            q == requests[c][i]
        IN  /\ ~At(t, "idle") /\ c \in Clients /\ i \in Sent(c) /\ q \in Request /\ q.kind = "write"
            /\ <<c, i>> \in handled
            /\ handler' = [handler EXCEPT ![t] = Idle]
            /\ IF q.object \in Configured
               THEN /\ value' = [value EXCEPT ![q.object] = q.value]
                    /\ log' = [log EXCEPT ![q.object] = Append(@, Entry(c, i, q.value))]
                    /\ replies' = replies \cup {[client |-> c, i |-> i, body |-> "ack"]}
               ELSE UNCHANGED <<value, log, replies>>
<1> SUFFICES ASSUME TypeOK, AtWork, NEW t \in Threads, Write(t)
             PROVE  LET c == handler[t].client
                        i == handler[t].i
                        q == requests[c][i]
                    IN  /\ ~At(t, "idle") /\ c \in Clients /\ i \in Sent(c) /\ q \in Request /\ q.kind = "write"
                        /\ <<c, i>> \in handled
                        /\ handler' = [handler EXCEPT ![t] = Idle]
                        /\ IF q.object \in Configured
                           THEN /\ value' = [value EXCEPT ![q.object] = q.value]
                                /\ log' = [log EXCEPT ![q.object] = Append(@, Entry(c, i, q.value))]
                                /\ replies' = replies \cup {[client |-> c, i |-> i, body |-> "ack"]}
                           ELSE UNCHANGED <<value, log, replies>>
  BY Zenon
<1> DEFINE c == handler[t].client
           i == handler[t].i
           q == requests[c][i]
<1>1. At(t, "write") /\ ~At(t, "idle")
  BY DEF Write, At
<1>2. c \in Clients /\ q \in Request /\ q.kind = "write" /\ Asked(t).object = q.object /\ Asked(t).real = q.value
  BY <1>1, WorkOf, Zenon
<1>3. i \in Sent(c) /\ <<c, i>> \in handled
  BY <1>1, Zenon DEF AtWork
<1>4. handler' = [handler EXCEPT ![t] = Idle]
  BY DEF Write, Answer, NoAnswer, End
<1>5. CASE q.object \in Configured
  BY <1>1, <1>2, <1>3, <1>4, <1>5, Zenon DEF Write, Answer, ReplyTo, Logged
<1>6. CASE q.object \notin Configured
  BY <1>1, <1>2, <1>3, <1>4, <1>6, Zenon DEF Write, NoAnswer
<1> QED
  BY <1>5, <1>6, Zenon

\* The value of an object changes together with its log, for the application or for
\* a client whose request says so.
LEMMA LogStep ==
    TypeOK /\ AtWork /\ Histories /\ [Next]_vars =>
        \/ UNCHANGED <<value, log>>
        \/ \E o \in Configured, e \in Entries :
              /\ value' = [value EXCEPT ![o] = e.value]
              /\ log' = [log EXCEPT ![o] = Append(@, e)]
              /\ \/ e.by = "application" /\ e.value \in Values
                 \/ /\ e.by \in Clients /\ e.i \in Sent(e.by) /\ <<e.by, e.i>> \in handled
                    /\ LET q == requests[e.by][e.i] IN
                       q.kind = "write" /\ q.object = o /\ q.value = e.value /\ e.value \in Reals
                    /\ \E t \in Threads : Write(t) /\ handler[t].client = e.by /\ handler[t].i = e.i
<1> SUFFICES ASSUME TypeOK, AtWork, Histories, [Next]_vars, ~UNCHANGED <<value, log>>
             PROVE  \E o \in Configured, e \in Entries :
                      /\ value' = [value EXCEPT ![o] = e.value]
                      /\ log' = [log EXCEPT ![o] = Append(@, e)]
                      /\ \/ e.by = "application" /\ e.value \in Values
                         \/ /\ e.by \in Clients /\ e.i \in Sent(e.by) /\ <<e.by, e.i>> \in handled
                            /\ LET q == requests[e.by][e.i] IN
                               q.kind = "write" /\ q.object = o /\ q.value = e.value /\ e.value \in Reals
                            /\ \E t \in Threads : Write(t) /\ handler[t].client = e.by /\ handler[t].i = e.i
  BY Zenon
<1>1. (\E t \in Threads : Write(t)) \/ \E o \in Configured : SetPresentValue(o)
  BY Zenon DEF Next, Send, Repeat, Receive, GiveUp, Deliver, HandlerStep, Lookup, ReadValue, Crash, vars, network
<1>2. CASE \E o \in Configured : SetPresentValue(o)
  <2>1. PICK o \in Configured, v \in ApiValues :
          /\ value' = [value EXCEPT ![o] = v]
          /\ log' = [log EXCEPT ![o] = Append(@, Entry("application", 0, v))]
    BY <1>2 DEF SetPresentValue
  <2> DEFINE e == Entry("application", 0, v)
  <2>2. e \in Entries /\ e.by = "application" /\ e.value = v /\ v \in Values
    BY DEF Entry, Entries, Values
  <2> HIDE DEF e
  <2> QED
    BY <2>1, <2>2, Zenon DEF e
<1>3. CASE \E t \in Threads : Write(t)
  <2>1. PICK t \in Threads : Write(t)
    BY <1>3
  <2> DEFINE c == handler[t].client
             i == handler[t].i
             q == requests[c][i]
             e == Entry(c, i, q.value)
  <2>2. /\ c \in Clients /\ i \in Sent(c) /\ q \in Request /\ q.kind = "write" /\ <<c, i>> \in handled
        /\ IF q.object \in Configured
           THEN /\ value' = [value EXCEPT ![q.object] = q.value]
                /\ log' = [log EXCEPT ![q.object] = Append(@, e)]
           ELSE UNCHANGED <<value, log>>
    BY <2>1, WriteIs, Zenon
  <2>3. q.object \in Configured
    <3>1. ~UNCHANGED <<value, log>>
      OBVIOUS
    <3> HIDE DEF q, e
    <3> QED
      BY <2>2, <3>1, Zenon
  <2>4. i \in Nat
    BY <2>1, WorkOf DEF Work, Write, At
  <2>5. q.value \in Reals /\ q.value \in Values
    BY <2>2, ValueOf, Zenon
  <2> HIDE DEF c, i, q
  <2>6. e \in Entries /\ e.by = c /\ e.i = i /\ e.value = q.value
    BY <2>2, <2>4, <2>5 DEF Entry, Entries
  <2> HIDE DEF e
  <2>7. \E u \in Threads : Write(u) /\ handler[u].client = e.by /\ handler[u].i = e.i
    BY <2>1, <2>6 DEF c, i
  <2>8. requests[e.by][e.i] = q
    BY <2>6 DEF q
  <2>9. /\ value' = [value EXCEPT ![q.object] = e.value]
        /\ log' = [log EXCEPT ![q.object] = Append(@, e)]
        /\ e.by \in Clients /\ e.i \in Sent(e.by) /\ <<e.by, e.i>> \in handled
    BY <2>2, <2>3, <2>6
  <2> QED
    BY <2>2, <2>3, <2>5, <2>6, <2>7, <2>8, <2>9, Zenon
<1> QED
  BY <1>1, <1>2, <1>3

\* Logs are only added to.
LEMMA LogsGrow ==
    TypeOK /\ AtWork /\ Histories /\ [Next]_vars =>
        /\ log' \in [Configured -> Seq(Entries)]
        /\ \A o \in Configured :
              /\ Len(log[o]) \in Nat /\ Len(log'[o]) \in Nat /\ Len(log[o]) <= Len(log'[o])
              /\ \A k \in 1..Len(log[o]) : log'[o][k] = log[o][k]
<1> SUFFICES ASSUME TypeOK, AtWork, Histories, [Next]_vars
             PROVE  /\ log' \in [Configured -> Seq(Entries)]
                    /\ \A o \in Configured :
                          /\ Len(log[o]) \in Nat /\ Len(log'[o]) \in Nat /\ Len(log[o]) <= Len(log'[o])
                          /\ \A k \in 1..Len(log[o]) : log'[o][k] = log[o][k]
  BY Zenon
<1>1. log \in [Configured -> Seq(Entries)] /\ \A o \in Configured : Len(log[o]) \in Nat
  BY Members DEF Histories
<1>2. CASE UNCHANGED <<value, log>>
  BY <1>1, <1>2
<1>3. CASE \E o \in Configured, e \in Entries : log' = [log EXCEPT ![o] = Append(@, e)]
  <2>1. PICK o \in Configured, e \in Entries : log' = [log EXCEPT ![o] = Append(@, e)]
    BY <1>3
  <2> DEFINE s == log[o]
  <2>2. s \in Seq(Entries) /\ Len(s) \in Nat
    BY <1>1
  <2>3. /\ Append(s, e) \in Seq(Entries) /\ Len(Append(s, e)) = Len(s) + 1
        /\ \A k \in 1..Len(s) : Append(s, e)[k] = s[k]
    BY <2>2, Appended
  <2>4. log' = [log EXCEPT ![o] = Append(s, e)]
    BY <2>1
  <2> QED
    BY <1>1, <2>2, <2>3, <2>4
<1> QED
  BY <1>2, <1>3, LogStep, Zenon

\* What was handled, and what was replied, stays so.
LEMMA HistoryKept == [Next]_vars => handled \subseteq handled' /\ replies \subseteq replies'
BY Zenon DEF Next, Send, Repeat, Receive, GiveUp, Deliver, HandlerStep, Lookup, ReadValue, Write,
        Crash, SetPresentValue, Answer, NoAnswer, ReplyTo, vars, network

-----------------------------------------------------------------------------
(* The steps keep the invariant *)

\* Founded entries stay so, and a new one is: see LogStep.
LEMMA LogsKept ==
    TypeOK /\ AtWork /\ Histories /\ Logs /\ [Next]_vars => Logs'
<1> SUFFICES ASSUME TypeOK, AtWork, Histories, Logs, [Next]_vars, NEW o \in Configured
             PROVE  /\ log'[o] # <<>> /\ log'[o][Len(log'[o])].value = value'[o]
                    /\ log'[o][1].by = "config"
                    /\ \A k \in 1..Len(log'[o]) : Founded(o, k)'
  BY Zenon DEF Logs
<1>1. /\ log[o] # <<>> /\ log[o][Len(log[o])].value = value[o] /\ log[o][1].by = "config"
      /\ \A k \in 1..Len(log[o]) : Founded(o, k)
  BY Zenon DEF Logs
<1>2. log[o] \in Seq(Entries) /\ log'[o] \in Seq(Entries)
  BY LogsGrow DEF Histories
<1>3. Len(log[o]) \in Nat /\ 1 <= Len(log[o]) /\ \A k \in 1..Len(log[o]) : log'[o][k] = log[o][k]
  BY <1>1, <1>2, LogsGrow, EmptySeq
<1>4. ASSUME NEW c \in Clients, NEW i \in Sent(c), <<c, i>> \in handled
      PROVE  i \in Sent(c)' /\ <<c, i>> \in handled' /\ requests'[c][i] = requests[c][i]
  BY <1>4, RequestsKept, HistoryKept, Zenon
<1>5. ASSUME NEW k \in 1..Len(log[o]) PROVE Founded(o, k)'
  <2>0. PICK e : e = log[o][k]
    OBVIOUS
  <2>1. Founded(o, k) /\ log[o][k] = e /\ log'[o][k] = e
    BY <1>1, <1>3, <2>0
  <2>2. /\ e.by # "application" => e.value \in Reals
        /\ k > 1 => e.by # "config"
        /\ e.by \in Clients =>
              /\ e.i \in Sent(e.by) /\ <<e.by, e.i>> \in handled
              /\ LET q == requests[e.by][e.i] IN
                 q.kind = "write" /\ q.object = o /\ q.value = e.value
    BY <2>1, Zenon DEF Founded
  <2>3. e.by \in Clients => e.i \in Sent(e.by)' /\ <<e.by, e.i>> \in handled' /\ requests'[e.by][e.i] = requests[e.by][e.i]
    BY <1>4, <2>2, Zenon
  <2> QED
    BY <2>1, <2>2, <2>3, Zenon DEF Founded
<1>6. CASE log'[o] = log[o] /\ value'[o] = value[o]
  BY <1>1, <1>5, <1>6
<1>7. ASSUME NEW e \in Entries,
             value'[o] = e.value, log'[o] = Append(log[o], e),
             \/ e.by = "application" /\ e.value \in Values
             \/ /\ e.by \in Clients /\ e.i \in Sent(e.by) /\ <<e.by, e.i>> \in handled
                /\ LET q == requests[e.by][e.i] IN
                   q.kind = "write" /\ q.object = o /\ q.value = e.value /\ e.value \in Reals
      PROVE  /\ log'[o] # <<>> /\ log'[o][Len(log'[o])].value = value'[o]
             /\ log'[o][1].by = "config"
             /\ \A k \in 1..Len(log'[o]) : Founded(o, k)'
  <2>0. PICK n : n = Len(log[o])
    OBVIOUS
  <2>1. /\ Len(log'[o]) = n + 1 /\ log'[o] # <<>> /\ log'[o][n + 1] = e
    BY <1>2, <1>7, <2>0, Appended
  <2>2. {"config", "application"} \cap Clients = {}
    BY BacnetAssumption
  <2>3. Founded(o, n + 1)'
    <3>1. e.by # "application" => e.value \in Reals
      BY <1>7
    <3>2. e.by # "config"
      BY <1>7, <2>2
    <3>3. e.by \in Clients =>
              /\ e.i \in Sent(e.by)' /\ <<e.by, e.i>> \in handled'
              /\ requests'[e.by][e.i] = requests[e.by][e.i]
              /\ LET q == requests[e.by][e.i] IN
                 q.kind = "write" /\ q.object = o /\ q.value = e.value
      <4>1. e.by \in Clients => e.by # "application"
        BY <2>2
      <4> QED
        BY <1>4, <1>7, <4>1, Zenon
    <3> QED
      BY <2>1, <3>1, <3>2, <3>3, Zenon DEF Founded
  <2>4. log'[o][1].by = "config"
    BY <1>1, <1>3
  <2>5. \A k \in 1..Len(log'[o]) : k \in 1..n \/ k = n + 1
    BY <1>3, <2>0, <2>1
  <2>6. \A k \in 1..Len(log'[o]) : Founded(o, k)'
    BY <1>5, <2>0, <2>3, <2>5, Zenon
  <2> QED
    BY <1>7, <2>1, <2>4, <2>6, Zenon
<1>8. value \in [Configured -> Values] /\ log \in [Configured -> Seq(Entries)]
  BY DEF TypeOK, Histories
<1>9. CASE UNCHANGED <<value, log>>
  BY <1>6, <1>9
<1>10. CASE ~UNCHANGED <<value, log>>
  <2>1. PICK p \in Configured, e \in Entries :
              /\ value' = [value EXCEPT ![p] = e.value]
              /\ log' = [log EXCEPT ![p] = Append(@, e)]
              /\ \/ e.by = "application" /\ e.value \in Values
                 \/ /\ e.by \in Clients /\ e.i \in Sent(e.by) /\ <<e.by, e.i>> \in handled
                    /\ LET q == requests[e.by][e.i] IN
                       q.kind = "write" /\ q.object = p /\ q.value = e.value /\ e.value \in Reals
    BY <1>10, LogStep, Zenon
  <2>2. CASE p = o
    <3>1. value'[o] = e.value /\ log'[o] = Append(log[o], e)
      BY <1>8, <2>1, <2>2
    <3> QED
      BY <1>7, <2>1, <2>2, <3>1, Zenon
  <2>3. CASE p # o
    <3>1. value'[o] = value[o] /\ log'[o] = log[o]
      BY <1>8, <2>1, <2>3
    <3> QED
      BY <1>6, <3>1
  <2> QED
    BY <2>2, <2>3
<1> QED
  BY <1>9, <1>10

\* Logs only grow, and a request is sent when the log is as long as it is.
LEMMA SentBeforeKept ==
    TypeOK /\ AtWork /\ Histories /\ Logs /\ SentBefore /\ [Next]_vars => SentBefore'
<1> SUFFICES ASSUME TypeOK, AtWork, Histories, Logs, SentBefore, [Next]_vars,
                    NEW c \in Clients, NEW i \in Sent(c)', requests'[c][i].object \in Configured
             PROVE  sentAt'[c][i] \in 1..Len(log'[requests'[c][i].object])
  BY Zenon DEF SentBefore
<1> DEFINE o == requests'[c][i].object
<1>1. Len(log[o]) \in Nat /\ Len(log'[o]) \in Nat /\ Len(log[o]) <= Len(log'[o])
  BY LogsGrow
<1>2. CASE i \in Sent(c)
  <2>1. requests'[c][i] = requests[c][i] /\ sentAt'[c][i] = sentAt[c][i]
    BY <1>2, RequestsKept, Zenon
  <2>2. sentAt[c][i] \in 1..Len(log[o])
    BY <1>2, <2>1, Zenon DEF SentBefore
  <2>3. \A n \in Nat : \A m \in Nat : n <= m => \A k \in 1..n : k \in 1..m
    OBVIOUS
  <2>4. sentAt[c][i] \in 1..Len(log'[o])
    BY <1>1, <2>2, <2>3, Zenon
  <2> QED
    BY <2>1, <2>4, Zenon
<1>3. CASE i \notin Sent(c)
  <2>1. \E d \in Clients : Send(d)
    BY <1>3, Zenon DEF Sent, Next, Repeat, Receive, GiveUp, Deliver, HandlerStep, Lookup, ReadValue, Write,
        Crash, SetPresentValue, vars, network
  <2>2. PICK d \in Clients, q \in Requests :
          /\ requests' = [requests EXCEPT ![d] = Append(@, q)]
          /\ sentAt' = [sentAt EXCEPT ![d] =
                Append(@, IF q.object \in Configured THEN Len(log[q.object]) ELSE 0)]
    BY <2>1 DEF Send
  <2> DEFINE n == IF q.object \in Configured THEN Len(log[q.object]) ELSE 0
  <2>3. requests \in [Clients -> Seq(Requests)] /\ sentAt \in [Clients -> Seq(Nat)] /\ Len(sentAt[c]) = Len(requests[c])
    BY DEF TypeOK, Histories
  <2>4. d = c
    BY <1>3, <2>2, <2>3 DEF Sent
  <2>5. n \in Nat
    BY Members DEF Histories
  <2>6. requests'[c] = Append(requests[c], q) /\ sentAt'[c] = Append(sentAt[c], n)
    BY <2>2, <2>3, <2>4
  <2> HIDE DEF n
  <2>7. /\ Len(requests'[c]) = Len(requests[c]) + 1 /\ requests'[c][Len(requests[c]) + 1] = q
    BY <2>3, <2>6, Appended
  <2>8. sentAt'[c][Len(sentAt[c]) + 1] = n
    BY <2>3, <2>5, <2>6, Appended
  <2>9. i = Len(requests[c]) + 1
    <3>1. Len(requests[c]) \in Nat
      BY <2>3, Members
    <3> QED
      BY <1>3, <2>7, <3>1 DEF Sent
  <2>10. o = q.object /\ sentAt'[c][i] = Len(log[o])
    BY <2>3, <2>7, <2>8, <2>9 DEF n
  <2>11. log[o] # <<>> /\ log[o] \in Seq(Entries)
    BY DEF Logs, Histories
  <2>12. 1 <= Len(log[o])
    BY <2>11, EmptySeq
  <2> HIDE DEF o
  <2> QED
    BY <1>1, <2>10, <2>12 DEF o
<1> QED
  BY <1>2, <1>3

\* What a thread does next.
LEMMA ThreadStep ==
    TypeOK /\ AtWork /\ [Next]_vars =>
        \/ UNCHANGED handler
        \/ \E t \in Threads, h \in Work \cup {Idle} :
              /\ handler' = [handler EXCEPT ![t] = h]
              /\ \/ h = Idle /\ ~At(t, "idle") /\ HandlerStep(t)
                 \/ /\ At(t, "idle") /\ h.client \in Clients /\ h.i \in Sent(h.client)
                    /\ <<h.client, h.i>> \in handled' /\ Deliver(t, h.client, h.i)
                    /\ h.pc = Parsed[requests[h.client][h.i]].step /\ h.pc \in {"read", "write"}
                 \/ /\ ~At(t, "idle") /\ ~At(t, "write") /\ h.client = handler[t].client /\ h.i = handler[t].i
                    /\ h.pc \in {"value", "crashed"} /\ Asked(t).object \in Configured
                    /\ h.pc = "crashed" => value[Asked(t).object] \notin Reals
                    /\ UNCHANGED <<value, log, replies, requests, handled>>
<1> SUFFICES ASSUME TypeOK, AtWork, [Next]_vars, ~UNCHANGED handler
             PROVE  \E t \in Threads, h \in Work \cup {Idle} :
                      /\ handler' = [handler EXCEPT ![t] = h]
                      /\ \/ h = Idle /\ ~At(t, "idle") /\ HandlerStep(t)
                         \/ /\ At(t, "idle") /\ h.client \in Clients /\ h.i \in Sent(h.client)
                            /\ <<h.client, h.i>> \in handled' /\ Deliver(t, h.client, h.i)
                            /\ h.pc = Parsed[requests[h.client][h.i]].step /\ h.pc \in {"read", "write"}
                         \/ /\ ~At(t, "idle") /\ ~At(t, "write") /\ h.client = handler[t].client /\ h.i = handler[t].i
                            /\ h.pc \in {"value", "crashed"} /\ Asked(t).object \in Configured
                            /\ h.pc = "crashed" => value[Asked(t).object] \notin Reals
                            /\ UNCHANGED <<value, log, replies, requests, handled>>
  BY Zenon
<1>1. \/ \E t \in Threads : HandlerStep(t)
      \/ \E t \in Threads, c \in Clients : \E i \in DOMAIN requests[c] : Deliver(t, c, i)
  BY Zenon DEF Next, Send, Repeat, Receive, GiveUp, SetPresentValue, vars, network
<1>2. CASE \E t \in Threads, c \in Clients : \E i \in DOMAIN requests[c] : Deliver(t, c, i)
  <2>1. PICK t \in Threads, c \in Clients : \E i \in DOMAIN requests[c] : Deliver(t, c, i)
    BY <1>2
  <2>9. PICK i \in DOMAIN requests[c] : Deliver(t, c, i)
    BY <2>1
  <2>2. requests[c] \in Seq(Requests)
    BY DEF TypeOK
  <2>3. i \in Sent(c) /\ i \in Nat /\ requests[c][i] \in Requests
    BY <2>2, Members DEF Sent
  <2>0. PICK q \in Requests : q = requests[c][i]
    BY <2>3
  <2> DEFINE step == Parsed[q].step
             h == [pc |-> step, client |-> c, i |-> i]
  <2>4. step \in {"read", "write", "answer", "drop"}
    BY Understood
  <2>5. handler' = [handler EXCEPT ![t] = h] /\ step \notin {"answer", "drop"}
    <3>1. ~UNCHANGED handler
      OBVIOUS
    <3>2. handler' = IF step \in {"read", "write"} THEN [handler EXCEPT ![t] = h] ELSE handler
      BY <2>0, <2>9, Zenon DEF Deliver
    <3> HIDE DEF h, step
    <3> QED
      BY <3>1, <3>2
  <2>6. step \in {"read", "write"}
    BY <2>4, <2>5
  <2>7. At(t, "idle") /\ <<c, i>> \in handled'
    BY <2>9 DEF Deliver
  <2> HIDE DEF step
  <2>8. h \in Work /\ h.client = c /\ h.i = i /\ h.pc = step
    BY <2>3, <2>6 DEF Work
  <2> HIDE DEF h
  <2> QED
    BY <2>0, <2>9, <2>3, <2>5, <2>6, <2>7, <2>8 DEF step
<1>3. CASE \E t \in Threads : HandlerStep(t)
  <2>1. PICK t \in Threads : HandlerStep(t)
    BY <1>3
  <2>2. handler' = [handler EXCEPT ![t] = Idle] \/ Lookup(t) \/ ReadValue(t)
    BY <2>1, Zenon DEF HandlerStep, Write, Crash, Answer, NoAnswer, End
  <2>3. ~At(t, "idle")
    BY <2>1 DEF HandlerStep, Lookup, ReadValue, Write, Crash, At
  <2>4. CASE handler' = [handler EXCEPT ![t] = Idle]
    BY <2>1, <2>3, <2>4, Zenon
  <2>5. handler[t] \in Work
    BY <2>3, WorkOf
  <2>6. CASE Lookup(t) /\ ~(handler' = [handler EXCEPT ![t] = Idle])
    <3> DEFINE h == [handler[t] EXCEPT !.pc = "value"]
    <3>1. handler' = [handler EXCEPT ![t] = h] /\ Asked(t).object \in Configured
      BY <2>6 DEF Lookup, Goto, End
    <3>2. h \in Work /\ h.client = handler[t].client /\ h.i = handler[t].i /\ h.pc = "value" /\ h.pc # "crashed"
      BY <2>5 DEF Work
    <3>3. ~At(t, "write") /\ UNCHANGED <<value, log, replies, requests, handled>>
      BY <2>6 DEF Lookup, At, network
    <3> HIDE DEF h
    <3> QED
      BY <2>3, <3>1, <3>2, <3>3
  <2>7. CASE ReadValue(t) /\ ~(handler' = [handler EXCEPT ![t] = Idle])
    <3> DEFINE h == [handler[t] EXCEPT !.pc = "crashed"]
    <3>1. At(t, "value") /\ ~At(t, "write")
      BY <2>7 DEF ReadValue, At
    <3>2. /\ handler' = [handler EXCEPT ![t] = h] /\ value[Asked(t).object] \notin Reals
          /\ UNCHANGED <<value, log, replies, requests, handled>>
      BY <2>7, Zenon DEF ReadValue, Goto, Answer, NoAnswer, End, network
    <3>3. h \in Work /\ h.client = handler[t].client /\ h.i = handler[t].i /\ h.pc = "crashed"
      BY <2>5 DEF Work
    <3>4. Asked(t).object \in Configured
      BY <2>3, <3>1, Zenon DEF AtWork
    <3> HIDE DEF h
    <3> QED
      BY <2>3, <3>1, <3>2, <3>3, <3>4
  <2> QED
    BY <2>2, <2>4, <2>6, <2>7
<1> QED
  BY <1>1, <1>2, <1>3

\* A thread stays with its request until it is done.
LEMMA AtWorkKept ==
    TypeOK /\ AtWork /\ Histories /\ [Next]_vars =>
        AtWork' /\ handler' \in [Threads -> {Idle} \cup Work]
<1> SUFFICES ASSUME TypeOK, AtWork, Histories, [Next]_vars
             PROVE  AtWork' /\ handler' \in [Threads -> {Idle} \cup Work]
  BY Zenon
<1>1. handler \in [Threads -> {Idle} \cup Work]
  BY DEF TypeOK, Work
<1>2. ASSUME NEW c \in Clients, NEW i \in Sent(c), <<c, i>> \in handled
      PROVE  i \in Sent(c)' /\ <<c, i>> \in handled' /\ requests'[c][i] = requests[c][i]
  BY <1>2, RequestsKept, HistoryKept, Zenon
<1>3. ASSUME NEW t \in Threads, handler'[t] = handler[t], ~At(t, "idle")
      PROVE  /\ handler'[t].i \in 1..Len(requests'[handler'[t].client])
             /\ <<handler'[t].client, handler'[t].i>> \in handled'
             /\ Asked(t)' = Asked(t)
  <2>1. handler[t].client \in Clients
    BY <1>3, WorkOf, Zenon
  <2>2. handler[t].i \in Sent(handler[t].client) /\ <<handler[t].client, handler[t].i>> \in handled
    BY <1>3, Zenon DEF AtWork
  <2>0. PICK c, i : c = handler[t].client /\ i = handler[t].i
    OBVIOUS
  <2>3. i \in Sent(c)' /\ <<c, i>> \in handled' /\ requests'[c][i] = requests[c][i]
    BY <1>2, <2>0, <2>1, <2>2, Zenon
  <2> QED
    BY <1>3, <2>0, <2>3 DEF Sent, Asked
<1>4. ASSUME NEW t \in Threads, handler'[t] = handler[t] \/ handler'[t] = Idle, ~At(t, "idle")'
      PROVE  /\ handler'[t].i \in Sent(handler[t].client)'
             /\ <<handler'[t].client, handler'[t].i>> \in handled'
             /\ Asked(t)'.step = IF At(t, "write")' THEN "write" ELSE "read"
             /\ At(t, "value")' \/ At(t, "crashed")' => Asked(t)'.object \in Configured
  <2>1. handler'[t] = handler[t] /\ ~At(t, "idle")
    BY <1>4 DEF At, Idle
  <2>2. At(t, "write")' = At(t, "write") /\ At(t, "value")' = At(t, "value") /\ At(t, "crashed")' = At(t, "crashed")
    BY <2>1 DEF At
  <2>3. /\ Asked(t).step = IF At(t, "write") THEN "write" ELSE "read"
        /\ At(t, "value") \/ At(t, "crashed") => Asked(t).object \in Configured
    BY <2>1, Zenon DEF AtWork
  <2>4. /\ handler'[t].i \in Sent(handler[t].client)'
        /\ <<handler'[t].client, handler'[t].i>> \in handled' /\ Asked(t)' = Asked(t)
    BY <1>3, <2>1, Zenon DEF Sent
  <2> QED
    BY <2>2, <2>3, <2>4, Zenon
<1>5. CASE UNCHANGED handler
  <2>1. AtWork'
    BY <1>4, <1>5, Zenon DEF AtWork
  <2> QED
    BY <1>1, <1>5, <2>1
<1>6. CASE ~UNCHANGED handler
  <2>1. PICK t \in Threads, h \in Work \cup {Idle} :
          /\ handler' = [handler EXCEPT ![t] = h]
          /\ \/ h = Idle /\ ~At(t, "idle") /\ HandlerStep(t)
             \/ /\ At(t, "idle") /\ h.client \in Clients /\ h.i \in Sent(h.client)
                /\ <<h.client, h.i>> \in handled' /\ Deliver(t, h.client, h.i)
                /\ h.pc = Parsed[requests[h.client][h.i]].step /\ h.pc \in {"read", "write"}
             \/ /\ ~At(t, "idle") /\ ~At(t, "write") /\ h.client = handler[t].client /\ h.i = handler[t].i
                /\ h.pc \in {"value", "crashed"} /\ Asked(t).object \in Configured
                /\ h.pc = "crashed" => value[Asked(t).object] \notin Reals
                /\ UNCHANGED <<value, log, replies, requests, handled>>
    BY <1>6, ThreadStep, Zenon
  <2>2. handler' \in [Threads -> {Idle} \cup Work] /\ handler'[t] = h
    BY <1>1, <2>1
  <2>3. ASSUME NEW u \in Threads, u # t PROVE handler'[u] = handler[u]
    BY <1>1, <2>1, <2>3
  <2>4. CASE h = Idle
    BY <1>4, <2>2, <2>3, <2>4, Zenon DEF AtWork
  <2>5. CASE /\ At(t, "idle") /\ h.client \in Clients /\ h.i \in Sent(h.client)
             /\ <<h.client, h.i>> \in handled' /\ Deliver(t, h.client, h.i)
             /\ h.pc = Parsed[requests[h.client][h.i]].step /\ h.pc \in {"read", "write"}
    <3>1. h.i \in Sent(h.client)' /\ requests'[h.client][h.i] = requests[h.client][h.i]
      BY <2>5, RequestsKept, Zenon
    <3>2. Asked(t)'.step = h.pc
      BY <2>2, <2>5, <3>1, Zenon DEF Asked
    <3>3. ~At(t, "value")' /\ ~At(t, "crashed")' /\ h.pc = IF At(t, "write")' THEN "write" ELSE "read"
      BY <2>2, <2>5 DEF At
    <3>4. handler'[t].i \in Sent(handler[t].client)'
      BY <2>2, <3>1, Zenon DEF Sent
    <3>5. <<handler'[t].client, handler'[t].i>> \in handled'
      BY <2>2, <2>5, Zenon
    <3> QED
      BY <1>4, <2>2, <2>3, <3>2, <3>3, <3>4, <3>5, Zenon DEF AtWork
  <2>6. CASE /\ ~At(t, "idle") /\ ~At(t, "write") /\ h.client = handler[t].client /\ h.i = handler[t].i
             /\ h.pc \in {"value", "crashed"} /\ Asked(t).object \in Configured
             /\ UNCHANGED <<value, log, replies, requests, handled>>
    <3>1. Asked(t)' = Asked(t)
      BY <2>2, <2>6, Zenon DEF Asked
    <3>2. Asked(t).step = "read" /\ h.i \in Sent(h.client) /\ <<h.client, h.i>> \in handled
      BY <2>6, Zenon DEF AtWork
    <3>3. ~At(t, "write")'
      BY <2>2, <2>6 DEF At
    <3>4. handler'[t].i \in Sent(handler[t].client)'
      BY <2>2, <2>6, <3>2, Zenon DEF Sent
    <3>5. <<handler'[t].client, handler'[t].i>> \in handled'
      BY <2>2, <2>6, <3>2, Zenon
    <3> QED
      BY <1>4, <2>2, <2>3, <2>6, <3>1, <3>2, <3>3, <3>4, <3>5, Zenon DEF AtWork
  <2> QED
    BY <2>1, <2>2, <2>4, <2>5, <2>6, Zenon
<1> QED
  BY <1>5, <1>6

\* What a new reply says.
LEMMA ReplyStep ==
    TypeOK /\ AtWork /\ Histories /\ [Next]_vars =>
        \/ UNCHANGED replies
        \/ \E c \in Clients, i \in Nat, b \in Bodies :
              /\ replies' = replies \cup {[client |-> c, i |-> i, body |-> b]}
              /\ i \in Sent(c) /\ <<c, i>> \in handled'
              /\ \/ requests[c][i].kind = "discover" /\ \E t \in Threads : Deliver(t, c, i)
                 \/ /\ requests[c][i].kind = "read" /\ requests[c][i].object \in Configured
                    /\ b = value[requests[c][i].object] /\ UNCHANGED <<value, log>>
                    /\ \E t \in Threads :
                          ReadValue(t) /\ End(t) /\ handler[t].client = c /\ handler[t].i = i
                 \/ /\ requests[c][i].kind = "write" /\ b = "ack"
                    /\ \E t \in Threads :
                          /\ Write(t) /\ handler[t].client = c /\ handler[t].i = i
                          /\ requests[c][i].object \in Configured
<1> SUFFICES ASSUME TypeOK, AtWork, Histories, [Next]_vars, ~UNCHANGED replies
             PROVE  \E c \in Clients, i \in Nat, b \in Bodies :
                      /\ replies' = replies \cup {[client |-> c, i |-> i, body |-> b]}
                      /\ i \in Sent(c) /\ <<c, i>> \in handled'
                      /\ \/ requests[c][i].kind = "discover" /\ \E t \in Threads : Deliver(t, c, i)
                         \/ /\ requests[c][i].kind = "read" /\ requests[c][i].object \in Configured
                            /\ b = value[requests[c][i].object] /\ UNCHANGED <<value, log>>
                            /\ \E t \in Threads :
                                  ReadValue(t) /\ End(t) /\ handler[t].client = c /\ handler[t].i = i
                         \/ /\ requests[c][i].kind = "write" /\ b = "ack"
                            /\ \E t \in Threads :
                                  /\ Write(t) /\ handler[t].client = c /\ handler[t].i = i
                                  /\ requests[c][i].object \in Configured
  BY Zenon
<1>1. \/ \E t \in Threads : ReadValue(t) \/ Write(t)
      \/ \E t \in Threads, c \in Clients : \E i \in DOMAIN requests[c] : Deliver(t, c, i)
  BY Zenon DEF Next, Send, Repeat, Receive, GiveUp, SetPresentValue, HandlerStep, Lookup, Crash,
        NoAnswer, vars, network
<1>2. CASE \E t \in Threads, c \in Clients : \E i \in DOMAIN requests[c] : Deliver(t, c, i)
  <2>1. PICK t \in Threads, c \in Clients : \E i \in DOMAIN requests[c] : Deliver(t, c, i)
    BY <1>2
  <2>2. PICK i \in DOMAIN requests[c] : Deliver(t, c, i)
    BY <2>1
  <2>3. requests[c] \in Seq(Requests)
    BY DEF TypeOK
  <2>4. i \in Sent(c) /\ i \in Nat /\ requests[c][i] \in Requests
    BY <2>3, Members DEF Sent
  <2>5. PICK q \in Requests : q = requests[c][i]
    BY <2>4
  <2>6. q.kind = "discover" /\ replies' = replies \cup {[client |-> c, i |-> i, body |-> "device"]}
    <3>1. ~UNCHANGED replies
      OBVIOUS
    <3>2. IF Parsed[q].step = "answer" /\ q.kind = "discover" THEN ReplyTo(c, i, "device")
          ELSE UNCHANGED replies
      BY <2>2, <2>5, Zenon DEF Deliver
    <3> QED
      BY <3>1, <3>2, Zenon DEF ReplyTo
  <2>8. <<c, i>> \in handled' /\ "device" \in Bodies
    BY <2>2 DEF Deliver, Bodies
  <2> QED
    BY <2>2, <2>4, <2>5, <2>6, <2>8
<1>3. CASE \E t \in Threads : ReadValue(t) \/ Write(t)
  <2>1. PICK t \in Threads : ReadValue(t) \/ Write(t)
    BY <1>3
  <2>2. PICK c, i : c = handler[t].client /\ i = handler[t].i
    OBVIOUS
  <2>3. ~At(t, "idle")
    BY <2>1 DEF ReadValue, Write, At
  <2>4. /\ c \in Clients /\ i \in Nat /\ requests[c][i] \in Request
        /\ IF At(t, "write")
           THEN requests[c][i].kind = "write" /\ Asked(t).object = requests[c][i].object
           ELSE requests[c][i].kind = "read" /\ Asked(t).object = requests[c][i].object
    BY <2>2, <2>3, WorkOf DEF Work
  <2>5. i \in Sent(c) /\ <<c, i>> \in handled /\ <<c, i>> \in handled'
    BY <2>2, <2>3, HistoryKept, Zenon DEF AtWork
  <2>6. CASE ReadValue(t)
    <3>1. At(t, "value") /\ ~At(t, "write")
      BY <2>6 DEF ReadValue, At
    <3>2. requests[c][i].kind = "read" /\ requests[c][i].object \in Configured
      BY <2>3, <2>4, <3>1, Zenon DEF AtWork
    <3>3. PICK v : v = value[Asked(t).object]
      OBVIOUS
    <3>4. v \in Reals /\ Answer(t, v)
      BY <2>6, <3>3, Zenon DEF ReadValue, NoAnswer
    <3>5. replies' = replies \cup {[client |-> c, i |-> i, body |-> v]} /\ End(t)
      BY <2>2, <3>4 DEF Answer, ReplyTo
    <3>6. v \in Bodies /\ UNCHANGED <<value, log>>
      BY <2>6, <3>4 DEF Bodies, ReadValue
    <3>7. v = value[requests[c][i].object]
      BY <2>4, <3>1, <3>3
    <3> QED
      BY <2>2, <2>4, <2>5, <2>6, <3>2, <3>5, <3>6, <3>7, Zenon
  <2>7. CASE Write(t)
    <3>1. At(t, "write")
      BY <2>7 DEF Write
    <3>2. requests[c][i].kind = "write"
      BY <2>4, <3>1
    <3>3. /\ requests[c][i].object \in Configured
          /\ replies' = replies \cup {[client |-> c, i |-> i, body |-> "ack"]}
      <4>1. ~UNCHANGED replies
        OBVIOUS
      <4> QED
        BY <2>2, <2>4, <2>7, <3>1, <4>1, Zenon DEF Write, Answer, NoAnswer, ReplyTo
    <3>4. "ack" \in Bodies
      BY DEF Bodies
    <3> QED
      BY <2>2, <2>4, <2>5, <2>7, <3>2, <3>3, <3>4, Zenon
  <2> QED
    BY <2>1, <2>6, <2>7
<1> QED
  BY <1>1, <1>2, <1>3

\* The copies of a request in flight are counted, one count for each request.
LEMMA CopiesKept ==
    TypeOK /\ Histories /\ [Next]_vars =>
        copies' \in [Clients -> Seq(Nat)] /\ \A c \in Clients : Len(copies'[c]) = Len(requests'[c])
<1> SUFFICES ASSUME TypeOK, Histories, [Next]_vars
             PROVE  copies' \in [Clients -> Seq(Nat)] /\ \A c \in Clients : Len(copies'[c]) = Len(requests'[c])
  BY Zenon
<1>1. /\ copies \in [Clients -> Seq(Nat)] /\ requests \in [Clients -> Seq(Requests)]
      /\ \A c \in Clients : Len(copies[c]) = Len(requests[c])
  BY DEF TypeOK, Histories
<1>2. \/ UNCHANGED <<copies, requests>>
      \/ \E c \in Clients : Send(c)
      \/ \E c \in Clients : \E i \in DOMAIN requests[c] : Repeat(c, i) \/ \E t \in Threads : Deliver(t, c, i)
  BY Zenon DEF Next, Receive, GiveUp, HandlerStep, Lookup, ReadValue, Write,
        Crash, SetPresentValue, vars, network
<1>3. CASE UNCHANGED <<copies, requests>>
  BY <1>1, <1>3
<1>4. CASE \E c \in Clients : Send(c)
  <2>1. PICK d \in Clients, q \in Requests :
          /\ requests' = [requests EXCEPT ![d] = Append(@, q)]
          /\ copies' = [copies EXCEPT ![d] = Append(@, 1)]
    BY <1>4 DEF Send
  <2>2. requests[d] \in Seq(Requests) /\ copies[d] \in Seq(Nat) /\ 1 \in Nat
    BY <1>1
  <2>3. Len(Append(requests[d], q)) = Len(requests[d]) + 1
    BY <2>2, Appended
  <2>4. Append(copies[d], 1) \in Seq(Nat) /\ Len(Append(copies[d], 1)) = Len(copies[d]) + 1
    BY <2>2, Appended
  <2>5. /\ requests' = [requests EXCEPT ![d] = Append(requests[d], q)]
        /\ copies' = [copies EXCEPT ![d] = Append(copies[d], 1)]
    BY <2>1
  <2> QED
    BY <1>1, <2>3, <2>4, <2>5
<1>5. ASSUME NEW d \in Clients, NEW i \in DOMAIN requests[d], NEW n \in Nat,
             copies' = [copies EXCEPT ![d][i] = n], UNCHANGED requests
      PROVE  copies' \in [Clients -> Seq(Nat)] /\ \A c \in Clients : Len(copies'[c]) = Len(requests'[c])
  <2>1. requests[d] \in Seq(Requests) /\ copies[d] \in Seq(Nat) /\ Len(copies[d]) = Len(requests[d])
    BY <1>1
  <2>2. i \in 1..Len(copies[d])
    BY <2>1, Members
  <2>3. [copies[d] EXCEPT ![i] = n] \in Seq(Nat) /\ Len([copies[d] EXCEPT ![i] = n]) = Len(copies[d])
    BY <2>1, <2>2, ExceptSeq
  <2>4. copies' = [copies EXCEPT ![d] = [copies[d] EXCEPT ![i] = n]]
    BY <1>5
  <2> QED
    BY <1>1, <1>5, <2>3, <2>4
<1>6. CASE \E c \in Clients : \E i \in DOMAIN requests[c] : Repeat(c, i) \/ \E t \in Threads : Deliver(t, c, i)
  <2>1. PICK d \in Clients : \E i \in DOMAIN requests[d] : Repeat(d, i) \/ \E t \in Threads : Deliver(t, d, i)
    BY <1>6
  <2>2. PICK i \in DOMAIN requests[d] : Repeat(d, i) \/ \E t \in Threads : Deliver(t, d, i)
    BY <2>1
  <2>3. copies[d] \in Seq(Nat) /\ requests[d] \in Seq(Requests) /\ Len(copies[d]) = Len(requests[d])
    BY <1>1
  <2>4. copies[d][i] \in Nat
    BY <2>3, Members
  <2>5. CASE Repeat(d, i)
    <3>1. copies' = [copies EXCEPT ![d][i] = copies[d][i] + 1] /\ UNCHANGED requests
      BY <2>5 DEF Repeat
    <3>2. copies[d][i] + 1 \in Nat
      BY <2>4
    <3> QED
      BY <1>5, <3>1, <3>2
  <2>6. CASE \E t \in Threads : Deliver(t, d, i)
    <3>1. copies' = [copies EXCEPT ![d][i] = copies[d][i] - 1] /\ UNCHANGED requests /\ copies[d][i] > 0
      BY <2>6 DEF Deliver
    <3>2. copies[d][i] - 1 \in Nat
      BY <2>4, <3>1
    <3> QED
      BY <1>5, <3>1, <3>2
  <2> QED
    BY <2>2, <2>5, <2>6
<1> QED
  BY <1>2, <1>3, <1>4, <1>6

\* No step leaves the ranges.
LEMMA TypeOKKept == TypeOK /\ AtWork /\ Histories /\ [Next]_vars => TypeOK'
<1> SUFFICES ASSUME TypeOK, AtWork, Histories, [Next]_vars PROVE TypeOK'
  BY Zenon
<1>1. value' \in [Configured -> Values]
  <2>1. value \in [Configured -> Values]
    BY DEF TypeOK
  <2>2. CASE UNCHANGED <<value, log>>
    BY <2>1, <2>2
  <2>3. CASE \E o \in Configured, e \in Entries : value' = [value EXCEPT ![o] = e.value]
    BY <2>1, <2>3 DEF Entries
  <2> QED
    BY <2>2, <2>3, LogStep, Zenon
<1>2. handler' \in [Threads -> {Idle} \cup Work]
  BY AtWorkKept
<1>3. replies' \subseteq [client : Clients, i : Nat, body : Bodies]
  <2>1. replies \subseteq [client : Clients, i : Nat, body : Bodies]
    BY DEF TypeOK
  <2>2. CASE UNCHANGED replies
    BY <2>1, <2>2
  <2>3. CASE \E c \in Clients, i \in Nat, b \in Bodies :
                replies' = replies \cup {[client |-> c, i |-> i, body |-> b]}
    BY <2>1, <2>3
  <2> QED
    BY <2>2, <2>3, ReplyStep, Zenon
<1>4. awaiting' \in [Clients -> BOOLEAN]
  <2>1. awaiting \in [Clients -> BOOLEAN]
    BY DEF TypeOK
  <2>2. \/ UNCHANGED awaiting
        \/ \E c \in Clients : Send(c) \/ Receive(c) \/ GiveUp(c)
    BY Zenon DEF Next, Repeat, Deliver, HandlerStep, Lookup, ReadValue, Write,
        Crash, SetPresentValue, vars, network
  <2> QED
    BY <2>1, <2>2 DEF Send, Receive, GiveUp
<1>5. requests' \in [Clients -> Seq(Requests)] /\ copies' \in [Clients -> Seq(Nat)]
  BY RequestsKept, CopiesKept
<1> QED
  BY <1>1, <1>2, <1>3, <1>4, <1>5 DEF TypeOK, Work

\* Nor do the histories come apart.
LEMMA HistoriesKept == TypeOK /\ AtWork /\ Histories /\ [Next]_vars => Histories'
<1> SUFFICES ASSUME TypeOK, AtWork, Histories, [Next]_vars PROVE Histories'
  BY Zenon
<1>1. ASSUME NEW c \in Clients PROVE Sent(c) \subseteq Sent(c)'
  BY RequestsKept, Zenon
<1>2. \A p \in handled' \cup again' : \E c \in Clients : \E i \in Sent(c)' : p = <<c, i>>
  <2>1. \A p \in handled \cup again : \E c \in Clients : \E i \in Sent(c) : p = <<c, i>>
    BY Zenon DEF Histories
  <2>2. \/ UNCHANGED <<handled, again>>
        \/ \E c \in Clients : \E i \in DOMAIN requests[c] :
              handled' \cup again' = (handled \cup again) \cup {<<c, i>>}
    <3>1. \/ UNCHANGED <<handled, again>>
          \/ \E c \in Clients : \E i \in DOMAIN requests[c] :
                Repeat(c, i) \/ \E t \in Threads : Deliver(t, c, i)
      BY Zenon DEF Next, Send, Receive, GiveUp, HandlerStep, Lookup, ReadValue, Write,
            Crash, SetPresentValue, vars, network
    <3>2. ASSUME NEW c \in Clients, NEW i \in DOMAIN requests[c],
                 Repeat(c, i) \/ \E t \in Threads : Deliver(t, c, i)
          PROVE  handled' \cup again' = (handled \cup again) \cup {<<c, i>>}
      <4>1. CASE Repeat(c, i)
        <5>1. handled' = handled /\ again' = again \cup {<<c, i>>}
          BY <4>1 DEF Repeat
        <5> QED
          BY <5>1
      <4>2. CASE \E t \in Threads : Deliver(t, c, i)
        <5>1. handled' = handled \cup {<<c, i>>} /\ again' = again
          BY <4>2 DEF Deliver
        <5> QED
          BY <5>1
      <4> QED
        BY <3>2, <4>1, <4>2
    <3> QED
      BY <3>1, <3>2, Zenon
  <2>3. \A c \in Clients : DOMAIN requests[c] = Sent(c)
    BY Members DEF TypeOK, Sent
  <2> QED
    BY <1>1, <2>1, <2>2, <2>3
<1>3. \A r \in replies' : r.i \in Sent(r.client)' /\ <<r.client, r.i>> \in handled'
  <2>1. \A r \in replies : r.client \in Clients /\ r.i \in Sent(r.client) /\ <<r.client, r.i>> \in handled
    <3>1. \A r \in replies : r.client \in Clients
      BY DEF TypeOK
    <3> QED
      BY <3>1, Zenon DEF Histories
  <2>2. \A r \in replies : r.i \in Sent(r.client)' /\ <<r.client, r.i>> \in handled'
    BY <1>1, <2>1, HistoryKept, Zenon
  <2>3. CASE UNCHANGED replies
    BY <2>2, <2>3, Zenon
  <2>4. CASE \E c \in Clients, i \in Nat, b \in Bodies :
               /\ replies' = replies \cup {[client |-> c, i |-> i, body |-> b]}
               /\ i \in Sent(c) /\ <<c, i>> \in handled'
    <3>1. PICK c \in Clients, i \in Nat, b \in Bodies :
               /\ replies' = replies \cup {[client |-> c, i |-> i, body |-> b]}
               /\ i \in Sent(c) /\ <<c, i>> \in handled'
      BY <2>4
    <3>2. PICK n : n = [client |-> c, i |-> i, body |-> b]
      OBVIOUS
    <3>3. n.client = c /\ n.i = i
      BY <3>2
    <3>4. n.i \in Sent(n.client)' /\ <<n.client, n.i>> \in handled'
      BY <1>1, <3>1, <3>3
    <3> QED
      BY <2>2, <3>1, <3>2, <3>4, Zenon
  <2> QED
    BY <2>3, <2>4, ReplyStep, Zenon
<1> QED
  BY <1>2, <1>3, RequestsKept, CopiesKept, LogsGrow, Zenon DEF Histories

-----------------------------------------------------------------------------
(* The invariant *)

IInv == TypeOK /\ Histories /\ AtWork /\ Logs /\ SentBefore

\* The inductive invariant.
LEMMA Invariance == Spec => []IInv
<1>1. Init => IInv
  BY Initially, Zenon DEF IInv
<1>2. IInv /\ [Next]_vars => IInv'
  BY TypeOKKept, HistoriesKept, AtWorkKept, LogsKept, SentBeforeKept, Zenon DEF IInv
<1> QED
  BY <1>1, <1>2, PTL DEF Spec

\* Of a log, an entry and its place stay.
LEMMA EntriesStay ==
    IInv /\ [Next]_vars => \A o \in Configured :
        /\ DOMAIN log[o] = 1..Len(log[o]) /\ DOMAIN log'[o] = 1..Len(log'[o])
        /\ \A k \in DOMAIN log[o] : k \in DOMAIN log'[o] /\ log'[o][k] = log[o][k]
<1> SUFFICES ASSUME IInv, [Next]_vars, NEW o \in Configured
             PROVE  /\ DOMAIN log[o] = 1..Len(log[o]) /\ DOMAIN log'[o] = 1..Len(log'[o])
                    /\ \A k \in DOMAIN log[o] : k \in DOMAIN log'[o] /\ log'[o][k] = log[o][k]
  BY Zenon
<1>1. /\ log' \in [Configured -> Seq(Entries)] /\ log \in [Configured -> Seq(Entries)]
      /\ Len(log[o]) \in Nat /\ Len(log'[o]) \in Nat /\ Len(log[o]) <= Len(log'[o])
      /\ \A k \in 1..Len(log[o]) : log'[o][k] = log[o][k]
  BY LogsGrow, Zenon DEF IInv, Histories
<1>2. DOMAIN log[o] = 1..Len(log[o]) /\ DOMAIN log'[o] = 1..Len(log'[o])
  BY <1>1, Members
<1> QED
  BY <1>1, <1>2

\* What was applied stays so.
LEMMA AppliedStays ==
    IInv /\ [Next]_vars => \A c \in Clients : \A i \in Sent(c) : Applied(c, i) => Applied(c, i)'
<1> SUFFICES ASSUME IInv, [Next]_vars, NEW c \in Clients, NEW i \in Sent(c), Applied(c, i)
             PROVE  Applied(c, i)'
  BY Zenon
<1>1. requests'[c][i] = requests[c][i]
  BY RequestsKept, Zenon DEF IInv
<1>2. PICK o : o = requests[c][i].object /\ o = requests'[c][i].object
  BY <1>1
<1>3. o \in Configured /\ \E k \in DOMAIN log[o] : log[o][k].by = c /\ log[o][k].i = i
  BY <1>2 DEF Applied
<1>4. \E k \in DOMAIN log'[o] : log'[o][k].by = c /\ log'[o][k].i = i
  BY <1>3, EntriesStay, Zenon
<1> QED
  BY <1>2, <1>3, <1>4 DEF Applied

\* A write that takes place is in the log.
LEMMA WriteApplies ==
    IInv /\ [Next]_vars => \A t \in Threads : \A c, i :
        Write(t) /\ handler[t].client = c /\ handler[t].i = i /\ requests[c][i].object \in Configured
            => Applied(c, i)'
<1> SUFFICES ASSUME IInv, [Next]_vars, NEW t \in Threads, Write(t),
                    NEW c, NEW i, handler[t].client = c, handler[t].i = i,
                    requests[c][i].object \in Configured
             PROVE  Applied(c, i)'
  BY Zenon
<1>0. PICK o \in Configured : o = requests[c][i].object
  OBVIOUS
<1>1. /\ c \in Clients /\ i \in Sent(c) /\ requests[c][i] \in Request
      /\ log' = [log EXCEPT ![o] = Append(@, Entry(c, i, requests[c][i].value))]
  <2>1. LET q == requests[c][i] IN
        /\ c \in Clients /\ i \in Sent(c) /\ q \in Request
        /\ IF q.object \in Configured
           THEN log' = [log EXCEPT ![q.object] = Append(@, Entry(c, i, q.value))]
           ELSE UNCHANGED <<value, log, replies>>
    BY WriteIs, Zenon DEF IInv
  <2> QED
    BY <1>0, <2>1, Zenon
<1>2. i \in Nat
  BY WorkOf DEF IInv, Work, Write, At
<1> DEFINE e == Entry(c, i, requests[c][i].value)
<1>3. requests[c][i].value \in Values
  BY <1>1, ValueOf, Zenon
<1>4. e \in Entries /\ e.by = c /\ e.i = i
  BY <1>1, <1>2, <1>3 DEF Entry, Entries
<1> HIDE DEF e
<1>5. log \in [Configured -> Seq(Entries)]
  BY DEF IInv, Histories
<1>6. log'[o] = Append(log[o], e) /\ log[o] \in Seq(Entries)
  BY <1>1, <1>5 DEF e
<1>7. Len(log'[o]) = Len(log[o]) + 1 /\ log'[o][Len(log[o]) + 1] = e /\ Len(log[o]) \in Nat
  BY <1>4, <1>6, Appended, Members
<1>8. \E k \in DOMAIN log'[o] : log'[o][k].by = c /\ log'[o][k].i = i
  <2>1. PICK k : k = Len(log[o]) + 1
    OBVIOUS
  <2>2. k \in 1..Len(log'[o])
    BY <1>7, <2>1
  <2>3. k \in DOMAIN log'[o]
    BY <2>2, EntriesStay
  <2>4. log'[o][k] = e
    BY <1>7, <2>1
  <2> QED
    BY <1>4, <2>3, <2>4, Zenon
<1>9. requests'[c][i].object = o
  BY <1>0, <1>1, RequestsKept, Zenon DEF IInv
<1> QED
  BY <1>8, <1>9 DEF Applied

-----------------------------------------------------------------------------
(* Theorems *)

\* Every variable stays in its range; above all a present_value is a number.
THEOREM TypeCorrect == Spec => []TypeOK
<1>1. IInv => TypeOK
  BY DEF IInv
<1> QED
  BY <1>1, Invariance, PTL

\* Only the application can make an object unreadable.
THEOREM ClientsCannotCrash == Spec => []CrashNeedsApplication
<1>1. Init => CrashNeedsApplication
  BY DEF Init, CrashNeedsApplication, At, Idle
<1>2. IInv /\ CrashNeedsApplication /\ [Next]_vars => CrashNeedsApplication'
  <2> SUFFICES ASSUME IInv, CrashNeedsApplication, [Next]_vars, NEW t \in Threads, At(t, "crashed")'
               PROVE  LET o == Asked(t)'.object IN
                      o \in Configured /\ \E k \in DOMAIN log'[o] : log'[o][k].by = "application"
    BY Zenon DEF CrashNeedsApplication
  <2>1. ASSUME NEW o \in Configured, \E k \in DOMAIN log[o] : log[o][k].by = "application"
        PROVE  \E k \in DOMAIN log'[o] : log'[o][k].by = "application"
    BY <2>1, EntriesStay, Zenon
  <2>2. CASE handler'[t] = handler[t]
    <3>1. At(t, "crashed") /\ ~At(t, "idle")
      BY <2>2 DEF At
    <3>2. PICK o \in Configured : /\ o = Asked(t).object
                                  /\ \E k \in DOMAIN log[o] : log[o][k].by = "application"
      BY <3>1, Zenon DEF CrashNeedsApplication
    <3>3. PICK c, i : c = handler[t].client /\ i = handler[t].i
      OBVIOUS
    <3>6. c \in Clients /\ i \in Sent(c)
      BY <3>1, <3>3, WorkOf, Zenon DEF IInv, AtWork
    <3>4. requests'[c][i] = requests[c][i]
      BY <3>6, RequestsKept, Zenon DEF IInv
    <3>5. Asked(t)' = Asked(t)
      BY <2>2, <3>3, <3>4 DEF Asked
    <3> QED
      BY <2>1, <3>2, <3>5, Zenon
  <2>3. CASE handler'[t] # handler[t]
    <3>1. PICK u \in Threads, h \in Work \cup {Idle} :
          /\ handler' = [handler EXCEPT ![u] = h]
          /\ \/ h = Idle
             \/ h.pc \in {"read", "write"}
             \/ /\ ~At(u, "idle") /\ ~At(u, "write") /\ h.client = handler[u].client /\ h.i = handler[u].i
                /\ Asked(u).object \in Configured
                /\ h.pc = "crashed" => value[Asked(u).object] \notin Reals
                /\ UNCHANGED <<value, log, replies, requests, handled>>
      BY <2>3, ThreadStep, Zenon DEF IInv
    <3>2. handler \in [Threads -> {Idle} \cup Work]
      BY DEF IInv, TypeOK, Work
    <3>3. u = t /\ handler'[t] = h
      BY <2>3, <3>1, <3>2
    <3>4. h.pc = "crashed"
      BY <3>3 DEF At
    <3>5. /\ h.client = handler[t].client /\ h.i = handler[t].i
          /\ Asked(t).object \in Configured /\ value[Asked(t).object] \notin Reals
          /\ UNCHANGED <<value, log, replies, requests, handled>>
      BY <3>1, <3>3, <3>4 DEF Idle
    <3>6. Asked(t)' = Asked(t)
      BY <3>3, <3>5, Zenon DEF Asked
    <3>7. PICK o \in Configured : o = Asked(t).object
      BY <3>5
    <3>8. /\ log[o] # <<>> /\ log[o][Len(log[o])].value = value[o]
          /\ \A k \in 1..Len(log[o]) : Founded(o, k)
      BY Zenon DEF IInv, Logs
    <3>9. log[o] \in Seq(Entries)
      BY DEF IInv, Histories
    <3>10. Len(log[o]) \in 1..Len(log[o]) /\ Len(log[o]) \in DOMAIN log[o]
      BY <3>8, <3>9, EmptySeq, LenProperties
    <3>11. log[o][Len(log[o])].by = "application"
      BY <3>5, <3>7, <3>8, <3>10, Zenon DEF Founded
    <3> QED
      BY <2>1, <3>6, <3>7, <3>10, <3>11, Zenon
  <2> QED
    BY <2>2, <2>3
<1> QED
  BY <1>1, <1>2, Invariance, PTL DEF Spec

\* A write that was handled takes place, but for the reasons named there.
THEOREM WritesTakePlace == Spec => []UnappliedWriteHasCause
<1>1. Init => UnappliedWriteHasCause
  BY DEF Init, UnappliedWriteHasCause
<1>2. IInv /\ UnappliedWriteHasCause /\ [Next]_vars => UnappliedWriteHasCause'
  <2> SUFFICES ASSUME IInv, UnappliedWriteHasCause, [Next]_vars,
                      NEW c \in Clients, NEW i \in DOMAIN requests'[c],
                      <<c, i>> \in handled', requests'[c][i].kind = "write", ~Applied(c, i)',
                      requests'[c][i].object \in Configured, ~HasClosing(requests'[c][i].value),
                      ~Misread(requests'[c][i].route)
               PROVE  InHand(c, i)'
    BY Zenon DEF UnappliedWriteHasCause, HasClosing
  <2>1. handler \in [Threads -> {Idle} \cup Work]
    BY DEF IInv, TypeOK, Work
  <2>2. \A d \in Clients : DOMAIN requests[d] = Sent(d)
    BY Members DEF IInv, TypeOK, Sent
  <2>3. CASE <<c, i>> \in handled
    <3>1. i \in Sent(c)
      BY <2>3 DEF IInv, Histories
    <3>2. requests'[c][i] = requests[c][i]
      BY <3>1, RequestsKept, Zenon DEF IInv
    <3>3. ~Applied(c, i)
      BY <3>1, AppliedStays, Zenon
    <3>4. InHand(c, i)
      BY <2>2, <2>3, <3>1, <3>2, <3>3, Zenon DEF UnappliedWriteHasCause, HasClosing
    <3>5. PICK t \in Threads : ~At(t, "idle") /\ handler[t].client = c /\ handler[t].i = i
      BY <3>4 DEF InHand
    <3>6. At(t, "write")
      BY <3>2, <3>5, WorkOf DEF IInv
    <3>7. CASE handler'[t] = handler[t]
      BY <3>5, <3>7 DEF InHand, At
    <3>8. CASE handler'[t] # handler[t]
      <4>1. PICK u \in Threads, h \in Work \cup {Idle} :
              /\ handler' = [handler EXCEPT ![u] = h]
              /\ \/ HandlerStep(u)
                 \/ At(u, "idle")
                 \/ ~At(u, "write")
        BY <3>8, ThreadStep, Zenon DEF IInv
      <4>2. u = t
        BY <2>1, <3>8, <4>1
      <4>3. HandlerStep(t)
        BY <3>6, <4>1, <4>2 DEF At
      <4>4. Write(t)
        BY <3>6, <4>3 DEF HandlerStep, Lookup, ReadValue, Crash, At
      <4>5. requests[c][i].object \in Configured => Applied(c, i)'
        BY <3>5, <4>4, WriteApplies, Zenon
      <4> QED
        BY <3>2, <4>5
    <3> QED
      BY <3>7, <3>8
  <2>4. CASE <<c, i>> \notin handled
    <3>1. PICK t \in Threads, d \in Clients : \E j \in DOMAIN requests[d] : Deliver(t, d, j) /\ <<c, i>> = <<d, j>>
      <4>1. \E t \in Threads, d \in Clients : \E j \in DOMAIN requests[d] : Deliver(t, d, j)
        BY <2>4, Zenon DEF Next, Send, Receive, GiveUp, Repeat, HandlerStep, Lookup, ReadValue, Write,
            Crash, SetPresentValue, vars, network
      <4>2. PICK t \in Threads, d \in Clients : \E j \in DOMAIN requests[d] : Deliver(t, d, j)
        BY <4>1
      <4>3. PICK j \in DOMAIN requests[d] : Deliver(t, d, j)
        BY <4>2
      <4>4. handled' = handled \cup {<<d, j>>}
        BY <4>3 DEF Deliver
      <4>5. <<c, i>> = <<d, j>>
        BY <2>4, <4>4
      <4> QED
        BY <4>3, <4>5
    <3>2. i \in DOMAIN requests[c] /\ Deliver(t, c, i)
      BY <3>1
    <3>3. i \in Sent(c) /\ requests[c][i] \in Requests
      BY <2>2, <3>2, Members DEF IInv, TypeOK, Sent
    <3>4. requests'[c][i] = requests[c][i]
      BY <3>3, RequestsKept, Zenon DEF IInv
    <3>5. PICK q \in Requests : q = requests[c][i]
      BY <3>3
    <3>6. Parsed[q].step = "write"
      BY <3>4, <3>5, Understood
    <3>7. handler' = [handler EXCEPT ![t] = [pc |-> "write", client |-> c, i |-> i]]
      BY <3>2, <3>5, <3>6 DEF Deliver
    <3>8. handler'[t] = [pc |-> "write", client |-> c, i |-> i]
      BY <2>1, <3>7
    <3>9. handler'[t].pc # "idle" /\ handler'[t].client = c /\ handler'[t].i = i
      BY <3>8
    <3> QED
      BY <3>9 DEF InHand, At
  <2> QED
    BY <2>3, <2>4
<1> QED
  BY <1>1, <1>2, Invariance, PTL DEF Spec

\* What a reply says is so.
THEOREM RepliesTrue == Spec => []RepliesAreTrue
<1>1. Init => RepliesAreTrue
  BY DEF Init, RepliesAreTrue
<1>2. IInv /\ RepliesAreTrue /\ [Next]_vars => RepliesAreTrue'
  <2> SUFFICES ASSUME IInv, RepliesAreTrue, [Next]_vars, NEW r \in replies'
               PROVE  LET q == requests'[r.client][r.i] IN
                      /\ q.kind = "write" => r.body = "ack" /\ Applied(r.client, r.i)'
                      /\ q.kind = "read" =>
                            /\ q.object \in Configured
                            /\ \E k \in sentAt'[r.client][r.i] .. Len(log'[q.object]) :
                                  log'[q.object][k].value = r.body
    BY Zenon DEF RepliesAreTrue
  <2>0. PICK c, i, b : c = r.client /\ i = r.i /\ b = r.body
    OBVIOUS
  <2>1. ASSUME c \in Clients, i \in Sent(c)
        PROVE  requests'[c][i] = requests[c][i] /\ sentAt'[c][i] = sentAt[c][i]
    BY <2>1, RequestsKept, Zenon DEF IInv
  <2>2. ASSUME NEW o \in Configured
        PROVE  /\ Len(log[o]) \in Nat /\ Len(log'[o]) \in Nat /\ Len(log[o]) <= Len(log'[o])
               /\ \A k \in 1..Len(log[o]) : log'[o][k] = log[o][k]
    BY LogsGrow, Zenon DEF IInv
  <2>3. ASSUME c \in Clients, i \in Sent(c), requests[c][i].object \in Configured
        PROVE  sentAt[c][i] \in 1..Len(log[requests[c][i].object])
    BY <2>3, Zenon DEF IInv, SentBefore
  <2>4. CASE r \in replies
    <3>1. c \in Clients /\ i \in Sent(c)
      BY <2>0, <2>4 DEF IInv, TypeOK, Histories
    <3>2. PICK q : q = requests[c][i] /\ q = requests'[c][i]
      BY <2>1, <3>1
    <3>3. /\ q.kind = "write" => b = "ack" /\ Applied(c, i)
          /\ q.kind = "read" =>
                /\ q.object \in Configured
                /\ \E k \in sentAt[c][i] .. Len(log[q.object]) : log[q.object][k].value = b
      BY <2>0, <2>4, <3>2, Zenon DEF RepliesAreTrue
    <3>4. q.kind = "write" => b = "ack" /\ Applied(c, i)'
      BY <3>1, <3>3, AppliedStays, Zenon
    <3>5. ASSUME q.kind = "read"
          PROVE  /\ q.object \in Configured
                 /\ \E k \in sentAt'[c][i] .. Len(log'[q.object]) : log'[q.object][k].value = b
      <4>1. PICK o \in Configured : o = q.object
        BY <3>3, <3>5
      <4>2. PICK k \in sentAt[c][i] .. Len(log[o]) : log[o][k].value = b
        BY <3>3, <3>5, <4>1
      <4>3. sentAt[c][i] \in 1..Len(log[o]) /\ sentAt'[c][i] = sentAt[c][i]
        BY <2>1, <2>3, <3>1, <3>2, <4>1
      <4>4. k \in 1..Len(log[o]) /\ k \in sentAt'[c][i] .. Len(log'[o])
        BY <2>2, <4>3
      <4>5. log'[o][k].value = b
        BY <2>2, <4>2, <4>4
      <4> QED
        BY <4>1, <4>4, <4>5
    <3> QED
      BY <2>0, <3>2, <3>4, <3>5, Zenon
  <2>5. CASE r \notin replies
    <3>1. PICK d \in Clients, j \in Nat, v \in Bodies :
              /\ replies' = replies \cup {[client |-> d, i |-> j, body |-> v]}
              /\ j \in Sent(d) /\ <<d, j>> \in handled'
              /\ \/ requests[d][j].kind = "discover"
                 \/ /\ requests[d][j].kind = "read" /\ requests[d][j].object \in Configured
                    /\ v = value[requests[d][j].object] /\ UNCHANGED <<value, log>>
                 \/ /\ requests[d][j].kind = "write" /\ v = "ack"
                    /\ \E t \in Threads :
                          /\ Write(t) /\ handler[t].client = d /\ handler[t].i = j
                          /\ requests[d][j].object \in Configured
      BY <2>5, ReplyStep, ZenonT(20) DEF IInv
    <3>2. d = c /\ j = i /\ v = b
      BY <2>0, <2>5, <3>1
    <3>3. c \in Clients /\ i \in Sent(c)
      BY <3>1, <3>2
    <3>4. PICK q : q = requests[c][i] /\ q = requests'[c][i]
      BY <2>1, <3>3
    <3>5. CASE q.kind = "discover"
      BY <2>0, <3>4, <3>5
    <3>6. CASE q.kind = "read"
      <4>1. PICK o \in Configured : o = q.object /\ b = value[o] /\ UNCHANGED <<value, log>>
        BY <3>1, <3>2, <3>4, <3>6
      <4>2. log[o][Len(log[o])].value = value[o]
        BY Zenon DEF IInv, Logs
      <4>3. sentAt[c][i] \in 1..Len(log[o]) /\ sentAt'[c][i] = sentAt[c][i]
        BY <2>1, <2>3, <3>3, <3>4, <4>1
      <4>4. Len(log[o]) \in sentAt'[c][i] .. Len(log'[o])
        BY <2>2, <4>1, <4>3
      <4>5. log'[o][Len(log[o])].value = b
        BY <4>1, <4>2
      <4>6. \E k \in sentAt'[c][i] .. Len(log'[q.object]) : log'[q.object][k].value = b
        BY <4>1, <4>4, <4>5, Zenon
      <4>7. q.object \in Configured /\ q.kind # "write"
        BY <3>6, <4>1
      <4> QED
        BY <2>0, <3>4, <4>6, <4>7, Zenon
    <3>7. CASE q.kind = "write"
      <4>1. Applied(c, i)' /\ b = "ack"
        BY <3>1, <3>2, <3>4, <3>7, WriteApplies, Zenon
      <4>2. Applied(r.client, r.i)'
        BY <2>0, <4>1, Zenon DEF Applied
      <4> QED
        BY <2>0, <3>4, <3>7, <4>1, <4>2
    <3> QED
      BY <3>1, <3>2, <3>4, <3>5, <3>6, <3>7, Zenon
  <2> QED
    BY <2>4, <2>5
<1> QED
  BY <1>1, <1>2, Invariance, PTL DEF Spec

-----------------------------------------------------------------------------
(* A client none of whose datagrams was repeated and that gave up on no write *)

Calm(c) == c \notin gaveUp /\ \A i \in Sent(c) : <<c, i>> \notin again
Replied(c, i) == \E r \in replies : r.client = c /\ r.i = i
HasEntry(c, i) == \E o \in Configured : \E k \in 1..Len(log[o]) : log[o][k].by = c /\ log[o][k].i = i
WorksOn(t, c, i) == ~At(t, "idle") /\ handler[t].client = c /\ handler[t].i = i

\* Each of its requests is handled once, by one thread, and not after its reply or
\* its entry in a log.
HandledOnce(c) ==
    \A i \in Sent(c) : copies[c][i] = 0 \/ (copies[c][i] = 1 /\ <<c, i>> \notin handled)
OneThread(c) == \A t, u \in Threads : \A i \in Sent(c) : WorksOn(t, c, i) /\ WorksOn(u, c, i) => t = u
Settled(c) ==
    \A i \in Sent(c) : Replied(c, i) \/ HasEntry(c, i) => \A t \in Threads : ~WorksOn(t, c, i)
\* It has the reply to a write before it sends another request, so that what it
\* writes is logged in that order.
Answered(c) ==
    \A i \in Sent(c) :
        requests[c][i].kind = "write" /\ (i < Len(requests[c]) \/ ~awaiting[c]) => Replied(c, i)
InOrder(c) ==
    \A o \in Configured : \A k, m \in 1..Len(log[o]) :
        log[o][k].by = c /\ log[o][m].by = c /\ k < m => log[o][k].i < log[o][m].i
OneByOne ==
    \A c \in Clients : Calm(c) =>
        HandledOnce(c) /\ OneThread(c) /\ Settled(c) /\ Answered(c) /\ InOrder(c)

\* What is worked on, replied to or logged was handled.
LEMMA WasHandled ==
    IInv => \A c \in Clients : \A i :
        /\ <<c, i>> \in handled => i \in Sent(c)
        /\ (Replied(c, i) \/ HasEntry(c, i) \/ \E t \in Threads : WorksOn(t, c, i)) => <<c, i>> \in handled
<1> SUFFICES ASSUME IInv, NEW c \in Clients, NEW i
             PROVE  /\ <<c, i>> \in handled => i \in Sent(c)
                    /\ (Replied(c, i) \/ HasEntry(c, i) \/ \E t \in Threads : WorksOn(t, c, i)) => <<c, i>> \in handled
  BY Zenon
<1>1. <<c, i>> \in handled => i \in Sent(c)
  BY DEF IInv, Histories
<1>2. Replied(c, i) => <<c, i>> \in handled
  BY Zenon DEF IInv, Histories, Replied
<1>3. (\E t \in Threads : WorksOn(t, c, i)) => <<c, i>> \in handled
  BY Zenon DEF IInv, AtWork, WorksOn
<1>4. ASSUME HasEntry(c, i) PROVE <<c, i>> \in handled
  <2>1. PICK o \in Configured : \E k \in 1..Len(log[o]) : log[o][k].by = c /\ log[o][k].i = i
    BY <1>4 DEF HasEntry
  <2>2. PICK k \in 1..Len(log[o]) : log[o][k].by = c /\ log[o][k].i = i
    BY <2>1
  <2>3. Founded(o, k)
    BY Zenon DEF IInv, Logs
  <2> QED
    BY <2>2, <2>3 DEF Founded
<1> QED
  BY <1>1, <1>2, <1>3, <1>4, Zenon

\* A client that is calm was calm before.
LEMMA CalmBefore == IInv /\ [Next]_vars => \A c \in Clients : Calm(c)' => Calm(c)
<1> SUFFICES ASSUME IInv, [Next]_vars, NEW c \in Clients, Calm(c)' PROVE Calm(c)
  BY Zenon
<1>1. again \subseteq again' /\ gaveUp \subseteq gaveUp'
  BY Zenon DEF Next, Send, Receive, GiveUp, Repeat, Deliver, HandlerStep, Lookup, ReadValue, Write,
        Crash, SetPresentValue, vars, network
<1>2. Sent(c) \subseteq Sent(c)'
  BY RequestsKept, Zenon DEF IInv
<1> QED
  BY <1>1, <1>2 DEF Calm

\* What is taken from the network was put there once.
LEMMA HandledOnceKept ==
    IInv /\ [Next]_vars => \A c \in Clients : Calm(c)' /\ HandledOnce(c) => HandledOnce(c)'
<1> SUFFICES ASSUME IInv, [Next]_vars, NEW c \in Clients, Calm(c)', HandledOnce(c), NEW i \in Sent(c)'
             PROVE  copies'[c][i] = 0 \/ (copies'[c][i] = 1 /\ <<c, i>> \notin handled')
  BY Zenon DEF HandledOnce
<1>1. /\ copies \in [Clients -> Seq(Nat)] /\ requests \in [Clients -> Seq(Requests)]
      /\ Len(copies[c]) = Len(requests[c]) /\ Len(requests[c]) \in Nat
      /\ DOMAIN copies[c] = 1..Len(copies[c])
  BY Members DEF IInv, TypeOK, Histories
<1>2. i \in Sent(c) => copies[c][i] = 0 \/ (copies[c][i] = 1 /\ <<c, i>> \notin handled)
  BY Zenon DEF HandledOnce
<1>3. \/ \E d \in Clients : Send(d)
      \/ \E d \in Clients : \E j \in DOMAIN requests[d] : Repeat(d, j)
      \/ \E d \in Clients : \E j \in DOMAIN requests[d] : \E t \in Threads : Deliver(t, d, j)
      \/ UNCHANGED <<requests, copies, handled>>
  BY Zenon DEF Next, Receive, GiveUp, HandlerStep, Lookup, ReadValue, Write,
        Crash, SetPresentValue, vars, network
<1>4. CASE UNCHANGED <<requests, copies, handled>>
  BY <1>2, <1>4 DEF Sent
<1>5. CASE \E d \in Clients : Send(d)
  <2>1. PICK d \in Clients, q \in Requests :
          /\ requests' = [requests EXCEPT ![d] = Append(@, q)]
          /\ copies' = [copies EXCEPT ![d] = Append(@, 1)]
          /\ UNCHANGED handled
    BY <1>5 DEF Send
  <2>2. CASE d # c
    <3>1. requests'[c] = requests[c] /\ copies'[c] = copies[c]
      BY <1>1, <2>1, <2>2, Zenon
    <3> QED
      BY <1>2, <2>1, <3>1 DEF Sent
  <2>3. CASE d = c
    <3>1. requests'[c] = Append(requests[c], q) /\ copies'[c] = Append(copies[c], 1)
      BY <1>1, <2>1, <2>3
    <3>2. requests[c] \in Seq(Requests) /\ copies[c] \in Seq(Nat) /\ 1 \in Nat
      BY <1>1
    <3>3. Len(requests'[c]) = Len(requests[c]) + 1
      BY <3>1, <3>2, Appended
    <3>4. copies'[c][Len(copies[c]) + 1] = 1 /\ \A k \in 1..Len(copies[c]) : copies'[c][k] = copies[c][k]
      BY <3>1, <3>2, Appended
    <3>5. i \in Sent(c) \/ i = Len(requests[c]) + 1
      BY <1>1, <3>3 DEF Sent
    <3>6. CASE i \in Sent(c)
      BY <1>1, <1>2, <2>1, <3>4, <3>6 DEF Sent
    <3>7. CASE i = Len(requests[c]) + 1
      <4>1. i \notin Sent(c)
        BY <1>1, <3>7 DEF Sent
      <4>2. <<c, i>> \notin handled
        BY <4>1, WasHandled
      <4> QED
        BY <1>1, <2>1, <3>4, <3>7, <4>2
    <3> QED
      BY <3>5, <3>6, <3>7
  <2> QED
    BY <2>2, <2>3
<1>6. CASE \E d \in Clients : \E j \in DOMAIN requests[d] : Repeat(d, j)
  <2>1. PICK d \in Clients : \E j \in DOMAIN requests[d] : Repeat(d, j)
    BY <1>6
  <2>2. PICK j \in DOMAIN requests[d] : Repeat(d, j)
    BY <2>1
  <2>3. /\ copies' = [copies EXCEPT ![d][j] = @ + 1] /\ again' = again \cup {<<d, j>>}
        /\ UNCHANGED <<requests, handled>>
    BY <2>2 DEF Repeat
  <2>4. d # c
    <3>1. ASSUME d = c PROVE FALSE
      <4>1. <<c, j>> \in again'
        BY <2>3, <3>1
      <4>2. j \in Sent(c)'
        BY <1>1, <2>3, <3>1, Members DEF Sent
      <4> QED
        BY <4>1, <4>2, Zenon DEF Calm
    <3> QED
      BY <3>1
  <2>5. copies'[c] = copies[c]
    BY <1>1, <2>3, <2>4
  <2> QED
    BY <1>2, <2>3, <2>5 DEF Sent
<1>7. CASE \E d \in Clients : \E j \in DOMAIN requests[d] : \E t \in Threads : Deliver(t, d, j)
  <2>1. PICK d \in Clients : \E j \in DOMAIN requests[d] : \E t \in Threads : Deliver(t, d, j)
    BY <1>7
  <2>2. PICK j \in DOMAIN requests[d] : \E t \in Threads : Deliver(t, d, j)
    BY <2>1
  <2>3. /\ copies' = [copies EXCEPT ![d][j] = copies[d][j] - 1] /\ handled' = handled \cup {<<d, j>>}
        /\ UNCHANGED requests /\ copies[d][j] > 0
    BY <2>2 DEF Deliver
  <2>4. i \in Sent(c)
    BY <2>3 DEF Sent
  <2>5. CASE d # c \/ i # j
    <3>1. copies'[c][i] = copies[c][i]
      BY <1>1, <2>3, <2>5
    <3>2. <<c, i>> # <<d, j>>
      BY <2>5
    <3> QED
      BY <1>2, <2>3, <2>4, <3>1, <3>2
  <2>6. CASE d = c /\ i = j
    <3>1. copies'[c][i] = copies[c][i] - 1
      BY <1>1, <2>3, <2>4, <2>6 DEF Sent
    <3>2. copies[c][i] = 1
      BY <1>2, <2>3, <2>4, <2>6
    <3> QED
      BY <3>1, <3>2
  <2> QED
    BY <2>5, <2>6
<1> QED
  BY <1>3, <1>4, <1>5, <1>6, <1>7

\* A request of a calm client that is delivered was not handled before.
LEMMA DeliveredOnce ==
    IInv => \A c \in Clients : \A i \in Sent(c) : \A t \in Threads :
        HandledOnce(c) /\ Deliver(t, c, i) =>
            <<c, i>> \notin handled /\ ~Replied(c, i) /\ ~HasEntry(c, i) /\ \A u \in Threads : ~WorksOn(u, c, i)
<1> SUFFICES ASSUME IInv, NEW c \in Clients, NEW i \in Sent(c), NEW t \in Threads,
                    HandledOnce(c), Deliver(t, c, i)
             PROVE  <<c, i>> \notin handled
  BY WasHandled, Zenon
<1>1. copies[c][i] > 0
  BY DEF Deliver
<1>2. copies[c][i] = 0 \/ (copies[c][i] = 1 /\ <<c, i>> \notin handled)
  BY Zenon DEF HandledOnce
<1> QED
  BY <1>1, <1>2

\* Who works on a request did so before, or it was delivered to him.
LEMMA WorkBegins ==
    IInv /\ [Next]_vars => \A t \in Threads : \A c, i : WorksOn(t, c, i)' =>
        \/ WorksOn(t, c, i) /\ (handler'[t] = handler[t] \/ UNCHANGED <<replies, log>>)
        \/ /\ c \in Clients /\ i \in Sent(c) /\ Deliver(t, c, i) /\ requests[c][i].kind # "discover"
           /\ \A u \in Threads : u # t => handler'[u] = handler[u]
<1> SUFFICES ASSUME IInv, [Next]_vars, NEW t \in Threads, NEW c, NEW i, WorksOn(t, c, i)'
             PROVE  \/ WorksOn(t, c, i) /\ (handler'[t] = handler[t] \/ UNCHANGED <<replies, log>>)
                    \/ /\ c \in Clients /\ i \in Sent(c) /\ Deliver(t, c, i) /\ requests[c][i].kind # "discover"
                       /\ \A u \in Threads : u # t => handler'[u] = handler[u]
  BY Zenon
<1>1. handler \in [Threads -> {Idle} \cup Work]
  BY DEF IInv, TypeOK, Work
<1>2. ~At(t, "idle")' /\ handler'[t].client = c /\ handler'[t].i = i
  BY Zenon DEF WorksOn
<1>3. CASE handler'[t] = handler[t]
  BY <1>2, <1>3 DEF WorksOn, At
<1>4. CASE handler'[t] # handler[t]
  <2>1. PICK u \in Threads, h \in Work \cup {Idle} :
          /\ handler' = [handler EXCEPT ![u] = h]
          /\ \/ h = Idle
             \/ /\ h.client \in Clients /\ h.i \in Sent(h.client) /\ Deliver(u, h.client, h.i)
                /\ h.pc = Parsed[requests[h.client][h.i]].step /\ h.pc \in {"read", "write"}
             \/ /\ ~At(u, "idle") /\ h.client = handler[u].client /\ h.i = handler[u].i
                /\ UNCHANGED <<value, log, replies, requests, handled>>
    BY <1>4, ThreadStep, Zenon DEF IInv
  <2>2. u = t /\ handler'[t] = h /\ \A v \in Threads : v # t => handler'[v] = handler[v]
    BY <1>1, <1>4, <2>1
  <2>3. h # Idle
    BY <1>2, <2>2 DEF At, Idle
  <2>4. CASE /\ ~At(t, "idle") /\ h.client = handler[t].client /\ h.i = handler[t].i
             /\ UNCHANGED <<value, log, replies, requests, handled>>
    BY <1>2, <2>2, <2>4 DEF WorksOn
  <2>5. CASE /\ h.client \in Clients /\ h.i \in Sent(h.client) /\ Deliver(t, h.client, h.i)
             /\ h.pc = Parsed[requests[h.client][h.i]].step /\ h.pc \in {"read", "write"}
    <3>1. c \in Clients /\ i \in Sent(c) /\ Deliver(t, c, i)
      BY <1>2, <2>2, <2>5
    <3>2. requests[c] \in Seq(Requests)
      BY <3>1 DEF IInv, TypeOK
    <3>3. requests[c][i] \in Requests
      BY <3>1, <3>2, Members DEF Sent
    <3>4. Parsed[requests[c][i]].step \in {"read", "write"}
      BY <1>2, <2>2, <2>5
    <3>5. requests[c][i].kind # "discover"
      BY <3>3, <3>4, Understood
    <3> QED
      BY <2>2, <3>1, <3>5
  <2> QED
    BY <2>1, <2>2, <2>3, <2>4, <2>5, Zenon
<1> QED
  BY <1>3, <1>4

\* A request at work was handled, so it is not given to a second thread.
LEMMA OneThreadKept ==
    IInv /\ [Next]_vars => \A c \in Clients : HandledOnce(c) /\ OneThread(c) => OneThread(c)'
<1> SUFFICES ASSUME IInv, [Next]_vars, NEW c \in Clients, HandledOnce(c), OneThread(c),
                    NEW t \in Threads, NEW u \in Threads, NEW i \in Sent(c)',
                    WorksOn(t, c, i)', WorksOn(u, c, i)', t # u
             PROVE  FALSE
  BY Zenon DEF OneThread
<1>1. ASSUME NEW v \in Threads, WorksOn(v, c, i) PROVE i \in Sent(c)
  BY <1>1, WasHandled, Zenon
<1>2. CASE WorksOn(t, c, i) /\ WorksOn(u, c, i)
  BY <1>1, <1>2, Zenon DEF OneThread
<1>3. ASSUME NEW v \in Threads, NEW w \in Threads, v # w, WorksOn(v, c, i)', WorksOn(w, c, i)',
             i \in Sent(c), Deliver(v, c, i), handler'[w] = handler[w]
      PROVE  FALSE
  <2>1. WorksOn(w, c, i)
    BY <1>3 DEF WorksOn, At
  <2> QED
    BY <1>3, <2>1, DeliveredOnce, Zenon
<1> QED
  BY <1>2, <1>3, WorkBegins, Zenon

\* A thread that writes, or replies to a read, is done.
LEMMA SettledKept ==
    IInv /\ [Next]_vars => \A c \in Clients :
        HandledOnce(c) /\ OneThread(c) /\ Settled(c) => Settled(c)'
<1> SUFFICES ASSUME IInv, [Next]_vars, NEW c \in Clients, HandledOnce(c), OneThread(c), Settled(c),
                    NEW i \in Sent(c)', NEW t \in Threads, WorksOn(t, c, i)'
             PROVE  ~Replied(c, i)' /\ ~HasEntry(c, i)'
  BY Zenon DEF Settled
<1>1. handler \in [Threads -> {Idle} \cup Work]
  BY DEF IInv, TypeOK, Work
<1>2. i \in Sent(c) /\ ~Replied(c, i) /\ ~HasEntry(c, i)
  <2>1. CASE WorksOn(t, c, i)
    <3>1. i \in Sent(c)
      BY <2>1, WasHandled, Zenon
    <3> QED
      BY <2>1, <3>1, Zenon DEF Settled
  <2>2. CASE i \in Sent(c) /\ Deliver(t, c, i)
    BY <2>2, DeliveredOnce, Zenon
  <2> QED
    BY <2>1, <2>2, WorkBegins, Zenon
<1>3. ASSUME NEW u \in Threads, WorksOn(u, c, i), handler' = [handler EXCEPT ![u] = Idle] PROVE FALSE
  <2>1. ~WorksOn(u, c, i)'
    BY <1>1, <1>3 DEF WorksOn, At, Idle
  <2>2. u # t
    BY <2>1
  <2>3. ~Deliver(t, c, i)
    BY <1>2, <1>3, DeliveredOnce, Zenon
  <2>4. WorksOn(t, c, i)
    BY <2>3, WorkBegins, Zenon
  <2> QED
    BY <1>2, <1>3, <2>2, <2>4, Zenon DEF OneThread
<1>4. ASSUME NEW u \in Threads, Write(u), handler[u].client = c, handler[u].i = i PROVE FALSE
  <2>1. WorksOn(u, c, i)
    BY <1>4 DEF WorksOn, Write, At
  <2>2. handler' = [handler EXCEPT ![u] = Idle]
    BY <1>4, WriteIs, Zenon DEF IInv
  <2> QED
    BY <1>3, <2>1, <2>2
<1>5. ~HasEntry(c, i)'
  <2>1. CASE UNCHANGED <<value, log>>
    <3>1. ASSUME NEW o \in Configured, NEW k \in 1..Len(log'[o]), log'[o][k].by = c /\ log'[o][k].i = i
          PROVE  FALSE
      BY <1>2, <2>1, <3>1 DEF HasEntry
    <3> QED
      BY <3>1, Zenon DEF HasEntry
  <2>2. CASE ~UNCHANGED <<value, log>>
    <3>1. PICK p \in Configured, e \in Entries :
              /\ log' = [log EXCEPT ![p] = Append(@, e)]
              /\ \/ e.by = "application"
                 \/ \E u \in Threads : Write(u) /\ handler[u].client = e.by /\ handler[u].i = e.i
      BY <2>2, LogStep, Zenon DEF IInv
    <3>2. ~(e.by = c /\ e.i = i)
      <4>1. "application" \notin Clients
        BY BacnetAssumption
      <4> QED
        BY <1>4, <3>1, <4>1, Zenon
    <3>3. log \in [Configured -> Seq(Entries)]
      BY DEF IInv, Histories
    <3>4. ASSUME NEW o \in Configured, NEW k \in 1..Len(log'[o]), log'[o][k].by = c /\ log'[o][k].i = i
          PROVE  FALSE
      <4>1. CASE o # p
        <5>1. log'[o] = log[o]
          BY <3>1, <3>3, <4>1
        <5> QED
          BY <1>2, <3>4, <5>1 DEF HasEntry
      <4>2. CASE o = p
        <5>1. log'[o] = Append(log[o], e) /\ log[o] \in Seq(Entries)
          BY <3>1, <3>3, <4>2
        <5>2. /\ Len(log'[o]) = Len(log[o]) + 1 /\ log'[o][Len(log[o]) + 1] = e /\ Len(log[o]) \in Nat
              /\ \A m \in 1..Len(log[o]) : log'[o][m] = log[o][m]
          BY <5>1, Appended, Members
        <5>3. k \in 1..Len(log[o]) \/ log'[o][k] = e
          BY <5>2
        <5>4. ASSUME k \in 1..Len(log[o]) PROVE FALSE
          <6>1. log[o][k].by = c /\ log[o][k].i = i
            BY <3>4, <5>2, <5>4
          <6> QED
            BY <1>2, <5>4, <6>1, Zenon DEF HasEntry
        <5> QED
          BY <3>2, <3>4, <5>3, <5>4, Zenon
      <4> QED
        BY <4>1, <4>2
    <3> QED
      BY <3>4, Zenon DEF HasEntry
  <2> QED
    BY <2>1, <2>2
<1>6. ~Replied(c, i)'
  <2>1. SUFFICES ASSUME NEW r \in replies', r.client = c, r.i = i PROVE FALSE
    BY Zenon DEF Replied
  <2>2. r \notin replies
    BY <1>2, <2>1, Zenon DEF Replied
  <2>3. PICK d \in Clients, j \in Nat, b \in Bodies :
              /\ replies' = replies \cup {[client |-> d, i |-> j, body |-> b]}
              /\ \/ requests[d][j].kind = "discover" /\ \E u \in Threads : Deliver(u, d, j)
                 \/ \E u \in Threads :
                          ReadValue(u) /\ End(u) /\ handler[u].client = d /\ handler[u].i = j
                 \/ \E u \in Threads : Write(u) /\ handler[u].client = d /\ handler[u].i = j
    BY <2>2, ReplyStep, ZenonT(20) DEF IInv
  <2>4. d = c /\ j = i
    BY <2>1, <2>2, <2>3
  <2>5. CASE requests[c][i].kind = "discover" /\ \E u \in Threads : Deliver(u, c, i)
    <3>1. \A u \in Threads : ~WorksOn(u, c, i)
      BY <1>2, <2>5, DeliveredOnce, Zenon
    <3> QED
      BY <2>5, <3>1, WorkBegins, Zenon
  <2>6. CASE \E u \in Threads : ReadValue(u) /\ End(u) /\ handler[u].client = c /\ handler[u].i = i
    <3>1. PICK u \in Threads : ReadValue(u) /\ End(u) /\ handler[u].client = c /\ handler[u].i = i
      BY <2>6
    <3>2. WorksOn(u, c, i) /\ handler' = [handler EXCEPT ![u] = Idle]
      BY <3>1 DEF WorksOn, ReadValue, At, End
    <3> QED
      BY <1>3, <3>2
  <2> QED
    BY <1>4, <2>3, <2>4, <2>5, <2>6, Zenon
<1> QED
  BY <1>5, <1>6

\* A client waits for the reply, or gives up and is not calm.
LEMMA AnsweredKept ==
    IInv /\ [Next]_vars => \A c \in Clients : Calm(c)' /\ Answered(c) => Answered(c)'
<1> SUFFICES ASSUME IInv, [Next]_vars, NEW c \in Clients, Calm(c)', Answered(c), NEW i \in Sent(c)',
                    requests'[c][i].kind = "write", i < Len(requests'[c]) \/ ~awaiting'[c]
             PROVE  Replied(c, i)'
  BY Zenon DEF Answered
<1>1. /\ awaiting \in [Clients -> BOOLEAN] /\ requests \in [Clients -> Seq(Requests)]
      /\ requests[c] \in Seq(Requests) /\ Len(requests[c]) \in Nat
  BY Members DEF IInv, TypeOK
<1>2. ASSUME i \in Sent(c), i < Len(requests[c]) \/ ~awaiting[c] PROVE Replied(c, i)'
  <2>1. requests[c][i].kind = "write"
    BY <1>2, RequestsKept DEF IInv
  <2>2. Replied(c, i)
    BY <1>2, <2>1, Zenon DEF Answered
  <2> QED
    BY <2>2, HistoryKept DEF Replied
<1>3. \/ \E d \in Clients : Send(d) \/ Receive(d) \/ GiveUp(d)
      \/ UNCHANGED <<requests, awaiting>>
  BY ZenonT(20) DEF Next, Repeat, Deliver, HandlerStep, Lookup, ReadValue, Write,
        Crash, SetPresentValue, vars, network
<1>4. CASE UNCHANGED <<requests, awaiting>>
  BY <1>2, <1>4 DEF Sent
<1>5. CASE requests'[c] = requests[c] /\ awaiting'[c] = awaiting[c]
  BY <1>2, <1>5 DEF Sent
<1>6. ASSUME NEW d \in Clients, Send(d) PROVE Replied(c, i)'
  <2>1. PICK q \in Requests :
          /\ requests' = [requests EXCEPT ![d] = Append(@, q)] /\ ~awaiting[d]
          /\ awaiting' = [awaiting EXCEPT ![d] = TRUE]
    BY <1>6 DEF Send
  <2>2. CASE d # c
    BY <1>1, <1>5, <2>1, <2>2
  <2>3. CASE d = c
    <3>1. requests'[c] = Append(requests[c], q) /\ awaiting'[c]
      BY <1>1, <2>1, <2>3
    <3>2. Len(requests'[c]) = Len(requests[c]) + 1
      BY <1>1, <3>1, Appended
    <3>3. i < Len(requests[c]) + 1
      BY <3>1, <3>2
    <3>4. i \in Sent(c)
      BY <1>1, <3>2, <3>3 DEF Sent
    <3> QED
      BY <1>2, <2>1, <2>3, <3>4
  <2> QED
    BY <2>2, <2>3
<1>7. ASSUME NEW d \in Clients, Receive(d) PROVE Replied(c, i)'
  <2>1. /\ awaiting' = [awaiting EXCEPT ![d] = FALSE] /\ UNCHANGED <<requests, replies>>
        /\ \E r \in replies : r.client = d /\ r.i = Len(requests[d])
    BY <1>7 DEF Receive
  <2>2. CASE d # c
    BY <1>1, <1>5, <2>1, <2>2
  <2>3. CASE d = c
    <3>1. i \in Sent(c) /\ (i < Len(requests[c]) \/ i = Len(requests[c]))
      BY <1>1, <2>1 DEF Sent
    <3>2. CASE i < Len(requests[c])
      BY <1>2, <3>1, <3>2
    <3>3. CASE i = Len(requests[c])
      BY <2>1, <2>3, <3>3 DEF Replied
    <3> QED
      BY <3>1, <3>2, <3>3
  <2> QED
    BY <2>2, <2>3
<1>8. ASSUME NEW d \in Clients, GiveUp(d) PROVE Replied(c, i)'
  <2>1. /\ awaiting' = [awaiting EXCEPT ![d] = FALSE] /\ UNCHANGED <<requests, replies>>
        /\ gaveUp' = IF Last(requests[d]).kind = "write" THEN gaveUp \cup {d} ELSE gaveUp
    BY <1>8 DEF GiveUp
  <2>2. CASE d # c
    BY <1>1, <1>5, <2>1, <2>2
  <2>3. CASE d = c
    <3>1. i \in Sent(c) /\ (i < Len(requests[c]) \/ i = Len(requests[c]))
      BY <1>1, <2>1 DEF Sent
    <3>2. CASE i < Len(requests[c])
      BY <1>2, <3>1, <3>2
    <3>3. CASE i = Len(requests[c])
      <4>1. Last(requests[c]).kind = "write"
        BY <2>1, <3>3 DEF Last
      <4>2. c \in gaveUp'
        BY <2>1, <2>3, <4>1
      <4> QED
        BY <4>2, Zenon DEF Calm
    <3> QED
      BY <3>1, <3>2, <3>3
  <2> QED
    BY <2>2, <2>3
<1> QED
  BY <1>3, <1>4, <1>6, <1>7, <1>8

\* A new entry is of a request that has no reply, hence of the client's last.
LEMMA InOrderKept ==
    IInv /\ [Next]_vars => \A c \in Clients :
        Settled(c) /\ Answered(c) /\ InOrder(c) => InOrder(c)'
<1> SUFFICES ASSUME IInv, [Next]_vars, NEW c \in Clients, Settled(c), Answered(c), InOrder(c),
                    NEW o \in Configured, NEW k \in 1..Len(log'[o]), NEW m \in 1..Len(log'[o]),
                    log'[o][k].by = c, log'[o][m].by = c, k < m
             PROVE  log'[o][k].i < log'[o][m].i
  BY Zenon DEF InOrder
<1>1. log \in [Configured -> Seq(Entries)]
  BY DEF IInv, Histories
<1>2. CASE log'[o] = log[o]
  BY <1>2, Zenon DEF InOrder
<1>3. CASE log'[o] # log[o]
  <2>1. PICK p \in Configured, e \in Entries :
          /\ log' = [log EXCEPT ![p] = Append(@, e)]
          /\ \/ e.by = "application"
             \/ /\ e.by \in Clients /\ e.i \in Sent(e.by)
                /\ requests[e.by][e.i].kind = "write"
                /\ \E t \in Threads : Write(t) /\ handler[t].client = e.by /\ handler[t].i = e.i
    <3>1. ~UNCHANGED <<value, log>>
      BY <1>3
    <3> QED
      BY <3>1, LogStep, Zenon DEF IInv
  <2>2. p = o /\ log'[o] = Append(log[o], e) /\ log[o] \in Seq(Entries)
    BY <1>1, <1>3, <2>1
  <2>3. /\ Len(log'[o]) = Len(log[o]) + 1 /\ log'[o][Len(log[o]) + 1] = e /\ Len(log[o]) \in Nat
        /\ \A n \in 1..Len(log[o]) : log'[o][n] = log[o][n]
    BY <2>2, Appended, Members
  <2>4. k \in 1..Len(log[o]) /\ log'[o][k] = log[o][k] /\ log[o][k].by = c
    <3>1. \A n \in Nat : \A a, b \in 1..n + 1 : a < b => a \in 1..n
      OBVIOUS
    <3>2. k \in 1..Len(log[o])
      BY <2>3, <3>1, Zenon
    <3> QED
      BY <2>3, <3>2, Zenon
  <2>5. CASE m \in 1..Len(log[o])
    <3>1. log'[o][m] = log[o][m]
      BY <2>3, <2>5
    <3> QED
      BY <2>4, <2>5, <3>1, Zenon DEF InOrder
  <2>6. CASE m \notin 1..Len(log[o])
    <3>1. log'[o][m] = e /\ e.by = c
      BY <2>3, <2>6
    <3>2. PICK i, j : i = e.i /\ j = log[o][k].i
      OBVIOUS
    <3>3. "application" \notin Clients
      BY BacnetAssumption
    <3>4. PICK t \in Threads : Write(t) /\ handler[t].client = c /\ handler[t].i = i
      BY <2>1, <3>1, <3>2, <3>3, Zenon
    <3>5. WorksOn(t, c, i) /\ i \in Sent(c)
      BY <2>1, <3>1, <3>2, <3>3, <3>4 DEF WorksOn, Write, At
    <3>6. Founded(o, k)
      BY <2>4, Zenon DEF IInv, Logs
    <3>7. j \in Sent(c) /\ requests[c][j].kind = "write" /\ HasEntry(c, j)
      BY <2>4, <3>2, <3>6 DEF Founded, HasEntry
    <3>8. i # j
      BY <3>5, <3>7, Zenon DEF Settled
    <3>9. ~(i < j)
      <4>1. SUFFICES ASSUME i < j PROVE FALSE
        OBVIOUS
      <4>2. requests[c] \in Seq(Requests)
        BY DEF IInv, TypeOK
      <4>3. i < Len(requests[c])
        BY <3>5, <3>7, <4>1, <4>2, Members DEF Sent
      <4>4. requests[c][i].kind = "write"
        BY <3>4, WriteIs, Zenon DEF IInv
      <4>5. Replied(c, i)
        BY <3>5, <4>3, <4>4, Zenon DEF Answered
      <4> QED
        BY <3>5, <4>5, Zenon DEF Settled
    <3>10. i \in Int /\ j \in Int
      <4>1. requests[c] \in Seq(Requests)
        BY DEF IInv, TypeOK
      <4> QED
        BY <3>5, <3>7, <4>1, Members DEF Sent
    <3> QED
      BY <2>4, <3>1, <3>2, <3>8, <3>9, <3>10
  <2> QED
    BY <2>5, <2>6
<1> QED
  BY <1>2, <1>3

\* The order of a calm client's writes.
LEMMA OneByOneHolds == Spec => []OneByOne
<1>1. Init => OneByOne
  <2> SUFFICES ASSUME Init, NEW c \in Clients
               PROVE  HandledOnce(c) /\ OneThread(c) /\ Settled(c) /\ Answered(c) /\ InOrder(c)
    BY Zenon DEF OneByOne
  <2>1. Sent(c) = {}
    BY DEF Init, Sent
  <2>2. InOrder(c)
    <3> SUFFICES ASSUME NEW o \in Configured, NEW k \in 1..Len(log[o]), NEW m \in 1..Len(log[o]), k < m
                 PROVE  FALSE
      BY Zenon DEF InOrder
    <3>1. Len(log[o]) = 1
      BY DEF Init
    <3> QED
      BY <3>1
  <2> QED
    BY <2>1, <2>2 DEF HandledOnce, OneThread, Settled, Answered
<1>2. IInv /\ OneByOne /\ [Next]_vars => OneByOne'
  <2> SUFFICES ASSUME IInv, OneByOne, [Next]_vars, NEW c \in Clients, Calm(c)'
               PROVE  HandledOnce(c)' /\ OneThread(c)' /\ Settled(c)' /\ Answered(c)' /\ InOrder(c)'
    BY Zenon DEF OneByOne
  <2>1. HandledOnce(c) /\ OneThread(c) /\ Settled(c) /\ Answered(c) /\ InOrder(c)
    BY CalmBefore, Zenon DEF OneByOne
  <2> QED
    BY <2>1, HandledOnceKept, OneThreadKept, SettledKept, AnsweredKept, InOrderKept, Zenon
<1> QED
  BY <1>1, <1>2, Invariance, PTL DEF Spec

\* Threads and reordering lose no update of a client.
THEOREM LastWriteStands == Spec => []LastAckedWriteStands
<1>1. IInv /\ OneByOne /\ RepliesAreTrue => LastAckedWriteStands
  <2> SUFFICES ASSUME IInv, OneByOne, RepliesAreTrue, NEW c \in Clients, c \notin gaveUp,
                      requests[c] # <<>>, ~awaiting[c], \A i \in DOMAIN requests[c] : <<c, i>> \notin again,
                      Last(requests[c]).kind = "write",
                      \A k \in DOMAIN log[Last(requests[c]).object] :
                          log[Last(requests[c]).object][k].by \in {c, "config"}
               PROVE  value[Last(requests[c]).object] = Last(requests[c]).value
    BY Zenon DEF LastAckedWriteStands
  <2>1. PICK q, i : q = requests[c][i] /\ q = Last(requests[c]) /\ i = Len(requests[c])
    BY DEF Last
  <2>2. requests[c] \in Seq(Requests)
    BY DEF IInv, TypeOK
  <2>3. DOMAIN requests[c] = Sent(c) /\ i \in Sent(c) /\ i \in Nat
    BY <2>1, <2>2, Members, EmptySeq DEF Sent
  <2>4. Calm(c)
    BY <2>3 DEF Calm
  <2>5. Answered(c) /\ InOrder(c)
    BY <2>4, Zenon DEF OneByOne
  <2>6. Replied(c, i)
    BY <2>1, <2>3, <2>5, Zenon DEF Answered
  <2>7. Applied(c, i)
    BY <2>1, <2>6, Zenon DEF Replied, RepliesAreTrue
  <2>8. PICK o \in Configured : /\ o = q.object
                                /\ \E k \in DOMAIN log[o] : log[o][k].by = c /\ log[o][k].i = i
    BY <2>1, <2>7 DEF Applied
  <2>9. PICK k \in DOMAIN log[o] : log[o][k].by = c /\ log[o][k].i = i
    BY <2>8
  <2>10. /\ log[o] \in Seq(Entries) /\ log[o] # <<>> /\ log[o][Len(log[o])].value = value[o]
         /\ \A m \in 1..Len(log[o]) : Founded(o, m)
    BY Zenon DEF IInv, Histories, Logs
  <2>11. DOMAIN log[o] = 1..Len(log[o]) /\ Len(log[o]) \in Nat /\ Len(log[o]) \in 1..Len(log[o])
    BY <2>10, Members, EmptySeq
  <2>12. Founded(o, k) /\ k \in 1..Len(log[o])
    BY <2>9, <2>10, <2>11, Zenon
  <2>13. log[o][k].value = q.value
    BY <2>1, <2>9, <2>12 DEF Founded
  <2>14. k = Len(log[o])
    <3>1. SUFFICES ASSUME k # Len(log[o]) PROVE FALSE
      OBVIOUS
    <3>2. PICK m : m = Len(log[o])
      OBVIOUS
    <3>3. m \in 1..Len(log[o]) /\ k < m /\ m > 1
      BY <2>11, <2>12, <3>1, <3>2
    <3>4. Founded(o, m) /\ log[o][m].by \in {c, "config"}
      BY <2>1, <2>8, <2>10, <2>11, <3>3
    <3>5. log[o][m].by = c
      BY <3>3, <3>4 DEF Founded
    <3>6. log[o][k].i < log[o][m].i
      BY <2>5, <2>9, <2>12, <3>3, <3>5, Zenon DEF InOrder
    <3>7. log[o][m].i \in Sent(c)
      BY <3>4, <3>5 DEF Founded
    <3> QED
      BY <2>1, <2>2, <2>9, <3>6, <3>7, Members DEF Sent
  <2> QED
    BY <2>1, <2>8, <2>10, <2>13, <2>14
<1> QED
  BY <1>1, Invariance, OneByOneHolds, RepliesTrue, PTL
=============================================================================
