---------------------------- MODULE EnipSessions ----------------------------
(***************************************************************************)
(* The EtherNet/IP server while it serves: one handler thread per          *)
(* connection, which cuts the byte stream into encapsulation frames and    *)
(* answers them in order, and what the handlers share: the table of active *)
(* sessions and the Assembly objects, each under a lock of its own.  The   *)
(* application may replace Assembly data meanwhile.                        *)
(*                                                                         *)
(* A frame arrives in pieces, HeaderPieces of them its header, and recv()  *)
(* returns any number of the pieces that have arrived.                     *)
(***************************************************************************)
EXTENDS CipRequests

CONSTANTS
    Conns,           \* client connections
    Assemblies,      \* instance numbers of Assembly objects
    Configurations,  \* the Assembly data the server may be configured with
    IpIsNumeric,     \* the address it is configured with is no host name
    Frames,          \* frames clients may send
    ApiData,         \* data the application may set
    MaxHandle,       \* largest session handle a header can carry (2^32 - 1)
    MaxPayload,      \* largest payload a header can announce (2^16 - 1)
    MaxFrames        \* bound on the frames sent

\* A frame by what handle_frame does with it: "identity" is ListIdentity, and
\* "stateless" stands for the other listings, for commands unknown, with options or
\* with a malformed RegisterSession, all answered without touching shared state.
\* Of the payload of SendRRData there are the interface handle, the number of items
\* announced and the items that are there whole; of any payload the number of
\* pieces it arrives in.
Commands == {"register", "unregister", "identity", "stateless", "rrdata"}
Item == [unconnected : BOOLEAN, bytes : Seq(Nat)]
Frame == [cmd : Commands, handle : Nat, interface : Nat, count : Nat, items : Seq(Item),
          payload : Nat]

\* The payload is accepted; the last unconnected data item holds the CIP request.
Unconnected(f) == {k \in 1..f.count : f.items[k].unconnected}
Acceptable(f) == f.interface = 0 /\ f.count <= Len(f.items) /\ Unconnected(f) # {}
CipRequest(f) == f.items[Max(Unconnected(f))].bytes

\* Bytes of a payload: the header, four for each item and what is in it.  The
\* response has an empty item, and 4 bytes before the data of the CIP response.
PayloadSize(f) ==
    LET upTo[k \in 0..Len(f.items)] ==
          IF k = 0 THEN 8 ELSE upTo[k - 1] + 4 + Len(f.items[k].bytes)
    IN  upTo[Len(f.items)]
\* Mutant: the response repeats the path.
ResponseSizeWithPath(bytes) == 8 + 4 + 4 + 4 + 6 + Len(bytes)
ResponseSize(bytes) == 8 + 4 + 4 + 4 + Len(bytes)

\* A response can carry the bytes: a refusal's, and Identity's attributes (at most
\* 290) when they can be packed.
Carries(bytes) == bytes \in Seq(Nat) /\ ResponseSize(bytes) <= MaxPayload
IdentityFits ==
    /\ Carries(<<>>)
    /\ IdentityPacks =>
          /\ \A k \in DOMAIN IdentityAttributes : Carries(IdentityAttributes[k])
          /\ Carries(FlattenSeq(SubSeq(IdentityAttributes, 1, 7)))

ASSUME EnipAssumption ==
    /\ MaxHandle \in Nat /\ MaxPayload \in Nat /\ MaxFrames \in Nat
    /\ ApiData \subseteq Seq(Nat)
    /\ Assemblies \subseteq Nat /\ IpIsNumeric \in BOOLEAN
    /\ \A config \in Configurations :
          DOMAIN config \subseteq Assemblies /\ \A a \in DOMAIN config : config[a] \in Seq(Nat)
    /\ Frames \subseteq Frame
    /\ \A f \in Frames : f.handle <= MaxHandle /\ PayloadSize(f) <= MaxPayload
    /\ IdentityFits

\* Pieces a frame arrives in: a header, which may be received in part, and a payload.
HeaderPieces == 2
Whole(f) == HeaderPieces + f.payload
Pieces(f) == [k \in 1..Whole(f) |-> <<f, k>>]

VARIABLES
    \* shared by the handlers
    nextHandle,  \* _next_session_handle
    active,      \* _active_sessions
    data,        \* _assemblies, from the instances there are to their bytes
    \* of each connection
    wire,        \* pieces the client has sent and the handler not received
    closed,      \* the client has closed its side
    pc,          \* where the handler is
    buffer,      \* pieces received and not yet parsed
    frame,       \* frames handled or being handled, in order
    sessions,    \* session_handles of the handler
    \* history, read by no step
    sent,        \* frames sent
    ended,       \* handles that have left the table
    oversized    \* the application has configured or set data no response can carry

shared == <<nextHandle, active, data>>
history == <<sent, ended, oversized>>
vars == <<shared, wire, closed, pc, buffer, frame, sessions, history>>

Pcs == {"recv", "parse", "session", "cip", "send", "release", "crashed", "gone"}
\* The handler thread still owns its sessions: finally has not run.
Open(c) == pc[c] # "gone"
Current(c) == Last(frame[c])

Init ==
    /\ nextHandle = 1
    /\ active = {}
    /\ data \in Configurations
    /\ oversized = \E a \in DOMAIN data : ResponseSize(data[a]) > MaxPayload
    /\ wire = [c \in Conns |-> <<>>]
    /\ closed = [c \in Conns |-> FALSE]
    /\ pc = [c \in Conns |-> "recv"]
    /\ buffer = [c \in Conns |-> <<>>]
    /\ frame = [c \in Conns |-> <<>>]
    /\ sessions = [c \in Conns |-> {}]
    /\ sent = [c \in Conns |-> <<>>]
    /\ ended = {}

Goto(c, label) == pc' = [pc EXCEPT ![c] = label]

-----------------------------------------------------------------------------
(* The client and the application *)

FramesSent == MapThenSumSet(LAMBDA c : Len(sent[c]), Conns)

Send(c) ==
    /\ ~closed[c]
    /\ FramesSent < MaxFrames
    /\ \E f \in Frames :
          /\ sent' = [sent EXCEPT ![c] = Append(@, f)]
          /\ wire' = [wire EXCEPT ![c] = @ \o Pieces(f)]
    /\ UNCHANGED <<shared, closed, pc, buffer, frame, sessions, ended, oversized>>

Close(c) ==
    /\ ~closed[c]
    /\ closed' = [closed EXCEPT ![c] = TRUE]
    /\ UNCHANGED <<shared, wire, pc, buffer, frame, sessions, history>>

\* set_assembly_data, which also makes an Assembly that was not there.
SetAssemblyData(a) ==
    /\ \E d \in ApiData :
          /\ data' = Updated(data, a, d)
          /\ oversized' = (oversized \/ ResponseSize(d) > MaxPayload)
    /\ UNCHANGED <<nextHandle, active, wire, closed, pc, buffer, frame, sessions, sent, ended>>

-----------------------------------------------------------------------------
(* The handler of connection c: the stream *)

\* recv() returns some of what has arrived.
Recv(c) ==
    /\ pc[c] = "recv"
    /\ \E n \in 1..Len(wire[c]) :
          /\ buffer' = [buffer EXCEPT ![c] = @ \o SubSeq(wire[c], 1, n)]
          /\ wire' = [wire EXCEPT ![c] = SubSeq(@, n + 1, Len(@))]
    /\ Goto(c, "parse")
    /\ UNCHANGED <<shared, closed, frame, sessions, history>>

\* An empty recv(), or an OSError: the connection is over.
RecvEnds(c) ==
    /\ pc[c] = "recv"
    /\ closed[c]
    /\ Goto(c, "release")
    /\ UNCHANGED <<shared, wire, closed, buffer, frame, sessions, history>>

\* The header at the front of the buffer says how much belongs to the frame, once it
\* is there whole.
Complete(b) == Len(b) >= HeaderPieces /\ Len(b) >= Whole(Head(b)[1])
\* Mutant: what follows the frame in the buffer is thrown away.
RestDropped(b) == <<>>
Rest(b) == SubSeq(b, Whole(Head(b)[1]) + 1, Len(b))

NeedMore(c) ==
    /\ pc[c] = "parse"
    /\ ~Complete(buffer[c])
    /\ Goto(c, "recv")
    /\ UNCHANGED <<shared, wire, closed, buffer, frame, sessions, history>>

\* The next frame is cut off and handed to handle_frame, whose first step is
\* chosen by the command.
Dispatch(c) ==
    /\ pc[c] = "parse"
    /\ Complete(buffer[c])
    /\ LET f == Head(buffer[c])[1] IN
       /\ frame' = [frame EXCEPT ![c] = Append(@, f)]
       /\ buffer' = [buffer EXCEPT ![c] = Rest(@)]
       /\ Goto(c, IF f.cmd = "stateless" THEN "send" ELSE "session")
    /\ UNCHANGED <<shared, wire, closed, sessions, history>>

-----------------------------------------------------------------------------
(* The handler of connection c: handle_frame, one step per lock it takes *)

\* Mutant: the handle is wrapped to the width of the header field.
RegisterWraps(c) ==
    /\ pc[c] = "session"
    /\ Current(c).cmd = "register"
    /\ nextHandle' = (nextHandle + 1) % (MaxHandle + 1)
    /\ active' = active \cup {nextHandle}
    /\ sessions' = [sessions EXCEPT ![c] = @ \cup {nextHandle}]
    /\ Goto(c, "send")
    /\ UNCHANGED <<data, wire, closed, buffer, frame, history>>

\* Mutant: the connection learns of its handle only after the response is made.
RegisterRemembersLate(c) ==
    /\ pc[c] = "session"
    /\ Current(c).cmd = "register"
    /\ nextHandle' = nextHandle + 1
    /\ active' = active \cup {nextHandle}
    /\ sessions' = IF nextHandle <= MaxHandle
                   THEN [sessions EXCEPT ![c] = @ \cup {nextHandle}] ELSE sessions
    /\ Goto(c, IF nextHandle <= MaxHandle THEN "send" ELSE "crashed")
    /\ UNCHANGED <<data, wire, closed, buffer, frame, history>>

\* _build_list_identity_payload, in its order: the name is encoded, the address
\* converted, which is an OSError for a host name and ends the connection like one,
\* and then the attributes are packed.
ListIdentity(c) ==
    /\ pc[c] = "session"
    /\ Current(c).cmd = "identity"
    /\ Goto(c, CASE NameIsAscii /\ ~IpIsNumeric -> "release"
                 [] IdentityPacks /\ IpIsNumeric -> "send"
                 [] OTHER -> "crashed")
    /\ UNCHANGED <<shared, wire, closed, buffer, frame, sessions, history>>

\* Under _session_lock.  A handle too large for the header is granted all the
\* same, and then struct.error ends the handler through its finally clause.
RegisterSession(c) ==
    /\ pc[c] = "session"
    /\ Current(c).cmd = "register"
    /\ nextHandle' = nextHandle + 1
    /\ active' = active \cup {nextHandle}
    /\ sessions' = [sessions EXCEPT ![c] = @ \cup {nextHandle}]
    /\ Goto(c, IF nextHandle <= MaxHandle THEN "send" ELSE "crashed")
    /\ UNCHANGED <<data, wire, closed, buffer, frame, history>>

\* No response; the handle may be another connection's.
UnregisterSession(c) ==
    /\ pc[c] = "session"
    /\ Current(c).cmd = "unregister"
    /\ active' = active \ {Current(c).handle}
    /\ ended' = ended \cup (active \cap {Current(c).handle})
    /\ sessions' = [sessions EXCEPT ![c] = @ \ {Current(c).handle}]
    /\ Goto(c, "parse")
    /\ UNCHANGED <<nextHandle, data, wire, closed, buffer, frame, sent, oversized>>

\* Mutant: the session is not looked up.
CheckForgotten(c) ==
    /\ pc[c] = "session"
    /\ Current(c).cmd = "rrdata"
    /\ Goto(c, IF Acceptable(Current(c)) THEN "cip" ELSE "send")
    /\ UNCHANGED <<shared, wire, closed, buffer, frame, sessions, history>>

\* The session must be active now; it may be gone when the request is carried out.
CheckSession(c) ==
    /\ pc[c] = "session"
    /\ Current(c).cmd = "rrdata"
    /\ Goto(c, IF Current(c).handle \in active /\ Acceptable(Current(c)) THEN "cip" ELSE "send")
    /\ UNCHANGED <<shared, wire, closed, buffer, frame, sessions, history>>

\* The objects are read or written under _assembly_lock; then the response is
\* packed, whose length the header may be too narrow to state.
HandleCipRequest(c) ==
    /\ pc[c] = "cip"
    /\ LET req == CipRequest(Current(c))
           answer == Answer(req, data)
       IN  /\ data' = AssembliesAfter(req, data)
           /\ Goto(c, IF answer = Raises \/ ResponseSize(answer.data) > MaxPayload
                      THEN "crashed" ELSE "send")
    /\ UNCHANGED <<nextHandle, active, wire, closed, buffer, frame, sessions, history>>

\* sendall(), which raises OSError when the client is gone.
Respond(c) ==
    /\ pc[c] = "send"
    /\ \/ Goto(c, "parse")
       \/ closed[c] /\ Goto(c, "release")
    /\ UNCHANGED <<shared, wire, closed, buffer, frame, sessions, history>>

\* Mutant: an empty table starts again from handle 1.
ReleaseRestarts(c) ==
    /\ pc[c] \in {"release", "crashed"}
    /\ active' = active \ sessions[c]
    /\ ended' = ended \cup (active \cap sessions[c])
    /\ nextHandle' = IF active' = {} THEN 1 ELSE nextHandle
    /\ Goto(c, "gone")
    /\ UNCHANGED <<data, wire, closed, buffer, frame, sessions, sent, oversized>>

\* finally: release_sessions(session_handles), also on the way of an exception.
ReleaseSessions(c) ==
    /\ pc[c] \in {"release", "crashed"}
    /\ active' = active \ sessions[c]
    /\ ended' = ended \cup (active \cap sessions[c])
    /\ Goto(c, "gone")
    /\ UNCHANGED <<nextHandle, data, wire, closed, buffer, frame, sessions, sent, oversized>>

HandlerStep(c) ==
    \/ Recv(c) \/ RecvEnds(c) \/ NeedMore(c) \/ Dispatch(c)
    \/ ListIdentity(c) \/ RegisterSession(c) \/ UnregisterSession(c) \/ CheckSession(c)
    \/ HandleCipRequest(c) \/ Respond(c) \/ ReleaseSessions(c)

Next ==
    \/ \E c \in Conns : Send(c) \/ Close(c) \/ HandlerStep(c)
    \/ \E a \in Assemblies : SetAssemblyData(a)

Spec == Init /\ [][Next]_vars

-----------------------------------------------------------------------------
(* Properties *)

\* Every variable stays in its range.
TypeOK ==
    /\ nextHandle \in Nat \ {0}
    /\ active \in SUBSET Nat
    /\ DOMAIN data \in SUBSET Assemblies
    /\ closed \in [Conns -> BOOLEAN]
    /\ pc \in [Conns -> Pcs]
    /\ frame \in [Conns -> Seq(Frames)]
    /\ sessions \in [Conns -> SUBSET Nat]
    /\ sent \in [Conns -> Seq(Frames)]
    /\ ended \in SUBSET Nat
    /\ oversized \in BOOLEAN

\* No session outlives its connection: every active handle is one that a handler
\* which has not finished will release, also when it granted it and then failed.
NoSessionLeak == active \subseteq UNION {sessions[c] : c \in {d \in Conns : Open(d)}}

\* A handle is granted once: to one connection, below the next one, and for good.
\* A session that has ended never becomes active again, so a late frame for it is
\* not taken for another client's session.
HandlesGrantedOnce ==
    /\ \A c, d \in Conns : c # d => sessions[c] \cap sessions[d] = {}
    /\ \A c \in Conns : \A h \in sessions[c] : h < nextHandle
    /\ active \cap ended = {}

\* A request reaches the objects only in a session that was granted, and if that
\* is no longer active, then it ended while the request was on its way.
RequestsHaveSession ==
    \A c \in Conns : pc[c] = "cip" => Current(c).handle \in active \cup ended

\* What a handler makes of the path of its request is known from the path's
\* segments, in every format CIP has for them: packed they mean what was sent, in
\* CIP's padded format a value 256 times too large or no path at all.
PathMeaningKnown == \A c \in Conns : pc[c] = "cip" => FormatsHaveMeaning

\* The services that could carry a handler's request out agree about the objects.
ServicesAgree == \A c \in Conns : pc[c] = "cip" => ServicesConsistent

\* Chunking does not matter: the frames handled are a prefix of those sent, and
\* when the handler waits for more it has handled every frame it received whole.
FramesInOrder ==
    \A c \in Conns :
        /\ IsPrefix(frame[c], sent[c])
        /\ pc[c] = "recv" /\ wire[c] = <<>> => frame[c] = sent[c]

\* A handler thread dies of an exception only for three reasons: more than 2^32 - 1
\* sessions were granted, the application configured or set Assembly data no
\* response can carry, or it configured an Identity with a value too wide for its
\* field or a name that is not ASCII.  Data a client wrote can always be read again.
CrashOnlyAtLimits ==
    \A c \in Conns : pc[c] = "crashed" =>
        nextHandle > MaxHandle + 1 \/ oversized \/ ~IdentityPacks
=============================================================================
