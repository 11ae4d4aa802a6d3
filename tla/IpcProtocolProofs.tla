-------------------------- MODULE IpcProtocolProofs --------------------------
(***************************************************************************)
(* The control protocol: parse_slice and encode are inverse, for every     *)
(* packet, and what the executor and its children have in flight is always *)
(* what encode builds, for any number of them and any id width.            *)
(***************************************************************************)
EXTENDS MCPersistentExecutor, PersistentExecutorProofs

\* Any bytes, grouped into fields the way parse_slice reads them.
AnyPacket ==
    [len: Nat, magic: (0 .. 255) \X (0 .. 255), version: 0 .. 255, kind: 0 .. 255,
     opcode: 0 .. 255, flags: 0 .. 255, payload_len: Nat, request_id: Nat, reserved: Nat]

\* from_wire undoes wire, and no byte stands for two kinds.
LEMMA KindCode ==
    /\ \A k \in MessageKind : FromWire(Wire(k)) = {k}
    /\ \A b : FromWire(b) # {} => \E k \in MessageKind : FromWire(b) = {k} /\ b = Wire(k)
  BY DEF MessageKind, FromWire, Wire

\* What acceptance says of the single fields.
LEMMA AcceptedFields ==
  ASSUME NEW p, Accepted(p)
  PROVE  /\ p.len = PACKET_LEN /\ p.magic = <<MAGIC_0, MAGIC_1>>
         /\ p.version = PROTOCOL_VERSION /\ p.flags = FLAGS_NONE
         /\ p.payload_len = PAYLOAD_LEN_V1 /\ p.reserved = RESERVED_V1
         /\ FromWire(p.kind) # {}
         /\ \A k \in FromWire(p.kind) :
                OpcodeValid(k, p.opcode) /\ request_id_valid(k, p.opcode, p.request_id)
  BY DEF Accepted, Passed, ParseError

\* An accepted packet is the encoding of the message it is parsed to: no byte
\* of it is free, and no two packets are parsed to one message (parse_slice).
THEOREM CanonicalParse ==
  ASSUME NEW p \in AnyPacket, Accepted(p)
  PROVE  LET m == Decode(p)
         IN  /\ Encodable(m.kind, m.opcode, m.request_id)
             /\ p = Encode(m.kind, m.opcode, m.request_id)
  <1>1. PICK k \in MessageKind : FromWire(p.kind) = {k} /\ p.kind = Wire(k)
    BY KindCode, AcceptedFields
  <1>2. Decode(p) = [kind |-> k, opcode |-> p.opcode, request_id |-> p.request_id]
    BY <1>1 DEF Decode
  <1>3. Encodable(k, p.opcode, p.request_id)
    BY <1>1, AcceptedFields DEF Encodable
  <1>4. p = Encode(k, p.opcode, p.request_id)
    BY <1>1, AcceptedFields DEF AnyPacket, Encode
  <1> QED BY <1>2, <1>3, <1>4

\* Whatever one side encodes the other parses back unchanged (encode,
\* parse_slice; the round trip of the tests and of the Kani harness).
THEOREM RoundTrip ==
  ASSUME NEW kind \in MessageKind, NEW opcode, NEW id, Encodable(kind, opcode, id)
  PROVE  parse_slice(Encode(kind, opcode, id))
           = [ok |-> [kind |-> kind, opcode |-> opcode, request_id |-> id]]
  <1> DEFINE p == Encode(kind, opcode, id)
  <1>1. FromWire(p.kind) = {kind} BY KindCode DEF Encode
  <1>2. Accepted(p)
    <2>1. /\ p.len = PACKET_LEN /\ p.magic = <<MAGIC_0, MAGIC_1>>
          /\ p.version = PROTOCOL_VERSION /\ p.flags = FLAGS_NONE
          /\ p.payload_len = PAYLOAD_LEN_V1 /\ p.reserved = RESERVED_V1
          /\ p.opcode = opcode /\ p.request_id = id
      BY DEF Encode
    <2>2. /\ \A k \in FromWire(p.kind) : OpcodeValid(k, p.opcode)
          /\ \A k \in FromWire(p.kind) : request_id_valid(k, p.opcode, p.request_id)
      BY <1>1, <2>1 DEF Encodable
    <2>3. FromWire(p.kind) # {} BY <1>1
    <2> HIDE DEF p
    <2>4. Passed(p).InvalidKind BY <2>3 DEF Passed
    <2>5. Passed(p).InvalidOpcode BY <2>2 DEF Passed
    <2>6. Passed(p).InvalidRequestId BY <2>2 DEF Passed
    <2>7. /\ Passed(p).InvalidPacketLength /\ Passed(p).BadMagic
          /\ Passed(p).UnsupportedVersion /\ Passed(p).NonZeroFlags
          /\ Passed(p).InvalidPayloadLength /\ Passed(p).NonZeroReserved
      BY <2>1 DEF Passed
    <2> QED BY <2>4, <2>5, <2>6, <2>7 DEF Accepted, ParseError
  <1>3. Decode(p) = [kind |-> kind, opcode |-> opcode, request_id |-> id]
    BY <1>1 DEF Decode, Encode
  <1> QED BY <1>2, <1>3 DEF parse_slice

(***************************************************************************)
(* The packets in flight.                                                  *)
(***************************************************************************)

\* What the service sends, and what a child does.
Sendable == {m \in Requests : m.request_id # 0}
Answerable ==
    {m \in Responses : m.opcode # RESP_ERROR /\ request_id_valid("Response", m.opcode, m.request_id)}

\* A request that was read has an opcode and an id.
ReadInv ==
    \A c \in Child : stage[c] = "answer" =>
        req[c] \in [opcode: {OP_PING, OP_STATUS, OP_SHUTDOWN}, request_id: Ids \ {0}]

WireInv ==
    /\ toChild \in [Child -> Seq(Sendable)]
    /\ toService \in [Child -> Seq(Answerable)]
    /\ ReadInv

\* Both are what encode builds.
LEMMA SendableEncodes ==
    \A m \in Sendable \cup Answerable :
        /\ m \in Requests \cup Responses /\ m.kind \in MessageKind
        /\ Encodable(m.kind, m.opcode, m.request_id)
        /\ m.opcode # RESP_ERROR
        /\ m = [kind |-> m.kind, opcode |-> m.opcode, request_id |-> m.request_id]
  <1>1. ASSUME NEW m \in Sendable
        PROVE  /\ m \in Requests /\ m.kind = "Request" /\ m.opcode # RESP_ERROR
               /\ Encodable("Request", m.opcode, m.request_id)
               /\ m = [kind |-> m.kind, opcode |-> m.opcode, request_id |-> m.request_id]
    <2>1. /\ m \in Requests /\ m.kind = "Request" /\ m.request_id # 0
          /\ m.opcode \in {OP_PING, OP_STATUS, OP_SHUTDOWN}
      BY DEF Sendable, Requests
    <2>2. m = [kind |-> m.kind, opcode |-> m.opcode, request_id |-> m.request_id]
      BY <2>1 DEF Requests
    <2>3. m.opcode # RESP_ERROR BY <2>1 DEF OP_PING, OP_STATUS, OP_SHUTDOWN, RESP_ERROR
    <2> QED BY <2>1, <2>2, <2>3 DEF Encodable, OpcodeValid, is_request_opcode, request_id_valid
  <1>2. ASSUME NEW m \in Answerable
        PROVE  /\ m \in Responses /\ m.kind = "Response" /\ m.opcode # RESP_ERROR
               /\ Encodable("Response", m.opcode, m.request_id)
               /\ m = [kind |-> m.kind, opcode |-> m.opcode, request_id |-> m.request_id]
    BY DEF Answerable, Responses, Encodable, OpcodeValid, is_response_opcode
  <1> QED BY <1>1, <1>2 DEF MessageKind

\* An answer as ResponseMsg builds it.
LEMMA AnswerMessage ==
  ASSUME NEW r \in {RESP_READY, RESP_PONG, RESP_LOCKED, RESP_BYE}, NEW id \in Ids,
         request_id_valid("Response", r, id)
  PROVE  ResponseMsg(r, id) \in Answerable
  <1> DEFINE m == ResponseMsg(r, id)
  <1>1. m \in Responses BY DEF ResponseMsg, Responses
  <1>2. m.opcode = r /\ m.request_id = id BY DEF ResponseMsg
  <1>3. r # RESP_ERROR BY DEF RESP_READY, RESP_PONG, RESP_LOCKED, RESP_BYE, RESP_ERROR
  <1> HIDE DEF m
  <1>4. m \in Answerable BY <1>1, <1>2, <1>3 DEF Answerable, request_id_valid
  <1> QED BY <1>4 DEF m

\* A queue that is cut, emptied or appended to.
LEMMA QueueKept ==
  ASSUME NEW S, NEW q \in [Child -> Seq(S)], NEW c \in Child
  PROVE  /\ [q EXCEPT ![c] = <<>>] \in [Child -> Seq(S)]
         /\ q[c] # <<>> => [q EXCEPT ![c] = Tail(@)] \in [Child -> Seq(S)]
         /\ \A m \in S : [q EXCEPT ![c] = Append(@, m)] \in [Child -> Seq(S)]
  <1>1. <<>> \in Seq(S) /\ q[c] \in Seq(S) OBVIOUS
  <1>2. q[c] # <<>> => Tail(q[c]) \in Seq(S) BY <1>1
  <1>3. \A m \in S : Append(q[c], m) \in Seq(S) BY <1>1
  <1> QED BY <1>1, <1>2, <1>3

\* The steps of a thread: it sends what CanSend lets through.
LEMMA WireThread ==
  ASSUME IndInv, WireInv, NEW t \in Thread, ThreadStep(t) PROVE WireInv'
  <1> USE DEF WireInv
  <1>1. TypeOK /\ pc \in [Thread -> Critical \cup {"idle", "lock", "gone"}]
    BY DEF IndInv, TypeOK, ThreadTypes
  <1>c. pc[t] \in Critical => conn[t] \in Child BY DEF IndInv, HandleInv
  <1>2. ASSUME UNCHANGED <<stage, req>> PROVE ReadInv' BY <1>2 DEF ReadInv
  <1>3. ASSUME NEW o \in Op, Call(t, o) PROVE WireInv'
    BY <1>2, <1>3 DEF Call, childVars, wireVars
  <1>4. CASE Refuse(t) \/ OpenPairFails(t) \/ Begin(t) \/ (\E c \in Child : OpenPair(t, c))
    BY <1>2, <1>4 DEF Refuse, OpenPairFails, Begin, OpenPair, childVars, wireVars
  <1>5. CASE Fork(t)
    <2>1. \A c \in Child : stage'[c] = "answer" => stage[c] = "answer"
      BY <1>1, <1>5 DEF Fork, TypeOK, ChildTypes
    <2> QED BY <1>5, <2>1 DEF Fork, wireVars, ReadInv
  <1>6. CASE ForkFails(t) \/ Install(t) \/ SendFails(t) \/ RecvEof(t) \/ Timeout(t) \/ Finish(t)
    BY <1>2, <1>6 DEF ForkFails, Install, SendFails, RecvEof, Timeout, Finish, childVars, wireVars
  <1>7. CASE parent_send(t)
    <2>1. op[t] \in Op \ {"start"} /\ rid[t] \in Ids
      BY <1>1, <1>7 DEF IndInv, CallInv, TypeOK, ThreadTypes, parent_send
    <2>2. RequestMsg(op[t], rid[t]) \in Sendable
      BY <1>7, <2>1, OpTable
         DEF parent_send, CanSend, Encodable, request_id_valid, RequestMsg, Sendable, Requests
    <2>3. toChild' \in [Child -> Seq(Sendable)] BY <1>7, <1>c, <2>2, QueueKept DEF parent_send, Critical
    <2> QED BY <1>2, <1>7, <2>3 DEF parent_send, childVars
  <1>8. CASE parent_recv(t)
    <2>1. toService' \in [Child -> Seq(Answerable)] BY <1>8, <1>c, QueueKept DEF parent_recv, Critical
    <2> QED BY <1>2, <1>8, <2>1 DEF parent_recv, childVars
  <1>9. CASE Detach(t) \/ parent_force_terminate(t)
    <2>1. toService' = [toService EXCEPT ![conn[t]] = <<>>]
      BY <1>9 DEF Detach, parent_force_terminate, CloseEnd
    <2>2. conn[t] \in Child BY <1>9, <1>c DEF Detach, parent_force_terminate, Critical
    <2>3. toService' \in [Child -> Seq(Answerable)] BY <2>1, <2>2, QueueKept
    <2> QED BY <1>2, <1>9, <2>3 DEF Detach, parent_force_terminate, childVars
  <1>10. CASE Wait(t) \/ Reap(t)
    <2>1. \A c \in Child : stage'[c] = "answer" => stage[c] = "answer"
      BY <1>1, <1>10 DEF Wait, Reap, Reaped, TypeOK, ChildTypes
    <2> QED BY <1>10, <2>1 DEF Wait, Reap, wireVars, ReadInv
  <1>11. CASE Kill(t) BY <1>2, <1>11 DEF Kill, wireVars
  <1>12. CASE PollFails(t) \/ WaitInterrupted(t) \/ ReapInterrupted(t)
    BY <1>2, <1>12 DEF PollFails, WaitInterrupted, ReapInterrupted, childVars, wireVars
  <1> QED
    BY <1>3, <1>4, <1>5, <1>6, <1>7, <1>8, <1>9, <1>10, <1>11, <1>12 DEF ThreadStep, CallStep

\* A child that ends has read all it will ever read.
LEMMA WireExit ==
  ASSUME IndInv, WireInv, NEW c \in Child, NEW how, Exit(c, how), UNCHANGED toService PROVE WireInv'
  <1>1. toChild' \in [Child -> Seq(Sendable)] BY QueueKept DEF WireInv, Exit
  <1>2. \A d \in Child : stage'[d] = "answer" => d # c /\ stage[d] = "answer" /\ req'[d] = req[d]
    BY DEF IndInv, TypeOK, ChildTypes, Exit
  <1> QED BY <1>1, <1>2 DEF WireInv, ReadInv

\* The steps of a child: it answers with the id of what it has read.
LEMMA WireChild ==
  ASSUME IndInv, WireInv, NEW c \in Child, ChildStep(c) PROVE WireInv'
  <1>1. ChildTypes BY DEF IndInv, TypeOK
  <1>2. \A d \in Child : d # c => stage'[d] = stage[d] /\ req'[d] = req[d]
    BY <1>1 DEF ChildTypes, ChildStep, ChildProgress, Normalize, Scrub, Harden, Greet, child_recv,
                Answer, Bye, ExitClean, LosesPeer, SetupFails, Die, KilledFromOutside, Exit
  <1>3. CASE Normalize(c) \/ Scrub(c) \/ Harden(c)
    <2>1. stage'[c] # "answer"
      BY <1>1, <1>3, SetupTable DEF ChildTypes, Normalize, Scrub, Harden
    <2> QED BY <1>2, <1>3, <2>1 DEF WireInv, ReadInv, Normalize, Scrub, Harden, wireVars
  <1>4. CASE Greet(c)
    <2>1. ResponseMsg(RESP_READY, 0) \in Answerable
      <3>1. 0 \in Ids BY ExecutorAssumption DEF Ids
      <3> QED BY <3>1, AnswerMessage DEF request_id_valid
    <2>2. toService' \in [Child -> Seq(Answerable)]
      BY <1>4, <2>1, QueueKept DEF WireInv, Greet, child_send
    <2>3. stage'[c] # "answer" BY <1>1, <1>4 DEF ChildTypes, Greet
    <2> QED BY <1>2, <1>4, <2>2, <2>3 DEF WireInv, ReadInv, Greet
  <1>5. CASE child_recv(c)
    <2>1. toChild' \in [Child -> Seq(Sendable)] BY <1>5, QueueKept DEF WireInv, child_recv
    <2>2. Head(toChild[c]) \in Sendable BY <1>5 DEF WireInv, child_recv
    <2>3. req'[c] = [opcode |-> Head(toChild[c]).opcode, request_id |-> Head(toChild[c]).request_id]
      BY <1>1, <1>5 DEF ChildTypes, child_recv
    <2>4. req'[c] \in [opcode: {OP_PING, OP_STATUS, OP_SHUTDOWN}, request_id: Ids \ {0}]
      BY <2>2, <2>3 DEF Sendable, Requests
    <2> QED BY <1>2, <1>5, <2>1, <2>4 DEF WireInv, ReadInv, child_recv
  <1>6. ASSUME NEW r \in {RESP_PONG, RESP_LOCKED, RESP_BYE}, stage[c] = "answer",
               child_send(c, r, req[c].request_id)
        PROVE  toService' \in [Child -> Seq(Answerable)]
    <2>1. req[c].request_id \in Ids \ {0} BY <1>6 DEF WireInv, ReadInv
    <2>2. ResponseMsg(r, req[c].request_id) \in Answerable
      BY <2>1, AnswerMessage DEF request_id_valid
    <2> QED BY <1>6, <2>2, QueueKept DEF WireInv, child_send
  <1>7. CASE Answer(c)
    <2>1. req[c].opcode \in {OP_PING, OP_STATUS} BY <1>7 DEF WireInv, ReadInv, Answer
    <2>2. toService' \in [Child -> Seq(Answerable)]
      BY <1>6, <1>7, <2>1 DEF Answer, Reply
    <2>3. stage'[c] # "answer" BY <1>1, <1>7 DEF ChildTypes, Answer
    <2> QED BY <1>2, <1>7, <2>2, <2>3 DEF WireInv, ReadInv, Answer
  <1>8. CASE Bye(c)
    <2>1. toService' \in [Child -> Seq(Answerable)] BY <1>6, <1>8 DEF Bye, WireInv
    <2>2. stage'[c] # "answer" BY <1>1, <1>8 DEF ChildTypes, Bye
    <2> QED BY <1>2, <1>8, <2>1, <2>2 DEF WireInv, ReadInv, Bye
  <1>9. CASE ExitClean(c) \/ LosesPeer(c) \/ SetupFails(c) \/ Die(c)
    BY <1>9, WireExit DEF ExitClean, LosesPeer, SetupFails, Die
  <1>10. CASE KilledFromOutside(c)
    BY <1>10 DEF KilledFromOutside, wireVars, WireInv, ReadInv
  <1> QED BY <1>3, <1>4, <1>5, <1>7, <1>8, <1>9, <1>10 DEF ChildStep, ChildProgress

\* Every step.
LEMMA WireStep == IndInv /\ WireInv /\ [Next]_vars => WireInv'
  <1> SUFFICES ASSUME IndInv, WireInv, [Next]_vars PROVE WireInv' OBVIOUS
  <1>1. CASE \E t \in Thread : ThreadStep(t) BY <1>1, WireThread
  <1>2. CASE \E c \in Child : ChildStep(c) BY <1>2, WireChild
  <1>3. ASSUME NEW p \in Probe, ForkProbe(p) \/ ProbeExits(p) PROVE WireInv'
    BY <1>3 DEF ForkProbe, ProbeExits, childVars, wireVars, WireInv, ReadInv
  <1>4. CASE ServiceDies
    <2>1. toService' \in [Child -> Seq(Answerable)] BY <1>4 DEF ServiceDies
    <2>2. \A c \in Child : stage'[c] = "answer" => stage[c] = "answer" /\ req'[c] = req[c]
      BY <1>4 DEF ServiceDies
    <2> QED BY <1>4, <2>1, <2>2 DEF WireInv, ReadInv, ServiceDies
  <1>5. CASE UNCHANGED vars BY <1>5 DEF vars, childVars, wireVars, WireInv, ReadInv
  <1> QED BY <1>1, <1>2, <1>3, <1>4, <1>5 DEF Next, Over

\* All that is ever in flight can be encoded.
THEOREM WiresCarryMessages == Spec => []WireInv
  <1>1. Init => WireInv
    BY DEF Init, WireInv, ReadInv
  <1> QED BY <1>1, WireStep, Invariance, PTL DEF Spec

LEMMA InFlightSent == WireInv => InFlight \subseteq Sendable \cup Answerable
  <1> SUFFICES ASSUME WireInv, NEW c \in Child
               PROVE  /\ \A i \in DOMAIN toChild[c] : toChild[c][i] \in Sendable
                      /\ \A i \in DOMAIN toService[c] : toService[c][i] \in Answerable
    BY DEF InFlight
  <1>1. toChild[c] \in Seq(Sendable) /\ toService[c] \in Seq(Answerable) BY DEF WireInv
  <1> QED BY <1>1

\* Every packet that differs from a message in flight in fields the parser looks
\* at is refused, or is the encoding of what it is parsed to: no byte of an
\* accepted packet is free (parse_slice).
THEOREM AcceptedCanonical == Spec => []AcceptedIsCanonical
  <1>1. ASSUME NEW m \in Requests \cup Responses, NEW p \in Around(PacketOf(m))
        PROVE  p \in AnyPacket
    <2>1. m.request_id \in Nat /\ m.opcode \in 0 .. 255 /\ m.kind \in MessageKind
      BY ExecutorAssumption
         DEF Requests, Responses, Ids, MessageKind, OP_PING, OP_STATUS, OP_SHUTDOWN,
             RESP_READY, RESP_PONG, RESP_LOCKED, RESP_BYE, RESP_ERROR
    <2>2. PacketOf(m) \in AnyPacket
      BY <2>1 DEF PacketOf, Encode, AnyPacket, PACKET_LEN, MAGIC_0, MAGIC_1, PROTOCOL_VERSION,
                  Wire, FLAGS_NONE, PAYLOAD_LEN_V1, RESERVED_V1
    <2> DEFINE Type == [len |-> Nat, magic |-> (0 .. 255) \X (0 .. 255), version |-> 0 .. 255,
                        kind |-> 0 .. 255, opcode |-> 0 .. 255, flags |-> 0 .. 255,
                        payload_len |-> Nat, request_id |-> Nat, reserved |-> Nat]
    <2>3. \A q \in AnyPacket : \A f \in DOMAIN Type : \A v \in Type[f] : [q EXCEPT ![f] = v] \in AnyPacket
      BY DEF AnyPacket
    <2>4. DOMAIN PacketOf(m) = DOMAIN Type BY DEF PacketOf, Encode
    <2>5. \A f \in DOMAIN Type : Near[f] \subseteq Type[f]
      BY DEF Near, MAGIC_0, MAGIC_1
    <2> HIDE DEF Type
    <2>6. PICK f \in DOMAIN Type, g \in DOMAIN Type :
            \E v \in Near[f], w \in Near[g] : p = [PacketOf(m) EXCEPT ![f] = v, ![g] = w]
      BY <2>4 DEF Around
    <2>7. PICK v \in Near[f], w \in Near[g] : p = [PacketOf(m) EXCEPT ![f] = v, ![g] = w] BY <2>6
    <2> DEFINE q == [PacketOf(m) EXCEPT ![f] = v]
    <2>8. p = [q EXCEPT ![g] = w] BY <2>7
    <2>9. q \in AnyPacket BY <2>2, <2>3, <2>5
    <2> HIDE DEF q
    <2> QED BY <2>3, <2>5, <2>8, <2>9
  <1>2. ASSUME NEW p \in AnyPacket PROVE Canonical(p)
    <2> SUFFICES ASSUME "ok" \in DOMAIN parse_slice(p)
                 PROVE  LET m == parse_slice(p).ok
                        IN  Encodable(m.kind, m.opcode, m.request_id) /\ p = PacketOf(m)
      BY DEF Canonical
    <2>1. Accepted(p) BY Zenon DEF parse_slice
    <2>2. parse_slice(p).ok = Decode(p) BY <2>1, Zenon DEF parse_slice
    <2> QED BY <2>1, <2>2, CanonicalParse DEF PacketOf
  <1>3. \A m \in Requests \cup Responses : <<m, TRUE>> \in CanonicalAround
    <2> TAKE m \in Requests \cup Responses
    <2>1. (\A p \in Around(PacketOf(m)) : Canonical(p)) = TRUE BY <1>1, <1>2
    <2> QED BY <2>1 DEF CanonicalAround
  <1>4. WireInv => AcceptedIsCanonical
    BY <1>3, InFlightSent, SendableEncodes DEF AcceptedIsCanonical
  <1> QED BY <1>4, WiresCarryMessages, PTL

\* What either side sends is parsed by the other to what was meant, and is never
\* RESP_ERROR (encode, parse_slice, request_response, child_main).
THEOREM EncodedParsed == Spec => []EncodedIsParsed
  <1>1. \A m \in Sendable \cup Answerable : <<m, TRUE>> \in ParsedBack
    <2> TAKE m \in Sendable \cup Answerable
    <2>1. /\ m \in Requests \cup Responses /\ Encodable(m.kind, m.opcode, m.request_id)
          /\ m.kind \in MessageKind
          /\ m = [kind |-> m.kind, opcode |-> m.opcode, request_id |-> m.request_id]
      BY SendableEncodes
    <2>2. parse_slice(PacketOf(m)) = [ok |-> m] BY <2>1, RoundTrip DEF PacketOf
    <2>3. (/\ Encodable(m.kind, m.opcode, m.request_id)
           /\ parse_slice(PacketOf(m)) = [ok |-> m]) = TRUE
      BY <2>1, <2>2
    <2> QED BY <2>1, <2>3 DEF ParsedBack
  <1>2. WireInv => EncodedIsParsed
    BY <1>1, InFlightSent, SendableEncodes DEF EncodedIsParsed
  <1> QED BY <1>2, WiresCarryMessages, PTL
=============================================================================
