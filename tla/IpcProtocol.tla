----------------------------- MODULE IpcProtocol -----------------------------
(***************************************************************************)
(* The fixed-size control protocol v1 between the isolated service and the *)
(* locked child (rust/src/ipc_protocol.rs).                                *)
(*                                                                         *)
(* A packet is a record of its fields: the little-endian byte groups       *)
(* (payload length, request id, reserved word) are kept as the numbers     *)
(* they encode, everything else is the byte itself.  A message is what a   *)
(* packet that passes every check stands for.                              *)
(*                                                                         *)
(* The module is pure: no variable, so that the modules that exchange      *)
(* messages can use its operators and the theorems about them.             *)
(***************************************************************************)
EXTENDS Naturals

MAGIC_0 == 83
MAGIC_1 == 71
PROTOCOL_VERSION == 1
PACKET_LEN == 16

OP_PING == 1
OP_STATUS == 2
OP_SHUTDOWN == 3

RESP_READY == 128
RESP_PONG == 129
RESP_LOCKED == 130
RESP_BYE == 131
RESP_ERROR == 255

FLAGS_NONE == 0
PAYLOAD_LEN_V1 == 0
RESERVED_V1 == 0

MessageKind == {"Request", "Response"}

\* MessageKind::wire
Wire(kind) == IF kind = "Request" THEN 1 ELSE 2

\* Mutant of FromWire: the kinds are numbered from 0.
FromWireZeroBased(byte) == {k \in MessageKind : Wire(k) = byte + 1}

\* MessageKind::from_wire: the kinds a byte stands for, none or one.
FromWire(byte) == {k \in MessageKind : Wire(k) = byte}

is_request_opcode(opcode) == opcode \in {OP_PING, OP_STATUS, OP_SHUTDOWN}

is_response_opcode(opcode) ==
    opcode \in {RESP_READY, RESP_PONG, RESP_LOCKED, RESP_BYE, RESP_ERROR}

OpcodeValid(kind, opcode) ==
    \/ kind = "Request" /\ is_request_opcode(opcode)
    \/ kind = "Response" /\ is_response_opcode(opcode)

\* Requests carry a nonzero id; READY is the one answer to no request.
request_id_valid(kind, opcode, id) ==
    \/ kind = "Request" /\ id # 0
    \/ kind = "Response" /\ opcode = RESP_READY /\ id = 0
    \/ kind = "Response" /\ opcode \in {RESP_PONG, RESP_LOCKED, RESP_BYE} /\ id # 0
    \/ kind = "Response" /\ opcode = RESP_ERROR

Message == [kind: MessageKind, opcode: 0..255, request_id: Nat]

ParseError == {"InvalidPacketLength", "BadMagic", "UnsupportedVersion",
               "InvalidKind", "InvalidOpcode", "NonZeroFlags",
               "InvalidPayloadLength", "InvalidRequestId", "NonZeroReserved"}

\* What encode refuses to build.
Encodable(kind, opcode, id) ==
    OpcodeValid(kind, opcode) /\ request_id_valid(kind, opcode, id)

\* The packet encode builds for an encodable message.
Encode(kind, opcode, id) ==
    [len |-> PACKET_LEN, magic |-> <<MAGIC_0, MAGIC_1>>,
     version |-> PROTOCOL_VERSION, kind |-> Wire(kind), opcode |-> opcode,
     flags |-> FLAGS_NONE, payload_len |-> PAYLOAD_LEN_V1,
     request_id |-> id, reserved |-> RESERVED_V1]

\* The checks of parse_slice, in the order in which it makes them.
Check == <<"InvalidPacketLength", "BadMagic", "UnsupportedVersion",
           "InvalidKind", "InvalidOpcode", "NonZeroFlags",
           "InvalidPayloadLength", "InvalidRequestId", "NonZeroReserved">>

\* Which checks p passes, named by the error each reports.
Passed(p) ==
    [InvalidPacketLength  |-> p.len = PACKET_LEN,
     BadMagic             |-> p.magic = <<MAGIC_0, MAGIC_1>>,
     UnsupportedVersion   |-> p.version = PROTOCOL_VERSION,
     InvalidKind          |-> FromWire(p.kind) # {},
     InvalidOpcode        |-> \A k \in FromWire(p.kind) : OpcodeValid(k, p.opcode),
     NonZeroFlags         |-> p.flags = FLAGS_NONE,
     InvalidPayloadLength |-> p.payload_len = PAYLOAD_LEN_V1,
     InvalidRequestId     |->
         \A k \in FromWire(p.kind) : request_id_valid(k, p.opcode, p.request_id),
     NonZeroReserved      |-> p.reserved = RESERVED_V1]

\* Mutant of Accepted: the reserved word is not looked at.
AcceptedLax(p) == \A err \in ParseError \ {"NonZeroReserved"} : Passed(p)[err]

Accepted(p) == \A err \in ParseError : Passed(p)[err]

\* The message an accepted packet stands for.
Decode(p) == [kind |-> CHOOSE k \in MessageKind : k \in FromWire(p.kind),
              opcode |-> p.opcode, request_id |-> p.request_id]

\* parse_slice: Ok(message), or Err of the first check that fails.
parse_slice(p) ==
    IF Accepted(p)
    THEN [ok |-> Decode(p)]
    ELSE [err |-> Check[CHOOSE i \in DOMAIN Check :
                            /\ ~Passed(p)[Check[i]]
                            /\ \A j \in 1 .. i - 1 : Passed(p)[Check[j]]]]

matches_response(message, expected_opcode, expected_request_id) ==
    /\ message.kind = "Response"
    /\ message.opcode = expected_opcode
    /\ message.request_id = expected_request_id
=============================================================================
