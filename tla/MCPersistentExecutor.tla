------------------------ MODULE MCPersistentExecutor ------------------------
(***************************************************************************)
(* Small instances of PersistentExecutor, with its inductive invariant and *)
(* its refinement, and what the parser makes of the packets on its wires.  *)
(* The fuzz target and the Kani harnesses feed the same parser any bytes.  *)
(***************************************************************************)
EXTENDS ExecutorRefinement, ExecutorInvariant

InFlight ==
    LET In(q) == {q[i] : i \in DOMAIN q}
    IN  UNION {In(toChild[c]) \cup In(toService[c]) : c \in Child}

PacketOf(m) == Encode(m.kind, m.opcode, m.request_id)

\* For each field the values the code distinguishes, and those next to them.
Near ==
    [len |-> {15, 16, 17}, magic |-> {MAGIC_0, 0} \X {MAGIC_1, 0},
     version |-> 0 .. 2, kind |-> 0 .. 3,
     opcode |-> (0 .. 4) \cup (127 .. 132) \cup {255}, flags |-> {0, 1},
     payload_len |-> {0, 1}, request_id |-> 0 .. 2, reserved |-> {0, 1}]

\* The packets that differ from p in two fields at most.
Around(p) ==
    UNION {{[p EXCEPT ![f] = v, ![g] = w] : v \in Near[f], w \in Near[g]} :
              f \in DOMAIN p, g \in DOMAIN p}

Canonical(p) ==
    "ok" \in DOMAIN parse_slice(p) =>
        LET m == parse_slice(p).ok
        IN  Encodable(m.kind, m.opcode, m.request_id) /\ p = PacketOf(m)

\* What each message there can be amounts to: written as a relation, a constant
\* that TLC evaluates once.
CanonicalAround ==
    {<<m, \A p \in Around(PacketOf(m)) : Canonical(p)>> : m \in Requests \cup Responses}
ParsedBack ==
    {<<m, /\ Encodable(m.kind, m.opcode, m.request_id)
          /\ parse_slice(PacketOf(m)) = [ok |-> m]>> : m \in Requests \cup Responses}

------------------------------------------------------------------------------
\* The parser accepts nothing but what encode builds: of the packets that look
\* much like one in flight, each is refused or the encoding of the message it is
\* parsed to, so that no byte of an accepted packet is free (ipc_protocol.rs:318-368).
AcceptedIsCanonical == \A m \in InFlight : <<m, TRUE>> \in CanonicalAround

\* Neither side ever sends a message that encode would refuse, or that the other
\* side parses to a different one: the ids of requests are not 0, READY alone has
\* id 0, and RESP_ERROR is never called for.
EncodedIsParsed ==
    \A m \in InFlight : <<m, TRUE>> \in ParsedBack /\ m.opcode # RESP_ERROR
=============================================================================
