------------------------------ MODULE MCSession ------------------------------
(***************************************************************************)
(* Requests for model-checking Session.                                    *)
(***************************************************************************)
EXTENDS Session

H(opcode, topic_name, partition_id, message) ==
    [magic |-> TRUE, opcode |-> opcode, topic_name |-> topic_name,
     partition_id |-> partition_id, message |-> message]

\* Each check of the handlers is passed and failed by some request, the ones
\* the code lacks too: a partition that does not exist, a request that does not
\* fit the handler's buffer.
CheckedRequests ==
    {[H("PULL", 0, 0, 0) EXCEPT !.magic = FALSE], H("UNKNOWN", 1, 0, 0), H("DELETE", 1, 0, 65524)}
    \cup {H(opcode, 0, 0, 0) : opcode \in {"PUSH", "PULL", "DELETE"}}
    \cup {H("PUSH", 1, p, 1) : p \in {0, 1, INVALID_TOPIC_ID}}
    \cup {H("PULL", 1, p, 0) : p \in {0, 1, 3, INVALID_TOPIC_ID}}
    \cup {H("DELETE", 1, p, 1) : p \in {0, 1, INVALID_TOPIC_ID}}
    \cup {H("DELETE", 1, 0, 2)}
    \cup {H(opcode, 1, 0, 1018) : opcode \in {"PUSH", "DELETE"}}

\* One topic, one partition, two contents.
PlainRequests ==
    {H("PUSH", 1, 0, 1), H("PUSH", 1, 0, 2), H("PULL", 1, 0, 0), H("DELETE", 1, 0, 1)}

\* One client sends anything, another one works on the same topic.
MixedHeaders == [s \in Sessions |-> IF s = "any" THEN CheckedRequests ELSE PlainRequests]

PlainHeaders == [s \in Sessions |-> PlainRequests]
=============================================================================
