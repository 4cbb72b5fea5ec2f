------------------------------ MODULE Backends ------------------------------
(***************************************************************************)
(* llm/backends: what each transport makes of what comes back over the     *)
(* wire.  A wire outcome is abstracted to what the adapters tell apart;     *)
(* request building, credentials and token counting are left out, except   *)
(* that a target whose configuration the adapter refuses is a fault of its  *)
(* own.  The vendor SDKs' own retries happen below this level.             *)
(***************************************************************************)
EXTENDS Naturals, Sequences

Backends == {"anthropic", "openai_compatible", "bedrock", "vertex",
             "harmony_gpt_oss"}

Modes == <<"JSON_SCHEMA", "TOOL_CALL", "CONSTRAINED", "PROMPTED">>

(***************************************************************************)
(* One wire outcome.  "unreachable": no connection, or a timeout;           *)
(* "throttled": HTTP 429; "server": HTTP 5xx; "rejected": any other error   *)
(* status; "garbled": a success whose body is not JSON; "unshaped": JSON    *)
(* that is not an object; "headless": an object without a message;          *)
(* "message": a decoded turn, with its stop reason and with content that    *)
(* satisfies the response schema or does not, or with no content at all.   *)
(***************************************************************************)
StopReasons == {"end", "limit", "tool", "refusal", "filter", "unlisted"}
Bodies == {"valid", "invalid", "none"}
Faults == {"unreachable", "throttled", "server", "rejected", "garbled",
           "unshaped", "headless"}
Outages == {"unreachable", "throttled", "server"}

Wire ==
    [class : Faults, stop : {"end"}, body : {"none"}]
        \cup [class : {"message"}, stop : StopReasons, body : Bodies]

\* A transport with one round trip has no second outcome.
Single == {[class |-> "message", stop |-> "end", body |-> "none"]}

\* What ModelBackend.invoke does: returns a BackendReply or raises.
TransportError(trigger) ==
    [kind |-> "TransportError", trigger |-> trigger, finish |-> "none",
     body |-> "none"]
LlmError ==
    [kind |-> "LlmError", trigger |-> "none", finish |-> "none",
     body |-> "none"]
BackendReply(finish, body) ==
    [kind |-> "BackendReply", trigger |-> "none", finish |-> finish,
     body |-> body]

-----------------------------------------------------------------------------
(* The capability ladder.                                                  *)

\* The rungs a backend declares it can honour; the OpenAI-compatible one
\* declares none and relies on the target's capabilities_override.
declared_capabilities(b) ==
    IF b = "openai_compatible" THEN {} ELSE {"TOOL_CALL"}

\* An override replaces fields of the declaration.
merge_capabilities(declared, override) ==
    (declared \ override.off) \cup override.on

negotiate(caps) ==
    IF "JSON_SCHEMA" \in caps THEN "JSON_SCHEMA"
    ELSE IF "TOOL_CALL" \in caps THEN "TOOL_CALL"
    ELSE IF "CONSTRAINED" \in caps THEN "CONSTRAINED"
    ELSE "PROMPTED"

\* The rungs an adapter can put on the wire; any other is refused while the
\* request is built.
Expressible(b) ==
    CASE b = "openai_compatible" -> {Modes[i] : i \in 1 .. 4}
      [] b = "anthropic" -> {"JSON_SCHEMA", "TOOL_CALL", "PROMPTED"}
      [] b = "harmony_gpt_oss" -> {Modes[i] : i \in 1 .. 4}
      [] OTHER -> {"TOOL_CALL", "PROMPTED"}

-----------------------------------------------------------------------------
(* One adapter each: status to error, then turn to reply.                  *)

\* anthropic.py: _from_status and the except arms of invoke.
AnthropicError(class) ==
    CASE class = "unreachable" -> TransportError("CONNECTION")
      [] class = "throttled" -> TransportError("RATE_LIMIT")
      [] class = "server" -> TransportError("SERVER_ERROR")
      [] OTHER -> LlmError

\* anthropic.py: _reply_from; an unlisted stop reason is a MalformedReply,
\* which is not one of the errors that fail over.
AnthropicReply(stop, body) ==
    CASE stop = "end" -> BackendReply("stop", body)
      [] stop = "limit" -> BackendReply("length", body)
      [] stop = "tool" -> BackendReply("tool_call", body)
      [] stop = "refusal" -> BackendReply("refusal", body)
      [] OTHER -> LlmError

\* openai_compatible.py: _SdkTransport, and the body checks of _choice and
\* _first_message.
OpenAIError(class) ==
    CASE class = "unreachable" -> TransportError("CONNECTION")
      [] class = "throttled" -> TransportError("RATE_LIMIT")
      [] class \in {"server", "unshaped", "headless"} ->
             TransportError("SERVER_ERROR")
      [] OTHER -> LlmError

\* openai_compatible.py: parse_reply with _finish_reason; an unlisted reason
\* is a stop as long as there is content.
OpenAIReply(stop, body) ==
    CASE stop = "end" -> BackendReply("stop", body)
      [] stop = "limit" -> BackendReply("length", body)
      [] stop = "tool" -> BackendReply("tool_call", body)
      [] stop = "refusal" -> BackendReply("refusal", body)
      [] stop = "filter" -> BackendReply("filtered", body)
      [] stop = "unlisted" /\ body # "none" -> BackendReply("stop", body)
      [] OTHER -> LlmError

\* Mutant: only throttling and lost connections are faults of the transport.
BedrockError_Strict(class) ==
    CASE class \in {"unreachable", "garbled"} -> TransportError("CONNECTION")
      [] class = "throttled" -> TransportError("RATE_LIMIT")
      [] OTHER -> LlmError

\* bedrock.py: _converse, _from_client_error and _content_blocks.  A body
\* botocore cannot parse is one of its own errors, like a lost connection.
BedrockError(class) ==
    CASE class \in {"unreachable", "garbled"} -> TransportError("CONNECTION")
      [] class = "throttled" -> TransportError("RATE_LIMIT")
      [] class \in {"server", "unshaped", "headless"} ->
             TransportError("SERVER_ERROR")
      [] OTHER -> LlmError

\* bedrock.py: parse_reply with _finish_reason.
BedrockReply(stop, body) ==
    CASE stop = "end" -> BackendReply("stop", body)
      [] stop = "limit" -> BackendReply("length", body)
      [] stop = "tool" -> BackendReply("tool_call", body)
      [] stop = "refusal" -> BackendReply("refusal", body)
      [] stop = "filter" -> BackendReply("filtered", body)
      [] OTHER -> LlmError

\* vertex.py: _post and _from_status.  A success that is not JSON raises out
\* of response.json(), outside the handler; a JSON body that is not an
\* object is a transport fault.  An object with no content has no
\* stop_reason either, which parse_reply refuses.
VertexError(class) ==
    CASE class = "unreachable" -> TransportError("CONNECTION")
      [] class = "throttled" -> TransportError("RATE_LIMIT")
      [] class = "server" -> TransportError("SERVER_ERROR")
      [] class = "unshaped" -> TransportError("SERVER_ERROR")
      [] OTHER -> LlmError

\* vertex.py: parse_reply with _finish_reason.
VertexReply(stop, body) == AnthropicReply(stop, body)

\* harmony_gpt_oss.py: _VllmCompletionsTransport; a completion without
\* choices raises.
HarmonyError(class) == AnthropicError(class)

\* harmony_gpt_oss.py: parse_completion; everything that is not a length stop
\* is read off the decoded turn.
HarmonyReply(stop, body) ==
    IF stop = "limit" THEN BackendReply("length", body)
    ELSE IF stop = "tool" THEN BackendReply("tool_call", body)
    ELSE BackendReply("stop", body)

\* harmony_gpt_oss.py: invoke.  A response schema with file edits takes two
\* round trips: the patch, then, when it decoded, the remaining fields.  The
\* second reply decides whether the whole is complete and whether it was cut
\* off; the finish reason is the first one's otherwise.
HarmonyInvoke(w1, w2, edits) ==
    LET first == IF w1.class = "message" THEN HarmonyReply(w1.stop, w1.body)
                 ELSE HarmonyError(w1.class)
        second == IF w2.class = "message" THEN HarmonyReply(w2.stop, w2.body)
                  ELSE HarmonyError(w2.class)
    IN  IF first.kind # "BackendReply" \/ ~edits \/ first.body # "valid"
        THEN first
        ELSE IF second.kind # "BackendReply" THEN second
        ELSE IF second.finish = "length"
             THEN BackendReply("length", second.body)
        ELSE BackendReply("tool_call", second.body)

\* invoke: w is the wire outcome, w2 that of a second round trip.
invoke(b, w, w2, edits) ==
    LET of(error, reply) == IF w.class = "message" THEN reply ELSE error
    IN  CASE b = "anthropic" ->
                 of(AnthropicError(w.class), AnthropicReply(w.stop, w.body))
          [] b = "openai_compatible" ->
                 of(OpenAIError(w.class), OpenAIReply(w.stop, w.body))
          [] b = "bedrock" ->
                 of(BedrockError(w.class), BedrockReply(w.stop, w.body))
          [] b = "vertex" ->
                 of(VertexError(w.class), VertexReply(w.stop, w.body))
          [] OTHER -> HarmonyInvoke(w, w2, edits)

\* Which of the two wire outcomes the result of invoke follows from.
DecidingClass(b, w, w2) ==
    IF b = "harmony_gpt_oss" /\ w.class = "message" /\ w.body = "valid"
    THEN w2.class ELSE w.class
=============================================================================
