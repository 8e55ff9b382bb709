------------------------------- MODULE Canonical -------------------------------
(***************************************************************************)
(* The bytes of an envelope that are signed (core/obsidian-bus/src/        *)
(* canonical.rs): fields in ascending order of their tags, zero scalars    *)
(* and empty strings left out, payload and nonce always present, the       *)
(* signature never.  A string is the sequence of its bytes, a field that   *)
(* may be absent a sequence of at most one value.                          *)
(***************************************************************************)
EXTENDS Integers, Sequences, SequencesExt

CONSTANT
  Word          \* 2^64: the integers are cast to u64

ASSUME WordAssumption == Word \in Nat /\ Word > 128

-----------------------------------------------------------------------------
(* The writers.                                                            *)

Varint[n \in Nat] ==
  IF n < 128 THEN <<n>> ELSE <<128 + (n % 128)>> \o Varint[n \div 128]

Tag(field, wire) == Varint[8 * field + wire]

Bytes(field, data) == Tag(field, 2) \o Varint[Len(data)] \o data

(* `value as u64` of an integer that may be negative.                      *)
Scalar(field, n) ==
  IF n = 0 THEN <<>> ELSE Tag(field, 0) \o Varint[n % Word]

Text(field, string) == IF string = <<>> THEN <<>> ELSE Bytes(field, string)

-----------------------------------------------------------------------------
CanonicalTimestamp(ts) == Scalar(1, ts.seconds) \o Scalar(2, ts.nanos)

Optional(field, timestamp) ==
  IF timestamp = <<>> THEN <<>> ELSE Bytes(field, CanonicalTimestamp(timestamp[1]))

Repeated(field, strings) ==
  FlattenSeq([i \in DOMAIN strings |-> Bytes(field, strings[i])])

Canonical(e) ==
     Text(1, e.message_id) \o Text(2, e.correlation_id)
  \o Text(3, e.source_agent_id) \o Text(4, e.source_city)
  \o Text(5, e.target_topic) \o Optional(6, e.timestamp)
  \o Scalar(7, e.priority) \o Scalar(8, e.type) \o Bytes(9, e.payload)
  \o Repeated(10, e.causal_message_ids)
  \o Text(11, e.schema_version) \o Bytes(12, e.nonce)

-----------------------------------------------------------------------------
(* The Python mirror (obsidian_agent/bus/canonical.py).  The writers are   *)
(* the same; only the integers of a timestamp are cast, an enumeration is  *)
(* not: a negative one is a single byte here and ten in Rust.              *)

PyEnum(field, n) ==
  IF n < 0 THEN Tag(field, 0) \o <<n % 256>> ELSE Scalar(field, n)

PyTimestamp(seconds, nanos) == Scalar(1, seconds) \o Scalar(2, nanos)

(* canonicalize_envelope_proto, which takes the fields out of the message, *)
(* and canonicalize_envelope.  A slip: an empty payload is left out like   *)
(* the other empty fields.                                                 *)
PyFieldsOf(e) ==
  [timestamp_present |-> e.timestamp # <<>>,
   timestamp_seconds |-> IF e.timestamp = <<>> THEN 0 ELSE e.timestamp[1].seconds,
   timestamp_nanos   |-> IF e.timestamp = <<>> THEN 0 ELSE e.timestamp[1].nanos]

PyOptional(field, f) ==
  IF f.timestamp_present
    THEN Bytes(field, PyTimestamp(f.timestamp_seconds, f.timestamp_nanos)) ELSE <<>>

PyCanonicalStripsPayload(e) ==
     Text(1, e.message_id) \o Text(2, e.correlation_id)
  \o Text(3, e.source_agent_id) \o Text(4, e.source_city)
  \o Text(5, e.target_topic) \o PyOptional(6, PyFieldsOf(e))
  \o PyEnum(7, e.priority) \o PyEnum(8, e.type) \o Text(9, e.payload)
  \o Repeated(10, e.causal_message_ids)
  \o Text(11, e.schema_version) \o Bytes(12, e.nonce)

PyCanonical(e) ==
     Text(1, e.message_id) \o Text(2, e.correlation_id)
  \o Text(3, e.source_agent_id) \o Text(4, e.source_city)
  \o Text(5, e.target_topic) \o PyOptional(6, PyFieldsOf(e))
  \o PyEnum(7, e.priority) \o PyEnum(8, e.type) \o Bytes(9, e.payload)
  \o Repeated(10, e.causal_message_ids)
  \o Text(11, e.schema_version) \o Bytes(12, e.nonce)
===============================================================================
