------------------------------- MODULE Envelope -------------------------------
(***************************************************************************)
(* Building, signing and verifying an envelope (core/obsidian-bus/src/     *)
(* envelope.rs and its Python mirror).  An Ed25519 signature is a value    *)
(* that determines the key and the bytes; a verifying key is named like    *)
(* its signing key.                                                        *)
(***************************************************************************)
EXTENDS Canonical

CONSTANTS
  NonceLength,      \* NONCE_LENGTH, 16
  SchemaVersion,    \* ENVELOPE_SCHEMA_VERSION
  NormalPriority    \* Priority::Normal

ASSUME EnvelopeAssumption == NonceLength \in Nat \ {0}

Unsigned == <<>>

(* PublishOpts, with the defaults of the builder where none is given.      *)
DefaultOpts ==
  [correlation_id |-> <<>>, priority |-> NormalPriority,
   causal_links |-> <<>>, schema_version |-> SchemaVersion]

(* EnvelopeBuilder, as publish uses it.                                    *)
Build(id, agent, city, topic, type, payload, time, opts) ==
  [message_id         |-> id,
   correlation_id     |-> opts.correlation_id,
   source_agent_id    |-> agent,
   source_city        |-> city,
   target_topic       |-> topic,
   timestamp          |-> <<time>>,
   priority           |-> opts.priority,
   type               |-> type,
   payload            |-> payload,
   causal_message_ids |-> opts.causal_links,
   schema_version     |-> opts.schema_version,
   nonce              |-> <<>>,
   signature          |-> Unsigned]

ValidPreSign(e) ==
  /\ e.message_id # <<>>
  /\ e.source_agent_id # <<>>
  /\ e.target_topic # <<>>
  /\ e.type # 0
  /\ e.timestamp # <<>>
  /\ e.schema_version # <<>>
  /\ e.signature = Unsigned

(* The canonicalizer of the language a process is written in.              *)
CanonicalBy(lang, e) == IF lang = "rust" THEN Canonical(e) ELSE PyCanonical(e)

Signable(e) == ValidPreSign(e) /\ Len(e.nonce) \in {0, NonceLength}

SignEnvelope(lang, e, key, random) ==
  LET nonced == IF e.nonce = <<>> THEN [e EXCEPT !.nonce = random] ELSE e
  IN [nonced EXCEPT !.signature =
        <<[by |-> key, over |-> CanonicalBy(lang, nonced)]>>]

VerifyEnvelope(lang, e, key) ==
  /\ Len(e.nonce) = NonceLength
  /\ e.signature # Unsigned
  /\ e.signature[1] = [by |-> key, over |-> CanonicalBy(lang, e)]
===============================================================================
