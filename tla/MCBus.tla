--------------------------------- MODULE MCBus ---------------------------------
(* A small ecosystem: the risk overlord, in Rust, hears one of two Python  *)
(* agents of one process; the other hears the overlord.  Both verify.      *)
EXTENDS BusProps, FiniteSets

Risk == <<82>>
Momentum == <<77>>
Executor == <<69>>

MCAgent == {Risk, Momentum, Executor}

MCProcess == {"aletheia-core", "aletheia-logic"}

MCSpecs ==
  [p \in MCProcess |->
     IF p = "aletheia-core" THEN <<[id |-> Risk, city |-> <<65>>]>>
     ELSE <<[id |-> Momentum, city |-> <<65>>], [id |-> Executor, city |-> <<65>>]>>]

MCCity == [p \in MCProcess |-> <<65>>]

MCLang == [p \in MCProcess |-> IF p = "aletheia-core" THEN "rust" ELSE "python"]

MCSubscriber == {Risk, Executor}

MCMode == [s \in MCSubscriber |-> "registry"]

MCHears == [s \in MCSubscriber |-> IF s = Risk THEN {Momentum} ELSE {Risk}]

MCTopic == [a \in MCAgent |-> <<116>> \o a]

MCType == [a \in MCAgent |-> IF a = Risk THEN 5 ELSE 4]

MCOptions ==
  {[DefaultOpts EXCEPT !.causal_links = <<<<1>>, <<200>>>>]}

MCPayload == {<<>>}

MCSchemaVersion == <<49>>

-----------------------------------------------------------------------------
(* What is signed determines the envelope: no two of these, which differ   *)
(* in an optional, an empty, a negative or a repeated field, have the same *)
(* canonical bytes.                                                        *)
Samples ==
  {[Build(<<1>>, Risk, city, <<116>>, 5, payload, [seconds |-> s, nanos |-> n], opts)
      EXCEPT !.nonce = nonce, !.timestamp = IF s > 1 THEN <<>> ELSE @] :
    city \in {<<>>, <<65>>, <<65, 10>>}, payload \in {<<>>, <<0>>, <<82, 0>>},
    s \in {-1, 0, 1, 2}, n \in {0, 999}, nonce \in {<<1, 2>>, <<1, 3>>},
    opts \in [correlation_id : {<<>>, <<1>>}, priority : {0, 1},
              causal_links : {<<>>, <<<<>>>>, <<<<1>>, <<2>>>>, <<<<1, 2>>>>},
              schema_version : {MCSchemaVersion}]}

ASSUME CanonicalInjective ==
  Cardinality({Canonical(e) : e \in Samples}) = Cardinality(Samples)
===============================================================================
