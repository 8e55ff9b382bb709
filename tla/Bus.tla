---------------------------------- MODULE Bus ----------------------------------
(***************************************************************************)
(* Agents that publish signed envelopes, and subscribers that verify them  *)
(* against the key files (core/obsidian-bus/src/nats.rs, bus/nats.py),     *)
(* over a NATS server that keeps nothing for a subscriber that is not      *)
(* there or is too slow.                                                   *)
(***************************************************************************)
EXTENDS Keys, Envelope

CONSTANTS
  Subscriber,   \* the agents that subscribe
  Mode,         \* the verification mode of each: "none" or "registry"
  Hears,        \* the agents whose topic each subscription covers
  Topic,        \* the topic an agent publishes on
  Type,         \* the type of its messages
  Options,      \* the options its publish calls are made with
  Payload,      \* the payloads
  InboxSize,    \* messages the NATS client holds for a slow subscriber
  MaxMessages   \* bound on the messages published

ASSUME BusAssumption ==
  /\ Subscriber \subseteq Agent /\ Hears \in [Subscriber -> SUBSET Agent]
  /\ Mode \in [Subscriber -> {"none", "registry"}]
  /\ Type \in [Agent -> Nat] /\ \A opts \in Options : opts.priority \in Nat
  /\ InboxSize \in Nat /\ MaxMessages \in Nat

VARIABLES
  published,    \* the number of messages published
  open,         \* the subscriptions there are
  inbox,        \* messages each subscription holds
  cache,        \* the keys each subscriber's registry has read
  dropped       \* history: <<subscriber, agent>> of each envelope dropped

busVars == <<published, open, inbox, cache, dropped>>
vars == <<keyVars, busVars>>

NoKeys == [a \in Agent |-> Absent]

Init ==
  /\ KeyInit
  /\ published = 0
  /\ open = {}
  /\ inbox = [s \in Subscriber |-> <<>>]
  /\ cache = [s \in Subscriber |-> NoKeys]
  /\ dropped = {}

-----------------------------------------------------------------------------
(* The place of an agent in the process that runs it: agents and keys are  *)
(* zipped.  Slip: keys are taken in the opposite order.                    *)
Places == UNION {{p} \X DOMAIN Specs[p] : p \in Process}

Running(a, place) ==
  /\ phase[place[1]] = "up"
  /\ Specs[place[1]][place[2]].id = a

ClientKeyReversed(place) ==
  keys[place[1]][Len(keys[place[1]]) + 1 - place[2]]

ClientKey(place) == keys[place[1]][place[2]]

-----------------------------------------------------------------------------
(* publish: build, sign, send.  Message ids, times and nonces are fresh.   *)

Fresh(length) == [i \in 1 .. length |-> published + 1]

Envelope(a, place, opts, payload) ==
  Build(Fresh(1), a, Specs[place[1]][place[2]].city, Topic[a], Type[a], payload,
        [seconds |-> published, nanos |-> 0], opts)

Deliver(e, a) ==
  inbox' = [s \in Subscriber |->
              IF s \in open /\ a \in Hears[s] /\ Len(inbox[s]) < InboxSize
                THEN Append(inbox[s], e) ELSE inbox[s]]

Publish(a, place, opts, payload) ==
  LET lang == Lang[place[1]]
      e == Envelope(a, place, opts, payload)
  IN /\ Running(a, place)
     /\ Signable(e)
     /\ published < MaxMessages
     /\ published' = published + 1
     /\ Deliver(SignEnvelope(lang, e, ClientKey(place), Fresh(NonceLength)), a)
     /\ UNCHANGED <<keyVars, open, cache, dropped>>

-----------------------------------------------------------------------------
(* subscribe, by an agent that makes a registry of its own when it starts  *)
(* to run; the subscription and the registry go with the agent's instance. *)

Subscribe(s, place) ==
  /\ Running(s, place)
  /\ s \notin open
  /\ open' = open \cup {s}
  /\ cache' = [cache EXCEPT ![s] = NoKeys]
  /\ UNCHANGED <<keyVars, published, inbox, dropped>>

Unsubscribe(s) ==
  /\ s \in open
  /\ open' = open \ {s}
  /\ inbox' = [inbox EXCEPT ![s] = <<>>]
  /\ UNCHANGED <<keyVars, published, cache, dropped>>

(* FilesystemRegistry::get: only a key that was found is cached.         *)
IsKey(file) == file \notin {Absent, Short}

Lookup(s, a) ==
  IF cache[s][a] # Absent THEN cache[s][a]
  ELSE IF IsKey(pub[a]) THEN pub[a] ELSE Absent

Cached(s, a) == [cache EXCEPT ![s][a] = Lookup(s, a)]

(* verify, in the language of the subscriber's process.                    *)
Verify(s, lang, e) ==
  \/ Mode[s] = "none"
  \/ /\ Lookup(s, e.source_agent_id) # Absent
     /\ VerifyEnvelope(lang, e, Lookup(s, e.source_agent_id))

(* next: an envelope that does not verify is dropped, any other handed on. *)
Receive(s, place) ==
  LET e == Head(inbox[s])
  IN /\ Running(s, place)
     /\ s \in open
     /\ inbox[s] # <<>>
     /\ inbox' = [inbox EXCEPT ![s] = Tail(@)]
     /\ cache' = IF Mode[s] = "none" THEN cache ELSE Cached(s, e.source_agent_id)
     /\ dropped' = IF Verify(s, Lang[place[1]], e) THEN dropped
                   ELSE dropped \cup {<<s, e.source_agent_id>>}
     /\ UNCHANGED <<keyVars, published, open>>

-----------------------------------------------------------------------------
(* What the end of a process takes with it.                                *)
Hosted(p) == {Specs[p][i].id : i \in DOMAIN Specs[p]}

LoseSubscriptions(gone) ==
  /\ open' = open \ gone
  /\ inbox' = [s \in Subscriber |-> IF s \in gone THEN <<>> ELSE inbox[s]]
  /\ UNCHANGED <<published, cache, dropped>>

Crash(p) == CrashKeys(p) /\ LoseSubscriptions(Hosted(p))

PowerLoss == PowerLossKeys /\ LoseSubscriptions(Subscriber)

Next ==
  \/ KeyNext /\ UNCHANGED busVars
  \/ \E p \in Process : Crash(p)
  \/ PowerLoss
  \/ \E place \in Places, a \in Agent, opts \in Options, payload \in Payload :
       Publish(a, place, opts, payload)
  \/ \E s \in Subscriber :
       \/ Unsubscribe(s)
       \/ \E place \in Places : Subscribe(s, place) \/ Receive(s, place)

Spec == Init /\ [][Next]_vars
===============================================================================
