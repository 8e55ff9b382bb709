-------------------------------- MODULE BusProps --------------------------------
(***************************************************************************)
(* What signed messages and seeded keys must guarantee, on the state       *)
(* machine of Bus.tla.                                                     *)
(***************************************************************************)
EXTENDS Bus

File == Key \cup {Absent, Short}

(* The type of every variable; an envelope is opaque.                      *)
TypeOK ==
  /\ key \in [Agent -> File] /\ pub \in [Agent -> File]
  /\ unsynced \subseteq Agent \X {"key", "pub"}
  /\ phase \in [Process -> Seeding \cup {"down", "refused", "up"}]
  /\ keys \in [Process -> Seq(Key)]
  /\ generated \in 0 .. MaxKeys /\ faults \in 0 .. MaxFaults
  /\ touched \subseteq Agent
  /\ published \in Nat
  /\ open \subseteq Subscriber
  /\ cache \in [Subscriber -> [Agent -> Key \cup {Absent}]]
  /\ dropped \subseteq Subscriber \X Agent

-----------------------------------------------------------------------------
(* nats.rs:282 says what fails verification is dropped: that never happens *)
(* to a message of an agent whose key files nothing has damaged or removed,*)
(* in either language, from whichever process, however early a subscriber  *)
(* looked for the key.                                                     *)
DropsExplained == \A drop \in dropped : drop[2] \in touched

(* While an agent runs, the public key file that others verify with is the *)
(* one of the key it signs with, unless its files were damaged or removed. *)
KeysAgree ==
  \A a \in Agent \ touched, place \in Places :
    Running(a, place) => pub[a] = ClientKey(place) /\ key[a] = ClientKey(place)

(* The identity of an agent lasts: a private key once written is replaced  *)
(* by no start of any process, only lost with the power or removed.        *)
IdentityLasts ==
  [][PowerLoss \/ \A a \in Agent :
       IsKey(key[a]) => key'[a] \in {key[a], Absent}]_vars

(* A process with sound specs is refused its start (a key that cannot be   *)
(* loaded, signing.rs:89) only if the files of one of its agents were      *)
(* damaged or removed: never by what other starts, its own earlier ones    *)
(* included, have written.                                                 *)
RefusalExplained ==
  \A p \in Process :
    phase[p] = "refused" /\ Valid(p) => Hosted(p) \cap touched # {}
===============================================================================
