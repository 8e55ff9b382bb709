--------------------------------- MODULE Keys ---------------------------------
(***************************************************************************)
(* The key files of the agents, {data root}/{agent}/signing.key and        *)
(* signing.pub (core/obsidian-bus/src/signing.rs, bus/signing.py), and the *)
(* start of the processes that host the agents: a supervisor validates its *)
(* specs, loads or generates every key, and only then runs an agent        *)
(* (supervisor.rs, supervisor.py).  The processes share the data root.     *)
(***************************************************************************)
EXTENDS Integers, Sequences

CONSTANTS
  Agent,      \* the agents
  Process,    \* the processes
  Specs,      \* the specs of each process, a sequence of [id, city]
  City,       \* the city of each process
  Lang,       \* the language of each process, "rust" or "python"
  Absent,     \* no such file
  Short,      \* a file without the 32 bytes of a key
  MaxKeys,    \* bound on the keys generated
  MaxFaults   \* bound on the crashes, errors, power losses and removals

Key == 1 .. MaxKeys

ASSUME SpecsAssumption ==
  /\ Specs \in [Process -> Seq([id : Agent, city : {City[p] : p \in Process}])]
  /\ \A p \in Process : Specs[p] # <<>>

(* Each agent runs in one process, as the cities are deployed.             *)
ASSUME HostAssumption ==
  \A p, q \in Process : \A i \in DOMAIN Specs[p], j \in DOMAIN Specs[q] :
    Specs[p][i].id = Specs[q][j].id => p = q

ASSUME FileAssumption ==
  MaxKeys \in Nat /\ MaxFaults \in Nat /\ Absent # Short /\ {Absent, Short} \cap Nat = {}

VARIABLES
  key,        \* the private key file of each agent
  pub,        \* the public key file of each agent
  unsynced,   \* the files that a power loss may still damage
  phase,      \* how far each process has come
  keys,       \* the keys each process holds, in the order of its specs
  generated,  \* the number of keys generated
  faults,     \* the number of crashes, errors, power losses and removals
  touched     \* history: agents whose files a crash, an I/O error, a power
              \* loss or an operator has damaged or removed

keyVars == <<key, pub, unsynced, phase, keys, generated, faults, touched>>

(* Where seed_keys is, for the first agent that has no key yet.            *)
Seeding == {"look", "write_key", "create_pub", "write_pub"}

KeyInit ==
  /\ key = [a \in Agent |-> Absent]
  /\ pub = [a \in Agent |-> Absent]
  /\ unsynced = {}
  /\ phase = [p \in Process |-> "down"]
  /\ keys = [p \in Process |-> <<>>]
  /\ generated = 0
  /\ faults = 0
  /\ touched = {}

Fault ==
  /\ faults < MaxFaults
  /\ faults' = faults + 1

-----------------------------------------------------------------------------
(* validate: no agent twice, none of another city.                         *)
Valid(p) ==
  /\ \A i, j \in DOMAIN Specs[p] : Specs[p][i].id = Specs[p][j].id => i = j
  /\ \A i \in DOMAIN Specs[p] : Specs[p][i].city = City[p]

Start(p) ==
  /\ phase[p] \in {"down", "refused"}
  /\ phase' = [phase EXCEPT ![p] = IF Valid(p) THEN "look" ELSE "refused"]
  /\ keys' = [keys EXCEPT ![p] = <<>>]
  /\ UNCHANGED <<key, pub, unsynced, generated, faults, touched>>

(* The agent whose key is next.                                            *)
Current(p) == Specs[p][Len(keys[p]) + 1].id

Refuse(p) == phase' = [phase EXCEPT ![p] = "refused"]

Seeded(p, k) ==
  /\ keys' = [keys EXCEPT ![p] = Append(@, k)]
  /\ phase' = [phase EXCEPT ![p] =
                 IF Len(keys[p]) + 1 = Len(Specs[p]) THEN "up" ELSE "look"]

(* load_or_generate: the key file exists ...                               *)
LoadKey(p) ==
  /\ phase[p] = "look"
  /\ key[Current(p)] # Absent
  /\ IF key[Current(p)] = Short
       THEN Refuse(p) /\ UNCHANGED keys
       ELSE Seeded(p, key[Current(p)])
  /\ UNCHANGED <<key, pub, unsynced, generated, faults, touched>>

(* A slip: a key without its public half is generated anew.                *)
CreateKeyOrRepair(p) ==
  /\ phase[p] = "look"
  /\ key[Current(p)] = Absent \/ pub[Current(p)] = Absent
  /\ key' = [key EXCEPT ![Current(p)] = Short]
  /\ unsynced' = unsynced \cup {<<Current(p), "key">>}
  /\ phase' = [phase EXCEPT ![p] = "write_key"]
  /\ UNCHANGED <<pub, keys, generated, faults, touched>>

(* Another slip: the files of all keys are created before one is filled.   *)
CreateKeysFirst(p) ==
  /\ phase[p] = "look"
  /\ key[Current(p)] = Absent
  /\ key' = [a \in Agent |->
               IF key[a] = Absent /\ \E i \in DOMAIN Specs[p] : Specs[p][i].id = a
                 THEN Short ELSE key[a]]
  /\ unsynced' = unsynced \cup {<<Current(p), "key">>}
  /\ phase' = [phase EXCEPT ![p] = "write_key"]
  /\ UNCHANGED <<pub, keys, generated, faults, touched>>

(* ... or not: it is created, and then filled.                             *)
CreateKey(p) ==
  /\ phase[p] = "look"
  /\ key[Current(p)] = Absent
  /\ key' = [key EXCEPT ![Current(p)] = Short]
  /\ unsynced' = unsynced \cup {<<Current(p), "key">>}
  /\ phase' = [phase EXCEPT ![p] = "write_key"]
  /\ UNCHANGED <<pub, keys, generated, faults, touched>>

(* The Rust save syncs the private key, the Python one does not.           *)
WriteKey(p) ==
  /\ phase[p] = "write_key"
  /\ generated < MaxKeys
  /\ generated' = generated + 1
  /\ key' = [key EXCEPT ![Current(p)] = generated + 1]
  /\ unsynced' = IF Lang[p] = "rust" THEN unsynced \ {<<Current(p), "key">>}
                 ELSE unsynced
  /\ phase' = [phase EXCEPT ![p] = "create_pub"]
  /\ UNCHANGED <<pub, keys, faults, touched>>

(* The companion public key: created or truncated, then filled.            *)
CreatePub(p) ==
  /\ phase[p] = "create_pub"
  /\ pub' = [pub EXCEPT ![Current(p)] = Short]
  /\ unsynced' = unsynced \cup {<<Current(p), "pub">>}
  /\ phase' = [phase EXCEPT ![p] = "write_pub"]
  /\ UNCHANGED <<key, keys, generated, faults, touched>>

WritePub(p) ==
  /\ phase[p] = "write_pub"
  /\ pub' = [pub EXCEPT ![Current(p)] = key[Current(p)]]
  /\ Seeded(p, key[Current(p)])
  /\ UNCHANGED <<key, unsynced, generated, faults, touched>>

(* The agent whose files process p has begun and not finished to write.    *)
HalfSeeded(p) ==
  IF phase[p] \in Seeding \ {"look"} THEN {Current(p)} ELSE {}

(* A read or a write fails: run returns the error, and the process ends.   *)
SeedError(p) ==
  /\ phase[p] \in Seeding /\ Fault
  /\ phase' = [phase EXCEPT ![p] = "down"]
  /\ touched' = touched \cup HalfSeeded(p)
  /\ UNCHANGED <<key, pub, unsynced, keys, generated>>

Seed(p) == LoadKey(p) \/ CreateKey(p) \/ WriteKey(p) \/ CreatePub(p) \/ WritePub(p)

-----------------------------------------------------------------------------
(* A process ends, and keeps no key; the files stay as they are.           *)
CrashKeys(p) ==
  /\ phase[p] \in Seeding \cup {"up"} /\ Fault
  /\ phase' = [phase EXCEPT ![p] = "down"]
  /\ keys' = [keys EXCEPT ![p] = <<>>]
  /\ touched' = touched \cup HalfSeeded(p)
  /\ UNCHANGED <<key, pub, unsynced, generated>>

(* The machine loses power: any file that was not synced may be damaged.   *)
Damaged(files, name, lost, left) ==
  [a \in Agent |-> IF <<a, name>> \in lost THEN left ELSE files[a]]

PowerLossKeys ==
  /\ Fault
  /\ \E lost \in SUBSET unsynced, left \in {Absent, Short} :
       /\ key' = Damaged(key, "key", lost, left)
       /\ pub' = Damaged(pub, "pub", lost, left)
       /\ touched' = touched \cup
            {a \in Agent : \/ \E p \in Process : a \in HalfSeeded(p)
                          \/ {<<a, "key">>, <<a, "pub">>} \cap lost # {}}
  /\ unsynced' = {}
  /\ phase' = [p \in Process |-> "down"]
  /\ keys' = [p \in Process |-> <<>>]
  /\ UNCHANGED generated

SyncFiles ==
  /\ unsynced' = {}
  /\ unsynced # {}
  /\ UNCHANGED <<key, pub, phase, keys, generated, faults, touched>>

(* An operator clears the directory of an agent that does not run.         *)
RemoveKeys(a) ==
  /\ \A p \in Process : (\E i \in DOMAIN Specs[p] : Specs[p][i].id = a) =>
       phase[p] \in {"down", "refused"}
  /\ key[a] # Absent /\ Fault
  /\ key' = [key EXCEPT ![a] = Absent]
  /\ pub' = [pub EXCEPT ![a] = Absent]
  /\ unsynced' = unsynced \ ({a} \X {"key", "pub"})
  /\ touched' = touched \cup {a}
  /\ UNCHANGED <<phase, keys, generated>>

KeyNext ==
  \/ \E p \in Process : Start(p) \/ Seed(p) \/ SeedError(p)
  \/ SyncFiles
  \/ \E a \in Agent : RemoveKeys(a)
===============================================================================
