------------------------------- MODULE BusProofs -------------------------------
(***************************************************************************)
(* Proofs about the key files and the bus: files that nothing damages hold *)
(* one key for ever, the one the agent signs with, and no message signed   *)
(* with it is dropped.  Then what a signature says, of any envelope: its   *)
(* canonical bytes are read back in one way.                               *)
(***************************************************************************)
EXTENDS BusProps, NaturalsInduction, WellFoundedInduction, TLAPS

Writing(p) == phase[p] \in Seeding \ {"look"}

Active(p) == phase[p] \in Seeding \cup {"up"}

KeyType ==
  /\ key \in [Agent -> File] /\ pub \in [Agent -> File]
  /\ phase \in [Process -> Seeding \cup {"down", "refused", "up"}]
  /\ keys \in [Process -> Seq(Key)]
  /\ generated \in 0 .. MaxKeys
  /\ unsynced \subseteq Agent \X {"key", "pub"}
  /\ touched \subseteq Agent

(* An active process has sound specs, and a key for each agent it is past. *)
Placed(p) ==
  /\ Active(p) => Valid(p)
  /\ phase[p] \in Seeding => Len(keys[p]) < Len(Specs[p])
  /\ phase[p] = "up" => Len(keys[p]) = Len(Specs[p])

(* The files of the agent that a process is at, while they are written.    *)
HalfOK(p) ==
  /\ phase[p] = "write_key" => key[Current(p)] = Short
  /\ phase[p] \in {"create_pub", "write_pub"} => key[Current(p)] \in Key
  /\ phase[p] \in {"write_key", "create_pub"} /\ Current(p) \notin touched
       => pub[Current(p)] = Absent
  /\ phase[p] = "write_pub" => pub[Current(p)] = Short

(* The keys that a process holds are those of the files.                   *)
HeldOK(p) ==
  Active(p) => \A i \in 1 .. Len(keys[p]) :
    Specs[p][i].id \notin touched =>
      key[Specs[p][i].id] = keys[p][i] /\ pub[Specs[p][i].id] = keys[p][i]

(* Files that nobody is writing and nothing damaged are both there or not. *)
WholeOK(a) ==
  \/ a \in touched
  \/ \E p \in Process : Writing(p) /\ Current(p) = a
  \/ key[a] = Absent /\ pub[a] = Absent
  \/ key[a] \in Key /\ pub[a] = key[a]

RefusedOK(p) == phase[p] = "refused" /\ Valid(p) => Hosted(p) \cap touched # {}

KeyInv ==
  /\ KeyType
  /\ \A p \in Process : Placed(p) /\ HalfOK(p) /\ HeldOK(p) /\ RefusedOK(p)
  /\ \A a \in Agent : WholeOK(a)

(* A public key that is there stays as it is, unless its agent is touched. *)
Steady ==
  /\ touched \subseteq touched'
  /\ \A a \in Agent \ touched' : IsKey(pub[a]) => pub'[a] = pub[a]

(* A private key that is there is kept or removed.                         *)
Kept == \A a \in Agent : IsKey(key[a]) => key'[a] \in {key[a], Absent}

-----------------------------------------------------------------------------
(* An element of a sequence is of the set that the sequence is over.       *)
LEMMA ElementTyped ==
  ASSUME NEW S, NEW s \in Seq(S), NEW n \in DOMAIN s
  PROVE  s[n] \in S
OBVIOUS

(* The agent that an active process is at is one of its own.               *)
LEMMA CurrentHosted ==
  ASSUME NEW p \in Process, KeyType, Len(keys[p]) < Len(Specs[p])
  PROVE  /\ Current(p) \in Agent
         /\ Current(p) \in Hosted(p)
         /\ Len(keys[p]) + 1 \in DOMAIN Specs[p]
<1> DEFINE Cities == {City[q] : q \in Process}
           spec == Specs[p][Len(keys[p]) + 1]
<1>1. Specs[p] \in Seq([id : Agent, city : Cities])
  BY SpecsAssumption
<1>2. Len(keys[p]) + 1 \in DOMAIN Specs[p]
  BY <1>1 DEF KeyType
<1> HIDE DEF Cities
<1>3. spec.id \in Agent
  <2>1. spec \in [id : Agent, city : Cities]
    BY <1>1, <1>2, ElementTyped
  <2> QED BY <2>1
<1> QED BY <1>2, <1>3 DEF Current, Hosted

(* The agents whose keys an active process holds.                          *)
LEMMA HeldTyped ==
  ASSUME NEW q \in Process, KeyType, Placed(q), Active(q), NEW i \in 1 .. Len(keys[q])
  PROVE  i \in DOMAIN Specs[q] /\ Specs[q][i].id \in Agent
<1> DEFINE Cities == {City[r] : r \in Process}
<1>1. Specs[q] \in Seq([id : Agent, city : Cities])
  BY SpecsAssumption
<1> HIDE DEF Cities
<1>2. i \in DOMAIN Specs[q]
  BY <1>1 DEF Placed, Active, KeyType
<1>3. Specs[q][i] \in [id : Agent, city : Cities]
  BY <1>1, <1>2, ElementTyped
<1> QED BY <1>2, <1>3

(* No process holds the key of an agent that a process is still at.        *)
LEMMA NotHeldYet ==
  ASSUME NEW p \in Process, NEW q \in Process, KeyType,
         Placed(p), Placed(q), phase[p] \in Seeding, Active(q),
         NEW i \in 1 .. Len(keys[q])
  PROVE  Specs[q][i].id # Current(p)
<1> SUFFICES ASSUME Specs[q][i].id = Current(p) PROVE FALSE
  OBVIOUS
<1>1. Len(keys[p]) + 1 \in DOMAIN Specs[p]
  BY CurrentHosted DEF Placed
<1>2. i \in DOMAIN Specs[q]
  BY HeldTyped
<1>3. p = q
  BY <1>1, <1>2, HostAssumption DEF Current
<1>4. i = Len(keys[p]) + 1
  BY <1>1, <1>2, <1>3 DEF Placed, Valid, Active, Current
<1> QED BY <1>3, <1>4 DEF KeyType

(* No two processes are at the same agent.                                 *)
LEMMA OneAtATime ==
  ASSUME NEW p \in Process, NEW q \in Process, KeyType, Placed(p), Placed(q),
         phase[p] \in Seeding, phase[q] \in Seeding, Current(p) = Current(q)
  PROVE  p = q
<1>1. /\ Len(keys[p]) + 1 \in DOMAIN Specs[p]
      /\ Len(keys[q]) + 1 \in DOMAIN Specs[q]
  BY CurrentHosted DEF Placed
<1> QED BY <1>1, HostAssumption DEF Current

-----------------------------------------------------------------------------
(* A process that writes a file of the agent it is at disturbs no other.   *)
LEMMA WriteStep ==
  ASSUME KeyInv, NEW p \in Process, phase[p] \in Seeding,
         NEW x \in Seeding \ {"look"}, phase' = [phase EXCEPT ![p] = x],
         UNCHANGED <<keys, touched>>, KeyType', HalfOK(p)',
         \A a \in Agent : a # Current(p) => key'[a] = key[a] /\ pub'[a] = pub[a]
  PROVE  KeyInv'
<1> USE DEF KeyInv
<1>1. \A q \in Process : Placed(q)'
  BY DEF Placed, Active, Valid, KeyType, Seeding
<1>2. \A q \in Process : Current(q)' = Current(q)
  BY DEF Current
<1>3. \A q \in Process : q # p /\ phase[q] \in Seeding =>
        Current(q) # Current(p) /\ Current(q) \in Agent
  BY OneAtATime, CurrentHosted DEF Placed
<1>4. \A q \in Process : q # p => HalfOK(q)'
  BY <1>2, <1>3 DEF HalfOK, KeyType, Seeding
<1>5. ASSUME NEW q \in Process PROVE HeldOK(q)'
  <2> SUFFICES ASSUME Active(q)', NEW i \in 1 .. Len(keys[q]),
                      Specs[q][i].id \notin touched
               PROVE  /\ key'[Specs[q][i].id] = keys[q][i]
                      /\ pub'[Specs[q][i].id] = keys[q][i]
    BY DEF HeldOK
  <2>1. Active(q)
    BY DEF Active, KeyType
  <2>2. Specs[q][i].id # Current(p)
    BY <2>1, NotHeldYet
  <2>3. Specs[q][i].id \in Agent
    BY <2>1, HeldTyped
  <2> QED BY <2>1, <2>2, <2>3 DEF HeldOK
<1>6. \A q \in Process : RefusedOK(q)'
  BY DEF RefusedOK, Valid, Hosted, KeyType, Seeding
<1>7. ASSUME NEW a \in Agent PROVE WholeOK(a)'
  <2>1. CASE a = Current(p)
    BY <2>1, <1>2 DEF WholeOK, Writing, KeyType
  <2>2. CASE a # Current(p)
    BY <2>2, <1>2 DEF WholeOK, Writing, KeyType
  <2> QED BY <2>1, <2>2
<1> QED BY <1>1, <1>4, <1>5, <1>6, <1>7

(* A process that has the key of the agent it was at goes on to the next.  *)
LEMMA SeededStep ==
  ASSUME KeyInv, NEW p \in Process, phase[p] \in Seeding,
         NEW k \in Key, Seeded(p, k), UNCHANGED <<touched, generated, unsynced>>,
         key' = key, pub' \in [Agent -> File], key[Current(p)] = k,
         Current(p) \notin touched => pub'[Current(p)] = k,
         \A a \in Agent : a # Current(p) => pub'[a] = pub[a]
  PROVE  KeyInv'
<1> USE DEF KeyInv
<1> DEFINE c == Current(p)
<1>0. Placed(p) /\ Len(keys[p]) < Len(Specs[p]) /\ c \in Agent
  BY CurrentHosted DEF Placed
<1>1. KeyType'
  BY DEF KeyType, Seeded, Seeding
<1>2. /\ keys'[p] = Append(keys[p], k)
      /\ \A q \in Process : q # p => keys'[q] = keys[q] /\ phase'[q] = phase[q]
      /\ phase'[p] \in {"up", "look"}
      /\ phase'[p] = "up" <=> Len(keys[p]) + 1 = Len(Specs[p])
  BY DEF KeyType, Seeded
<1>3. \A q \in Process : q # p => Current(q)' = Current(q)
  BY <1>2 DEF Current
<1>4. Placed(p)'
  <2>1. Valid(p)
    BY <1>0 DEF Placed, Active
  <2>2. Len(keys'[p]) = Len(keys[p]) + 1
    BY <1>2 DEF KeyType
  <2>3. Specs[p] \in Seq([id : Agent, city : {City[q] : q \in Process}])
    BY SpecsAssumption
  <2>4. Len(Specs[p]) \in Nat /\ Len(keys[p]) \in Nat
    BY <2>3 DEF KeyType
  <2> QED BY <1>0, <1>2, <2>1, <2>2, <2>4 DEF Placed, Valid, Seeding
<1>5. \A q \in Process : q # p => Placed(q)'
  BY <1>2 DEF Placed, Active, Valid
<1>6. \A q \in Process : q # p /\ phase[q] \in Seeding => Current(q) # c
  BY OneAtATime
<1>7. ASSUME NEW q \in Process PROVE HalfOK(q)'
  <2>1. CASE q = p
    BY <2>1, <1>2 DEF HalfOK
  <2>2. CASE q # p /\ phase[q] \in Seeding
    <3>1. Current(q) \in Agent
      BY <2>2, CurrentHosted DEF Placed
    <3> QED BY <2>2, <3>1, <1>2, <1>3, <1>6 DEF HalfOK
  <2>3. CASE q # p /\ phase[q] \notin Seeding
    BY <2>3, <1>2 DEF HalfOK, Seeding
  <2> QED BY <2>1, <2>2, <2>3
<1>8. ASSUME NEW q \in Process PROVE HeldOK(q)'
  <2> SUFFICES ASSUME Active(q)', NEW i \in 1 .. Len(keys'[q]),
                      Specs[q][i].id \notin touched
               PROVE  /\ key[Specs[q][i].id] = keys'[q][i]
                      /\ pub'[Specs[q][i].id] = keys'[q][i]
    BY DEF HeldOK
  <2>1. Active(q)
    BY <1>2 DEF Active
  <2>2. CASE i \in 1 .. Len(keys[q])
    <3>1. Specs[q][i].id # c /\ Specs[q][i].id \in Agent
      BY <2>1, <2>2, NotHeldYet, HeldTyped
    <3>2. keys'[q][i] = keys[q][i]
      <4>1. keys[q] \in Seq(Key)
        BY DEF KeyType
      <4>2. Append(keys[q], k)[i] = keys[q][i]
        BY <2>2, <4>1
      <4> QED BY <1>2, <4>2
    <3> QED BY <2>1, <2>2, <3>1, <3>2 DEF HeldOK
  <2>3. CASE i \notin 1 .. Len(keys[q])
    <3>1. q = p
      <4>1. q # p => keys'[q] = keys[q]
        BY <1>2
      <4>2. i \in 1 .. Len(keys'[q])
        OBVIOUS
      <4> QED BY <2>3, <4>1, <4>2
    <3>2. keys[p] \in Seq(Key) /\ keys'[p] = Append(keys[p], k)
      BY <1>2 DEF KeyType
    <3>3. i = Len(keys[p]) + 1
      BY <2>3, <3>1, <3>2
    <3>4. keys'[p][i] = k
      BY <3>2, <3>3
    <3>5. Specs[q][i].id = c
      BY <3>1, <3>3 DEF Current
    <3> QED BY <3>1, <3>4, <3>5
  <2> QED BY <2>2, <2>3
<1>9. \A q \in Process : RefusedOK(q)'
  BY <1>2 DEF RefusedOK, Valid, Hosted
<1>10. ASSUME NEW a \in Agent PROVE WholeOK(a)'
  <2>1. CASE a = c
    BY <2>1 DEF WholeOK
  <2>2. CASE a # c
    BY <2>2, <1>2, <1>3 DEF WholeOK, Writing
  <2> QED BY <2>1, <2>2
<1> QED BY <1>1, <1>4, <1>5, <1>7, <1>8, <1>9, <1>10

(* A process that stops leaves nothing half written, or says so.           *)
LEMMA StopStep ==
  ASSUME KeyInv, NEW p \in Process, NEW x \in {"down", "refused"},
         phase' = [phase EXCEPT ![p] = x], KeyType', UNCHANGED <<key, pub>>,
         touched \subseteq touched', HalfSeeded(p) \subseteq touched',
         \A q \in Process : q # p => keys'[q] = keys[q], RefusedOK(p)'
  PROVE  KeyInv'
<1> USE DEF KeyInv
<1>1. /\ \A q \in Process : q # p => phase'[q] = phase[q] /\ Current(q)' = Current(q)
      /\ phase'[p] \notin Seeding \cup {"up"}
  BY DEF KeyType, Current, Seeding
<1>2. \A q \in Process : Placed(q)' /\ HalfOK(q)'
  BY <1>1 DEF Placed, Active, Valid, HalfOK, Seeding
<1>3. \A q \in Process : HeldOK(q)'
  BY <1>1 DEF HeldOK, Active
<1>4. \A q \in Process : q # p => RefusedOK(q)'
  BY <1>1 DEF RefusedOK, Valid, Hosted
<1>5. ASSUME NEW a \in Agent PROVE WholeOK(a)'
  <2>1. CASE Writing(p) /\ Current(p) = a
    BY <2>1 DEF WholeOK, HalfSeeded, Writing
  <2>2. CASE ~(Writing(p) /\ Current(p) = a)
    BY <2>2, <1>1 DEF WholeOK, Writing
  <2> QED BY <2>1, <2>2
<1> QED BY <1>2, <1>3, <1>4, <1>5

-----------------------------------------------------------------------------
(* The steps, one by one.                                                  *)
LEMMA FilesDiffer ==
  /\ Absent \notin Key /\ Short \notin Key /\ Absent # Short
  /\ \A file \in File : IsKey(file) <=> file \in Key
BY FileAssumption DEF File, Key, IsKey

(* Start opens no file: its specs are sound, or it is refused for them.    *)
LEMMA StartStep ==
  ASSUME KeyInv, NEW p \in Process, Start(p)
  PROVE  KeyInv' /\ Steady /\ Kept
<1> USE DEF KeyInv
<1>1. /\ phase'[p] = IF Valid(p) THEN "look" ELSE "refused"
      /\ keys'[p] = <<>> /\ phase[p] \in {"down", "refused"}
      /\ \A q \in Process : q # p =>
           /\ phase'[q] = phase[q] /\ keys'[q] = keys[q] /\ Current(q)' = Current(q)
  BY DEF Start, KeyType, Current
<1>2. KeyType'
  BY DEF Start, KeyType, Seeding
<1>3. Placed(p)'
  <2>1. Specs[p] \in Seq([id : Agent, city : {City[q] : q \in Process}]) /\ Specs[p] # <<>>
    BY SpecsAssumption
  <2>2. Len(<<>>) < Len(Specs[p])
    BY <2>1
  <2> QED BY <1>1, <2>2 DEF Placed, Active, Valid, Seeding
<1>4. \A q \in Process : q # p => Placed(q)'
  BY <1>1 DEF Placed, Active, Valid
<1>5. \A q \in Process : HalfOK(q)'
  BY <1>1 DEF Start, HalfOK
<1>6. \A q \in Process : HeldOK(q)'
  <2>1. HeldOK(p)'
    BY <1>1 DEF HeldOK
  <2> QED BY <1>1, <2>1 DEF Start, HeldOK, Active
<1>7. \A q \in Process : RefusedOK(q)'
  BY <1>1 DEF Start, RefusedOK, Valid, Hosted
<1>8. \A a \in Agent : WholeOK(a)'
  BY <1>1 DEF Start, WholeOK, Writing, Seeding
<1>9. Steady /\ Kept
  BY DEF Start, Steady, Kept
<1> QED BY <1>2, <1>3, <1>4, <1>5, <1>6, <1>7, <1>8, <1>9

(* A key that is loaded is the one in the file; a short one is refused.    *)
LEMMA LoadKeyStep ==
  ASSUME KeyInv, NEW p \in Process, LoadKey(p)
  PROVE  KeyInv' /\ Steady /\ Kept
<1> DEFINE c == Current(p)
<1>1. phase[p] = "look" /\ phase[p] \in Seeding /\ Placed(p) /\ KeyType
  BY DEF LoadKey, KeyInv, Seeding
<1>2. c \in Agent /\ c \in Hosted(p) /\ key[c] \in File /\ key[c] # Absent
  BY <1>1, CurrentHosted DEF Placed, LoadKey, KeyType
<1>3. \A q \in Process : ~(Writing(q) /\ Current(q) = c)
  BY <1>1, OneAtATime DEF Writing, KeyInv
<1>4. c \notin touched => key[c] \in Key /\ pub[c] = key[c]
  BY <1>2, <1>3 DEF KeyInv, WholeOK
<1>5. Steady /\ Kept
  BY DEF LoadKey, Steady, Kept
<1>6. CASE key[c] = Short
  <2>1. c \in touched
    BY <1>4, <1>6, FilesDiffer
  <2>2. Hosted(p)' = Hosted(p) /\ Valid(p)' = Valid(p)
    BY DEF Hosted, Valid
  <2>3. RefusedOK(p)'
    BY <1>2, <2>1, <2>2 DEF RefusedOK, LoadKey
  <2>4. KeyType'
    BY <1>1, <1>6 DEF LoadKey, KeyType, Refuse
  <2> QED BY <1>1, <1>5, <1>6, <2>3, <2>4, StopStep DEF LoadKey, Refuse, HalfSeeded
<1>7. CASE key[c] # Short
  <2>1. key[c] \in Key
    BY <1>2, <1>7 DEF File
  <2>2. pub' \in [Agent -> File]
    BY <1>1 DEF LoadKey, KeyType
  <2> QED BY <1>1, <1>4, <1>5, <1>7, <2>1, <2>2, SeededStep DEF LoadKey
<1> QED BY <1>6, <1>7

(* A private key is created only where there is none, so no one holds it.  *)
LEMMA CreateKeyStep ==
  ASSUME KeyInv, NEW p \in Process, CreateKey(p)
  PROVE  KeyInv' /\ Steady /\ Kept
<1> DEFINE c == Current(p)
<1>1. phase[p] = "look" /\ phase[p] \in Seeding /\ Placed(p) /\ KeyType
  BY DEF CreateKey, KeyInv, Seeding
<1>2. c \in Agent /\ key[c] = Absent
  BY <1>1, CurrentHosted DEF Placed, CreateKey
<1>3. \A q \in Process : ~(Writing(q) /\ Current(q) = c)
  BY <1>1, OneAtATime DEF Writing, KeyInv
<1>4. c \notin touched => pub[c] = Absent
  BY <1>2, <1>3, FilesDiffer DEF KeyInv, WholeOK
<1>5. KeyType'
  BY <1>1, <1>2 DEF CreateKey, KeyType, File, Seeding
<1>6. HalfOK(p)'
  BY <1>1, <1>2, <1>4 DEF CreateKey, HalfOK, Current, KeyType
<1>7. Steady /\ Kept
  BY <1>2, <1>1 DEF CreateKey, Steady, Kept, IsKey, KeyType
<1>8. \A a \in Agent : a # c => key'[a] = key[a] /\ pub'[a] = pub[a]
  BY <1>1 DEF CreateKey, KeyType
<1> QED BY <1>1, <1>5, <1>6, <1>7, <1>8, WriteStep DEF CreateKey, Seeding

(* The key is written over the short file that was created for it.         *)
LEMMA WriteKeyStep ==
  ASSUME KeyInv, NEW p \in Process, WriteKey(p)
  PROVE  KeyInv' /\ Steady /\ Kept
<1> DEFINE c == Current(p)
<1>1. phase[p] = "write_key" /\ phase[p] \in Seeding /\ Placed(p) /\ KeyType /\ HalfOK(p)
  BY DEF WriteKey, KeyInv, Seeding
<1>2. c \in Agent /\ key[c] = Short /\ (c \notin touched => pub[c] = Absent)
  BY <1>1, CurrentHosted DEF Placed, HalfOK
<1>3. generated + 1 \in Key
  BY <1>1, FileAssumption DEF WriteKey, KeyType, Key
<1>4. KeyType'
  <2>1. key' \in [Agent -> File]
    BY <1>1, <1>3 DEF WriteKey, KeyType, File
  <2>2. phase' \in [Process -> Seeding \cup {"down", "refused", "up"}]
    BY <1>1 DEF WriteKey, KeyType, Seeding
  <2>3. generated' \in 0 .. MaxKeys
    BY <1>3 DEF WriteKey, Key
  <2> QED BY <1>1, <2>1, <2>2, <2>3 DEF WriteKey, KeyType
<1>5. HalfOK(p)'
  BY <1>1, <1>2, <1>3 DEF WriteKey, HalfOK, Current, KeyType
<1>6. Steady /\ Kept
  BY <1>1, <1>2 DEF WriteKey, Steady, Kept, IsKey, KeyType
<1>7. \A a \in Agent : a # c => key'[a] = key[a] /\ pub'[a] = pub[a]
  BY <1>1 DEF WriteKey, KeyType
<1> QED BY <1>1, <1>4, <1>5, <1>6, <1>7, WriteStep DEF WriteKey, Seeding

(* The public half is created where there was none.                        *)
LEMMA CreatePubStep ==
  ASSUME KeyInv, NEW p \in Process, CreatePub(p)
  PROVE  KeyInv' /\ Steady /\ Kept
<1> DEFINE c == Current(p)
<1>1. phase[p] = "create_pub" /\ phase[p] \in Seeding /\ Placed(p) /\ KeyType /\ HalfOK(p)
  BY DEF CreatePub, KeyInv, Seeding
<1>2. c \in Agent /\ key[c] \in Key /\ (c \notin touched => pub[c] = Absent)
  BY <1>1, CurrentHosted DEF Placed, HalfOK
<1>3. KeyType'
  BY <1>1, <1>2 DEF CreatePub, KeyType, File, Seeding
<1>4. HalfOK(p)'
  BY <1>1, <1>2 DEF CreatePub, HalfOK, Current, KeyType
<1>5. Steady /\ Kept
  BY <1>1, <1>2 DEF CreatePub, Steady, Kept, IsKey, KeyType
<1>6. \A a \in Agent : a # c => key'[a] = key[a] /\ pub'[a] = pub[a]
  BY <1>1 DEF CreatePub, KeyType
<1> QED BY <1>1, <1>3, <1>4, <1>5, <1>6, WriteStep DEF CreatePub, Seeding

(* Once the public half is written, both files hold the one key.           *)
LEMMA WritePubStep ==
  ASSUME KeyInv, NEW p \in Process, WritePub(p)
  PROVE  KeyInv' /\ Steady /\ Kept
<1> DEFINE c == Current(p)
<1>1. phase[p] = "write_pub" /\ phase[p] \in Seeding /\ Placed(p) /\ KeyType /\ HalfOK(p)
  BY DEF WritePub, KeyInv, Seeding
<1>2. c \in Agent /\ key[c] \in Key /\ pub[c] = Short
  BY <1>1, CurrentHosted DEF Placed, HalfOK
<1>3. pub' \in [Agent -> File] /\ pub'[c] = key[c]
  BY <1>1, <1>2 DEF WritePub, KeyType, File
<1>4. \A a \in Agent : a # c => pub'[a] = pub[a]
  BY <1>1 DEF WritePub, KeyType
<1>5. Steady /\ Kept
  BY <1>1, <1>2, <1>4 DEF WritePub, Steady, Kept, IsKey
<1> QED BY <1>1, <1>2, <1>3, <1>4, <1>5, SeededStep DEF WritePub

(* An error leaves at most the files of one agent half written.            *)
LEMMA SeedErrorStep ==
  ASSUME KeyInv, NEW p \in Process, SeedError(p)
  PROVE  KeyInv' /\ Steady /\ Kept
<1>1. KeyType /\ (phase[p] \in Seeding => Placed(p) /\ Len(keys[p]) < Len(Specs[p]))
  BY DEF KeyInv, Placed
<1>2. HalfSeeded(p) \subseteq Agent
  BY <1>1, CurrentHosted DEF HalfSeeded
<1>3. KeyType'
  BY <1>1, <1>2 DEF SeedError, KeyType, Fault
<1>4. RefusedOK(p)'
  BY <1>1 DEF SeedError, RefusedOK, KeyType
<1>5. Steady /\ Kept
  BY DEF SeedError, Steady, Kept
<1> QED BY <1>3, <1>4, <1>5, StopStep DEF SeedError

(* So does the end of a process.                                           *)
LEMMA CrashKeysStep ==
  ASSUME KeyInv, NEW p \in Process, CrashKeys(p)
  PROVE  KeyInv' /\ Steady /\ Kept
<1>1. KeyType /\ (phase[p] \in Seeding => Placed(p) /\ Len(keys[p]) < Len(Specs[p]))
  BY DEF KeyInv, Placed
<1>2. HalfSeeded(p) \subseteq Agent
  BY <1>1, CurrentHosted DEF HalfSeeded
<1>3. KeyType'
  BY <1>1, <1>2 DEF CrashKeys, KeyType, Fault
<1>4. RefusedOK(p)'
  BY <1>1 DEF CrashKeys, RefusedOK, KeyType
<1>5. Steady /\ Kept
  BY DEF CrashKeys, Steady, Kept
<1>6. \A q \in Process : q # p => keys'[q] = keys[q]
  BY <1>1 DEF CrashKeys, KeyType
<1> QED BY <1>3, <1>4, <1>5, <1>6, StopStep DEF CrashKeys

(* Only the files of an agent that does not run are removed.               *)
LEMMA RemoveKeysStep ==
  ASSUME KeyInv, NEW a \in Agent, RemoveKeys(a)
  PROVE  KeyInv' /\ Steady /\ Kept
<1> USE DEF KeyInv
<1>1. KeyType'
  BY DEF RemoveKeys, KeyType, File
<1>2. \A b \in Agent : b # a => key'[b] = key[b] /\ pub'[b] = pub[b]
  BY DEF RemoveKeys, KeyType
<1>3. a \in touched' /\ touched \subseteq touched'
  BY DEF RemoveKeys
<1>4. \A q \in Process : Placed(q)' /\ RefusedOK(q)' /\ Current(q)' = Current(q)
  BY DEF RemoveKeys, Placed, Active, Valid, RefusedOK, Hosted, Current
<1>5. \A q \in Process : phase[q] \in Seeding => Current(q) # a /\ Current(q) \in Agent
  BY CurrentHosted DEF RemoveKeys, Hosted, Seeding, Placed
<1>6. \A q \in Process : HalfOK(q)'
  BY <1>2, <1>3, <1>4, <1>5 DEF HalfOK, RemoveKeys, Seeding
<1>7. ASSUME NEW q \in Process PROVE HeldOK(q)'
  <2> SUFFICES ASSUME Active(q), NEW i \in 1 .. Len(keys[q]),
                      Specs[q][i].id \notin touched'
               PROVE  /\ key'[Specs[q][i].id] = keys[q][i]
                      /\ pub'[Specs[q][i].id] = keys[q][i]
    BY DEF HeldOK, Active, RemoveKeys
  <2>1. Specs[q][i].id \in Agent /\ Specs[q][i].id # a
    BY <1>3, HeldTyped
  <2> QED BY <1>2, <1>3, <2>1 DEF HeldOK
<1>8. \A b \in Agent : WholeOK(b)'
  BY <1>2, <1>3, <1>4 DEF WholeOK, Writing, RemoveKeys
<1>9. Steady /\ Kept
  BY <1>2, <1>3 DEF Steady, Kept, RemoveKeys, KeyType
<1> QED BY <1>1, <1>4, <1>6, <1>7, <1>8, <1>9

(* A power loss damages the files of touched agents and ends all.          *)
LEMMA PowerLossStep ==
  ASSUME KeyInv, PowerLossKeys
  PROVE  KeyInv' /\ Steady
<1> USE DEF KeyInv
<1>1. PICK lost \in SUBSET unsynced, left \in {Absent, Short} :
        /\ key' = Damaged(key, "key", lost, left)
        /\ pub' = Damaged(pub, "pub", lost, left)
        /\ touched' = touched \cup
             {a \in Agent : \/ \E p \in Process : a \in HalfSeeded(p)
                           \/ {<<a, "key">>, <<a, "pub">>} \cap lost # {}}
  BY DEF PowerLossKeys
<1>2. KeyType'
  <2>1. key' \in [Agent -> File] /\ pub' \in [Agent -> File]
    BY <1>1 DEF Damaged, KeyType, File
  <2>2. touched' \subseteq Agent
    BY <1>1 DEF KeyType
  <2>3. keys' \in [Process -> Seq(Key)]
    BY DEF PowerLossKeys
  <2> QED BY <2>1, <2>2, <2>3 DEF PowerLossKeys, KeyType
<1>3. \A q \in Process : Placed(q)' /\ HalfOK(q)' /\ HeldOK(q)' /\ RefusedOK(q)'
  BY DEF PowerLossKeys, Placed, HalfOK, HeldOK, RefusedOK, Active, Seeding
<1>4. ASSUME NEW a \in Agent, a \notin touched'
      PROVE  key'[a] = key[a] /\ pub'[a] = pub[a] /\ a \notin touched
             /\ \A p \in Process : ~(Writing(p) /\ Current(p) = a)
  <2>1. <<a, "key">> \notin lost /\ <<a, "pub">> \notin lost
    BY <1>1, <1>4
  <2>2. key'[a] = key[a] /\ pub'[a] = pub[a]
    BY <1>1, <2>1 DEF Damaged
  <2>3. \A p \in Process : a \notin HalfSeeded(p)
    BY <1>1, <1>4
  <2> QED BY <1>4, <1>1, <2>2, <2>3 DEF HalfSeeded, Writing
<1>5. \A a \in Agent : WholeOK(a)'
  BY <1>4 DEF WholeOK
<1>6. Steady
  BY <1>1, <1>4 DEF Steady
<1> QED BY <1>2, <1>3, <1>5, <1>6

(* A step that only syncs files, or none.                                  *)
LEMMA SyncFilesStep ==
  ASSUME KeyInv, unsynced' \subseteq unsynced,
         UNCHANGED <<key, pub, phase, keys, generated, touched>>
  PROVE  KeyInv' /\ Steady /\ Kept
<1>1. KeyType'
  BY DEF KeyInv, KeyType
<1>2. \A p \in Process : Placed(p)' /\ HalfOK(p)' /\ HeldOK(p)' /\ RefusedOK(p)'
  BY DEF KeyInv, Placed, HalfOK, HeldOK, RefusedOK, Active, Current, Valid, Hosted
<1>3. \A a \in Agent : WholeOK(a)'
  BY DEF KeyInv, WholeOK, Writing, Current
<1>4. Steady /\ Kept
  BY DEF Steady, Kept
<1> QED BY <1>1, <1>2, <1>3, <1>4 DEF KeyInv

(* At first there is no file and no process.                               *)
LEMMA KeyInitInv == KeyInit => KeyInv
<1> SUFFICES ASSUME KeyInit PROVE KeyInv
  OBVIOUS
<1>1. KeyType
  BY FileAssumption DEF KeyInit, KeyType, File, Key, Seeding
<1>2. \A p \in Process : Placed(p) /\ HalfOK(p) /\ HeldOK(p) /\ RefusedOK(p)
  BY DEF KeyInit, Placed, HalfOK, HeldOK, RefusedOK, Active, Seeding
<1>3. \A a \in Agent : WholeOK(a)
  BY DEF KeyInit, WholeOK
<1> QED BY <1>1, <1>2, <1>3 DEF KeyInv

(* Every step of the bus, by what it does to the files.                    *)
LEMMA FileSteps ==
  ASSUME KeyInv, [Next]_vars
  PROVE  KeyInv' /\ Steady /\ (PowerLoss \/ Kept)
<1>1. CASE UNCHANGED keyVars
  BY <1>1, SyncFilesStep DEF keyVars
<1>2. CASE KeyNext
  <2>1. ASSUME NEW p \in Process, Start(p) PROVE KeyInv' /\ Steady /\ Kept
    BY <2>1, StartStep
  <2>2. ASSUME NEW p \in Process, Seed(p) PROVE KeyInv' /\ Steady /\ Kept
    BY <2>2, LoadKeyStep, CreateKeyStep, WriteKeyStep, CreatePubStep, WritePubStep DEF Seed
  <2>3. ASSUME NEW p \in Process, SeedError(p) PROVE KeyInv' /\ Steady /\ Kept
    BY <2>3, SeedErrorStep
  <2>4. ASSUME SyncFiles PROVE KeyInv' /\ Steady /\ Kept
    BY <2>4, SyncFilesStep DEF SyncFiles
  <2>5. ASSUME NEW a \in Agent, RemoveKeys(a) PROVE KeyInv' /\ Steady /\ Kept
    BY <2>5, RemoveKeysStep
  <2> QED BY <1>2, <2>1, <2>2, <2>3, <2>4, <2>5 DEF KeyNext
<1>3. ASSUME NEW p \in Process, Crash(p) PROVE KeyInv' /\ Steady /\ Kept
  BY <1>3, CrashKeysStep DEF Crash
<1>4. CASE PowerLoss
  BY <1>4, PowerLossStep DEF PowerLoss
<1>5. CASE ~KeyNext /\ ~PowerLoss /\ (\A p \in Process : ~Crash(p))
  BY <1>1, <1>5 DEF Next, vars, Publish, Unsubscribe, Subscribe, Receive
<1> QED BY <1>2, <1>3, <1>4, <1>5

(* The inductive invariant of the key files.                               *)
THEOREM KeyFilesInvariant == Spec => []KeyInv
<1>1. Init => KeyInv
  BY KeyInitInv DEF Init
<1>2. KeyInv /\ [Next]_vars => KeyInv'
  BY FileSteps
<1> QED BY <1>1, <1>2, PTL DEF Spec

(* The key an agent signs with is the one its files hold.                  *)
LEMMA ClientKeyOfFiles ==
  ASSUME KeyInv, NEW a \in Agent, NEW place \in Places, Running(a, place)
  PROVE  /\ ClientKey(place) \in Key
         /\ a \notin touched => pub[a] = ClientKey(place) /\ key[a] = ClientKey(place)
<1>1. PICK p \in Process : place \in {p} \X DOMAIN Specs[p]
  BY DEF Places
<1>2. place[1] = p /\ place[2] \in DOMAIN Specs[p]
  BY <1>1
<1>3. phase[p] = "up" /\ Specs[p][place[2]].id = a
  BY <1>2 DEF Running
<1>4. Placed(p) /\ HeldOK(p) /\ keys[p] \in Seq(Key)
  BY DEF KeyInv, KeyType
<1>5. DOMAIN Specs[p] = 1 .. Len(Specs[p])
  <2> DEFINE Sound == [id : Agent, city : {City[q] : q \in Process}]
  <2>1. Specs[p] \in Seq(Sound)
    BY SpecsAssumption
  <2> HIDE DEF Sound
  <2> QED BY <2>1
<1>6. place[2] \in 1 .. Len(keys[p])
  BY <1>2, <1>3, <1>4, <1>5 DEF Placed
<1>7. keys[p][place[2]] \in Key
  BY <1>4, <1>6
<1> QED BY <1>2, <1>3, <1>4, <1>6, <1>7 DEF ClientKey, HeldOK, Active

(* While an agent runs, both its files hold the key it signs with, unless  *)
(* they were damaged or removed (supervisor.rs, seed_keys).                *)
THEOREM FilesKeepKey == Spec => []KeysAgree
<1>1. KeyInv => KeysAgree
  BY ClientKeyOfFiles DEF KeysAgree
<1> QED BY <1>1, KeyFilesInvariant, PTL

(* No start of any process replaces a private key (signing.rs:            *)
(* load_or_generate).                                                      *)
THEOREM IdentityKept == Spec => IdentityLasts
<1>1. KeyInv /\ [Next]_vars =>
        [PowerLoss \/ \A a \in Agent : IsKey(key[a]) => key'[a] \in {key[a], Absent}]_vars
  BY FileSteps DEF Kept
<1> QED BY <1>1, KeyFilesInvariant, PTL DEF Spec, IdentityLasts

(* A sound process is refused only over files that were damaged or removed *)
(* (signing.rs:89).                                                        *)
THEOREM RefusalHasCause == Spec => []RefusalExplained
<1>1. KeyInv => RefusalExplained
  BY DEF KeyInv, RefusalExplained, RefusedOK
<1> QED BY <1>1, KeyFilesInvariant, PTL

-----------------------------------------------------------------------------
(* What is signed with a key verifies with it, in either language: the two *)
(* canonicalizers agree on the envelopes that publish builds, and the      *)
(* signature itself is not signed.                                         *)
LEMMA SignedVerifies ==
  ASSUME NEW id, NEW agent, NEW city, NEW topic, NEW type \in Nat, NEW payload,
         NEW time, NEW opts, opts.priority \in Nat,
         NEW lang, NEW by, NEW k, NEW random, Len(random) = NonceLength,
         NEW m,
         m = SignEnvelope(by, Build(id, agent, city, topic, type, payload, time, opts), k, random)
  PROVE  m.source_agent_id = agent /\ VerifyEnvelope(lang, m, k)
<1> DEFINE e == Build(id, agent, city, topic, type, payload, time, opts)
           With(signature) ==
             [message_id         |-> id,
              correlation_id     |-> opts.correlation_id,
              source_agent_id    |-> agent,
              source_city        |-> city,
              target_topic       |-> topic,
              timestamp          |-> <<time>>,
              priority           |-> opts.priority,
              type               |-> type,
              payload            |-> payload,
              causal_message_ids |-> opts.causal_links,
              schema_version     |-> opts.schema_version,
              nonce              |-> random,
              signature          |-> signature]
           over == CanonicalBy(by, With(Unsigned))
           signed == With(<<[by |-> k, over |-> over]>>)
<1>1. SignEnvelope(by, e, k, random) = signed
  <2>1. e.nonce = <<>>
    BY DEF Build
  <2>2. [e EXCEPT !.nonce = random] = With(Unsigned)
    BY DEF Build
  <2>3. \A signature : [With(Unsigned) EXCEPT !.signature = signature] = With(signature)
    OBVIOUS
  <2> HIDE DEF e, With
  <2>4. SignEnvelope(by, e, k, random)
          = [With(Unsigned) EXCEPT !.signature = <<[by |-> k, over |-> over]>>]
    BY <2>1, <2>2, Zenon DEF SignEnvelope
  <2> QED BY <2>3, <2>4, Zenon
<1>2. ASSUME NEW signature
      PROVE  Canonical(With(signature)) = PyCanonical(With(signature))
  <2>1. \A field : \A n \in Nat : PyEnum(field, n) = Scalar(field, n)
    BY DEF PyEnum
  <2>2. Optional(6, <<time>>) = PyOptional(6, PyFieldsOf(With(signature)))
    BY DEF Optional, PyOptional, PyFieldsOf, PyTimestamp, CanonicalTimestamp
  <2>3. PICK f : f = With(signature)
    OBVIOUS
  <2>4. f.priority = opts.priority /\ f.type = type /\ f.timestamp = <<time>>
    BY <2>3
  <2>5. PyEnum(7, f.priority) = Scalar(7, f.priority) /\ PyEnum(8, f.type) = Scalar(8, f.type)
    BY Zenon, <2>1, <2>4
  <2>6. Optional(6, f.timestamp) = PyOptional(6, PyFieldsOf(f))
    BY Zenon, <2>2, <2>3, <2>4
  <2>7. Canonical(f) = PyCanonical(f)
    BY Zenon, <2>5, <2>6 DEF Canonical, PyCanonical
  <2> QED BY Zenon, <2>3, <2>7
<1>3. ASSUME NEW signature
      PROVE  Canonical(With(signature)) = Canonical(With(Unsigned))
  BY DEF Canonical
<1>4. CanonicalBy(lang, signed) = over
  BY <1>2, <1>3, Zenon DEF CanonicalBy
<1>5. signed.source_agent_id = agent /\ signed.nonce = random
      /\ signed.signature = <<[by |-> k, over |-> over]>>
  OBVIOUS
<1> HIDE DEF signed, over
<1>6. VerifyEnvelope(lang, signed, k)
  BY <1>4, <1>5 DEF VerifyEnvelope, Unsigned
<1>7. m = signed
  BY Zenon, <1>1 DEF e
<1> QED BY <1>5, <1>6, <1>7

-----------------------------------------------------------------------------
(* A message on its way verifies with the public key file of its agent,    *)
(* whichever language the subscriber is written in.                        *)
MailOK(e) ==
  /\ e.source_agent_id \in Agent
  /\ e.source_agent_id \notin touched =>
       /\ IsKey(pub[e.source_agent_id])
       /\ \A lang : VerifyEnvelope(lang, e, pub[e.source_agent_id])

InboxOK(s) == \E S : inbox[s] \in Seq(S) /\ \A e \in S : MailOK(e)

(* A key that a registry has read is the one of the file.                  *)
CacheOK(s) ==
  \A a \in Agent \ touched :
    cache[s][a] # Absent => IsKey(pub[a]) /\ cache[s][a] = pub[a]

MailInv ==
  /\ DOMAIN inbox = Subscriber
  /\ cache \in [Subscriber -> [Agent -> Key \cup {Absent}]]
  /\ \A s \in Subscriber : InboxOK(s) /\ CacheOK(s)
  /\ DropsExplained

(* A message and a cache that are sound remain so while the files are      *)
(* steady.                                                                 *)
LEMMA MailKept ==
  ASSUME KeyInv, Steady, NEW e, MailOK(e)
  PROVE  MailOK(e)'
BY DEF MailOK, Steady, VerifyEnvelope

(* A message on its way still verifies while the files are steady.         *)
LEMMA InboxKept ==
  ASSUME KeyInv, Steady, NEW s \in Subscriber, InboxOK(s), inbox'[s] \in {inbox[s], <<>>}
  PROVE  InboxOK(s)'
<1>1. PICK S : inbox[s] \in Seq(S) /\ \A e \in S : MailOK(e)
  BY DEF InboxOK
<1>2. inbox'[s] \in Seq(S)
  <2>1. CASE inbox'[s] = inbox[s]
    BY <1>1, <2>1
  <2>2. CASE inbox'[s] = <<>>
    BY <2>2
  <2> QED BY <2>1, <2>2
<1>3. \A e \in S : MailOK(e)'
  BY <1>1, MailKept
<1> QED BY <1>2, <1>3 DEF InboxOK

(* A cached key is still the one in the file while the files are steady.   *)
LEMMA CacheKept ==
  ASSUME Steady, NEW s \in Subscriber, CacheOK(s), cache'[s] = cache[s]
  PROVE  CacheOK(s)'
BY DEF CacheOK, Steady, IsKey

(* A step that hands on no message and reads no key.                       *)
LEMMA MailStep ==
  ASSUME KeyInv, MailInv, Steady, UNCHANGED <<cache, dropped>>,
         DOMAIN inbox' = Subscriber,
         \A s \in Subscriber : inbox'[s] \in {inbox[s], <<>>}
  PROVE  MailInv'
<1>1. \A s \in Subscriber : InboxOK(s)'
  BY InboxKept DEF MailInv
<1>2. \A s \in Subscriber : CacheOK(s)'
  BY CacheKept DEF MailInv
<1>3. DropsExplained'
  BY DEF MailInv, DropsExplained, Steady
<1> QED BY <1>1, <1>2, <1>3 DEF MailInv

(* What publish sends verifies with the public key file of its agent: the  *)
(* key it is signed with is the one of the file.                           *)
LEMMA PublishStep ==
  ASSUME KeyInv, MailInv, Steady, NEW place \in Places, NEW a \in Agent,
         NEW opts \in Options, NEW payload \in Payload, Publish(a, place, opts, payload)
  PROVE  MailInv'
<1>0. PICK e : e = SignEnvelope(Lang[place[1]], Envelope(a, place, opts, payload),
                             ClientKey(place), Fresh(NonceLength))
  OBVIOUS
<1>1. Running(a, place) /\ Deliver(e, a) /\ UNCHANGED <<keyVars, cache, dropped>>
  BY <1>0 DEF Publish
<1>2. MailOK(e)
  <2>1. Len(Fresh(NonceLength)) = NonceLength
    BY EnvelopeAssumption DEF Fresh
  <2>2. Type[a] \in Nat /\ opts.priority \in Nat
    BY BusAssumption
  <2>3. /\ e.source_agent_id = a
        /\ \A lang : VerifyEnvelope(lang, e, ClientKey(place))
    <3>1. PICK random : random = Fresh(NonceLength)
      OBVIOUS
    <3>2. PICK type : type = Type[a]
      OBVIOUS
    <3>3. PICK time : time = [seconds |-> published, nanos |-> 0]
      OBVIOUS
    <3>4. PICK city : city = Specs[place[1]][place[2]].city
      OBVIOUS
    <3>5. PICK k : k = ClientKey(place)
      OBVIOUS
    <3>6. PICK id : id = Fresh(1)
      OBVIOUS
    <3>7. PICK by, topic :
            e = SignEnvelope(by, Build(id, a, city, topic, type, payload, time, opts), k, random)
      BY Zenon, <1>0, <3>1, <3>2, <3>3, <3>4, <3>5, <3>6 DEF Envelope
    <3>8. Len(random) = NonceLength /\ type \in Nat /\ opts.priority \in Nat
      BY Zenon, <2>1, <2>2, <3>1, <3>2
    <3>9. ASSUME NEW lang
          PROVE  e.source_agent_id = a /\ VerifyEnvelope(lang, e, k)
      BY <3>7, <3>8, SignedVerifies
    <3> QED BY Zenon, <3>5, <3>9
  <2>4. /\ ClientKey(place) \in Key
        /\ a \notin touched => pub[a] = ClientKey(place)
    BY <1>1, ClientKeyOfFiles
  <2>5. IsKey(ClientKey(place))
    BY <2>4, FileAssumption DEF IsKey, Key
  <2> QED BY <2>3, <2>4, <2>5 DEF MailOK
<1>3. MailOK(e)'
  BY <1>2, MailKept
<1>4. ASSUME NEW s \in Subscriber PROVE InboxOK(s)'
  <2>1. PICK S : inbox[s] \in Seq(S) /\ \A m \in S : MailOK(m)
    BY DEF MailInv, InboxOK
  <2>2. \A m \in S \cup {e} : MailOK(m)'
    BY <1>3, <2>1, MailKept
  <2>3. inbox'[s] \in {inbox[s], Append(inbox[s], e)}
    BY <1>1 DEF Deliver
  <2>4. inbox'[s] \in Seq(S \cup {e})
    <3>1. PICK old : old = inbox[s]
      OBVIOUS
    <3>2. PICK more : more = S \cup {e}
      OBVIOUS
    <3>3. old \in Seq(S) /\ e \in more /\ S \subseteq more
      BY <2>1, <3>1, <3>2
    <3>4. old \in Seq(more)
      BY <3>3
    <3>5. Append(old, e) \in Seq(more)
      BY <3>3, <3>4
    <3> QED BY Zenon, <2>3, <3>1, <3>2, <3>4, <3>5
  <2> QED BY <2>2, <2>4 DEF InboxOK
<1>5. \A s \in Subscriber : CacheOK(s)'
  BY <1>1, CacheKept DEF MailInv
<1>6. DropsExplained'
  BY <1>1 DEF MailInv, DropsExplained, keyVars
<1>7. DOMAIN inbox' = Subscriber
  BY <1>1 DEF Deliver
<1> QED BY <1>1, <1>4, <1>5, <1>6, <1>7 DEF MailInv

(* A registry that a subscription starts with holds no key.                *)
LEMMA SubscribeStep ==
  ASSUME KeyInv, MailInv, Steady, NEW s \in Subscriber, NEW place \in Places,
         Subscribe(s, place)
  PROVE  MailInv'
<1> USE DEF MailInv
<1>1. \A t \in Subscriber : InboxOK(t)'
  BY InboxKept DEF Subscribe
<1>2. cache' \in [Subscriber -> [Agent -> Key \cup {Absent}]]
  BY DEF Subscribe, NoKeys
<1>3. \A t \in Subscriber : CacheOK(t)'
  BY CacheKept DEF Subscribe, CacheOK, NoKeys
<1>4. DropsExplained'
  BY DEF Subscribe, DropsExplained, keyVars
<1> QED BY <1>1, <1>2, <1>3, <1>4 DEF Subscribe

(* What is received from an agent with sound files verifies with the key   *)
(* that is looked up for it, in the cache or in the file.                  *)
LEMMA ReceiveStep ==
  ASSUME KeyInv, MailInv, Steady, NEW s \in Subscriber, NEW place \in Places,
         Receive(s, place)
  PROVE  MailInv'
<1> DEFINE e == Head(inbox[s])
           a == e.source_agent_id
<1>1. PICK S : inbox[s] \in Seq(S) /\ \A m \in S : MailOK(m)
  BY DEF MailInv, InboxOK
<1>2. e \in S /\ Tail(inbox[s]) \in Seq(S)
  BY <1>1 DEF Receive
<1>3. MailOK(e) /\ a \in Agent
  BY <1>1, <1>2 DEF MailOK
<1>4. UNCHANGED keyVars /\ KeyType
  BY DEF Receive, KeyInv
<1>5. \A t \in Subscriber : InboxOK(t)'
  <2>1. InboxOK(s)'
    <3>1. inbox'[s] \in Seq(S)
      BY <1>2 DEF Receive, MailInv
    <3>2. \A m \in S : MailOK(m)'
      BY <1>1, MailKept
    <3> QED BY <3>1, <3>2 DEF InboxOK
  <2>2. \A t \in Subscriber : t # s => InboxOK(t)'
    BY InboxKept DEF Receive, MailInv
  <2> QED BY <2>1, <2>2
<1>6. /\ Lookup(s, a) \in Key \cup {Absent}
      /\ a \notin touched => Lookup(s, a) = pub[a]
      /\ Lookup(s, a) = Absent \/ IsKey(Lookup(s, a))
  <2>1. cache[s][a] \in Key \cup {Absent} /\ pub[a] \in File
    BY <1>3, <1>4 DEF MailInv, KeyType
  <2>2. \A k \in Key : k # Absent /\ k # Short
    BY FileAssumption DEF Key
  <2>3. a \notin touched => IsKey(pub[a])
    BY <1>3 DEF MailOK
  <2>4. a \notin touched /\ cache[s][a] # Absent => cache[s][a] = pub[a]
    BY <1>3 DEF MailInv, CacheOK
  <2> HIDE DEF a
  <2> QED BY <2>1, <2>2, <2>3, <2>4 DEF Lookup, IsKey, File
<1>7. cache' \in [Subscriber -> [Agent -> Key \cup {Absent}]]
  <2>1. cache' = cache \/ cache' = Cached(s, a)
    BY DEF Receive
  <2> HIDE DEF a
  <2>2. Cached(s, a) \in [Subscriber -> [Agent -> Key \cup {Absent}]]
    BY <1>3, <1>6 DEF Cached, MailInv
  <2> QED BY <2>1, <2>2 DEF MailInv
<1>8. \A t \in Subscriber : CacheOK(t)'
  <2>1. cache' = cache \/ cache' = Cached(s, a)
    BY DEF Receive
  <2>2. touched' = touched /\ pub' = pub
    BY <1>4 DEF keyVars
  <2>3. a \notin touched => IsKey(pub[a])
    BY <1>3 DEF MailOK
  <2> HIDE DEF a
  <2>4. ASSUME NEW t \in Subscriber, NEW b \in Agent \ touched, cache'[t][b] # Absent
        PROVE  IsKey(pub[b]) /\ cache'[t][b] = pub[b]
    <3>1. cache[t][b] # Absent => IsKey(pub[b]) /\ cache[t][b] = pub[b]
      BY DEF MailInv, CacheOK
    <3>2. cache'[t][b] = cache[t][b] \/ (b = a /\ cache'[t][b] = Lookup(s, a))
      BY <2>1, <1>3 DEF Cached, MailInv
    <3> QED BY <1>6, <2>3, <2>4, <3>1, <3>2
  <2> QED BY <2>2, <2>4 DEF CacheOK, IsKey
<1>9. DropsExplained'
  <2>1. a \notin touched => Verify(s, Lang[place[1]], e)
    <3> SUFFICES ASSUME a \notin touched PROVE Verify(s, Lang[place[1]], e)
      OBVIOUS
    <3>1. IsKey(pub[a]) /\ \A lang : VerifyEnvelope(lang, e, pub[a])
      BY <1>3 DEF MailOK
    <3>2. Lookup(s, a) = pub[a]
      BY <1>6
    <3>3. VerifyEnvelope(Lang[place[1]], e, Lookup(s, a))
      BY <3>1, <3>2
    <3>4. Lookup(s, a) # Absent
      BY <3>1, <3>2 DEF IsKey
    <3> QED BY <3>3, <3>4 DEF Verify
  <2>2. dropped' = dropped \/ (dropped' = dropped \cup {<<s, a>>} /\ a \in touched)
    BY <2>1 DEF Receive
  <2>3. touched' = touched
    BY <1>4 DEF keyVars
  <2> QED BY <2>2, <2>3 DEF MailInv, DropsExplained
<1>10. DOMAIN inbox' = Subscriber
  BY DEF Receive, MailInv
<1> QED BY <1>5, <1>7, <1>8, <1>9, <1>10 DEF MailInv

(* Every other step keeps the messages or loses them.                      *)
LEMMA MailSteps ==
  ASSUME KeyInv, MailInv, [Next]_vars
  PROVE  MailInv'
<1>1. Steady
  BY FileSteps
<1>2. CASE UNCHANGED busVars
  BY <1>1, <1>2, MailStep DEF busVars, MailInv
<1>3. ASSUME NEW p \in Process, Crash(p) PROVE MailInv'
  BY <1>1, <1>3, MailStep DEF Crash, LoseSubscriptions
<1>4. CASE PowerLoss
  BY <1>1, <1>4, MailStep DEF PowerLoss, LoseSubscriptions
<1>5. ASSUME NEW s \in Subscriber, Unsubscribe(s) PROVE MailInv'
  BY <1>1, <1>5, MailStep DEF Unsubscribe, MailInv
<1>6. CASE \E place \in Places, a \in Agent, opts \in Options, payload \in Payload :
             Publish(a, place, opts, payload)
  BY <1>1, <1>6, PublishStep
<1>7. CASE \E s \in Subscriber, place \in Places : Subscribe(s, place) \/ Receive(s, place)
  BY <1>1, <1>7, SubscribeStep, ReceiveStep
<1> QED BY <1>2, <1>3, <1>4, <1>5, <1>6, <1>7 DEF Next, vars

(* No message of an agent whose key files nothing has damaged or removed   *)
(* is dropped by a subscriber that verifies (nats.rs: next).               *)
THEOREM DropsHaveCause == Spec => []DropsExplained
<1>1. Init => MailInv
  <2> SUFFICES ASSUME Init PROVE MailInv
    OBVIOUS
  <2>1. \A s \in Subscriber : InboxOK(s)
    <3>1. \A s \in Subscriber : inbox[s] \in Seq({})
      BY DEF Init
    <3> QED BY <3>1 DEF InboxOK
  <2>2. \A s \in Subscriber : CacheOK(s)
    BY BusAssumption DEF Init, CacheOK, NoKeys
  <2> QED BY <2>1, <2>2 DEF Init, MailInv, NoKeys, DropsExplained
<1>2. KeyInv /\ MailInv /\ [Next]_vars => MailInv'
  BY MailSteps
<1>3. MailInv => DropsExplained
  BY DEF MailInv
<1> QED BY <1>1, <1>2, <1>3, KeyFilesInvariant, PTL DEF Spec

-----------------------------------------------------------------------------
(* Concatenation, on sequences of bytes.                                   *)
(* What a concatenation is, element by element.                            *)
LEMMA ConcatIs ==
  ASSUME NEW a \in Seq(Nat), NEW b \in Seq(Nat)
  PROVE  /\ a \o b \in Seq(Nat) /\ Len(a \o b) = Len(a) + Len(b)
         /\ \A i \in 1..Len(a) : (a \o b)[i] = a[i]
         /\ \A i \in 1..Len(b) : (a \o b)[Len(a) + i] = b[i]
OBVIOUS

(* Sequences of one length with the same elements are the same.            *)
LEMMA SameSeq ==
  ASSUME NEW S, NEW a \in Seq(S), NEW b \in Seq(S), Len(a) = Len(b),
         \A i \in 1..Len(a) : a[i] = b[i]
  PROVE  a = b
OBVIOUS

(* Concatenation is associative.                                           *)
LEMMA ConcatAssoc ==
  ASSUME NEW a \in Seq(Nat), NEW b \in Seq(Nat), NEW c \in Seq(Nat)
  PROVE  (a \o b) \o c = a \o (b \o c)
<1>1. PICK ab : ab = a \o b
  OBVIOUS
<1>2. PICK bc : bc = b \o c
  OBVIOUS
<1>3. PICK l : l = ab \o c
  OBVIOUS
<1>4. PICK r : r = a \o bc
  OBVIOUS
<1>5. /\ ab \in Seq(Nat) /\ Len(ab) = Len(a) + Len(b)
      /\ \A i \in 1..Len(a) : ab[i] = a[i]
      /\ \A i \in 1..Len(b) : ab[Len(a) + i] = b[i]
  <2>1. /\ a \o b \in Seq(Nat) /\ Len(a \o b) = Len(a) + Len(b)
        /\ \A i \in 1..Len(a) : (a \o b)[i] = a[i]
        /\ \A i \in 1..Len(b) : (a \o b)[Len(a) + i] = b[i]
    BY Zenon, ConcatIs
  <2> QED BY Zenon, <1>1, <2>1
<1>6. /\ bc \in Seq(Nat) /\ Len(bc) = Len(b) + Len(c)
      /\ \A i \in 1..Len(b) : bc[i] = b[i]
      /\ \A i \in 1..Len(c) : bc[Len(b) + i] = c[i]
  <2>1. /\ b \o c \in Seq(Nat) /\ Len(b \o c) = Len(b) + Len(c)
        /\ \A i \in 1..Len(b) : (b \o c)[i] = b[i]
        /\ \A i \in 1..Len(c) : (b \o c)[Len(b) + i] = c[i]
    BY Zenon, ConcatIs
  <2> QED BY Zenon, <1>2, <2>1
<1>7. /\ l \in Seq(Nat) /\ Len(l) = Len(ab) + Len(c)
      /\ \A i \in 1..Len(ab) : l[i] = ab[i]
      /\ \A i \in 1..Len(c) : l[Len(ab) + i] = c[i]
  <2>1. /\ ab \o c \in Seq(Nat) /\ Len(ab \o c) = Len(ab) + Len(c)
        /\ \A i \in 1..Len(ab) : (ab \o c)[i] = ab[i]
        /\ \A i \in 1..Len(c) : (ab \o c)[Len(ab) + i] = c[i]
    BY Zenon, <1>5, ConcatIs
  <2> QED BY Zenon, <1>3, <2>1
<1>8. /\ r \in Seq(Nat) /\ Len(r) = Len(a) + Len(bc)
      /\ \A i \in 1..Len(a) : r[i] = a[i]
      /\ \A i \in 1..Len(bc) : r[Len(a) + i] = bc[i]
  <2>1. /\ a \o bc \in Seq(Nat) /\ Len(a \o bc) = Len(a) + Len(bc)
        /\ \A i \in 1..Len(a) : (a \o bc)[i] = a[i]
        /\ \A i \in 1..Len(bc) : (a \o bc)[Len(a) + i] = bc[i]
    BY Zenon, <1>6, ConcatIs
  <2> QED BY Zenon, <1>4, <2>1
<1>9. Len(a) \in Nat /\ Len(b) \in Nat /\ Len(c) \in Nat
  OBVIOUS
<1>10. ASSUME NEW i \in 1..Len(l) PROVE l[i] = r[i]
  <2>1. CASE i <= Len(a)
    <3>1. i \in 1..Len(a) /\ i \in 1..Len(ab)
      BY <1>5, <1>9, <2>1
    <3> QED BY Zenon, <1>5, <1>7, <1>8, <3>1
  <2>2. CASE i > Len(a) /\ i <= Len(a) + Len(b)
    <3>1. PICK j \in 1..Len(b) : i = Len(a) + j
      <4>1. i - Len(a) \in 1..Len(b) /\ i = Len(a) + (i - Len(a))
        BY <1>9, <2>2
      <4> QED BY <4>1
    <3>2. j \in 1..Len(bc) /\ i \in 1..Len(ab)
      BY <1>5, <1>6, <1>9, <3>1
    <3> QED BY <1>5, <1>6, <1>7, <1>8, <3>1, <3>2
  <2>3. CASE i > Len(a) + Len(b)
    <3>1. PICK j \in 1..Len(c) : i = Len(a) + Len(b) + j
      <4>1. i - Len(a) - Len(b) \in 1..Len(c) /\ i = Len(a) + Len(b) + (i - Len(a) - Len(b))
        BY <1>5, <1>7, <1>9, <2>3
      <4> QED BY <4>1
    <3>2. Len(b) + j \in 1..Len(bc) /\ i = Len(a) + (Len(b) + j) /\ i = Len(ab) + j
      BY <1>5, <1>6, <1>9, <3>1
    <3>3. r[i] = bc[Len(b) + j] /\ bc[Len(b) + j] = c[j] /\ l[i] = c[j]
      BY <1>6, <1>7, <1>8, <3>2
    <3> QED BY <3>3
  <2> QED BY <1>9, <2>1, <2>2, <2>3
<1>11. Len(l) = Len(r)
  BY <1>5, <1>6, <1>7, <1>8, <1>9
<1> QED BY <1>1, <1>2, <1>3, <1>4, <1>7, <1>8, <1>10, <1>11, SameSeq

(* Beginnings of the same length are the same.                             *)
LEMMA ConcatSplit ==
  ASSUME NEW a \in Seq(Nat), NEW b \in Seq(Nat), NEW s \in Seq(Nat), NEW t \in Seq(Nat),
         Len(a) = Len(b), a \o s = b \o t
  PROVE  a = b /\ s = t
<1>1. PICK w : w = a \o s
  OBVIOUS
<1>2. PICK n \in Nat : n = Len(a)
  OBVIOUS
<1>3. /\ Len(w) = n + Len(s)
      /\ \A i \in 1..n : w[i] = a[i]
      /\ \A i \in 1..Len(s) : w[n + i] = s[i]
  <2>1. /\ Len(a \o s) = Len(a) + Len(s)
        /\ \A i \in 1..Len(a) : (a \o s)[i] = a[i]
        /\ \A i \in 1..Len(s) : (a \o s)[Len(a) + i] = s[i]
    BY Zenon, ConcatIs
  <2> QED BY Zenon, <1>1, <1>2, <2>1
<1>4. /\ Len(w) = n + Len(t)
      /\ \A i \in 1..n : w[i] = b[i]
      /\ \A i \in 1..Len(t) : w[n + i] = t[i]
  <2>1. /\ Len(b \o t) = Len(b) + Len(t)
        /\ \A i \in 1..Len(b) : (b \o t)[i] = b[i]
        /\ \A i \in 1..Len(t) : (b \o t)[Len(b) + i] = t[i]
    BY Zenon, ConcatIs
  <2> QED BY Zenon, <1>1, <1>2, <2>1
<1>5. a = b
  BY <1>2, <1>3, <1>4, SameSeq
<1>6. Len(s) = Len(t)
  BY <1>3, <1>4
<1>7. s = t
  BY <1>3, <1>4, <1>6, SameSeq
<1> QED BY <1>5, <1>7

(* The empty sequence is neutral.                                          *)
LEMMA EmptyConcat ==
  ASSUME NEW s \in Seq(Nat)
  PROVE  <<>> \in Seq(Nat) /\ <<>> \o s = s /\ s \o <<>> = s
OBVIOUS

-----------------------------------------------------------------------------
(* Every set of naturals has a least element.                              *)
LEMMA LeastNatural ==
  ASSUME NEW T \in SUBSET Nat, T # {}
  PROVE  \E x \in T : \A y \in T : x <= y
<1> DEFINE R == OpToRel(<, Nat)
<1>1. IsWellFoundedOn(R, Nat)
  BY NatLessThanWellFounded
<1>2. \A x, y \in Nat : x < y => <<x, y>> \in R
  BY DEF OpToRel
<1> HIDE DEF R
<1>3. PICK x \in T : \A y \in T : ~ (<<y, x>> \in R)
  BY <1>1, WFMin
<1>4. ASSUME NEW y \in T PROVE x <= y
  <2>1. x \in Nat /\ y \in Nat /\ ~(y < x)
    BY <1>2, <1>3
  <2> QED
    BY <2>1
<1> QED
  BY <1>4

(* The recursion of a varint, ...                                          *)
VarintOf(f, n) ==
  IF n < 128 THEN <<n>> ELSE <<128 + (n % 128)>> \o f[n \div 128]

VarintsTo(f, N) ==
  f \in [0..N -> Seq(Nat)] /\ \A n \in 0..N : f[n] = VarintOf(f, n)

(* The last seven bits of a number, and the rest.                          *)
LEMMA Digits ==
  ASSUME NEW n \in Nat
  PROVE  /\ n \div 128 \in Nat /\ n % 128 \in 0..127
         /\ n = (128 * (n \div 128)) + (n % 128)
         /\ n >= 128 => n \div 128 < n
OBVIOUS

(* A step of the recursion writes bytes.                                   *)
LEMMA VarintOfType ==
  ASSUME NEW f, NEW n \in Nat, n >= 128 => f[n \div 128] \in Seq(Nat)
  PROVE  VarintOf(f, n) \in Seq(Nat)
<1>1. CASE n < 128
  BY <1>1 DEF VarintOf
<1>2. CASE n >= 128
  <2>1. PICK rest \in Seq(Nat) : rest = f[n \div 128]
    BY <1>2
  <2>2. PICK first \in Nat : first = 128 + (n % 128)
    BY Digits
  <2>3. PICK b : b = <<first>>
    OBVIOUS
  <2>4. b \in Seq(Nat)
    BY <2>3
  <2>5. b \o rest \in Seq(Nat)
    BY <2>4, ConcatIs
  <2> QED BY <1>2, <2>1, <2>2, <2>3, <2>5 DEF VarintOf
<1> QED BY <1>1, <1>2

(* ... has one solution up to any number, ...                              *)
LEMMA VarintsUnique ==
  ASSUME NEW M \in Nat, NEW N \in Nat, NEW f, NEW g, VarintsTo(f, M), VarintsTo(g, N),
         NEW n \in Nat, n <= M, n <= N
  PROVE  f[n] = g[n]
<1> SUFFICES ASSUME f[n] # g[n] PROVE FALSE
  OBVIOUS
<1> DEFINE T == {i \in 0..n : f[i] # g[i]}
<1>1. PICK i \in T : \A j \in T : i <= j
  <2>1. T \in SUBSET Nat /\ T # {}
    OBVIOUS
  <2> HIDE DEF T
  <2> QED BY <2>1, LeastNatural
<1>2. i \in 0..M /\ i \in 0..N /\ f[i] = VarintOf(f, i) /\ g[i] = VarintOf(g, i) /\ f[i] # g[i]
  BY DEF VarintsTo
<1>3. CASE i < 128
  BY <1>2, <1>3 DEF VarintOf
<1>4. CASE i >= 128
  <2>1. i \div 128 \in Nat /\ i \div 128 < i
    BY <1>2, <1>4, Digits
  <2>2. f[i \div 128] = g[i \div 128]
    <3>1. i \div 128 \in 0..n /\ ~(i <= i \div 128)
      BY <2>1
    <3> QED BY <1>1, <3>1
  <2> QED BY <1>2, <2>2 DEF VarintOf
<1> QED BY <1>2, <1>3, <1>4

(* ... which exists.                                                       *)
LEMMA VarintsExist ==
  ASSUME NEW N \in Nat
  PROVE  \E f : VarintsTo(f, N)
<1> SUFFICES ASSUME ~\E f : VarintsTo(f, N) PROVE FALSE
  OBVIOUS
<1> DEFINE T == {M \in Nat : ~\E f : VarintsTo(f, M)}
<1>1. PICK M \in T : \A j \in T : M <= j
  <2>1. T \in SUBSET Nat /\ T # {}
    OBVIOUS
  <2> HIDE DEF T
  <2> QED BY <2>1, LeastNatural
<1>2. PICK old : M > 0 => VarintsTo(old, M - 1)
  <2>1. M > 0 => M - 1 \in Nat /\ ~(M <= M - 1)
    OBVIOUS
  <2> QED BY <1>1, <2>1
<1>3. M >= 128 => M > 0 /\ M \div 128 \in 0..M - 1
  BY Digits
<1>4. M > 0 => old \in [0..M - 1 -> Seq(Nat)] /\ \A n \in 0..M - 1 : old[n] = VarintOf(old, n)
  BY <1>2 DEF VarintsTo
<1>5. VarintOf(old, M) \in Seq(Nat)
  BY <1>3, <1>4, VarintOfType
<1>6. PICK last \in Seq(Nat) : last = VarintOf(old, M)
  BY <1>5
<1>7. PICK f : f = [n \in 0..M |-> IF n = M THEN last ELSE old[n]]
  OBVIOUS
<1>8. f \in [0..M -> Seq(Nat)]
  BY <1>4, <1>7
<1>9. f[M] = last /\ \A n \in 0..M - 1 : f[n] = old[n]
  BY <1>7
<1>10. ASSUME NEW n \in 0..M PROVE f[n] = VarintOf(f, n)
  <2>1. CASE n < 128
    <3>1. VarintOf(f, n) = VarintOf(old, n)
      BY <2>1 DEF VarintOf
    <3> QED BY <1>4, <1>6, <1>9, <3>1
  <2>2. CASE n >= 128
    <3>1. n \div 128 \in 0..M - 1
      <4>1. n \div 128 \in Nat /\ n \div 128 < n
        BY <2>2, Digits
      <4> QED BY <4>1
    <3>2. VarintOf(f, n) = VarintOf(old, n)
      BY <1>9, <2>2, <3>1 DEF VarintOf
    <3> QED BY <1>4, <1>6, <1>9, <3>2
  <2> QED BY <2>1, <2>2
<1>11. VarintsTo(f, M)
  BY <1>8, <1>10 DEF VarintsTo
<1> QED BY <1>11

(* Varint is what its definition says.                                     *)
LEMMA VarintIs ==
  Varint \in [Nat -> Seq(Nat)] /\ \A n \in Nat : Varint[n] = VarintOf(Varint, n)
<1>1. PICK to : \A N \in Nat : to[N] = CHOOSE f : VarintsTo(f, N)
  <2>1. \E to : to = [N \in Nat |-> CHOOSE f : VarintsTo(f, N)]
    OBVIOUS
  <2> QED BY <2>1
<1>2. \A N \in Nat : VarintsTo(to[N], N)
  BY <1>1, VarintsExist
<1>3. PICK v : v = [n \in Nat |-> to[n][n]]
  OBVIOUS
<1>4. \A n \in Nat : v[n] = VarintOf(v, n) /\ v[n] \in Seq(Nat)
  <2> SUFFICES ASSUME NEW n \in Nat PROVE v[n] = VarintOf(v, n) /\ v[n] \in Seq(Nat)
    OBVIOUS
  <2>1. v[n] = to[n][n] /\ to[n][n] = VarintOf(to[n], n) /\ to[n][n] \in Seq(Nat)
    BY <1>2, <1>3 DEF VarintsTo
  <2>2. CASE n < 128
    BY <2>1, <2>2 DEF VarintOf
  <2>3. CASE n >= 128
    <3>1. PICK m : m = n \div 128
      OBVIOUS
    <3>2. m \in Nat /\ m < n
      BY <2>3, <3>1, Digits
    <3>3. to[n][m] = to[m][m]
      BY <1>2, <3>2, VarintsUnique
    <3>4. v[m] = to[m][m]
      BY <1>3, <3>2
    <3>5. VarintOf(v, n) = VarintOf(to[n], n)
      BY <2>3, <3>1, <3>3, <3>4 DEF VarintOf
    <3> QED BY <2>1, <3>5
  <2> QED BY <2>1, <2>2, <2>3
<1>5. v = [n \in Nat |-> VarintOf(v, n)]
  BY <1>3, <1>4
<1>6. Varint = CHOOSE f : f = [n \in Nat |-> VarintOf(f, n)]
  BY Zenon DEF Varint, VarintOf
<1>7. PICK w : w = Varint
  OBVIOUS
<1>8. w = [n \in Nat |-> VarintOf(w, n)]
  BY <1>5, <1>6, <1>7
<1>9. \A n \in Nat : w[n] = VarintOf(w, n)
  BY <1>8
<1>10. \A n \in Nat : w[n] = v[n]
  <2> SUFFICES ASSUME NEW k \in Nat, w[k] # v[k] PROVE FALSE
    OBVIOUS
  <2> DEFINE T == {i \in Nat : w[i] # v[i]}
  <2>1. PICK i \in T : \A j \in T : i <= j
    <3>1. T \in SUBSET Nat /\ T # {}
      OBVIOUS
    <3> HIDE DEF T
    <3> QED BY <3>1, LeastNatural
  <2>2. CASE i < 128
    <3>1. i \in Nat /\ w[i] # v[i]
      BY <2>1
    <3>2. w[i] = VarintOf(w, i) /\ v[i] = VarintOf(v, i)
      BY <1>4, <1>9, <3>1
    <3> QED BY Zenon, <2>2, <3>1, <3>2 DEF VarintOf
  <2>3. CASE i >= 128
    <3>1. i \div 128 \in Nat /\ ~(i <= i \div 128)
      BY <2>3, Digits
    <3>2. w[i \div 128] = v[i \div 128]
      BY <2>1, <3>1
    <3>3. VarintOf(w, i) = VarintOf(v, i)
      BY <2>3, <3>2 DEF VarintOf
    <3>4. i \in Nat /\ w[i] # v[i]
      BY <2>1
    <3>5. w[i] = VarintOf(w, i) /\ v[i] = VarintOf(v, i)
      BY <1>4, <1>9, <3>4
    <3> QED BY <3>3, <3>4, <3>5
  <2> QED BY <2>1, <2>2, <2>3
<1>11. w = v
  BY <1>3, <1>8, <1>10
<1> QED BY <1>3, <1>4, <1>7, <1>11

(* A small number is one byte.                                             *)
LEMMA VarintShort ==
  ASSUME NEW n \in Nat, n < 128
  PROVE  Varint[n] = <<n>>
<1>1. PICK v : v = Varint
  OBVIOUS
<1>2. v[n] = VarintOf(v, n)
  BY <1>1, VarintIs
<1> QED BY <1>1, <1>2 DEF VarintOf

(* Any other is a byte with its high bit set, then the rest.               *)
LEMMA VarintLong ==
  ASSUME NEW n \in Nat, n >= 128
  PROVE  Varint[n] = <<128 + (n % 128)>> \o Varint[n \div 128]
<1>1. PICK v : v = Varint
  OBVIOUS
<1>2. v[n] = VarintOf(v, n)
  BY <1>1, VarintIs
<1> QED BY <1>1, <1>2 DEF VarintOf

(* A varint is a sequence.                                                 *)
LEMMA VarintType ==
  ASSUME NEW n \in Nat
  PROVE  Varint[n] \in Seq(Nat)
BY VarintIs

(* A first byte and the rest.                                              *)
LEMMA OneByte ==
  ASSUME NEW a \in Nat
  PROVE  <<a>> \in Seq(Nat) /\ Len(<<a>>) = 1 /\ <<a>>[1] = a
OBVIOUS

StartsWith(w, a, s) == a \in Nat /\ s \in Seq(Nat) /\ w = <<a>> \o s

(* A sequence has one first byte.                                          *)
LEMMA FirstByte ==
  ASSUME NEW w, NEW a, NEW b, NEW s, NEW t, StartsWith(w, a, s), StartsWith(w, b, t)
  PROVE  a = b /\ s = t
<1>0. /\ a \in Nat /\ s \in Seq(Nat) /\ w = <<a>> \o s
      /\ b \in Nat /\ t \in Seq(Nat) /\ w = <<b>> \o t
  BY Zenon DEF StartsWith
<1>1. PICK p : p = <<a>>
  OBVIOUS
<1>2. PICK q : q = <<b>>
  OBVIOUS
<1>3. p \in Seq(Nat) /\ q \in Seq(Nat) /\ Len(p) = Len(q) /\ p[1] = a /\ q[1] = b
  BY <1>0, <1>1, <1>2, OneByte
<1>4. p \o s = q \o t
  BY Zenon, <1>0, <1>1, <1>2
<1>5. p = q /\ s = t
  BY <1>0, <1>3, <1>4, ConcatSplit
<1> QED BY <1>3, <1>5

HeadOf(n) == IF n < 128 THEN n ELSE 128 + (n % 128)

AfterHead(n, s) == IF n < 128 THEN s ELSE Varint[n \div 128] \o s

(* The first byte of a varint, and what comes after it.                    *)
LEMMA VarintHead ==
  ASSUME NEW n \in Nat, NEW s \in Seq(Nat)
  PROVE  StartsWith(Varint[n] \o s, HeadOf(n), AfterHead(n, s))
<1>1. CASE n < 128
  BY Zenon, <1>1, VarintShort DEF HeadOf, AfterHead, StartsWith
<1>2. CASE n >= 128
  <2>1. PICK m \in Nat : m = n \div 128
    BY Digits
  <2>2. PICK r \in Seq(Nat) : r = Varint[m]
    BY VarintType
  <2>3. PICK a \in Nat : a = 128 + (n % 128)
    BY Digits
  <2>4. PICK f : f = <<a>>
    OBVIOUS
  <2>5. f \in Seq(Nat)
    BY <2>4, OneByte
  <2>6. Varint[n] = f \o r
    BY <1>2, <2>1, <2>2, <2>3, <2>4, VarintLong
  <2>7. (f \o r) \o s = f \o (r \o s)
    <3>1. f \in Seq(Nat) /\ r \in Seq(Nat) /\ s \in Seq(Nat)
      BY Zenon, <2>5
    <3> QED BY Zenon, <3>1, ConcatAssoc
  <2>8. r \o s \in Seq(Nat)
    BY ConcatIs
  <2>9. ~(n < 128)
    BY <1>2
  <2>10. HeadOf(n) = a
    BY <2>3, <2>9 DEF HeadOf
  <2>11. AfterHead(n, s) = r \o s
    BY <2>1, <2>2, <2>9 DEF AfterHead
  <2> QED BY Zenon, <2>3, <2>4, <2>6, <2>7, <2>8, <2>10, <2>11 DEF StartsWith
<1> QED BY <1>1, <1>2

(* The first byte tells whether the varint goes on, and its last bits.     *)
LEMMA HeadDigits ==
  ASSUME NEW i \in Nat, NEW j \in Nat, HeadOf(i) = HeadOf(j)
  PROVE  /\ (i < 128 <=> j < 128)
         /\ i < 128 => i = j
         /\ i >= 128 => i % 128 = j % 128
<1>1. i % 128 \in 0..127 /\ j % 128 \in 0..127
  BY Digits
<1> QED BY <1>1 DEF HeadOf

(* A number whose varint, with something after it, is that of another.     *)
Ambiguous(i) ==
  \E j \in Nat, p \in Seq(Nat), q \in Seq(Nat) :
    Varint[i] \o p = Varint[j] \o q /\ ~(i = j /\ p = q)

(* There is no least ambiguous number.                                     *)
LEMMA NoneAmbiguous ==
  ASSUME NEW i \in Nat, \A k \in Nat : k < i => ~Ambiguous(k)
  PROVE  ~Ambiguous(i)
<1> SUFFICES ASSUME Ambiguous(i) PROVE FALSE
  OBVIOUS
<1>1. PICK j \in Nat, p \in Seq(Nat), q \in Seq(Nat) :
        Varint[i] \o p = Varint[j] \o q /\ ~(i = j /\ p = q)
  BY DEF Ambiguous
<1>2. PICK a : a = HeadOf(i)
  OBVIOUS
<1>3. PICK b : b = HeadOf(j)
  OBVIOUS
<1>4. PICK x : x = AfterHead(i, p)
  OBVIOUS
<1>5. PICK y : y = AfterHead(j, q)
  OBVIOUS
<1>6. StartsWith(Varint[i] \o p, a, x)
  BY Zenon, <1>2, <1>4, VarintHead
<1>7. StartsWith(Varint[i] \o p, b, y)
  BY Zenon, <1>1, <1>3, <1>5, VarintHead
<1>9. a = b /\ x = y
  BY Zenon, <1>6, <1>7, FirstByte
<1>10. /\ (i < 128 <=> j < 128)
       /\ i < 128 => i = j
       /\ i >= 128 => i % 128 = j % 128
  BY Zenon, <1>2, <1>3, <1>9, HeadDigits
<1>11. CASE i < 128
  <2>1. x = p /\ y = q
    BY <1>4, <1>5, <1>10, <1>11 DEF AfterHead
  <2>2. i = j /\ p = q
    BY <1>9, <1>10, <1>11, <2>1
  <2> QED BY <1>1, <2>2
<1>12. CASE ~(i < 128)
  <2>1. i >= 128 /\ j >= 128
    BY <1>10, <1>12
  <2>2. PICK k \in Nat : k = i \div 128 /\ k < i
    BY <2>1, Digits
  <2>3. PICK l \in Nat : l = j \div 128
    BY <2>1, Digits
  <2>4. x = Varint[k] \o p
    BY Zenon, <1>4, <1>12, <2>2 DEF AfterHead
  <2>5. y = Varint[l] \o q
    BY Zenon, <1>5, <1>10, <1>12, <2>3 DEF AfterHead
  <2>6. Varint[k] \o p = Varint[l] \o q
    BY Zenon, <1>9, <2>4, <2>5
  <2>7. k = l /\ p = q
    <3>1. ~Ambiguous(k)
      BY Zenon, <2>2
    <3> QED BY Zenon, <2>6, <3>1 DEF Ambiguous
  <2>8. i = (128 * (i \div 128)) + (i % 128) /\ j = (128 * (j \div 128)) + (j % 128)
    BY Digits
  <2>9. i = j
    BY <1>10, <2>1, <2>2, <2>3, <2>7, <2>8
  <2> QED BY <1>1, <2>7, <2>9
<1> QED BY <1>11, <1>12

(* A varint ends where it says: it is no beginning of another.             *)
VarintThen(w, n, s) == n \in Nat /\ s \in Seq(Nat) /\ w = Varint[n] \o s

(* So a number is read back as it was written.                             *)
LEMMA VarintSplit ==
  ASSUME NEW w, NEW m, NEW n, NEW s, NEW t, VarintThen(w, m, s), VarintThen(w, n, t)
  PROVE  m = n /\ s = t
<1> SUFFICES ASSUME ~(m = n /\ s = t) PROVE FALSE
  OBVIOUS
<1>0. m \in Nat /\ n \in Nat /\ s \in Seq(Nat) /\ t \in Seq(Nat)
      /\ Varint[m] \o s = Varint[n] \o t
  BY Zenon DEF VarintThen
<1>1. m \in Nat /\ Ambiguous(m)
  BY Zenon, <1>0 DEF Ambiguous
<1>2. PICK T : T = {i \in Nat : Ambiguous(i)}
  OBVIOUS
<1>3. T \in SUBSET Nat /\ T # {}
  BY Zenon, <1>1, <1>2
<1>4. PICK i \in T : \A j \in T : i <= j
  BY Zenon, <1>3, LeastNatural
<1>5. i \in Nat /\ Ambiguous(i)
  BY Zenon, <1>2
<1>6. ASSUME NEW k \in Nat, k < i PROVE ~Ambiguous(k)
  <2>1. ~(i <= k)
    BY <1>5, <1>6
  <2> QED BY Zenon, <1>2, <1>4, <2>1
<1> QED BY Zenon, <1>5, <1>6, NoneAmbiguous

(* A varint has at least one byte.                                         *)
LEMMA VarintNotEmpty ==
  ASSUME NEW w, NEW n, NEW s, VarintThen(w, n, s)
  PROVE  w # <<>> /\ w \in Seq(Nat)
<1>0. n \in Nat /\ s \in Seq(Nat) /\ w = Varint[n] \o s
  BY Zenon DEF VarintThen
<1>1. PICK a, x : StartsWith(w, a, x)
  BY Zenon, <1>0, VarintHead
<1>2. a \in Nat /\ x \in Seq(Nat) /\ w = <<a>> \o x
  BY Zenon, <1>1 DEF StartsWith
<1>3. PICK f : f = <<a>>
  OBVIOUS
<1>4. f \in Seq(Nat) /\ Len(f) = 1
  BY <1>2, <1>3, OneByte
<1>5. w \in Seq(Nat) /\ Len(w) = 1 + Len(x)
  BY <1>2, <1>3, <1>4, ConcatIs
<1>6. w # <<>>
  BY <1>2, <1>5
<1> QED BY Zenon, <1>5, <1>6

-----------------------------------------------------------------------------
(* What follows field k - 1: nothing, or a field whose tag is k or more.   *)
Begins(k, s) ==
  /\ s \in Seq(Nat)
  /\ \/ s = <<>>
     \/ \E f \in Nat, w \in 0..7 : \E x : f >= k /\ VarintThen(s, 8 * f + w, x)

(* Field numbers and wire types make numbers.                              *)
LEMMA TagIsNat ==
  ASSUME NEW k \in Nat, NEW w \in 0..7
  PROVE  8 * k + w \in Nat
OBVIOUS

(* A field that is written is not what follows it.                         *)
LEMMA TagFree ==
  ASSUME NEW k \in Nat, NEW w \in 0..7, NEW x, NEW s,
         VarintThen(s, 8 * k + w, x), Begins(k + 1, s)
  PROVE  FALSE
<1>1. s # <<>>
  BY Zenon, VarintNotEmpty
<1>2. PICK f \in Nat, v \in 0..7 : \E y : f >= k + 1 /\ VarintThen(s, 8 * f + v, y)
  BY Zenon, <1>1 DEF Begins
<1>3. 8 * k + w = 8 * f + v
  BY Zenon, <1>2, VarintSplit
<1> QED BY <1>2, <1>3

(* A written field begins with its own tag.                                *)
LEMMA BeginsTag ==
  ASSUME NEW k \in Nat, NEW w \in 0..7, NEW x, NEW s, VarintThen(s, 8 * k + w, x)
  PROVE  Begins(k, s)
<1>1. k >= k
  OBVIOUS
<1>2. s \in Seq(Nat)
  BY Zenon, VarintNotEmpty
<1> QED BY Zenon, <1>1, <1>2 DEF Begins

(* What may follow field k + 1 may follow field k.                         *)
LEMMA BeginsLater ==
  ASSUME NEW k \in Nat, NEW s, Begins(k + 1, s)
  PROVE  Begins(k, s) /\ s \in Seq(Nat)
<1>1. \A f \in Nat : f >= k + 1 => f >= k
  OBVIOUS
<1> QED BY Zenon, <1>1 DEF Begins

(* Nothing may follow any field.                                           *)
LEMMA BeginsEmpty ==
  ASSUME NEW k \in Nat
  PROVE  Begins(k, <<>>)
BY EmptyConcat DEF Begins

-----------------------------------------------------------------------------
(* A field of bytes: its tag, then its length, then the bytes.             *)
BytesThen(w, k, x, s) ==
  k \in Nat /\ x \in Seq(Nat) /\ s \in Seq(Nat) /\ w = Bytes(k, x) \o s

(* A field of bytes is two varints and its bytes.                          *)
LEMMA BytesUnfold ==
  ASSUME NEW w, NEW k, NEW x, NEW s, BytesThen(w, k, x, s)
  PROVE  \E u : VarintThen(w, 8 * k + 2, u) /\ VarintThen(u, Len(x), x \o s)
<1>0. k \in Nat /\ x \in Seq(Nat) /\ s \in Seq(Nat) /\ w = Bytes(k, x) \o s
  BY Zenon DEF BytesThen
<1>10. 8 * k + 2 \in Nat /\ Len(x) \in Nat
  BY <1>0
<1>1. PICK tag : tag = Varint[8 * k + 2] /\ tag \in Seq(Nat)
  BY Zenon, <1>10, VarintType
<1>2. PICK len : len = Varint[Len(x)] /\ len \in Seq(Nat)
  BY Zenon, <1>10, VarintType
<1>3. PICK b : b = tag \o len /\ b \in Seq(Nat)
  BY Zenon, <1>1, <1>2, ConcatIs
<1>4. PICK rest : rest = x \o s /\ rest \in Seq(Nat)
  BY Zenon, <1>0, ConcatIs
<1>5. PICK u : u = len \o rest /\ u \in Seq(Nat)
  BY Zenon, <1>2, <1>4, ConcatIs
<1>6. (b \o x) \o s = b \o rest
  <2>1. (b \o x) \o s = b \o (x \o s)
    <3>1. b \in Seq(Nat) /\ x \in Seq(Nat) /\ s \in Seq(Nat)
      BY Zenon, <1>0, <1>3
    <3> QED BY Zenon, <3>1, ConcatAssoc
  <2> QED BY Zenon, <1>4, <2>1
<1>7. b \o rest = tag \o u
  <2>1. (tag \o len) \o rest = tag \o (len \o rest)
    <3>1. tag \in Seq(Nat) /\ len \in Seq(Nat) /\ rest \in Seq(Nat)
      BY Zenon, <1>1, <1>2, <1>4
    <3> QED BY Zenon, <3>1, ConcatAssoc
  <2> QED BY Zenon, <1>3, <1>5, <2>1
<1>8. Bytes(k, x) = b \o x
  BY Zenon, <1>1, <1>2, <1>3 DEF Bytes, Tag
<1>9. w = tag \o u
  BY Zenon, <1>0, <1>6, <1>7, <1>8
<1>11. VarintThen(w, 8 * k + 2, u)
  BY Zenon, <1>1, <1>5, <1>9, <1>10 DEF VarintThen
<1>12. VarintThen(u, Len(x), rest)
  BY Zenon, <1>2, <1>4, <1>5, <1>10 DEF VarintThen
<1> QED BY Zenon, <1>4, <1>11, <1>12

(* It is a sequence.                                                       *)
LEMMA BytesType ==
  ASSUME NEW k \in Nat, NEW x \in Seq(Nat)
  PROVE  Bytes(k, x) \in Seq(Nat)
<1>1. PICK tag \in Seq(Nat) : tag = Varint[8 * k + 2]
  BY TagIsNat, VarintType
<1>2. PICK len \in Seq(Nat) : len = Varint[Len(x)]
  BY VarintType
<1>3. PICK b \in Seq(Nat) : b = tag \o len
  BY ConcatIs
<1>4. b \o x \in Seq(Nat)
  BY ConcatIs
<1> QED BY Zenon, <1>1, <1>2, <1>3, <1>4 DEF Bytes, Tag

(* It begins with its tag.                                                 *)
LEMMA BytesBegin ==
  ASSUME NEW w, NEW k, NEW x, NEW s, BytesThen(w, k, x, s)
  PROVE  Begins(k, w)
<1>1. k \in Nat /\ 2 \in 0..7
  BY DEF BytesThen
<1> QED BY Zenon, <1>1, BytesUnfold, BeginsTag

(* It is read back as it was written.                                      *)
LEMMA BytesSplit ==
  ASSUME NEW w, NEW k, NEW x, NEW y, NEW s, NEW t,
         BytesThen(w, k, x, s), BytesThen(w, k, y, t)
  PROVE  x = y /\ s = t
<1>1. PICK u : VarintThen(w, 8 * k + 2, u) /\ VarintThen(u, Len(x), x \o s)
  BY Zenon, BytesUnfold
<1>2. PICK v : VarintThen(w, 8 * k + 2, v) /\ VarintThen(v, Len(y), y \o t)
  BY Zenon, BytesUnfold
<1>3. 8 * k + 2 = 8 * k + 2 /\ u = v
  <2>1. PICK n : n = 8 * k + 2
    OBVIOUS
  <2>2. VarintThen(w, n, u) /\ VarintThen(w, n, v)
    BY Zenon, <1>1, <1>2, <2>1
  <2>3. n = n /\ u = v
    BY <2>2, VarintSplit
  <2> QED BY <2>3
<1>4. Len(x) = Len(y) /\ x \o s = y \o t
  BY Zenon, <1>1, <1>2, <1>3, VarintSplit
<1>5. x \in Seq(Nat) /\ s \in Seq(Nat) /\ y \in Seq(Nat) /\ t \in Seq(Nat)
  BY Zenon DEF BytesThen
<1> QED BY <1>4, <1>5, ConcatSplit

(* It is not mistaken for a later field.                                   *)
LEMMA BytesFree ==
  ASSUME NEW w, NEW k, NEW x, NEW s, BytesThen(w, k, x, s), Begins(k + 1, w)
  PROVE  FALSE
<1>1. k \in Nat /\ 2 \in 0..7
  BY DEF BytesThen
<1> QED BY Zenon, <1>1, BytesUnfold, TagFree

(* A string, left out when it is empty.                                    *)
TextThen(w, k, x, s) ==
  k \in Nat /\ x \in Seq(Nat) /\ Begins(k + 1, s) /\ w = Text(k, x) \o s

(* A string is left out, or is a field of bytes.                           *)
LEMMA TextCases ==
  ASSUME NEW w, NEW k, NEW x, NEW s, TextThen(w, k, x, s)
  PROVE  (x = <<>> /\ w = s) \/ (x # <<>> /\ BytesThen(w, k, x, s))
<1>1. k \in Nat /\ x \in Seq(Nat) /\ s \in Seq(Nat) /\ w = Text(k, x) \o s
  BY Zenon, BeginsLater DEF TextThen
<1>2. CASE x = <<>>
  BY Zenon, <1>1, <1>2, EmptyConcat DEF Text
<1>3. CASE x # <<>>
  BY Zenon, <1>1, <1>3 DEF Text, BytesThen
<1> QED BY Zenon, <1>2, <1>3

(* It is a sequence.                                                       *)
LEMMA TextType ==
  ASSUME NEW k \in Nat, NEW x \in Seq(Nat)
  PROVE  Text(k, x) \in Seq(Nat)
BY Zenon, EmptyConcat, BytesType DEF Text

(* It begins with its tag, if there is one.                                *)
LEMMA TextBegin ==
  ASSUME NEW w, NEW k, NEW x, NEW s, TextThen(w, k, x, s)
  PROVE  Begins(k, w)
<1>1. Begins(k, s)
  BY Zenon, BeginsLater DEF TextThen
<1> QED BY Zenon, <1>1, TextCases, BytesBegin

(* A string is read back, also one that was left out.                      *)
LEMMA TextSplit ==
  ASSUME NEW w, NEW k, NEW x, NEW y, NEW s, NEW t,
         TextThen(w, k, x, s), TextThen(w, k, y, t)
  PROVE  x = y /\ s = t
<1>1. Begins(k + 1, s) /\ Begins(k + 1, t)
  BY Zenon DEF TextThen
<1>2. (x = <<>> /\ w = s) \/ (x # <<>> /\ BytesThen(w, k, x, s))
  BY Zenon, TextCases
<1>3. (y = <<>> /\ w = t) \/ (y # <<>> /\ BytesThen(w, k, y, t))
  BY Zenon, TextCases
<1>4. CASE w = s
  <2>1. ~BytesThen(w, k, y, t)
    BY Zenon, <1>1, <1>4, BytesFree
  <2>2. ~BytesThen(w, k, x, s)
    BY Zenon, <1>1, <1>4, BytesFree
  <2> QED BY Zenon, <1>2, <1>3, <2>1, <2>2
<1>5. CASE w = t
  <2>1. ~BytesThen(w, k, y, t)
    BY Zenon, <1>1, <1>5, BytesFree
  <2>2. ~BytesThen(w, k, x, s)
    BY Zenon, <1>1, <1>5, BytesFree
  <2> QED BY Zenon, <1>2, <1>3, <2>1, <2>2
<1>6. CASE BytesThen(w, k, x, s) /\ BytesThen(w, k, y, t)
  BY <1>6, BytesSplit
<1> QED BY Zenon, <1>2, <1>3, <1>4, <1>5, <1>6

-----------------------------------------------------------------------------
(* A scalar, left out when it is zero, of the integers that fit a word.    *)
Fits == -(Word \div 2) .. (Word \div 2) - 1

(* Half a word, twice, is at most a word.                                  *)
LEMMA HalfWord ==
  Word \div 2 \in Nat /\ 2 * (Word \div 2) <= Word /\ Word \in Nat /\ Word > 128
BY WordAssumption

(* A number below the word is its own residue.                             *)
LEMMA Residue ==
  ASSUME NEW a \in Nat, a < Word
  PROVE  a % Word = a
BY WordAssumption

(* The residue of a negative number.                                       *)
LEMMA ResidueNegative ==
  ASSUME NEW a \in Nat, 0 < a, a < Word
  PROVE  (0 - a) % Word = Word - a
BY WordAssumption

(* The cast to u64 adds a word to a negative number.                       *)
LEMMA Cast ==
  ASSUME NEW n \in Fits
  PROVE  /\ n \in Int /\ n % Word \in Nat
         /\ n % Word = IF n >= 0 THEN n ELSE Word + n
<1>1. n \in Int /\ -(Word \div 2) <= n /\ n < Word \div 2
  BY HalfWord DEF Fits
<1>2. CASE n >= 0
  <2>1. n \in Nat /\ n < Word
    BY <1>1, <1>2, HalfWord
  <2> QED BY <2>1, Residue
<1>3. CASE ~(n >= 0)
  <2>1. PICK a \in Nat : n = 0 - a /\ 0 < a /\ a < Word
    <3>1. 0 - n \in Nat /\ n = 0 - (0 - n) /\ 0 < 0 - n /\ 0 - n < Word
      BY <1>1, <1>3, HalfWord
    <3> QED BY <3>1
  <2>2. n % Word = Word - a
    BY <2>1, ResidueNegative
  <2> QED BY <1>1, <1>3, <2>1, <2>2, HalfWord
<1> QED BY <1>2, <1>3

(* No two integers that fit have the same cast.                            *)
LEMMA CastSplit ==
  ASSUME NEW m \in Fits, NEW n \in Fits, m % Word = n % Word
  PROVE  m = n
<1>1. m \in Int /\ -(Word \div 2) <= m /\ m < Word \div 2
  BY HalfWord DEF Fits
<1>2. n \in Int /\ -(Word \div 2) <= n /\ n < Word \div 2
  BY HalfWord DEF Fits
<1>3. PICK a : a = m % Word
  OBVIOUS
<1>4. a = (IF m >= 0 THEN m ELSE Word + m) /\ a = (IF n >= 0 THEN n ELSE Word + n)
  BY Cast, <1>3
<1> QED BY <1>1, <1>2, <1>4, HalfWord

ScalarThen(w, k, n, s) ==
  k \in Nat /\ n \in Fits /\ Begins(k + 1, s) /\ w = Scalar(k, n) \o s

(* A scalar is a sequence.                                                 *)
LEMMA ScalarType ==
  ASSUME NEW k \in Nat, NEW n \in Fits
  PROVE  Scalar(k, n) \in Seq(Nat)
<1>1. PICK tag \in Seq(Nat) : tag = Varint[8 * k + 0]
  BY TagIsNat, VarintType
<1>2. PICK v \in Seq(Nat) : v = Varint[n % Word]
  BY Cast, VarintType
<1>3. tag \o v \in Seq(Nat)
  BY ConcatIs
<1> QED BY Zenon, EmptyConcat, <1>1, <1>2, <1>3 DEF Scalar, Tag

(* It is left out, or is two varints.                                      *)
LEMMA ScalarCases ==
  ASSUME NEW w, NEW k, NEW n, NEW s, ScalarThen(w, k, n, s)
  PROVE  \/ n = 0 /\ w = s
         \/ n # 0 /\ \E u : VarintThen(w, 8 * k + 0, u) /\ VarintThen(u, n % Word, s)
<1>1. k \in Nat /\ n \in Fits /\ s \in Seq(Nat) /\ w = Scalar(k, n) \o s
  BY Zenon, BeginsLater DEF ScalarThen
<1>2. CASE n = 0
  BY Zenon, <1>1, <1>2, EmptyConcat DEF Scalar
<1>3. CASE n # 0
  <2>7. 8 * k + 0 \in Nat /\ n % Word \in Nat
    BY <1>1, Cast
  <2>1. PICK tag : tag = Varint[8 * k + 0] /\ tag \in Seq(Nat)
    BY Zenon, <2>7, VarintType
  <2>2. PICK v : v = Varint[n % Word] /\ v \in Seq(Nat)
    BY Zenon, <2>7, VarintType
  <2>3. PICK u : u = v \o s /\ u \in Seq(Nat)
    BY Zenon, <1>1, <2>2, ConcatIs
  <2>4. (tag \o v) \o s = tag \o (v \o s)
    <3>1. tag \in Seq(Nat) /\ v \in Seq(Nat) /\ s \in Seq(Nat)
      BY Zenon, <1>1, <2>1, <2>2
    <3> QED BY Zenon, <3>1, ConcatAssoc
  <2>5. Scalar(k, n) = tag \o v
    BY Zenon, <1>3, <2>1, <2>2 DEF Scalar, Tag
  <2>6. w = tag \o u
    BY Zenon, <1>1, <2>3, <2>4, <2>5
  <2>8. VarintThen(w, 8 * k + 0, u)
    BY Zenon, <2>1, <2>3, <2>6, <2>7 DEF VarintThen
  <2>9. VarintThen(u, n % Word, s)
    BY Zenon, <1>1, <2>2, <2>3, <2>7 DEF VarintThen
  <2> QED BY Zenon, <1>3, <2>8, <2>9
<1> QED BY Zenon, <1>2, <1>3

(* It begins with its tag, if there is one.                                *)
LEMMA ScalarBegin ==
  ASSUME NEW w, NEW k, NEW n, NEW s, ScalarThen(w, k, n, s)
  PROVE  Begins(k, w)
<1>1. k \in Nat /\ Begins(k, s) /\ 0 \in 0..7
  BY BeginsLater DEF ScalarThen
<1> QED BY Zenon, <1>1, ScalarCases, BeginsTag

(* A scalar is read back, also a zero or a negative one.                   *)
LEMMA ScalarSplit ==
  ASSUME NEW w, NEW k, NEW m, NEW n, NEW s, NEW t,
         ScalarThen(w, k, m, s), ScalarThen(w, k, n, t)
  PROVE  m = n /\ s = t
<1>1. k \in Nat /\ m \in Fits /\ n \in Fits /\ Begins(k + 1, s) /\ Begins(k + 1, t) /\ 0 \in 0..7
  BY DEF ScalarThen
<1>2. \/ m = 0 /\ w = s
      \/ m # 0 /\ \E u : VarintThen(w, 8 * k + 0, u) /\ VarintThen(u, m % Word, s)
  BY Zenon, ScalarCases
<1>3. \/ n = 0 /\ w = t
      \/ n # 0 /\ \E u : VarintThen(w, 8 * k + 0, u) /\ VarintThen(u, n % Word, t)
  BY Zenon, ScalarCases
<1>4. CASE Begins(k + 1, w)
  <2>1. \A u : ~VarintThen(w, 8 * k + 0, u)
    BY Zenon, <1>1, <1>4, TagFree
  <2> QED BY Zenon, <1>2, <1>3, <2>1
<1>5. CASE ~Begins(k + 1, w)
  <2>1. PICK u : VarintThen(w, 8 * k + 0, u) /\ VarintThen(u, m % Word, s)
    BY Zenon, <1>1, <1>2, <1>5
  <2>2. PICK v : VarintThen(w, 8 * k + 0, v) /\ VarintThen(v, n % Word, t)
    BY Zenon, <1>1, <1>3, <1>5
  <2>3. PICK i : i = 8 * k + 0
    OBVIOUS
  <2>4. VarintThen(w, i, u) /\ VarintThen(w, i, v)
    BY Zenon, <2>1, <2>2, <2>3
  <2>5. i = i /\ u = v
    BY <2>4, VarintSplit
  <2>6. m % Word = n % Word /\ s = t
    BY Zenon, <2>1, <2>2, <2>5, VarintSplit
  <2> QED BY Zenon, <1>1, <2>6, CastSplit
<1> QED BY Zenon, <1>4, <1>5

-----------------------------------------------------------------------------
(* A timestamp, whose bytes are a field when there is one.                 *)
Timestamp == [seconds : Fits, nanos : Fits]

(* A timestamp is its seconds, then its nanoseconds.                       *)
LEMMA TimestampParts ==
  ASSUME NEW time \in Timestamp
  PROVE  /\ CanonicalTimestamp(time) \in Seq(Nat)
         /\ ScalarThen(Scalar(2, time.nanos), 2, time.nanos, <<>>)
         /\ ScalarThen(CanonicalTimestamp(time), 1, time.seconds, Scalar(2, time.nanos))
<1>1. PICK sec \in Fits : sec = time.seconds
  BY DEF Timestamp
<1>2. PICK nan \in Fits : nan = time.nanos
  BY DEF Timestamp
<1>3. PICK a \in Seq(Nat) : a = Scalar(1, sec)
  BY ScalarType
<1>4. PICK b \in Seq(Nat) : b = Scalar(2, nan)
  BY ScalarType
<1>5. PICK none : none = <<>>
  OBVIOUS
<1>6. b \o none = b
  BY <1>5, EmptyConcat
<1>7. 1 \in Nat /\ 2 \in Nat /\ 3 \in Nat /\ 2 + 1 = 3 /\ 1 + 1 = 2
  OBVIOUS
<1>8. Begins(3, none)
  BY <1>5, <1>7, BeginsEmpty
<1>9. ScalarThen(b, 2, nan, none)
  BY Zenon, <1>4, <1>6, <1>7, <1>8 DEF ScalarThen
<1>10. Begins(2, b)
  BY Zenon, <1>9, ScalarBegin
<1>11. PICK c \in Seq(Nat) : c = a \o b
  BY ConcatIs
<1>12. ScalarThen(c, 1, sec, b)
  BY Zenon, <1>3, <1>7, <1>10, <1>11 DEF ScalarThen
<1>13. CanonicalTimestamp(time) = c
  BY Zenon, <1>1, <1>2, <1>3, <1>4, <1>11 DEF CanonicalTimestamp
<1> QED BY Zenon, <1>1, <1>2, <1>4, <1>5, <1>9, <1>12, <1>13

(* It is read back as it was written.                                      *)
LEMMA TimestampSplit ==
  ASSUME NEW a \in Timestamp, NEW b \in Timestamp,
         CanonicalTimestamp(a) = CanonicalTimestamp(b)
  PROVE  a = b
<1>1. PICK w : w = CanonicalTimestamp(a)
  OBVIOUS
<1>2. PICK x : x = Scalar(2, a.nanos)
  OBVIOUS
<1>3. PICK y : y = Scalar(2, b.nanos)
  OBVIOUS
<1>4. PICK none : none = <<>>
  OBVIOUS
<1>5. ScalarThen(w, 1, a.seconds, x) /\ ScalarThen(x, 2, a.nanos, none)
  BY Zenon, <1>1, <1>2, <1>4, TimestampParts
<1>6. ScalarThen(w, 1, b.seconds, y) /\ ScalarThen(y, 2, b.nanos, none)
  BY Zenon, <1>1, <1>3, <1>4, TimestampParts
<1>7. a.seconds = b.seconds /\ x = y
  BY Zenon, <1>5, <1>6, ScalarSplit
<1>8. ScalarThen(x, 2, b.nanos, none)
  BY Zenon, <1>6, <1>7
<1>9. a.nanos = b.nanos
  BY <1>5, <1>8, ScalarSplit
<1> QED BY <1>7, <1>9 DEF Timestamp

Timestamps == {<<>>} \cup {<<time>> : time \in Timestamp}

OptionalThen(w, k, x, s) ==
  k \in Nat /\ x \in Timestamps /\ Begins(k + 1, s) /\ w = Optional(k, x) \o s

(* It is left out, or is a field of bytes.                                 *)
LEMMA OptionalCases ==
  ASSUME NEW w, NEW k, NEW x, NEW s, OptionalThen(w, k, x, s)
  PROVE  \/ x = <<>> /\ w = s
         \/ \E time \in Timestamp :
              x = <<time>> /\ BytesThen(w, k, CanonicalTimestamp(time), s)
<1>1. k \in Nat /\ x \in Timestamps /\ s \in Seq(Nat) /\ w = Optional(k, x) \o s
  BY Zenon, BeginsLater DEF OptionalThen
<1>2. CASE x = <<>>
  BY Zenon, <1>1, <1>2, EmptyConcat DEF Optional
<1>3. CASE x # <<>>
  <2>1. PICK time \in Timestamp : x = <<time>>
    BY <1>1, <1>3 DEF Timestamps
  <2>2. x[1] = time
    BY <2>1
  <2>3. CanonicalTimestamp(time) \in Seq(Nat)
    BY Zenon, TimestampParts
  <2>4. Optional(k, x) = Bytes(k, CanonicalTimestamp(time))
    BY Zenon, <1>3, <2>2 DEF Optional
  <2> QED BY Zenon, <1>1, <2>1, <2>3, <2>4 DEF BytesThen
<1> QED BY Zenon, <1>2, <1>3

(* The field is a sequence.                                                *)
LEMMA OptionalType ==
  ASSUME NEW k \in Nat, NEW x \in Timestamps
  PROVE  Optional(k, x) \in Seq(Nat)
<1>1. CASE x = <<>>
  <2>1. Optional(k, x) = <<>>
    BY <1>1 DEF Optional
  <2> QED BY <2>1, EmptyConcat
<1>2. CASE x # <<>>
  <2>1. PICK time \in Timestamp : x = <<time>>
    BY <1>2 DEF Timestamps
  <2>2. x[1] = time
    BY <2>1
  <2>3. CanonicalTimestamp(time) \in Seq(Nat)
    BY Zenon, TimestampParts
  <2> QED BY Zenon, <1>2, <2>2, <2>3, BytesType DEF Optional
<1> QED BY Zenon, <1>1, <1>2

(* It begins with its tag, if there is one.                                *)
LEMMA OptionalBegin ==
  ASSUME NEW w, NEW k, NEW x, NEW s, OptionalThen(w, k, x, s)
  PROVE  Begins(k, w)
<1>1. Begins(k, s)
  BY Zenon, BeginsLater DEF OptionalThen
<1> QED BY Zenon, <1>1, OptionalCases, BytesBegin

(* The field is read back, and its absence is not a timestamp of zero.     *)
LEMMA OptionalSplit ==
  ASSUME NEW w, NEW k, NEW x, NEW y, NEW s, NEW t,
         OptionalThen(w, k, x, s), OptionalThen(w, k, y, t)
  PROVE  x = y /\ s = t
<1>1. Begins(k + 1, s) /\ Begins(k + 1, t)
  BY Zenon DEF OptionalThen
<1>2. \/ x = <<>> /\ w = s
      \/ \E time \in Timestamp :
           x = <<time>> /\ BytesThen(w, k, CanonicalTimestamp(time), s)
  BY Zenon, OptionalCases
<1>3. \/ y = <<>> /\ w = t
      \/ \E time \in Timestamp :
           y = <<time>> /\ BytesThen(w, k, CanonicalTimestamp(time), t)
  BY Zenon, OptionalCases
<1>4. CASE Begins(k + 1, w)
  <2>1. \A time, u : ~BytesThen(w, k, CanonicalTimestamp(time), u)
    BY Zenon, <1>4, BytesFree
  <2> QED BY Zenon, <1>2, <1>3, <2>1
<1>5. CASE ~Begins(k + 1, w)
  <2>1. PICK a \in Timestamp : x = <<a>> /\ BytesThen(w, k, CanonicalTimestamp(a), s)
    BY Zenon, <1>1, <1>2, <1>5
  <2>2. PICK b \in Timestamp : y = <<b>> /\ BytesThen(w, k, CanonicalTimestamp(b), t)
    BY Zenon, <1>1, <1>3, <1>5
  <2>3. CanonicalTimestamp(a) = CanonicalTimestamp(b) /\ s = t
    BY <2>1, <2>2, BytesSplit
  <2>4. a = b
    BY Zenon, <2>3, TimestampSplit
  <2> QED BY Zenon, <2>1, <2>2, <2>3, <2>4
<1> QED BY Zenon, <1>4, <1>5

-----------------------------------------------------------------------------
(* Sequences one after the other: the beginnings of what they make.        *)
FlattensTo(f, seqs, N) ==
  f \in [1..N -> Seq(Nat)]
  /\ \A i \in 1..N : f[i] = IF i = 1 THEN seqs[i] ELSE f[i - 1] \o seqs[i]

(* There are such beginnings.                                              *)
LEMMA FlattenExists ==
  ASSUME NEW seqs \in Seq(Seq(Nat)), NEW N \in 0..Len(seqs)
  PROVE  \E f : FlattensTo(f, seqs, N)
<1> SUFFICES ASSUME ~\E f : FlattensTo(f, seqs, N) PROVE FALSE
  OBVIOUS
<1>1. PICK T : T = {M \in 0..Len(seqs) : ~\E f : FlattensTo(f, seqs, M)}
  OBVIOUS
<1>2. T \in SUBSET Nat /\ T # {}
  BY <1>1
<1>3. PICK M \in T : \A j \in T : M <= j
  BY Zenon, <1>2, LeastNatural
<1>4. M \in 0..Len(seqs) /\ ~\E f : FlattensTo(f, seqs, M)
  BY Zenon, <1>1
<1>5. CASE M = 0
  <2>1. FlattensTo([i \in 1..0 |-> <<>>], seqs, 0)
    BY DEF FlattensTo
  <2> QED BY Zenon, <1>4, <1>5, <2>1
<1>6. CASE M # 0
  <2>1. M - 1 \in 0..Len(seqs) /\ M - 1 \in Nat /\ ~(M <= M - 1) /\ M \in 1..Len(seqs)
    BY <1>4, <1>6
  <2>2. PICK old : FlattensTo(old, seqs, M - 1)
    BY Zenon, <1>1, <1>3, <2>1
  <2>3. /\ old \in [1..M - 1 -> Seq(Nat)]
        /\ \A i \in 1..M - 1 : old[i] = IF i = 1 THEN seqs[i] ELSE old[i - 1] \o seqs[i]
    BY Zenon, <2>2 DEF FlattensTo
  <2>4. seqs[M] \in Seq(Nat)
    BY <2>1
  <2>5. PICK last \in Seq(Nat) : last = IF M = 1 THEN seqs[M] ELSE old[M - 1] \o seqs[M]
    <3>1. M # 1 => old[M - 1] \in Seq(Nat)
      BY <1>4, <1>6, <2>3
    <3>2. M # 1 => old[M - 1] \o seqs[M] \in Seq(Nat)
      BY Zenon, <2>4, <3>1, ConcatIs
    <3> QED BY Zenon, <2>4, <3>2
  <2>6. PICK f : f = [i \in 1..M |-> IF i = M THEN last ELSE old[i]]
    OBVIOUS
  <2>7. f \in [1..M -> Seq(Nat)]
    BY <1>4, <2>3, <2>6
  <2>8. f[M] = last /\ \A i \in 1..M - 1 : f[i] = old[i]
    BY <1>4, <1>6, <2>6
  <2>9. ASSUME NEW i \in 1..M
        PROVE  f[i] = IF i = 1 THEN seqs[i] ELSE f[i - 1] \o seqs[i]
    <3>1. i # 1 => i - 1 \in 1..M - 1
      BY <1>4
    <3>2. i # 1 => f[i - 1] = old[i - 1]
      BY <2>8, <3>1
    <3>3. CASE i = M
      BY Zenon, <2>5, <2>8, <3>2, <3>3
    <3>4. CASE i # M
      <4>1. i \in 1..M - 1
        BY <1>4, <3>4
      <4> QED BY Zenon, <2>3, <2>8, <3>2, <4>1
    <3> QED BY <3>3, <3>4
  <2>10. FlattensTo(f, seqs, M)
    BY Zenon, <2>7, <2>9 DEF FlattensTo
  <2> QED BY Zenon, <1>4, <2>10
<1> QED BY <1>5, <1>6

(* FlattenSeq is the last of them.                                         *)
LEMMA FlattenIs ==
  ASSUME NEW seqs \in Seq(Seq(Nat)), Len(seqs) # 0
  PROVE  \E f : FlattensTo(f, seqs, Len(seqs)) /\ FlattenSeq(seqs) = f[Len(seqs)]
<1>1. PICK f : f = CHOOSE h : h = [i \in 1..Len(seqs) |->
                  IF i = 1 THEN seqs[i] ELSE h[i - 1] \o seqs[i]]
  OBVIOUS
<1>2. FlattenSeq(seqs) = f[Len(seqs)]
  BY Zenon, <1>1 DEF FlattenSeq
<1>3. PICK N : N = Len(seqs)
  OBVIOUS
<1>4. N \in 0..Len(seqs)
  BY <1>3
<1>5. PICK g : FlattensTo(g, seqs, N)
  BY Zenon, <1>4, FlattenExists
<1>6. /\ g \in [1..N -> Seq(Nat)]
      /\ \A i \in 1..N : g[i] = IF i = 1 THEN seqs[i] ELSE g[i - 1] \o seqs[i]
  BY Zenon, <1>5 DEF FlattensTo
<1>7. g = [i \in 1..N |-> IF i = 1 THEN seqs[i] ELSE g[i - 1] \o seqs[i]]
  BY Zenon, <1>6
<1>8. f = [i \in 1..N |-> IF i = 1 THEN seqs[i] ELSE f[i - 1] \o seqs[i]]
  BY Zenon, <1>1, <1>3, <1>7
<1>9. \A i \in 1..N : f[i] = IF i = 1 THEN seqs[i] ELSE f[i - 1] \o seqs[i]
  BY Zenon, <1>8
<1>10. PICK T : T = {i \in 1..N : f[i] # g[i]}
  OBVIOUS
<1>11. T = {}
  <2> SUFFICES ASSUME T # {} PROVE FALSE
    OBVIOUS
  <2>1. T \in SUBSET Nat
    BY <1>10
  <2>2. PICK i \in T : \A j \in T : i <= j
    BY Zenon, <2>1, LeastNatural
  <2>3. i \in 1..N /\ f[i] # g[i]
    BY Zenon, <1>10
  <2>4. N \in Nat
    BY <1>3
  <2>5. i # 1 => i - 1 \in 1..N /\ ~(i <= i - 1)
    BY <2>3, <2>4
  <2>6. i # 1 => f[i - 1] = g[i - 1]
    BY Zenon, <1>10, <2>2, <2>5
  <2> QED BY Zenon, <1>6, <1>9, <2>3, <2>6
<1>12. \A i \in 1..N : f[i] = g[i]
  BY Zenon, <1>10, <1>11
<1>13. f = [i \in 1..N |-> f[i]]
  BY Zenon, <1>8
<1>14. f \in [1..N -> Seq(Nat)]
  BY <1>6, <1>12, <1>13
<1>15. FlattensTo(f, seqs, N)
  BY Zenon, <1>9, <1>14 DEF FlattensTo
<1> QED BY Zenon, <1>2, <1>3, <1>15

-----------------------------------------------------------------------------
(* A repeated field: the beginnings of its bytes, and what is left of the  *)
(* whole after each.                                                       *)
Joined(g, k, xs) ==
  /\ xs \in Seq(Seq(Nat)) /\ g \in [0..Len(xs) -> Seq(Nat)] /\ g[0] = <<>>
  /\ \A i \in 1..Len(xs) : g[i] = g[i - 1] \o Bytes(k, xs[i])

(* A repeated field has such beginnings, the last of them the whole.       *)
LEMMA RepeatedIs ==
  ASSUME NEW k \in Nat, NEW xs \in Seq(Seq(Nat))
  PROVE  \E g : Joined(g, k, xs) /\ Repeated(k, xs) = g[Len(xs)]
<1>1. PICK N \in Nat : N = Len(xs)
  OBVIOUS
<1>2. \A i \in 1..N : xs[i] \in Seq(Nat)
  BY <1>1
<1>3. PICK seqs : seqs = [i \in 1..N |-> Bytes(k, xs[i])]
  OBVIOUS
<1>4. \A i \in 1..N : seqs[i] = Bytes(k, xs[i]) /\ seqs[i] \in Seq(Nat)
  BY Zenon, <1>2, <1>3, BytesType
<1>5. seqs \in Seq(Seq(Nat)) /\ Len(seqs) = N
  BY <1>3, <1>4
<1>6. Repeated(k, xs) = FlattenSeq(seqs)
  <2>1. DOMAIN xs = 1..N
    BY <1>1
  <2> QED BY Zenon, <1>3, <2>1 DEF Repeated
<1>7. CASE N = 0
  <2>1. FlattenSeq(seqs) = <<>>
    BY <1>5, <1>7 DEF FlattenSeq
  <2>2. PICK g : g = [i \in 0..0 |-> <<>>]
    OBVIOUS
  <2>3. g \in [0..0 -> Seq(Nat)] /\ g[0] = <<>>
    BY <2>2
  <2>4. \A i \in 1..0 : g[i] = g[i - 1] \o Bytes(k, xs[i])
    OBVIOUS
  <2>5. Joined(g, k, xs)
    BY Zenon, <1>1, <1>7, <2>3, <2>4 DEF Joined
  <2> QED BY Zenon, <1>1, <1>6, <1>7, <2>1, <2>3, <2>5
<1>8. CASE N # 0
  <2>1. PICK f : FlattensTo(f, seqs, N) /\ FlattenSeq(seqs) = f[N]
    BY Zenon, <1>5, <1>8, FlattenIs
  <2>2. /\ f \in [1..N -> Seq(Nat)]
        /\ \A i \in 1..N : f[i] = IF i = 1 THEN seqs[i] ELSE f[i - 1] \o seqs[i]
    BY Zenon, <2>1 DEF FlattensTo
  <2>0. PICK none : none = <<>>
    OBVIOUS
  <2>3. none = <<>> /\ none \in Seq(Nat)
    BY <2>0
  <2>4. PICK g : g = [i \in 0..N |-> IF i = 0 THEN none ELSE f[i]]
    OBVIOUS
  <2>5. g \in [0..N -> Seq(Nat)]
    <3>1. \A i \in 0..N : i # 0 => i \in 1..N
      OBVIOUS
    <3>2. \A i \in 0..N : g[i] \in Seq(Nat)
      BY Zenon, <2>2, <2>3, <2>4, <3>1
    <3> QED BY Zenon, <2>4, <3>2
  <2>6. g[0] = none /\ \A i \in 1..N : g[i] = f[i]
    BY <2>4
  <2>7. ASSUME NEW i \in 1..N PROVE g[i] = g[i - 1] \o Bytes(k, xs[i])
    <3>1. CASE i = 1
      <4>1. i - 1 = 0
        BY <3>1
      <4>2. none \o Bytes(k, xs[i]) = Bytes(k, xs[i])
        BY Zenon, <1>4, <2>3, EmptyConcat
      <4>3. g[i] = Bytes(k, xs[i])
        BY Zenon, <1>4, <2>2, <2>6, <3>1
      <4> QED BY Zenon, <2>6, <4>1, <4>2, <4>3
    <3>2. CASE i # 1
      <4>1. i - 1 \in 1..N
        BY <3>2
      <4> QED BY Zenon, <1>4, <2>2, <2>6, <3>2, <4>1
    <3> QED BY <3>1, <3>2
  <2>8. Joined(g, k, xs)
    BY Zenon, <1>1, <2>3, <2>5, <2>6, <2>7 DEF Joined
  <2>9. N \in 1..N
    BY <1>8
  <2> QED BY Zenon, <1>1, <1>6, <2>1, <2>6, <2>8, <2>9
<1> QED BY <1>7, <1>8

Extends(a, b) == \E r \in Seq(Nat) : a = b \o r

(* Each is a beginning of every later one.                                 *)
LEMMA JoinedPrefix ==
  ASSUME NEW g, NEW k \in Nat, NEW xs, Joined(g, k, xs),
         NEW i \in 0..Len(xs), NEW n \in i..Len(xs)
  PROVE  Extends(g[n], g[i])
<1> SUFFICES ASSUME ~Extends(g[n], g[i]) PROVE FALSE
  OBVIOUS
<1>1. PICK N \in Nat : N = Len(xs)
  BY DEF Joined
<1>2. /\ xs \in Seq(Seq(Nat)) /\ g \in [0..N -> Seq(Nat)]
      /\ \A j \in 1..N : g[j] = g[j - 1] \o Bytes(k, xs[j])
  BY <1>1 DEF Joined
<1>3. PICK T : T = {m \in i..N : ~Extends(g[m], g[i])}
  OBVIOUS
<1>4. T \in SUBSET Nat /\ T # {}
  BY <1>1, <1>3
<1>5. PICK m \in T : \A j \in T : m <= j
  BY Zenon, <1>4, LeastNatural
<1>6. m \in i..N /\ ~Extends(g[m], g[i])
  BY Zenon, <1>3
<1>7. g[i] \in Seq(Nat)
  BY <1>1, <1>2
<1>8. CASE m = i
  <2>1. g[i] = g[i] \o <<>> /\ <<>> \in Seq(Nat)
    BY Zenon, <1>7, EmptyConcat
  <2> QED BY Zenon, <1>6, <1>8, <2>1 DEF Extends
<1>9. CASE m # i
  <2>1. m \in 1..N /\ m - 1 \in i..N /\ ~(m <= m - 1)
    BY <1>1, <1>6, <1>9
  <2>2. PICK r \in Seq(Nat) : g[m - 1] = g[i] \o r
    BY Zenon, <1>3, <1>5, <2>1 DEF Extends
  <2>3. xs[m] \in Seq(Nat)
    BY <1>1, <1>2, <2>1
  <2>4. PICK b \in Seq(Nat) : b = Bytes(k, xs[m])
    BY Zenon, <2>3, BytesType
  <2>5. (g[i] \o r) \o b = g[i] \o (r \o b)
    <3>1. g[i] \in Seq(Nat) /\ r \in Seq(Nat) /\ b \in Seq(Nat)
      BY Zenon, <1>7
    <3> QED BY Zenon, <3>1, ConcatAssoc
  <2>6. r \o b \in Seq(Nat)
    BY ConcatIs
  <2>7. g[m] = g[i] \o (r \o b)
    BY Zenon, <1>2, <2>1, <2>2, <2>4, <2>5
  <2> QED BY Zenon, <1>6, <2>6, <2>7 DEF Extends
<1> QED BY <1>8, <1>9

RepeatedThen(w, k, xs, s) ==
  k \in Nat /\ xs \in Seq(Seq(Nat)) /\ Begins(k + 1, s) /\ w = Repeated(k, xs) \o s

(* w, after the first i elements of a repeated field.                      *)
Left(w, g, k, xs, s, i, v) ==
  /\ v \in Seq(Nat) /\ g[i] \in Seq(Nat) /\ w = g[i] \o v
  /\ i = Len(xs) => v = s
  /\ i # Len(xs) => \E u : BytesThen(v, k, xs[i + 1], u)

(* After each beginning there is such a rest.                              *)
LEMMA LeftIs ==
  ASSUME NEW w, NEW g, NEW k, NEW xs, NEW s, RepeatedThen(w, k, xs, s),
         Joined(g, k, xs), Repeated(k, xs) = g[Len(xs)], NEW i \in 0..Len(xs)
  PROVE  \E v : Left(w, g, k, xs, s, i, v)
<1>1. k \in Nat /\ xs \in Seq(Seq(Nat)) /\ s \in Seq(Nat) /\ w = g[Len(xs)] \o s
  BY Zenon, BeginsLater DEF RepeatedThen
<1>2. PICK N \in Nat : N = Len(xs)
  BY <1>1
<1>3. g \in [0..N -> Seq(Nat)] /\ \A j \in 1..N : g[j] = g[j - 1] \o Bytes(k, xs[j])
  BY Zenon, <1>2 DEF Joined
<1>4. PICK a : a = g[i] /\ a \in Seq(Nat)
  BY <1>2, <1>3
<1>5. CASE i = N
  BY Zenon, <1>1, <1>2, <1>4, <1>5 DEF Left
<1>6. CASE i # N
  <2>1. PICK j : j = i + 1
    OBVIOUS
  <2>2. j \in 1..N /\ j - 1 = i /\ j \in 0..Len(xs) /\ N \in j..Len(xs)
    BY <1>2, <1>6, <2>1
  <2>3. PICK r : r \in Seq(Nat) /\ g[N] = g[j] \o r
    <3>1. Extends(g[N], g[j])
      BY <1>1, <2>2, JoinedPrefix
    <3> QED BY Zenon, <3>1 DEF Extends
  <2>4. xs[j] \in Seq(Nat)
    BY <1>1, <1>2, <2>2
  <2>5. PICK b : b = Bytes(k, xs[j]) /\ b \in Seq(Nat)
    BY Zenon, <1>1, <2>4, BytesType
  <2>6. w = ((a \o b) \o r) \o s
    BY Zenon, <1>1, <1>2, <1>3, <1>4, <2>2, <2>3, <2>5
  <2>7. PICK ab : ab = a \o b /\ ab \in Seq(Nat)
    BY Zenon, <1>4, <2>5, ConcatIs
  <2>8. PICK u : u = r \o s /\ u \in Seq(Nat)
    BY Zenon, <1>1, <2>3, ConcatIs
  <2>9. PICK v : v = b \o u /\ v \in Seq(Nat)
    BY Zenon, <2>5, <2>8, ConcatIs
  <2>10. (ab \o r) \o s = ab \o (r \o s)
    <3>1. ab \in Seq(Nat) /\ r \in Seq(Nat) /\ s \in Seq(Nat)
      BY Zenon, <1>1, <2>3, <2>7
    <3> QED BY Zenon, <3>1, ConcatAssoc
  <2>11. (a \o b) \o u = a \o (b \o u)
    <3>1. a \in Seq(Nat) /\ b \in Seq(Nat) /\ u \in Seq(Nat)
      BY Zenon, <1>4, <2>5, <2>8
    <3> QED BY Zenon, <3>1, ConcatAssoc
  <2>12. w = a \o v
    BY Zenon, <2>6, <2>7, <2>8, <2>9, <2>10, <2>11
  <2>13. BytesThen(v, k, xs[i + 1], u)
    BY Zenon, <1>1, <2>1, <2>4, <2>5, <2>8, <2>9 DEF BytesThen
  <2> QED BY Zenon, <1>2, <1>4, <1>6, <2>9, <2>12, <2>13 DEF Left
<1> QED BY <1>5, <1>6

(* A repeated field is a sequence.                                         *)
LEMMA RepeatedType ==
  ASSUME NEW k \in Nat, NEW xs \in Seq(Seq(Nat))
  PROVE  Repeated(k, xs) \in Seq(Nat)
<1>1. PICK g : Joined(g, k, xs) /\ Repeated(k, xs) = g[Len(xs)]
  BY Zenon, RepeatedIs
<1>2. g \in [0..Len(xs) -> Seq(Nat)] /\ Len(xs) \in 0..Len(xs)
  BY <1>1 DEF Joined
<1> QED BY Zenon, <1>1, <1>2

(* It begins with its tag, if it has elements.                             *)
LEMMA RepeatedBegin ==
  ASSUME NEW w, NEW k, NEW xs, NEW s, RepeatedThen(w, k, xs, s)
  PROVE  Begins(k, w)
<1>1. k \in Nat /\ xs \in Seq(Seq(Nat)) /\ Begins(k, s)
  BY Zenon, BeginsLater DEF RepeatedThen
<1>2. PICK g : Joined(g, k, xs) /\ Repeated(k, xs) = g[Len(xs)]
  BY Zenon, <1>1, RepeatedIs
<1>3. 0 \in 0..Len(xs)
  BY <1>1
<1>4. PICK v : Left(w, g, k, xs, s, 0, v)
  BY Zenon, <1>2, <1>3, LeftIs
<1>5. v \in Seq(Nat) /\ g[0] = <<>> /\ w = g[0] \o v
  BY Zenon, <1>2, <1>4 DEF Left, Joined
<1>6. w = v
  BY Zenon, <1>5, EmptyConcat
<1> QED BY Zenon, <1>1, <1>4, <1>6, BytesBegin DEF Left

(* The same rest after the same beginning.                                 *)
LEMMA LeftSame ==
  ASSUME NEW w, NEW g, NEW h, NEW k, NEW xs, NEW ys, NEW s, NEW t, NEW i, NEW v, NEW u,
         Left(w, g, k, xs, s, i, v), Left(w, h, k, ys, t, i, u), g[i] = h[i]
  PROVE  u = v
<1>1. PICK b : b = g[i]
  OBVIOUS
<1>2. b \in Seq(Nat) /\ v \in Seq(Nat) /\ u \in Seq(Nat) /\ w = b \o v /\ w = b \o u
  BY Zenon, <1>1 DEF Left
<1>3. b = b /\ v = u
  BY <1>2, ConcatSplit
<1> QED BY <1>3

(* Two readings of the same bytes agree as far as both go.                 *)
LEMMA Agreement ==
  ASSUME NEW w, NEW g, NEW h, NEW k, NEW xs, NEW ys, NEW s, NEW t,
         RepeatedThen(w, k, xs, s), Joined(g, k, xs), Repeated(k, xs) = g[Len(xs)],
         RepeatedThen(w, k, ys, t), Joined(h, k, ys), Repeated(k, ys) = h[Len(ys)],
         NEW i \in Nat, i <= Len(xs), i <= Len(ys)
  PROVE  g[i] = h[i] /\ (i # 0 => xs[i] = ys[i])
<1> SUFFICES ASSUME ~(g[i] = h[i] /\ (i # 0 => xs[i] = ys[i])) PROVE FALSE
  OBVIOUS
<1>1. PICK T : T = {j \in 0..i : ~(g[j] = h[j] /\ (j # 0 => xs[j] = ys[j]))}
  OBVIOUS
<1>2. T \in SUBSET Nat /\ T # {}
  BY <1>1
<1>3. PICK j \in T : \A l \in T : j <= l
  BY Zenon, <1>2, LeastNatural
<1>4. j \in 0..i /\ ~(g[j] = h[j] /\ (j # 0 => xs[j] = ys[j]))
  BY Zenon, <1>1
<1>5. /\ g[0] = <<>> /\ h[0] = <<>>
      /\ \A l \in 1..Len(xs) : g[l] = g[l - 1] \o Bytes(k, xs[l])
      /\ \A l \in 1..Len(ys) : h[l] = h[l - 1] \o Bytes(k, ys[l])
  BY Zenon DEF Joined
<1>6. j # 0
  BY Zenon, <1>4, <1>5
<1>7. xs \in Seq(Seq(Nat)) /\ ys \in Seq(Seq(Nat)) /\ Len(xs) \in Nat /\ Len(ys) \in Nat
  BY DEF RepeatedThen
<1>8. PICK l : l = j - 1
  OBVIOUS
<1>9. /\ l \in 0..i /\ ~(j <= l) /\ l + 1 = j /\ l # Len(xs) /\ l # Len(ys)
      /\ l \in 0..Len(xs) /\ l \in 0..Len(ys) /\ j \in 1..Len(xs) /\ j \in 1..Len(ys)
  <2>1. PICK m : m = Len(xs)
    OBVIOUS
  <2>2. PICK n : n = Len(ys)
    OBVIOUS
  <2>3. m \in Nat /\ n \in Nat /\ i <= m /\ i <= n
    BY Zenon, <1>7, <2>1, <2>2
  <2>4. /\ l \in 0..i /\ ~(j <= l) /\ l + 1 = j /\ l # m /\ l # n
        /\ l \in 0..m /\ l \in 0..n /\ j \in 1..m /\ j \in 1..n
    BY <1>4, <1>6, <1>8, <2>3
  <2> QED BY Zenon, <2>1, <2>2, <2>4
<1>10. g[l] = h[l]
  BY Zenon, <1>1, <1>3, <1>9
<1>11. PICK v : Left(w, g, k, xs, s, l, v)
  BY Zenon, <1>9, LeftIs
<1>12. PICK u : Left(w, h, k, ys, t, l, u)
  BY Zenon, <1>9, LeftIs
<1>13. u = v
  BY Zenon, <1>10, <1>11, <1>12, LeftSame
<1>14. PICK a : BytesThen(v, k, xs[j], a)
  BY Zenon, <1>9, <1>11 DEF Left
<1>15. PICK b : BytesThen(v, k, ys[j], b)
  BY Zenon, <1>9, <1>12, <1>13 DEF Left
<1>16. xs[j] = ys[j] /\ a = b
  BY <1>14, <1>15, BytesSplit
<1>17. g[j] = h[j]
  BY Zenon, <1>5, <1>8, <1>9, <1>10, <1>16
<1> QED BY Zenon, <1>4, <1>16, <1>17

(* Neither reading stops before the other.                                 *)
LEMMA NotShorter ==
  ASSUME NEW w, NEW k, NEW xs, NEW ys, NEW s, NEW t,
         RepeatedThen(w, k, xs, s), RepeatedThen(w, k, ys, t)
  PROVE  Len(xs) >= Len(ys)
<1> SUFFICES ASSUME Len(xs) < Len(ys) PROVE FALSE
  <2>1. Len(xs) \in Nat /\ Len(ys) \in Nat
    BY DEF RepeatedThen
  <2> QED BY <2>1
<1>1. k \in Nat /\ xs \in Seq(Seq(Nat)) /\ ys \in Seq(Seq(Nat)) /\ Begins(k + 1, s)
  BY Zenon DEF RepeatedThen
<1>2. PICK g : Joined(g, k, xs) /\ Repeated(k, xs) = g[Len(xs)]
  BY Zenon, <1>1, RepeatedIs
<1>3. PICK h : Joined(h, k, ys) /\ Repeated(k, ys) = h[Len(ys)]
  BY Zenon, <1>1, RepeatedIs
<1>4. PICK i : i = Len(xs)
  OBVIOUS
<1>5. i \in Nat /\ i <= Len(xs) /\ i <= Len(ys) /\ i \in 0..Len(xs) /\ i \in 0..Len(ys) /\ i # Len(ys)
  BY <1>1, <1>4
<1>6. g[i] = h[i]
  BY <1>2, <1>3, <1>5, Agreement
<1>7. PICK v : Left(w, g, k, xs, s, i, v)
  BY Zenon, <1>2, <1>5, LeftIs
<1>8. PICK u : Left(w, h, k, ys, t, i, u)
  BY Zenon, <1>3, <1>5, LeftIs
<1>9. u = v
  BY Zenon, <1>6, <1>7, <1>8, LeftSame
<1>10. v = s
  BY Zenon, <1>4, <1>7 DEF Left
<1>11. PICK b : BytesThen(u, k, ys[i + 1], b)
  BY Zenon, <1>5, <1>8 DEF Left
<1> QED BY Zenon, <1>1, <1>9, <1>10, <1>11, BytesFree

(* A repeated field is read back, empty elements and all.                  *)
LEMMA RepeatedSplit ==
  ASSUME NEW w, NEW k, NEW xs, NEW ys, NEW s, NEW t,
         RepeatedThen(w, k, xs, s), RepeatedThen(w, k, ys, t)
  PROVE  xs = ys /\ s = t
<1>1. k \in Nat /\ xs \in Seq(Seq(Nat)) /\ ys \in Seq(Seq(Nat))
  BY Zenon DEF RepeatedThen
<1>2. PICK g : Joined(g, k, xs) /\ Repeated(k, xs) = g[Len(xs)]
  BY Zenon, <1>1, RepeatedIs
<1>3. PICK h : Joined(h, k, ys) /\ Repeated(k, ys) = h[Len(ys)]
  BY Zenon, <1>1, RepeatedIs
<1>4. Len(xs) >= Len(ys) /\ Len(ys) >= Len(xs)
  BY Zenon, NotShorter
<1>5. PICK N \in Nat : N = Len(xs)
  BY <1>1
<1>6. Len(ys) = N
  BY <1>1, <1>4, <1>5
<1>7. \A i \in 1..N : xs[i] = ys[i]
  <2> SUFFICES ASSUME NEW i \in 1..N PROVE xs[i] = ys[i]
    OBVIOUS
  <2>1. i \in Nat /\ i <= Len(xs) /\ i <= Len(ys) /\ i # 0
    BY <1>5, <1>6
  <2> QED BY <1>2, <1>3, <2>1, Agreement
<1>8. xs = ys
  BY <1>1, <1>5, <1>6, <1>7, SameSeq
<1>9. N \in 0..Len(xs) /\ N \in 0..Len(ys) /\ N \in Nat /\ N <= Len(xs) /\ N <= Len(ys)
  BY <1>5, <1>6
<1>10. g[N] = h[N]
  BY <1>2, <1>3, <1>9, Agreement
<1>11. PICK v : Left(w, g, k, xs, s, N, v)
  BY Zenon, <1>2, <1>9, LeftIs
<1>12. PICK u : Left(w, h, k, ys, t, N, u)
  BY Zenon, <1>3, <1>9, LeftIs
<1>13. u = v
  BY Zenon, <1>10, <1>11, <1>12, LeftSame
<1>14. v = s /\ u = t
  BY Zenon, <1>5, <1>6, <1>11, <1>12 DEF Left
<1> QED BY Zenon, <1>8, <1>13, <1>14

-----------------------------------------------------------------------------
(* An envelope, whatever its signature is.                                 *)
EnvelopeOver(Signature) ==
  [message_id : Seq(Nat), correlation_id : Seq(Nat), source_agent_id : Seq(Nat),
   source_city : Seq(Nat), target_topic : Seq(Nat), timestamp : Timestamps,
   priority : Fits, type : Fits, payload : Seq(Nat),
   causal_message_ids : Seq(Seq(Nat)), schema_version : Seq(Nat),
   nonce : Seq(Nat), signature : Signature]

(* Its canonical bytes from a field on.                                    *)
From12(e) == Bytes(12, e.nonce) \o <<>>
From11(e) == Text(11, e.schema_version) \o From12(e)
From10(e) == Repeated(10, e.causal_message_ids) \o From11(e)
From9(e) == Bytes(9, e.payload) \o From10(e)
From8(e) == Scalar(8, e.type) \o From9(e)
From7(e) == Scalar(7, e.priority) \o From8(e)
From6(e) == Optional(6, e.timestamp) \o From7(e)
From5(e) == Text(5, e.target_topic) \o From6(e)
From4(e) == Text(4, e.source_city) \o From5(e)
From3(e) == Text(3, e.source_agent_id) \o From4(e)
From2(e) == Text(2, e.correlation_id) \o From3(e)
From1(e) == Text(1, e.message_id) \o From2(e)

(* Each is its field, with the rest after it.                              *)
Pieces(e) ==
  /\ TextThen(From1(e), 1, e.message_id, From2(e))
  /\ TextThen(From2(e), 2, e.correlation_id, From3(e))
  /\ TextThen(From3(e), 3, e.source_agent_id, From4(e))
  /\ TextThen(From4(e), 4, e.source_city, From5(e))
  /\ TextThen(From5(e), 5, e.target_topic, From6(e))
  /\ OptionalThen(From6(e), 6, e.timestamp, From7(e))
  /\ ScalarThen(From7(e), 7, e.priority, From8(e))
  /\ ScalarThen(From8(e), 8, e.type, From9(e))
  /\ BytesThen(From9(e), 9, e.payload, From10(e))
  /\ RepeatedThen(From10(e), 10, e.causal_message_ids, From11(e))
  /\ TextThen(From11(e), 11, e.schema_version, From12(e))
  /\ BytesThen(From12(e), 12, e.nonce, <<>>)

(* Every envelope is read in twelve pieces.                                *)
LEMMA EnvelopeHasPieces ==
  ASSUME NEW Signature, NEW e \in EnvelopeOver(Signature)
  PROVE  Pieces(e)
<1>0. /\ e.message_id \in Seq(Nat) /\ e.correlation_id \in Seq(Nat)
      /\ e.source_agent_id \in Seq(Nat) /\ e.source_city \in Seq(Nat)
      /\ e.target_topic \in Seq(Nat) /\ e.timestamp \in Timestamps
      /\ e.priority \in Fits /\ e.type \in Fits /\ e.payload \in Seq(Nat)
      /\ e.causal_message_ids \in Seq(Seq(Nat)) /\ e.schema_version \in Seq(Nat)
      /\ e.nonce \in Seq(Nat)
  BY DEF EnvelopeOver
<1>12. BytesThen(From12(e), 12, e.nonce, <<>>)
  <2>1. 12 \in Nat /\ <<>> \in Seq(Nat)
    OBVIOUS
  <2> QED BY Zenon, <1>0, <2>1 DEF BytesThen, From12
<1>11. TextThen(From11(e), 11, e.schema_version, From12(e))
  <2>1. 11 \in Nat /\ 11 + 1 = 12
    OBVIOUS
  <2>2. Begins(12, From12(e))
    BY Zenon, <1>12, BytesBegin
  <2> QED BY Zenon, <1>0, <2>1, <2>2 DEF TextThen, From11
<1>10. RepeatedThen(From10(e), 10, e.causal_message_ids, From11(e))
  <2>1. 10 \in Nat /\ 10 + 1 = 11
    OBVIOUS
  <2>2. Begins(11, From11(e))
    BY Zenon, <1>11, TextBegin
  <2> QED BY Zenon, <1>0, <2>1, <2>2 DEF RepeatedThen, From10
<1>9. BytesThen(From9(e), 9, e.payload, From10(e))
  <2>1. 9 \in Nat /\ 9 + 1 = 10
    OBVIOUS
  <2>2. Begins(10, From10(e))
    BY Zenon, <1>10, RepeatedBegin
  <2>3. From10(e) \in Seq(Nat)
    BY Zenon, <2>2 DEF Begins
  <2> QED BY Zenon, <1>0, <2>1, <2>3 DEF BytesThen, From9
<1>8. ScalarThen(From8(e), 8, e.type, From9(e))
  <2>1. 8 \in Nat /\ 8 + 1 = 9
    OBVIOUS
  <2>2. Begins(9, From9(e))
    BY Zenon, <1>9, BytesBegin
  <2> QED BY Zenon, <1>0, <2>1, <2>2 DEF ScalarThen, From8
<1>7. ScalarThen(From7(e), 7, e.priority, From8(e))
  <2>1. 7 \in Nat /\ 7 + 1 = 8
    OBVIOUS
  <2>2. Begins(8, From8(e))
    BY Zenon, <1>8, ScalarBegin
  <2> QED BY Zenon, <1>0, <2>1, <2>2 DEF ScalarThen, From7
<1>6. OptionalThen(From6(e), 6, e.timestamp, From7(e))
  <2>1. 6 \in Nat /\ 6 + 1 = 7
    OBVIOUS
  <2>2. Begins(7, From7(e))
    BY Zenon, <1>7, ScalarBegin
  <2> QED BY Zenon, <1>0, <2>1, <2>2 DEF OptionalThen, From6
<1>5. TextThen(From5(e), 5, e.target_topic, From6(e))
  <2>1. 5 \in Nat /\ 5 + 1 = 6
    OBVIOUS
  <2>2. Begins(6, From6(e))
    BY Zenon, <1>6, OptionalBegin
  <2> QED BY Zenon, <1>0, <2>1, <2>2 DEF TextThen, From5
<1>4. TextThen(From4(e), 4, e.source_city, From5(e))
  <2>1. 4 \in Nat /\ 4 + 1 = 5
    OBVIOUS
  <2>2. Begins(5, From5(e))
    BY Zenon, <1>5, TextBegin
  <2> QED BY Zenon, <1>0, <2>1, <2>2 DEF TextThen, From4
<1>3. TextThen(From3(e), 3, e.source_agent_id, From4(e))
  <2>1. 3 \in Nat /\ 3 + 1 = 4
    OBVIOUS
  <2>2. Begins(4, From4(e))
    BY Zenon, <1>4, TextBegin
  <2> QED BY Zenon, <1>0, <2>1, <2>2 DEF TextThen, From3
<1>2. TextThen(From2(e), 2, e.correlation_id, From3(e))
  <2>1. 2 \in Nat /\ 2 + 1 = 3
    OBVIOUS
  <2>2. Begins(3, From3(e))
    BY Zenon, <1>3, TextBegin
  <2> QED BY Zenon, <1>0, <2>1, <2>2 DEF TextThen, From2
<1>1. TextThen(From1(e), 1, e.message_id, From2(e))
  <2>1. 1 \in Nat /\ 1 + 1 = 2
    OBVIOUS
  <2>2. Begins(2, From2(e))
    BY Zenon, <1>2, TextBegin
  <2> QED BY Zenon, <1>0, <2>1, <2>2 DEF TextThen, From1
<1> QED BY Zenon, <1>1, <1>2, <1>3, <1>4, <1>5, <1>6, <1>7, <1>8, <1>9, <1>10, <1>11, <1>12 DEF Pieces

(* The field numbers.                                                      *)
LEMMA PieceNumbers ==
  1 \in Nat /\ 2 \in Nat /\ 3 \in Nat /\ 4 \in Nat /\ 5 \in Nat /\ 6 \in Nat
  /\ 7 \in Nat /\ 8 \in Nat /\ 9 \in Nat /\ 10 \in Nat /\ 11 \in Nat /\ 12 \in Nat
OBVIOUS

(* The twelve together are what is signed.                                 *)
LEMMA CanonicalIs ==
  ASSUME NEW Signature, NEW e \in EnvelopeOver(Signature)
  PROVE  Canonical(e) = From1(e)
<1>0. /\ e.message_id \in Seq(Nat) /\ e.correlation_id \in Seq(Nat)
      /\ e.source_agent_id \in Seq(Nat) /\ e.source_city \in Seq(Nat)
      /\ e.target_topic \in Seq(Nat) /\ e.timestamp \in Timestamps
      /\ e.priority \in Fits /\ e.type \in Fits /\ e.payload \in Seq(Nat)
      /\ e.causal_message_ids \in Seq(Seq(Nat)) /\ e.schema_version \in Seq(Nat)
      /\ e.nonce \in Seq(Nat)
  BY DEF EnvelopeOver
(* the pieces, *)
<1>1. PICK p1 : p1 = Text(1, e.message_id) /\ p1 \in Seq(Nat)
  BY Zenon, <1>0, TextType, PieceNumbers
<1>2. PICK p2 : p2 = Text(2, e.correlation_id) /\ p2 \in Seq(Nat)
  BY Zenon, <1>0, TextType, PieceNumbers
<1>3. PICK p3 : p3 = Text(3, e.source_agent_id) /\ p3 \in Seq(Nat)
  BY Zenon, <1>0, TextType, PieceNumbers
<1>4. PICK p4 : p4 = Text(4, e.source_city) /\ p4 \in Seq(Nat)
  BY Zenon, <1>0, TextType, PieceNumbers
<1>5. PICK p5 : p5 = Text(5, e.target_topic) /\ p5 \in Seq(Nat)
  BY Zenon, <1>0, TextType, PieceNumbers
<1>6. PICK p6 : p6 = Optional(6, e.timestamp) /\ p6 \in Seq(Nat)
  BY Zenon, <1>0, OptionalType, PieceNumbers
<1>7. PICK p7 : p7 = Scalar(7, e.priority) /\ p7 \in Seq(Nat)
  BY Zenon, <1>0, ScalarType, PieceNumbers
<1>8. PICK p8 : p8 = Scalar(8, e.type) /\ p8 \in Seq(Nat)
  BY Zenon, <1>0, ScalarType, PieceNumbers
<1>9. PICK p9 : p9 = Bytes(9, e.payload) /\ p9 \in Seq(Nat)
  BY Zenon, <1>0, BytesType, PieceNumbers
<1>10. PICK p10 : p10 = Repeated(10, e.causal_message_ids) /\ p10 \in Seq(Nat)
  BY Zenon, <1>0, RepeatedType, PieceNumbers
<1>11. PICK p11 : p11 = Text(11, e.schema_version) /\ p11 \in Seq(Nat)
  BY Zenon, <1>0, TextType, PieceNumbers
<1>12. PICK p12 : p12 = Bytes(12, e.nonce) /\ p12 \in Seq(Nat)
  BY Zenon, <1>0, BytesType, PieceNumbers
(* what is before each, *)
<1>13. PICK b2 : b2 = p1 \o p2 /\ b2 \in Seq(Nat)
  BY Zenon, <1>1, <1>2, ConcatIs
<1>14. PICK b3 : b3 = b2 \o p3 /\ b3 \in Seq(Nat)
  BY Zenon, <1>13, <1>3, ConcatIs
<1>15. PICK b4 : b4 = b3 \o p4 /\ b4 \in Seq(Nat)
  BY Zenon, <1>14, <1>4, ConcatIs
<1>16. PICK b5 : b5 = b4 \o p5 /\ b5 \in Seq(Nat)
  BY Zenon, <1>15, <1>5, ConcatIs
<1>17. PICK b6 : b6 = b5 \o p6 /\ b6 \in Seq(Nat)
  BY Zenon, <1>16, <1>6, ConcatIs
<1>18. PICK b7 : b7 = b6 \o p7 /\ b7 \in Seq(Nat)
  BY Zenon, <1>17, <1>7, ConcatIs
<1>19. PICK b8 : b8 = b7 \o p8 /\ b8 \in Seq(Nat)
  BY Zenon, <1>18, <1>8, ConcatIs
<1>20. PICK b9 : b9 = b8 \o p9 /\ b9 \in Seq(Nat)
  BY Zenon, <1>19, <1>9, ConcatIs
<1>21. PICK b10 : b10 = b9 \o p10 /\ b10 \in Seq(Nat)
  BY Zenon, <1>20, <1>10, ConcatIs
<1>22. PICK b11 : b11 = b10 \o p11 /\ b11 \in Seq(Nat)
  BY Zenon, <1>21, <1>11, ConcatIs
<1>23. PICK b12 : b12 = b11 \o p12 /\ b12 \in Seq(Nat)
  BY Zenon, <1>22, <1>12, ConcatIs
(* and what is after. *)
<1>24. From12(e) = p12 /\ From12(e) \in Seq(Nat)
  BY Zenon, <1>12, EmptyConcat DEF From12
<1>25. From11(e) = p11 \o From12(e) /\ From11(e) \in Seq(Nat)
  BY Zenon, <1>11, <1>24, ConcatIs DEF From11
<1>26. From10(e) = p10 \o From11(e) /\ From10(e) \in Seq(Nat)
  BY Zenon, <1>10, <1>25, ConcatIs DEF From10
<1>27. From9(e) = p9 \o From10(e) /\ From9(e) \in Seq(Nat)
  BY Zenon, <1>9, <1>26, ConcatIs DEF From9
<1>28. From8(e) = p8 \o From9(e) /\ From8(e) \in Seq(Nat)
  BY Zenon, <1>8, <1>27, ConcatIs DEF From8
<1>29. From7(e) = p7 \o From8(e) /\ From7(e) \in Seq(Nat)
  BY Zenon, <1>7, <1>28, ConcatIs DEF From7
<1>30. From6(e) = p6 \o From7(e) /\ From6(e) \in Seq(Nat)
  BY Zenon, <1>6, <1>29, ConcatIs DEF From6
<1>31. From5(e) = p5 \o From6(e) /\ From5(e) \in Seq(Nat)
  BY Zenon, <1>5, <1>30, ConcatIs DEF From5
<1>32. From4(e) = p4 \o From5(e) /\ From4(e) \in Seq(Nat)
  BY Zenon, <1>4, <1>31, ConcatIs DEF From4
<1>33. From3(e) = p3 \o From4(e) /\ From3(e) \in Seq(Nat)
  BY Zenon, <1>3, <1>32, ConcatIs DEF From3
<1>34. From2(e) = p2 \o From3(e) /\ From2(e) \in Seq(Nat)
  BY Zenon, <1>2, <1>33, ConcatIs DEF From2
<1>35. From1(e) = p1 \o From2(e) /\ From1(e) \in Seq(Nat)
  BY Zenon, <1>1, <1>34, ConcatIs DEF From1
<1>36. Canonical(e) = b12
  BY Zenon, <1>1, <1>2, <1>3, <1>4, <1>5, <1>6, <1>7, <1>8, <1>9, <1>10, <1>11, <1>12,
     <1>13, <1>14, <1>15, <1>16, <1>17, <1>18, <1>19, <1>20, <1>21, <1>22, <1>23 DEF Canonical
<1>37. Canonical(e) = b11 \o From12(e)
  BY Zenon, <1>36, <1>23, <1>24
<1>38. Canonical(e) = b10 \o From11(e)
  <2>1. (b10 \o p11) \o From12(e) = b10 \o (p11 \o From12(e))
    <3>1. b10 \in Seq(Nat) /\ p11 \in Seq(Nat) /\ From12(e) \in Seq(Nat)
      BY Zenon, <1>11, <1>21, <1>24
    <3> QED BY Zenon, <3>1, ConcatAssoc
  <2> QED BY Zenon, <1>37, <1>22, <1>25, <2>1
<1>39. Canonical(e) = b9 \o From10(e)
  <2>1. (b9 \o p10) \o From11(e) = b9 \o (p10 \o From11(e))
    <3>1. b9 \in Seq(Nat) /\ p10 \in Seq(Nat) /\ From11(e) \in Seq(Nat)
      BY Zenon, <1>10, <1>20, <1>25
    <3> QED BY Zenon, <3>1, ConcatAssoc
  <2> QED BY Zenon, <1>38, <1>21, <1>26, <2>1
<1>40. Canonical(e) = b8 \o From9(e)
  <2>1. (b8 \o p9) \o From10(e) = b8 \o (p9 \o From10(e))
    <3>1. b8 \in Seq(Nat) /\ p9 \in Seq(Nat) /\ From10(e) \in Seq(Nat)
      BY Zenon, <1>9, <1>19, <1>26
    <3> QED BY Zenon, <3>1, ConcatAssoc
  <2> QED BY Zenon, <1>39, <1>20, <1>27, <2>1
<1>41. Canonical(e) = b7 \o From8(e)
  <2>1. (b7 \o p8) \o From9(e) = b7 \o (p8 \o From9(e))
    <3>1. b7 \in Seq(Nat) /\ p8 \in Seq(Nat) /\ From9(e) \in Seq(Nat)
      BY Zenon, <1>8, <1>18, <1>27
    <3> QED BY Zenon, <3>1, ConcatAssoc
  <2> QED BY Zenon, <1>40, <1>19, <1>28, <2>1
<1>42. Canonical(e) = b6 \o From7(e)
  <2>1. (b6 \o p7) \o From8(e) = b6 \o (p7 \o From8(e))
    <3>1. b6 \in Seq(Nat) /\ p7 \in Seq(Nat) /\ From8(e) \in Seq(Nat)
      BY Zenon, <1>7, <1>17, <1>28
    <3> QED BY Zenon, <3>1, ConcatAssoc
  <2> QED BY Zenon, <1>41, <1>18, <1>29, <2>1
<1>43. Canonical(e) = b5 \o From6(e)
  <2>1. (b5 \o p6) \o From7(e) = b5 \o (p6 \o From7(e))
    <3>1. b5 \in Seq(Nat) /\ p6 \in Seq(Nat) /\ From7(e) \in Seq(Nat)
      BY Zenon, <1>6, <1>16, <1>29
    <3> QED BY Zenon, <3>1, ConcatAssoc
  <2> QED BY Zenon, <1>42, <1>17, <1>30, <2>1
<1>44. Canonical(e) = b4 \o From5(e)
  <2>1. (b4 \o p5) \o From6(e) = b4 \o (p5 \o From6(e))
    <3>1. b4 \in Seq(Nat) /\ p5 \in Seq(Nat) /\ From6(e) \in Seq(Nat)
      BY Zenon, <1>5, <1>15, <1>30
    <3> QED BY Zenon, <3>1, ConcatAssoc
  <2> QED BY Zenon, <1>43, <1>16, <1>31, <2>1
<1>45. Canonical(e) = b3 \o From4(e)
  <2>1. (b3 \o p4) \o From5(e) = b3 \o (p4 \o From5(e))
    <3>1. b3 \in Seq(Nat) /\ p4 \in Seq(Nat) /\ From5(e) \in Seq(Nat)
      BY Zenon, <1>4, <1>14, <1>31
    <3> QED BY Zenon, <3>1, ConcatAssoc
  <2> QED BY Zenon, <1>44, <1>15, <1>32, <2>1
<1>46. Canonical(e) = b2 \o From3(e)
  <2>1. (b2 \o p3) \o From4(e) = b2 \o (p3 \o From4(e))
    <3>1. b2 \in Seq(Nat) /\ p3 \in Seq(Nat) /\ From4(e) \in Seq(Nat)
      BY Zenon, <1>3, <1>13, <1>32
    <3> QED BY Zenon, <3>1, ConcatAssoc
  <2> QED BY Zenon, <1>45, <1>14, <1>33, <2>1
<1>47. Canonical(e) = p1 \o From2(e)
  <2>1. (p1 \o p2) \o From3(e) = p1 \o (p2 \o From3(e))
    <3>1. p1 \in Seq(Nat) /\ p2 \in Seq(Nat) /\ From3(e) \in Seq(Nat)
      BY Zenon, <1>2, <1>1, <1>33
    <3> QED BY Zenon, <3>1, ConcatAssoc
  <2> QED BY Zenon, <1>46, <1>13, <1>34, <2>1
<1> QED BY Zenon, <1>47, <1>35

SameFields(e, f) ==
  /\ e.message_id = f.message_id /\ e.correlation_id = f.correlation_id
  /\ e.source_agent_id = f.source_agent_id /\ e.source_city = f.source_city
  /\ e.target_topic = f.target_topic /\ e.timestamp = f.timestamp
  /\ e.priority = f.priority /\ e.type = f.type /\ e.payload = f.payload
  /\ e.causal_message_ids = f.causal_message_ids
  /\ e.schema_version = f.schema_version /\ e.nonce = f.nonce

(* What is signed determines the envelope (canonical.rs:25: fields are     *)
(* skipped when empty, and their lengths are all that separates them): two *)
(* envelopes with the same canonical bytes agree in every field but the    *)
(* signature, for strings of any length, any number of causal links, and   *)
(* integers that fit a word, negative ones included.                       *)
THEOREM CanonicalDetermines ==
  ASSUME NEW Signature, NEW e \in EnvelopeOver(Signature), NEW f \in EnvelopeOver(Signature),
         Canonical(e) = Canonical(f)
  PROVE  SameFields(e, f)
<1>1. Pieces(e) /\ Pieces(f)
  BY Zenon, EnvelopeHasPieces
<1>2. From1(e) = From1(f)
  BY Zenon, CanonicalIs
<1>3. e.message_id = f.message_id /\ From2(e) = From2(f)
  <2>1. PICK w : w = From1(e)
    OBVIOUS
  <2>2. TextThen(w, 1, e.message_id, From2(e)) /\ TextThen(w, 1, f.message_id, From2(f))
    BY Zenon, <1>1, <1>2, <2>1 DEF Pieces
  <2> QED BY <2>2, TextSplit
<1>4. e.correlation_id = f.correlation_id /\ From3(e) = From3(f)
  <2>1. PICK w : w = From2(e)
    OBVIOUS
  <2>2. TextThen(w, 2, e.correlation_id, From3(e)) /\ TextThen(w, 2, f.correlation_id, From3(f))
    BY Zenon, <1>1, <1>3, <2>1 DEF Pieces
  <2> QED BY <2>2, TextSplit
<1>5. e.source_agent_id = f.source_agent_id /\ From4(e) = From4(f)
  <2>1. PICK w : w = From3(e)
    OBVIOUS
  <2>2. TextThen(w, 3, e.source_agent_id, From4(e)) /\ TextThen(w, 3, f.source_agent_id, From4(f))
    BY Zenon, <1>1, <1>4, <2>1 DEF Pieces
  <2> QED BY <2>2, TextSplit
<1>6. e.source_city = f.source_city /\ From5(e) = From5(f)
  <2>1. PICK w : w = From4(e)
    OBVIOUS
  <2>2. TextThen(w, 4, e.source_city, From5(e)) /\ TextThen(w, 4, f.source_city, From5(f))
    BY Zenon, <1>1, <1>5, <2>1 DEF Pieces
  <2> QED BY <2>2, TextSplit
<1>7. e.target_topic = f.target_topic /\ From6(e) = From6(f)
  <2>1. PICK w : w = From5(e)
    OBVIOUS
  <2>2. TextThen(w, 5, e.target_topic, From6(e)) /\ TextThen(w, 5, f.target_topic, From6(f))
    BY Zenon, <1>1, <1>6, <2>1 DEF Pieces
  <2> QED BY <2>2, TextSplit
<1>8. e.timestamp = f.timestamp /\ From7(e) = From7(f)
  <2>1. PICK w : w = From6(e)
    OBVIOUS
  <2>2. OptionalThen(w, 6, e.timestamp, From7(e)) /\ OptionalThen(w, 6, f.timestamp, From7(f))
    BY Zenon, <1>1, <1>7, <2>1 DEF Pieces
  <2> QED BY <2>2, OptionalSplit
<1>9. e.priority = f.priority /\ From8(e) = From8(f)
  <2>1. PICK w : w = From7(e)
    OBVIOUS
  <2>2. ScalarThen(w, 7, e.priority, From8(e)) /\ ScalarThen(w, 7, f.priority, From8(f))
    BY Zenon, <1>1, <1>8, <2>1 DEF Pieces
  <2> QED BY <2>2, ScalarSplit
<1>10. e.type = f.type /\ From9(e) = From9(f)
  <2>1. PICK w : w = From8(e)
    OBVIOUS
  <2>2. ScalarThen(w, 8, e.type, From9(e)) /\ ScalarThen(w, 8, f.type, From9(f))
    BY Zenon, <1>1, <1>9, <2>1 DEF Pieces
  <2> QED BY <2>2, ScalarSplit
<1>11. e.payload = f.payload /\ From10(e) = From10(f)
  <2>1. PICK w : w = From9(e)
    OBVIOUS
  <2>2. BytesThen(w, 9, e.payload, From10(e)) /\ BytesThen(w, 9, f.payload, From10(f))
    BY Zenon, <1>1, <1>10, <2>1 DEF Pieces
  <2> QED BY <2>2, BytesSplit
<1>12. e.causal_message_ids = f.causal_message_ids /\ From11(e) = From11(f)
  <2>1. PICK w : w = From10(e)
    OBVIOUS
  <2>2. RepeatedThen(w, 10, e.causal_message_ids, From11(e)) /\ RepeatedThen(w, 10, f.causal_message_ids, From11(f))
    BY Zenon, <1>1, <1>11, <2>1 DEF Pieces
  <2> QED BY <2>2, RepeatedSplit
<1>13. e.schema_version = f.schema_version /\ From12(e) = From12(f)
  <2>1. PICK w : w = From11(e)
    OBVIOUS
  <2>2. TextThen(w, 11, e.schema_version, From12(e)) /\ TextThen(w, 11, f.schema_version, From12(f))
    BY Zenon, <1>1, <1>12, <2>1 DEF Pieces
  <2> QED BY <2>2, TextSplit
<1>14. e.nonce = f.nonce /\ <<>> = <<>>
  <2>1. PICK w : w = From12(e)
    OBVIOUS
  <2>2. BytesThen(w, 12, e.nonce, <<>>) /\ BytesThen(w, 12, f.nonce, <<>>)
    BY Zenon, <1>1, <1>13, <2>1 DEF Pieces
  <2> QED BY <2>2, BytesSplit
<1> QED BY Zenon, <1>3, <1>4, <1>5, <1>6, <1>7, <1>8, <1>9, <1>10, <1>11, <1>12, <1>13, <1>14 DEF SameFields

-----------------------------------------------------------------------------
(* With enumerations that are not negative the two languages agree.        *)
LEMMA LanguagesAgree ==
  ASSUME NEW Signature, NEW e \in EnvelopeOver(Signature), e.priority >= 0, e.type >= 0,
         NEW lang
  PROVE  CanonicalBy(lang, e) = Canonical(e)
<1>1. e.priority \in Int /\ e.type \in Int /\ e.timestamp \in Timestamps
  BY HalfWord DEF EnvelopeOver, Fits
<1>2. ~(e.priority < 0) /\ ~(e.type < 0)
  BY <1>1
<1>3. PyEnum(7, e.priority) = Scalar(7, e.priority) /\ PyEnum(8, e.type) = Scalar(8, e.type)
  BY Zenon, <1>2 DEF PyEnum
<1>4. PyOptional(6, PyFieldsOf(e)) = Optional(6, e.timestamp)
  <2>1. CASE e.timestamp = <<>>
    BY <2>1 DEF PyOptional, PyFieldsOf, Optional
  <2>2. CASE e.timestamp # <<>>
    BY <2>2 DEF PyOptional, PyFieldsOf, PyTimestamp, Optional, CanonicalTimestamp
  <2> QED BY <2>1, <2>2
<1> QED BY Zenon, <1>3, <1>4 DEF CanonicalBy, Canonical, PyCanonical

(* What a process signs: e with its nonce.                                 *)
Nonced(e, random) == IF e.nonce = <<>> THEN [e EXCEPT !.nonce = random] ELSE e

(* An envelope that verifies with the signature of another is that one,    *)
(* and the key it verifies with is the one it was signed with              *)
(* (envelope.rs:266): nothing can be changed, moved from one field to      *)
(* another, dropped or added, whichever language signed and verified.      *)
THEOREM VerifiedIsSigned ==
  ASSUME NEW Signature,
         NEW e \in EnvelopeOver(Signature), e.priority >= 0, e.type >= 0,
         NEW f \in EnvelopeOver(Signature), f.priority >= 0, f.type >= 0,
         NEW by, NEW lang, NEW signer, NEW other, NEW random \in Seq(Nat),
         f.signature = SignEnvelope(by, e, signer, random).signature,
         VerifyEnvelope(lang, f, other)
  PROVE  f = SignEnvelope(by, e, signer, random) /\ other = signer
<1>1. PICK n : n = Nonced(e, random)
  OBVIOUS
<1>2. n \in EnvelopeOver(Signature) /\ n.priority >= 0 /\ n.type >= 0
  BY <1>1 DEF Nonced, EnvelopeOver
<1>3. PICK mark : mark = <<[by |-> signer, over |-> CanonicalBy(by, n)]>>
  OBVIOUS
<1>4. SignEnvelope(by, e, signer, random) = [n EXCEPT !.signature = mark]
  BY Zenon, <1>1, <1>3 DEF SignEnvelope, Nonced
<1>5. f.signature = mark
  BY <1>2, <1>4 DEF EnvelopeOver
<1>6. [by |-> signer, over |-> CanonicalBy(by, n)]
        = [by |-> other, over |-> CanonicalBy(lang, f)]
  <2>1. f.signature[1] = [by |-> other, over |-> CanonicalBy(lang, f)]
    BY Zenon DEF VerifyEnvelope
  <2>2. mark[1] = [by |-> signer, over |-> CanonicalBy(by, n)]
    BY <1>3
  <2> QED BY Zenon, <1>5, <2>1, <2>2
<1>7. other = signer /\ CanonicalBy(by, n) = CanonicalBy(lang, f)
  BY <1>6
<1>8. Canonical(n) = Canonical(f)
  BY Zenon, <1>2, <1>7, LanguagesAgree
<1>9. SameFields(n, f)
  BY Zenon, <1>2, <1>8, CanonicalDetermines
<1>10. f = [n EXCEPT !.signature = mark]
  BY <1>2, <1>5, <1>9 DEF SameFields, EnvelopeOver
<1> QED BY Zenon, <1>4, <1>7, <1>10

===============================================================================
