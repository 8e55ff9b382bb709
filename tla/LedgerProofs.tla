------------------------------ MODULE LedgerProofs ------------------------------
(***************************************************************************)
(* LedgerInv is inductive, and the properties of LedgerProps follow from   *)
(* it, for every set of writers and entries, every hash and every          *)
(* signature function, and any number of crashes and power losses.  Then   *)
(* the same for CorruptionInv and the properties of LedgerCorruption, and  *)
(* for the ledger that is written first and edited then (LedgerTampered).  *)
(***************************************************************************)
EXTENDS LedgerTampered, FiniteSetTheorems, TLAPS

(* IsPrefixOf is reflexive and transitive.                                 *)
LEMMA PrefixReflexive == ASSUME NEW a PROVE IsPrefixOf(a, a)
  BY DEF IsPrefixOf

(* A prefix of a prefix is a prefix.                                       *)
LEMMA PrefixTransitive ==
  ASSUME NEW a, NEW b, NEW c, IsPrefixOf(a, b), IsPrefixOf(b, c)
  PROVE  IsPrefixOf(a, c)
<1>1. DOMAIN a \subseteq DOMAIN c
  BY DEF IsPrefixOf
<1>2. \A k \in DOMAIN a : c[k] = a[k]
  BY DEF IsPrefixOf
<1>3. ASSUME NEW k \in DOMAIN c, NEW j \in DOMAIN a, k < j
      PROVE  k \in DOMAIN a
  <2>1. j \in DOMAIN b
    BY DEF IsPrefixOf
  <2>2. k \in DOMAIN b
    BY <2>1, <1>3 DEF IsPrefixOf
  <2> QED
    BY <2>2, <1>3 DEF IsPrefixOf
<1> QED
  BY <1>1, <1>2, <1>3 DEF IsPrefixOf

(* A write of a state that is well formed and extends the store keeps      *)
(* every recoverable state well formed and a prefix of the visible one.    *)
LEMMA WriteKeepsStores ==
  ASSUME StoresOK, NEW t, Write(t), StoreOK(t), IsPrefixOf(store.entries, t.entries)
  PROVE  StoresOK'
<1>1. store' = t /\ recoverable' = recoverable \cup {t}
  BY DEF Write
<1>2. ASSUME NEW s \in recoverable' PROVE StoreOK(s) /\ IsPrefixOf(s.entries, t.entries)
  <2>1. CASE s = t
    BY <2>1, PrefixReflexive
  <2>2. CASE s \in recoverable
    <3>1. StoreOK(s) /\ IsPrefixOf(s.entries, store.entries)
      BY <2>2 DEF StoresOK
    <3> QED
      BY <3>1, PrefixTransitive
  <2> QED
    BY <1>1, <1>2, <2>1, <2>2
<1> QED
  BY <1>1, <1>2 DEF StoresOK

(* Inserting the next key of a chain extends it.                           *)
LEMMA PutExtends ==
  ASSUME NEW entries, NEW n \in Nat, DOMAIN entries = 0 .. n - 1, NEW entry
  PROVE  /\ DOMAIN Put(entries, n, entry) = 0 .. n
         /\ Put(entries, n, entry)[n] = entry
         /\ \A k \in 0 .. n - 1 : Put(entries, n, entry)[k] = entries[k]
         /\ IsPrefixOf(entries, Put(entries, n, entry))
<1>1. DOMAIN Put(entries, n, entry) = 0 .. n
  BY DEF Put
<1>2. Put(entries, n, entry)[n] = entry
  BY DEF Put
<1>3. \A k \in 0 .. n - 1 : Put(entries, n, entry)[k] = entries[k]
  BY DEF Put
<1> QED
  BY <1>1, <1>2, <1>3 DEF IsPrefixOf

-----------------------------------------------------------------------------
(* Each put of `open` writes a well formed extension of the store.         *)
LEMMA GenesisShape ==
  /\ GenesisEntry.sequence = 0
  /\ SignatureValid(GenesisEntry)
BY DEF GenesisEntry, NewEntry, SignatureValid, Canonical

(* The first opening writes the public key beside no entry.                *)
LEMMA PutPubkeyStep ==
  ASSUME LedgerInv, PutPubkey PROVE StoresOK' /\ HandleOK'
<1> DEFINE t == [store EXCEPT !.pubkey = TRUE]
<1>1. StoreOK(store)
  BY DEF LedgerInv, StoresOK
<1>2. /\ t.entries = store.entries
      /\ t.headSequence = store.headSequence
      /\ t.headHash = store.headHash
      /\ StoreType(t)
  BY <1>1 DEF StoreOK, StoreType
<1>3. StoreOK(t)
  BY <1>1, <1>2 DEF StoreOK
<1>4. StoresOK'
  BY <1>2, <1>3, PrefixReflexive, WriteKeepsStores DEF LedgerInv, PutPubkey
<1>5. HandleOK'
  BY <1>2 DEF LedgerInv, HandleOK, PutPubkey, Write, Opening
<1> QED
  BY <1>4, <1>5

(* The genesis entry starts the chain.                                     *)
LEMMA PutGenesisStep ==
  ASSUME LedgerInv, PutGenesis PROVE StoresOK' /\ HandleOK'
<1> DEFINE entries == Put(store.entries, 0, GenesisEntry)
           t == [store EXCEPT !.entries = Put(@, 0, GenesisEntry)]
<1>1. StoreOK(store) /\ store.headSequence = None
  BY DEF LedgerInv, StoresOK, HandleOK, PutGenesis
<1>2. DOMAIN store.entries \subseteq {0} /\ Chained(store.entries)
  BY <1>1 DEF StoreOK
<1>3. DOMAIN entries = {0} /\ entries[0] = GenesisEntry
  BY <1>2 DEF Put
<1>4. IsPrefixOf(store.entries, entries)
  BY <1>2, <1>3 DEF IsPrefixOf, Chained
<1>5. Chained(entries)
  BY <1>3, GenesisShape DEF Chained
<1>6. /\ t.entries = entries
      /\ t.headSequence = store.headSequence
      /\ t.headHash = store.headHash
      /\ StoreType(t)
  BY <1>1, <1>3 DEF StoreOK, StoreType
<1>7. StoreOK(t)
  BY <1>1, <1>3, <1>5, <1>6 DEF StoreOK
<1>8. StoresOK'
  <2> HIDE DEF entries
  <2> QED
    BY <1>4, <1>6, <1>7, WriteKeepsStores DEF LedgerInv, PutGenesis
<1>9. HandleOK'
  BY <1>1, <1>3, <1>6 DEF LedgerInv, HandleOK, PutGenesis, Write, Opening
<1> QED
  BY <1>8, <1>9

(* The opening writes the head's sequence, ...                             *)
LEMMA PutHeadSequenceStep ==
  ASSUME LedgerInv, PutHeadSequence PROVE StoresOK' /\ HandleOK'
<1> DEFINE t == [store EXCEPT !.headSequence = 0]
<1>1. StoreOK(store) /\ store.headSequence = None /\ DOMAIN store.entries = {0}
  BY DEF LedgerInv, StoresOK, HandleOK, PutHeadSequence
<1>2. /\ t.entries = store.entries
      /\ t.headSequence = 0
      /\ t.headHash = {}
      /\ StoreType(t)
  BY <1>1 DEF StoreOK, StoreType
<1>3. DOMAIN t.entries = 0 .. t.headSequence
  BY <1>1, <1>2
<1>4. StoreOK(t)
  BY <1>1, <1>2, <1>3, NoneAssumption DEF StoreOK
<1>5. StoresOK'
  BY <1>2, <1>4, PrefixReflexive, WriteKeepsStores DEF LedgerInv, PutHeadSequence
<1>6. HandleOK'
  BY <1>2 DEF LedgerInv, HandleOK, PutHeadSequence, Write, Opening
<1> QED
  BY <1>5, <1>6

(* ... and its hash.                                                       *)
LEMMA PutHeadHashStep ==
  ASSUME LedgerInv, PutHeadHash PROVE StoresOK' /\ HandleOK'
<1> DEFINE t == [store EXCEPT !.headHash = {ChainHash(GenesisEntry)}]
<1>1. StoreOK(store) /\ store.headSequence = 0
  BY DEF LedgerInv, StoresOK, HandleOK, PutHeadHash
<1>2. /\ t.entries = store.entries
      /\ t.headSequence = 0
      /\ t.headHash = {ChainHash(GenesisEntry)}
      /\ StoreType(t)
  BY <1>1 DEF StoreOK, StoreType
<1>3. store.entries[0] = GenesisEntry
  BY <1>1, NoneAssumption DEF StoreOK, Chained
<1>4. StoreOK(t)
  <2> HIDE DEF t
  <2>1. DOMAIN t.entries = 0 .. t.headSequence /\ t.headSequence # None
    BY <1>1, <1>2, NoneAssumption DEF StoreOK
  <2>2. t.headHash = {ChainHash(t.entries[t.headSequence])}
    BY <1>2, <1>3
  <2>3. Chained(t.entries)
    BY <1>1, <1>2 DEF StoreOK
  <2> QED
    BY <1>2, <2>1, <2>2, <2>3 DEF StoreOK
<1>5. StoresOK'
  BY <1>2, <1>4, PrefixReflexive, WriteKeepsStores DEF LedgerInv, PutHeadHash
<1>6. HandleOK'
  BY <1>2, NoneAssumption DEF LedgerInv, HandleOK, PutHeadHash, Write, Opening
<1> QED
  BY <1>5, <1>6

-----------------------------------------------------------------------------
(* The holder of the mutex appends at the end of the chain.                *)
LEMMA HolderShape ==
  /\ HolderEntry.sequence = head.sequence + 1
  /\ HolderEntry.previous = head.hash
  /\ SignatureValid(HolderEntry)
BY DEF HolderEntry, NewEntry, SignatureValid, Canonical

(* An append writes an entry that chains to the head it holds.             *)
LEMMA AppendWriteStep ==
  ASSUME LedgerInv, AppendWrite PROVE StoresOK' /\ HandleOK'
<1> DEFINE n == head.sequence + 1
           entries == Put(store.entries, n, HolderEntry)
           t == [store EXCEPT
                   !.entries      = Put(@, HolderEntry.sequence, HolderEntry),
                   !.headSequence = HolderEntry.sequence,
                   !.headHash     = {ChainHash(HolderEntry)}]
<1>1. handle = "open" /\ queue # <<>> /\ ~written
  BY DEF LedgerInv, HandleOK, AppendWrite
<1>2. /\ StoreOK(store)
      /\ store.headSequence # None
      /\ head.sequence = store.headSequence
      /\ store.headHash = {head.hash}
      /\ head.sequence \in Nat
  BY <1>1 DEF LedgerInv, StoresOK, HandleOK, StoreOK, StoreType
<1>3. /\ n \in Nat
      /\ DOMAIN store.entries = 0 .. n - 1
      /\ head.hash = ChainHash(store.entries[n - 1])
      /\ Chained(store.entries)
  <2> HIDE DEF entries, t
  <2>1. n \in Nat /\ n - 1 = store.headSequence
    BY <1>2
  <2>2. {head.hash} = {ChainHash(store.entries[store.headSequence])}
    BY <1>2 DEF StoreOK
  <2>3. DOMAIN store.entries = 0 .. store.headSequence /\ Chained(store.entries)
    BY <1>2 DEF StoreOK
  <2>4. head.hash = ChainHash(store.entries[store.headSequence])
    BY <2>2
  <2> HIDE DEF n
  <2> QED
    BY <2>1, <2>3, <2>4
<1>4. /\ DOMAIN entries = 0 .. n
      /\ entries[n] = HolderEntry
      /\ \A k \in 0 .. n - 1 : entries[k] = store.entries[k]
      /\ IsPrefixOf(store.entries, entries)
  BY <1>3, PutExtends
<1>5. Chained(entries)
  <2> HIDE DEF entries, n
  <2> SUFFICES ASSUME NEW k \in 0 .. n
               PROVE  /\ entries[k].sequence = k
                      /\ SignatureValid(entries[k])
                      /\ k = 0 => entries[k] = GenesisEntry
                      /\ k > 0 => VerifyLink(entries[k - 1], entries[k])
    BY <1>4 DEF Chained
  <2>1. CASE k \in 0 .. n - 1
    <3>1. k > 0 => k - 1 \in 0 .. n - 1
      BY <2>1, <1>3
    <3> QED
      BY <2>1, <3>1, <1>3, <1>4 DEF Chained
  <2>2. CASE k = n
    <3>1. n > 0 /\ n - 1 \in 0 .. n - 1
      BY <1>2, <1>3 DEF n
    <3>2. entries[k].sequence = n /\ SignatureValid(entries[k])
      BY <2>2, <1>4, HolderShape DEF n
    <3>3. VerifyLink(entries[n - 1], entries[n])
      BY <3>1, <1>3, <1>4, HolderShape DEF VerifyLink
    <3> QED
      BY <2>2, <3>1, <3>2, <3>3
  <2> QED
    BY <1>3, <2>1, <2>2
<1>6. /\ t.entries = entries
      /\ t.headSequence = n
      /\ t.headHash = {ChainHash(HolderEntry)}
      /\ StoreType(t)
  <2>1. t = [pubkey |-> store.pubkey, entries |-> entries,
             headSequence |-> n, headHash |-> {ChainHash(HolderEntry)}]
    <3> DEFINE hash == {ChainHash(HolderEntry)}
    <3>1. HolderEntry.sequence = n
      BY HolderShape
    <3>2. store \in [pubkey : BOOLEAN, entries : {store.entries},
                     headSequence : Nat \cup {None}, headHash : {store.headHash}]
      BY <1>2 DEF StoreOK, StoreType
    <3> HIDE DEF n, hash
    <3>3. t = [store EXCEPT !.entries = entries, !.headSequence = n, !.headHash = hash]
      BY <3>1 DEF hash
    <3> HIDE DEF t, entries
    <3> QED
      BY <3>2, <3>3 DEF hash
  <2> HIDE DEF t, entries, n
  <2> QED
    BY <2>1, <1>2, <1>3, <1>4 DEF StoreOK, StoreType
<1> HIDE DEF t, entries, n
<1>7. StoreOK(t)
  BY <1>3, <1>4, <1>5, <1>6, NoneAssumption DEF StoreOK
<1>8. Write(t) /\ written' /\ UNCHANGED <<handle, head, queue, observed>>
  BY DEF AppendWrite, Batch, t
<1>9. StoresOK'
  BY <1>4, <1>6, <1>7, <1>8, WriteKeepsStores DEF LedgerInv
<1>10. HolderEntry' = HolderEntry /\ HolderEntry.sequence = n
  BY <1>8, HolderShape DEF HolderEntry, n
<1>11. HandleOK'
  BY <1>1, <1>2, <1>4, <1>6, <1>8, <1>10 DEF HandleOK, Write, Opening
<1> QED
  BY <1>9, <1>11

-----------------------------------------------------------------------------
(* The steps that leave the store alone or fall back to a recoverable one. *)
LEMMA OpenStep ==
  ASSUME LedgerInv, OpenNew \/ OpenExisting \/ OpenError
  PROVE  StoresOK' /\ HandleOK'
<1>1. StoresOK'
  BY DEF LedgerInv, StoresOK, OpenNew, OpenExisting, OpenError
<1>2. StoreOK(store)
  BY DEF LedgerInv, StoresOK
<1>3. CASE OpenNew
  BY <1>1, <1>3, NoneAssumption DEF LedgerInv, HandleOK, OpenNew, Opening
<1>4. CASE OpenError
  BY <1>1, <1>4 DEF LedgerInv, HandleOK, OpenError, Opening
<1>5. CASE OpenExisting /\ handle' = "failed"
  <2>1. store.headHash = {} /\ store.headSequence # None
    BY <1>5 DEF OpenExisting
  <2>2. store.headSequence = 0
    BY <1>2, <2>1 DEF StoreOK
  <2> QED
    BY <1>1, <1>5, <2>1, <2>2 DEF LedgerInv, HandleOK, OpenExisting
<1>6. CASE OpenExisting /\ handle' # "failed"
  <2>1. PICK hash \in store.headHash :
          handle' = "open" /\ head' = [sequence |-> store.headSequence, hash |-> hash]
    BY <1>6 DEF OpenExisting
  <2>2. store.headHash = {hash}
    BY <1>2, <2>1, <1>6 DEF StoreOK, OpenExisting
  <2>3. /\ ~written /\ store.headSequence # None /\ handle # "open"
        /\ UNCHANGED <<store, queue, written, observed>>
    BY <1>6 DEF LedgerInv, HandleOK, OpenExisting
  <2> QED
    BY <1>1, <2>1, <2>2, <2>3 DEF HandleOK
<1> QED
  BY <1>3, <1>4, <1>5, <1>6

(* Calls that wait, are cancelled, are refused or only read.               *)
LEMMA CallStep ==
  ASSUME LedgerInv,
         \/ \E w \in Writer, u \in Unsigned : AppendCall(w, u)
         \/ \E i \in DOMAIN queue : AppendCancel(i)
         \/ AppendError
         \/ HeadSequence
  PROVE  StoresOK' /\ HandleOK' /\ queue' \in Seq(Call)
<1>1. queue \in Seq(Call) /\ UNCHANGED <<store, recoverable, handle, head, written>>
  BY DEF LedgerInv, TypeOK, AppendCall, AppendCancel, AppendError, HeadSequence
<1>2. StoresOK'
  BY <1>1 DEF LedgerInv, StoresOK
<1>3. queue # <<>> => handle = "open"
  BY DEF LedgerInv, HandleOK
<1>4. ASSUME NEW w \in Writer, NEW u \in Unsigned, AppendCall(w, u)
      PROVE  HandleOK' /\ queue' \in Seq(Call)
  <2> DEFINE c == [writer |-> w, unsigned |-> u]
  <2>1. c \in Call /\ queue' = Append(queue, c) /\ handle = "open"
    BY <1>4 DEF Call, AppendCall
  <2>2. queue' \in Seq(Call) /\ queue' # <<>> /\ (queue # <<>> => Head(queue') = Head(queue))
    BY <1>1, <2>1
  <2>3. written => HolderEntry' = HolderEntry
    BY <1>1, <2>2 DEF LedgerInv, HandleOK, HolderEntry
  <2> QED
    BY <1>1, <1>4, <2>1, <2>2, <2>3 DEF LedgerInv, HandleOK, AppendCall
<1>5. ASSUME NEW i \in DOMAIN queue, AppendCancel(i)
      PROVE  HandleOK' /\ queue' \in Seq(Call)
  <2> DEFINE front == SubSeq(queue, 1, i - 1)
             back  == SubSeq(queue, i + 1, Len(queue))
  <2>1. i \in 1 .. Len(queue) /\ queue' = front \o back /\ queue # <<>>
    BY <1>1, <1>5 DEF AppendCancel
  <2>2. front \in Seq(Call) /\ back \in Seq(Call) /\ queue' \in Seq(Call)
    BY <1>1, <2>1
  <2>3. i > 1 => Len(front) = i - 1 /\ front[1] = queue[1]
    BY <1>1, <2>1
  <2>4. i > 1 => queue' # <<>> /\ Head(queue') = Head(queue)
    <3> HIDE DEF front, back
    <3>1. SUFFICES ASSUME i > 1 PROVE queue' # <<>> /\ Head(queue') = Head(queue)
      OBVIOUS
    <3>2. Len(front \o back) = Len(front) + Len(back) /\ Len(back) \in Nat
      BY <2>2
    <3>3. Len(queue') > 0 /\ queue'[1] = front[1]
      BY <2>1, <2>2, <2>3, <3>1, <3>2
    <3> QED
      BY <1>1, <2>1, <2>2, <2>3, <3>1, <3>3
  <2>5. written => HolderEntry' = HolderEntry /\ queue' # <<>>
    BY <1>1, <1>5, <2>4 DEF AppendCancel, HolderEntry
  <2>6. handle = "open" /\ observed' = observed
    BY <1>3, <1>5, <2>1 DEF AppendCancel
  <2> HIDE DEF front, back
  <2> QED
    BY <1>1, <2>2, <2>5, <2>6 DEF LedgerInv, HandleOK
<1>6. ASSUME AppendError PROVE HandleOK' /\ queue' \in Seq(Call)
  BY <1>1, <1>3, <1>6 DEF LedgerInv, HandleOK, AppendError
<1>7. ASSUME HeadSequence PROVE HandleOK' /\ queue' \in Seq(Call)
  BY <1>1, <1>7 DEF LedgerInv, HandleOK, HeadSequence
<1> QED
  BY <1>2, <1>4, <1>5, <1>6, <1>7

(* The holder of the lock moves the head to the entry it wrote.            *)
LEMMA AppendReturnStep ==
  ASSUME LedgerInv, AppendReturn PROVE StoresOK' /\ HandleOK' /\ queue' \in Seq(Call)
<1>1. /\ handle = "open" /\ written /\ ~written' /\ queue # <<>>
      /\ queue \in Seq(Call) /\ queue' = Tail(queue)
      /\ head' = [sequence |-> HolderEntry.sequence, hash |-> ChainHash(HolderEntry)]
      /\ UNCHANGED <<store, recoverable, handle, observed>>
  BY DEF LedgerInv, TypeOK, HandleOK, AppendReturn, HeadOf
<1>2. StoresOK' /\ queue' \in Seq(Call)
  BY <1>1 DEF LedgerInv, StoresOK
<1>3. /\ store.headSequence = HolderEntry.sequence
      /\ store.headHash = {ChainHash(HolderEntry)}
      /\ store.headSequence # None
  BY <1>1, HolderShape, NoneAssumption DEF LedgerInv, HandleOK
<1> QED
  BY <1>1, <1>2, <1>3 DEF HandleOK, Opening

(* A crash or a loss of power leaves a store that was recoverable.         *)
LEMMA LossStep ==
  ASSUME LedgerInv, Sync \/ Crash \/ LosePower
  PROVE  StoresOK' /\ HandleOK' /\ queue' \in Seq(Call)
<1>1. CASE Sync
  <2>1. /\ recoverable' = {store}
        /\ UNCHANGED <<store, handle, head, queue, written, observed>>
    BY <1>1 DEF Sync
  <2>2. HolderEntry' = HolderEntry
    BY <2>1 DEF HolderEntry
  <2>3. StoresOK'
    BY <2>1 DEF LedgerInv, StoresOK
  <2>4. HandleOK'
    BY <2>1, <2>2 DEF LedgerInv, HandleOK
  <2> QED
    BY <2>1, <2>3, <2>4 DEF LedgerInv, TypeOK
<1>2. CASE Crash
  BY <1>2 DEF LedgerInv, StoresOK, HandleOK, Crash, LoseProcess, storeVars, Opening
<1>3. CASE LosePower
  <2>1. PICK s \in recoverable : store' = s /\ recoverable' = {s}
    BY <1>3 DEF LosePower
  <2>2. StoresOK'
    BY <2>1, PrefixReflexive DEF LedgerInv, StoresOK
  <2>3. HandleOK' /\ queue' \in Seq(Call)
    BY <1>3 DEF HandleOK, LosePower, LoseProcess, Opening
  <2> QED
    BY <2>2, <2>3
<1> QED
  BY <1>1, <1>2, <1>3

-----------------------------------------------------------------------------
(* The empty store satisfies the invariant, ...                            *)
LEMMA InitInv == Init => LedgerInv
<1> SUFFICES ASSUME Init PROVE LedgerInv
  OBVIOUS
<1>1. StoreType(EmptyStore) /\ StoreOK(EmptyStore)
  BY DEF EmptyStore, StoreOK, StoreType, Chained
<1>2. TypeOK
  <2>1. head = [sequence |-> None, hash |-> None] /\ queue = <<>>
    BY DEF Init, NoHead
  <2>2. head \in [sequence : Nat \cup {None}, hash : {head.hash}] /\ queue \in Seq(Call)
    BY <2>1
  <2> QED
    BY <1>1, <2>2 DEF Init, TypeOK
<1>3. StoresOK
  BY <1>1, PrefixReflexive DEF Init, StoresOK
<1>4. HandleOK
  BY DEF Init, HandleOK, Opening
<1> QED
  BY <1>2, <1>3, <1>4 DEF LedgerInv

(* The variables a step moves besides the store and the queue.             *)
LEMMA TypeStep ==
  ASSUME LedgerInv, Next, StoresOK', queue' \in Seq(Call)
  PROVE  TypeOK'
<1>1. StoreType(store)' /\ (\A s \in recoverable : StoreType(s))'
  BY DEF StoresOK, StoreOK
<1>2. StoreOK(store) /\ TypeOK
  BY DEF LedgerInv, StoresOK
<1>3. handle' \in Opening \cup {"closed", "failed", "open"} /\ written' \in BOOLEAN
  BY <1>2 DEF TypeOK, Next, Open, OpenNew, OpenExisting, OpenError, PutPubkey,
     PutGenesis, PutHeadSequence, PutHeadHash, AppendCall, AppendCancel,
     AppendWrite, AppendError, AppendReturn, HeadSequence, Sync, Crash,
     LosePower, LoseProcess, Opening
<1>4. written => HolderEntry.sequence \in Nat
  BY HolderShape DEF LedgerInv, HandleOK
<1>5. observed' \in Nat \cup {None}
  BY <1>2 DEF TypeOK, Next, Open, OpenNew, OpenExisting, OpenError, PutPubkey,
     PutGenesis, PutHeadSequence, PutHeadHash, AppendCall, AppendCancel,
     AppendWrite, AppendError, AppendReturn, HeadSequence, Sync, Crash,
     LosePower, LoseProcess
<1>6. \/ head' = head
      \/ \E q \in Nat \cup {None} : \E h : head' = [sequence |-> q, hash |-> h]
  <2>1. CASE OpenExisting
    BY <2>1, <1>2 DEF OpenExisting, StoreOK, StoreType
  <2>2. CASE PutHeadHash
    BY <2>2 DEF PutHeadHash
  <2>3. CASE AppendReturn
    BY <2>3, <1>4 DEF AppendReturn, HeadOf
  <2>4. CASE Crash \/ LosePower
    BY <2>4 DEF Crash, LosePower, LoseProcess, NoHead
  <2>5. CASE ~(OpenExisting \/ PutHeadHash \/ AppendReturn \/ Crash \/ LosePower)
    BY <2>5 DEF Next, Open, OpenNew, OpenError, PutPubkey, PutGenesis,
       PutHeadSequence, AppendCall, AppendCancel, AppendWrite, AppendError,
       HeadSequence, Sync
  <2> QED
    BY <2>1, <2>2, <2>3, <2>4, <2>5
<1>7. head' \in [sequence : Nat \cup {None}, hash : {head'.hash}]
  <2>1. head \in [sequence : Nat \cup {None}, hash : {head.hash}]
    BY <1>2 DEF TypeOK
  <2> QED
    BY <1>6, <2>1
<1> QED
  BY <1>1, <1>3, <1>5, <1>7 DEF TypeOK

(* ... and every step keeps it.                                            *)
LEMMA NextInv == LedgerInv /\ [Next]_vars => LedgerInv'
<1> SUFFICES ASSUME LedgerInv, [Next]_vars PROVE LedgerInv'
  OBVIOUS
<1>1. CASE UNCHANGED vars
  <2>1. HolderEntry' = HolderEntry
    BY <1>1 DEF vars, HolderEntry
  <2> QED
    BY <1>1, <2>1 DEF vars, LedgerInv, TypeOK, StoresOK, HandleOK
<1>2. CASE Next
  <2>1. StoresOK' /\ HandleOK' /\ queue' \in Seq(Call)
    <3>1. CASE OpenNew \/ OpenExisting \/ OpenError
      BY <3>1, OpenStep DEF LedgerInv, TypeOK, OpenNew, OpenExisting, OpenError
    <3>2. CASE PutPubkey
      BY <3>2, PutPubkeyStep DEF LedgerInv, TypeOK, PutPubkey
    <3>3. CASE PutGenesis
      BY <3>3, PutGenesisStep DEF LedgerInv, TypeOK, PutGenesis
    <3>4. CASE PutHeadSequence
      BY <3>4, PutHeadSequenceStep DEF LedgerInv, TypeOK, PutHeadSequence
    <3>5. CASE PutHeadHash
      BY <3>5, PutHeadHashStep DEF LedgerInv, TypeOK, PutHeadHash
    <3>6. CASE \/ \E w \in Writer, u \in Unsigned : AppendCall(w, u)
               \/ \E i \in DOMAIN queue : AppendCancel(i)
               \/ AppendError
               \/ HeadSequence
      BY <3>6, CallStep
    <3>7. CASE AppendWrite
      BY <3>7, AppendWriteStep DEF LedgerInv, TypeOK, AppendWrite
    <3>8. CASE AppendReturn
      BY <3>8, AppendReturnStep
    <3>9. CASE Sync \/ Crash \/ LosePower
      BY <3>9, LossStep
    <3> QED
      BY <1>2, <3>1, <3>2, <3>3, <3>4, <3>5, <3>6, <3>7, <3>8, <3>9 DEF Next, Open
  <2> QED
    BY <1>2, <2>1, TypeStep DEF LedgerInv
<1> QED
  BY <1>1, <1>2

(* Every reachable state of the ledger satisfies the inductive invariant.  *)
THEOREM LedgerInvariant == Spec => []LedgerInv
<1>1. QED
  BY InitInv, NextInv, PTL DEF Spec

(* Type correctness: every variable keeps its type.                        *)
THEOREM TypeCorrect == Spec => []TypeOK
<1>1. LedgerInv => TypeOK
  BY DEF LedgerInv
<1> QED
  BY <1>1, LedgerInvariant, PTL

-----------------------------------------------------------------------------
(* A well formed store verifies.                                           *)
LEMMA KeysAreInitialSegment ==
  ASSUME NEW s, StoreOK(s)
  PROVE  \E n \in Nat : DOMAIN s.entries = 0 .. n - 1
<1>1. CASE s.headSequence = None
  <2>1. DOMAIN s.entries = 0 .. 0 - 1 \/ DOMAIN s.entries = 0 .. 1 - 1
    BY <1>1 DEF StoreOK
  <2> QED
    BY <2>1
<1>2. CASE s.headSequence # None
  <2>1. s.headSequence \in Nat
    BY <1>2 DEF StoreOK, StoreType
  <2>2. DOMAIN s.entries = 0 .. (s.headSequence + 1) - 1
    BY <1>2, <2>1 DEF StoreOK
  <2> QED
    BY <2>1, <2>2
<1> QED
  BY <1>1, <1>2

(* What a sound store holds, verify_chain accepts.                         *)
LEMMA StoreVerifies ==
  ASSUME NEW s, StoreOK(s) PROVE ChainOk(s.entries)
<1> DEFINE entries == s.entries
<1>1. PICK n \in Nat : DOMAIN entries = 0 .. n - 1
  BY KeysAreInitialSegment
<1>2. Chained(entries)
  BY DEF StoreOK
<1> HIDE DEF entries
<1> SUFFICES ASSUME NEW k \in DOMAIN entries PROVE EntryValid(entries, k)
  BY DEF ChainOk, entries
<1>3. SignatureValid(entries[k]) /\ entries[k].sequence = k
  BY <1>2 DEF Chained
<1>4. CASE k = 0
  <2>1. \A i \in DOMAIN entries : k <= i
    BY <1>1, <1>4
  <2>2. FirstEntryValid(entries[k])
    BY <1>2, <1>4, GenesisAssumption
    DEF Chained, FirstEntryValid, GenesisEntry, NewEntry
  <2> QED
    BY <1>3, <2>1, <2>2 DEF EntryValid
<1>5. CASE k > 0
  <2>1. k - 1 \in DOMAIN entries /\ k - 1 < k /\ k \in Nat
    BY <1>1, <1>5
  <2>2. ~(\A i \in DOMAIN entries : k <= i)
    BY <2>1
  <2>3. \A i \in DOMAIN entries : i < k => i <= k - 1
    BY <1>1
  <2>4. ASSUME NEW j \in DOMAIN entries, j < k,
               \A i \in DOMAIN entries : i < k => i <= j
        PROVE  j = k - 1
    BY <1>1, <2>1, <2>4
  <2>5. Before(entries, k) = k - 1
    BY <2>1, <2>3, <2>4 DEF Before
  <2>6. VerifyLink(entries[k - 1], entries[k]) /\ entries[k - 1].sequence = k - 1
    BY <1>2, <1>5, <2>1 DEF Chained
  <2> QED
    BY <1>3, <2>1, <2>2, <2>5, <2>6 DEF EntryValid
<1> QED
  BY <1>1, <1>4, <1>5

(* verify_chain accepts the ledger at every moment and after every crash   *)
(* or power loss.                                                          *)
THEOREM ChainAlwaysVerifies == Spec => []ChainVerifies
<1>1. LedgerInv => ChainVerifies
  BY StoreVerifies DEF LedgerInv, StoresOK, ChainVerifies, VerifyChain
<1> QED
  BY <1>1, LedgerInvariant, PTL

(* The head metadata that open trusts names the last entry and its hash.   *)
THEOREM HeadMetadataCorrect == Spec => []HeadMetadataMatches
<1>1. LedgerInv => HeadMetadataMatches
  <2> SUFFICES ASSUME LedgerInv, NEW s \in recoverable, s.headHash # {}
               PROVE  /\ s.headSequence \in DOMAIN s.entries
                      /\ s.headSequence + 1 \notin DOMAIN s.entries
                      /\ s.headHash = {ChainHash(s.entries[s.headSequence])}
    BY DEF HeadMetadataMatches
  <2>1. StoreOK(s)
    BY DEF LedgerInv, StoresOK
  <2>2. /\ s.headSequence \in Nat
        /\ DOMAIN s.entries = 0 .. s.headSequence
        /\ s.headHash = {ChainHash(s.entries[s.headSequence])}
    BY <2>1 DEF StoreOK, StoreType
  <2> QED
    BY <2>2
<1> QED
  BY <1>1, LedgerInvariant, PTL

(* The in-memory head is the stored head between appends.                  *)
THEOREM HeadCorrect == Spec => []HeadIsStoreHead
<1>1. LedgerInv => HeadIsStoreHead
  BY DEF LedgerInv, HandleOK, HeadIsStoreHead
<1> QED
  BY <1>1, LedgerInvariant, PTL

(* open refuses only a store in which nothing but the genesis was written. *)
THEOREM FailureIsTornGenesis == Spec => []FailsOnlyOnGenesis
<1>1. LedgerInv => FailsOnlyOnGenesis
  <2> SUFFICES ASSUME LedgerInv, handle = "failed" PROVE DOMAIN store.entries = {0}
    BY DEF FailsOnlyOnGenesis
  <2>1. StoreOK(store) /\ store.headSequence = 0
    BY DEF LedgerInv, StoresOK, HandleOK
  <2>2. DOMAIN store.entries = 0 .. 0
    BY <2>1, NoneAssumption DEF StoreOK
  <2> QED
    BY <2>2
<1> QED
  BY <1>1, LedgerInvariant, PTL

(* What a power loss leaves is a prefix of what was visible.               *)
THEOREM LossIsPrefix == Spec => []RecoverablePrefix
<1>1. LedgerInv => RecoverablePrefix
  BY DEF LedgerInv, StoresOK, RecoverablePrefix
<1> QED
  BY <1>1, LedgerInvariant, PTL

-----------------------------------------------------------------------------
(* What a step may do to the entries.                                      *)
LEMMA StepExtends ==
  ASSUME LedgerInv, LedgerInv', [Next]_vars, ~LosePower
  PROVE  IsPrefixOf(store.entries, store'.entries)
<1>1. CASE store' = store
  BY <1>1, PrefixReflexive
<1>2. CASE \E t : Write(t)
  <2>1. store \in recoverable'
    BY <1>2 DEF Write, LedgerInv, StoresOK
  <2>2. \A s \in recoverable' : IsPrefixOf(s.entries, store'.entries)
    BY DEF LedgerInv, StoresOK
  <2> QED
    BY <2>1, <2>2
<1>3. store' = store \/ \E t : Write(t)
  <2>1. CASE PutPubkey
    BY <2>1 DEF PutPubkey
  <2>2. CASE PutGenesis
    BY <2>2 DEF PutGenesis
  <2>3. CASE PutHeadSequence
    BY <2>3 DEF PutHeadSequence
  <2>4. CASE PutHeadHash
    BY <2>4 DEF PutHeadHash
  <2>5. CASE AppendWrite
    BY <2>5 DEF AppendWrite
  <2>6. CASE ~(PutPubkey \/ PutGenesis \/ PutHeadSequence \/ PutHeadHash \/ AppendWrite)
    BY <2>6 DEF Next, Open, vars, OpenNew, OpenExisting, OpenError, AppendCall,
       AppendCancel, AppendError, AppendReturn, HeadSequence, Sync, Crash, storeVars
  <2> QED
    BY <2>1, <2>2, <2>3, <2>4, <2>5, <2>6
<1> QED
  BY <1>1, <1>2, <1>3

(* Short of a loss of power, a step adds at most one entry.                *)
LEMMA StepAddsOne ==
  ASSUME LedgerInv, [Next]_vars, ~LosePower
  PROVE  \E x : DOMAIN store'.entries \subseteq DOMAIN store.entries \cup {x}
<1>1. StoreType(store)
  BY DEF LedgerInv, TypeOK
<1>2. CASE PutPubkey
  BY <1>1, <1>2 DEF PutPubkey, Write, StoreType
<1>3. CASE PutGenesis
  <2>1. store'.entries = Put(store.entries, 0, GenesisEntry)
    BY <1>1, <1>3 DEF PutGenesis, Write, StoreType
  <2> QED
    BY <2>1 DEF Put
<1>4. CASE PutHeadSequence
  BY <1>1, <1>4 DEF PutHeadSequence, Write, StoreType
<1>5. CASE PutHeadHash
  <2>1. store'.entries = store.entries
    <3> DEFINE hash == {ChainHash(GenesisEntry)}
    <3>1. store' = [store EXCEPT !.headHash = hash]
      BY <1>5 DEF PutHeadHash, Write
    <3> HIDE DEF hash
    <3> QED
      BY <1>1, <3>1 DEF StoreType
  <2> QED
    BY <2>1
<1>6. CASE AppendWrite
  <2> DEFINE new == Put(store.entries, HolderEntry.sequence, HolderEntry)
             seq == HolderEntry.sequence
             hash == {ChainHash(HolderEntry)}
  <2>1. store' = [store EXCEPT !.entries = new, !.headSequence = seq, !.headHash = hash]
    BY <1>6 DEF AppendWrite, Batch, Write
  <2>2. DOMAIN new = DOMAIN store.entries \cup {seq}
    BY DEF Put
  <2> HIDE DEF new, seq, hash
  <2>3. store'.entries = new
    BY <1>1, <2>1 DEF StoreType
  <2> QED
    BY <2>2, <2>3
<1>7. CASE ~(PutPubkey \/ PutGenesis \/ PutHeadSequence \/ PutHeadHash \/ AppendWrite)
  BY <1>7 DEF Next, Open, vars, OpenNew, OpenExisting, OpenError, AppendCall,
     AppendCancel, AppendError, AppendReturn, HeadSequence, Sync, Crash, storeVars
<1> QED
  BY <1>2, <1>3, <1>4, <1>5, <1>6, <1>7

(* No step but a power loss changes or removes an entry, and none adds two.*)
THEOREM LedgerAppendOnly == Spec => AppendOnly
<1>1. ASSUME LedgerInv, LedgerInv', [Next]_vars, ~LosePower
      PROVE  /\ IsPrefixOf(store.entries, store'.entries)
             /\ Cardinality(DOMAIN store'.entries \ DOMAIN store.entries) <= 1
  <2>1. PICK x : DOMAIN store'.entries \subseteq DOMAIN store.entries \cup {x}
    BY <1>1, StepAddsOne
  <2>2. IsFiniteSet({x}) /\ Cardinality({x}) = 1
    BY FS_Singleton
  <2>3. DOMAIN store'.entries \ DOMAIN store.entries \subseteq {x}
    BY <2>1
  <2>4. Cardinality(DOMAIN store'.entries \ DOMAIN store.entries) <= Cardinality({x})
    BY <2>2, <2>3, FS_Subset
  <2> QED
    BY <1>1, <2>2, <2>4, StepExtends
<1>2. LedgerInv /\ LedgerInv' /\ [Next]_vars =>
        [~LosePower =>
           /\ IsPrefixOf(store.entries, store'.entries)
           /\ Cardinality(DOMAIN store'.entries \ DOMAIN store.entries) <= 1]_vars
  BY <1>1
<1> QED
  BY <1>2, LedgerInvariant, PTL DEF Spec, AppendOnly

(* Nothing but a power loss takes an acknowledged entry from the store.    *)
THEOREM AcknowledgedSurvive == Spec => []AckedSurvive
<1>1. Init => AckedSurvive
  BY DEF Init, AckedSurvive
<1>2. ASSUME LedgerInv, LedgerInv', [Next]_vars, AckedSurvive
      PROVE  AckedSurvive'
  <2>1. CASE LosePower
    BY <2>1 DEF LosePower, AckedSurvive
  <2> SUFFICES ASSUME ~LosePower PROVE AckedSurvive'
    BY <2>1
  <2>2. ASSUME NEW e \in acked
        PROVE  e.sequence \in DOMAIN store'.entries /\ store'.entries[e.sequence] = e
    <3>1. IsPrefixOf(store.entries, store'.entries)
      BY <1>2, StepExtends
    <3> QED
      BY <1>2, <3>1 DEF AckedSurvive, IsPrefixOf
  <2>3. CASE AppendReturn
    <3>1. /\ written /\ store' = store /\ acked' = acked \cup {HolderEntry}
      BY <2>3 DEF AppendReturn
    <3>2. /\ store.headSequence = HolderEntry.sequence
          /\ store.entries[HolderEntry.sequence] = HolderEntry
          /\ HolderEntry.sequence \in Nat
      BY <1>2, <3>1, HolderShape DEF LedgerInv, HandleOK
    <3>3. HolderEntry.sequence \in DOMAIN store.entries
      BY <1>2, <3>2, NoneAssumption DEF LedgerInv, StoresOK, StoreOK
    <3> QED
      BY <2>2, <3>1, <3>2, <3>3 DEF AckedSurvive
  <2>4. CASE ~AppendReturn
    <3>1. acked' = acked
      BY <1>2, <2>4 DEF Next, Open, vars, OpenNew, OpenExisting, OpenError,
         PutPubkey, PutGenesis, PutHeadSequence, PutHeadHash, AppendCall,
         AppendCancel, AppendWrite, AppendError, HeadSequence, Sync, Crash
    <3> QED
      BY <2>2, <3>1 DEF AckedSurvive
  <2> QED
    BY <2>3, <2>4
<1>3. LedgerInv /\ LedgerInv' /\ [Next]_vars /\ AckedSurvive => AckedSurvive'
  BY <1>2
<1> QED
  BY <1>1, <1>3, LedgerInvariant, PTL DEF Spec

(* ... and no two acknowledged entries share a sequence.                   *)
THEOREM AcknowledgedUnique == Spec => []AckedUnique
<1>1. AckedSurvive => AckedUnique
  BY DEF AckedSurvive, AckedUnique
<1> QED
  BY <1>1, AcknowledgedSurvive, PTL

(* Whoever was told the head sequence can replay the ledger up to it.      *)
THEOREM ObservedCanReplay == Spec => []ObservedReplays
<1>1. Init => ObservedInv
  BY DEF Init, ObservedInv
<1>2. ASSUME LedgerInv, LedgerInv', [Next]_vars, ObservedInv PROVE ObservedInv'
  <2>1. CASE LosePower \/ Crash
    BY <2>1 DEF LosePower, Crash, LoseProcess, ObservedInv
  <2>2. CASE HeadSequence
    <3>1. ~written
      BY <1>2, <2>2 DEF HeadSequence, LedgerInv, HandleOK
    <3>2. /\ handle = "open" /\ observed' = head.sequence /\ store' = store
      BY <2>2 DEF HeadSequence
    <3>3. store.headSequence # None /\ head.sequence = store.headSequence
      BY <1>2, <3>1, <3>2 DEF LedgerInv, HandleOK
    <3>4. store.headSequence \in Nat
      BY <1>2, <3>3 DEF LedgerInv, TypeOK, StoreType
    <3> QED
      BY <3>2, <3>3, <3>4 DEF ObservedInv
  <2>3. CASE ~(LosePower \/ Crash \/ HeadSequence)
    <3>1. observed' = observed
      BY <1>2, <2>3 DEF Next, Open, vars, OpenNew, OpenExisting, OpenError,
         PutPubkey, PutGenesis, PutHeadSequence, PutHeadHash, AppendCall,
         AppendCancel, AppendWrite, AppendError, AppendReturn, Sync
    <3>2. IsPrefixOf(store.entries, store'.entries)
      BY <1>2, <2>3, StepExtends
    <3>3. StoreOK(store) /\ StoreOK(store') /\ TypeOK
      BY <1>2 DEF LedgerInv, StoresOK
    <3>4. SUFFICES ASSUME observed # None
                   PROVE  store'.headSequence # None /\ observed <= store'.headSequence
      BY <3>1 DEF ObservedInv
    <3>5. /\ store.headSequence \in Nat /\ observed \in Nat
          /\ observed <= store.headSequence
          /\ DOMAIN store.entries = 0 .. store.headSequence
      BY <1>2, <3>3, <3>4 DEF ObservedInv, StoreOK, StoreType, TypeOK
    <3>6. observed \in DOMAIN store'.entries
      BY <3>2, <3>5 DEF IsPrefixOf
    <3>7. store'.headSequence # None
      <4>1. CASE store' = store
        BY <4>1, <3>5, NoneAssumption
      <4>2. CASE store' # store
        <5>1. \/ PutPubkey \/ PutGenesis \/ PutHeadSequence \/ PutHeadHash \/ AppendWrite
          BY <1>2, <2>3, <4>2 DEF Next, Open, vars, OpenNew, OpenExisting, OpenError,
             AppendCall, AppendCancel, AppendError, AppendReturn, Sync
        <5>2. observed = None \/ AppendWrite
          BY <1>2, <5>1 DEF LedgerInv, HandleOK, PutPubkey, PutGenesis,
             PutHeadSequence, PutHeadHash
        <5>3. written' /\ handle' = handle /\ HandleOK'
          BY <1>2, <3>4, <5>2 DEF AppendWrite, LedgerInv
        <5>4. HolderEntry'.sequence \in Nat
          BY <5>3 DEF HandleOK, HolderEntry, NewEntry
        <5> QED
          BY <5>3, <5>4, NoneAssumption DEF HandleOK
      <4> QED
        BY <4>1, <4>2
    <3>8. store'.headSequence \in Nat /\ DOMAIN store'.entries = 0 .. store'.headSequence
      BY <3>3, <3>7 DEF StoreOK, StoreType
    <3> QED
      BY <3>5, <3>6, <3>7, <3>8
  <2> QED
    BY <2>1, <2>2, <2>3
<1>3. LedgerInv /\ ObservedInv => ObservedReplays
  <2> SUFFICES ASSUME LedgerInv, ObservedInv, observed # None
               PROVE  Replay(store.entries, 0, observed + 1) = 0 .. observed
    BY DEF ObservedReplays
  <2>1. /\ observed \in Nat /\ store.headSequence \in Nat
        /\ observed <= store.headSequence
        /\ DOMAIN store.entries = 0 .. store.headSequence
    BY DEF LedgerInv, ObservedInv, TypeOK, StoresOK, StoreOK, StoreType
  <2> QED
    BY <2>1 DEF Replay
<1>4. LedgerInv /\ LedgerInv' /\ [Next]_vars /\ ObservedInv => ObservedInv'
  BY <1>2
<1> QED
  BY <1>1, <1>3, <1>4, LedgerInvariant, PTL DEF Spec

-----------------------------------------------------------------------------
(* Refinement: the store implements LedgerLog.                             *)
LEMMA NextPositionIs ==
  ASSUME NEW n \in Nat, DOMAIN store.entries = 0 .. n - 1
  PROVE  Abstract!NextPosition = n
<1>1. DOMAIN LogOf(store) = 0 .. n - 1
  BY DEF LogOf
<1>2. CASE n = 0
  BY <1>1, <1>2 DEF Abstract!NextPosition
<1>3. CASE n > 0
  <2>1. n - 1 \in DOMAIN LogOf(store) /\ n \notin DOMAIN LogOf(store)
    BY <1>1, <1>3
  <2>2. ASSUME NEW m \in DOMAIN LogOf(store), m + 1 \notin DOMAIN LogOf(store)
        PROVE  m = n - 1
    BY <1>1, <1>3, <2>2
  <2>3. (CHOOSE m \in DOMAIN LogOf(store) : m + 1 \notin DOMAIN LogOf(store)) = n - 1
    BY <2>1, <2>2
  <2>4. DOMAIN LogOf(store) # {}
    BY <2>1
  <2>5. Abstract!NextPosition
          = 1 + (CHOOSE m \in DOMAIN LogOf(store) : m + 1 \notin DOMAIN LogOf(store))
    BY <2>4, Zenon DEF Abstract!NextPosition
  <2>6. Abstract!NextPosition = 1 + (n - 1)
    BY <2>3, <2>5, Zenon
  <2> QED
    BY <2>6
<1> QED
  BY <1>2, <1>3

(* A write that keeps the entries is invisible to the abstract log.        *)
LEMMA SilentWrite ==
  ASSUME LedgerInv, NEW t, Write(t), t.entries = store.entries
  PROVE  UNCHANGED Abstract!logVars
<1>1. LogOf(t) = LogOf(store) /\ store \in recoverable
  BY DEF LogOf, LedgerInv, StoresOK
<1>2. LogOf(store') = LogOf(store)
  BY <1>1 DEF Write
<1>3. {LogOf(s) : s \in recoverable'} = {LogOf(s) : s \in recoverable}
  BY <1>1 DEF Write
<1> QED
  BY <1>2, <1>3 DEF Abstract!logVars

(* A write that inserts the next entry extends the abstract log.           *)
LEMMA ExtendingWrite ==
  ASSUME NEW n \in Nat, DOMAIN store.entries = 0 .. n - 1, NEW entry,
         NEW t, Write(t), t.entries = Put(store.entries, n, entry)
  PROVE  Abstract!Extend(entry.unsigned)
<1>1. store' = t /\ recoverable' = recoverable \cup {t}
  BY DEF Write
<1> DEFINE extended == [k \in DOMAIN LogOf(store) \cup {n} |->
                          IF k = n THEN entry.unsigned ELSE LogOf(store)[k]]
<1>2. LogOf(t) = extended
  BY DEF LogOf, Put
<1>3. {LogOf(s) : s \in recoverable'} = {LogOf(s) : s \in recoverable} \cup {LogOf(store')}
  BY <1>1
<1>4. LogOf(store') = extended
  BY <1>1, <1>2
<1>5. Abstract!NextPosition = n
  BY NextPositionIs
<1> HIDE DEF LogOf
<1> QED
  BY <1>3, <1>4, <1>5 DEF Abstract!Extend

(* A step of the ledger is a step of the abstract log, or none.            *)
LEMMA StepImplements ==
  ASSUME LedgerInv, [Next]_vars
  PROVE  [Abstract!LogNext]_(Abstract!logVars)
<1>1. StoreType(store) /\ StoreOK(store) /\ store \in recoverable
  BY DEF LedgerInv, TypeOK, StoresOK
<1>2. CASE Sync
  <2>1. store' = store /\ recoverable' = {store}
    BY <1>2 DEF Sync
  <2>2. Abstract!Synced
    BY <2>1 DEF Abstract!Synced
  <2> QED
    BY <2>2 DEF Abstract!LogNext
<1>3. CASE LosePower
  <2>1. PICK s \in recoverable : store' = s /\ recoverable' = {s}
    BY <1>3 DEF LosePower
  <2>2. Abstract!FallBack
    BY <1>3, <2>1 DEF Abstract!FallBack, LosePower
  <2> QED
    BY <2>2 DEF Abstract!LogNext
<1>4. CASE PutPubkey
  BY <1>1, <1>4, SilentWrite DEF PutPubkey, StoreType
<1>5. CASE PutGenesis
  <2> DEFINE t == [store EXCEPT !.entries = Put(@, 0, GenesisEntry)]
  <2>1. t.entries = Put(store.entries, 0, GenesisEntry) /\ Write(t)
    BY <1>1, <1>5 DEF PutGenesis, StoreType
  <2>2. DOMAIN store.entries \subseteq {0} /\ Chained(store.entries)
    BY <1>1, <1>5 DEF PutGenesis, LedgerInv, HandleOK, StoreOK
  <2> HIDE DEF t
  <2>3. CASE DOMAIN store.entries = {}
    <3>1. DOMAIN store.entries = 0 .. 0 - 1
      BY <2>3
    <3>2. Abstract!Extend(GenesisEntry.unsigned)
      BY <2>1, <3>1, ExtendingWrite
    <3>3. GenesisEntry.unsigned = Genesis
      BY DEF GenesisEntry, NewEntry
    <3> QED
      BY <3>2, <3>3 DEF Abstract!LogNext
  <2>4. CASE 0 \in DOMAIN store.entries
    <3>1. store.entries[0] = GenesisEntry /\ DOMAIN store.entries = {0}
      BY <2>2, <2>4 DEF Chained
    <3>2. LogOf(t) = LogOf(store)
      BY <2>1, <3>1 DEF LogOf, Put
    <3>3. LogOf(store') = LogOf(store)
      BY <2>1, <3>2 DEF Write
    <3>4. {LogOf(s) : s \in recoverable'} = {LogOf(s) : s \in recoverable}
      BY <1>1, <2>1, <3>2 DEF Write
    <3> QED
      BY <3>3, <3>4 DEF Abstract!logVars
  <2> QED
    BY <2>2, <2>3, <2>4
<1>6. CASE PutHeadSequence
  BY <1>1, <1>6, SilentWrite DEF PutHeadSequence, StoreType
<1>7. CASE PutHeadHash
  <2> DEFINE hash == {ChainHash(GenesisEntry)}
             t == [store EXCEPT !.headHash = hash]
  <2>1. Write(t)
    BY <1>7 DEF PutHeadHash
  <2>2. t.entries = store.entries
    <3> HIDE DEF hash
    <3> QED
      BY <1>1 DEF StoreType
  <2> HIDE DEF t
  <2> QED
    BY <2>1, <2>2, SilentWrite
<1>8. CASE AppendWrite
  <2> DEFINE new == Put(store.entries, HolderEntry.sequence, HolderEntry)
             seq == HolderEntry.sequence
             hash == {ChainHash(HolderEntry)}
             t == [store EXCEPT !.entries = new, !.headSequence = seq, !.headHash = hash]
  <2>1. Write(t)
    BY <1>8 DEF AppendWrite, Batch
  <2>2. t.entries = new
    <3> HIDE DEF new, seq, hash
    <3> QED
      BY <1>1 DEF StoreType
  <2> HIDE DEF t
  <2>3. /\ queue # <<>> /\ ~written /\ queue \in Seq(Call)
    BY <1>8 DEF AppendWrite, LedgerInv, TypeOK
  <2>4. /\ store.headSequence # None /\ head.sequence = store.headSequence
    BY <2>3 DEF LedgerInv, HandleOK
  <2>5. /\ seq \in Nat /\ DOMAIN store.entries = 0 .. seq - 1
    BY <1>1, <2>4, HolderShape DEF StoreOK, StoreType
  <2>6. HolderEntry.unsigned = Head(queue).unsigned /\ Head(queue).unsigned \in Unsigned
    <3>1. Head(queue) \in Call
      BY <2>3
    <3> QED
      BY <3>1 DEF HolderEntry, NewEntry, Call
  <2>7. Abstract!Extend(HolderEntry.unsigned)
    <3>1. t.entries = Put(store.entries, seq, HolderEntry)
      BY <2>2
    <3> HIDE DEF seq
    <3> QED
      BY <2>1, <2>5, <3>1, ExtendingWrite
  <2> QED
    BY <2>6, <2>7 DEF Abstract!LogNext
<1>9. CASE ~(Sync \/ LosePower \/ PutPubkey \/ PutGenesis \/ PutHeadSequence
            \/ PutHeadHash \/ AppendWrite)
  <2>1. UNCHANGED <<store, recoverable>>
    BY <1>9 DEF Next, Open, vars, OpenNew, OpenExisting, OpenError, AppendCall,
       AppendCancel, AppendError, AppendReturn, HeadSequence, Crash, storeVars
  <2> QED
    BY <2>1 DEF Abstract!logVars
<1> QED
  BY <1>2, <1>3, <1>4, <1>5, <1>6, <1>7, <1>8, <1>9

(* Every behaviour of the ledger is one of the abstract log: an entry is   *)
(* added at the end or a power loss falls back to a recoverable prefix.    *)
THEOREM LedgerImplementsLog == Spec => ImplementsLog
<1>1. Init => Abstract!LogInit
  <2> SUFFICES ASSUME Init PROVE Abstract!LogInit
    OBVIOUS
  <2>1. LogOf(store) = [n \in {} |-> 0]
    BY DEF Init, EmptyStore, LogOf
  <2>2. {LogOf(s) : s \in recoverable} = {LogOf(store)}
    BY DEF Init
  <2> QED
    BY <2>1, <2>2 DEF Abstract!LogInit
<1>2. LedgerInv /\ [Next]_vars => [Abstract!LogNext]_(Abstract!logVars)
  BY StepImplements
<1> QED
  BY <1>1, <1>2, LedgerInvariant, PTL DEF Spec, ImplementsLog, Abstract!LogSpec

-----------------------------------------------------------------------------
(***************************************************************************)
(* The store whose bytes change (LedgerCorruption.tla): what verify_chain  *)
(* says of it, for every number and order of edits, every length and every *)
(* hash.  SignaturesBind below is what is assumed of the signatures.       *)
(***************************************************************************)

(* Every set of naturals has a least element.                              *)
LEMMA LeastNatural ==
  ASSUME NEW T \in SUBSET Nat, T # {}
  PROVE  \E x \in T : \A y \in T : x <= y
<1> DEFINE R == OpToRel(<, Nat)
<1>1. IsWellFoundedOn(R, Nat)
  BY NatLessThanWellFounded
<1>2. \A x, y \in Nat : x < y => <<x, y>> \in R
  BY DEF OpToRel
<1> HIDE DEF R
<1>3. PICK x \in T : \A y \in T : ~ (<<y, x>> \in R)
  BY <1>1, WFMin
<1>4. ASSUME NEW y \in T PROVE x <= y
  <2>1. x \in Nat /\ y \in Nat /\ ~(y < x)
    BY <1>2, <1>3
  <2> QED
    BY <2>1
<1> QED
  BY <1>4

(* The chain that some contents make, as a recursive function.             *)
ChainStep(f, c, k) ==
  IF k = 0 THEN GenesisEntry ELSE NewEntry(k, ChainHash(f[k - 1]), c[k])

IsChain(f, c) == f = [k \in 0 .. Length |-> ChainStep(f, c, k)]

(* f is that chain up to n, and anything after it.                         *)
IsChainUpTo(f, c, n) ==
  /\ f = [k \in 0 .. Length |-> f[k]]
  /\ \A k \in 0 .. n : f[k] = ChainStep(f, c, k)

ChainExistsUpTo(c, n) == \E f : IsChainUpTo(f, c, n)

(* A chain can be written one entry further.                               *)
LEMMA ChainExtends ==
  ASSUME NEW c, NEW n \in Nat, n + 1 \in 0 .. Length, ChainExistsUpTo(c, n)
  PROVE  ChainExistsUpTo(c, n + 1)
<1>0. Length \in Nat
  BY LengthAssumption
<1>1. PICK f : IsChainUpTo(f, c, n)
  BY DEF ChainExistsUpTo
<1>2. PICK g : g = [k \in 0 .. Length |->
                     IF k = n + 1 THEN ChainStep(f, c, n + 1) ELSE f[k]]
  OBVIOUS
<1>3. \A k \in 0 .. Length : g[k] = IF k = n + 1 THEN ChainStep(f, c, n + 1) ELSE f[k]
  BY <1>2
<1>4. g = [k \in 0 .. Length |-> g[k]]
  BY <1>2
<1>5. ASSUME NEW k \in 0 .. n + 1 PROVE g[k] = ChainStep(g, c, k)
  <2>0. ASSUME k # n + 1 PROVE g[k] = f[k] /\ f[k] = ChainStep(f, c, k)
    <3>1. k \in 0 .. n /\ k \in 0 .. Length
      BY <1>0, <2>0
    <3>2. g[k] = f[k]
      BY <1>3, <2>0, <3>1
    <3>3. f[k] = ChainStep(f, c, k)
      BY <1>1, <3>1 DEF IsChainUpTo
    <3> QED
      BY <3>2, <3>3
  <2>1. CASE k = 0
    <3>1. g[k] = f[k] /\ f[k] = ChainStep(f, c, k)
      BY <2>0, <2>1
    <3> QED
      BY <3>1, <2>1 DEF ChainStep
  <2>2. CASE k \in 1 .. n
    <3>1. g[k] = f[k] /\ f[k] = ChainStep(f, c, k)
      BY <2>0, <2>2
    <3>2. g[k - 1] = f[k - 1]
      BY <1>0, <1>3, <2>2
    <3> QED
      BY <3>1, <3>2, <2>2 DEF ChainStep
  <2>3. CASE k = n + 1
    <3>1. g[k] = ChainStep(f, c, k)
      BY <1>0, <1>3, <2>3
    <3>2. g[k - 1] = f[k - 1] /\ k # 0
      BY <1>0, <1>3, <2>3
    <3> QED
      BY <3>1, <3>2 DEF ChainStep
  <2> QED
    BY <2>1, <2>2, <2>3
<1>6. IsChainUpTo(g, c, n + 1)
  BY <1>4, <1>5 DEF IsChainUpTo
<1> QED
  BY <1>6 DEF ChainExistsUpTo

(* So it can be written to the end.                                        *)
LEMMA ChainExists ==
  ASSUME NEW c PROVE \E f : IsChain(f, c)
<1>0. Length \in Nat
  BY LengthAssumption
<1>1. ChainExistsUpTo(c, 0)
  <2>1. PICK f : f = [k \in 0 .. Length |-> GenesisEntry]
    OBVIOUS
  <2>2. \A k \in 0 .. 0 : f[k] = ChainStep(f, c, k)
    BY <1>0, <2>1 DEF ChainStep
  <2>3. f = [k \in 0 .. Length |-> f[k]]
    BY <2>1
  <2> QED
    BY <2>2, <2>3 DEF ChainExistsUpTo, IsChainUpTo
<1> DEFINE Missing == {n \in 0 .. Length : ~ChainExistsUpTo(c, n)}
<1>2. Missing = {}
  <2>1. SUFFICES ASSUME Missing # {} PROVE FALSE
    OBVIOUS
  <2>2. PICK n \in Missing : \A m \in Missing : n <= m
    <3>1. Missing \in SUBSET Nat
      BY <1>0
    <3> HIDE DEF Missing
    <3> QED
      BY <3>1, <2>1, LeastNatural
  <2>3. n \in 0 .. Length /\ n # 0 /\ ~ChainExistsUpTo(c, n)
    BY <1>1, <2>2
  <2>4. n - 1 \in 0 .. Length /\ n - 1 \in Nat /\ n = (n - 1) + 1
    BY <1>0, <2>3
  <2>5. ChainExistsUpTo(c, n - 1)
    BY <2>2, <2>3, <2>4
  <2>6. ChainExistsUpTo(c, (n - 1) + 1)
    BY <2>3, <2>4, <2>5, ChainExtends
  <2> QED
    BY <2>3, <2>4, <2>6
<1>3. PICK f : IsChainUpTo(f, c, Length)
  BY <1>0, <1>2 DEF ChainExistsUpTo
<1>4. \A k \in 0 .. Length : f[k] = ChainStep(f, c, k)
  BY <1>3 DEF IsChainUpTo
<1>5. f = [k \in 0 .. Length |-> f[k]]
  BY <1>3 DEF IsChainUpTo
<1>6. f = [k \in 0 .. Length |-> ChainStep(f, c, k)]
  BY <1>4, <1>5
<1> QED
  BY <1>6 DEF IsChain

(* What ChainOf makes: the genesis entry, then each next one linked to the *)
(* one before it.                                                          *)
LEMMA ChainShape ==
  ASSUME NEW c
  PROVE  /\ ChainOf(c) = [k \in 0 .. Length |-> ChainOf(c)[k]]
         /\ ChainOf(c)[0] = GenesisEntry
         /\ \A k \in 1 .. Length :
              ChainOf(c)[k] = NewEntry(k, ChainHash(ChainOf(c)[k - 1]), c[k])
<1>0. Length \in Nat
  BY LengthAssumption
<1>1. ChainOf(c) = CHOOSE f : IsChain(f, c)
  BY Zenon DEF ChainOf, IsChain, ChainStep
<1>2. IsChain(ChainOf(c), c)
  BY <1>1, ChainExists
<1>3. ChainOf(c) = [k \in 0 .. Length |-> ChainStep(ChainOf(c), c, k)]
  BY <1>2 DEF IsChain
<1>4. PICK h : h = ChainOf(c)
  OBVIOUS
<1>5. h = [k \in 0 .. Length |-> ChainStep(h, c, k)]
  BY <1>3, <1>4
<1>6. \A k \in 0 .. Length : h[k] = ChainStep(h, c, k)
  BY <1>5
<1>7. h[0] = GenesisEntry
  BY <1>0, <1>6 DEF ChainStep
<1>8. \A k \in 1 .. Length : h[k] = NewEntry(k, ChainHash(h[k - 1]), c[k])
  BY <1>0, <1>6 DEF ChainStep
<1>9. h = [k \in 0 .. Length |-> h[k]]
  BY <1>5
<1> QED
  BY <1>4, <1>7, <1>8, <1>9


-----------------------------------------------------------------------------
(* A stored entry has the four fields of a LedgerEntry.                    *)
EntryShape(e) ==
  e = [sequence  |-> e.sequence,
       previous  |-> e.previous,
       unsigned  |-> e.unsigned,
       signature |-> e.signature]

(* What append signs under a sequence.                                     *)
Appendable(sequence, unsigned) ==
  IF sequence = 0 THEN unsigned = Genesis
                  ELSE sequence \in 1 .. Length /\ unsigned \in Unsigned

(* A signature in the store is one the agent made of what append writes, or*)
(* one of the other key.                                                   *)
SignatureKnown(signature) ==
  \/ \E bytes : signature = Sign(OtherKey, bytes)
  \/ \E sequence, previous, unsigned :
       /\ Appendable(sequence, unsigned)
       /\ signature = Sign(Key, Canonical(sequence, previous, unsigned))

EntryKnown(e) == EntryShape(e) /\ SignatureKnown(e.signature)

(* The inductive invariant: whatever the edits, every signature is known,  *)
(* and after one edit only the edited key has changed.                     *)
CorruptionInv ==
  /\ original \in Histories
  /\ DOMAIN stored \subseteq 0 .. Length
  /\ \A k \in DOMAIN stored : EntryKnown(stored[k])
  /\ touched \in Seq(0 .. Length)
  /\ touched = <<>> => stored = original
  /\ \A k \in 0 .. Length : touched = <<k>> =>
       \A j \in (0 .. Length) \ {k} : j \in DOMAIN stored /\ stored[j] = original[j]

(* Every entry of a history has the shape and a signature append makes.    *)
LEMMA HistoryShape ==
  ASSUME NEW h \in Histories
  PROVE  /\ h = [k \in 0 .. Length |-> h[k]]
         /\ h[0] = GenesisEntry
         /\ \A k \in 1 .. Length :
              /\ h[k] = NewEntry(k, ChainHash(h[k - 1]), h[k].unsigned)
              /\ h[k].unsigned \in Unsigned
<1>0. Length \in Nat
  BY LengthAssumption
<1>1. PICK c \in [1 .. Length -> Unsigned] : h = ChainOf(c)
  BY DEF Histories
<1>2. /\ h = [k \in 0 .. Length |-> h[k]]
      /\ h[0] = GenesisEntry
      /\ \A k \in 1 .. Length : h[k] = NewEntry(k, ChainHash(h[k - 1]), c[k])
  BY <1>1, ChainShape
<1>3. ASSUME NEW k \in 1 .. Length PROVE h[k].unsigned = c[k] /\ c[k] \in Unsigned
  <2>1. PICK hash : h[k] = NewEntry(k, hash, c[k])
    BY <1>2
  <2>2. h[k].unsigned = c[k]
    BY <2>1 DEF NewEntry
  <2> QED
    BY <1>1, <2>2
<1> QED
  BY <1>2, <1>3

(* So they are known.                                                      *)
LEMMA HistoryKnown ==
  ASSUME NEW h \in Histories, NEW k \in 0 .. Length PROVE EntryKnown(h[k])
<1>0. Length \in Nat
  BY LengthAssumption
<1>1. ASSUME NEW s, NEW p, NEW u, Appendable(s, u) PROVE EntryKnown(NewEntry(s, p, u))
  <2>1. NewEntry(s, p, u).signature = Sign(Key, Canonical(s, p, u))
    BY DEF NewEntry
  <2>2. EntryShape(NewEntry(s, p, u))
    BY DEF NewEntry, EntryShape
  <2>3. SignatureKnown(NewEntry(s, p, u).signature)
    BY <1>1, <2>1 DEF SignatureKnown
  <2> QED
    BY <2>2, <2>3 DEF EntryKnown
<1>2. CASE k = 0
  <2>1. h[k] = NewEntry(0, ZeroHash, Genesis) /\ Appendable(0, Genesis)
    BY <1>2, HistoryShape DEF GenesisEntry, Appendable
  <2> QED
    BY <1>1, <2>1
<1>3. CASE k \in 1 .. Length
  <2>1. h[k] = NewEntry(k, ChainHash(h[k - 1]), h[k].unsigned)
        /\ Appendable(k, h[k].unsigned)
    BY <1>3, HistoryShape DEF Appendable
  <2> QED
    BY <1>1, <2>1
<1> QED
  BY <1>0, <1>2, <1>3

(* The chain as it was written satisfies the invariant.                    *)
LEMMA CorruptionInitInv == CorruptionInit => CorruptionInv
<1> SUFFICES ASSUME CorruptionInit PROVE CorruptionInv
  OBVIOUS
<1>1. original \in Histories /\ stored = original /\ touched = <<>>
  BY DEF CorruptionInit
<1>2. DOMAIN stored = 0 .. Length
  <2>1. original = [k \in 0 .. Length |-> original[k]]
    BY <1>1, HistoryShape
  <2> QED
    BY <1>1, <2>1
<1>3. \A k \in DOMAIN stored : EntryKnown(stored[k])
  BY <1>1, <1>2, HistoryKnown
<1>4. touched \in Seq(0 .. Length) /\ \A k \in 0 .. Length : touched # <<k>>
  BY <1>1
<1> QED
  BY <1>1, <1>2, <1>3, <1>4 DEF CorruptionInv

(* An edit that leaves the other keys alone, and a known entry or none at  *)
(* its own, keeps the invariant.                                           *)
LEMMA EditKeepsInv ==
  ASSUME CorruptionInv, NEW k \in 0 .. Length, Edited(k),
         DOMAIN stored' \ {k} = DOMAIN stored \ {k},
         \A j \in DOMAIN stored \ {k} : stored'[j] = stored[j],
         k \in DOMAIN stored' => EntryKnown(stored'[k])
  PROVE  CorruptionInv'
<1>1. original' = original /\ touched' = Append(touched, k)
      /\ touched \in Seq(0 .. Length)
  BY DEF Edited, CorruptionInv
<1>2. original' \in Histories
  BY <1>1 DEF CorruptionInv
<1>3. DOMAIN stored' \subseteq 0 .. Length
  BY DEF CorruptionInv
<1>4. ASSUME NEW j \in DOMAIN stored' PROVE EntryKnown(stored'[j])
  <2>1. CASE j = k
    BY <2>1
  <2>2. CASE j # k
    <3>1. j \in DOMAIN stored \ {k} /\ j \in DOMAIN stored
      BY <2>2
    <3>2. stored'[j] = stored[j] /\ EntryKnown(stored[j])
      BY <3>1 DEF CorruptionInv
    <3> QED
      BY <3>2
  <2> QED
    BY <2>1, <2>2
<1>5. touched' \in Seq(0 .. Length) /\ touched' # <<>>
  BY <1>1
<1>6. ASSUME NEW l \in 0 .. Length, touched' = <<l>>,
             NEW j \in (0 .. Length) \ {l}
      PROVE  j \in DOMAIN stored' /\ stored'[j] = original'[j]
  <2>1. touched = <<>> /\ l = k
    <3>1. PICK s \in Seq(0 .. Length) : s = touched
      BY <1>1
    <3>2. Append(s, k) = <<l>>
      BY <1>1, <1>6, <3>1
    <3>3. Len(Append(s, k)) = 1
      BY <3>2
    <3>4. Len(s) = 0
      BY <3>3
    <3>5. s = <<>>
      BY <3>4
    <3>6. Append(s, k)[1] = k
      BY <3>4
    <3> QED
      BY <3>1, <3>2, <3>5, <3>6
  <2>2. stored = original /\ original = [i \in 0 .. Length |-> original[i]]
    BY <2>1, HistoryShape DEF CorruptionInv
  <2>3. j \in DOMAIN stored \ {k} /\ stored[j] = original[j]
    BY <2>1, <2>2
  <2> QED
    BY <1>1, <2>3
<1> QED
  BY <1>2, <1>3, <1>4, <1>5, <1>6 DEF CorruptionInv

(* Every edit is one.                                                      *)
LEMMA CorruptionNextInv ==
  CorruptionInv /\ [CorruptionNext]_corruptionVars => CorruptionInv'
<1> SUFFICES ASSUME CorruptionInv, [CorruptionNext]_corruptionVars
             PROVE  CorruptionInv'
  OBVIOUS
<1>0. /\ DOMAIN stored \subseteq 0 .. Length
      /\ original \in Histories
      /\ DOMAIN original = 0 .. Length
      /\ \A k \in DOMAIN stored : EntryKnown(stored[k])
  <2>1. original \in Histories
    BY DEF CorruptionInv
  <2>2. original = [i \in 0 .. Length |-> original[i]]
    BY <2>1, HistoryShape
  <2> QED
    BY <2>1, <2>2 DEF CorruptionInv
<1>1. ASSUME NEW k \in DOMAIN stored, NEW u, AlterPayload(k, u) PROVE CorruptionInv'
  <2>1. EntryKnown(stored[k])
    BY <1>0
  <2>2. EntryKnown([stored[k] EXCEPT !.unsigned = u])
    BY <2>1 DEF EntryKnown, EntryShape
  <2>3. stored' = [stored EXCEPT ![k] = [stored[k] EXCEPT !.unsigned = u]]
        /\ Edited(k) /\ k \in 0 .. Length
    BY <1>0, <1>1 DEF AlterPayload
  <2> QED
    BY <2>2, <2>3, EditKeepsInv
<1>2. ASSUME NEW k \in DOMAIN stored, NEW hash, AlterPrevious(k, hash)
      PROVE  CorruptionInv'
  <2>1. EntryKnown(stored[k])
    BY <1>0
  <2>2. EntryKnown([stored[k] EXCEPT !.previous = hash])
    BY <2>1 DEF EntryKnown, EntryShape
  <2>3. stored' = [stored EXCEPT ![k] = [stored[k] EXCEPT !.previous = hash]]
        /\ Edited(k) /\ k \in 0 .. Length
    BY <1>0, <1>2 DEF AlterPrevious
  <2> QED
    BY <2>2, <2>3, EditKeepsInv
<1>3. ASSUME NEW k \in DOMAIN stored, NEW u, Resign(k, u) PROVE CorruptionInv'
  <2>1. EntryKnown(stored[k])
    BY <1>0
  <2>2. PICK s : s = Sign(OtherKey, Canonical(stored[k].sequence, stored[k].previous, u))
    OBVIOUS
  <2>3. SignatureKnown(s)
    BY <2>2 DEF SignatureKnown
  <2>4. PICK e : e = [stored[k] EXCEPT !.unsigned = u, !.signature = s]
    OBVIOUS
  <2>5. e.signature = s /\ EntryShape(e)
    BY <2>1, <2>4 DEF EntryKnown, EntryShape
  <2>6. EntryKnown(e)
    BY <2>3, <2>5 DEF EntryKnown
  <2>7. stored' = [stored EXCEPT ![k] = e] /\ Edited(k) /\ k \in 0 .. Length
    BY <1>0, <1>3, <2>2, <2>4 DEF Resign
  <2> QED
    BY <2>6, <2>7, EditKeepsInv
<1>4. ASSUME NEW k \in DOMAIN stored, Drop(k) PROVE CorruptionInv'
  <2>1. stored' = [j \in DOMAIN stored \ {k} |-> stored[j]] /\ Edited(k) /\ k \in 0 .. Length
    BY <1>0, <1>4 DEF Drop
  <2> QED
    BY <2>1, EditKeepsInv
<1>5. ASSUME NEW k \in 0 .. Length, NEW j \in 0 .. Length, NEW h \in Histories,
             Overwrite(k, h[j])
      PROVE  CorruptionInv'
  <2>1. EntryKnown(h[j])
    BY HistoryKnown
  <2>2. stored' = [i \in DOMAIN stored \cup {k} |-> IF i = k THEN h[j] ELSE stored[i]]
        /\ Edited(k)
    BY <1>5 DEF Overwrite, Put
  <2> QED
    BY <2>1, <2>2, EditKeepsInv
<1>6. CASE UNCHANGED corruptionVars
  BY <1>6 DEF corruptionVars, CorruptionInv
<1> QED
  BY <1>0, <1>1, <1>2, <1>3, <1>4, <1>5, <1>6 DEF CorruptionNext

(* Whatever the edits, the invariant holds.                                *)
THEOREM CorruptionInvariant == CorruptionSpec => []CorruptionInv
<1> QED
  BY CorruptionInitInv, CorruptionNextInv, PTL DEF CorruptionSpec


-----------------------------------------------------------------------------
(* What Ed25519 over canonical bytes is taken to guarantee: a signature    *)
(* says which bytes it is of, and no other key can make it.                *)
SignaturesBind ==
  /\ \A x, y : Sign(Key, x) = Sign(Key, y) => x = y
  /\ \A x, y : Sign(OtherKey, x) # Sign(Key, y)

KnownStore(entries) ==
  /\ DOMAIN entries \subseteq 0 .. Length
  /\ \A k \in DOMAIN entries : EntryKnown(entries[k])

FirstKey(entries, k) == \A i \in DOMAIN entries : k <= i

(* The key before k, as the iterator finds it.                             *)
KeyBefore(entries, j, k) ==
  /\ j \in DOMAIN entries
  /\ j < k
  /\ \A i \in DOMAIN entries : i < k => i <= j

(* An entry with a valid signature is one append can have written.         *)
LEMMA ValidIsWritten ==
  ASSUME SignaturesBind, NEW e, EntryKnown(e), SignatureValid(e)
  PROVE  /\ e = NewEntry(e.sequence, e.previous, e.unsigned)
         /\ Appendable(e.sequence, e.unsigned)
<1>1. e.signature = Sign(Key, Canonical(e.sequence, e.previous, e.unsigned))
  BY DEF SignatureValid
<1>2. \A x : e.signature # Sign(OtherKey, x)
  BY <1>1 DEF SignaturesBind
<1>3. PICK s, p, u : Appendable(s, u) /\ e.signature = Sign(Key, Canonical(s, p, u))
  BY <1>2 DEF EntryKnown, SignatureKnown
<1>4. Canonical(s, p, u) = Canonical(e.sequence, e.previous, e.unsigned)
  BY <1>1, <1>3 DEF SignaturesBind
<1>5. s = e.sequence /\ u = e.unsigned
  BY <1>4 DEF Canonical
<1> QED
  BY <1>1, <1>3, <1>5 DEF EntryKnown, EntryShape, NewEntry

(* A key that is not the first has one before it.                          *)
LEMMA KeyBeforeExists ==
  ASSUME NEW entries, KnownStore(entries), NEW k \in DOMAIN entries,
         ~FirstKey(entries, k)
  PROVE  \E j : KeyBefore(entries, j, k)
<1>0. Length \in Nat /\ DOMAIN entries \subseteq 0 .. Length
  BY LengthAssumption DEF KnownStore
<1> DEFINE Gaps == {k - i : i \in {j \in DOMAIN entries : j < k}}
<1>1. Gaps \in SUBSET Nat
  BY <1>0
<1>2. Gaps # {}
  BY <1>0 DEF FirstKey
<1>3. PICK gap \in Gaps : \A g \in Gaps : gap <= g
  <2> HIDE DEF Gaps
  <2> QED
    BY <1>1, <1>2, LeastNatural
<1>4. PICK j \in DOMAIN entries : j < k /\ gap = k - j
  BY <1>3
<1>5. ASSUME NEW i \in DOMAIN entries, i < k PROVE i <= j
  <2>1. k - i \in Gaps
    BY <1>5
  <2>2. k - j <= k - i
    BY <1>3, <1>4, <2>1
  <2> QED
    BY <1>0, <2>2
<1>6. KeyBefore(entries, j, k)
  BY <1>4, <1>5 DEF KeyBefore
<1> QED
  BY <1>6

(* And Before is that key.                                                 *)
LEMMA BeforeIs ==
  ASSUME NEW entries, KnownStore(entries), NEW k \in DOMAIN entries,
         NEW j, KeyBefore(entries, j, k)
  PROVE  Before(entries, k) = j
<1>1. DOMAIN entries \subseteq Int
  BY LengthAssumption DEF KnownStore
<1>2. ASSUME NEW i \in DOMAIN entries, i < k,
             \A l \in DOMAIN entries : l < k => l <= i
      PROVE  i = j
  <2>1. i <= j /\ j <= i /\ i \in Int /\ j \in Int
    BY <1>1, <1>2 DEF KeyBefore
  <2> QED
    BY <2>1
<1> QED
  BY <1>2 DEF Before, KeyBefore

(* An entry of an accepted store: the genesis entry under the first key,   *)
(* and under any other one that continues the entry before it.             *)
Continues(entries, j, k) ==
  /\ KeyBefore(entries, j, k)
  /\ entries[k].sequence = entries[j].sequence + 1
  /\ entries[k].previous = ChainHash(entries[j])

Accepted(entries) == KnownStore(entries) /\ ChainOk(entries)

SequenceAt(entries, k) == entries[k].sequence

(* What verify_chain checked of each entry.                                *)
LEMMA AcceptedEntry ==
  ASSUME SignaturesBind, NEW entries, Accepted(entries), NEW k \in DOMAIN entries
  PROVE  /\ entries[k] = NewEntry(entries[k].sequence, entries[k].previous,
                                  entries[k].unsigned)
         /\ Appendable(entries[k].sequence, entries[k].unsigned)
         /\ FirstKey(entries, k) => entries[k] = GenesisEntry
         /\ ~FirstKey(entries, k) => \E j : Continues(entries, j, k)
<1>1. EntryValid(entries, k) /\ EntryKnown(entries[k]) /\ KnownStore(entries)
  BY DEF Accepted, ChainOk, KnownStore
<1>2. SignatureValid(entries[k])
  BY <1>1 DEF EntryValid
<1>3. /\ entries[k] = NewEntry(entries[k].sequence, entries[k].previous,
                               entries[k].unsigned)
      /\ Appendable(entries[k].sequence, entries[k].unsigned)
  BY <1>1, <1>2, ValidIsWritten
<1>4. ASSUME FirstKey(entries, k) PROVE entries[k] = GenesisEntry
  <2>1. entries[k].sequence = 0 /\ entries[k].previous = ZeroHash
    BY <1>1, <1>4 DEF EntryValid, FirstKey, FirstEntryValid
  <2>2. entries[k].unsigned = Genesis
    BY <1>3, <2>1 DEF Appendable
  <2> QED
    BY <1>3, <2>1, <2>2 DEF GenesisEntry
<1>5. ASSUME ~FirstKey(entries, k) PROVE \E j : Continues(entries, j, k)
  <2>1. PICK j : KeyBefore(entries, j, k)
    BY <1>1, <1>5, KeyBeforeExists
  <2>2. Before(entries, k) = j
    BY <1>1, <2>1, BeforeIs
  <2>3. Continues(entries, j, k)
    BY <1>1, <1>5, <2>1, <2>2 DEF EntryValid, FirstKey, VerifyLink, Continues
  <2> QED
    BY <2>3
<1> QED
  BY <1>3, <1>4, <1>5

(* The sequences of an accepted store are sequences of a history.          *)
LEMMA AcceptedSequence ==
  ASSUME SignaturesBind, NEW entries, Accepted(entries), NEW k \in DOMAIN entries
  PROVE  SequenceAt(entries, k) \in 0 .. Length /\ k \in 0 .. Length
<1>1. Appendable(entries[k].sequence, entries[k].unsigned)
  BY AcceptedEntry
<1> QED
  BY <1>1, LengthAssumption DEF Appendable, SequenceAt, Accepted, KnownStore

(* They grow with the key.                                                 *)
LEMMA AcceptedIncreasing ==
  ASSUME SignaturesBind, NEW entries, Accepted(entries),
         NEW j \in DOMAIN entries, NEW k \in DOMAIN entries, j < k
  PROVE  SequenceAt(entries, j) < SequenceAt(entries, k)
<1>0. Length \in Nat /\ DOMAIN entries \subseteq 0 .. Length
  BY LengthAssumption DEF Accepted, KnownStore
<1> DEFINE Wrong == {i \in DOMAIN entries :
                       j < i /\ ~(SequenceAt(entries, j) < SequenceAt(entries, i))}
<1>1. SUFFICES ASSUME Wrong # {} PROVE FALSE
  OBVIOUS
<1>2. PICK i \in Wrong : \A l \in Wrong : i <= l
  <2>1. Wrong \in SUBSET Nat
    BY <1>0
  <2> HIDE DEF Wrong
  <2> QED
    BY <1>1, <2>1, LeastNatural
<1>3. i \in DOMAIN entries /\ j < i /\ i \in Nat /\ j \in Nat
  BY <1>0, <1>2
<1>4. ~FirstKey(entries, i)
  BY <1>3 DEF FirstKey
<1>5. PICK b : Continues(entries, b, i)
  BY <1>3, <1>4, AcceptedEntry
<1>6. /\ b \in DOMAIN entries /\ b \in Nat /\ b < i /\ j <= b
      /\ SequenceAt(entries, i) = SequenceAt(entries, b) + 1
  BY <1>0, <1>3, <1>5 DEF Continues, KeyBefore, SequenceAt
<1>7. /\ SequenceAt(entries, i) \in Int
      /\ SequenceAt(entries, b) \in Int
      /\ SequenceAt(entries, j) \in Int
  BY <1>0, <1>3, <1>6, AcceptedSequence
<1>8. SequenceAt(entries, j) <= SequenceAt(entries, b)
  <2>1. CASE j = b
    BY <1>7, <2>1
  <2>2. CASE j # b
    <3>1. b \notin Wrong /\ j < b
      BY <1>2, <1>3, <1>6, <2>2
    <3> QED
      BY <1>6, <1>7, <3>1
  <2> QED
    BY <2>1, <2>2
<1>9. SequenceAt(entries, j) < SequenceAt(entries, i)
  BY <1>6, <1>7, <1>8
<1> QED
  BY <1>2, <1>9

(* And leave none out.                                                     *)
LEMMA AcceptedComplete ==
  ASSUME SignaturesBind, NEW entries, Accepted(entries),
         NEW k \in DOMAIN entries, NEW n \in 0 .. SequenceAt(entries, k)
  PROVE  \E j \in DOMAIN entries : SequenceAt(entries, j) = n
<1>0. Length \in Nat /\ DOMAIN entries \subseteq 0 .. Length
  BY LengthAssumption DEF Accepted, KnownStore
<1> DEFINE Missing == {i \in DOMAIN entries : n \in 0 .. SequenceAt(entries, i)}
<1>1. Missing # {}
  OBVIOUS
<1>2. PICK i \in Missing : \A l \in Missing : i <= l
  <2>1. Missing \in SUBSET Nat
    BY <1>0
  <2> HIDE DEF Missing
  <2> QED
    BY <1>1, <2>1, LeastNatural
<1>3. i \in DOMAIN entries /\ n \in 0 .. SequenceAt(entries, i) /\ i \in Nat
  BY <1>0, <1>2
<1>4. CASE FirstKey(entries, i)
  <2>1. entries[i] = GenesisEntry
    BY <1>3, <1>4, AcceptedEntry
  <2>2. SequenceAt(entries, i) = 0
    BY <2>1 DEF SequenceAt, GenesisEntry, NewEntry
  <2>3. n = 0
    BY <1>3, <2>2
  <2> QED
    BY <1>3, <2>2, <2>3
<1>5. CASE ~FirstKey(entries, i)
  <2>1. PICK b : Continues(entries, b, i)
    BY <1>3, <1>5, AcceptedEntry
  <2>2. /\ b \in DOMAIN entries /\ b \in Nat /\ b < i
        /\ SequenceAt(entries, i) = SequenceAt(entries, b) + 1
    BY <1>0, <1>3, <2>1 DEF Continues, KeyBefore, SequenceAt
  <2>3. SequenceAt(entries, b) \in Int /\ SequenceAt(entries, i) \in Int
    BY <1>0, <1>3, <2>2, AcceptedSequence
  <2>4. b \notin Missing
    BY <1>2, <1>3, <2>2
  <2>5. n = SequenceAt(entries, i)
    BY <1>3, <2>2, <2>3, <2>4
  <2> QED
    BY <1>3, <2>5
<1> QED
  BY <1>4, <1>5


(* No two keys hold the same one.                                          *)
LEMMA AcceptedDistinct ==
  ASSUME SignaturesBind, NEW entries, Accepted(entries),
         NEW j \in DOMAIN entries, NEW k \in DOMAIN entries,
         SequenceAt(entries, j) = SequenceAt(entries, k)
  PROVE  j = k
<1>1. j \in Nat /\ k \in Nat
      /\ SequenceAt(entries, j) \in Int /\ SequenceAt(entries, k) \in Int
  BY AcceptedSequence, LengthAssumption
<1>2. ~(j < k)
  <2> SUFFICES ASSUME j < k PROVE FALSE
    OBVIOUS
  <2>1. SequenceAt(entries, j) < SequenceAt(entries, k)
    BY AcceptedIncreasing
  <2> QED
    BY <1>1, <2>1
<1>3. ~(k < j)
  <2> SUFFICES ASSUME k < j PROVE FALSE
    OBVIOUS
  <2>1. SequenceAt(entries, k) < SequenceAt(entries, j)
    BY AcceptedIncreasing
  <2> QED
    BY <1>1, <2>1
<1> QED
  BY <1>1, <1>2, <1>3

SequencesOf(entries) == {SequenceAt(entries, k) : k \in DOMAIN entries}

(* The sequences in a store that is not empty are 0 .. m for some m.       *)
LEMMA AcceptedInterval ==
  ASSUME SignaturesBind, NEW entries, Accepted(entries), DOMAIN entries # {}
  PROVE  \E m \in 0 .. Length : SequencesOf(entries) = 0 .. m
<1>0. Length \in Nat
  BY LengthAssumption
<1> DEFINE Below == {Length - s : s \in SequencesOf(entries)}
<1>1. SequencesOf(entries) \subseteq 0 .. Length
  BY AcceptedSequence DEF SequencesOf
<1>2. Below \in SUBSET Nat /\ Below # {}
  <2>1. Below \in SUBSET Nat
    BY <1>0, <1>1
  <2>2. PICK k : k \in DOMAIN entries
    OBVIOUS
  <2>3. Length - SequenceAt(entries, k) \in Below
    BY <2>2 DEF SequencesOf
  <2> QED
    BY <2>1, <2>3
<1>3. PICK b \in Below : \A l \in Below : b <= l
  <2> HIDE DEF Below
  <2> QED
    BY <1>2, LeastNatural
<1>4. PICK m \in SequencesOf(entries) : b = Length - m
  BY <1>3
<1>5. m \in 0 .. Length
  BY <1>1, <1>4
<1>6. ASSUME NEW s \in SequencesOf(entries) PROVE s \in 0 .. m
  <2>1. Length - s \in Below /\ s \in 0 .. Length
    BY <1>1
  <2>2. Length - m <= Length - s
    BY <1>3, <1>4, <2>1
  <2> QED
    BY <1>0, <1>5, <2>1, <2>2
<1>7. ASSUME NEW n \in 0 .. m PROVE n \in SequencesOf(entries)
  <2>1. PICK k \in DOMAIN entries : m = SequenceAt(entries, k)
    BY <1>4 DEF SequencesOf
  <2>2. n \in 0 .. SequenceAt(entries, k)
    BY <2>1
  <2>3. PICK j \in DOMAIN entries : SequenceAt(entries, j) = n
    BY <2>2, AcceptedComplete
  <2> QED
    BY <2>3 DEF SequencesOf
<1> QED
  BY <1>5, <1>6, <1>7

(* As many as there are keys.                                              *)
LEMMA AcceptedCount ==
  ASSUME SignaturesBind, NEW entries, Accepted(entries),
         NEW m \in 0 .. Length, SequencesOf(entries) = 0 .. m
  PROVE  Cardinality(DOMAIN entries) = m + 1
<1>0. Length \in Nat /\ m \in Nat
  BY LengthAssumption
<1>1. IsFiniteSet(DOMAIN entries)
  <2>1. IsFiniteSet(0 .. Length)
    BY <1>0, FS_Interval
  <2>2. DOMAIN entries \in SUBSET (0 .. Length)
    BY DEF Accepted, KnownStore
  <2> QED
    BY <2>1, <2>2, FS_Subset
<1>2. PICK f : f = [k \in DOMAIN entries |-> SequenceAt(entries, k)]
  OBVIOUS
<1>3. f \in [DOMAIN entries -> 0 .. m]
  BY <1>2 DEF SequencesOf
<1>4. \A a, b \in DOMAIN entries : f[a] = f[b] => a = b
  BY <1>2, AcceptedDistinct
<1>5. \A t \in 0 .. m : \E k \in DOMAIN entries : f[k] = t
  BY <1>2 DEF SequencesOf
<1>6. f \in Injection(DOMAIN entries, 0 .. m)
  BY <1>3, <1>4 DEF Injection, IsInjective
<1>7. f \in Surjection(DOMAIN entries, 0 .. m)
  BY <1>3, <1>5 DEF Surjection
<1>8. Cardinality(0 .. m) = Cardinality(DOMAIN entries)
  BY <1>1, <1>6, <1>7, FS_Surjection
<1>9. Cardinality(0 .. m) = m + 1
  BY <1>0, FS_Interval
<1> QED
  BY <1>8, <1>9

(* The entry an accepted store has under a sequence.                       *)
EntryWith(entries, n) ==
  entries[CHOOSE k \in DOMAIN entries : SequenceAt(entries, k) = n]

(* It is the entry of every key with that sequence.                        *)
LEMMA EntryWithIs ==
  ASSUME SignaturesBind, NEW entries, Accepted(entries), NEW k \in DOMAIN entries
  PROVE  EntryWith(entries, SequenceAt(entries, k)) = entries[k]
<1>1. PICK n : n = SequenceAt(entries, k)
  OBVIOUS
<1>2. PICK j \in DOMAIN entries :
        /\ SequenceAt(entries, j) = n
        /\ EntryWith(entries, n) = entries[j]
  BY <1>1 DEF EntryWith
<1>3. j = k
  BY <1>1, <1>2, AcceptedDistinct
<1> QED
  BY <1>1, <1>2, <1>3

(* The entry with sequence n continues the one with n - 1.                 *)
LEMMA EntryWithLinked ==
  ASSUME SignaturesBind, NEW entries, Accepted(entries),
         NEW m \in 0 .. Length, SequencesOf(entries) = 0 .. m, NEW n \in 0 .. m
  PROVE  IF n = 0
           THEN EntryWith(entries, n) = GenesisEntry
           ELSE /\ EntryWith(entries, n) =
                     NewEntry(n, ChainHash(EntryWith(entries, n - 1)),
                              EntryWith(entries, n).unsigned)
                /\ EntryWith(entries, n).unsigned \in Unsigned
<1>0. Length \in Nat /\ n \in Nat /\ m \in Nat
  BY LengthAssumption
<1>1. PICK k \in DOMAIN entries : SequenceAt(entries, k) = n
  BY DEF SequencesOf
<1>2. EntryWith(entries, n) = entries[k] /\ entries[k].sequence = n
  BY <1>1, EntryWithIs DEF SequenceAt
<1>3. /\ entries[k] = NewEntry(n, entries[k].previous, entries[k].unsigned)
      /\ Appendable(n, entries[k].unsigned)
  BY <1>2, AcceptedEntry
<1>4. CASE FirstKey(entries, k)
  <2>1. entries[k] = GenesisEntry
    BY <1>4, AcceptedEntry
  <2>2. n = 0
    BY <1>2, <2>1 DEF GenesisEntry, NewEntry
  <2> QED
    BY <1>2, <2>1, <2>2
<1>5. CASE ~FirstKey(entries, k)
  <2>1. PICK b : Continues(entries, b, k)
    BY <1>5, AcceptedEntry
  <2>2. b \in DOMAIN entries /\ n = SequenceAt(entries, b) + 1
        /\ entries[k].previous = ChainHash(entries[b])
    BY <1>2, <2>1 DEF Continues, KeyBefore, SequenceAt
  <2>3. SequenceAt(entries, b) \in Nat
    BY <1>0, <2>2, AcceptedSequence
  <2>4. n # 0 /\ SequenceAt(entries, b) = n - 1
    BY <2>2, <2>3
  <2>5. EntryWith(entries, n - 1) = entries[b]
    BY <2>2, <2>4, EntryWithIs
  <2>6. entries[k].unsigned \in Unsigned
    BY <1>3, <2>4 DEF Appendable
  <2> QED
    BY <1>2, <1>3, <2>2, <2>4, <2>5, <2>6
<1> QED
  BY <1>4, <1>5

(* They begin a history that append can write.                             *)
LEMMA AcceptedPrefix ==
  ASSUME SignaturesBind, NEW entries, Accepted(entries),
         NEW m \in 0 .. Length, SequencesOf(entries) = 0 .. m,
         NEW other \in Histories
  PROVE  \E h \in Histories : \A n \in 0 .. m : EntryWith(entries, n) = h[n]
<1>0. Length \in Nat
  BY LengthAssumption
<1>1. PICK c : c = [n \in 1 .. Length |->
                     IF n <= m THEN EntryWith(entries, n).unsigned
                               ELSE other[n].unsigned]
  OBVIOUS
<1>2. ASSUME NEW n \in 1 .. Length
      PROVE  c[n] \in Unsigned /\ (n <= m => c[n] = EntryWith(entries, n).unsigned)
  <2>1. CASE n <= m
    <3>1. n \in 0 .. m /\ n # 0
      BY <1>0, <2>1
    <3>2. EntryWith(entries, n).unsigned \in Unsigned
      BY <3>1, EntryWithLinked
    <3> QED
      BY <1>1, <2>1, <3>2
  <2>2. CASE ~(n <= m)
    BY <1>1, <2>2, HistoryShape
  <2> QED
    BY <2>1, <2>2
<1>3. c \in [1 .. Length -> Unsigned]
  BY <1>1, <1>2
<1>4. PICK h \in Histories : h = ChainOf(c)
  BY <1>3 DEF Histories
<1>5. /\ h[0] = GenesisEntry
      /\ \A n \in 1 .. Length : h[n] = NewEntry(n, ChainHash(h[n - 1]), c[n])
  BY <1>4, ChainShape
<1> DEFINE Wrong == {n \in 0 .. m : EntryWith(entries, n) # h[n]}
<1>6. Wrong = {}
  <2>1. SUFFICES ASSUME Wrong # {} PROVE FALSE
    OBVIOUS
  <2>2. PICK n \in Wrong : \A l \in Wrong : n <= l
    <3>1. Wrong \in SUBSET Nat
      BY <1>0
    <3> HIDE DEF Wrong
    <3> QED
      BY <2>1, <3>1, LeastNatural
  <2>3. n \in 0 .. m /\ n \in 0 .. Length /\ EntryWith(entries, n) # h[n]
    BY <1>0, <2>2
  <2>4. n # 0
    BY <1>5, <2>3, EntryWithLinked
  <2>5. n - 1 \in 0 .. m /\ n \in 1 .. Length /\ n <= m /\ ~(n <= n - 1)
    BY <1>0, <2>3, <2>4
  <2>6. EntryWith(entries, n - 1) = h[n - 1]
    BY <2>2, <2>5
  <2>7. EntryWith(entries, n) =
          NewEntry(n, ChainHash(EntryWith(entries, n - 1)), EntryWith(entries, n).unsigned)
    BY <2>3, <2>4, EntryWithLinked
  <2>8. h[n] = NewEntry(n, ChainHash(h[n - 1]), EntryWith(entries, n).unsigned)
    BY <1>2, <1>5, <2>5
  <2> QED
    BY <2>3, <2>6, <2>7, <2>8
<1> QED
  BY <1>6

(* What the invariant says of a store that verify_chain accepts.           *)
LEMMA InvAccepted ==
  ASSUME SignaturesBind, CorruptionInv PROVE AcceptedIsHistory
<1> SUFFICES ASSUME ChainOk(stored)
             PROVE  /\ \E h \in Histories :
                         {stored[k] : k \in DOMAIN stored}
                           = {h[k] : k \in 0 .. Cardinality(DOMAIN stored) - 1}
                    /\ \A j, k \in DOMAIN stored :
                         j < k => stored[j].sequence < stored[k].sequence
  BY DEF AcceptedIsHistory, VerifyChain
<1>1. Accepted(stored) /\ original \in Histories
  BY DEF Accepted, KnownStore, CorruptionInv
<1>2. \A j, k \in DOMAIN stored : j < k => stored[j].sequence < stored[k].sequence
  BY <1>1, AcceptedIncreasing DEF SequenceAt
<1>3. CASE DOMAIN stored = {}
  <2>1. Cardinality(DOMAIN stored) - 1 = 0 - 1
    BY <1>3, FS_EmptySet
  <2>2. {stored[k] : k \in DOMAIN stored} = {}
    BY <1>3
  <2>3. {original[k] : k \in 0 .. 0 - 1} = {}
    OBVIOUS
  <2> QED
    BY <1>1, <1>2, <2>1, <2>2, <2>3
<1>4. CASE DOMAIN stored # {}
  <2>1. PICK m \in 0 .. Length : SequencesOf(stored) = 0 .. m
    BY <1>1, <1>4, AcceptedInterval
  <2>2. Cardinality(DOMAIN stored) = m + 1
    BY <1>1, <2>1, AcceptedCount
  <2>3. Cardinality(DOMAIN stored) - 1 = m
    BY <2>1, <2>2, LengthAssumption
  <2>4. PICK h \in Histories : \A n \in 0 .. m : EntryWith(stored, n) = h[n]
    BY <1>1, <2>1, AcceptedPrefix
  <2>5. \A k \in DOMAIN stored :
          /\ SequenceAt(stored, k) \in 0 .. m
          /\ stored[k] = h[SequenceAt(stored, k)]
    BY <1>1, <2>1, <2>4, EntryWithIs DEF SequencesOf
  <2>6. \A n \in 0 .. m : \E k \in DOMAIN stored : SequenceAt(stored, k) = n
    BY <2>1 DEF SequencesOf
  <2>7. {stored[k] : k \in DOMAIN stored} = {h[k] : k \in 0 .. m}
    BY <2>5, <2>6
  <2> QED
    BY <1>2, <2>3, <2>7
<1> QED
  BY <1>3, <1>4

(* verify_chain accepts only what a history begins with, in key order.     *)
THEOREM CorruptionAccepted ==
  ASSUME SignaturesBind PROVE CorruptionSpec => []AcceptedIsHistory
<1>1. CorruptionInv => AcceptedIsHistory
  BY InvAccepted
<1> QED
  BY <1>1, CorruptionInvariant, PTL

(* The history with another entry at its end.                              *)
LEMMA HistoryBranch ==
  ASSUME NEW h \in Histories, NEW k \in 1 .. Length, NEW u \in Unsigned
  PROVE  \E g \in Histories : g[k] = NewEntry(k, ChainHash(h[k - 1]), u)
<1>0. Length \in Nat
  BY LengthAssumption
<1>1. PICK c : c = [n \in 1 .. Length |-> IF n = k THEN u ELSE h[n].unsigned]
  OBVIOUS
<1>2. c \in [1 .. Length -> Unsigned]
  BY <1>1, HistoryShape
<1>3. PICK g \in Histories : g = ChainOf(c)
  BY <1>2 DEF Histories
<1>4. /\ g[0] = GenesisEntry
      /\ \A n \in 1 .. Length : g[n] = NewEntry(n, ChainHash(g[n - 1]), c[n])
  BY <1>3, ChainShape
<1>5. /\ h[0] = GenesisEntry
      /\ \A n \in 1 .. Length : h[n] = NewEntry(n, ChainHash(h[n - 1]), h[n].unsigned)
  BY HistoryShape
<1> DEFINE Apart == {n \in 0 .. k - 1 : g[n] # h[n]}
<1>6. Apart = {}
  <2>1. SUFFICES ASSUME Apart # {} PROVE FALSE
    OBVIOUS
  <2>2. PICK n \in Apart : \A l \in Apart : n <= l
    <3>1. Apart \in SUBSET Nat
      BY <1>0
    <3> HIDE DEF Apart
    <3> QED
      BY <2>1, <3>1, LeastNatural
  <2>3. n \in 0 .. k - 1 /\ n # 0 /\ g[n] # h[n]
    BY <1>4, <1>5, <2>2
  <2>4. n - 1 \in 0 .. k - 1 /\ n \in 1 .. Length /\ n # k /\ ~(n <= n - 1)
    BY <1>0, <2>3
  <2>5. g[n - 1] = h[n - 1]
    BY <2>2, <2>4
  <2>6. c[n] = h[n].unsigned
    BY <1>1, <2>4
  <2> QED
    BY <1>4, <1>5, <2>3, <2>4, <2>5, <2>6
<1>7. g[k - 1] = h[k - 1] /\ c[k] = u
  BY <1>0, <1>1, <1>6
<1> QED
  BY <1>4, <1>7


(* An entry of the history, when the one before it is there too, verifies. *)
LEMMA HistoryVerifies ==
  ASSUME NEW h \in Histories, NEW entries, NEW n \in 0 .. Length,
         \A k \in 0 .. n : k \in DOMAIN entries /\ entries[k] = h[k],
         DOMAIN entries \subseteq 0 .. Length
  PROVE  EntryValid(entries, n)
<1>0. Length \in Nat /\ n \in Nat /\ n \in DOMAIN entries /\ entries[n] = h[n]
  BY LengthAssumption
<1>1. CASE n = 0
  <2>1. entries[n] = NewEntry(0, ZeroHash, Genesis)
    BY <1>0, <1>1, HistoryShape DEF GenesisEntry
  <2>2. SignatureValid(entries[n]) /\ FirstEntryValid(entries[n])
    BY <2>1, GenesisAssumption DEF NewEntry, SignatureValid, FirstEntryValid
  <2>3. \A i \in DOMAIN entries : n <= i
    BY <1>0, <1>1
  <2> QED
    BY <2>2, <2>3 DEF EntryValid
<1>2. CASE n # 0
  <2>1. n \in 1 .. Length /\ n - 1 \in 0 .. Length /\ n - 1 \in 0 .. n
    BY <1>0, <1>2
  <2>2. entries[n - 1] = h[n - 1] /\ n - 1 \in DOMAIN entries
    BY <2>1
  <2>3. PICK u : entries[n] = NewEntry(n, ChainHash(entries[n - 1]), u)
    BY <1>0, <2>1, <2>2, HistoryShape
  <2>4. SignatureValid(entries[n]) /\ VerifyLink(entries[n - 1], entries[n])
        /\ entries[n].sequence = n
    BY <2>3 DEF NewEntry, SignatureValid, VerifyLink
  <2>5. entries[n - 1].sequence = n - 1
    <3>1. CASE n - 1 = 0
      BY <2>2, <3>1, HistoryShape DEF GenesisEntry, NewEntry
    <3>2. CASE n - 1 # 0
      <4>1. n - 1 \in 1 .. Length
        BY <2>1, <1>0, <3>2
      <4>2. PICK p, v : h[n - 1] = NewEntry(n - 1, p, v)
        BY <4>1, HistoryShape
      <4> QED
        BY <2>2, <4>2 DEF NewEntry
    <3> QED
      BY <3>1, <3>2
  <2>6. Before(entries, n) = n - 1
    <3>1. \A i \in DOMAIN entries : i \in Int
      BY <1>0
    <3>2. n - 1 < n /\ \A i \in DOMAIN entries : i < n => i <= n - 1
      BY <1>0, <3>1
    <3>3. ASSUME NEW j \in DOMAIN entries, j < n,
                 \A i \in DOMAIN entries : i < n => i <= j
          PROVE  j = n - 1
      <4>1. j \in Int /\ n - 1 <= j
        BY <2>2, <3>1, <3>2, <3>3
      <4> QED
        BY <1>0, <3>3, <4>1
    <3> QED
      BY <2>2, <3>2, <3>3 DEF Before
  <2>7. entries[n].sequence = entries[n - 1].sequence + 1
    BY <1>0, <2>4, <2>5
  <2>8. ~(\A i \in DOMAIN entries : n <= i)
    BY <1>0, <2>2
  <2> QED
    BY <2>4, <2>6, <2>7, <2>8 DEF EntryValid
<1> QED
  BY <1>1, <1>2

(* One altered entry, its sequence kept, does not verify.                  *)
LEMMA AlteredInvalid ==
  ASSUME SignaturesBind, NEW h \in Histories, NEW entries, KnownStore(entries),
         NEW k \in DOMAIN entries, entries[k].sequence = k,
         \A j \in (0 .. Length) \ {k} : j \in DOMAIN entries /\ entries[j] = h[j],
         \A g \in Histories : entries[k] = g[k] => entries[k].previous # h[k].previous,
         EntryValid(entries, k)
  PROVE  FALSE
<1>0. Length \in Nat /\ k \in 0 .. Length
      /\ DOMAIN entries = 0 .. Length /\ EntryKnown(entries[k])
  BY LengthAssumption DEF KnownStore
<1>1. SignatureValid(entries[k])
  BY DEF EntryValid
<1>2. /\ entries[k] = NewEntry(k, entries[k].previous, entries[k].unsigned)
      /\ Appendable(k, entries[k].unsigned)
  BY <1>0, <1>1, ValidIsWritten
<1>3. CASE k = 0
  <2>1. \A i \in DOMAIN entries : k <= i
    BY <1>0, <1>3
  <2>2. entries[k].previous = ZeroHash /\ entries[k].unsigned = Genesis
    BY <1>2, <1>3, <2>1 DEF EntryValid, FirstEntryValid, Appendable
  <2>3. entries[k] = h[k]
    BY <1>2, <1>3, <2>2, HistoryShape DEF GenesisEntry
  <2> QED
    BY <2>3
<1>4. CASE k # 0
  <2>1. k \in 1 .. Length /\ k - 1 \in 0 .. Length /\ k - 1 # k /\ k - 1 < k
    BY <1>0, <1>4
  <2>2. k - 1 \in DOMAIN entries /\ entries[k - 1] = h[k - 1]
    BY <2>1
  <2>3. ~(\A i \in DOMAIN entries : k <= i)
    BY <1>0, <2>1, <2>2
  <2>4. KeyBefore(entries, k - 1, k)
    BY <1>0, <2>1, <2>2 DEF KeyBefore
  <2>5. Before(entries, k) = k - 1
    BY <2>4, BeforeIs
  <2>6. entries[k].previous = ChainHash(h[k - 1])
    BY <2>2, <2>3, <2>5 DEF EntryValid, VerifyLink
  <2>7. entries[k].unsigned \in Unsigned
    BY <1>2, <1>4 DEF Appendable
  <2>8. PICK g \in Histories : g[k] = NewEntry(k, ChainHash(h[k - 1]), entries[k].unsigned)
    BY <2>1, <2>7, HistoryBranch
  <2>9. entries[k] = g[k]
    BY <1>2, <2>6, <2>8
  <2>10. h[k].previous = ChainHash(h[k - 1])
    <3>1. PICK u : h[k] = NewEntry(k, ChainHash(h[k - 1]), u)
      BY <2>1, HistoryShape
    <3> QED
      BY <3>1 DEF NewEntry
  <2> QED
    BY <2>6, <2>9, <2>10
<1> QED
  BY <1>3, <1>4

(* What the invariant says of a single altered entry.                      *)
LEMMA InvLocated ==
  ASSUME SignaturesBind, CorruptionInv PROVE BreakLocated
<1> SUFFICES ASSUME NEW k \in DOMAIN original,
                    touched = <<k>>, k \in DOMAIN stored, stored[k].sequence = k,
                    \A h \in Histories :
                      stored[k] = h[k] => stored[k].previous # original[k].previous
             PROVE  VerifyChain(stored) = [status |-> "Broken", sequence |-> k]
  BY DEF BreakLocated
<1>1. KnownStore(stored) /\ original \in Histories /\ k \in 0 .. Length
  BY DEF KnownStore, CorruptionInv
<1>2. \A j \in (0 .. Length) \ {k} : j \in DOMAIN stored /\ stored[j] = original[j]
  BY <1>1 DEF CorruptionInv
<1>3. ~EntryValid(stored, k)
  BY <1>1, <1>2, AlteredInvalid
<1>4. ASSUME NEW i \in DOMAIN stored, i < k PROVE EntryValid(stored, i)
  <2>1. i \in 0 .. Length /\ Length \in Nat /\ k \in 0 .. Length
        /\ DOMAIN stored \subseteq 0 .. Length
    BY <1>1, LengthAssumption DEF KnownStore
  <2>2. \A j \in 0 .. i : j \in (0 .. Length) \ {k}
    BY <1>4, <2>1
  <2>3. \A j \in 0 .. i : j \in DOMAIN stored /\ stored[j] = original[j]
    BY <1>2, <2>2
  <2> QED
    BY <1>1, <2>1, <2>3, HistoryVerifies
<1>5. ~ChainOk(stored)
  BY <1>3 DEF ChainOk
<1>6. ASSUME NEW i \in DOMAIN stored, ~EntryValid(stored, i),
             \A j \in DOMAIN stored : j < i => EntryValid(stored, j)
      PROVE  i = k
  <2>1. ~(i < k) /\ ~(k < i) /\ i \in Int /\ k \in Int
    BY <1>1, <1>3, <1>4, <1>6, LengthAssumption DEF KnownStore
  <2> QED
    BY <2>1
<1>7. k = CHOOSE i \in DOMAIN stored :
            /\ ~EntryValid(stored, i)
            /\ \A j \in DOMAIN stored : j < i => EntryValid(stored, j)
  BY <1>3, <1>4, <1>6
<1> QED
  BY <1>5, <1>7 DEF VerifyChain

(* The break is reported at the altered entry.                             *)
THEOREM CorruptionLocated ==
  ASSUME SignaturesBind PROVE CorruptionSpec => []BreakLocated
<1>1. CorruptionInv => BreakLocated
  BY InvLocated
<1> QED
  BY <1>1, CorruptionInvariant, PTL

-----------------------------------------------------------------------------
(***************************************************************************)
(* The ledger that is written first and edited then (LedgerTampered.tla):  *)
(* what RocksLedger leaves is one of the histories of LedgerCorruption, so *)
(* that what is said of those holds of the ledger itself.                  *)
(***************************************************************************)

(* Every entry but the first is one append made of the entry before it.    *)
Linked(entries) ==
  \A k \in DOMAIN entries : k > 0 =>
    /\ entries[k] = NewEntry(k, ChainHash(entries[k - 1]), entries[k].unsigned)
    /\ entries[k].unsigned \in Unsigned

(* What a power loss leaves of linked entries is linked.                   *)
LEMMA PrefixLinked ==
  ASSUME NEW old, NEW new, DOMAIN new \subseteq Nat,
         \A k \in DOMAIN new : k > 0 => k - 1 \in DOMAIN new,
         Linked(new), IsPrefixOf(old, new)
  PROVE  Linked(old)
<1> SUFFICES ASSUME NEW k \in DOMAIN old, k > 0
             PROVE  /\ old[k] = NewEntry(k, ChainHash(old[k - 1]), old[k].unsigned)
                    /\ old[k].unsigned \in Unsigned
  BY DEF Linked
<1>1. k \in DOMAIN new /\ k - 1 \in DOMAIN new /\ old[k] = new[k]
  BY DEF IsPrefixOf
<1>2. k - 1 < k
  BY <1>1
<1>3. k - 1 \in DOMAIN old /\ old[k - 1] = new[k - 1]
  BY <1>1, <1>2 DEF IsPrefixOf
<1> QED
  BY <1>1, <1>3 DEF Linked

(* The holder of the mutex adds an entry that is linked.                   *)
LEMMA WriteLinked ==
  ASSUME LedgerInv, Linked(store.entries), AppendWrite PROVE Linked(store'.entries)
<1>1. handle = "open" /\ queue # <<>> /\ ~written
  BY DEF LedgerInv, HandleOK, AppendWrite
<1>2. /\ StoreOK(store)
      /\ store.headSequence # None
      /\ head.sequence = store.headSequence
      /\ store.headHash = {head.hash}
      /\ head.sequence \in Nat
  BY <1>1 DEF LedgerInv, StoresOK, HandleOK, StoreOK, StoreType
<1>3. PICK n : n = head.sequence + 1
  OBVIOUS
<1>4. n \in Nat /\ n > 0 /\ n - 1 = head.sequence /\ DOMAIN store.entries = 0 .. n - 1
  BY <1>2, <1>3 DEF StoreOK
<1>5. head.hash = ChainHash(store.entries[n - 1])
  <2>1. {head.hash} = {ChainHash(store.entries[store.headSequence])}
    BY <1>2 DEF StoreOK
  <2> QED
    BY <2>1, <1>2, <1>4
<1>6. PICK u \in Unsigned : Head(queue).unsigned = u
  <2>1. queue \in Seq(Call)
    BY DEF LedgerInv, TypeOK
  <2>2. Head(queue) \in Call
    BY <1>1, <2>1
  <2> QED
    BY <2>2 DEF Call
<1>7. HolderEntry = NewEntry(n, ChainHash(store.entries[n - 1]), u)
  BY <1>3, <1>5, <1>6 DEF HolderEntry
<1>8. HolderEntry.sequence = n /\ HolderEntry.unsigned = u
  BY <1>7 DEF NewEntry
<1>9. PICK entries : entries = Put(store.entries, n, HolderEntry)
  OBVIOUS
<1>10. /\ DOMAIN entries = 0 .. n
       /\ entries[n] = HolderEntry
       /\ \A k \in 0 .. n - 1 : entries[k] = store.entries[k]
  BY <1>4, <1>9, PutExtends
<1>11. store'.entries = entries
  <2> DEFINE hash == {ChainHash(HolderEntry)}
  <2>1. store' = [store EXCEPT !.entries = entries, !.headSequence = n, !.headHash = hash]
    BY <1>8, <1>9 DEF AppendWrite, Batch, Write
  <2> HIDE DEF hash
  <2> QED
    BY <1>2, <2>1 DEF StoreOK, StoreType
<1>12. ASSUME NEW k \in 0 .. n, k > 0
       PROVE  /\ entries[k] = NewEntry(k, ChainHash(entries[k - 1]), entries[k].unsigned)
              /\ entries[k].unsigned \in Unsigned
  <2>1. CASE k = n
    <3>1. n - 1 \in 0 .. n - 1
      BY <1>4
    <3>2. entries[n - 1] = store.entries[n - 1]
      BY <1>10, <3>1
    <3> QED
      BY <2>1, <3>2, <1>6, <1>7, <1>8, <1>10
  <2>2. CASE k # n
    <3>1. k \in 0 .. n - 1 /\ k - 1 \in 0 .. n - 1
      BY <1>4, <1>12, <2>2
    <3>2. entries[k] = store.entries[k] /\ entries[k - 1] = store.entries[k - 1]
      BY <1>10, <3>1
    <3> QED
      BY <1>4, <1>12, <3>1, <3>2 DEF Linked
  <2> QED
    BY <2>1, <2>2
<1> QED
  BY <1>10, <1>11, <1>12 DEF Linked

(* No step unlinks them.                                                   *)
LEMMA LinkedStep ==
  ASSUME LedgerInv, Linked(store.entries), [Next]_vars PROVE Linked(store'.entries)
<1>1. StoreOK(store)
  BY DEF LedgerInv, StoresOK
<1>2. CASE AppendWrite
  BY <1>2, WriteLinked
<1>3. CASE LosePower
  <2>1. store' \in recoverable
    BY <1>3 DEF LosePower
  <2>2. IsPrefixOf(store'.entries, store.entries)
    BY <2>1 DEF LedgerInv, StoresOK
  <2>3. PICK n \in Nat : DOMAIN store.entries = 0 .. n - 1
    BY <1>1, KeysAreInitialSegment
  <2>4. DOMAIN store.entries \subseteq Nat
        /\ \A k \in DOMAIN store.entries : k > 0 => k - 1 \in DOMAIN store.entries
    BY <2>3
  <2> QED
    BY <2>2, <2>4, PrefixLinked
<1>4. CASE PutGenesis
  <2>1. store'.entries = Put(store.entries, 0, GenesisEntry)
    BY <1>1, <1>4 DEF PutGenesis, Write, StoreOK, StoreType
  <2>2. DOMAIN store.entries \subseteq {0}
    BY <1>1, <1>4 DEF PutGenesis, LedgerInv, HandleOK, StoreOK
  <2>3. \A k \in DOMAIN store'.entries : k = 0
    BY <2>1, <2>2 DEF Put
  <2> QED
    BY <2>3 DEF Linked
<1>5. CASE PutPubkey
  BY <1>1, <1>5 DEF PutPubkey, Write, StoreOK, StoreType
<1>6. CASE PutHeadSequence
  BY <1>1, <1>6 DEF PutHeadSequence, Write, StoreOK, StoreType
<1>7. CASE PutHeadHash
  <2> DEFINE hash == {ChainHash(GenesisEntry)}
  <2>1. store' = [store EXCEPT !.headHash = hash]
    BY <1>7 DEF PutHeadHash, Write
  <2> HIDE DEF hash
  <2>2. store'.entries = store.entries
    BY <1>1, <2>1 DEF StoreOK, StoreType
  <2> QED
    BY <2>2
<1>8. CASE ~(\/ PutPubkey \/ PutGenesis \/ PutHeadSequence \/ PutHeadHash
             \/ AppendWrite \/ LosePower)
  BY <1>8 DEF Next, Open, vars, OpenNew, OpenExisting, OpenError, AppendCall,
     AppendCancel, AppendError, AppendReturn, HeadSequence, Sync, Crash, storeVars
<1> QED
  BY <1>2, <1>3, <1>4, <1>5, <1>6, <1>7, <1>8

(* The entries of a store are a function, which Put and EmptyStore make.   *)
IsMap(entries) == entries = [k \in DOMAIN entries |-> entries[k]]

Maps == \A s \in recoverable : IsMap(s.entries)

(* A put makes one.                                                        *)
LEMMA PutIsMap ==
  ASSUME NEW entries, NEW k, NEW entry PROVE IsMap(Put(entries, k, entry))
BY DEF IsMap, Put

(* No step makes anything else of them.                                    *)
LEMMA MapsStep ==
  ASSUME LedgerInv, Maps, [Next]_vars PROVE Maps'
<1>1. StoreType(store) /\ IsMap(store.entries)
  BY DEF LedgerInv, StoresOK, StoreOK, Maps
<1>2. CASE /\ recoverable' = recoverable \cup {store'}
           /\ IsMap(store'.entries)
  BY <1>2 DEF Maps
<1>3. CASE PutPubkey
  <2>1. store'.entries = store.entries /\ recoverable' = recoverable \cup {store'}
    BY <1>1, <1>3 DEF PutPubkey, Write, StoreType
  <2> QED
    BY <1>1, <1>2, <2>1
<1>4. CASE PutGenesis
  <2>1. store'.entries = Put(store.entries, 0, GenesisEntry)
        /\ recoverable' = recoverable \cup {store'}
    BY <1>1, <1>4 DEF PutGenesis, Write, StoreType
  <2> QED
    BY <1>2, <2>1, PutIsMap
<1>5. CASE PutHeadSequence
  <2>1. store'.entries = store.entries /\ recoverable' = recoverable \cup {store'}
    BY <1>1, <1>5 DEF PutHeadSequence, Write, StoreType
  <2> QED
    BY <1>1, <1>2, <2>1
<1>6. CASE PutHeadHash
  <2> DEFINE hash == {ChainHash(GenesisEntry)}
  <2>1. store' = [store EXCEPT !.headHash = hash] /\ recoverable' = recoverable \cup {store'}
    BY <1>6 DEF PutHeadHash, Write
  <2> HIDE DEF hash
  <2>2. store'.entries = store.entries
    BY <1>1, <2>1 DEF StoreType
  <2> QED
    BY <1>1, <1>2, <2>1, <2>2
<1>7. CASE AppendWrite
  <2> DEFINE new == Put(store.entries, HolderEntry.sequence, HolderEntry)
             seq == HolderEntry.sequence
             hash == {ChainHash(HolderEntry)}
  <2>1. store' = [store EXCEPT !.entries = new, !.headSequence = seq, !.headHash = hash]
        /\ recoverable' = recoverable \cup {store'}
    BY <1>7 DEF AppendWrite, Batch, Write
  <2>2. IsMap(new)
    BY PutIsMap
  <2> HIDE DEF new, seq, hash
  <2>3. store'.entries = new
    BY <1>1, <2>1 DEF StoreType
  <2> QED
    BY <1>2, <2>1, <2>2, <2>3
<1>8. CASE Sync \/ LosePower
  <2>1. recoverable' \subseteq recoverable
    BY <1>8 DEF Sync, LosePower, LedgerInv, StoresOK
  <2> QED
    BY <2>1 DEF Maps
<1>9. CASE ~(\/ PutPubkey \/ PutGenesis \/ PutHeadSequence \/ PutHeadHash
             \/ AppendWrite \/ Sync \/ LosePower)
  BY <1>9 DEF Maps, Next, Open, vars, OpenNew, OpenExisting, OpenError, AppendCall,
     AppendCancel, AppendError, AppendReturn, HeadSequence, Crash, storeVars
<1> QED
  BY <1>3, <1>4, <1>5, <1>6, <1>7, <1>8, <1>9

(* A ledger of the length that is handed over is one of the histories.     *)
LEMMA LedgerIsHistory ==
  ASSUME NEW entries, IsMap(entries), Chained(entries), Linked(entries),
         DOMAIN entries = 0 .. Length
  PROVE  entries \in Histories
<1>0. Length \in Nat
  BY LengthAssumption
<1>1. PICK c : c = [k \in 1 .. Length |-> entries[k].unsigned]
  OBVIOUS
<1>2. \A k \in 1 .. Length :
        /\ c[k] = entries[k].unsigned
        /\ c[k] \in Unsigned
        /\ entries[k] = NewEntry(k, ChainHash(entries[k - 1]), c[k])
  BY <1>0, <1>1 DEF Linked
<1>3. c \in [1 .. Length -> Unsigned]
  BY <1>1, <1>2
<1>4. PICK h \in Histories : h = ChainOf(c)
  BY <1>3 DEF Histories
<1>5. /\ h = [k \in 0 .. Length |-> h[k]]
      /\ h[0] = GenesisEntry
      /\ \A k \in 1 .. Length : h[k] = NewEntry(k, ChainHash(h[k - 1]), c[k])
  BY <1>4, ChainShape
<1> DEFINE Wrong == {k \in 0 .. Length : entries[k] # h[k]}
<1>6. Wrong = {}
  <2>1. SUFFICES ASSUME Wrong # {} PROVE FALSE
    OBVIOUS
  <2>2. PICK k \in Wrong : \A j \in Wrong : k <= j
    <3>1. Wrong \in SUBSET Nat
      BY <1>0
    <3> HIDE DEF Wrong
    <3> QED
      BY <2>1, <3>1, LeastNatural
  <2>3. k \in 0 .. Length /\ entries[k] # h[k]
    BY <2>2
  <2>4. k # 0
    BY <1>0, <1>5, <2>3 DEF Chained
  <2>5. k \in 1 .. Length /\ k - 1 \in 0 .. Length /\ ~(k <= k - 1)
    BY <1>0, <2>3, <2>4
  <2>6. entries[k - 1] = h[k - 1]
    BY <2>2, <2>5
  <2> QED
    BY <1>2, <1>5, <2>3, <2>5, <2>6
<1>7. \A k \in 0 .. Length : entries[k] = h[k]
  BY <1>6
<1>8. entries = h
  BY <1>5, <1>7 DEF IsMap
<1> QED
  BY <1>8

(* The inductive invariant of the whole: the ledger's, and once it has been*)
(* handed over the one of the edits.                                       *)
TamperedInv ==
  /\ LedgerInv
  /\ Linked(store.entries)
  /\ Maps
  /\ \/ original = NoEntries /\ stored = NoEntries /\ touched = <<>>
     \/ CorruptionInv

(* No edit is made before the ledger is handed over.                       *)
LEMMA UntouchedIs ==
  TamperedInv => /\ Untouched => touched = <<>>
                 /\ ~Untouched => CorruptionInv
<1>1. DOMAIN NoEntries = {}
  BY DEF NoEntries
<1>2. ASSUME CorruptionInv PROVE DOMAIN original # {}
  <2>1. original = [k \in 0 .. Length |-> original[k]]
    BY <1>2, HistoryShape DEF CorruptionInv
  <2>2. 0 \in DOMAIN original
    BY <2>1, LengthAssumption
  <2> QED
    BY <2>2
<1> QED
  BY <1>1, <1>2 DEF TamperedInv, Untouched

(* The invariant holds of an empty store ...                               *)
LEMMA TamperedInitInv == TamperedInit => TamperedInv
<1> SUFFICES ASSUME TamperedInit PROVE TamperedInv
  OBVIOUS
<1>1. LedgerInv
  BY InitInv DEF TamperedInit
<1>2. store = EmptyStore /\ recoverable = {EmptyStore}
  BY DEF TamperedInit, Init
<1>3. EmptyStore.entries = [k \in {} |-> None]
  BY DEF EmptyStore
<1>4. Linked(store.entries) /\ Maps
  BY <1>2, <1>3 DEF Linked, Maps, IsMap
<1> QED
  BY <1>1, <1>4 DEF TamperedInv, TamperedInit

(* ... and is kept by every step of the ledger and of the other handle.    *)
LEMMA TamperedNextInv == TamperedInv /\ [TamperedNext]_tamperedVars => TamperedInv'
<1> SUFFICES ASSUME TamperedInv, [TamperedNext]_tamperedVars PROVE TamperedInv'
  OBVIOUS
<1>1. [Next]_vars
  BY DEF TamperedNext, LedgerStep, HandOver, Edit, tamperedVars
<1>2. LedgerInv' /\ Linked(store'.entries) /\ Maps'
  BY <1>1, NextInv, LinkedStep, MapsStep DEF TamperedInv
<1>3. CASE UNCHANGED corruptionVars
  BY <1>2, <1>3 DEF TamperedInv, corruptionVars, CorruptionInv, NoEntries
<1>4. CASE HandOver
  <2>1. IsMap(store.entries) /\ Chained(store.entries)
    BY DEF TamperedInv, Maps, LedgerInv, StoresOK, StoreOK
  <2>2. store.entries \in Histories /\ DOMAIN store.entries = 0 .. Length
    BY <1>4, <2>1, LedgerIsHistory DEF HandOver, TamperedInv
  <2>3. touched = <<>>
    BY <1>4, UntouchedIs DEF HandOver
  <2>4. original' \in Histories /\ stored' = original' /\ touched' = <<>>
    BY <1>4, <2>2, <2>3 DEF HandOver
  <2>5. DOMAIN stored' = 0 .. Length /\ \A k \in DOMAIN stored' : EntryKnown(stored'[k])
    BY <2>2, <2>4, <1>4, HistoryKnown DEF HandOver
  <2>6. touched' \in Seq(0 .. Length) /\ \A k \in 0 .. Length : touched' # <<k>>
    BY <2>4
  <2>7. CorruptionInv'
    BY <2>4, <2>5, <2>6 DEF CorruptionInv
  <2> QED
    BY <1>2, <2>7 DEF TamperedInv
<1>5. CASE Edit
  <2>1. CorruptionInv
    BY <1>5, UntouchedIs DEF Edit
  <2>2. CorruptionInv'
    BY <1>5, <2>1, CorruptionNextInv DEF Edit
  <2> QED
    BY <1>2, <2>2 DEF TamperedInv
<1> QED
  BY <1>3, <1>4, <1>5 DEF TamperedNext, LedgerStep, tamperedVars

(* What is edited is what the ledger left: the invariant of both.          *)
THEOREM TamperedInvariant == TamperedSpec => []TamperedInv
<1> QED
  BY TamperedInitInv, TamperedNextInv, PTL DEF TamperedSpec

(* The other handle changes nothing of how RocksLedger behaves, so that    *)
(* every theorem about Spec is one about TamperedSpec.                     *)
THEOREM TamperedIsLedger == TamperedSpec => Spec
<1>1. TamperedInit => Init
  BY DEF TamperedInit
<1>2. [TamperedNext]_tamperedVars => [Next]_vars
  BY DEF TamperedNext, LedgerStep, HandOver, Edit, tamperedVars
<1> QED
  BY <1>1, <1>2, PTL DEF TamperedSpec, Spec

(* verify_chain accepts nothing but a prefix of a history, for a ledger    *)
(* that RocksLedger wrote, whatever is done to its bytes afterwards.       *)
THEOREM TamperedAccepted ==
  ASSUME SignaturesBind, Unsigned # {} PROVE TamperedSpec => []AcceptedIsHistory
<1>1. ASSUME stored = NoEntries PROVE AcceptedIsHistory
  <2>1. DOMAIN stored = {}
    BY <1>1 DEF NoEntries
  <2>2. PICK u : u \in Unsigned
    OBVIOUS
  <2>3. [k \in 1 .. Length |-> u] \in [1 .. Length -> Unsigned]
    BY <2>2
  <2>4. PICK h : h \in Histories
    BY <2>3 DEF Histories
  <2>5. ChainOk(stored) /\ Cardinality(DOMAIN stored) = 0
    BY <2>1, FS_EmptySet DEF ChainOk
  <2>6. VerifyChain(stored).entries = 0
    BY <2>5 DEF VerifyChain
  <2>7. {stored[k] : k \in DOMAIN stored} = {h[k] : k \in 0 .. 0 - 1}
    BY <2>1
  <2> QED
    BY <2>1, <2>4, <2>6, <2>7 DEF AcceptedIsHistory
<1>2. TamperedInv => AcceptedIsHistory
  BY <1>1, InvAccepted DEF TamperedInv
<1> QED
  BY <1>2, TamperedInvariant, PTL

(* ... and reports the one entry that was altered.                         *)
THEOREM TamperedLocated ==
  ASSUME SignaturesBind PROVE TamperedSpec => []BreakLocated
<1>1. ASSUME original = NoEntries PROVE BreakLocated
  BY <1>1 DEF NoEntries, BreakLocated
<1>2. TamperedInv => BreakLocated
  BY <1>1, InvLocated DEF TamperedInv
<1> QED
  BY <1>2, TamperedInvariant, PTL
===============================================================================
