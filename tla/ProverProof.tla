---------------------------- MODULE ProverProof ----------------------------
(***************************************************************************)
(* Proofs about Prover for every set of calls, targets and slots, all      *)
(* questions and every setting within KnownLimits.                         *)
(***************************************************************************)
EXTENDS Prover, LRUMapProof

Entry == Entries(Key, Write)

----------------------------------------------------------------------------
(* The invariant. *)

\* w is the future that its call keeps for a proof of k, which it fetches.
FutureOf(w, k) ==
    /\ w[1] \in Call
    /\ w[2] \in DOMAIN call[w[1]].src
    /\ call[w[1]].src[w[2]] = w
    /\ call[w[1]].keys[w[2]] = k
    /\ call[w[1]].blocker # "none"

\* A proof that may be given for k.
Fits(p, k) ==
    \/ p = k
    \/ p = Null /\ (k[1] \notin rules.answers \/ (settings.short /\ trouble > 0))

\* What a call that was made asks of getProofs() or getStorage().
IsByHash(c) == call[c].ask.op = "isContract" /\ Is("zksync")
QuestionOK(c) ==
    call[c].pc # "idle" =>
        /\ call[c].ask \in Asks
        /\ IsByHash(c) => call[c].target = CodeHash /\ call[c].slots = <<call[c].ask.target>>
        /\ ~IsByHash(c) =>
            /\ call[c].target = call[c].ask.target
            /\ \/ call[c].slots = call[c].ask.slots
               \/ /\ call[c].ask.op = "proveNeed" /\ ~Is("zksync")
                  /\ call[c].slots = <<>> /\ call[c].target \notin rules.proven

\* The sources of a call, and what it has made of those it fetches.
SourcesOK(c) ==
    /\ call[c].pc \in {"idle", "account", "slot", "need", "fast"} =>
            call[c].blocker = "none" /\ call[c].src = <<>> /\ call[c].keys = <<>>
    /\ Len(call[c].keys) = Len(call[c].src)
    /\ \A i \in DOMAIN call[c].src :
            /\ FutureOf(call[c].src[i], call[c].keys[i])
            /\ call[c].src[i] = <<c, i>> => call[c].blocker # "none"
    /\ call[c].pc \in {"fetch", "gather"} =>
            /\ call[c].keys = ProofKeys(call[c].target, call[c].slots)
            /\ call[c].miss = Missing(c, call[c].src)
    /\ call[c].blocker = "waiting" <=> call[c].pc = "fetch"
    /\ call[c].blocker = "resolved" =>
            /\ Len(call[c].got) = Len(call[c].src)
            /\ \A i \in DOMAIN call[c].src :
                 i < FirstSlot \/ call[c].src[i] = <<c, i>> => Fits(call[c].got[i], call[c].keys[i])

\* Nothing goes wrong without a cause.
TroubleOK(c) ==
    /\ call[c].blocker = "rejected" => trouble > 0
    /\ call[c].pc = "failed" => trouble > 0 \/ ReadsEdge(c)
    /\ call[c].shorts # {} => settings.short /\ trouble > 0
    /\ call[c].read = "err" => trouble > 0

\* What a call awaits is what it asks for.
IsRead(c) == call[c].ask.op = "getStorage" \/ IsByHash(c)
AwaitsOK(c) ==
    /\ call[c].pc = "account" => /\ IsRead(c)
                                 /\ call[c].on = None \/ FutureOf(call[c].on, <<call[c].target>>)
    /\ call[c].pc = "slot" =>
            /\ IsRead(c)
            /\ call[c].on = None \/ FutureOf(call[c].on, <<call[c].target, call[c].slots[1]>>)
    /\ call[c].pc = "need" =>
            /\ call[c].ask.op = "proveNeed" /\ ~Is("zksync")
            /\ call[c].on = None \/ FutureOf(call[c].on, <<call[c].target>>)
    /\ call[c].pc \in {"fetch", "gather"} /\ call[c].ask.op = "getStorage" =>
            Is("zksync") \/ ~settings.fast

\* What a call reads, or another one for it.
ReadsOK(c) ==
    /\ call[c].read # "none" =>
            /\ call[c].pc \in {"fast", "ok", "failed"}
            /\ call[c].awaits[1] = c /\ call[c].awaits[2] \in Key
    /\ call[c].pc = "fast" =>
            /\ ~Is("zksync")
            /\ call[c].awaits[1] \in Call /\ call[call[c].awaits[1]].read # "none"
            /\ \/ call[c].ask.op = "isContract" /\ call[c].awaits[2] = <<call[c].target>>
               \/ /\ call[c].ask.op = "getStorage"
                  /\ call[c].awaits[2] = <<call[c].target, call[c].slots[1]>>

\* What a call that ended well was asked for, if its answer is right.
Answers(a, out) ==
    CASE a.op = "getStorage" -> out = ValueOf(<<a.target, a.slots[1]>>)
      [] a.op = "isContract" -> out = IF a.target \in Eoa THEN Null ELSE <<a.target>>
      [] OTHER -> \/ out = SlotKeys(a.target, a.slots)
                  \/ out = <<>> /\ a.target \notin Full
OutOK(c) == call[c].pc = "ok" => Answers(call[c].ask, call[c].out) \/ ReadsEdge(c)

CallOK(c) ==
    QuestionOK(c) /\ SourcesOK(c) /\ TroubleOK(c) /\ AwaitsOK(c) /\ ReadsOK(c) /\ OutOK(c)

\* What the LRU holds, and who was told.
MapOK ==
    /\ KeysDiffer(map) /\ Len(map) <= settings.max
    /\ \A i \in DOMAIN map :
        /\ FutureOf(map[i].from, map[i].key)
        /\ map[i].pending <=> map[i].from \notin told
        /\ map[i].from \in told => ~Rejected(map[i].from)
    /\ \A w \in told : w[1] \in Call /\ call[w[1]].blocker \in {"resolved", "rejected"}

\* With room for all, what is on its way or there is held.
HeldOK ==
    rules.shared /\ Roomy =>
        \A c \in Call : call[c].blocker \in {"waiting", "resolved"} =>
            \A i \in DOMAIN call[c].src : call[c].src[i] = <<c, i>> =>
                \E j \in DOMAIN map : map[j].key = call[c].keys[i] /\ map[j].from = <<c, i>>

Inductive ==
    /\ rules = RulesOf(settings.kind)
    /\ \A c \in Call : CallOK(c)
    /\ MapOK
    /\ HeldOK
    /\ unread # {} => trouble > 0

Inv == TypeOK /\ Inductive

----------------------------------------------------------------------------
(* Keys, and the rules of the provers. *)

\* Every set of numbers has a least one: the natural numbers are well founded.
LEMMA LeastOf ==
    ASSUME NEW T \in SUBSET Nat, T # {}
    PROVE  \E x \in T : \A y \in T : x <= y
<1> DEFINE R == OpToRel(<, Nat)
<1>1. IsWellFoundedOn(R, Nat)
  BY NatLessThanWellFounded
<1>2. R = {ss \in Nat \X Nat : ss[1] < ss[2]}
  BY DEF OpToRel
<1> HIDE DEF R
<1>3. \A x, y \in Nat : <<x, y>> \in R <=> x < y
  BY <1>2
<1>4. PICK x \in T : \A y \in T : ~ (<<y, x>> \in R)
  BY <1>1, WFMin
<1>5. \A y \in T : ~ (y < x)
  BY <1>3, <1>4
<1>6. QED
  BY <1>5

\* The keys, and what is in the slots they name.
LEMMA KeysTyped ==
    /\ Null \notin Key
    /\ \A t \in Target : <<t>> \in Key /\ <<t>>[1] = t /\ Len(<<t>>) = 1
    /\ \A t \in Target, s \in Slot : <<t, s>> \in Key
    /\ \A t \in Target : <<CodeHash, t>> \in Key
    /\ CodeHash \in Target
    /\ \A k \in Key : k[1] \in Target /\ Len(k) \in {1, 2}
<1>1. \A k \in Key : k # Null /\ k[1] \in Target /\ Len(k) \in {1, 2}
  BY DEF Key, Null, Target
<1>2. QED
  BY <1>1 DEF Key, Target

\* There are finitely many keys.
LEMMA KeysFinite == IsFiniteSet(Key) /\ Cardinality(Key) \in Nat
<1>1. IsFiniteSet(Target) /\ IsFiniteSet(Slot)
  BY ProverAssumption
<1>2. IsFiniteSet(Target \X Slot)
  BY <1>1, FS_Product
<1> DEFINE accounts == {<<t>> : t \in Target}
           hashes   == {<<CodeHash, t>> : t \in Target}
           a == [t \in Target |-> <<t>>]
           h == [t \in Target |-> <<CodeHash, t>>]
<1>3. a \in Surjection(Target, accounts) /\ h \in Surjection(Target, hashes)
  BY DEF Surjection
<1>4. IsFiniteSet(accounts) /\ IsFiniteSet(hashes)
  <2> HIDE DEF a, h, accounts, hashes
  <2>1. QED
    BY <1>1, <1>3, FS_Surjection
<1>5. Key = (accounts \cup (Target \X Slot)) \cup hashes
  BY DEF Key
<1> HIDE DEF accounts, hashes
<1>6. IsFiniteSet(Key)
  BY <1>2, <1>4, <1>5, FS_Union
<1>7. QED
  BY <1>6, FS_CardinalityType

\* What the texts of the provers have in common.
LEMMA RulesKnown ==
    ASSUME settings \in Settings, rules = RulesOf(settings.kind)
    PROVE  /\ rules.accounts \in BOOLEAN /\ rules.shared \in BOOLEAN
           /\ rules.accounts <=> ~Is("zksync")
           /\ Stores \subseteq rules.known /\ Stores \subseteq rules.proven
           /\ ~Is("zksync") => Stores \subseteq rules.checked /\ rules.checked \subseteq rules.answers
           /\ Is("zksync") => /\ rules.answers = Target /\ rules.proven = Target
                             /\ rules.known = Target
           /\ FirstSlot = IF Is("zksync") THEN 1 ELSE 2
           /\ settings.max \in Nat /\ settings.batch \in Nat /\ settings.batch > 0
           /\ settings.fast \in BOOLEAN /\ settings.short \in BOOLEAN
<1>1. /\ settings.kind \in {"eth", "linea", "zksync", "zkevm", "starknet"}
      /\ settings.max \in Nat /\ settings.batch \in Nat /\ settings.batch > 0
      /\ settings.fast \in BOOLEAN /\ settings.short \in BOOLEAN
  BY ProverAssumption
<1>2. Stores \subseteq Contracts /\ Contracts \subseteq Target
  BY ProverAssumption DEF Stores, Contracts, Target
<1>3. CASE settings.kind = "eth"
  BY <1>1, <1>2, <1>3 DEF RulesOf, EthRules, Is, FirstSlot
<1>4. CASE settings.kind = "linea"
  BY <1>1, <1>2, <1>4 DEF RulesOf, LineaRules, Is, FirstSlot
<1>5. CASE settings.kind = "zksync"
  BY <1>1, <1>2, <1>5 DEF RulesOf, ZKSyncRules, Is, FirstSlot
<1>6. CASE settings.kind = "zkevm"
  BY <1>1, <1>2, <1>6 DEF RulesOf, ZKEVMRules, Is, FirstSlot
<1>7. CASE settings.kind = "starknet"
  BY <1>1, <1>2, <1>7 DEF RulesOf, StarknetRules, Is, FirstSlot
<1>8. QED
  BY <1>1, <1>3, <1>4, <1>5, <1>6, <1>7

\* A target that is not among the stores has nothing in its slots.
LEMMA NothingStored ==
    ASSUME NEW t \in Target, t \notin Stores, NEW s
    PROVE  ValueOf(<<t, s>>) = Null /\ t \notin Full
BY DEF Stores, ValueOf


\* What may be asked.
LEMMA AsksTyped ==
    ASSUME NEW a \in Asks
    PROVE  /\ a.op \in {"getProofs", "getStorage", "isContract", "proveNeed"}
           /\ a.target \in Target /\ a.slots \in Seq(Slot) /\ a.slots \in Seq(Slot \cup Target)
           /\ \A i \in DOMAIN a.slots : a.slots[i] \in Slot /\ <<a.target, a.slots[i]>> \in Key
           /\ a.op = "getStorage" => Len(a.slots) = 1 /\ 1 \in DOMAIN a.slots
           /\ a.op = "isContract" => a.slots = <<>>
<1>1. /\ a.op \in {"getProofs", "getStorage", "isContract", "proveNeed"}
      /\ a.target \in Target /\ a.slots \in Seq(Slot)
      /\ a.op = "getStorage" => Len(a.slots) = 1
      /\ a.op = "isContract" => a.slots = <<>>
  <2>1. a \in [op : {"getProofs", "getStorage", "isContract", "proveNeed"},
               target : Target, slots : Seq(Slot), required : BOOLEAN]
    BY ProverAssumption
  <2>2. \A x \in Asks : /\ x.op = "getStorage" => Len(x.slots) = 1
                        /\ x.op = "isContract" => x.slots = <<>>
    BY ProverAssumption
  <2>3. QED
    BY <2>1, <2>2
<1>2. \A i \in DOMAIN a.slots : a.slots[i] \in Slot
  BY <1>1, LenProperties, ElementOfSeq
<1>3. \A i \in DOMAIN a.slots : <<a.target, a.slots[i]>> \in Key
  BY <1>1, <1>2, KeysTyped
<1>4. DOMAIN a.slots = 1 .. Len(a.slots)
  BY <1>1, LenProperties
<1>5. a.slots \in Seq(Slot \cup Target)
  BY <1>1
<1>6. Len(a.slots) = 1 => 1 \in DOMAIN a.slots
  BY <1>4
<1>7. QED
  BY <1>1, <1>2, <1>3, <1>5, <1>6

\* What a call asks of the slots of its target.
LEMMA SlotsTyped ==
    ASSUME Inv, NEW c \in Call, call[c].pc # "idle"
    PROVE  /\ call[c].target \in Target
           /\ \A i \in DOMAIN call[c].slots : <<call[c].target, call[c].slots[i]>> \in Key
           /\ IsRead(c) => Len(call[c].slots) = 1 /\ DOMAIN call[c].slots = {1}
                           /\ call[c].slots \in Seq(Slot \cup Target)
<1>1. call[c] \in CallRecord /\ QuestionOK(c)
  BY DEF Inv, TypeOK, Inductive, CallOK
<1>2. call[c].target \in Target /\ call[c].slots \in Seq(Slot \cup Target) /\ call[c].ask \in Asks
  BY <1>1 DEF CallRecord, QuestionOK
<1>3. CASE IsByHash(c)
  <2>1. call[c].target = CodeHash /\ call[c].slots = <<call[c].ask.target>>
    BY <1>1, <1>3 DEF QuestionOK
  <2>2. Len(call[c].slots) = 1 /\ DOMAIN call[c].slots = {1} /\ call[c].slots[1] = call[c].ask.target
    BY <2>1
  <2>3. QED
    BY <1>2, <2>1, <2>2, AsksTyped, KeysTyped
<1>4. CASE ~IsByHash(c)
  <2>1. /\ call[c].target = call[c].ask.target
        /\ \/ call[c].slots = call[c].ask.slots
           \/ call[c].ask.op = "proveNeed" /\ call[c].slots = <<>>
    BY <1>1, <1>4 DEF QuestionOK
  <2>2. /\ \A i \in DOMAIN call[c].ask.slots : <<call[c].ask.target, call[c].ask.slots[i]>> \in Key
        /\ call[c].ask.op = "getStorage" => Len(call[c].ask.slots) = 1
    BY <1>2, AsksTyped
  <2>3. DOMAIN call[c].slots = 1 .. Len(call[c].slots)
    BY <1>2, LenProperties
  <2>4. \A i \in DOMAIN call[c].slots : <<call[c].target, call[c].slots[i]>> \in Key
    <3>1. CASE call[c].slots = call[c].ask.slots
      BY <2>1, <2>2, <3>1
    <3>2. CASE call[c].slots = <<>>
      BY <3>2
    <3>3. QED
      BY <2>1, <3>1, <3>2
  <2>5. IsRead(c) => Len(call[c].slots) = 1
    BY <1>4, <2>1, <2>2 DEF IsRead
  <2>6. QED
    BY <1>2, <2>3, <2>4, <2>5
<1>5. QED
  BY <1>3, <1>4

\* The keys of a getProofs(): the account's, where it is kept, and the slots'.
LEMMA ProofKeysTyped ==
    ASSUME FirstSlot \in {1, 2}, rules.accounts <=> FirstSlot = 2,
           NEW t \in Target, NEW slots \in Seq(Slot \cup Target),
           \A i \in DOMAIN slots : <<t, slots[i]>> \in Key
    PROVE  /\ ProofKeys(t, slots) \in Seq(Key)
           /\ Len(ProofKeys(t, slots)) = Len(slots) + FirstSlot - 1
           /\ \A i \in 1 .. FirstSlot - 1 : ProofKeys(t, slots)[i] = <<t>>
           /\ \A i \in 1 .. Len(slots) : ProofKeys(t, slots)[FirstSlot + i - 1] = <<t, slots[i]>>
<1> DEFINE s == SlotKeys(t, slots)
<1>1. DOMAIN slots = 1 .. Len(slots) /\ Len(slots) \in Nat
  BY LenProperties
<1>2. s \in Seq(Key) /\ Len(s) = Len(slots) /\ \A i \in 1 .. Len(slots) : s[i] = <<t, slots[i]>>
  <2>1. s = [i \in 1 .. Len(slots) |-> <<t, slots[i]>>]
    BY <1>1 DEF SlotKeys
  <2>2. \A i \in 1 .. Len(slots) : <<t, slots[i]>> \in Key
    BY <1>1
  <2>3. s \in Seq(Key)
    BY <1>1, <2>1, <2>2, IsASeq
  <2>4. Len(s) = Len(slots)
    BY <1>1, <2>1, <2>3, LenProperties
  <2>5. QED
    BY <2>1, <2>3, <2>4
<1>3. CASE FirstSlot = 1
  <2>1. ProofKeys(t, slots) = s
    BY <1>3 DEF ProofKeys
  <2> HIDE DEF s
  <2>2. QED
    BY <1>1, <1>2, <1>3, <2>1
<1>4. CASE FirstSlot = 2
  <2> DEFINE a == <<<<t>>>>
  <2>1. ProofKeys(t, slots) = a \o s
    BY <1>4 DEF ProofKeys
  <2>2. a \in Seq(Key) /\ Len(a) = 1 /\ a[1] = <<t>>
    BY KeysTyped
  <2> HIDE DEF a, s
  <2>3. /\ a \o s \in Seq(Key) /\ Len(a \o s) = 1 + Len(slots)
        /\ \A i \in 1 .. 1 + Len(slots) : (a \o s)[i] = IF i <= 1 THEN a[i] ELSE s[i - 1]
    <3>1. /\ a \o s \in Seq(Key) /\ Len(a \o s) = Len(a) + Len(s)
          /\ \A i \in 1 .. Len(a) + Len(s) : (a \o s)[i] = IF i <= Len(a) THEN a[i] ELSE s[i - Len(a)]
      <4>1. a \in Seq(Key) /\ s \in Seq(Key)
        BY <1>2, <2>2
      <4>2. QED
        BY ONLY <4>1, ConcatProperties
    <3>2. QED
      BY <1>2, <2>2, <3>1
  <2>4. \A i \in 1 .. Len(slots) : (a \o s)[FirstSlot + i - 1] = <<t, slots[i]>>
    <3> SUFFICES ASSUME NEW i \in 1 .. Len(slots) PROVE (a \o s)[FirstSlot + i - 1] = <<t, slots[i]>>
      OBVIOUS
    <3>1. /\ FirstSlot + i - 1 = i + 1 /\ i + 1 \in 1 .. 1 + Len(slots) /\ ~(i + 1 <= 1)
          /\ i + 1 - 1 = i
      BY <1>1, <1>4
    <3>2. QED
      BY <1>2, <2>3, <3>1
  <2>5. (a \o s)[1] = <<t>>
    BY <1>1, <2>2, <2>3
  <2>6. \A i \in 1 .. FirstSlot - 1 : i = 1
    BY <1>4
  <2>7. Len(slots) + FirstSlot - 1 = 1 + Len(slots)
    BY <1>1, <1>4
  <2>8. QED
    BY <2>1, <2>3, <2>4, <2>5, <2>6, <2>7
<1>5. QED
  BY <1>3, <1>4

----------------------------------------------------------------------------
(* What the LRU gives and keeps. *)

\* What a look at a key finds is an entry of that key.
LEMMA HeldIsEntry ==
    ASSUME NEW m, NEW k
    PROVE  /\ EntryOf(m, k) = {} => \A i \in DOMAIN m : m[i].key # k
           /\ EntryOf(m, k) # {} =>
                \E i \in DOMAIN m : m[i].key = k /\ (CHOOSE e \in EntryOf(m, k) : TRUE) = m[i]
<1>1. EntryOf(m, k) # {} => (CHOOSE e \in EntryOf(m, k) : TRUE) \in EntryOf(m, k)
  OBVIOUS
<1>2. QED
  BY <1>1 DEF EntryOf

\* A touch loses nothing while there is room, and adds nothing.
LEMMA TouchedKeeps ==
    ASSUME settings.max \in Nat, NEW m \in Seq(Entry), KeysDiffer(m), Len(m) <= settings.max,
           NEW k \in Key
    PROVE  /\ Touched(m, k) \in Seq(Entry) /\ KeysDiffer(Touched(m, k))
           /\ Len(Touched(m, k)) <= settings.max
           /\ \A i \in DOMAIN Touched(m, k) : \E j \in DOMAIN m : Touched(m, k)[i] = m[j]
           /\ Roomy => \A j \in DOMAIN m : \E i \in DOMAIN Touched(m, k) : Touched(m, k)[i] = m[j]
<1>1. CASE EntryOf(m, k) = {}
  BY <1>1 DEF Touched
<1>2. CASE EntryOf(m, k) # {}
  <2>1. PICK x \in DOMAIN m : m[x].key = k /\ (CHOOSE e \in EntryOf(m, k) : TRUE) = m[x]
    BY <1>2, HeldIsEntry
  <2>2. /\ m \in Seq(Entries(Key, Write)) /\ m[x] \in Entries(Key, Write)
        /\ m[x].from \in Write /\ m[x].pending \in BOOLEAN
    BY EntriesTyped DEF Entry
  <2>3. m[x] = [key |-> k, from |-> m[x].from, pending |-> m[x].pending]
    BY <2>1, <2>2 DEF Entries
  <2>4. PICK r : r = Put(m, settings.max, k, m[x].from, m[x].pending)
    OBVIOUS
  <2>5. Touched(m, k) = r
    BY <1>2, <2>1, <2>4 DEF Touched
  <2>6. /\ r \in Seq(Entries(Key, Write)) /\ KeysDiffer(r) /\ Len(r) <= settings.max
        /\ \A i \in DOMAIN r : r[i] = m[x] \/ \E j \in DOMAIN m : r[i] = m[j] /\ m[j].key # k
    BY <2>2, <2>3, <2>4, PutKeeps
  <2>7. ASSUME Roomy, NEW j \in DOMAIN m PROVE \E i \in DOMAIN r : r[i] = m[j]
    <3>1. Cardinality(Key) <= settings.max /\ IsFiniteSet(Key)
      BY <2>7, KeysFinite DEF Roomy
    <3>2. Len(Without(m, k)) # settings.max /\ settings.max # 0
      BY <2>2, <3>1, RoomForAll
    <3>3. /\ \E i \in DOMAIN r : r[i] = m[x]
          /\ \A y \in DOMAIN m : m[y].key # k => \E i \in DOMAIN r : r[i] = m[y]
      BY <2>2, <2>3, <2>4, <3>2, PutWithRoom
    <3>4. m[j].key = k => j = x
      BY <2>1 DEF KeysDiffer
    <3>5. QED
      BY <3>3, <3>4
  <2>8. QED
    BY <2>5, <2>6, <2>7 DEF Entry
<1>3. QED
  BY <1>1, <1>2

----------------------------------------------------------------------------
(* One call takes a step: what stays true of the others, and of the LRU. *)

\* A call keeps its futures, if it has any, and does not take back an answer.
KeepsFutures(c, new) ==
    \/ call[c].src = <<>>
    \/ /\ new.src = call[c].src /\ new.keys = call[c].keys
       /\ call[c].blocker # "none" => new.blocker # "none"

LEMMA FutureStays ==
    ASSUME call \in [Call -> CallRecord], NEW c \in Call, NEW new,
           call' = [call EXCEPT ![c] = new], KeepsFutures(c, new),
           NEW w, NEW k, FutureOf(w, k)
    PROVE  FutureOf(w, k)'
<1>1. w[1] \in Call /\ call'[c] = new /\ (w[1] # c => call'[w[1]] = call[w[1]])
  BY DEF FutureOf
<1>2. CASE w[1] # c
  BY <1>1, <1>2 DEF FutureOf
<1>3. CASE w[1] = c
  <2>1. w[2] \in DOMAIN call[c].src
    BY <1>3 DEF FutureOf
  <2>2. call[c].src # <<>>
    BY <2>1
  <2>3. QED
    BY <1>1, <1>3, <2>2 DEF FutureOf, KeepsFutures
<1>4. QED
  BY <1>2, <1>3

\* Trouble does not go away.
LEMMA FitsStays ==
    ASSUME rules' = rules, settings' = settings, trouble \in Nat, trouble' \in Nat,
           trouble <= trouble', NEW p, NEW k, Fits(p, k)
    PROVE  Fits(p, k)'
BY DEF Fits

\* What is true of the other calls.
LEMMA OthersStay ==
    ASSUME Inv, NEW c \in Call, NEW new, call' = [call EXCEPT ![c] = new],
           KeepsFutures(c, new), call[c].read # "none" => new.read # "none",
           settings' = settings, rules' = rules, trouble' \in Nat, trouble <= trouble',
           NEW d \in Call, d # c
    PROVE  CallOK(d)'
<1>1. /\ call \in [Call -> CallRecord] /\ trouble \in Nat /\ CallOK(d) /\ call[d] \in CallRecord
  BY DEF Inv, TypeOK, Inductive
<1>2. call'[d] = call[d]
  BY <1>1
<1>3. \A w, k : FutureOf(w, k) => FutureOf(w, k)'
  BY <1>1, FutureStays
<1>4. \A p, k : Fits(p, k) => Fits(p, k)'
  BY <1>1, FitsStays
<1>5. QuestionOK(d)'
  BY <1>1, <1>2 DEF CallOK, QuestionOK, IsByHash, Is
<1>6. SourcesOK(d)'
  <2>1. SourcesOK(d)
    BY <1>1 DEF CallOK
  <2>2. /\ call'[d].pc = call[d].pc /\ call'[d].blocker = call[d].blocker
        /\ call'[d].src = call[d].src /\ call'[d].keys = call[d].keys
        /\ call'[d].target = call[d].target /\ call'[d].slots = call[d].slots
        /\ call'[d].miss = call[d].miss /\ call'[d].got = call[d].got
        /\ FirstSlot' = FirstSlot
    BY <1>2 DEF FirstSlot
  <2>3. /\ ProofKeys(call[d].target, call[d].slots)' = ProofKeys(call[d].target, call[d].slots)'
        /\ \A t, s : ProofKeys(t, s)' = ProofKeys(t, s)
        /\ \A s : Missing(d, s)' = Missing(d, s)
    BY <2>2 DEF ProofKeys, Missing
  <2>4. \A i \in DOMAIN call[d].src : FutureOf(call[d].src[i], call[d].keys[i])
    BY <2>1 DEF SourcesOK
  <2>5. ASSUME NEW i \in DOMAIN call[d].src
        PROVE  FutureOf(call[d].src[i], call[d].keys[i])'
    <3>1. PICK w, k : w = call[d].src[i] /\ k = call[d].keys[i]
      OBVIOUS
    <3>2. FutureOf(w, k)'
      BY <1>3, <2>4, <3>1
    <3>3. QED
      BY <1>2, <3>1, <3>2 DEF FutureOf
  <2>6. \A i \in DOMAIN call'[d].src : FutureOf(call[d].src[i], call[d].keys[i])'
    BY <2>2, <2>5
  <2>7. ASSUME NEW i \in DOMAIN call[d].src, Fits(call[d].got[i], call[d].keys[i])
        PROVE  Fits(call[d].got[i], call[d].keys[i])'
    <3>1. PICK p, k : p = call[d].got[i] /\ k = call[d].keys[i]
      OBVIOUS
    <3>2. Fits(p, k)'
      BY <1>4, <2>7, <3>1
    <3>3. QED
      BY <1>2, <3>1, <3>2 DEF Fits
  <2>8. QED
    BY <2>1, <2>2, <2>3, <2>6, <2>7 DEF SourcesOK
<1>a. ReadsEdge(d)' <=> ReadsEdge(d)
  BY <1>1, <1>2 DEF ReadsEdge, Is
<1>7. TroubleOK(d)'
  BY <1>1, <1>2, <1>a DEF CallOK, TroubleOK
<1>8. AwaitsOK(d)'
  BY <1>1, <1>2, <1>3 DEF CallOK, AwaitsOK, IsRead, IsByHash, Is
<1>9. ReadsOK(d)'
  <2>1. \A e \in Call : call[e].read # "none" => call'[e].read # "none"
    BY <1>1
  <2>2. QED
    BY <1>1, <1>2, <2>1 DEF CallOK, ReadsOK, Is
<1>10. OutOK(d)'
  BY <1>1, <1>2, <1>a DEF CallOK, OutOK
<1>11. QED
  BY <1>5, <1>6, <1>7, <1>8, <1>9, <1>10 DEF CallOK


\* A step keeps of the LRU what it does not evict, and evicts nothing while there
\* is room.
KeepsMap ==
    /\ map' \in Seq(Entry) /\ KeysDiffer(map') /\ Len(map') <= settings.max
    /\ \A i \in DOMAIN map' : \E j \in DOMAIN map : map'[i] = map[j]
    /\ Roomy => \A j \in DOMAIN map : \E i \in DOMAIN map' : map'[i] = map[j]

\* A call moves on, with its futures unless they are answered by it.
MovesOn(c, new) ==
    /\ call' = [call EXCEPT ![c] = new]
    /\ new.src = call[c].src /\ new.keys = call[c].keys
    /\ \/ new.blocker = call[c].blocker
       \/ call[c].blocker = "waiting" /\ new.blocker \in {"resolved", "rejected"}
    /\ call[c].read # "none" => new.read # "none"

\* A map that is left alone.
LEMMA SameMap ==
    ASSUME Inv, map' = map
    PROVE  KeepsMap
BY DEF KeepsMap, Inv, TypeOK, Inductive, MapOK, Entry

\* A call that moves on keeps the invariant if it keeps its own part.
LEMMA Moving ==
    ASSUME Inv, NEW c \in Call, NEW new \in CallRecord, MovesOn(c, new), KeepsMap,
           settings' = settings, rules' = rules, told' = told,
           unread' \subseteq Key, trouble' \in 0 .. MaxTrouble, trouble <= trouble',
           unread' # {} => trouble' > 0, CallOK(c)'
    PROVE  Inv'
<1>1. /\ call \in [Call -> CallRecord] /\ map \in Seq(Entry) /\ trouble \in Nat /\ trouble' \in Nat
      /\ settings \in Settings /\ rules = RulesOf(settings.kind) /\ MapOK /\ HeldOK /\ told \subseteq Write
      /\ MaxTrouble \in Nat
  BY ProverAssumption DEF Inv, TypeOK, Inductive, Entry
<1>2. /\ call' = [call EXCEPT ![c] = new] /\ new.src = call[c].src /\ new.keys = call[c].keys
      /\ call'[c] = new /\ \A d \in Call : d # c => call'[d] = call[d]
  BY <1>1 DEF MovesOn
<1>3. \A d \in Call : /\ call'[d].src = call[d].src /\ call'[d].keys = call[d].keys
                      /\ \/ call'[d].blocker = call[d].blocker
                         \/ /\ call[d].blocker = "waiting"
                            /\ call'[d].blocker \in {"resolved", "rejected"}
  BY <1>2 DEF MovesOn
<1>4. KeepsFutures(c, new)
  BY <1>2 DEF KeepsFutures, MovesOn
<1>5. \A w, k : FutureOf(w, k) => FutureOf(w, k)'
  BY <1>1, <1>2, <1>4, FutureStays
<1>6. TypeOK'
  <2>1. call' \in [Call -> CallRecord]
    BY <1>1, <1>2
  <2>2. map' \in Seq(Entries(Key, Write))
    BY DEF KeepsMap, Entry
  <2>3. QED
    BY <1>1, <2>1, <2>2 DEF TypeOK
<1>7. \A d \in Call : CallOK(d)'
  <2>1. \A d \in Call : d # c => CallOK(d)'
    BY <1>1, <1>2, <1>4, OthersStay DEF MovesOn
  <2>2. QED
    BY <2>1
<1>8. MapOK'
  <2>1. KeysDiffer(map') /\ Len(map') <= settings'.max
    BY DEF KeepsMap
  <2>2. ASSUME NEW i \in DOMAIN map'
        PROVE  /\ FutureOf(map[i].from, map[i].key)'
               /\ map'[i].pending <=> map'[i].from \notin told
               /\ map'[i].from \in told => ~Rejected(map[i].from)'
    <3>1. PICK j \in DOMAIN map : map'[i] = map[j]
      BY DEF KeepsMap
    <3>2. PICK w, k : w = map[j].from /\ k = map[j].key
      OBVIOUS
    <3>3. /\ FutureOf(w, k)
          /\ map[j].pending <=> w \notin told
          /\ w \in told => ~Rejected(w)
      BY <1>1, <3>2 DEF MapOK
    <3>4. FutureOf(w, k)'
      BY <1>5, <3>3
    <3>5. FutureOf(map[i].from, map[i].key)'
      BY <3>1, <3>2, <3>4 DEF FutureOf
    <3>6. w \in told => w[1] \in Call /\ call[w[1]].blocker # "waiting"
      BY <1>1 DEF MapOK
    <3>7. w \in told => call'[w[1]].blocker # "rejected"
      BY <1>3, <3>3, <3>6 DEF Rejected
    <3>8. QED
      BY <3>1, <3>2, <3>3, <3>5, <3>7 DEF Rejected
  <2>3. \A w \in told : w[1] \in Call /\ call'[w[1]].blocker \in {"resolved", "rejected"}
    BY <1>1, <1>3 DEF MapOK
  <2>4. QED
    BY <2>1, <2>2, <2>3 DEF MapOK
<1>9. HeldOK'
  <2> SUFFICES ASSUME rules.shared, Roomy, NEW d \in Call,
                      call'[d].blocker \in {"waiting", "resolved"},
                      NEW i \in DOMAIN call'[d].src, call'[d].src[i] = <<d, i>>
               PROVE  \E j \in DOMAIN map' : map'[j].key = call'[d].keys[i] /\ map'[j].from = <<d, i>>
    BY DEF HeldOK, Roomy
  <2>1. call[d].blocker \in {"waiting", "resolved"} /\ i \in DOMAIN call[d].src /\ call[d].src[i] = <<d, i>>
    BY <1>3
  <2>2. PICK x \in DOMAIN map : map[x].key = call[d].keys[i] /\ map[x].from = <<d, i>>
    BY <1>1, <2>1 DEF HeldOK
  <2>3. PICK j \in DOMAIN map' : map'[j] = map[x]
    BY DEF KeepsMap
  <2>4. QED
    BY <1>3, <2>2, <2>3
<1>10. QED
  BY <1>1, <1>6, <1>7, <1>8, <1>9 DEF Inv, Inductive

\* A call that ends keeps the invariant if it ends rightly, or reads an edge.
LEMMA Ending ==
    ASSUME Inv, NEW c \in Call, call[c].pc \notin {"idle", "fetch"}, NEW pc \in {"ok", "failed"}, NEW out,
           out \in Seq(Key) \cup Seq(Target \cup Slot),
           Ends(c, pc, out), pc = "ok" => Answers(call[c].ask, out) \/ ReadsEdge(c),
           pc = "failed" => trouble > 0 \/ ReadsEdge(c),
           UNCHANGED <<settings, rules, map, told, unread, trouble>>
    PROVE  Inv'
<1> DEFINE new == [call[c] EXCEPT !.pc = pc, !.out = out]
<1>1. /\ call \in [Call -> CallRecord] /\ call[c] \in CallRecord /\ CallOK(c) /\ trouble \in 0 .. MaxTrouble
      /\ unread \subseteq Key /\ trouble \in Nat
      /\ unread # {} => trouble > 0
  BY ProverAssumption DEF Inv, TypeOK, Inductive
<1>2. call' = [call EXCEPT ![c] = new] /\ call'[c] = new
  BY <1>1 DEF Ends, Goes
<1>3. new \in CallRecord
  <2>1. /\ call[c] \in CallRecord /\ out \in Seq(Key) \cup Seq(Target \cup Slot)
        /\ pc \in {"idle", "account", "slot", "need", "fetch", "gather", "fast", "ok", "failed"}
    BY <1>1
  <2>2. QED
    BY ONLY <2>1, ZenonT(90) DEF CallRecord
<1>4. /\ new.ask = call[c].ask /\ new.target = call[c].target /\ new.slots = call[c].slots
      /\ new.keys = call[c].keys /\ new.src = call[c].src /\ new.miss = call[c].miss
      /\ new.shorts = call[c].shorts /\ new.blocker = call[c].blocker /\ new.got = call[c].got
      /\ new.read = call[c].read /\ new.awaits = call[c].awaits /\ new.pc = pc /\ new.out = out
  BY <1>1 DEF CallRecord
<1> HIDE DEF new
<1>5. MovesOn(c, new)
  BY <1>2, <1>4 DEF MovesOn
<1>6. KeepsMap
  BY SameMap
<1>7. QuestionOK(c)'
  BY <1>1, <1>2, <1>4 DEF CallOK, QuestionOK, IsByHash, Is
<1>8. SourcesOK(c)'
  <2>1. \A i \in DOMAIN call[c].src : FutureOf(call[c].src[i], call[c].keys[i])'
    <3> SUFFICES ASSUME NEW i \in DOMAIN call[c].src
                 PROVE  FutureOf(call[c].src[i], call[c].keys[i])'
      OBVIOUS
    <3>1. PICK w, k : w = call[c].src[i] /\ k = call[c].keys[i]
      OBVIOUS
    <3>2. FutureOf(w, k)
      BY <1>1, <3>1 DEF CallOK, SourcesOK
    <3>3. FutureOf(w, k)'
      BY <1>1, <1>2, <1>4, <3>2, FutureStays DEF KeepsFutures
    <3>4. QED
      BY <1>2, <1>4, <3>1, <3>3 DEF FutureOf
  <2>2. \A i \in DOMAIN call'[c].src : FutureOf(call[c].src[i], call[c].keys[i])'
    BY <1>2, <1>4, <2>1
  <2>3. FirstSlot' = FirstSlot
    BY DEF FirstSlot
  <2>4. ASSUME NEW i, Fits(call[c].got[i], call[c].keys[i])
        PROVE  Fits(call[c].got[i], call[c].keys[i])'
    BY <1>2, <1>4, <2>4 DEF Fits
  <2>5. SourcesOK(c)
    BY <1>1 DEF CallOK
  <2>6. QED
    BY <1>2, <1>4, <2>2, <2>3, <2>4, <2>5 DEF SourcesOK
<1>a. ReadsEdge(c)' <=> ReadsEdge(c)
  BY <1>1, <1>2, <1>4 DEF ReadsEdge, Is
<1>9. TroubleOK(c)'
  BY <1>1, <1>2, <1>4, <1>a DEF CallOK, TroubleOK
<1>10. AwaitsOK(c)' /\ ReadsOK(c)' /\ OutOK(c)'
  BY <1>1, <1>2, <1>4, <1>a DEF CallOK, AwaitsOK, ReadsOK, OutOK
<1>11. QED
  BY <1>1, <1>3, <1>5, <1>6, <1>7, <1>8, <1>9, <1>10, Moving DEF CallOK

----------------------------------------------------------------------------
(* The futures of getProofs(). *)

\* What the i-th future of a call puts into the LRU.
Own(c, keys, i) == [key |-> keys[i], from |-> <<c, i>>, pending |-> TRUE]

\* A source for the i-th key: an own future, that of another call, or the own one
\* of an earlier occurrence of the key.
SourceOf(c, keys, src, i) ==
    \/ src[i] = <<c, i>>
    \/ FutureOf(src[i], keys[i])
    \/ \E h \in 1 .. i - 1 : src[i] = <<c, h>> /\ src[h] = <<c, h>> /\ keys[h] = keys[i]

\* The first n keys are joined: what is in the LRU was there before or is a future
\* of the call, and with room for all nothing is missing.
JoinedTo(c, keys, n, s) ==
    /\ s.map \in Seq(Entry) /\ KeysDiffer(s.map) /\ Len(s.map) <= settings.max
    /\ s.src \in Seq(Write) /\ Len(s.src) = n
    /\ \A i \in 1 .. n : SourceOf(c, keys, s.src, i)
    /\ \A j \in DOMAIN s.map :
        \/ \E x \in DOMAIN map : s.map[j] = map[x]
        \/ \E h \in 1 .. n : s.src[h] = <<c, h>> /\ s.map[j] = Own(c, keys, h)
    /\ rules.shared /\ Roomy =>
        /\ \A x \in DOMAIN map : \E j \in DOMAIN s.map : s.map[j] = map[x]
        /\ \A h \in 1 .. n : s.src[h] = <<c, h>> => \E j \in DOMAIN s.map : s.map[j] = Own(c, keys, h)

\* Sources for the first n keys.
Sourced(c, keys, src, n) ==
    src \in Seq(Write) /\ Len(src) = n /\ \A i \in 1 .. n : SourceOf(c, keys, src, i)

\* One more source: those before it stay.
Grown(c, keys, src, n, w, new) ==
    /\ new \in Seq(Write) /\ Len(new) = n + 1 /\ new[n + 1] = w
    /\ \A i \in 1 .. n : new[i] = src[i] /\ SourceOf(c, keys, new, i)

LEMMA SourcesGrow ==
    ASSUME NEW c, NEW keys, NEW n \in Nat, NEW src, Sourced(c, keys, src, n), NEW w \in Write,
           NEW new, new = Append(src, w)
    PROVE  Grown(c, keys, src, n, w, new)
<1>1. /\ new \in Seq(Write) /\ Len(new) = n + 1 /\ new[n + 1] = w
      /\ \A i \in 1 .. n : new[i] = src[i]
  BY AppendProperties DEF Sourced
<1>2. ASSUME NEW i \in 1 .. n PROVE SourceOf(c, keys, new, i)
  <2>1. SourceOf(c, keys, src, i) /\ new[i] = src[i]
    BY <1>1 DEF Sourced
  <2>2. \A h \in 1 .. i - 1 : new[h] = src[h]
    BY <1>1
  <2>3. QED
    BY <2>1, <2>2 DEF SourceOf
<1>3. QED
  BY <1>1, <1>2 DEF Grown

\* An entry is put into the LRU; with room for all nothing is lost.
LEMMA PutFits ==
    ASSUME settings.max \in Nat, NEW m \in Seq(Entry), KeysDiffer(m), Len(m) <= settings.max,
           NEW k \in Key, NEW w \in Write, NEW b \in BOOLEAN,
           NEW r, r = Put(m, settings.max, k, w, b),
           NEW e, e = [key |-> k, from |-> w, pending |-> b]
    PROVE  /\ r \in Seq(Entry) /\ KeysDiffer(r) /\ Len(r) <= settings.max
           /\ \A i \in DOMAIN r : r[i] = e \/ \E j \in DOMAIN m : r[i] = m[j] /\ m[j].key # k
           /\ Roomy => /\ \E i \in DOMAIN r : r[i] = e
                       /\ \A j \in DOMAIN m : m[j].key # k => \E i \in DOMAIN r : r[i] = m[j]
<1>1. m \in Seq(Entries(Key, Write))
  BY DEF Entry
<1>2. /\ r \in Seq(Entries(Key, Write)) /\ KeysDiffer(r) /\ Len(r) <= settings.max
      /\ \A i \in DOMAIN r : r[i] = e \/ \E j \in DOMAIN m : r[i] = m[j] /\ m[j].key # k
  BY <1>1, PutKeeps
<1>3. ASSUME Roomy
      PROVE  /\ \E i \in DOMAIN r : r[i] = e
             /\ \A j \in DOMAIN m : m[j].key # k => \E i \in DOMAIN r : r[i] = m[j]
  <2>1. Cardinality(Key) <= settings.max /\ IsFiniteSet(Key)
    BY <1>3, KeysFinite DEF Roomy
  <2>2. Len(Without(m, k)) # settings.max /\ settings.max # 0
    BY <1>1, <2>1, RoomForAll
  <2>3. QED
    BY <1>1, <2>2, PutWithRoom
<1>4. QED
  BY <1>2, <1>3 DEF Entry

\* One key after another.
LEMMA JoinOne ==
    ASSUME Inv, NEW c \in Call, call[c].src = <<>>, NEW keys \in Seq(Key), NEW n \in Nat,
           n < Len(keys), NEW s, JoinedTo(c, keys, n, s)
    PROVE  JoinedTo(c, keys, n + 1, TouchedOrOwn(c, s, keys[n + 1]))
<1> DEFINE k == keys[n + 1]
           m == s.map
           src == s.src
<1>1. /\ n + 1 \in 1 .. Len(keys) /\ k \in Key
  BY LenProperties, ElementOfSeq
<1>2. /\ settings.max \in Nat /\ MapOK /\ map \in Seq(Entry)
  BY RulesKnown DEF Inv, TypeOK, Inductive, Entry
<1>3. /\ m \in Seq(Entry) /\ KeysDiffer(m) /\ Len(m) <= settings.max
      /\ src \in Seq(Write) /\ Len(src) = n
      /\ \A i \in 1 .. n : SourceOf(c, keys, src, i)
  BY DEF JoinedTo
<1>4. \A j \in DOMAIN m :
        \/ \E x \in DOMAIN map : m[j] = map[x]
        \/ \E h \in 1 .. n : src[h] = <<c, h>> /\ m[j] = Own(c, keys, h)
  BY DEF JoinedTo
<1>5. rules.shared /\ Roomy =>
        /\ \A x \in DOMAIN map : \E j \in DOMAIN m : m[j] = map[x]
        /\ \A h \in 1 .. n : src[h] = <<c, h>> => \E j \in DOMAIN m : m[j] = Own(c, keys, h)
  BY DEF JoinedTo
<1>6. PICK own : own = <<c, n + 1>>
  OBVIOUS
<1>7. own \in Write
  BY <1>6 DEF Write
<1> HIDE DEF m, src, k
<1>8. CASE EntryOf(m, k) = {}
  <2> DEFINE ns == Append(src, own)
  <2>1. PICK r : r = Put(m, settings.max, k, own, TRUE)
    OBVIOUS
  <2>2. PICK e : e = [key |-> k, from |-> own, pending |-> TRUE]
    OBVIOUS
  <2>3. TouchedOrOwn(c, s, k) = [map |-> r, src |-> ns]
    BY <1>3, <1>6, <1>8, <2>1 DEF TouchedOrOwn, m, src
  <2>4. /\ r \in Seq(Entry) /\ KeysDiffer(r) /\ Len(r) <= settings.max
        /\ \A i \in DOMAIN r : r[i] = e \/ \E j \in DOMAIN m : r[i] = m[j] /\ m[j].key # k
        /\ Roomy => /\ \E i \in DOMAIN r : r[i] = e
                    /\ \A j \in DOMAIN m : m[j].key # k => \E i \in DOMAIN r : r[i] = m[j]
    <3>1. PICK b \in BOOLEAN : b = TRUE
      OBVIOUS
    <3>2. /\ r = Put(m, settings.max, k, own, b)
          /\ e = [key |-> k, from |-> own, pending |-> b]
      BY <2>1, <2>2, <3>1
    <3>3. QED
      <4>1. settings.max \in Nat /\ m \in Seq(Entry) /\ KeysDiffer(m) /\ Len(m) <= settings.max
        BY <1>2, <1>3
      <4>2. k \in Key /\ own \in Write
        BY <1>1, <1>7
      <4>3. QED
        BY ONLY <4>1, <4>2, <3>2, PutFits
  <2>5. ASSUME Roomy
        PROVE  /\ \E i \in DOMAIN r : r[i] = e
               /\ \A j \in DOMAIN m : \E i \in DOMAIN r : r[i] = m[j]
    <3>1. \A i \in DOMAIN m : m[i].key # k
      BY <1>8, HeldIsEntry
    <3>2. QED
      BY <2>4, <2>5, <3>1
  <2>6. /\ ns \in Seq(Write) /\ Len(ns) = n + 1 /\ ns[n + 1] = own
        /\ \A i \in 1 .. n : ns[i] = src[i] /\ SourceOf(c, keys, ns, i)
    <3>1. Sourced(c, keys, src, n) /\ ns = Append(src, own) /\ n \in Nat
      BY <1>3 DEF Sourced
    <3> HIDE DEF ns
    <3>2. Grown(c, keys, src, n, own, ns)
      BY ONLY <1>7, <3>1, SourcesGrow
    <3>3. QED
      BY <3>2 DEF Grown
  <2>7. e = Own(c, keys, n + 1)
    BY <1>6, <2>2 DEF Own, k
  <2> HIDE DEF ns
  <2>8. \A i \in 1 .. n + 1 : SourceOf(c, keys, ns, i)
    <3>1. SourceOf(c, keys, ns, n + 1)
      BY <1>6, <2>6 DEF SourceOf
    <3>2. QED
      BY <2>6, <3>1
  <2>9. \A j \in DOMAIN r :
            \/ \E x \in DOMAIN map : r[j] = map[x]
            \/ \E h \in 1 .. n + 1 : ns[h] = <<c, h>> /\ r[j] = Own(c, keys, h)
    <3> SUFFICES ASSUME NEW j \in DOMAIN r, ~ \E x \in DOMAIN map : r[j] = map[x]
                 PROVE  \E h \in 1 .. n + 1 : ns[h] = <<c, h>> /\ r[j] = Own(c, keys, h)
      OBVIOUS
    <3>1. CASE r[j] = e
      BY <1>6, <2>6, <2>7, <3>1
    <3>2. CASE \E x \in DOMAIN m : r[j] = m[x]
      <4>1. PICK h \in 1 .. n : src[h] = <<c, h>> /\ r[j] = Own(c, keys, h)
        BY <1>4, <3>2
      <4>2. QED
        BY <2>6, <4>1
    <3>3. QED
      BY <2>4, <3>1, <3>2
  <2>10. rules.shared /\ Roomy =>
            /\ \A x \in DOMAIN map : \E j \in DOMAIN r : r[j] = map[x]
            /\ \A h \in 1 .. n + 1 : ns[h] = <<c, h>> => \E j \in DOMAIN r : r[j] = Own(c, keys, h)
    <3> SUFFICES ASSUME rules.shared, Roomy
                 PROVE  /\ \A x \in DOMAIN map : \E j \in DOMAIN r : r[j] = map[x]
                        /\ \A h \in 1 .. n + 1 : ns[h] = <<c, h>> =>
                                \E j \in DOMAIN r : r[j] = Own(c, keys, h)
      OBVIOUS
    <3>1. \A x \in DOMAIN map : \E j \in DOMAIN r : r[j] = map[x]
      BY <1>5, <2>5
    <3>2. ASSUME NEW h \in 1 .. n + 1, ns[h] = <<c, h>>
          PROVE  \E j \in DOMAIN r : r[j] = Own(c, keys, h)
      <4>1. CASE h = n + 1
        BY <2>5, <2>7, <4>1
      <4>2. CASE h # n + 1
        <5>1. h \in 1 .. n /\ src[h] = <<c, h>>
          BY <2>6, <3>2, <4>2
        <5>2. PICK x \in DOMAIN m : m[x] = Own(c, keys, h)
          BY <1>5, <5>1
        <5>3. QED
          BY <2>5, <5>2
      <4>3. QED
        BY <4>1, <4>2
    <3>3. QED
      BY <3>1, <3>2
  <2>11. JoinedTo(c, keys, n + 1, [map |-> r, src |-> ns])
    BY <2>4, <2>6, <2>8, <2>9, <2>10, ZenonT(60) DEF JoinedTo
  <2>12. QED
    BY <2>3, <2>11 DEF k
<1>9. CASE EntryOf(m, k) # {}
  <2>1. PICK y \in DOMAIN m : m[y].key = k /\ (CHOOSE e \in EntryOf(m, k) : TRUE) = m[y]
    BY <1>9, HeldIsEntry
  <2>2. PICK w : w = m[y].from
    OBVIOUS
  <2>3. w \in Write
    BY <1>3, <2>2, EntriesTyped DEF Entry
  <2> DEFINE r  == Touched(m, k)
             ns == Append(src, w)
  <2>4. TouchedOrOwn(c, s, k) = [map |-> r, src |-> ns]
    BY <1>9, <2>1, <2>2 DEF TouchedOrOwn, m, src
  <2>5. /\ r \in Seq(Entry) /\ KeysDiffer(r) /\ Len(r) <= settings.max
        /\ \A i \in DOMAIN r : \E j \in DOMAIN m : r[i] = m[j]
        /\ Roomy => \A j \in DOMAIN m : \E i \in DOMAIN r : r[i] = m[j]
    BY <1>1, <1>2, <1>3, TouchedKeeps
  <2>6. /\ ns \in Seq(Write) /\ Len(ns) = n + 1 /\ ns[n + 1] = w
        /\ \A i \in 1 .. n : ns[i] = src[i] /\ SourceOf(c, keys, ns, i)
    <3>1. Sourced(c, keys, src, n) /\ ns = Append(src, w) /\ n \in Nat
      BY <1>3 DEF Sourced
    <3> HIDE DEF ns
    <3>2. Grown(c, keys, src, n, w, ns)
      BY ONLY <2>3, <3>1, SourcesGrow
    <3>3. QED
      BY <3>2 DEF Grown
  <2> HIDE DEF r, ns
  <2>7. FutureOf(w, k) \/ \E h \in 1 .. n : w = <<c, h>> /\ src[h] = <<c, h>> /\ keys[h] = k
    <3>1. CASE \E x \in DOMAIN map : m[y] = map[x]
      <4>1. PICK x \in DOMAIN map : m[y] = map[x]
        BY <3>1
      <4>2. FutureOf(map[x].from, map[x].key)
        BY <1>2 DEF MapOK
      <4>3. QED
        BY <2>1, <2>2, <4>1, <4>2
    <3>2. CASE \E h \in 1 .. n : src[h] = <<c, h>> /\ m[y] = Own(c, keys, h)
      BY <2>1, <2>2, <3>2 DEF Own
    <3>3. QED
      BY <1>4, <3>1, <3>2
  <2>8. SourceOf(c, keys, ns, n + 1) /\ w # <<c, n + 1>>
    <3>1. CASE FutureOf(w, k)
      <4>1. w[1] # c
        BY <3>1 DEF FutureOf
      <4>2. QED
        BY <2>6, <3>1, <4>1 DEF SourceOf, k
    <3>2. CASE \E h \in 1 .. n : w = <<c, h>> /\ src[h] = <<c, h>> /\ keys[h] = k
      <4>1. PICK h \in 1 .. n : w = <<c, h>> /\ src[h] = <<c, h>> /\ keys[h] = k
        BY <3>2
      <4>2. h # n + 1 /\ h \in 1 .. (n + 1) - 1 /\ ns[h] = <<c, h>> /\ ns[n + 1] = <<c, h>>
        BY <2>6, <4>1
      <4>3. QED
        BY <4>1, <4>2 DEF SourceOf, k
    <3>3. QED
      BY <2>7, <3>1, <3>2
  <2>9. \A i \in 1 .. n + 1 : SourceOf(c, keys, ns, i)
    BY <2>6, <2>8
  <2>10. \A j \in DOMAIN r :
            \/ \E x \in DOMAIN map : r[j] = map[x]
            \/ \E h \in 1 .. n + 1 : ns[h] = <<c, h>> /\ r[j] = Own(c, keys, h)
    <3> SUFFICES ASSUME NEW j \in DOMAIN r, ~ \E x \in DOMAIN map : r[j] = map[x]
                 PROVE  \E h \in 1 .. n + 1 : ns[h] = <<c, h>> /\ r[j] = Own(c, keys, h)
      OBVIOUS
    <3>1. PICK x \in DOMAIN m : r[j] = m[x]
      BY <2>5
    <3>2. PICK h \in 1 .. n : src[h] = <<c, h>> /\ m[x] = Own(c, keys, h)
      BY <1>4, <3>1
    <3>3. QED
      BY <2>6, <3>1, <3>2
  <2>11. rules.shared /\ Roomy =>
            /\ \A x \in DOMAIN map : \E j \in DOMAIN r : r[j] = map[x]
            /\ \A h \in 1 .. n + 1 : ns[h] = <<c, h>> => \E j \in DOMAIN r : r[j] = Own(c, keys, h)
    <3> SUFFICES ASSUME rules.shared, Roomy
                 PROVE  /\ \A x \in DOMAIN map : \E j \in DOMAIN r : r[j] = map[x]
                        /\ \A h \in 1 .. n + 1 : ns[h] = <<c, h>> =>
                                \E j \in DOMAIN r : r[j] = Own(c, keys, h)
      OBVIOUS
    <3>1. \A x \in DOMAIN map : \E j \in DOMAIN r : r[j] = map[x]
      BY <1>5, <2>5
    <3>2. ASSUME NEW h \in 1 .. n + 1, ns[h] = <<c, h>>
          PROVE  \E j \in DOMAIN r : r[j] = Own(c, keys, h)
      <4>1. h # n + 1
        BY <2>6, <2>8, <3>2
      <4>2. h \in 1 .. n
        BY <4>1
      <4>3. src[h] = <<c, h>>
        BY <2>6, <3>2, <4>2
      <4>4. PICK x \in DOMAIN m : m[x] = Own(c, keys, h)
        BY <1>5, <4>2, <4>3
      <4>5. QED
        BY <2>5, <4>4
    <3>3. QED
      BY <3>1, <3>2
  <2>12. JoinedTo(c, keys, n + 1, [map |-> r, src |-> ns])
    BY <2>5, <2>6, <2>9, <2>10, <2>11 DEF JoinedTo
  <2>13. QED
    BY <2>4, <2>12 DEF k
<1>10. QED
  BY <1>8, <1>9

\* All keys, one after another: the recursion is there, and its last step has
\* joined them.
LEMMA JoinAll ==
    ASSUME Inv, NEW c \in Call, call[c].src = <<>>, NEW keys \in Seq(Key)
    PROVE  JoinedTo(c, keys, Len(keys), Joined(c, map, keys))
<1> DEFINE start == [map |-> map, src |-> <<>>]
           Step(f, i) == IF i = 0 THEN start ELSE TouchedOrOwn(c, f[i - 1], keys[i])
           UpTo(f, n) == f = [i \in 0 .. n |-> Step(f, i)]
           L == Len(keys)
<1>1. L \in Nat
  BY LenProperties
<1>2. \A n \in 0 .. L : \E f : UpTo(f, n)
  <2> DEFINE T == {n \in 0 .. L : ~ \E f : UpTo(f, n)}
  <2>1. SUFFICES ASSUME T # {} PROVE FALSE
    OBVIOUS
  <2>2. PICK n \in T : \A y \in T : n <= y
    <3>1. T \subseteq Nat
      BY <1>1
    <3> HIDE DEF T
    <3>2. QED
      BY <2>1, <3>1, LeastOf
  <2>3. n # 0
    <3>1. PICK f : f = [i \in 0 .. 0 |-> start]
      OBVIOUS
    <3>2. UpTo(f, 0)
      BY <3>1
    <3>3. QED
      BY <3>2
  <2>4. n - 1 \in 0 .. L /\ n \in Nat /\ n - 1 \notin T
    <3>1. n \in 0 .. L
      BY <2>2
    <3> HIDE DEF T
    <3>2. QED
      BY <1>1, <2>2, <2>3, <3>1
  <2>5. PICK f : UpTo(f, n - 1)
    BY <2>4
  <2>6. PICK g : g = [i \in 0 .. n |-> IF i = n THEN TouchedOrOwn(c, f[n - 1], keys[n]) ELSE f[i]]
    OBVIOUS
  <2>7. \A i \in 0 .. n : g[i] = Step(g, i)
    <3> SUFFICES ASSUME NEW i \in 0 .. n PROVE g[i] = Step(g, i)
      OBVIOUS
    <3>1. i # 0 => i - 1 \in 0 .. n /\ i - 1 # n
      BY <2>4
    <3>2. i # 0 => g[i - 1] = f[i - 1]
      BY <2>6, <3>1
    <3>3. CASE i = n
      BY <2>3, <2>6, <3>2, <3>3
    <3>4. CASE i # n
      <4>1. i \in 0 .. n - 1
        BY <2>4, <3>4
      <4>2. f[i] = Step(f, i)
        BY <2>5, <4>1
      <4>3. g[i] = f[i]
        BY <2>6, <3>4
      <4>4. QED
        BY <3>2, <4>2, <4>3
    <3>5. QED
      BY <3>3, <3>4
  <2>8. UpTo(g, n)
    <3>1. g = [i \in 0 .. n |-> g[i]]
      BY <2>6
    <3>2. QED
      BY <2>7, <3>1
  <2>9. QED
    BY <2>2, <2>8
<1>3. PICK after : after = CHOOSE f : UpTo(f, L)
  OBVIOUS
<1>4. UpTo(after, L)
  <2>1. \E f : UpTo(f, L)
    BY <1>1, <1>2
  <2> HIDE DEF UpTo
  <2>2. QED
    BY <1>3, <2>1
<1>5. Joined(c, map, keys) = after[L]
  BY <1>3 DEF Joined
<1>6. \A n \in 0 .. L : JoinedTo(c, keys, n, after[n])
  <2> DEFINE T == {n \in 0 .. L : ~ JoinedTo(c, keys, n, after[n])}
  <2>1. SUFFICES ASSUME T # {} PROVE FALSE
    OBVIOUS
  <2>2. PICK n \in T : \A y \in T : n <= y
    <3>1. T \subseteq Nat
      BY <1>1
    <3> HIDE DEF T
    <3>2. QED
      BY <2>1, <3>1, LeastOf
  <2>3. after[n] = Step(after, n)
    BY <1>4, <2>2
  <2>4. CASE n = 0
    <3>1. after[0] = start
      BY <2>3, <2>4
    <3>2. /\ map \in Seq(Entry) /\ KeysDiffer(map) /\ Len(map) <= settings.max
          /\ <<>> \in Seq(Write) /\ Len(<<>>) = 0
      BY DEF Inv, TypeOK, Inductive, MapOK, Entry
    <3>3. JoinedTo(c, keys, 0, start)
      BY <3>2 DEF JoinedTo
    <3>4. QED
      BY <2>2, <2>4, <3>1, <3>3
  <2>5. CASE n # 0
    <3>1. n \in Nat /\ n - 1 \in Nat /\ n - 1 < L /\ n - 1 \in 0 .. L /\ n - 1 \notin T /\ (n - 1) + 1 = n
      BY <1>1, <2>2, <2>5
    <3>2. PICK s : s = after[n - 1]
      OBVIOUS
    <3>3. JoinedTo(c, keys, n - 1, s)
      BY <3>1, <3>2
    <3>4. JoinedTo(c, keys, (n - 1) + 1, TouchedOrOwn(c, s, keys[(n - 1) + 1]))
      BY <3>1, <3>3, JoinOne
    <3>5. after[n] = TouchedOrOwn(c, s, keys[n])
      BY <2>3, <2>5, <3>2
    <3>6. JoinedTo(c, keys, n, after[n])
      BY <3>1, <3>4, <3>5
    <3>7. QED
      BY <2>2, <3>6
  <2>6. QED
    BY <2>4, <2>5
<1>7. QED
  BY <1>1, <1>5, <1>6

\* Where nothing is shared every future is the call's own.
LEMMA JoinNone ==
    ASSUME Inv, NEW c \in Call, NEW keys \in Seq(Key), ~rules.shared
    PROVE  JoinedTo(c, keys, Len(keys), Fresh(c, map, keys))
<1>1. DOMAIN keys = 1 .. Len(keys) /\ Len(keys) \in Nat
  BY LenProperties
<1> DEFINE src == [i \in DOMAIN keys |-> <<c, i>>]
<1>2. Fresh(c, map, keys) = [map |-> map, src |-> src]
  BY DEF Fresh
<1>3. src = [i \in 1 .. Len(keys) |-> <<c, i>>] /\ \A i \in 1 .. Len(keys) : <<c, i>> \in Write
  BY <1>1 DEF Write
<1>4. src \in Seq(Write)
  BY <1>1, <1>3, IsASeq
<1>5. Len(src) = Len(keys)
  BY <1>1, <1>3, <1>4, LenProperties
<1>6. \A i \in 1 .. Len(keys) : SourceOf(c, keys, src, i)
  BY <1>3 DEF SourceOf
<1>7. map \in Seq(Entry) /\ KeysDiffer(map) /\ Len(map) <= settings.max
  BY DEF Inv, TypeOK, Inductive, MapOK, Entry
<1> HIDE DEF src
<1>8. JoinedTo(c, keys, Len(keys), [map |-> map, src |-> src])
  BY <1>4, <1>5, <1>6, <1>7 DEF JoinedTo
<1>9. QED
  BY <1>2, <1>8

\* What a call may ask of getProofs(): the slots of its target, none if there is
\* nothing in them, or a code hash in the place of an account.
Asking(a, t, slots) ==
    /\ a \in Asks
    /\ a.op = "isContract" /\ Is("zksync") => t = CodeHash /\ slots = <<a.target>>
    /\ ~(a.op = "isContract" /\ Is("zksync")) =>
        /\ t = a.target
        /\ \/ slots = a.slots
           \/ a.op = "proveNeed" /\ ~Is("zksync") /\ slots = <<>> /\ t \notin rules.proven

\* The batches of a finite number of proofs are numbered.
LEMMA BatchesNumbered ==
    ASSUME NEW n \in Nat, settings.batch \in Nat, settings.batch > 0
    PROVE  Batches(n) \subseteq Nat
<1>1. (n + settings.batch - 1) \div settings.batch \in Int
  OBVIOUS
<1>2. QED
  BY <1>1 DEF Batches

\* A subset of the places of a sequence is finite.
LEMMA PlacesFinite ==
    ASSUME NEW S, NEW s \in Seq(S), NEW T \in SUBSET (DOMAIN s)
    PROVE  IsFiniteSet(T) /\ Cardinality(T) \in Nat /\ T \subseteq Nat
<1>1. DOMAIN s = 1 .. Len(s) /\ Len(s) \in Nat
  BY LenProperties
<1>2. IsFiniteSet(1 .. Len(s))
  BY <1>1, FS_Interval
<1>3. IsFiniteSet(T)
  BY <1>1, <1>2, FS_Subset
<1>4. QED
  BY <1>1, <1>3, FS_CardinalityType

\* A call of getProofs(), up to its await.
LEMMA Getting ==
    ASSUME Inv, NEW c \in Call, call[c].src = <<>>, call[c].blocker = "none",
           call[c].read = "none", NEW r \in CallRecord, r.blocker = "none",
           r.shorts # {} => settings.short /\ trouble > 0, r.read = "none", NEW t \in Target, NEW slots \in Seq(Slot \cup Target),
           \A i \in DOMAIN slots : <<t, slots[i]>> \in Key, Asking(r.ask, t, slots),
           r.ask.op = "getStorage" => Is("zksync") \/ ~settings.fast,
           GetProofs(c, r, t, slots)
    PROVE  Inv'
<1>1. /\ call \in [Call -> CallRecord] /\ map \in Seq(Entry) /\ trouble \in 0 .. MaxTrouble
      /\ settings \in Settings /\ rules = RulesOf(settings.kind) /\ MapOK /\ HeldOK /\ told \subseteq Write
      /\ unread \subseteq Key /\ (unread # {} => trouble > 0) /\ MaxTrouble \in Nat
  BY ProverAssumption DEF Inv, TypeOK, Inductive, Entry
<1>2. /\ settings.max \in Nat /\ settings.batch \in Nat /\ settings.batch > 0
      /\ FirstSlot \in {1, 2} /\ (rules.accounts <=> FirstSlot = 2)
  BY <1>1, RulesKnown DEF FirstSlot
<1>3. PICK keys : keys = ProofKeys(t, slots)
  OBVIOUS
<1>4. keys \in Seq(Key) /\ Len(keys) \in Nat /\ DOMAIN keys = 1 .. Len(keys)
  BY <1>2, <1>3, ProofKeysTyped, LenProperties
<1>5. PICK join :
        /\ join = IF rules.shared THEN Joined(c, map, keys) ELSE Fresh(c, map, keys)
        /\ LET lack == \E i \in DOMAIN join.src : IsMissing(c, join.src, i)
               miss == Missing(c, join.src)
               new  == [r EXCEPT !.target = t, !.slots = slots, !.on = None,
                                 !.keys = keys, !.src = join.src, !.miss = miss]
           IN  /\ map' = join.map
               /\ Goes(c, IF lack THEN [new EXCEPT !.pc = "fetch", !.blocker = "waiting",
                                                   !.todo = Batches(Cardinality(miss))]
                          ELSE [new EXCEPT !.pc = "gather"])
               /\ UNCHANGED <<settings, rules, told, unread, trouble>>
  BY <1>3 DEF GetProofs
<1>6. JoinedTo(c, keys, Len(keys), join)
  BY <1>4, <1>5, JoinAll, JoinNone
<1>7. PICK src : src = join.src
  OBVIOUS
<1>8. PICK lack \in BOOLEAN : lack <=> \E i \in DOMAIN src : src[i] = <<c, i>>
  OBVIOUS
<1>9. PICK miss : miss = Missing(c, src)
  OBVIOUS
<1>10. PICK todo : todo = IF lack THEN Batches(Cardinality(miss)) ELSE r.todo
  OBVIOUS
<1>11. PICK new : new = [r EXCEPT !.target = t, !.slots = slots, !.on = None,
                                  !.keys = keys, !.src = src, !.miss = miss,
                                  !.pc = IF lack THEN "fetch" ELSE "gather",
                                  !.blocker = IF lack THEN "waiting" ELSE r.blocker, !.todo = todo]
  OBVIOUS
<1>12. r \in [pc : {"idle", "account", "slot", "need", "fetch", "gather", "fast", "ok", "failed"},
     ask : Asks \cup {None}, target : Target, slots : Seq(Slot \cup Target),
     on : {None} \cup Write, awaits : {None} \cup (Call \X Key),
     keys : Seq(Key), src : Seq(Write), miss : SUBSET Nat, todo : SUBSET Nat, shorts : SUBSET Nat,
     blocker : {"none", "waiting", "resolved", "rejected"}, got : Seq(Key \cup {Null}),
     read : {"none", "out", "ok", "err"}, out : Seq(Key) \cup Seq(Target \cup Slot)]
  BY DEF CallRecord
<1>13. /\ call' = [call EXCEPT ![c] = new] /\ map' = join.map
       /\ UNCHANGED <<settings, rules, told, unread, trouble>>
  <2>1. CASE lack
    <3>1. new = [[r EXCEPT !.target = t, !.slots = slots, !.on = None,
                           !.keys = keys, !.src = src, !.miss = miss]
                    EXCEPT !.pc = "fetch", !.blocker = "waiting", !.todo = Batches(Cardinality(miss))]
      BY <1>10, <1>11, <1>12, <2>1
    <3>2. QED
      BY <1>5, <1>7, <1>8, <1>9, <2>1, <3>1 DEF Goes, IsMissing
  <2>2. CASE ~lack
    <3>1. new = [[r EXCEPT !.target = t, !.slots = slots, !.on = None,
                           !.keys = keys, !.src = src, !.miss = miss] EXCEPT !.pc = "gather"]
      BY <1>10, <1>11, <1>12, <2>2
    <3>2. QED
      BY <1>5, <1>7, <1>8, <1>9, <2>2, <3>1 DEF Goes, IsMissing
  <2>3. QED
    BY <2>1, <2>2
<1>14. /\ src \in Seq(Write) /\ Len(src) = Len(keys) /\ DOMAIN src = 1 .. Len(keys)
       /\ \A i \in 1 .. Len(keys) : SourceOf(c, keys, src, i)
  BY <1>6, <1>7, LenProperties DEF JoinedTo
<1>15. miss \subseteq Nat /\ Cardinality(miss) \in Nat
  BY <1>9, <1>14, PlacesFinite DEF Missing
<1>16. todo \subseteq Nat
  BY <1>2, <1>10, <1>12, <1>15, BatchesNumbered
<1>17. new \in CallRecord
  <2>1. PICK asks : asks = [r EXCEPT !.target = t, !.slots = slots, !.on = None, !.keys = keys, !.src = src]
    OBVIOUS
  <2>2. t \in Target /\ slots \in Seq(Slot \cup Target) /\ None \in {None} \cup Write
    OBVIOUS
  <2>3. asks \in CallRecord
    BY ONLY <1>4, <1>12, <1>14, <2>1, <2>2, ZenonT(90) DEF CallRecord
  <2>4. miss \in SUBSET Nat /\ todo \in SUBSET Nat
    BY <1>15, <1>16
  <2>5. CASE lack
    <3>1. new = [asks EXCEPT !.miss = miss, !.pc = "fetch", !.blocker = "waiting", !.todo = todo]
      BY <1>11, <1>12, <2>1, <2>5
    <3>2. QED
      BY ONLY <2>3, <2>4, <3>1, ZenonT(90) DEF CallRecord
  <2>6. CASE ~lack
    <3>1. new = [asks EXCEPT !.miss = miss, !.pc = "gather", !.todo = todo]
      BY <1>11, <1>12, <2>1, <2>6
    <3>2. QED
      BY ONLY <2>3, <2>4, <3>1, ZenonT(90) DEF CallRecord
  <2>7. QED
    BY <2>5, <2>6
<1>18. /\ new.ask = r.ask /\ new.target = t /\ new.slots = slots /\ new.keys = keys
       /\ new.src = src /\ new.miss = miss /\ new.shorts = r.shorts /\ new.read = "none"
       /\ new.pc = (IF lack THEN "fetch" ELSE "gather")
       /\ new.blocker = (IF lack THEN "waiting" ELSE "none")
  BY <1>11, <1>12
<1>19. call'[c] = new /\ call' \in [Call -> CallRecord] /\ \A d \in Call : d # c => call'[d] = call[d]
  BY <1>1, <1>13, <1>17
<1>20. \A w, k : FutureOf(w, k) => FutureOf(w, k)'
  BY <1>1, <1>13, FutureStays DEF KeepsFutures
<1>21. ASSUME NEW i \in 1 .. Len(keys), src[i] = <<c, i>>
       PROVE  \A w, k : w = <<c, i>> /\ k = keys[i] => FutureOf(w, k)'
  <2> SUFFICES ASSUME NEW w, NEW k, w = <<c, i>>, k = keys[i] PROVE FutureOf(w, k)'
    OBVIOUS
  <2>1. w[1] = c /\ w[2] = i
    OBVIOUS
  <2>2. lack /\ i \in DOMAIN src
    BY <1>8, <1>14, <1>21
  <2>3. /\ call'[c].src = src /\ call'[c].keys = keys /\ call'[c].blocker = "waiting"
    BY <1>18, <1>19, <2>2
  <2>4. QED
    BY <1>21, <2>1, <2>2, <2>3 DEF FutureOf
<1>22. \A i \in 1 .. Len(keys) : \A w, k : w = src[i] /\ k = keys[i] => FutureOf(w, k)'
  <2> SUFFICES ASSUME NEW i \in 1 .. Len(keys), NEW w, NEW k, w = src[i], k = keys[i]
               PROVE  FutureOf(w, k)'
    OBVIOUS
  <2>1. CASE src[i] = <<c, i>>
    BY <1>21, <2>1
  <2>2. CASE FutureOf(src[i], keys[i])
    BY <1>20, <2>2
  <2>3. CASE \E h \in 1 .. i - 1 : src[i] = <<c, h>> /\ src[h] = <<c, h>> /\ keys[h] = keys[i]
    <3>1. PICK h \in 1 .. i - 1 : src[i] = <<c, h>> /\ src[h] = <<c, h>> /\ keys[h] = keys[i]
      BY <2>3
    <3>2. h \in 1 .. Len(keys)
      BY <1>4
    <3>3. QED
      BY <1>21, <3>1, <3>2
  <2>4. QED
    BY <1>14, <2>1, <2>2, <2>3 DEF SourceOf
<1> DEFINE OldOrOwn(j) ==
        \/ \E x \in DOMAIN map : map'[j] = map[x]
        \/ \E h \in 1 .. Len(keys) : src[h] = <<c, h>> /\ map'[j] = Own(c, keys, h)
<1>23. /\ map' \in Seq(Entry) /\ KeysDiffer(map') /\ Len(map') <= settings.max
       /\ \A j \in DOMAIN map' : OldOrOwn(j)
       /\ rules.shared /\ Roomy =>
            /\ \A x \in DOMAIN map : \E j \in DOMAIN map' : map'[j] = map[x]
            /\ \A h \in 1 .. Len(keys) : src[h] = <<c, h>> =>
                    \E j \in DOMAIN map' : map'[j] = Own(c, keys, h)
  BY <1>6, <1>7, <1>13 DEF JoinedTo
<1>24. TypeOK'
  BY <1>1, <1>13, <1>19, <1>23 DEF TypeOK, Entry
<1>25. MapOK'
  <2>1. KeysDiffer(map') /\ Len(map') <= settings'.max
    BY <1>13, <1>23
  <2>2. ASSUME NEW j \in DOMAIN map'
        PROVE  /\ \A w, k : w = map'[j].from /\ k = map'[j].key => FutureOf(w, k)'
               /\ map'[j].pending <=> map'[j].from \notin told
               /\ map'[j].from \in told => ~Rejected(map[j].from)'
    <3>1. CASE \E x \in DOMAIN map : map'[j] = map[x]
      <4>1. PICK x \in DOMAIN map : map'[j] = map[x]
        BY <3>1
      <4>2. PICK w, k : w = map[x].from /\ k = map[x].key
        OBVIOUS
      <4>3. /\ FutureOf(w, k)
            /\ map[x].pending <=> w \notin told
            /\ w \in told => ~Rejected(w)
        BY <1>1, <4>2 DEF MapOK
      <4>4. w[1] \in Call /\ w[1] # c
        BY <4>3 DEF FutureOf
      <4>5. w \in told => call'[w[1]].blocker # "rejected"
        BY <1>19, <4>3, <4>4 DEF Rejected
      <4>6. FutureOf(w, k)'
        BY <1>20, <4>3
      <4>7. QED
        BY <4>1, <4>2, <4>3, <4>5, <4>6 DEF Rejected
    <3>2. CASE \E h \in 1 .. Len(keys) : src[h] = <<c, h>> /\ map'[j] = Own(c, keys, h)
      <4>1. PICK h \in 1 .. Len(keys) : src[h] = <<c, h>> /\ map'[j] = Own(c, keys, h)
        BY <3>2
      <4>2. PICK w, k : w = <<c, h>> /\ k = keys[h]
        OBVIOUS
      <4>3. map'[j].from = w /\ map'[j].key = k /\ map'[j].pending
        BY <4>1, <4>2 DEF Own
      <4>4. FutureOf(w, k)'
        BY <1>21, <4>1, <4>2
      <4>5. w \notin told
        BY <1>1, <4>2 DEF MapOK
      <4>6. QED
        BY <4>3, <4>4, <4>5
    <3>3. QED
      BY <1>23, <3>1, <3>2
  <2>3. \A w \in told : w[1] \in Call /\ call'[w[1]].blocker \in {"resolved", "rejected"}
    <3>1. \A w \in told : /\ w[1] \in Call /\ w[1] # c
                          /\ call[w[1]].blocker \in {"resolved", "rejected"}
      BY <1>1 DEF MapOK
    <3>2. QED
      BY <1>19, <3>1
  <2>4. \A j \in DOMAIN map' : FutureOf(map[j].from, map[j].key)'
    BY <2>2 DEF FutureOf
  <2>5. QED
    BY <1>13, <2>1, <2>2, <2>3, <2>4 DEF MapOK
<1>26. HeldOK'
  <2> SUFFICES ASSUME rules.shared, Roomy, NEW d \in Call,
                      call'[d].blocker \in {"waiting", "resolved"},
                      NEW i \in DOMAIN call'[d].src, call'[d].src[i] = <<d, i>>
               PROVE  \E j \in DOMAIN map' : map'[j].key = call'[d].keys[i] /\ map'[j].from = <<d, i>>
    BY <1>13 DEF HeldOK, Roomy
  <2>1. CASE d = c
    <3>1. i \in 1 .. Len(keys) /\ src[i] = <<c, i>> /\ call'[d].keys[i] = keys[i]
      BY <1>14, <1>18, <1>19, <2>1
    <3>2. PICK j \in DOMAIN map' : map'[j] = Own(c, keys, i)
      BY <1>23, <3>1
    <3>3. QED
      BY <2>1, <3>1, <3>2 DEF Own
  <2>2. CASE d # c
    <3>1. /\ call'[d] = call[d] /\ call[d].blocker \in {"waiting", "resolved"}
          /\ i \in DOMAIN call[d].src /\ call[d].src[i] = <<d, i>>
      BY <1>19, <2>2
    <3>2. PICK x \in DOMAIN map : map[x].key = call[d].keys[i] /\ map[x].from = <<d, i>>
      BY <1>1, <3>1 DEF HeldOK
    <3>3. PICK j \in DOMAIN map' : map'[j] = map[x]
      BY <1>23
    <3>4. QED
      BY <3>1, <3>2, <3>3
  <2>3. QED
    BY <2>1, <2>2
<1>27. CallOK(c)'
  <2>1. QuestionOK(c)'
    BY <1>13, <1>18, <1>19 DEF QuestionOK, IsByHash, Is, Asking
  <2>2. SourcesOK(c)'
    <3>1. /\ FirstSlot' = FirstSlot /\ keys = ProofKeys(t, slots)' /\ miss = Missing(c, src)'
      BY <1>3, <1>9, <1>13 DEF FirstSlot, ProofKeys, Missing
    <3>2. \A i \in DOMAIN call'[c].src : FutureOf(call[c].src[i], call[c].keys[i])'
      BY <1>14, <1>18, <1>19, <1>22 DEF FutureOf
    <3>3. \A i \in DOMAIN src : src[i] = <<c, i>> => lack
      BY <1>8
    <3>4. ProofKeys(call[c].target, call[c].slots)' = keys /\ Missing(c, call[c].src)' = miss
      BY <1>18, <1>19, <3>1 DEF ProofKeys, Missing
    <3>5. QED
      BY <1>14, <1>18, <1>19, <3>1, <3>2, <3>3, <3>4 DEF SourcesOK
  <2>3. TroubleOK(c)' /\ ReadsOK(c)' /\ OutOK(c)'
    BY <1>13, <1>18, <1>19 DEF TroubleOK, ReadsOK, OutOK
  <2>4. AwaitsOK(c)'
    BY <1>13, <1>18, <1>19 DEF AwaitsOK, Is
  <2>5. QED
    BY <2>1, <2>2, <2>3, <2>4 DEF CallOK
<1>28. \A d \in Call : CallOK(d)'
  <2>1. /\ KeepsFutures(c, new) /\ trouble \in Nat /\ trouble' \in Nat /\ trouble <= trouble'
    BY <1>1, <1>13 DEF KeepsFutures
  <2>2. \A d \in Call : d # c => CallOK(d)'
    BY <1>1, <1>13, <2>1, OthersStay
  <2>3. QED
    BY <1>27, <2>2
<1>29. QED
  BY <1>1, <1>13, <1>24, <1>25, <1>26, <1>28 DEF Inv, Inductive

----------------------------------------------------------------------------
(* The node's answers. *)

\* Places are counted from one, and a later number has a later place.
LEMMA PlacesOrdered ==
    ASSUME NEW S \in SUBSET Nat, IsFiniteSet(S), NEW x \in S
    PROVE  /\ Place(S, x) \in 1 .. Cardinality(S)
           /\ \A y \in S : x < y => Place(S, x) < Place(S, y)
           /\ \A T \in SUBSET S : (\A y \in T : y < x) => Cardinality(T) < Place(S, x)
<1> DEFINE upTo(z) == {y \in S : y <= z}
<1>1. \A T \in SUBSET S : IsFiniteSet(T) /\ Cardinality(T) \in Nat /\ Cardinality(T) <= Cardinality(S)
  BY FS_Subset, FS_CardinalityType
<1>2. \A z \in S : IsFiniteSet(upTo(z)) /\ Cardinality(upTo(z)) \in Nat /\ Place(S, z) = Cardinality(upTo(z))
  BY <1>1 DEF Place
<1>3. \A T \in SUBSET S : (\A y \in T : y < x) => Cardinality(T) < Place(S, x)
  <2> SUFFICES ASSUME NEW T \in SUBSET S, \A y \in T : y < x PROVE Cardinality(T) < Place(S, x)
    OBVIOUS
  <2>1. T \cup {x} \subseteq upTo(x) /\ x \notin T
    OBVIOUS
  <2>2. Cardinality(T \cup {x}) = Cardinality(T) + 1
    BY <1>1, <2>1, FS_AddElement
  <2>3. Cardinality(T \cup {x}) <= Cardinality(upTo(x))
    <3> HIDE DEF upTo
    <3>1. QED
      BY <1>2, <2>1, FS_Subset
  <2>4. QED
    BY <1>1, <1>2, <2>2, <2>3
<1>4. ASSUME NEW y \in S, x < y PROVE Place(S, x) < Place(S, y)
  <2>0. x \in Nat /\ y \in Nat /\ x < y /\ \A z \in S : z \in Nat
    BY <1>4
  <2>1. upTo(x) \cup {y} \subseteq upTo(y) /\ y \notin upTo(x)
    <3>1. \A z \in upTo(x) : z \in S /\ z <= y
      BY <2>0
    <3>2. y \in upTo(y)
      BY <2>0
    <3>3. y \notin upTo(x)
      BY <2>0
    <3>4. QED
      BY <3>1, <3>2, <3>3
  <2>2. Cardinality(upTo(x) \cup {y}) = Cardinality(upTo(x)) + 1
    <3> HIDE DEF upTo
    <3>1. QED
      BY <1>2, <2>1, FS_AddElement
  <2>3. Cardinality(upTo(x) \cup {y}) <= Cardinality(upTo(y))
    <3> HIDE DEF upTo
    <3>1. QED
      BY <1>2, <2>1, FS_Subset
  <2> HIDE DEF upTo
  <2>4. QED
    BY <1>2, <2>2, <2>3
<1>5. 0 < Place(S, x)
  <2>1. Cardinality({}) < Place(S, x)
    BY <1>3
  <2>2. QED
    BY <2>1, FS_EmptySet
<1>6. Place(S, x) <= Cardinality(S) /\ Place(S, x) \in Nat
  BY <1>1 DEF Place
<1>7. Cardinality(S) \in Nat
  BY FS_CardinalityType
<1>8. QED
  BY <1>3, <1>4, <1>5, <1>6, <1>7

\* The first ones of a set have the same places among themselves.
LEMMA PlacesOfFirst ==
    ASSUME NEW S \in SUBSET Nat, IsFiniteSet(S), NEW T \in SUBSET S,
           \A x \in T, y \in S : y <= x => y \in T
    PROVE  /\ \A x \in T : Place(T, x) = Place(S, x)
           /\ \A x \in S : Place(S, x) \in 1 .. Cardinality(T) => x \in T
           /\ \A x \in T : Place(S, x) \in 1 .. Cardinality(T)
           /\ \A x \in T : (CHOOSE y \in T : Place(T, y) = Place(S, x)) = x
<1>1. IsFiniteSet(T) /\ T \in SUBSET Nat /\ Cardinality(T) \in Nat
  BY FS_Subset, FS_CardinalityType
<1>2. \A x \in T : Place(T, x) = Place(S, x)
  <2> SUFFICES ASSUME NEW x \in T PROVE {y \in T : y <= x} = {y \in S : y <= x}
    BY DEF Place
  <2>1. QED
    OBVIOUS
<1>3. \A x \in T : Place(T, x) \in 1 .. Cardinality(T)
  BY <1>1, PlacesOrdered
<1>4. ASSUME NEW x \in S, Place(S, x) \in 1 .. Cardinality(T), x \notin T PROVE FALSE
  <2>1. \A y \in T : y < x
    BY <1>4
  <2>2. Cardinality(T) < Place(S, x)
    BY <2>1, PlacesOrdered
  <2>3. QED
    BY <1>1, <1>4, <2>2
<1>5. ASSUME NEW x \in T PROVE (CHOOSE y \in T : Place(T, y) = Place(S, x)) = x
  <2> DEFINE z == CHOOSE y \in T : Place(T, y) = Place(S, x)
  <2>1. z \in T /\ Place(T, z) = Place(T, x)
    BY <1>2
  <2> HIDE DEF z
  <2>2. ~(z < x) /\ ~(x < z)
    <3>1. z < x => Place(T, z) < Place(T, x)
      BY <1>1, <2>1, PlacesOrdered
    <3>2. x < z => Place(T, x) < Place(T, z)
      BY <1>1, <2>1, PlacesOrdered
    <3>3. Place(T, x) \in Nat
      BY <1>3, <1>1
    <3>4. QED
      BY <2>1, <3>1, <3>2, <3>3
  <2>3. z = x
    BY <1>1, <2>1, <2>2
  <2>4. QED
    BY <2>3 DEF z
<1>6. QED
  BY <1>2, <1>3, <1>4, <1>5

\* A short answer lacks the last of all proofs asked for: with "short" there is
\* one batch.
LEMMA AnsweredFirst ==
    ASSUME NEW c, NEW shorts, NEW miss \in SUBSET Nat, call[c].miss = miss, IsFiniteSet(miss),
           settings.batch \in Nat, settings.batch > 0,
           shorts # {} => Cardinality(miss) <= settings.batch
    PROVE  /\ Answered(c, shorts) \subseteq miss
           /\ \A x \in Answered(c, shorts), y \in miss : y <= x => y \in Answered(c, shorts)
           /\ shorts = {} => Answered(c, shorts) = miss
<1>1. Answered(c, shorts) = {x \in miss : ~(BatchOf(c, x) \in shorts /\ IsLast(c, x))}
  BY DEF Answered
<1>2. ASSUME NEW x \in Answered(c, shorts), NEW y \in miss, y <= x, y \notin Answered(c, shorts)
      PROVE  FALSE
  <2>1. x \in miss /\ x # y /\ y < x
    BY <1>1, <1>2
  <2>2. BatchOf(c, y) \in shorts /\ IsLast(c, y)
    BY <1>1, <1>2
  <2>3. /\ Place(miss, x) \in 1 .. Cardinality(miss) /\ Place(miss, y) \in 1 .. Cardinality(miss)
        /\ Place(miss, y) < Place(miss, x)
    BY <2>1, PlacesOrdered
  <2>4. Cardinality(miss) \in Nat /\ Cardinality(miss) <= settings.batch
    BY <2>2, FS_CardinalityType
  <2>5. Place(miss, y) % settings.batch = 0 \/ Place(miss, y) = Cardinality(miss)
    BY <2>2 DEF IsLast
  <2>6. QED
    BY <2>3, <2>4, <2>5
<1>3. QED
  BY <1>1, <1>2

\* Each missing proof is filled in with its own, or with none if the node has none
\* or its answer was short.
LEMMA FilledFits ==
    ASSUME Inv, NEW c \in Call, call[c].pc = "fetch", NEW shorts,
           shorts # {} => settings.short, NEW v, v = Fetched(c, shorts)
    PROVE  /\ Filled(c, v) \in Seq(Key \cup {Null}) /\ Len(Filled(c, v)) = Len(call[c].src)
           /\ \A i \in DOMAIN call[c].src : i < FirstSlot \/ call[c].src[i] = <<c, i>> =>
                \/ Filled(c, v)[i] = call[c].keys[i]
                \/ /\ Filled(c, v)[i] = Null
                   /\ call[c].keys[i][1] \notin rules.answers \/ shorts # {}
<1>1. /\ call[c] \in CallRecord /\ SourcesOK(c) /\ QuestionOK(c) /\ settings \in Settings
      /\ rules = RulesOf(settings.kind)
  BY DEF Inv, TypeOK, Inductive, CallOK
<1>2. PICK t, slots, keys, src, miss :
        /\ t = call[c].target /\ slots = call[c].slots /\ keys = call[c].keys /\ src = call[c].src
        /\ miss = call[c].miss
  OBVIOUS
<1>3. /\ t \in Target /\ slots \in Seq(Slot \cup Target) /\ src \in Seq(Write) /\ keys \in Seq(Key)
      /\ Len(keys) = Len(src) /\ keys = ProofKeys(t, slots) /\ miss = Missing(c, src)
  BY <1>1, <1>2 DEF CallRecord, SourcesOK
<1>4. /\ FirstSlot \in {1, 2} /\ (rules.accounts <=> FirstSlot = 2)
      /\ settings.batch \in Nat /\ settings.batch > 0
  BY <1>1, RulesKnown DEF FirstSlot
<1>5. \A i \in DOMAIN slots : <<t, slots[i]>> \in Key
  BY <1>2, SlotsTyped
<1>6. /\ Len(keys) = Len(slots) + FirstSlot - 1
      /\ \A i \in 1 .. FirstSlot - 1 : keys[i] = <<t>>
      /\ \A i \in 1 .. Len(slots) : keys[FirstSlot + i - 1] = <<t, slots[i]>>
  <2>1. /\ Len(ProofKeys(t, slots)) = Len(slots) + FirstSlot - 1
        /\ \A i \in 1 .. FirstSlot - 1 : ProofKeys(t, slots)[i] = <<t>>
        /\ \A i \in 1 .. Len(slots) : ProofKeys(t, slots)[FirstSlot + i - 1] = <<t, slots[i]>>
    <3>1. t \in Target /\ slots \in Seq(Slot \cup Target)
      BY <1>3
    <3>2. QED
      BY ONLY <1>4, <1>5, <3>1, ProofKeysTyped
  <2>2. QED
    BY <1>3, <2>1
<1>7. /\ DOMAIN src = 1 .. Len(keys) /\ DOMAIN keys = 1 .. Len(keys) /\ Len(keys) \in Nat
      /\ Len(slots) \in Nat
  BY <1>3, LenProperties
<1>8. \A i \in DOMAIN src : keys[i] \in Key /\ keys[i][1] = t
  <2> SUFFICES ASSUME NEW i \in DOMAIN src PROVE keys[i] \in Key /\ keys[i][1] = t
    OBVIOUS
  <2>1. keys[i] \in Key
    BY <1>3, <1>7, ElementOfSeq
  <2>2. CASE i < FirstSlot
    <3>1. i \in 1 .. FirstSlot - 1
      BY <1>4, <1>7, <2>2
    <3>2. QED
      BY <1>3, <1>6, <2>1, <3>1, KeysTyped
  <2>3. CASE ~(i < FirstSlot)
    <3>1. i - FirstSlot + 1 \in 1 .. Len(slots) /\ FirstSlot + (i - FirstSlot + 1) - 1 = i
      BY <1>4, <1>6, <1>7, <2>3
    <3>2. keys[i] = <<t, slots[i - FirstSlot + 1]>>
      BY <1>6, <3>1
    <3>3. QED
      BY <2>1, <3>2
  <2>4. QED
    BY <2>2, <2>3
<1>9. /\ miss \subseteq DOMAIN src /\ miss \subseteq Nat /\ IsFiniteSet(miss) /\ Cardinality(miss) \in Nat
      /\ \A i \in DOMAIN src : i \in miss <=> i >= FirstSlot /\ src[i] = <<c, i>>
  BY <1>3, PlacesFinite DEF Missing, IsMissing
<1>10. shorts # {} => Cardinality(miss) <= settings.batch
  <2> SUFFICES ASSUME shorts # {} PROVE Cardinality(miss) <= settings.batch
    OBVIOUS
  <2>1. Cardinality(miss) <= Len(slots)
    <3> DEFINE places == FirstSlot .. Len(keys)
    <3>1. miss \subseteq places
      BY <1>4, <1>7, <1>9
    <3>2. IsFiniteSet(places) /\ Cardinality(places) = Len(slots)
      <4>1. Len(keys) = Len(slots) + FirstSlot - 1
        BY <1>6
      <4>2. FirstSlot \in Int /\ Len(keys) \in Int
        BY <1>4, <1>7
      <4>3. /\ IsFiniteSet(places)
            /\ Cardinality(places) = IF FirstSlot > Len(keys) THEN 0 ELSE Len(keys) - FirstSlot + 1
        BY <4>2, FS_Interval
      <4>4. QED
        BY <1>4, <1>7, <4>1, <4>3
    <3> HIDE DEF places
    <3>3. QED
      BY <3>1, <3>2, FS_Subset
  <2>2. settings.kind # "zksync" /\ \A a \in Asks : Len(a.slots) <= settings.batch
    BY <1>1, KnownLimits
  <2>3. call[c].ask \in Asks /\ (slots = call[c].ask.slots \/ slots = <<>>)
    BY <1>1, <1>2, <2>2 DEF QuestionOK, IsByHash, Is
  <2>4. Len(slots) <= settings.batch
    BY <1>4, <2>2, <2>3
  <2>5. QED
    BY <1>4, <1>7, <1>9, <2>1, <2>4
<1>11. PICK came : came = Answered(c, shorts)
  OBVIOUS
<1>12. /\ came \subseteq miss /\ \A x \in came, y \in miss : y <= x => y \in came
       /\ shorts = {} => came = miss
  BY <1>2, <1>4, <1>9, <1>10, <1>11, AnsweredFirst
<1>13. /\ \A x \in miss : Place(miss, x) \in 1 .. Cardinality(came) <=> x \in came
       /\ \A x \in came : (CHOOSE y \in came : Place(came, y) = Place(miss, x)) = x
  BY <1>9, <1>12, PlacesOfFirst
<1>14. v = [i \in 1 .. Cardinality(came) |-> ProofOf(c, CHOOSE x \in came : Place(came, x) = i)]
  BY <1>11 DEF Fetched
<1>15. PICK got : got = Filled(c, v)
  OBVIOUS
<1>16. got = [x \in DOMAIN src |->
                IF x < FirstSlot THEN <<t>>
                ELSE IF x \in miss /\ Place(miss, x) \in DOMAIN v THEN v[Place(miss, x)] ELSE Null]
  BY <1>2, <1>15 DEF Filled
<1>17. ASSUME NEW i \in miss
       PROVE  /\ i \in came => got[i] = ProofOf(c, i)
              /\ i \notin came => got[i] = Null
  <2>1. i \in DOMAIN src /\ ~(i < FirstSlot)
    BY <1>4, <1>7, <1>9
  <2>2. DOMAIN v = 1 .. Cardinality(came)
    BY <1>14
  <2>3. CASE i \in came
    <3>1. Place(miss, i) \in DOMAIN v
      BY <1>13, <2>2, <2>3
    <3>2. v[Place(miss, i)] = ProofOf(c, CHOOSE x \in came : Place(came, x) = Place(miss, i))
      BY <1>14, <2>2, <3>1
    <3>3. v[Place(miss, i)] = ProofOf(c, i)
      BY <1>13, <2>3, <3>2
    <3>4. QED
      BY <1>16, <2>1, <2>3, <3>1, <3>3
  <2>4. CASE i \notin came
    BY <1>13, <1>16, <2>1, <2>2, <2>4
  <2>5. QED
    BY <2>3, <2>4
<1>18. ASSUME NEW i \in DOMAIN src
       PROVE  /\ got[i] \in Key \cup {Null}
              /\ i < FirstSlot \/ src[i] = <<c, i>> =>
                    got[i] = keys[i] \/ (got[i] = Null /\ (keys[i][1] \notin rules.answers \/ shorts # {}))
  <2>1. CASE i < FirstSlot
    <3>1. i \in 1 .. FirstSlot - 1
      BY <1>4, <1>7, <2>1
    <3>2. QED
      BY <1>6, <1>8, <1>16, <2>1, <3>1
  <2>2. CASE i \in miss
    <3>1. ProofOf(c, i) = IF t \in rules.answers THEN keys[i] ELSE Null
      BY <1>2 DEF ProofOf
    <3>2. QED
      BY <1>8, <1>12, <1>17, <2>2, <3>1
  <2>3. CASE ~(i < FirstSlot) /\ i \notin miss
    <3>1. got[i] = Null
      BY <1>16, <2>3
    <3>2. src[i] # <<c, i>>
      BY <1>4, <1>7, <1>9, <2>3
    <3>3. QED
      BY <2>3, <3>1, <3>2
  <2>4. QED
    BY <2>1, <2>2, <2>3
<1>19. got \in Seq(Key \cup {Null})
  <2>1. got = [i \in 1 .. Len(keys) |-> got[i]]
    BY <1>7, <1>16
  <2>2. QED
    BY <1>7, <1>18, <2>1, IsASeq
<1>20. Len(got) = Len(src)
  BY <1>3, <1>7, <1>16, <1>19, LenProperties
<1>21. QED
  BY <1>2, <1>15, <1>18, <1>19, <1>20

\* The sources of a call that moves on are still futures of their keys.
LEMMA SourcesStay ==
    ASSUME Inv, NEW c \in Call, NEW new, MovesOn(c, new)
    PROVE  \A i \in DOMAIN call'[c].src : FutureOf(call[c].src[i], call[c].keys[i])'
<1>1. /\ call \in [Call -> CallRecord] /\ call[c] \in CallRecord /\ SourcesOK(c)
      /\ call' = [call EXCEPT ![c] = new] /\ new.src = call[c].src /\ new.keys = call[c].keys
      /\ call'[c] = new
  BY DEF Inv, TypeOK, Inductive, CallOK, MovesOn
<1>2. KeepsFutures(c, new)
  BY <1>1 DEF KeepsFutures, MovesOn
<1>3. \A w, k : FutureOf(w, k) => FutureOf(w, k)'
  BY <1>1, <1>2, FutureStays
<1>4. ASSUME NEW i \in DOMAIN call[c].src
      PROVE  FutureOf(call[c].src[i], call[c].keys[i])'
  <2>1. PICK w, k : w = call[c].src[i] /\ k = call[c].keys[i]
    OBVIOUS
  <2>2. FutureOf(w, k)'
    BY <1>1, <1>3, <2>1 DEF SourcesOK
  <2>3. QED
    BY <1>1, <2>1, <2>2 DEF FutureOf
<1>5. QED
  BY <1>1, <1>4

\* A call that moves on asks the same.
LEMMA QuestionStays ==
    ASSUME Inv, NEW c \in Call, NEW new, call' = [call EXCEPT ![c] = new], call[c].pc # "idle",
           new.ask = call[c].ask, new.target = call[c].target, new.slots = call[c].slots,
           settings' = settings, rules' = rules
    PROVE  QuestionOK(c)'
<1>1. call'[c] = new /\ QuestionOK(c)
  BY DEF Inv, TypeOK, Inductive, CallOK
<1>2. QED
  BY <1>1 DEF QuestionOK, IsByHash, Is

\* Answer(): a batch arrives.
LEMMA AnswerStep ==
    ASSUME Inv, NEW c \in Call, NEW b, Answer(c, b)
    PROVE  Inv'
<1>1. /\ call \in [Call -> CallRecord] /\ call[c] \in CallRecord /\ CallOK(c) /\ trouble \in 0 .. MaxTrouble
      /\ unread \subseteq Key /\ (unread # {} => trouble > 0) /\ MaxTrouble \in Nat
  BY ProverAssumption DEF Inv, TypeOK, Inductive
<1>2. PICK shorts \in {call[c].shorts, call[c].shorts \cup {b}} :
        /\ b \in shorts => settings.short /\ trouble < MaxTrouble /\ call[c].miss # {}
        /\ trouble' = IF b \in shorts THEN trouble + 1 ELSE trouble
        /\ IF call[c].todo # {b}
           THEN Goes(c, [call[c] EXCEPT !.todo = @ \ {b}, !.shorts = shorts])
           ELSE \E v \in {Fetched(c, shorts)} :
                    Goes(c, [call[c] EXCEPT !.pc = "gather", !.blocker = "resolved",
                                !.todo = {}, !.shorts = {}, !.got = Filled(c, v)])
  BY DEF Answer
<1>3. /\ call[c].pc = "fetch" /\ b \in call[c].todo
      /\ UNCHANGED <<settings, rules, map, told, unread>>
  BY DEF Answer
<1>4. /\ trouble' \in 0 .. MaxTrouble /\ trouble <= trouble' /\ (trouble > 0 => trouble' > 0)
  BY <1>1, <1>2
<1>5. shorts # {} => settings.short /\ trouble' > 0
  BY <1>1, <1>2 DEF CallOK, TroubleOK
<1>6. KeepsMap
  BY <1>3, SameMap
<1>7. shorts \subseteq Nat /\ call[c].todo \subseteq Nat
  BY <1>1, <1>2, <1>3 DEF CallRecord
<1>8. /\ call[c].blocker = "waiting" /\ call[c].read = "none"
  BY <1>1, <1>3 DEF CallOK, SourcesOK, ReadsOK
<1>9. CASE call[c].todo # {b}
  <2>1. PICK new : new = [call[c] EXCEPT !.todo = call[c].todo \ {b}, !.shorts = shorts]
    OBVIOUS
  <2>2. call' = [call EXCEPT ![c] = new] /\ call'[c] = new
    <3>1. new = [call[c] EXCEPT !.todo = @ \ {b}, !.shorts = shorts]
      BY <2>1
    <3>2. QED
      BY <1>1, <1>2, <1>9, <3>1 DEF Goes
  <2>3. new \in CallRecord
    BY <1>1, <1>7, <2>1 DEF CallRecord
  <2>4. /\ new.ask = call[c].ask /\ new.target = call[c].target /\ new.slots = call[c].slots
        /\ new.keys = call[c].keys /\ new.src = call[c].src /\ new.miss = call[c].miss
        /\ new.shorts = shorts /\ new.blocker = "waiting" /\ new.got = call[c].got
        /\ new.read = "none" /\ new.pc = "fetch"
    BY <1>1, <1>3, <1>8, <2>1 DEF CallRecord
  <2>5. MovesOn(c, new)
    BY <1>8, <2>2, <2>4 DEF MovesOn
  <2>6. QuestionOK(c)'
    BY <1>3, <2>2, <2>4, QuestionStays
  <2>7. SourcesOK(c)'
    <3>1. \A i \in DOMAIN call'[c].src : FutureOf(call[c].src[i], call[c].keys[i])'
      BY <2>5, SourcesStay
    <3>2. /\ FirstSlot' = FirstSlot /\ ProofKeys(call[c].target, call[c].slots)' = call[c].keys
          /\ Missing(c, call[c].src)' = call[c].miss
      BY <1>1, <1>3, <2>2, <2>4 DEF FirstSlot, ProofKeys, Missing, CallOK, SourcesOK
    <3>3. QED
      BY <1>1, <1>3, <2>2, <2>4, <3>1, <3>2 DEF CallOK, SourcesOK
  <2>8. TroubleOK(c)' /\ ReadsOK(c)' /\ OutOK(c)' /\ AwaitsOK(c)'
    BY <1>1, <1>3, <1>5, <2>2, <2>4 DEF CallOK, TroubleOK, ReadsOK, OutOK, AwaitsOK, Is
  <2>9. QED
    BY <1>1, <1>3, <1>4, <1>6, <2>3, <2>5, <2>6, <2>7, <2>8, Moving DEF CallOK
<1>10. CASE call[c].todo = {b}
  <2>1. PICK v : v = Fetched(c, shorts)
    OBVIOUS
  <2>2. PICK got : got = Filled(c, v)
    OBVIOUS
  <2>3. /\ got \in Seq(Key \cup {Null}) /\ Len(got) = Len(call[c].src)
        /\ \A i \in DOMAIN call[c].src : i < FirstSlot \/ call[c].src[i] = <<c, i>> =>
                \/ got[i] = call[c].keys[i]
                \/ got[i] = Null /\ (call[c].keys[i][1] \notin rules.answers \/ shorts # {})
    BY <1>3, <1>5, <2>1, <2>2, FilledFits
  <2>4. PICK new : new = [call[c] EXCEPT !.pc = "gather", !.blocker = "resolved",
                                !.todo = {}, !.shorts = {}, !.got = got]
    OBVIOUS
  <2>5. call' = [call EXCEPT ![c] = new] /\ call'[c] = new
    BY <1>1, <1>2, <1>10, <2>1, <2>2, <2>4 DEF Goes
  <2>6. new \in CallRecord
    <3>1. call[c] \in CallRecord
      BY <1>1
    <3>2. QED
      BY ONLY <2>3, <2>4, <3>1 DEF CallRecord
  <2>7. /\ new.ask = call[c].ask /\ new.target = call[c].target /\ new.slots = call[c].slots
        /\ new.keys = call[c].keys /\ new.src = call[c].src /\ new.miss = call[c].miss
        /\ new.shorts = {} /\ new.blocker = "resolved" /\ new.got = got
        /\ new.read = "none" /\ new.pc = "gather"
    BY <1>1, <1>8, <2>4 DEF CallRecord
  <2>8. MovesOn(c, new)
    BY <1>8, <2>5, <2>7 DEF MovesOn
  <2>9. QuestionOK(c)'
    BY <1>3, <2>5, <2>7, QuestionStays
  <2>10. SourcesOK(c)'
    <3>1. \A i \in DOMAIN call'[c].src : FutureOf(call[c].src[i], call[c].keys[i])'
      BY <2>8, SourcesStay
    <3>2. /\ FirstSlot' = FirstSlot /\ ProofKeys(call[c].target, call[c].slots)' = call[c].keys
          /\ Missing(c, call[c].src)' = call[c].miss
      BY <1>1, <1>3, <2>5, <2>7 DEF FirstSlot, ProofKeys, Missing, CallOK, SourcesOK
    <3>3. \A i \in DOMAIN call'[c].src : i < FirstSlot \/ call'[c].src[i] = <<c, i>> =>
              Fits(call[c].got[i], call[c].keys[i])'
      BY <1>3, <1>5, <2>3, <2>5, <2>7 DEF Fits
    <3>4. QED
      BY <1>1, <1>3, <2>3, <2>5, <2>7, <3>1, <3>2, <3>3 DEF CallOK, SourcesOK
  <2>11. TroubleOK(c)' /\ ReadsOK(c)' /\ OutOK(c)'
    BY <2>5, <2>7 DEF TroubleOK, ReadsOK, OutOK
  <2>12. AwaitsOK(c)'
    BY <1>1, <1>3, <2>5, <2>7 DEF CallOK, AwaitsOK, Is
  <2>13. QED
    BY <1>1, <1>3, <1>4, <1>6, <2>6, <2>8, <2>9, <2>10, <2>11, <2>12, Moving DEF CallOK
<1>11. QED
  BY <1>9, <1>10

\* Fail(): a request fails.
LEMMA FailStep ==
    ASSUME Inv, NEW c \in Call, Fail(c)
    PROVE  Inv'
<1>1. /\ call \in [Call -> CallRecord] /\ call[c] \in CallRecord /\ CallOK(c) /\ trouble \in 0 .. MaxTrouble
      /\ unread \subseteq Key /\ MaxTrouble \in Nat
  BY ProverAssumption DEF Inv, TypeOK, Inductive
<1>2. /\ call[c].pc = "fetch" /\ trouble < MaxTrouble /\ trouble' = trouble + 1
      /\ UNCHANGED <<settings, rules, map, told, unread>>
  BY DEF Fail
<1>3. PICK new : new = [call[c] EXCEPT !.pc = "failed", !.todo = {}, !.shorts = {}, !.blocker = "rejected"]
  OBVIOUS
<1>4. call' = [call EXCEPT ![c] = new] /\ call'[c] = new
  BY <1>1, <1>3 DEF Fail, Goes
<1>5. trouble' \in 0 .. MaxTrouble /\ trouble <= trouble' /\ trouble' > 0
  BY <1>1, <1>2
<1>6. KeepsMap
  BY <1>2, SameMap
<1>7. new \in CallRecord
  <2>1. call[c] \in CallRecord
    BY <1>1
  <2>2. QED
    BY ONLY <1>3, <2>1, ZenonT(90) DEF CallRecord
<1>8. /\ call[c].blocker = "waiting" /\ call[c].read = "none"
  BY <1>1, <1>2 DEF CallOK, SourcesOK, ReadsOK
<1>9. /\ new.ask = call[c].ask /\ new.target = call[c].target /\ new.slots = call[c].slots
      /\ new.keys = call[c].keys /\ new.src = call[c].src
      /\ new.shorts = {} /\ new.blocker = "rejected" /\ new.read = "none" /\ new.pc = "failed"
  BY <1>1, <1>3, <1>8 DEF CallRecord
<1>10. MovesOn(c, new)
  BY <1>8, <1>4, <1>9 DEF MovesOn
<1>11. QuestionOK(c)'
  BY <1>2, <1>4, <1>9, QuestionStays
<1>12. SourcesOK(c)'
  <2>1. \A i \in DOMAIN call'[c].src : FutureOf(call[c].src[i], call[c].keys[i])'
    BY <1>10, SourcesStay
  <2>2. QED
    BY <1>1, <1>4, <1>9, <2>1 DEF CallOK, SourcesOK
<1>13. TroubleOK(c)' /\ ReadsOK(c)' /\ OutOK(c)' /\ AwaitsOK(c)'
  BY <1>4, <1>5, <1>9 DEF TroubleOK, ReadsOK, OutOK, AwaitsOK
<1>14. QED
  BY <1>1, <1>2, <1>5, <1>6, <1>7, <1>10, <1>11, <1>12, <1>13, Moving DEF CallOK

----------------------------------------------------------------------------
(* Futures told, found and read. *)

\* What is held under a key is a future of that key.
LEMMA HeldFuture ==
    ASSUME Inv, NEW k
    PROVE  HeldBy(k) = None \/ (HeldBy(k) \in Write /\ FutureOf(HeldBy(k), k))
<1>1. CASE EntryOf(map, k) = {}
  BY <1>1 DEF HeldBy
<1>2. CASE EntryOf(map, k) # {}
  <2>1. PICK x \in DOMAIN map : map[x].key = k /\ (CHOOSE e \in EntryOf(map, k) : TRUE) = map[x]
    BY <1>2, HeldIsEntry
  <2>2. map \in Seq(Entry) /\ FutureOf(map[x].from, map[x].key)
    BY DEF Inv, TypeOK, Inductive, MapOK, Entry
  <2>3. map[x].from \in Write
    BY <2>2, EntriesTyped DEF Entry
  <2>4. HeldBy(k) = map[x].from
    BY <1>2, <2>1 DEF HeldBy
  <2>5. QED
    BY <2>1, <2>2, <2>3, <2>4
<1>3. QED
  BY <1>1, <1>2

\* A future whose handler has run without a rejection has a proof of its key.
LEMMA ProofFits ==
    ASSUME Inv, NEW w \in told, NEW k, FutureOf(w, k), ~Rejected(w)
    PROVE  Fits(Proof(w), k)
<1>1. w \in Write /\ w[1] \in Call /\ call[w[1]].blocker = "resolved"
  BY DEF Inv, TypeOK, Inductive, MapOK, Rejected
<1>2. PICK d, i : d = w[1] /\ i = w[2]
  OBVIOUS
<1>3. /\ w = <<d, i>> /\ d \in Call /\ call[d].blocker = "resolved" /\ i \in DOMAIN call[d].src
      /\ call[d].src[i] = <<d, i>> /\ call[d].keys[i] = k
  BY <1>1, <1>2 DEF Write, FutureOf
<1>4. SourcesOK(d)
  BY <1>3 DEF Inv, Inductive, CallOK
<1>5. Fits(call[d].got[i], call[d].keys[i])
  BY <1>3, <1>4 DEF SourcesOK
<1>6. Proof(w) = call[d].got[i]
  BY <1>2 DEF Proof
<1>7. QED
  BY <1>3, <1>5, <1>6

\* touch() gives what is held, and keeps the LRU.
LEMMA TouchKeeps ==
    ASSUME Inv, NEW k \in Key, map' = Touched(map, k)
    PROVE  KeepsMap
<1>1. /\ settings.max \in Nat /\ map \in Seq(Entry) /\ KeysDiffer(map) /\ Len(map) <= settings.max
  BY RulesKnown DEF Inv, TypeOK, Inductive, MapOK, Entry
<1>2. PICK m : m = map
  OBVIOUS
<1>3. PICK r : r = Touched(m, k)
  OBVIOUS
<1>4. /\ r \in Seq(Entry) /\ KeysDiffer(r) /\ Len(r) <= settings.max
      /\ \A i \in DOMAIN r : \E j \in DOMAIN m : r[i] = m[j]
      /\ Roomy => \A j \in DOMAIN m : \E i \in DOMAIN r : r[i] = m[j]
  BY <1>1, <1>2, <1>3, TouchedKeeps
<1>5. map' = r
  BY <1>2, <1>3
<1>6. QED
  BY <1>2, <1>4, <1>5 DEF KeepsMap

\* A call that has no futures yet begins to await one, or to read.
LEMMA Beginning ==
    ASSUME Inv, NEW c \in Call, call[c].pc \in {"idle", "account", "slot"},
           NEW new \in CallRecord, call' = [call EXCEPT ![c] = new],
           new.src = <<>>, new.keys = <<>>, new.blocker = "none",
           new.shorts # {} => settings.short /\ trouble > 0,
           new.pc \in {"account", "slot", "need", "fast", "failed"},
           Asking(new.ask, new.target, new.slots), AwaitsOK(c)', ReadsOK(c)',
           new.read \in {"none", "out"}, new.pc = "failed" => trouble > 0, KeepsMap,
           UNCHANGED <<settings, rules, told, unread, trouble>>
    PROVE  Inv'
<1>1. /\ call \in [Call -> CallRecord] /\ call[c] \in CallRecord /\ CallOK(c) /\ trouble \in 0 .. MaxTrouble
      /\ unread \subseteq Key /\ (unread # {} => trouble > 0) /\ MaxTrouble \in Nat
  BY ProverAssumption DEF Inv, TypeOK, Inductive
<1>2. /\ call[c].src = <<>> /\ call[c].keys = <<>> /\ call[c].blocker = "none" /\ call[c].read = "none"
  BY <1>1 DEF CallOK, SourcesOK, ReadsOK
<1>3. MovesOn(c, new) /\ call'[c] = new
  BY <1>1, <1>2 DEF MovesOn
<1>4. QuestionOK(c)'
  BY <1>3 DEF QuestionOK, IsByHash, Is, Asking
<1>5. SourcesOK(c)'
  <2>1. \A i \in DOMAIN call'[c].src : FutureOf(call[c].src[i], call[c].keys[i])'
    BY <1>3, SourcesStay
  <2>2. QED
    BY <1>3, <2>1 DEF SourcesOK
<1>6. TroubleOK(c)' /\ OutOK(c)'
  BY <1>3 DEF TroubleOK, OutOK
<1>7. QED
  BY <1>1, <1>3, <1>4, <1>5, <1>6, Moving DEF CallOK

\* A call that begins to await what is held under a key awaits that key's future.
LEMMA AwaitsHeld ==
    ASSUME Inv, NEW c \in Call, NEW new \in CallRecord, call[c].src = <<>>,
           call' = [call EXCEPT ![c] = new], new.src = <<>>, new.keys = <<>>,
           NEW k, new.on = None \/ FutureOf(new.on, k)
    PROVE  call'[c].on = None \/ \A w : w = call'[c].on => FutureOf(w, k)'
<1>1. call \in [Call -> CallRecord] /\ call'[c] = new
  BY DEF Inv, TypeOK
<1>2. \A w : FutureOf(w, k) => FutureOf(w, k)'
  BY <1>1, FutureStays DEF KeepsFutures
<1>3. QED
  BY <1>1, <1>2

\* A read goes to the node, joins another one or fails at once.
LEMMA FastReadStep ==
    ASSUME Inv, NEW c \in Call, call[c].pc \in {"idle", "slot"}, NEW r \in CallRecord,
           r.src = <<>>, r.keys = <<>>, r.blocker = "none", r.read = "none",
           r.shorts # {} => settings.short /\ trouble > 0,
           Asking(r.ask, r.target, r.slots), ~Is("zksync"), NEW k \in Key,
           \/ r.ask.op = "isContract" /\ k = <<r.target>>
           \/ r.ask.op = "getStorage" /\ k = <<r.target, r.slots[1]>>,
           FastRead(c, r, k)
    PROVE  Inv'
<1>1. /\ call \in [Call -> CallRecord] /\ call[c] \in CallRecord /\ CallOK(c)
      /\ (unread # {} => trouble > 0)
  BY DEF Inv, TypeOK, Inductive
<1>2. call[c].read = "none"
  BY <1>1 DEF CallOK, ReadsOK
<1>3. /\ call' = [call EXCEPT ![c] =
                    IF Cached(k) /\ k \in unread THEN [r EXCEPT !.pc = "failed"]
                    ELSE IF Reading(k) # {}
                    THEN [r EXCEPT !.pc = "fast", !.on = None, !.awaits = <<CHOOSE d \in Reading(k) : TRUE, k>>]
                    ELSE [r EXCEPT !.pc = "fast", !.on = None, !.awaits = <<c, k>>, !.read = "out"]]
      /\ UNCHANGED <<settings, rules, map, told, unread, trouble>>
  BY DEF FastRead, Goes
<1>4. KeepsMap
  BY <1>3, SameMap
<1>5. CASE Cached(k) /\ k \in unread
  <2>1. PICK new : new = [r EXCEPT !.pc = "failed"]
    OBVIOUS
  <2>2. new \in CallRecord
    BY <2>1 DEF CallRecord
  <2>3. /\ new.src = <<>> /\ new.keys = <<>> /\ new.blocker = "none" /\ new.shorts = r.shorts
        /\ new.read = "none" /\ new.pc = "failed" /\ new.ask = r.ask
        /\ new.target = r.target /\ new.slots = r.slots
    BY <2>1 DEF CallRecord
  <2>4. call' = [call EXCEPT ![c] = new] /\ call'[c] = new
    BY <1>1, <1>3, <1>5, <2>1
  <2>5. AwaitsOK(c)' /\ ReadsOK(c)'
    BY <2>3, <2>4 DEF AwaitsOK, ReadsOK
  <2>6. trouble > 0
    BY <1>1, <1>5
  <2>7. QED
    BY <1>3, <1>4, <2>2, <2>3, <2>4, <2>5, <2>6, Beginning
<1>6. CASE ~(Cached(k) /\ k \in unread)
  <2>1. PICK d, read : /\ d \in Call /\ read \in {"none", "out"}
                       /\ read = IF d = c THEN "out" ELSE "none"
                       /\ d # c => call[d].read = "out"
                       /\ call' = [call EXCEPT ![c] = [r EXCEPT !.pc = "fast", !.on = None,
                                                        !.awaits = <<d, k>>, !.read = read]]
    <3>1. CASE Reading(k) # {}
      <4>1. PICK d : d = CHOOSE x \in Reading(k) : TRUE
        OBVIOUS
      <4>2. d \in Reading(k)
        BY <3>1, <4>1
      <4>3. d \in Call /\ call[d].read = "out"
        BY <4>2 DEF Reading
      <4>4. [r EXCEPT !.pc = "fast", !.on = None, !.awaits = <<d, k>>]
            = [r EXCEPT !.pc = "fast", !.on = None, !.awaits = <<d, k>>, !.read = "none"]
        BY DEF CallRecord
      <4>5. d # c
        BY <1>2, <4>3
      <4>6. call' = [call EXCEPT ![c] = [r EXCEPT !.pc = "fast", !.on = None,
                                          !.awaits = <<d, k>>, !.read = "none"]]
        BY <1>3, <1>6, <3>1, <4>1, <4>4
      <4>7. QED
        BY <4>3, <4>5, <4>6
    <3>2. CASE Reading(k) = {}
      BY <1>3, <1>6, <3>2
    <3>3. QED
      BY <3>1, <3>2
  <2>2. PICK new : new = [r EXCEPT !.pc = "fast", !.on = None, !.awaits = <<d, k>>, !.read = read]
    OBVIOUS
  <2>3. new \in CallRecord
    <3>1. read \in {"none", "out"} /\ <<d, k>> \in Call \X Key
      BY <2>1
    <3>2. QED
      BY <2>2, <3>1 DEF CallRecord
  <2>4. /\ new.src = <<>> /\ new.keys = <<>> /\ new.blocker = "none" /\ new.shorts = r.shorts
        /\ new.read = read /\ new.pc = "fast" /\ new.ask = r.ask
        /\ new.target = r.target /\ new.slots = r.slots
        /\ new.awaits[1] = d /\ new.awaits[2] = k
    BY <2>2 DEF CallRecord
  <2>5. call' = [call EXCEPT ![c] = new] /\ call'[c] = new /\ call'[d].read = "out"
    BY <1>1, <2>1, <2>2, <2>4
  <2>6. read # "none" => d = c
    BY <2>1
  <2>7. AwaitsOK(c)' /\ ReadsOK(c)'
    <3>1. \/ new.ask.op = "isContract" /\ k = <<new.target>>
          \/ new.ask.op = "getStorage" /\ k = <<new.target, new.slots[1]>>
      BY <2>4
    <3>2. /\ call'[c].pc = "fast" /\ call'[c].awaits[1] = d /\ call'[c].awaits[2] = k
          /\ call'[c].read = read /\ call'[d].read # "none" /\ d \in Call
      BY <2>1, <2>4, <2>5
    <3>3. AwaitsOK(c)'
      BY <3>2 DEF AwaitsOK
    <3>4. QED
      BY <1>3, <2>5, <2>6, <3>1, <3>2, <3>3 DEF ReadsOK, Is
  <2>8. /\ Asking(new.ask, new.target, new.slots) /\ new.read \in {"none", "out"}
        /\ new.pc \in {"account", "slot", "need", "fast", "failed"} /\ new.pc # "failed"
        /\ call[c].pc \in {"idle", "account", "slot"}
    BY <2>1, <2>4
  <2>9. /\ Inv /\ (new.shorts # {} => settings.short /\ trouble > 0)
        /\ UNCHANGED <<settings, rules, map, told, unread, trouble>>
    BY <1>3, <2>4
  <2>10. QED
    BY ONLY <1>4, <2>3, <2>4, <2>5, <2>7, <2>8, <2>9, Beginning
<1>7. QED
  BY <1>5, <1>6

\* Tell(): the handler of a future.
LEMMA TellStep ==
    ASSUME Inv, NEW w \in Untold, Tell(w)
    PROVE  Inv'
<1>1. /\ call \in [Call -> CallRecord] /\ map \in Seq(Entry) /\ trouble \in Nat
      /\ settings \in Settings /\ rules = RulesOf(settings.kind) /\ MapOK /\ HeldOK /\ told \subseteq Write
      /\ TypeOK /\ Inductive /\ settings.max \in Nat
  BY ProverAssumption, RulesKnown DEF Inv, TypeOK, Inductive, Entry
<1>2. PICK c \in Call : \E i \in DOMAIN call[c].src :
            w = <<c, i>> /\ call[c].src[i] = <<c, i>> /\ w \notin told
  <2>1. rules.shared /\ w \in UNION {Futures(d) : d \in Call} /\ w \notin told
    BY DEF Untold
  <2>2. QED
    BY <2>1 DEF Futures, IsMissing
<1>3. PICK i \in DOMAIN call[c].src : w = <<c, i>> /\ call[c].src[i] = <<c, i>> /\ w \notin told
  BY <1>2
<1>4. w[1] = c /\ w[2] = i
  BY <1>3
<1>5. /\ call[c] \in CallRecord /\ SourcesOK(c) /\ call[c].src \in Seq(Write) /\ call[c].keys \in Seq(Key)
      /\ Len(call[c].keys) = Len(call[c].src)
  BY <1>1 DEF Inductive, CallOK, SourcesOK, CallRecord
<1>6. PICK k : k = call[c].keys[i]
  OBVIOUS
<1>7. k \in Key /\ w \in Write /\ FutureOf(w, k)
  <2>1. i \in 1 .. Len(call[c].keys)
    BY <1>5, LenProperties
  <2>2. k \in Key
    BY <1>5, <1>6, <2>1, ElementOfSeq
  <2>3. w \in Write
    BY <1>3, <1>5, <2>1, ElementOfSeq
  <2>4. FutureOf(w, k)
    BY <1>3, <1>5, <1>6 DEF SourcesOK
  <2>5. QED
    BY <2>2, <2>3, <2>4
<1>8. /\ call[c].blocker \in {"resolved", "rejected"} /\ told' = told \cup {w}
      /\ map' = IF HeldBy(k) # w THEN map
                ELSE IF Rejected(w) THEN Without(map, k)
                ELSE Put(map, settings.max, k, w, FALSE)
      /\ UNCHANGED <<settings, rules, call, unread, trouble>>
  BY <1>4, <1>6 DEF Tell
\* Its entry is the one under its key, if it is there.
<1>9. ASSUME NEW j \in DOMAIN map PROVE map[j].from = w <=> map[j].key = k /\ HeldBy(k) = w
  <2>1. FutureOf(map[j].from, map[j].key) /\ KeysDiffer(map)
    BY <1>1 DEF MapOK
  <2>2. map[j].from = w => map[j].key = k
    BY <1>7, <2>1 DEF FutureOf
  <2>3. map[j].key = k => HeldBy(k) = map[j].from
    <3> SUFFICES ASSUME map[j].key = k PROVE HeldBy(k) = map[j].from
      OBVIOUS
    <3>1. EntryOf(map, k) # {}
      BY DEF EntryOf
    <3>2. PICK x \in DOMAIN map : map[x].key = k /\ (CHOOSE e \in EntryOf(map, k) : TRUE) = map[x]
      BY <3>1, HeldIsEntry
    <3>3. x = j
      BY <2>1, <3>2 DEF KeysDiffer
    <3>4. QED
      BY <3>1, <3>2, <3>3 DEF HeldBy
  <2>4. QED
    BY <2>2, <2>3
<1>10. /\ map' \in Seq(Entry) /\ KeysDiffer(map') /\ Len(map') <= settings.max
       /\ \A j \in DOMAIN map' :
            \/ \E x \in DOMAIN map : map'[j] = map[x] /\ map[x].from # w
            \/ map'[j] = [key |-> k, from |-> w, pending |-> FALSE] /\ ~Rejected(w)
       /\ Roomy => \A x \in DOMAIN map :
            \/ \E j \in DOMAIN map' : map'[j] = map[x]
            \/ /\ map[x].from = w
               /\ ~Rejected(w) => \E j \in DOMAIN map' : map'[j].key = k /\ map'[j].from = w
  <2>1. KeysDiffer(map) /\ Len(map) <= settings.max
    BY <1>1 DEF MapOK
  <2>2. CASE HeldBy(k) # w
    BY <1>1, <1>8, <1>9, <2>1, <2>2
  <2>3. CASE HeldBy(k) = w /\ Rejected(w)
    <3>1. PICK m, r : m = map /\ r = Without(m, k)
      OBVIOUS
    <3>2. m \in Seq(Entries(Key, Write)) /\ KeysDiffer(m) /\ Len(m) <= settings.max /\ Len(m) \in Nat
      BY <1>1, <2>1, <3>1, LenProperties DEF Entry
    <3>3. /\ r \in Seq(Entries(Key, Write)) /\ KeysDiffer(r) /\ Len(r) <= Len(m)
          /\ \A j \in DOMAIN r : r[j].key # k
          /\ \A j \in DOMAIN r : \E x \in DOMAIN m : r[j] = m[x]
          /\ \A x \in DOMAIN m : m[x].key # k => \E j \in DOMAIN r : r[j] = m[x]
      <4>1. /\ Without(m, k) \in Seq(Entries(Key, Write)) /\ KeysDiffer(Without(m, k))
            /\ Len(Without(m, k)) <= Len(m)
            /\ \A j \in DOMAIN Without(m, k) : Without(m, k)[j].key # k
            /\ \A j \in DOMAIN Without(m, k) : \E x \in DOMAIN m : Without(m, k)[j] = m[x]
            /\ \A x \in DOMAIN m : m[x].key # k => \E j \in DOMAIN Without(m, k) : Without(m, k)[j] = m[x]
        BY <1>7, <3>2, WithoutKey
      <4>2. QED
        BY <3>1, <4>1
    <3>4. map' = r
      BY <1>8, <2>3, <3>1
    <3>5. map' \in Seq(Entry) /\ KeysDiffer(map') /\ Len(map') <= settings.max
      <4>1. Len(r) \in Nat
        BY <3>3, LenProperties
      <4>2. QED
        BY <1>1, <3>2, <3>3, <3>4, <4>1 DEF Entry
    <3>6. \A j \in DOMAIN map' : \E x \in DOMAIN map : map'[j] = map[x] /\ map[x].from # w
      BY <1>9, <3>1, <3>3, <3>4
    <3>7. \A x \in DOMAIN map : (\E j \in DOMAIN map' : map'[j] = map[x]) \/ map[x].from = w
      BY <1>9, <2>3, <3>1, <3>3, <3>4
    <3>8. QED
      BY <2>3, <3>5, <3>6, <3>7
  <2>4. CASE HeldBy(k) = w /\ ~Rejected(w)
    <3>1. PICK m, b, e : m = map /\ b = FALSE /\ e = [key |-> k, from |-> w, pending |-> b]
      OBVIOUS
    <3>2. PICK r : r = Put(m, settings.max, k, w, b)
      OBVIOUS
    <3>3. m \in Seq(Entry) /\ KeysDiffer(m) /\ Len(m) <= settings.max /\ b \in BOOLEAN
      BY <1>1, <2>1, <3>1
    <3>4. e = [key |-> k, from |-> w, pending |-> b]
      BY <3>1
    <3>5. k \in Key /\ w \in Write /\ settings.max \in Nat
      BY <1>1, <1>7
    <3>6. /\ r \in Seq(Entry) /\ KeysDiffer(r) /\ Len(r) <= settings.max
          /\ \A i_1 \in DOMAIN r : r[i_1] = e \/ \E j \in DOMAIN m : r[i_1] = m[j] /\ m[j].key # k
          /\ Roomy => /\ \E i_1 \in DOMAIN r : r[i_1] = e
                      /\ \A j \in DOMAIN m : m[j].key # k => \E i_1 \in DOMAIN r : r[i_1] = m[j]
      BY ONLY <3>2, <3>3, <3>4, <3>5, PutFits
    <3>7. map' = r
      BY <1>8, <2>4, <3>1, <3>2
    <3>8. \A j \in DOMAIN map' :
            \/ \E x \in DOMAIN map : map'[j] = map[x] /\ map[x].from # w
            \/ map'[j] = [key |-> k, from |-> w, pending |-> FALSE]
      BY <1>9, <3>1, <3>6, <3>7
    <3>9. Roomy => \A x \in DOMAIN map :
            \/ \E j \in DOMAIN map' : map'[j] = map[x]
            \/ map[x].from = w /\ \E j \in DOMAIN map' : map'[j].key = k /\ map'[j].from = w
      BY <1>9, <2>4, <3>1, <3>6, <3>7
    <3>10. QED
      BY <2>4, <3>6, <3>7, <3>8, <3>9
  <2>5. QED
    BY <2>2, <2>3, <2>4
<1>11. TypeOK'
  BY <1>1, <1>7, <1>8, <1>10 DEF TypeOK, Entry
<1>12. \A w_1, k_1 : FutureOf(w_1, k_1)' <=> FutureOf(w_1, k_1)
  BY <1>8 DEF FutureOf
<1>13. MapOK'
  <2>1. KeysDiffer(map') /\ Len(map') <= settings'.max
    BY <1>8, <1>10
  <2>2. ASSUME NEW j \in DOMAIN map'
        PROVE  /\ FutureOf(map'[j].from, map'[j].key)
               /\ map'[j].pending <=> map'[j].from \notin told'
               /\ map'[j].from \in told' => ~Rejected(map'[j].from)
    <3>1. CASE \E x \in DOMAIN map : map'[j] = map[x] /\ map[x].from # w
      BY <1>1, <1>8, <3>1 DEF MapOK
    <3>2. CASE map'[j] = [key |-> k, from |-> w, pending |-> FALSE] /\ ~Rejected(w)
      <4>1. map'[j].from = w /\ map'[j].key = k /\ map'[j].pending = FALSE /\ ~Rejected(w)
        BY <3>2
      <4>2. w \in told'
        BY <1>8
      <4>3. QED
        BY <1>7, <4>1, <4>2
    <3>3. QED
      BY <1>10, <3>1, <3>2
  <2>3. \A w_1 \in told' : w_1[1] \in Call /\ call'[w_1[1]].blocker \in {"resolved", "rejected"}
    BY <1>1, <1>4, <1>8 DEF MapOK
  <2>4. \A j \in DOMAIN map' : FutureOf(map[j].from, map[j].key)'
    BY <1>8, <2>2 DEF FutureOf
  <2>5. \A j \in DOMAIN map' : map'[j].from \in told' => ~Rejected(map[j].from)'
    BY <1>8, <2>2 DEF Rejected
  <2>6. QED
    BY <2>1, <2>2, <2>3, <2>4, <2>5 DEF MapOK
<1>14. HeldOK'
  <2> SUFFICES ASSUME rules.shared, Roomy, NEW d \in Call,
                      call[d].blocker \in {"waiting", "resolved"},
                      NEW h \in DOMAIN call[d].src, call[d].src[h] = <<d, h>>
               PROVE  \E j \in DOMAIN map' : map'[j].key = call[d].keys[h] /\ map'[j].from = <<d, h>>
    BY <1>8 DEF HeldOK, Roomy
  <2>1. PICK x \in DOMAIN map : map[x].key = call[d].keys[h] /\ map[x].from = <<d, h>>
    BY <1>1 DEF HeldOK
  <2>2. CASE \E j \in DOMAIN map' : map'[j] = map[x]
    BY <2>1, <2>2
  <2>3. CASE map[x].from = w
    <3>1. d = c /\ ~Rejected(w) /\ map[x].key = k
      BY <1>3, <1>4, <1>9, <2>1, <2>3 DEF Rejected
    <3>2. PICK j \in DOMAIN map' : map'[j].key = k /\ map'[j].from = w
      BY <1>10, <2>2, <2>3, <3>1
    <3>3. QED
      BY <2>1, <2>3, <3>1, <3>2
  <2>4. QED
    BY <1>10, <2>2, <2>3
<1>15. \A d \in Call : CallOK(d)'
  <2> SUFFICES ASSUME NEW d \in Call PROVE CallOK(d)'
    OBVIOUS
  <2>1. CallOK(d)
    BY <1>1 DEF Inductive
  <2>a. ReadsEdge(d)' <=> ReadsEdge(d)
    BY <1>8 DEF ReadsEdge, Is
  <2>b. QuestionOK(d)' /\ ReadsOK(d)'
    BY <1>8, <2>1 DEF CallOK, QuestionOK, ReadsOK, IsByHash, Is
  <2>c. TroubleOK(d)' /\ OutOK(d)'
    BY <1>8, <2>1, <2>a DEF CallOK, TroubleOK, OutOK
  <2>2. QuestionOK(d)' /\ TroubleOK(d)' /\ ReadsOK(d)' /\ OutOK(d)'
    BY <2>b, <2>c
  <2>3. SourcesOK(d)' /\ AwaitsOK(d)'
    <3>1. \A p, k_1 : Fits(p, k_1)' <=> Fits(p, k_1)
      BY <1>8 DEF Fits
    <3>2. SourcesOK(d)'
      BY <1>8, <2>1 DEF CallOK, SourcesOK, FutureOf, Fits, FirstSlot, ProofKeys, Missing
    <3>3. AwaitsOK(d)'
      BY <1>8, <2>1 DEF CallOK, AwaitsOK, FutureOf, IsRead, IsByHash, Is
    <3>4. QED
      BY <3>2, <3>3
  <2>4. QED
    BY <2>2, <2>3 DEF CallOK
<1>16. QED
  BY <1>1, <1>8, <1>11, <1>13, <1>14, <1>15 DEF Inv, Inductive

----------------------------------------------------------------------------
(* The steps of a call. *)

\* A call that was just made.
LEMMA NewTyped ==
    ASSUME NEW c, NEW a \in Asks, NEW pc,
           pc \in {"account", "slot", "need", "fetch", "fast"}, NEW r, r = New(c, a, pc)
    PROVE  /\ r \in CallRecord
           /\ r.pc = pc /\ r.ask = a /\ r.target = a.target /\ r.slots = a.slots /\ r.on = None
           /\ r.keys = <<>> /\ r.src = <<>> /\ r.shorts = {} /\ r.blocker = "none" /\ r.read = "none"
<1>1. a.target \in Target /\ a.slots \in Seq(Slot \cup Target) /\ CodeHash \in Target
  BY AsksTyped, KeysTyped
<1>2. Idle \in [pc : {"idle"}, ask : {None}, target : Target, slots : Seq(Slot \cup Target),
         on : {None} \cup Write, awaits : {None} \cup (Call \X Key),
         keys : Seq(Key), src : Seq(Write), miss : SUBSET Nat, todo : SUBSET Nat,
         shorts : SUBSET Nat, blocker : {"none", "waiting", "resolved", "rejected"},
         got : Seq(Key \cup {Null}), read : {"none", "out", "ok", "err"},
         out : Seq(Key) \cup Seq(Target \cup Slot)]
  BY <1>1 DEF Idle
<1>3. r \in CallRecord
  BY <1>1, <1>2 DEF New, CallRecord
<1>4. QED
  BY <1>3 DEF New, Idle

\* What is true of a call that was not made, and of the questions.
LEMMA NotMade ==
    ASSUME Inv, NEW c \in Call, call[c].pc \in {"idle", "account", "slot", "need"}
    PROVE  /\ call[c].src = <<>> /\ call[c].keys = <<>> /\ call[c].blocker = "none"
           /\ call[c].read = "none" /\ call[c] \in CallRecord
           /\ call[c].shorts # {} => settings.short /\ trouble > 0
<1>1. call[c] \in CallRecord /\ CallOK(c)
  BY DEF Inv, TypeOK, Inductive
<1>2. QED
  BY <1>1 DEF CallOK, SourcesOK, ReadsOK, TroubleOK

LEMMA AskedIs ==
    ASSUME Inv, NEW c \in Call, call[c].pc # "idle"
    PROVE  Asking(call[c].ask, call[c].target, call[c].slots)
<1>1. QuestionOK(c)
  BY DEF Inv, Inductive, CallOK
<1>2. QED
  BY <1>1 DEF QuestionOK, Asking, IsByHash

\* AskProofs(): getProofs() of a target.
LEMMA AskProofsStep ==
    ASSUME Inv, NEW c \in Call, NEW a \in Asks, AskProofs(c, a)
    PROVE  Inv'
<1>1. call[c].pc = "idle" /\ a.op = "getProofs"
  BY DEF AskProofs, Asked
<1>2. PICK r, pc : r = New(c, a, pc) /\ pc = "fetch"
  OBVIOUS
<1>3. GetProofs(c, r, a.target, a.slots)
  BY <1>2 DEF AskProofs
<1>4. /\ a.target \in Target /\ a.slots \in Seq(Slot \cup Target)
      /\ \A i \in DOMAIN a.slots : <<a.target, a.slots[i]>> \in Key
  BY AsksTyped
<1>5. /\ r \in CallRecord /\ r.ask = a /\ r.blocker = "none" /\ r.shorts = {} /\ r.read = "none"
  BY <1>2, NewTyped
<1>6. Asking(r.ask, a.target, a.slots)
  BY <1>1, <1>5 DEF Asking
<1>7. QED
  BY <1>1, <1>3, <1>4, <1>5, <1>6, NotMade, Getting

\* AskContract(): isContract() of a target.
LEMMA AskContractStep ==
    ASSUME Inv, NEW c \in Call, NEW a \in Asks, AskContract(c, a)
    PROVE  Inv'
<1>1. call[c].pc = "idle" /\ a.op = "isContract" /\ call \in [Call -> CallRecord]
  BY DEF AskContract, Asked, Inv, TypeOK
<1>2. /\ a.target \in Target /\ a.slots = <<>> /\ <<>> \in Seq(Slot \cup Target)
      /\ <<a.target>> \in Key /\ CodeHash \in Target /\ <<a.target>> \in Seq(Slot \cup Target)
  BY <1>1, AsksTyped, KeysTyped
<1>3. /\ call[c].src = <<>> /\ call[c].keys = <<>> /\ call[c].blocker = "none" /\ call[c].read = "none"
  BY <1>1, NotMade
<1>4. CASE Is("zksync")
  <2>0. PICK r, pc : r = New(c, a, pc) /\ pc = "account"
    OBVIOUS
  <2>1. PICK new : new = [r EXCEPT !.target = CodeHash, !.slots = <<a.target>>]
    OBVIOUS
  <2>2. call' = [call EXCEPT ![c] = new] /\ UNCHANGED <<settings, rules, map, told, unread, trouble>>
    BY <1>4, <2>0, <2>1 DEF AskContract, Goes
  <2>3. /\ new \in CallRecord /\ new.pc = "account" /\ new.ask = a /\ new.target = CodeHash
        /\ new.slots = <<a.target>> /\ new.on = None /\ new.keys = <<>> /\ new.src = <<>>
        /\ new.shorts = {} /\ new.blocker = "none" /\ new.read = "none"
    <3>1. /\ r \in CallRecord /\ r.pc = "account" /\ r.ask = a /\ r.on = None
          /\ r.keys = <<>> /\ r.src = <<>> /\ r.shorts = {} /\ r.blocker = "none" /\ r.read = "none"
      BY <2>0, NewTyped
    <3>2. QED
      BY ONLY <1>2, <2>1, <3>1, ZenonT(90) DEF CallRecord
  <2>4. call'[c] = new
    BY <1>1, <2>2
  <2>5. AwaitsOK(c)' /\ ReadsOK(c)'
    BY <1>1, <1>4, <2>2, <2>3, <2>4 DEF AwaitsOK, ReadsOK, IsRead, IsByHash, Is
  <2>6. Asking(new.ask, new.target, new.slots)
    BY <1>1, <1>4, <2>3 DEF Asking
  <2>7. KeepsMap
    BY <2>2, SameMap
  <2>8. QED
    BY <1>1, <2>2, <2>3, <2>5, <2>6, <2>7, Beginning
<1>5. CASE ~Is("zksync") /\ settings.fast
  <2>1. PICK r, pc : r = New(c, a, pc) /\ pc = "fast"
    OBVIOUS
  <2>2. FastRead(c, r, <<a.target>>)
    BY <1>5, <2>1 DEF AskContract
  <2>3. /\ r \in CallRecord /\ r.ask = a /\ r.target = a.target /\ r.slots = a.slots
        /\ r.keys = <<>> /\ r.src = <<>> /\ r.shorts = {} /\ r.blocker = "none" /\ r.read = "none"
    BY <2>1, NewTyped
  <2>4. Asking(r.ask, r.target, r.slots)
    BY <1>1, <1>5, <2>3 DEF Asking
  <2>5. PICK k \in Key : k = <<r.target>> /\ FastRead(c, r, k)
    BY <1>2, <2>2, <2>3
  <2>6. QED
    BY <1>1, <1>5, <2>3, <2>4, <2>5, FastReadStep
<1>6. CASE ~Is("zksync") /\ ~settings.fast
  <2>1. PICK r, slots, pc : r = New(c, a, pc) /\ pc = "fetch" /\ slots = <<>>
    OBVIOUS
  <2>2. GetProofs(c, r, a.target, slots)
    BY <1>6, <2>1 DEF AskContract
  <2>3. /\ r \in CallRecord /\ r.ask = a /\ r.blocker = "none" /\ r.shorts = {} /\ r.read = "none"
    BY <2>1, NewTyped
  <2>4. Asking(r.ask, a.target, slots)
    BY <1>1, <1>2, <1>6, <2>1, <2>3 DEF Asking
  <2>5. slots \in Seq(Slot \cup Target) /\ \A i \in DOMAIN slots : <<a.target, slots[i]>> \in Key
    BY <2>1
  <2>6. QED
    BY <1>1, <1>2, <1>3, <2>2, <2>3, <2>4, <2>5, Getting
<1>7. QED
  BY <1>4, <1>5, <1>6

\* AskStorage(): getStorage() of a slot.
LEMMA AskStorageStep ==
    ASSUME Inv, NEW c \in Call, NEW a \in Asks, AskStorage(c, a)
    PROVE  Inv'
<1>1. PICK pc, k :
        /\ pc = IF rules.accounts THEN "account" ELSE "slot"
        /\ k = IF rules.accounts THEN <<a.target>> ELSE <<a.target, a.slots[1]>>
  OBVIOUS
<1>2. PICK on, r, new : on = HeldBy(k) /\ r = New(c, a, pc) /\ new = [r EXCEPT !.on = on]
  OBVIOUS
<1>3. /\ call[c].pc = "idle" /\ a.op = "getStorage" /\ call' = [call EXCEPT ![c] = new]
      /\ map' = Touched(map, k) /\ UNCHANGED <<settings, rules, told, unread, trouble>>
  BY <1>1, <1>2 DEF AskStorage, Asked, Goes
<1>4. /\ a.target \in Target /\ a.slots \in Seq(Slot \cup Target) /\ k \in Key
      /\ pc \in {"account", "slot"}
  BY <1>1, <1>3, AsksTyped, KeysTyped
<1>5. on = None \/ (on \in Write /\ FutureOf(on, k))
  BY <1>2, HeldFuture
<1>6. /\ new \in CallRecord /\ new.pc = pc /\ new.ask = a /\ new.target = a.target
      /\ new.slots = a.slots /\ new.on = on /\ new.keys = <<>> /\ new.src = <<>>
      /\ new.shorts = {} /\ new.blocker = "none" /\ new.read = "none"
  <2>1. on \in {None} \cup Write /\ pc \in {"account", "slot", "need", "fetch", "fast"}
    BY <1>4, <1>5
  <2>2. /\ r \in CallRecord /\ r.pc = pc /\ r.ask = a /\ r.target = a.target /\ r.slots = a.slots
        /\ r.keys = <<>> /\ r.src = <<>> /\ r.shorts = {} /\ r.blocker = "none" /\ r.read = "none"
    <3>1. r = New(c, a, pc)
      BY <1>2
    <3>2. QED
      BY ONLY <2>1, <3>1, NewTyped
  <2>3. QED
    BY ONLY <1>2, <2>1, <2>2, ZenonT(90) DEF CallRecord
<1>7. KeepsMap
  BY <1>3, <1>4, TouchKeeps
<1>8. call'[c] = new
  BY <1>3 DEF Inv, TypeOK
<1>9. call'[c].on = None \/ \A w : w = call'[c].on => FutureOf(w, k)'
  BY <1>3, <1>5, <1>6, NotMade, AwaitsHeld
<1>10. AwaitsOK(c)'
  <2>1. /\ call'[c].pc = pc /\ call'[c].on = on /\ call'[c].ask = a
        /\ call'[c].target = a.target /\ call'[c].slots = a.slots
    BY <1>6, <1>8
  <2>2. on = None \/ FutureOf(on, k)'
    BY <1>9, <2>1
  <2>3. pc = "account" => call'[c].on = None \/ FutureOf(call[c].on, <<call[c].target>>)'
    BY <1>1, <2>1, <2>2 DEF FutureOf
  <2>4. pc = "slot" => call'[c].on = None \/ FutureOf(call[c].on, <<call[c].target, call[c].slots[1]>>)'
    BY <1>1, <2>1, <2>2 DEF FutureOf
  <2>5. QED
    BY <1>1, <1>3, <2>1, <2>3, <2>4 DEF AwaitsOK, IsRead
<1>11. ReadsOK(c)'
  BY <1>4, <1>6, <1>8 DEF ReadsOK
<1>12. Asking(new.ask, new.target, new.slots)
  BY <1>3, <1>6 DEF Asking
<1>13. /\ new.pc \in {"account", "slot", "need", "fast", "failed"} /\ new.pc # "failed"
       /\ call[c].pc \in {"idle", "account", "slot"}
  BY <1>3, <1>4, <1>6
<1>14. QED
  BY <1>3, <1>6, <1>7, <1>10, <1>11, <1>12, <1>13, Beginning

\* AskNeed(): _proveNeed() of a target and slots.
LEMMA AskNeedStep ==
    ASSUME Inv, NEW c \in Call, NEW a \in Asks, AskNeed(c, a)
    PROVE  Inv'
<1>1. call[c].pc = "idle" /\ a.op = "proveNeed" /\ call \in [Call -> CallRecord]
  BY DEF AskNeed, Asked, Inv, TypeOK
<1>2. /\ a.target \in Target /\ a.slots \in Seq(Slot \cup Target)
      /\ \A i \in DOMAIN a.slots : <<a.target, a.slots[i]>> \in Key
  BY AsksTyped
<1>3. CASE Is("zksync")
  <2>1. PICK r, pc : r = New(c, a, pc) /\ pc = "fetch"
    OBVIOUS
  <2>2. GetProofs(c, r, a.target, a.slots)
    BY <1>3, <2>1 DEF AskNeed
  <2>3. /\ r \in CallRecord /\ r.ask = a /\ r.blocker = "none" /\ r.shorts = {} /\ r.read = "none"
    BY <2>1, NewTyped
  <2>4. Asking(r.ask, a.target, a.slots)
    BY <1>1, <2>3 DEF Asking
  <2>5. QED
    BY <1>1, <1>2, <2>2, <2>3, <2>4, NotMade, Getting
<1>4. CASE ~Is("zksync")
  <2>1. PICK k, on, pc, r, new : /\ k = <<a.target>> /\ on = HeldBy(k) /\ pc = "need"
                                 /\ r = New(c, a, pc) /\ new = [r EXCEPT !.on = on]
    OBVIOUS
  <2>2. call' = [call EXCEPT ![c] = new] /\ UNCHANGED <<settings, rules, map, told, unread, trouble>>
    BY <1>4, <2>1 DEF AskNeed, Goes
  <2>3. on = None \/ (on \in Write /\ FutureOf(on, k))
    BY <2>1, HeldFuture
  <2>4. /\ new \in CallRecord /\ new.pc = "need" /\ new.ask = a /\ new.target = a.target
        /\ new.slots = a.slots /\ new.on = on /\ new.keys = <<>> /\ new.src = <<>>
        /\ new.shorts = {} /\ new.blocker = "none" /\ new.read = "none"
    <3>1. on \in {None} \cup Write
      BY <2>3
    <3>2. /\ r \in CallRecord /\ r.pc = "need" /\ r.ask = a /\ r.target = a.target /\ r.slots = a.slots
          /\ r.keys = <<>> /\ r.src = <<>> /\ r.shorts = {} /\ r.blocker = "none" /\ r.read = "none"
      BY <2>1, NewTyped
    <3>3. QED
      BY ONLY <2>1, <3>1, <3>2, ZenonT(90) DEF CallRecord
  <2>5. call'[c] = new
    BY <1>1, <2>2
  <2>6. call'[c].on = None \/ \A w : w = call'[c].on => FutureOf(w, k)'
    BY <1>1, <2>2, <2>3, <2>4, NotMade, AwaitsHeld
  <2>7. AwaitsOK(c)' /\ ReadsOK(c)'
    <3>1. /\ call'[c].pc = "need" /\ call'[c].on = on /\ call'[c].ask = a /\ call'[c].target = a.target
          /\ call'[c].read = "none"
      BY <2>4, <2>5
    <3>2. on = None \/ FutureOf(on, k)'
      BY <2>6, <3>1
    <3>3. call'[c].on = None \/ FutureOf(call[c].on, <<call[c].target>>)'
      BY <2>1, <3>1, <3>2 DEF FutureOf
    <3>4. QED
      BY <1>1, <1>4, <2>2, <3>1, <3>3 DEF AwaitsOK, ReadsOK, Is
  <2>8. Asking(new.ask, new.target, new.slots)
    BY <1>1, <2>4 DEF Asking
  <2>9. KeepsMap
    BY <2>2, SameMap
  <2>10. QED
    BY <1>1, <2>2, <2>4, <2>7, <2>8, <2>9, Beginning
<1>5. QED
  BY <1>3, <1>4

\* A future that is rejected has a cause.
LEMMA RejectedForCause ==
    ASSUME Inv, NEW w, NEW k, FutureOf(w, k), Rejected(w)
    PROVE  trouble > 0
<1>1. w[1] \in Call /\ call[w[1]].blocker = "rejected"
  BY DEF FutureOf, Rejected
<1>2. TroubleOK(w[1])
  BY <1>1 DEF Inv, Inductive, CallOK
<1>3. QED
  BY <1>1, <1>2 DEF TroubleOK

\* What a call may return of a target.
LEMMA TargetOut ==
    ASSUME NEW t \in Target
    PROVE  Null \in Seq(Target \cup Slot) /\ <<t>> \in Seq(Target \cup Slot)
<1>1. PICK S : S = Target \cup Slot
  OBVIOUS
<1>2. t \in S
  BY <1>1
<1>3. Null \in Seq(S) /\ <<t>> \in Seq(S)
  BY <1>2 DEF Null
<1>4. QED
  BY <1>1, <1>3

\* The value in the slot a call asks for is its answer.
LEMMA ValueAnswers ==
    ASSUME Inv, NEW c \in Call, call[c].pc # "idle", IsRead(c),
           NEW k, k = <<call[c].target, call[c].slots[1]>>
    PROVE  /\ ReadAs(c, ValueOf(k)) \in Seq(Key) \cup Seq(Target \cup Slot)
           /\ Answers(call[c].ask, ReadAs(c, ValueOf(k)))
<1>1. QuestionOK(c) /\ call[c].ask \in Asks /\ call[c].ask.target \in Target
  BY AsksTyped DEF Inv, Inductive, CallOK, QuestionOK
<1>2. k \in Key /\ DOMAIN call[c].slots = {1}
  BY SlotsTyped
<1>3. ValueOf(k) \in Seq(Key) /\ (ValueOf(k) = <<k>> \/ ValueOf(k) = Null) /\ <<k>> # Null
  BY <1>2 DEF ValueOf, Null
<1>4. CASE IsByHash(c)
  <2>1. call[c].ask.op = "isContract" /\ k = <<CodeHash, call[c].ask.target>>
    BY <1>1, <1>4 DEF QuestionOK, IsByHash
  <2>2. ValueOf(k) = IF call[c].ask.target \in Contracts THEN <<k>> ELSE Null
    BY <2>1 DEF ValueOf
  <2>3. ReadAs(c, ValueOf(k)) = IF call[c].ask.target \in Eoa THEN Null ELSE <<call[c].ask.target>>
    BY <1>1, <1>3, <2>1, <2>2 DEF ReadAs, Contracts
  <2>4. Null \in Seq(Target \cup Slot) /\ <<call[c].ask.target>> \in Seq(Target \cup Slot)
    BY <1>1 DEF Null
  <2>5. QED
    BY <2>1, <2>3, <2>4 DEF Answers
<1>5. CASE ~IsByHash(c)
  <2>1. /\ call[c].ask.op = "getStorage" /\ call[c].target = call[c].ask.target
        /\ call[c].slots = call[c].ask.slots
    BY <1>1, <1>5 DEF QuestionOK, IsRead
  <2>2. ReadAs(c, ValueOf(k)) = ValueOf(k)
    BY <2>1 DEF ReadAs
  <2>3. QED
    BY <1>3, <2>1, <2>2 DEF Answers
<1>6. QED
  BY <1>4, <1>5

\* A target without storage is answered with nothing.
LEMMA NothingAnswers ==
    ASSUME Inv, NEW c \in Call, call[c].pc # "idle", IsRead(c), call[c].target \notin Stores,
           ~Is("zksync")
    PROVE  Null \in Seq(Key) /\ ReadAs(c, Null) = Null /\ Answers(call[c].ask, Null)
<1>1. QuestionOK(c) /\ call[c].target \in Target
  BY SlotsTyped DEF Inv, Inductive, CallOK
<1>2. /\ call[c].ask.op = "getStorage" /\ call[c].target = call[c].ask.target
  BY <1>1 DEF QuestionOK, IsRead, IsByHash
<1>3. ValueOf(<<call[c].ask.target, call[c].ask.slots[1]>>) = Null
  BY <1>1, <1>2, NothingStored
<1>4. QED
  BY <1>2, <1>3 DEF Answers, ReadAs, Null

\* Throws(): the future that is awaited was rejected.
LEMMA ThrowsStep ==
    ASSUME Inv, NEW c \in Call, Throws(c)
    PROVE  Inv'
<1>1. /\ call[c].pc \in {"account", "slot", "need"} /\ Unproven(c) /\ Ends(c, "failed", <<>>)
      /\ UNCHANGED <<settings, rules, map, told, unread, trouble>>
  BY DEF Throws
<1>2. PICK w : w = call[c].on /\ w # None /\ Rejected(w)
  BY <1>1 DEF Unproven
<1>3. AwaitsOK(c)
  BY DEF Inv, Inductive, CallOK
<1>4. \E k : FutureOf(w, k)
  BY <1>1, <1>2, <1>3 DEF AwaitsOK
<1>5. trouble > 0
  BY <1>2, <1>4, RejectedForCause
<1>6. PICK pc, out : pc = "failed" /\ out = <<>>
  OBVIOUS
<1>7. Ends(c, pc, out) /\ out \in Seq(Key)
  BY <1>1, <1>6
<1>8. QED
  BY <1>1, <1>5, <1>6, <1>7, Ending

\* AccountKnown(): there is nothing to read, or the slot is looked for.
LEMMA AccountKnownStep ==
    ASSUME Inv, NEW c \in Call, AccountKnown(c)
    PROVE  Inv'
<1>1. /\ call[c].pc = "account" /\ call \in [Call -> CallRecord] /\ call[c] \in CallRecord
      /\ AwaitsOK(c) /\ IsRead(c) /\ rules = RulesOf(settings.kind) /\ settings \in Settings
  BY DEF AccountKnown, At, Inv, TypeOK, Inductive, CallOK, AwaitsOK
<1>2. PICK k : k = <<call[c].target, call[c].slots[1]>>
  OBVIOUS
<1>3. k \in Key /\ call[c].target \in Target
  BY <1>1, <1>2, SlotsTyped
<1>4. UNCHANGED <<settings, rules, told, unread, trouble>>
  BY DEF AccountKnown
<1>5. CASE Known(c) # Null /\ call[c].target \notin rules.known
  <2>1. Ends(c, "ok", Null) /\ UNCHANGED map
    BY <1>5 DEF AccountKnown
  <2>2. call[c].target \notin Stores /\ ~Is("zksync")
    BY <1>1, <1>3, <1>5, RulesKnown
  <2>3. Null \in Seq(Key) /\ Answers(call[c].ask, Null)
    BY <1>1, <2>2, NothingAnswers
  <2>4. PICK pc, out : pc = "ok" /\ out = Null
    OBVIOUS
  <2>5. Ends(c, pc, out) /\ Answers(call[c].ask, out) /\ out \in Seq(Key)
    BY <2>1, <2>3, <2>4
  <2>6. QED
    BY <1>1, <1>4, <2>1, <2>4, <2>5, Ending
<1>6. CASE ~(Known(c) # Null /\ call[c].target \notin rules.known)
  <2>1. PICK on, new : on = HeldBy(k) /\ new = [call[c] EXCEPT !.pc = "slot", !.on = on]
    OBVIOUS
  <2>2. call' = [call EXCEPT ![c] = new] /\ map' = Touched(map, k)
    BY <1>2, <1>6, <2>1 DEF AccountKnown, Goes
  <2>3. on = None \/ (on \in Write /\ FutureOf(on, k))
    BY <2>1, HeldFuture
  <2>4. /\ call[c].src = <<>> /\ call[c].keys = <<>> /\ call[c].blocker = "none"
        /\ call[c].read = "none" /\ (call[c].shorts # {} => settings.short /\ trouble > 0)
    BY <1>1, NotMade
  <2>5. /\ new \in CallRecord /\ new.pc = "slot" /\ new.ask = call[c].ask
        /\ new.target = call[c].target /\ new.slots = call[c].slots /\ new.on = on
        /\ new.keys = <<>> /\ new.src = <<>> /\ new.shorts = call[c].shorts
        /\ new.blocker = "none" /\ new.read = "none"
    <3>1. on \in {None} \cup Write
      BY <2>3
    <3>2. call[c] \in CallRecord
      BY <1>1
    <3>3. QED
      BY ONLY <2>1, <2>4, <3>1, <3>2, ZenonT(90) DEF CallRecord
  <2>6. call'[c] = new
    BY <1>1, <2>2
  <2>7. call'[c].on = None \/ \A w : w = call'[c].on => FutureOf(w, k)'
    BY <2>2, <2>3, <2>4, <2>5, AwaitsHeld
  <2>8. AwaitsOK(c)' /\ ReadsOK(c)'
    <3>1. /\ call'[c].pc = "slot" /\ call'[c].on = on /\ call'[c].ask = call[c].ask
          /\ call'[c].target = call[c].target /\ call'[c].slots = call[c].slots
          /\ call'[c].read = "none"
      BY <2>5, <2>6
    <3>2. on = None \/ FutureOf(on, k)'
      BY <2>7, <3>1
    <3>3. call'[c].on = None \/ FutureOf(call[c].on, <<call[c].target, call[c].slots[1]>>)'
      BY <1>2, <3>1, <3>2 DEF FutureOf
    <3>4. QED
      BY <1>1, <1>4, <3>1, <3>3 DEF AwaitsOK, ReadsOK, IsRead, IsByHash, Is
  <2>9. Asking(new.ask, new.target, new.slots)
    BY <1>1, <2>5, AskedIs
  <2>10. KeepsMap
    BY <1>3, <2>2, TouchKeeps
  <2>11. QED
    BY <1>1, <1>4, <2>2, <2>4, <2>5, <2>8, <2>9, <2>10, Beginning
<1>7. QED
  BY <1>5, <1>6

\* SlotKnown(): the slot was proven, or is read or proven.
LEMMA SlotKnownStep ==
    ASSUME Inv, NEW c \in Call, SlotKnown(c)
    PROVE  Inv'
<1>1. /\ call[c].pc = "slot" /\ call \in [Call -> CallRecord] /\ call[c] \in CallRecord
      /\ AwaitsOK(c) /\ IsRead(c) /\ Awaited(c) /\ ~Unproven(c)
  BY DEF SlotKnown, At, Inv, TypeOK, Inductive, CallOK, AwaitsOK
<1>2. PICK k, r : k = <<call[c].target, call[c].slots[1]>> /\ r = call[c]
  OBVIOUS
<1>3. /\ k \in Key /\ call[c].target \in Target /\ call[c].slots \in Seq(Slot \cup Target)
      /\ \A i \in DOMAIN call[c].slots : <<call[c].target, call[c].slots[i]>> \in Key
  BY <1>1, <1>2, SlotsTyped
<1>4. /\ call[c].src = <<>> /\ call[c].keys = <<>> /\ call[c].blocker = "none"
      /\ call[c].read = "none" /\ (call[c].shorts # {} => settings.short /\ trouble > 0)
  BY <1>1, NotMade
<1>5. CASE Known(c) # Null
  <2>1. /\ \/ Ends(c, "ok", IF ReadsEdge(c) THEN PathOf(Known(c)) ELSE ReadAs(c, ValueOf(Known(c))))
           \/ ReadsEdge(c) /\ Ends(c, "failed", <<>>)
        /\ UNCHANGED <<settings, rules, map, told, unread, trouble>>
    BY <1>5 DEF SlotKnown
  <2>2. PICK w : w = call[c].on /\ w # None /\ w \in told /\ ~Rejected(w) /\ Known(c) = Proof(w)
    BY <1>1, <1>5 DEF Known, Awaited, Unproven
  <2>3. FutureOf(w, k)
    BY <1>1, <1>2, <2>2 DEF AwaitsOK
  <2>4. Fits(Proof(w), k)
    BY <2>2, <2>3, ProofFits
  <2>5. Known(c) = k
    BY <1>5, <2>2, <2>4 DEF Fits
  <2>6. CASE ~ReadsEdge(c)
    <3>1. PICK pc, out : pc = "ok" /\ out = ReadAs(c, ValueOf(k))
      OBVIOUS
    <3>2. out \in Seq(Key) \cup Seq(Target \cup Slot) /\ Answers(call[c].ask, out)
      BY <1>1, <1>2, <3>1, ValueAnswers
    <3>3. Ends(c, pc, out)
      BY <2>1, <2>5, <2>6, <3>1
    <3>4. QED
      BY <1>1, <2>1, <3>1, <3>2, <3>3, Ending
  <2>7. CASE ReadsEdge(c) /\ Ends(c, "ok", PathOf(Known(c)))
    <3>1. PICK pc, out : pc = "ok" /\ out = PathOf(k)
      OBVIOUS
    <3>2. Ends(c, pc, out)
      BY <2>5, <2>7, <3>1
    <3>3. DOMAIN call[c].slots = {1} /\ call[c].slots[1] \in Target \cup Slot
      <4>1. DOMAIN call[c].slots = {1}
        BY <1>1, SlotsTyped
      <4>2. QED
        BY <1>3, <4>1
    <3>4. out = <<call[c].slots[1]>>
      BY <1>2, <3>1 DEF PathOf
    <3>5. out \in Seq(Key) \cup Seq(Target \cup Slot)
      BY <3>3, <3>4
    <3>6. QED
      BY <1>1, <2>1, <2>7, <3>1, <3>2, <3>5, Ending
  <2>8. CASE ReadsEdge(c) /\ Ends(c, "failed", <<>>)
    <3>1. PICK pc, out : pc = "failed" /\ out = <<>>
      OBVIOUS
    <3>2. Ends(c, pc, out) /\ out \in Seq(Key)
      BY <2>8, <3>1
    <3>3. QED
      BY <1>1, <2>1, <2>8, <3>1, <3>2, Ending
  <2>9. QED
    BY <2>1, <2>6, <2>7, <2>8
<1>6. CASE Known(c) = Null /\ settings.fast /\ ~Is("zksync")
  <2>1. FastRead(c, r, k)
    BY <1>2, <1>6 DEF SlotKnown
  <2>2. r.ask.op = "getStorage" /\ k = <<r.target, r.slots[1]>>
    BY <1>1, <1>2, <1>6 DEF IsRead, IsByHash
  <2>3. Asking(r.ask, r.target, r.slots)
    BY <1>1, <1>2, AskedIs
  <2>4. /\ r \in CallRecord /\ r.src = <<>> /\ r.keys = <<>> /\ r.blocker = "none" /\ r.read = "none"
        /\ (r.shorts # {} => settings.short /\ trouble > 0)
    BY <1>1, <1>2, <1>4
  <2>5. QED
    BY <1>1, <1>3, <1>6, <2>1, <2>2, <2>3, <2>4, FastReadStep
<1>7. CASE Known(c) = Null /\ ~(settings.fast /\ ~Is("zksync"))
  <2>1. PICK t, slots : t = call[c].target /\ slots = call[c].slots
    OBVIOUS
  <2>2. GetProofs(c, r, t, slots)
    BY <1>2, <1>7, <2>1 DEF SlotKnown
  <2>3. Asking(r.ask, t, slots)
    BY <1>1, <1>2, <2>1, AskedIs
  <2>4. t \in Target /\ slots \in Seq(Slot \cup Target) /\ \A i \in DOMAIN slots : <<t, slots[i]>> \in Key
    BY <1>3, <2>1
  <2>5. r.ask.op = "getStorage" => Is("zksync") \/ ~settings.fast
    BY <1>7
  <2>6. /\ r \in CallRecord /\ r.blocker = "none" /\ r.read = "none"
        /\ (r.shorts # {} => settings.short /\ trouble > 0)
    BY <1>1, <1>2, <1>4
  <2>7. QED
    BY <1>4, <2>2, <2>3, <2>4, <2>5, <2>6, Getting
<1>8. QED
  BY <1>5, <1>6, <1>7

\* NeedKnown(): the slots that need no proof are left out.
LEMMA NeedKnownStep ==
    ASSUME Inv, NEW c \in Call, NeedKnown(c)
    PROVE  Inv'
<1>1. /\ call[c].pc = "need" /\ call \in [Call -> CallRecord] /\ call[c] \in CallRecord
      /\ call[c].ask.op = "proveNeed" /\ ~Is("zksync") /\ QuestionOK(c)
      /\ rules = RulesOf(settings.kind) /\ settings \in Settings
  BY DEF NeedKnown, At, Inv, TypeOK, Inductive, CallOK, AwaitsOK
<1>2. PICK t, slots, r :
        /\ t = call[c].target /\ r = call[c]
        /\ slots = IF Known(c) # Null /\ call[c].target \notin rules.proven THEN <<>> ELSE call[c].slots
  OBVIOUS
<1>3. /\ IF Is("zkevm") /\ slots = <<>> /\ ~call[c].ask.required
         THEN /\ Ends(c, "ok", <<>>)
              /\ UNCHANGED <<settings, rules, map, told, unread, trouble>>
         ELSE GetProofs(c, r, t, slots)
  BY <1>2 DEF NeedKnown
<1>4. /\ call[c].src = <<>> /\ call[c].keys = <<>> /\ call[c].blocker = "none"
      /\ call[c].read = "none" /\ (call[c].shorts # {} => settings.short /\ trouble > 0)
  BY <1>1, NotMade
<1>5. /\ t \in Target /\ call[c].slots \in Seq(Slot \cup Target) /\ call[c].ask \in Asks
      /\ \A i \in DOMAIN call[c].slots : <<t, call[c].slots[i]>> \in Key
  BY <1>1, <1>2, SlotsTyped DEF CallRecord, QuestionOK
<1>6. /\ t = call[c].ask.target
      /\ slots = call[c].ask.slots \/ (slots = <<>> /\ t \notin rules.proven)
  BY <1>1, <1>2 DEF QuestionOK, IsByHash
<1>7. slots \in Seq(Slot \cup Target) /\ \A i \in DOMAIN slots : <<t, slots[i]>> \in Key
  <2>1. CASE slots = <<>>
    BY <2>1
  <2>2. CASE slots = call[c].slots
    BY <1>5, <2>2
  <2>3. QED
    BY <1>2, <2>1, <2>2
<1>8. CASE Is("zkevm") /\ slots = <<>> /\ ~call[c].ask.required
  <2>1. PICK pc, out : pc = "ok" /\ out = <<>>
    OBVIOUS
  <2>2. Ends(c, pc, out) /\ out \in Seq(Key) /\ UNCHANGED <<settings, rules, map, told, unread, trouble>>
    BY <1>3, <1>8, <2>1
  <2>3. out = SlotKeys(t, call[c].ask.slots) \/ t \notin Full
    <3>1. CASE slots = call[c].ask.slots
      <4>1. DOMAIN SlotKeys(t, call[c].ask.slots) = {}
        BY <1>8, <3>1 DEF SlotKeys
      <4>2. SlotKeys(t, call[c].ask.slots) = out
        BY <1>8, <2>1, <3>1, <4>1 DEF SlotKeys
      <4>3. QED
        BY <4>2
    <3>2. CASE t \notin rules.proven
      BY <1>1, <3>2, RulesKnown DEF Stores
    <3>3. QED
      BY <1>6, <3>1, <3>2
  <2>4. Answers(call[c].ask, out)
    BY <1>1, <1>6, <2>1, <2>3 DEF Answers
  <2>5. QED
    BY <1>1, <2>1, <2>2, <2>4, Ending
<1>9. CASE ~(Is("zkevm") /\ slots = <<>> /\ ~call[c].ask.required)
  <2>1. GetProofs(c, r, t, slots)
    BY <1>3, <1>9
  <2>2. Asking(r.ask, t, slots)
    BY <1>1, <1>2, <1>5, <1>6 DEF Asking
  <2>3. /\ r \in CallRecord /\ r.blocker = "none" /\ r.read = "none" /\ r.ask.op # "getStorage"
        /\ (r.shorts # {} => settings.short /\ trouble > 0)
    BY <1>1, <1>2, <1>4
  <2>4. QED
    BY <1>4, <1>5, <1>7, <2>1, <2>2, <2>3, Getting
<1>10. QED
  BY <1>8, <1>9

\* The proofs a call gathers fit the slots it asked for.
LEMMA GatheredFit ==
    ASSUME Inv, NEW c \in Call, call[c].pc = "gather",
           \A i \in DOMAIN call[c].src :
               IsOwn(c, i) \/ (call[c].src[i] \in told /\ ~Rejected(call[c].src[i])),
           NEW all, all = StorageProofs(c), NEW t, NEW slots,
           t = call[c].target, slots = call[c].slots
    PROVE  /\ DOMAIN all = 1 .. Len(slots) /\ Len(slots) \in Nat /\ DOMAIN slots = 1 .. Len(slots)
           /\ \A i \in 1 .. Len(slots) : all[i] = <<t, slots[i]>> \/ all[i] = Null
           /\ (\E i \in 1 .. Len(slots) : all[i] = Null) =>
                /\ ~Is("zksync")
                /\ t \notin rules.answers \/ trouble > 0
           /\ \A i \in 1 .. Len(slots) : <<t, slots[i]>> \in Key
<1>1. /\ call[c] \in CallRecord /\ SourcesOK(c) /\ settings \in Settings
      /\ rules = RulesOf(settings.kind)
  BY DEF Inv, TypeOK, Inductive, CallOK
<1>2. PICK keys, src : keys = call[c].keys /\ src = call[c].src
  OBVIOUS
<1>3. /\ t \in Target /\ slots \in Seq(Slot \cup Target) /\ src \in Seq(Write) /\ keys \in Seq(Key)
      /\ Len(keys) = Len(src) /\ keys = ProofKeys(t, slots)
  BY <1>1, <1>2 DEF CallRecord, SourcesOK
<1>4. FirstSlot \in {1, 2} /\ (rules.accounts <=> FirstSlot = 2)
  BY <1>1, RulesKnown DEF FirstSlot
<1>5. \A i \in DOMAIN slots : <<t, slots[i]>> \in Key
  BY SlotsTyped
<1>6. /\ DOMAIN src = 1 .. Len(keys) /\ Len(keys) \in Nat
      /\ Len(slots) \in Nat /\ DOMAIN slots = 1 .. Len(slots)
  BY <1>3, LenProperties
<1>7. /\ Len(keys) = Len(slots) + FirstSlot - 1
      /\ \A i \in 1 .. Len(slots) : keys[FirstSlot + i - 1] = <<t, slots[i]>>
  <2>1. /\ Len(ProofKeys(t, slots)) = Len(slots) + FirstSlot - 1
        /\ \A i \in 1 .. Len(slots) : ProofKeys(t, slots)[FirstSlot + i - 1] = <<t, slots[i]>>
    <3>1. t \in Target /\ slots \in Seq(Slot \cup Target)
      BY <1>3
    <3>2. QED
      BY ONLY <1>4, <1>5, <3>1, ProofKeysTyped
  <2>2. QED
    BY <1>3, <2>1
<1>8. all = [i \in 1 .. Len(slots) |-> ProofFor(c, FirstSlot + i - 1)]
  BY <1>6 DEF StorageProofs
<1>9. ASSUME NEW i \in 1 .. Len(slots) PROVE Fits(all[i], <<t, slots[i]>>)
  <2>1. PICK x : x = FirstSlot + i - 1
    OBVIOUS
  <2>2. x \in DOMAIN src /\ keys[x] = <<t, slots[i]>> /\ all[i] = ProofFor(c, x)
    BY <1>4, <1>6, <1>7, <1>8, <2>1
  <2>3. CASE IsOwn(c, x)
    <3>1. /\ call[c].blocker = "resolved" /\ (x < FirstSlot \/ call[c].src[x] = <<c, x>>)
          /\ ProofFor(c, x) = call[c].got[x]
      BY <2>3 DEF IsOwn, IsMissing, ProofFor
    <3>2. Fits(call[c].got[x], call[c].keys[x])
      BY <1>1, <1>2, <2>2, <3>1 DEF SourcesOK
    <3>3. QED
      BY <1>2, <2>2, <3>1, <3>2
  <2>4. CASE ~IsOwn(c, x)
    <3>1. PICK w, k : w = call[c].src[x] /\ k = call[c].keys[x]
      OBVIOUS
    <3>2. w \in told /\ ~Rejected(w) /\ FutureOf(w, k)
      BY <1>1, <1>2, <2>2, <2>4, <3>1 DEF SourcesOK
    <3>3. Fits(Proof(w), k)
      BY <3>2, ProofFits
    <3>4. ProofFor(c, x) = Proof(w)
      BY <2>4, <3>1 DEF ProofFor
    <3>5. QED
      BY <1>2, <2>2, <3>1, <3>3, <3>4
  <2>5. QED
    BY <2>3, <2>4
<1>10. ASSUME NEW i \in 1 .. Len(slots), all[i] = Null
       PROVE  ~Is("zksync") /\ (t \notin rules.answers \/ trouble > 0)
  <2>1. <<t, slots[i]>> # Null /\ <<t, slots[i]>>[1] = t
    BY DEF Null
  <2>2. t \notin rules.answers \/ (settings.short /\ trouble > 0)
    BY <1>9, <1>10, <2>1 DEF Fits
  <2>3. Is("zksync") => ~settings.short /\ rules.answers = Target
    BY <1>1, KnownLimits, RulesKnown DEF Is
  <2>4. QED
    BY <1>3, <2>2, <2>3
<1>11. \A i \in 1 .. Len(slots) : all[i] = <<t, slots[i]>> \/ all[i] = Null
  BY <1>9 DEF Fits
<1>12. QED
  BY <1>5, <1>6, <1>8, <1>10, <1>11

\* Gather(): a call has all proofs that it is going to get.
LEMMA GatherStep ==
    ASSUME Inv, NEW c \in Call, Gather(c)
    PROVE  Inv'
<1>1. /\ call[c].pc = "gather" /\ call[c] \in CallRecord /\ CallOK(c) /\ QuestionOK(c)
      /\ rules = RulesOf(settings.kind) /\ settings \in Settings
  BY DEF Gather, Inv, TypeOK, Inductive, CallOK
<1>2. PICK t, slots, all, given :
        /\ t = call[c].target /\ slots = call[c].slots
        /\ all = StorageProofs(c) /\ given = Given(c, all)
  OBVIOUS
<1>3. /\ \A i \in DOMAIN call[c].src :
            IsOwn(c, i) \/ (call[c].src[i] \in told /\ ~Rejected(call[c].src[i]))
      /\ \/ Counted(c, all) /\ Encodable(c, given) /\ Ends(c, "ok", OutOf(c, given))
         \/ /\ ~(Counted(c, all) /\ Encodable(c, given)) \/ ReadsEdge(c)
            /\ Ends(c, "failed", <<>>)
      /\ UNCHANGED <<settings, rules, map, told, unread, trouble>>
  BY <1>2 DEF Gather
<1>4. /\ DOMAIN all = 1 .. Len(slots) /\ Len(slots) \in Nat /\ DOMAIN slots = 1 .. Len(slots)
      /\ \A i \in 1 .. Len(slots) : all[i] = <<t, slots[i]>> \/ all[i] = Null
      /\ (\E i \in 1 .. Len(slots) : all[i] = Null) =>
            ~Is("zksync") /\ (t \notin rules.answers \/ trouble > 0)
      /\ \A i \in 1 .. Len(slots) : <<t, slots[i]>> \in Key
  BY <1>1, <1>2, <1>3, GatheredFit
<1>5. Lacks(all) <=> \E i \in 1 .. Len(slots) : all[i] = Null
  BY <1>4 DEF Lacks
<1>6. ~Lacks(all) => all = SlotKeys(t, slots) /\ all \in Seq(Key) /\ Len(all) = Len(slots)
  <2> SUFFICES ASSUME ~Lacks(all)
               PROVE  all = SlotKeys(t, slots) /\ all \in Seq(Key) /\ Len(all) = Len(slots)
    OBVIOUS
  <2>1. SlotKeys(t, slots) = [i \in 1 .. Len(slots) |-> <<t, slots[i]>>]
    BY <1>4 DEF SlotKeys
  <2>2. all = [i \in DOMAIN all |-> all[i]]
    BY <1>2 DEF StorageProofs
  <2>3. all = SlotKeys(t, slots)
    BY <1>4, <1>5, <2>1, <2>2
  <2>4. all \in Seq(Key)
    BY <1>4, <2>1, <2>3, IsASeq
  <2>5. QED
    BY <1>4, <2>3, <2>4, LenProperties
<1>7. /\ t \in Target /\ Stores \subseteq rules.proven
      /\ ~Is("zksync") => Stores \subseteq rules.checked /\ rules.checked \subseteq rules.answers
      /\ Is("zksync") => rules.proven = Target
  BY <1>1, <1>2, RulesKnown DEF CallRecord
\* What is given is everything, or there is nothing to give.
<1>8. Counted(c, all) =>
        \/ ~Lacks(all) /\ given = all
        \/ given = <<>> /\ t \notin Stores /\ ~Is("zksync")
  <2>1. Is("zksync") => ~Lacks(all)
    BY <1>4, <1>5
  <2>2. QED
    BY <1>2, <1>7, <2>1 DEF Counted, Given
<1>9. CASE ~(Counted(c, all) /\ Encodable(c, given))
  <2>1. trouble > 0
    <3>1. CASE ~Counted(c, all)
      BY <1>2, <1>4, <1>5, <1>7, <3>1 DEF Counted
    <3>2. CASE Counted(c, all) /\ ~Encodable(c, given)
      <4>1. Is("zksync") /\ Len(given) # Len(slots)
        BY <1>2, <3>2 DEF Encodable
      <4>2. QED
        BY <1>6, <1>8, <3>2, <4>1
    <3>3. QED
      BY <1>9, <3>1, <3>2
  <2>2. PICK pc, out : pc = "failed" /\ out = <<>>
    OBVIOUS
  <2>3. Ends(c, pc, out) /\ out \in Seq(Key)
    BY <1>3, <1>9, <2>2
  <2>4. QED
    BY <1>1, <1>3, <2>1, <2>2, <2>3, Ending
<1>a. CASE ReadsEdge(c) /\ Ends(c, "failed", <<>>)
  <2>1. PICK pc, out : pc = "failed" /\ out = <<>>
    OBVIOUS
  <2>2. Ends(c, pc, out) /\ out \in Seq(Key)
    BY <1>a, <2>1
  <2>3. QED
    BY <1>1, <1>3, <1>a, <2>1, <2>2, Ending
<1>10. CASE Counted(c, all) /\ Encodable(c, given) /\ Ends(c, "ok", OutOf(c, given))
  <2>1. PICK pc, out : pc = "ok" /\ out = OutOf(c, given)
    OBVIOUS
  <2>2. Ends(c, pc, out)
    BY <1>3, <1>10, <2>1
  <2>3. given \in Seq(Key)
    <3>1. CASE given = all /\ ~Lacks(all)
      BY <1>6, <3>1
    <3>2. CASE given = <<>>
      BY <3>2
    <3>3. QED
      BY <1>8, <1>10, <3>1, <3>2
  <2>4. /\ out \in Seq(Key) \cup Seq(Target \cup Slot)
        /\ Answers(call[c].ask, out) \/ ReadsEdge(c)
    <3>1. CASE call[c].ask.op = "getProofs"
      <4>1. out = given
        BY <2>1, <3>1 DEF OutOf
      <4>2. t = call[c].ask.target /\ slots = call[c].ask.slots
        BY <1>1, <1>2, <3>1 DEF QuestionOK, IsByHash
      <4>3. out = SlotKeys(t, slots) \/ (out = <<>> /\ t \notin Full)
        BY <1>6, <1>8, <1>10, <4>1 DEF Stores
      <4>4. QED
        BY <2>3, <3>1, <4>1, <4>2, <4>3 DEF Answers
    <3>2. CASE call[c].ask.op = "proveNeed"
      <4>1. out = IF t \in rules.proven THEN given ELSE <<>>
        BY <1>2, <2>1, <3>2 DEF OutOf, ProvenOf
      <4>2. t = call[c].ask.target /\ (slots = call[c].ask.slots \/ t \notin rules.proven)
        BY <1>1, <1>2, <3>2 DEF QuestionOK, IsByHash
      <4>3. out = SlotKeys(t, call[c].ask.slots) \/ (out = <<>> /\ t \notin Full)
        BY <1>6, <1>7, <1>8, <1>10, <4>1, <4>2 DEF Stores
      <4>4. out \in Seq(Key)
        BY <2>3, <4>1
      <4>5. QED
        BY <3>2, <4>2, <4>3, <4>4 DEF Answers
    <3>3. CASE call[c].ask.op = "isContract" /\ ~Is("zksync")
      <4>1. out = IF t \in Contracts THEN <<t>> ELSE Null
        BY <1>2, <2>1, <3>3 DEF OutOf
      <4>2. t = call[c].ask.target
        BY <1>1, <1>2, <3>3 DEF QuestionOK, IsByHash
      <4>3. out = IF t \in Eoa THEN Null ELSE <<t>>
        BY <1>7, <4>1 DEF Contracts
      <4>4. out \in Seq(Target \cup Slot)
        BY <1>7, <4>1, TargetOut
      <4>5. QED
        BY <3>3, <4>2, <4>3, <4>4 DEF Answers
    <3>4. CASE IsRead(c)
      <4>1. out = ReadOf(c, given)
        BY <2>1, <3>4 DEF OutOf, IsRead, IsByHash
      <4>2. PICK k : k = <<t, slots[1]>>
        OBVIOUS
      <4>3. Len(slots) = 1
        BY <1>1, <1>2, <3>4, SlotsTyped
      <4>4. CASE given = <<>> \/ t \notin rules.proven
        <5>1. out = ReadAs(c, Null)
          BY <1>2, <4>1, <4>4 DEF ReadOf
        <5>2. t \notin Stores /\ ~Is("zksync")
          <6>1. Len(given) = 1 => given # <<>>
            OBVIOUS
          <6>2. QED
            BY <1>6, <1>7, <1>8, <1>10, <4>3, <4>4, <6>1
        <5>3. out = Null /\ Null \in Seq(Key) /\ Answers(call[c].ask, Null)
          BY <1>1, <1>2, <3>4, <5>1, <5>2, NothingAnswers
        <5>4. QED
          BY <5>3
      <4>5. CASE ~(given = <<>> \/ t \notin rules.proven)
        <5>1. given = all /\ ~Lacks(all)
          BY <1>8, <1>10, <4>5
        <5>2. given[1] = k
          BY <1>4, <1>5, <4>2, <4>3, <5>1
        <5>3. CASE ~ReadsEdge(c)
          <6>1. out = ReadAs(c, ValueOf(k))
            BY <1>2, <4>1, <4>5, <5>2, <5>3 DEF ReadOf
          <6>2. QED
            BY <1>1, <1>2, <3>4, <4>2, <6>1, ValueAnswers
        <5>4. CASE ReadsEdge(c)
          <6>1. out = <<t>>
            BY <1>2, <4>1, <4>5, <5>4 DEF ReadOf, PathOf
          <6>2. out \in Seq(Target \cup Slot)
            BY <1>7, <6>1
          <6>3. QED
            BY <5>4, <6>2
        <5>5. QED
          BY <5>3, <5>4
      <4>6. QED
        BY <4>4, <4>5
    <3>5. call[c].ask.op \in {"getProofs", "getStorage", "isContract", "proveNeed"}
      BY <1>1, AsksTyped DEF QuestionOK
    <3>6. QED
      BY <3>1, <3>2, <3>3, <3>4, <3>5 DEF IsRead, IsByHash
  <2>5. QED
    BY <1>1, <1>3, <2>1, <2>2, <2>4, Ending
<1>11. QED
  BY <1>3, <1>9, <1>a, <1>10

\* GatherFails(): another call's request failed.
LEMMA GatherFailsStep ==
    ASSUME Inv, NEW c \in Call, GatherFails(c)
    PROVE  Inv'
<1>1. PICK i \in DOMAIN call[c].src : Rejected(call[c].src[i])
  BY DEF GatherFails
<1>2. PICK w, k : w = call[c].src[i] /\ k = call[c].keys[i]
  OBVIOUS
<1>3. FutureOf(w, k) /\ Rejected(w)
  BY <1>1, <1>2 DEF Inv, Inductive, CallOK, SourcesOK
<1>4. trouble > 0
  BY <1>3, RejectedForCause
<1>5. PICK pc, out : pc = "failed" /\ out = <<>>
  OBVIOUS
<1>6. /\ call[c].pc = "gather" /\ Ends(c, pc, out) /\ out \in Seq(Key)
      /\ UNCHANGED <<settings, rules, map, told, unread, trouble>>
  BY <1>5 DEF GatherFails
<1>7. QED
  BY <1>4, <1>5, <1>6, Ending

\* FastDone(): the read that is awaited has ended.
LEMMA FastDoneStep ==
    ASSUME Inv, NEW c \in Call, FastDone(c)
    PROVE  Inv'
<1>1. PICK k, d, state : k = call[c].awaits[2] /\ d = call[c].awaits[1] /\ state = call[d].read
  OBVIOUS
<1>2. /\ call[c].pc = "fast" /\ state # "out"
      /\ IF state = "err" THEN Ends(c, "failed", <<>>)
         ELSE Ends(c, "ok", IF Len(k) = 2 THEN ValueOf(k)
                            ELSE IF k[1] \in Contracts THEN k ELSE Null)
      /\ UNCHANGED <<settings, rules, map, told, unread, trouble>>
  BY <1>1 DEF FastDone
<1>3. /\ ~Is("zksync") /\ d \in Call /\ state # "none" /\ QuestionOK(c)
      /\ \/ call[c].ask.op = "isContract" /\ k = <<call[c].target>>
         \/ call[c].ask.op = "getStorage" /\ k = <<call[c].target, call[c].slots[1]>>
  BY <1>1, <1>2 DEF Inv, Inductive, CallOK, ReadsOK
<1>4. CASE state = "err"
  <2>1. TroubleOK(d)
    BY <1>3 DEF Inv, Inductive, CallOK
  <2>2. trouble > 0
    BY <1>1, <1>4, <2>1 DEF TroubleOK
  <2>3. PICK pc, out : pc = "failed" /\ out = <<>>
    OBVIOUS
  <2>4. Ends(c, pc, out) /\ out \in Seq(Key)
    BY <1>2, <1>4, <2>3
  <2>5. QED
    BY <1>2, <2>2, <2>3, <2>4, Ending
<1>5. CASE state # "err"
  <2>1. PICK pc, out :
            /\ pc = "ok"
            /\ out = IF Len(k) = 2 THEN ValueOf(k) ELSE IF k[1] \in Contracts THEN k ELSE Null
    OBVIOUS
  <2>2. Ends(c, pc, out)
    BY <1>2, <1>5, <2>1
  <2>3. out \in Seq(Key) \cup Seq(Target \cup Slot) /\ Answers(call[c].ask, out)
    <3>1. CASE call[c].ask.op = "getStorage" /\ k = <<call[c].target, call[c].slots[1]>>
      <4>1. IsRead(c) /\ out = ValueOf(k)
        BY <2>1, <3>1 DEF IsRead
      <4>2. ReadAs(c, ValueOf(k)) = ValueOf(k)
        BY <3>1 DEF ReadAs
      <4>3. QED
        BY <1>2, <3>1, <4>1, <4>2, ValueAnswers
    <3>2. CASE call[c].ask.op = "isContract" /\ k = <<call[c].target>>
      <4>1. call[c].target = call[c].ask.target /\ call[c].target \in Target
        BY <1>2, <1>3, <3>2, SlotsTyped DEF QuestionOK, IsByHash
      <4>2. Len(k) = 1 /\ k[1] = call[c].target
        BY <3>2
      <4>3. out = IF call[c].target \in Eoa THEN Null ELSE <<call[c].target>>
        BY <2>1, <3>2, <4>1, <4>2 DEF Contracts
      <4>4. out \in Seq(Target \cup Slot)
        BY <4>1, <4>3, TargetOut
      <4>5. QED
        BY <3>2, <4>1, <4>3, <4>4 DEF Answers
    <3>3. QED
      BY <1>3, <3>1, <3>2
  <2>4. QED
    BY <1>2, <2>1, <2>2, <2>3, Ending
<1>6. QED
  BY <1>4, <1>5

\* FastAnswer(): a read ends, and is kept as failed or forgotten.
LEMMA FastAnswerStep ==
    ASSUME Inv, NEW c \in Call, FastAnswer(c)
    PROVE  Inv'
<1>1. /\ call \in [Call -> CallRecord] /\ call[c] \in CallRecord /\ CallOK(c) /\ trouble \in 0 .. MaxTrouble
      /\ unread \subseteq Key /\ (unread # {} => trouble > 0) /\ MaxTrouble \in Nat
  BY ProverAssumption DEF Inv, TypeOK, Inductive
<1>2. PICK state, k :
        /\ state \in {"ok", "err"} /\ k = call[c].awaits[2] /\ call[c].read = "out"
        /\ state = "err" => trouble < MaxTrouble
        /\ trouble' = IF state = "err" THEN trouble + 1 ELSE trouble
        /\ Goes(c, [call[c] EXCEPT !.read = state])
        /\ unread' = IF Cached(k) /\ state = "err" THEN unread \cup {k} ELSE unread
        /\ UNCHANGED <<settings, rules, map, told>>
  BY DEF FastAnswer
<1>3. /\ trouble' \in 0 .. MaxTrouble /\ trouble <= trouble' /\ (trouble > 0 => trouble' > 0)
      /\ (state = "err" => trouble' > 0) /\ trouble \in Nat /\ trouble' \in Nat
  BY <1>1, <1>2
<1>4. call[c].pc \in {"fast", "ok", "failed"} /\ k \in Key /\ call[c].awaits[1] = c
  BY <1>1, <1>2 DEF CallOK, ReadsOK
<1>5. unread' \subseteq Key /\ (unread' # {} => trouble' > 0)
  BY <1>1, <1>2, <1>3, <1>4
<1>6. PICK new : new = [call[c] EXCEPT !.read = state]
  OBVIOUS
<1>7. call' = [call EXCEPT ![c] = new] /\ call'[c] = new
  BY <1>1, <1>2, <1>6 DEF Goes
<1>8. new \in CallRecord
  BY <1>1, <1>2, <1>6 DEF CallRecord
<1>9. /\ new.ask = call[c].ask /\ new.target = call[c].target /\ new.slots = call[c].slots
      /\ new.keys = call[c].keys /\ new.src = call[c].src /\ new.miss = call[c].miss
      /\ new.shorts = call[c].shorts /\ new.blocker = call[c].blocker /\ new.got = call[c].got
      /\ new.read = state /\ new.awaits = call[c].awaits /\ new.pc = call[c].pc /\ new.out = call[c].out
  BY <1>1, <1>6 DEF CallRecord
<1>10. MovesOn(c, new)
  BY <1>2, <1>7, <1>9 DEF MovesOn
<1>11. KeepsMap
  BY <1>2, SameMap
<1>12. QuestionOK(c)'
  BY <1>2, <1>4, <1>7, <1>9, QuestionStays
<1>13. SourcesOK(c)'
  <2>1. \A i \in DOMAIN call'[c].src : FutureOf(call[c].src[i], call[c].keys[i])'
    BY <1>10, SourcesStay
  <2>2. FirstSlot' = FirstSlot
    BY <1>2 DEF FirstSlot
  <2>3. ASSUME NEW i, Fits(call[c].got[i], call[c].keys[i])
        PROVE  Fits(call[c].got[i], call[c].keys[i])'
    BY <1>2, <1>3, <1>7, <1>9, <2>3 DEF Fits
  <2>4. SourcesOK(c)
    BY <1>1 DEF CallOK
  <2>5. QED
    BY <1>4, <1>7, <1>9, <2>1, <2>2, <2>3, <2>4 DEF SourcesOK
<1>a. ReadsEdge(c)' <=> ReadsEdge(c)
  <2>1. /\ call'[c].ask = call[c].ask /\ call'[c].target = call[c].target
        /\ call'[c].awaits = call[c].awaits /\ settings' = settings
    BY <1>2, <1>7, <1>9
  <2>2. QED
    BY <2>1 DEF ReadsEdge, Is
<1>14. TroubleOK(c)'
  BY <1>1, <1>2, <1>3, <1>7, <1>9, <1>a DEF CallOK, TroubleOK
<1>15. AwaitsOK(c)' /\ OutOK(c)'
  BY <1>1, <1>4, <1>7, <1>9, <1>a DEF CallOK, AwaitsOK, OutOK
<1>16. ReadsOK(c)'
  <2>1. \A d \in Call : call[d].read # "none" => call'[d].read # "none"
    BY <1>1, <1>2, <1>7, <1>9
  <2>2. ReadsOK(c)
    BY <1>1 DEF CallOK
  <2>3. QED
    BY <1>2, <1>7, <1>9, <2>1, <2>2 DEF ReadsOK, Is
<1>17. QED
  BY <1>2, <1>3, <1>5, <1>8, <1>10, <1>11, <1>12, <1>13, <1>14, <1>15, <1>16, Moving DEF CallOK

----------------------------------------------------------------------------
(* The invariant holds. *)

\* Nothing happens, or a failure of a fast read is forgotten: Expire().
LEMMA QuietStep ==
    ASSUME Inv, UNCHANGED <<settings, rules, map, call, told, trouble>>, unread' \subseteq unread
    PROVE  Inv'
<1>1. TypeOK'
  BY DEF Inv, TypeOK
<1>2. \A w, k : FutureOf(w, k) => FutureOf(w, k)'
  BY DEF FutureOf
<1>3. ASSUME NEW c \in Call
      PROVE  CallOK(c)'
  <2>1. CallOK(c)
    BY DEF Inv, Inductive
  <2>2. QuestionOK(c)'
    BY <2>1 DEF CallOK, QuestionOK, IsByHash, Is
  <2>3. SourcesOK(c)'
    BY <2>1 DEF CallOK, SourcesOK, FutureOf, Fits, ProofKeys, Missing, IsMissing, FirstSlot
  <2>a. ReadsEdge(c)' <=> ReadsEdge(c)
    BY DEF ReadsEdge, Is
  <2>4. TroubleOK(c)' /\ ReadsOK(c)' /\ OutOK(c)'
    BY <2>1, <2>a DEF CallOK, TroubleOK, ReadsOK, OutOK, Is
  <2>5. AwaitsOK(c)'
    BY <2>1 DEF CallOK, AwaitsOK, IsRead, IsByHash, Is, FutureOf
  <2>6. QED
    BY <2>2, <2>3, <2>4, <2>5 DEF CallOK
<1>4. MapOK'
  BY DEF Inv, Inductive, MapOK, FutureOf, Rejected
<1>5. HeldOK'
  BY DEF Inv, Inductive, HeldOK, Roomy
<1>6. QED
  BY <1>1, <1>3, <1>4, <1>5 DEF Inv, Inductive

\* At first no call was made and the LRU is empty.
LEMMA InvInit ==
    ASSUME Init
    PROVE  Inv
<1>1. /\ settings \in Settings /\ rules = RulesOf(settings.kind) /\ map = <<>>
      /\ told = {} /\ unread = {} /\ trouble = 0 /\ call = [c \in Call |-> Idle]
  BY DEF Init
<1>2. settings.max \in Nat /\ MaxTrouble \in Nat
  BY <1>1, ProverAssumption
<1>3. Idle \in CallRecord
  <2>1. /\ <<>> \in Seq(Slot \cup Target) /\ <<>> \in Seq(Key) /\ <<>> \in Seq(Write)
        /\ <<>> \in Seq(Key \cup {Null}) /\ CodeHash \in Target
    BY DEF Target
  <2>2. QED
    BY <2>1 DEF Idle, CallRecord
<1>4. map \in Seq(Entries(Key, Write)) /\ KeysDiffer(map) /\ Len(map) = 0 /\ DOMAIN map = {}
  BY <1>1 DEF KeysDiffer
<1>5. TypeOK
  <2>1. call \in [Call -> CallRecord]
    BY <1>1, <1>3
  <2>2. QED
    BY <1>1, <1>2, <1>4, <2>1 DEF TypeOK
<1>6. ASSUME NEW c \in Call
      PROVE  CallOK(c)
  <2>1. /\ call[c].pc = "idle" /\ call[c].blocker = "none" /\ call[c].src = <<>>
        /\ call[c].keys = <<>> /\ call[c].shorts = {} /\ call[c].read = "none"
    BY <1>1 DEF Idle
  <2>2. Len(call[c].keys) = Len(call[c].src) /\ DOMAIN call[c].src = {}
    BY <2>1
  <2>3. SourcesOK(c)
    BY <2>1, <2>2 DEF SourcesOK
  <2>4. QED
    BY <2>1, <2>3 DEF CallOK, QuestionOK, TroubleOK, AwaitsOK, ReadsOK, OutOK
<1>7. MapOK
  BY <1>1, <1>2, <1>4 DEF MapOK
<1>8. HeldOK
  BY <1>1 DEF HeldOK, Idle
<1>9. QED
  BY <1>1, <1>5, <1>6, <1>7, <1>8 DEF Inv, Inductive

\* Every step of every call, of the node and of the handlers keeps it.
LEMMA InvNext ==
    ASSUME Inv, [Next]_vars
    PROVE  Inv'
<1>1. CASE UNCHANGED vars
  BY <1>1, QuietStep DEF vars
<1>2. ASSUME NEW c \in Call, NEW a \in Asks,
             AskProofs(c, a) \/ AskContract(c, a) \/ AskStorage(c, a) \/ AskNeed(c, a)
      PROVE  Inv'
  BY <1>2, AskProofsStep, AskContractStep, AskStorageStep, AskNeedStep
<1>3. ASSUME NEW c \in Call, Throws(c) \/ AccountKnown(c) \/ SlotKnown(c) \/ NeedKnown(c)
      PROVE  Inv'
  BY <1>3, ThrowsStep, AccountKnownStep, SlotKnownStep, NeedKnownStep
<1>4. ASSUME NEW c \in Call, NEW b \in call[c].todo, Answer(c, b)
      PROVE  Inv'
  BY <1>4, AnswerStep
<1>5. ASSUME NEW c \in Call, Gather(c) \/ GatherFails(c) \/ FastAnswer(c) \/ FastDone(c)
      PROVE  Inv'
  BY <1>5, GatherStep, GatherFailsStep, FastAnswerStep, FastDoneStep
<1>6. ASSUME NEW w \in Untold, Tell(w)
      PROVE  Inv'
  BY <1>6, TellStep
<1>7. ASSUME NEW c \in Call, Fail(c)
      PROVE  Inv'
  BY <1>7, FailStep
<1>8. ASSUME NEW k \in unread, Expire(k)
      PROVE  Inv'
  BY <1>8, QuietStep DEF Expire
<1>9. QED
  BY <1>1, <1>2, <1>3, <1>4, <1>5, <1>6, <1>7, <1>8 DEF Next, Progress

\* The invariant holds of every behaviour.
THEOREM InvHolds == Spec => []Inv
<1>1. Init => Inv
  BY InvInit
<1>2. Inv /\ [Next]_vars => Inv'
  BY InvNext
<1>3. QED
  BY <1>1, <1>2, PTL DEF Spec

----------------------------------------------------------------------------
(* What follows from it. *)

\* The LRU, the calls and their futures are what they are declared to be.
THEOREM TypeCorrect == Spec => []TypeOK
<1>1. Inv => TypeOK
  BY DEF Inv
<1>2. QED
  BY <1>1, InvHolds, PTL

\* A call that returns has the value, or the proofs in its order, that it asked
\* for: getStorage(), isContract(), getProofs() and _proveNeed() of all provers,
\* for any batch size and any LRU.  Left out is what Starknet's getStorage() takes
\* from a proof, which is not the value.
THEOREM CallsAreAnswered == Spec => []AnswersTheQuestion
<1>1. ASSUME Inv
      PROVE  AnswersTheQuestion
  <2> SUFFICES ASSUME NEW c \in Call, call[c].pc = "ok", ~ReadsEdge(c), NEW a, a = call[c].ask
               PROVE  CASE a.op = "getStorage" -> call[c].out = ValueOf(<<a.target, a.slots[1]>>)
                        [] a.op = "isContract" ->
                             call[c].out = IF a.target \in Eoa THEN Null ELSE <<a.target>>
                        [] OTHER -> \/ call[c].out = SlotKeys(a.target, a.slots)
                                    \/ call[c].out = <<>> /\ a.target \notin Full
    BY DEF AnswersTheQuestion
  <2>1. OutOK(c)
    BY <1>1 DEF Inv, Inductive, CallOK
  <2>2. QED
    BY <2>1 DEF OutOK, Answers
<1>2. QED
  BY <1>1, InvHolds, PTL

\* What the proof LRU keeps under a key is the proof of that key.
THEOREM ProofsAreOfTheirKey == Spec => []KeepsItsProof
<1>1. ASSUME Inv
      PROVE  KeepsItsProof
  <2> SUFFICES ASSUME NEW i \in DOMAIN map, ~map[i].pending
               PROVE  \/ Proof(map[i].from) = map[i].key
                      \/ /\ Proof(map[i].from) = Null
                         /\ trouble > 0 \/ map[i].key[1] \notin rules.answers
    BY DEF KeepsItsProof
  <2>1. PICK w, k : w = map[i].from /\ k = map[i].key
    OBVIOUS
  <2>2. w \in told /\ FutureOf(w, k) /\ ~Rejected(w)
    BY <1>1, <2>1 DEF Inv, Inductive, MapOK
  <2>3. Fits(Proof(w), k)
    BY <1>1, <2>2, ProofFits
  <2>4. QED
    BY <2>1, <2>3 DEF Fits
<1>2. QED
  BY <1>1, InvHolds, PTL

\* "must setup blocks before await": with room for all keys no proof is fetched
\* twice unless the first request failed.
THEOREM ProofsAreFetchedOnce == Spec => []FetchedOnce
<1>1. ASSUME Inv
      PROVE  FetchedOnce
  <2> SUFFICES ASSUME rules.shared, Roomy,
                      NEW c \in Call, call[c].blocker \in {"waiting", "resolved"},
                      NEW d \in Call, call[d].blocker \in {"waiting", "resolved"},
                      NEW i \in DOMAIN call[c].keys, NEW j \in DOMAIN call[d].keys,
                      call[c].keys[i] = call[d].keys[j],
                      IsMissing(c, call[c].src, i), IsMissing(d, call[d].src, j)
               PROVE  c = d /\ i = j
    BY DEF FetchedOnce
  <2>1. /\ call[c] \in CallRecord /\ call[d] \in CallRecord
        /\ Len(call[c].keys) = Len(call[c].src) /\ Len(call[d].keys) = Len(call[d].src)
    BY <1>1 DEF Inv, TypeOK, Inductive, CallOK, SourcesOK
  <2>2. i \in DOMAIN call[c].src /\ j \in DOMAIN call[d].src
    BY <2>1 DEF CallRecord
  <2>3. call[c].src[i] = <<c, i>> /\ call[d].src[j] = <<d, j>>
    BY DEF IsMissing
  <2>4. PICK x \in DOMAIN map : map[x].key = call[c].keys[i] /\ map[x].from = <<c, i>>
    BY <1>1, <2>2, <2>3 DEF Inv, Inductive, HeldOK
  <2>5. PICK y \in DOMAIN map : map[y].key = call[d].keys[j] /\ map[y].from = <<d, j>>
    BY <1>1, <2>2, <2>3 DEF Inv, Inductive, HeldOK
  <2>6. x = y
    BY <1>1, <2>4, <2>5 DEF Inv, Inductive, MapOK, KeysDiffer
  <2>7. QED
    BY <2>4, <2>5, <2>6
<1>2. QED
  BY <1>1, InvHolds, PTL

\* A rejected future does not stay in the proof LRU once its handler has run, and
\* no answered one is still thought to be on its way.
THEOREM FailuresAreForgotten == Spec => []FailureForgotten
<1>1. Inv => FailureForgotten
  BY DEF Inv, Inductive, MapOK, FailureForgotten
<1>2. QED
  BY <1>1, InvHolds, PTL

\* No call fails while the node answers everything, but Starknet's getStorage()
\* where it takes the value from a proof.
THEOREM CallsFailForCause == Spec => []FailsForCause
<1>1. ASSUME Inv
      PROVE  FailsForCause
  <2>1. \A c \in Call : call[c].pc = "failed" => trouble > 0 \/ ReadsEdge(c)
    BY <1>1 DEF Inv, Inductive, CallOK, TroubleOK
  <2>2. QED
    BY <2>1 DEF FailsForCause
<1>2. QED
  BY <1>1, InvHolds, PTL
=============================================================================
