----------------------- MODULE SessionDeliveryProofs ------------------------
(***************************************************************************)
(* That a party opens a message once at most, for every value of the limits *)
(* that drops no session it still needs, and that a message counts as a    *)
(* duplicate only if it was opened, as long as no message key is trimmed.  *)
(***************************************************************************)
EXTENDS SessionKeyProofs

-----------------------------------------------------------------------------
(* OpensOnce.  A message that was opened is spent in every state that could   *)
(* open it, and its prekey message sets up no new one.                        *)

\* No session of this base key can be set up (again): its one-time prekey is gone,
\* or it had none and the session is there.
Burnt(p, agreement) ==
  \A k \in PreKeysFor(p) : {k.base} = agreement =>
    \/ ~(Range(k.oneTime) \subseteq prekeys[p])
    \/ k.oneTime = <<>> /\ Has(p, k.base)

\* The state does not open the message: its key is used up, or the ratchet turns
\* to another chain.
Spent(s, m) ==
  /\ \A c \in ChainsOf(s) : c.ratchetKey = m.ratchetKey /\ c.chainKey = m.chainKey
                              => m.counter < c.index /\ m.counter \notin c.keys
  /\ ~Knows(s, m.ratchetKey) =>
       CreateChain(s.rootKey, m.ratchetKey, s.senderKey) # m.chainKey

\* A base key names one prekey.
OnePreKey == \A p \in Parties : \A j, k \in PreKeysFor(p) : j.base = k.base => j = k

OnceInv ==
  /\ OnePreKey
  /\ \A p \in Parties : \A s \in StatesOf(record[p]) : Burnt(p, {s.aliceBase})
  /\ \A p \in Parties : \A m \in Sent(p) : opens[p][m] # 0 =>
       /\ opens[p][m] = 1 /\ Burnt(p, m.chainKey[1])
       /\ \A s \in StatesOf(record[p]) : Spent(s, m)

\* A session set up without a one-time prekey is not dropped from its record
\* (ARCHIVED_STATES_MAX_LENGTH): a later prekey message would set it up anew.
Retained ==
  \A p \in Parties : \A k \in PreKeysFor(p) :
    k.oneTime = <<>> /\ Has(p, k.base) => Has(p, k.base)'

LEMMA SpentCleared ==
  ASSUME NEW u \in SessionStates, NEW m
  PROVE  Spent(ClearUnacknowledged(u), m) <=> Spent(u, m)
<1>1. /\ ClearUnacknowledged(u).receivers = u.receivers
      /\ ClearUnacknowledged(u).rootKey = u.rootKey
      /\ ClearUnacknowledged(u).senderKey = u.senderKey
  BY Zenon, ClearFacts
<1> QED
  BY Zenon, <1>1 DEF Spent, ChainsOf, Knows

\* Every key of the session is derived from its base key.
OfBase(s) ==
  /\ s.rootKey # <<>> /\ s.rootKey[1] = {s.aliceBase}
  /\ \A c \in ChainsOf(s) : c.chainKey[1] = {s.aliceBase}

\* A session opens no message of another base key.
LEMMA SpentElsewhere ==
  ASSUME NEW s, GoodState(s), OfBase(s), NEW m \in Messages, m.chainKey[1] # {s.aliceBase}
  PROVE  Spent(s, m)
<1>1. \A c \in ChainsOf(s) : c.chainKey # m.chainKey
  BY Zenon DEF OfBase
<1>2. CreateChain(s.rootKey, m.ratchetKey, s.senderKey) # m.chainKey
  <2> DEFINE root == s.rootKey
             theirs == m.ratchetKey
             ours == s.senderKey
  <2>1. root \in ChainKeys /\ ours \in Nat /\ theirs \in Nat
    BY Zenon DEF GoodState, SessionStates, Messages
  <2>2. Len(s.rootKey) \in Nat /\ Len(s.rootKey) # 0
    BY <2>1 DEF OfBase, ChainKeys
  <2>3. 1 \in 1..Len(s.rootKey)
    BY <2>2
  <2> HIDE DEF root, theirs, ours
  <2>4. \A i \in 1..Len(root) : CreateChain(root, theirs, ours)[i] = root[i]
    BY <2>1, CreateChainType
  <2>5. CreateChain(s.rootKey, m.ratchetKey, s.senderKey)[1] = s.rootKey[1]
    BY Zenon, <2>3, <2>4 DEF root, theirs, ours
  <2> QED
    BY Zenon, <2>5 DEF OfBase
<1> QED
  BY Zenon, <1>1, <1>2 DEF Spent

\* A message that is spent is a duplicate, or it does not authenticate.
LEMMA SpentIsRefused ==
  ASSUME NEW s, GoodState(s), NEW msg \in Messages, Spent(s, msg), nextKey \in Nat
  PROVE  DecryptWithState(s, msg, nextKey).result # "ok"
<1> DEFINE r == DecryptWithState(s, msg, nextKey)
           c == TriedChain(s, msg)
<1>1. /\ c \in Chains /\ c.ratchetKey = msg.ratchetKey /\ \A k \in c.keys : k < c.index
      /\ ~Knows(s, msg.ratchetKey) =>
           c.chainKey = CreateChain(s.rootKey, msg.ratchetKey, s.senderKey)
  BY Zenon, TriedChainType
<1>o. Outcome(s, msg, nextKey, r)
  BY Zenon, DecryptOutcome
<1>2. r.result = IF Got(s, msg).result = "ok" /\ c.chainKey # msg.chainKey
                 THEN "invalid" ELSE Got(s, msg).result
  BY Zenon, <1>o DEF Outcome
<1>3. Knows(s, msg.ratchetKey) => c \in ChainsOf(s)
  BY Zenon, KnownChain
<1> HIDE DEF c, r
<1>4. CASE c.chainKey # msg.chainKey
  BY Zenon, <1>2, <1>4 DEF r
<1>5. CASE c.chainKey = msg.chainKey
  <2>1. msg.counter < c.index /\ msg.counter \notin c.keys
    BY Zenon, <1>1, <1>3, <1>5 DEF Spent
  <2>2. msg.counter \in Nat
    BY Zenon DEF Messages
  <2>3. Got(s, msg) = GetOrCreateMessageKey(c, msg.counter)
    BY Zenon DEF Got, c
  <2>4. Got(s, msg).result = "duplicate"
    BY Zenon, <1>1, <2>1, <2>2, <2>3, KeyResults
  <2> QED
    BY Zenon, <1>2, <1>5, <2>4 DEF r
<1> QED
  BY Zenon, <1>4, <1>5

\* A message that was just opened is spent in the state that opened it.
LEMMA SpentNow ==
  ASSUME NEW s, GoodState(s), NEW msg \in Messages, nextKey \in Nat,
         NEW r, r = DecryptWithState(s, msg, nextKey), r.result = "ok"
  PROVE  Spent(r.state, msg)
<1> DEFINE c == TriedChain(s, msg)
           g == Got(s, msg)
<1>1. /\ c \in Chains /\ c.ratchetKey = msg.ratchetKey /\ \A k \in c.keys : k < c.index
  BY Zenon, TriedChainType
<1>o. Outcome(s, msg, nextKey, r)
  BY Zenon, DecryptOutcome
<1>2. /\ r.result = IF g.result = "ok" /\ c.chainKey # msg.chainKey
                    THEN "invalid" ELSE g.result
      /\ GoodState(r.state) /\ g.chain \in ChainsOf(r.state)
      /\ \A e \in ChainsOf(r.state) :
           e = g.chain \/ (e \in ChainsOf(s) /\ e.ratchetKey # msg.ratchetKey)
  BY Zenon, <1>o DEF Outcome
<1>3. g = GetOrCreateMessageKey(c, msg.counter) /\ msg.counter \in Nat
  BY Zenon DEF Got, Messages
<1> HIDE DEF c, g
<1>4. g.result = "ok"
  BY Zenon, <1>2
<1>5. msg.counter < g.chain.index /\ msg.counter \notin g.chain.keys
  BY <1>1, <1>3, <1>4, KeyUsedUp
<1>6. g.chain.ratchetKey = msg.ratchetKey
  BY <1>1, <1>3, KeyResults
<1>7. Knows(r.state, msg.ratchetKey)
  BY <1>2, <1>6, KnownChain
<1> QED
  BY Zenon, <1>2, <1>5, <1>7 DEF Spent

\* A message that is spent stays so in a state that opens another one.
LEMMA SpentAfter ==
  ASSUME NEW s, GoodState(s), NEW msg \in Messages, nextKey \in Nat,
         NEW r, r = DecryptWithState(s, msg, nextKey), r.result = "ok"
  PROVE  \A m \in Messages : Old(m.chainKey, nextKey) /\ Spent(s, m) => Spent(r.state, m)
<1> DEFINE c == TriedChain(s, msg)
           g == Got(s, msg)
<1>1. /\ c \in Chains /\ c.ratchetKey = msg.ratchetKey /\ \A k \in c.keys : k < c.index
      /\ ~Knows(s, msg.ratchetKey) =>
           c.chainKey = CreateChain(s.rootKey, msg.ratchetKey, s.senderKey)
      /\ Knows(s, msg.ratchetKey) => c \in ChainsOf(s)
  BY Zenon, TriedChainType, KnownChain
<1>o. Outcome(s, msg, nextKey, r)
  BY Zenon, DecryptOutcome
<1>2. /\ r.result = IF g.result = "ok" /\ c.chainKey # msg.chainKey
                    THEN "invalid" ELSE g.result
      /\ GoodState(r.state) /\ g.chain \in ChainsOf(r.state)
      /\ \A e \in ChainsOf(r.state) :
           e = g.chain \/ (e \in ChainsOf(s) /\ e.ratchetKey # msg.ratchetKey)
  BY Zenon, <1>o DEF Outcome
<1>3. g = GetOrCreateMessageKey(c, msg.counter) /\ msg.counter \in Nat
  BY Zenon DEF Got, Messages
<1>4. g.result = "ok"
  BY Zenon, <1>2
<1>5. Knows(s, msg.ratchetKey) =>
        /\ r.state.rootKey = s.rootKey /\ r.state.senderKey = s.senderKey
        /\ \A e \in ChainsOf(s) : e.ratchetKey # msg.ratchetKey => e \in ChainsOf(r.state)
  BY Zenon, <1>o DEF Outcome
<1>6. ~Knows(s, msg.ratchetKey) => r.state.senderKey = nextKey /\ r.state.senderIndex = 0
  BY Zenon, <1>o DEF Outcome
<1> HIDE DEF c, g
<1>7. /\ g.chain.ratchetKey = c.ratchetKey /\ g.chain.chainKey = c.chainKey
      /\ c.index <= g.chain.index /\ g.chain.index \in Nat /\ c.index \in Nat
      /\ \A k \in g.chain.keys : k \in c.keys \/ k >= c.index
  <2>1. g.chain.ratchetKey = c.ratchetKey /\ g.chain.chainKey = c.chainKey /\ g.chain \in Chains
    BY <1>1, <1>3, KeyResults
  <2>2. c.index <= g.chain.index /\ \A k \in g.chain.keys : k \in c.keys \/ k >= c.index
    BY <1>1, <1>3, <1>4, KeyUsedUp
  <2> QED
    BY Zenon, <1>1, <2>1, <2>2 DEF Chains
<1> SUFFICES ASSUME NEW m \in Messages, Old(m.chainKey, nextKey), Spent(s, m)
             PROVE  Spent(r.state, m)
  BY Zenon
<1>m. m.counter \in Nat
  BY Zenon DEF Messages
<1>8. ASSUME NEW e \in ChainsOf(r.state), e.ratchetKey = m.ratchetKey, e.chainKey = m.chainKey
      PROVE  m.counter < e.index /\ m.counter \notin e.keys
  <2>1. CASE e \in ChainsOf(s)
    BY Zenon, <1>8, <2>1 DEF Spent
  <2>2. CASE e = g.chain
    <3>1. c.ratchetKey = m.ratchetKey /\ c.chainKey = m.chainKey
      BY Zenon, <1>7, <1>8, <2>2
    <3>2. m.counter < c.index /\ m.counter \notin c.keys
      BY Zenon, <1>1, <3>1 DEF Spent
    <3>3. m.counter < g.chain.index
      BY <1>m, <1>7, <3>2
    <3>4. m.counter \notin g.chain.keys
      BY <1>m, <1>7, <3>2
    <3> QED
      BY Zenon, <2>2, <3>3, <3>4
  <2> QED
    BY Zenon, <1>2, <2>1, <2>2
<1>9. ASSUME ~Knows(r.state, m.ratchetKey)
      PROVE  CreateChain(r.state.rootKey, m.ratchetKey, r.state.senderKey) # m.chainKey
  <2>1. CASE Knows(s, msg.ratchetKey)
    <3>1. ~Knows(s, m.ratchetKey)
      <4>1. m.ratchetKey # msg.ratchetKey
        BY <1>1, <1>2, <1>7, <1>9, KnownChain
      <4> QED
        BY <1>2, <1>5, <1>9, <2>1, <4>1, KnownChain
    <3> QED
      BY Zenon, <1>5, <2>1, <3>1 DEF Spent
  <2>2. CASE ~Knows(s, msg.ratchetKey)
    <3>1. r.state.rootKey \in ChainKeys /\ m.ratchetKey \in Nat /\ m.chainKey \in ChainKeys
      BY Zenon, <1>2 DEF GoodState, SessionStates, Messages
    <3>2. nextKey <= nextKey
      OBVIOUS
    <3>3. m.chainKey # CreateChain(r.state.rootKey, m.ratchetKey, nextKey)
      BY Zenon, <3>1, <3>2, NewChain
    <3> QED
      BY Zenon, <1>6, <2>2, <3>3
  <2> QED
    BY Zenon, <2>1, <2>2
<1> QED
  BY Zenon, <1>8, <1>9 DEF Spent

\* What is burnt stays so: one-time prekeys do not come back.
LEMMA BurntKept ==
  ASSUME Retained, NEW p \in Parties, NEW a, Burnt(p, a), prekeys'[p] \subseteq prekeys[p],
         \A k \in PreKeysFor(p)' : k \in PreKeysFor(p) \/ {k.base} # a
  PROVE  Burnt(p, a)'
<1> SUFFICES ASSUME NEW k \in PreKeysFor(p)', {k.base} = a
             PROVE  \/ ~(Range(k.oneTime) \subseteq prekeys'[p])
                    \/ k.oneTime = <<>> /\ Has(p, k.base)'
  BY Zenon DEF Burnt
<1>1. k \in PreKeysFor(p)
  BY Zenon
<1>2. \/ ~(Range(k.oneTime) \subseteq prekeys[p])
      \/ k.oneTime = <<>> /\ Has(p, k.base)
  BY Zenon, <1>1 DEF Burnt
<1>3. k.oneTime = <<>> /\ Has(p, k.base) => Has(p, k.base)'
  BY Zenon, <1>1 DEF Retained
<1> QED
  BY Zenon, <1>2, <1>3

\* A message that was opened is spent in every state that another message, or
\* itself, may be opened with.
LEMMA CandidateSpent ==
  ASSUME KeysInv, OnceInv, NEW p \in Parties, NEW msg \in Sent(p), NEW s,
         Candidate(p, record[p], msg, s), NEW m \in Sent(p), opens[p][m] # 0
  PROVE  Spent(s, m)
<1>1. CASE s \in StatesOf(record[p])
  BY Zenon, <1>1 DEF OnceInv
<1>2. CASE /\ msg.preKey # <<>>
           /\ s = InitializeBobSession(msg.preKey[1].base, SignedPreKey[p])
           /\ \A u \in StatesOf(record[p]) : u.aliceBase # msg.preKey[1].base
           /\ Range(msg.preKey[1].oneTime) \subseteq prekeys[p]
  <2> DEFINE k == msg.preKey[1]
             ours == SignedPreKey[p]
  <2>1. k \in PreKeysFor(p) /\ k.base \in Nat
    BY Zenon, <1>2, PreKeyOfMessage
  <2>2. ~Has(p, k.base) /\ Range(k.oneTime) \subseteq prekeys[p]
    BY Zenon, <1>2 DEF Has
  <2>3. s = InitializeBobSession(k.base, ours) /\ ours \in Nat
    BY Zenon, <1>2, SessionAssumption
  <2> HIDE DEF k, ours
  <2>4. m.chainKey[1] # {k.base}
    <3>1. Burnt(p, m.chainKey[1])
      BY Zenon DEF OnceInv
    <3> QED
      BY Zenon, <2>1, <2>2, <3>1 DEF Burnt
  <2>5. /\ GoodState(s) /\ ChainsOf(s) = {} /\ s.aliceBase = k.base
        /\ s.rootKey # <<>> /\ s.rootKey[1] = {k.base}
    <3> DEFINE base == k.base
    <3>1. base \in Nat /\ ours \in Nat /\ s = InitializeBobSession(base, ours)
      BY Zenon, <2>1, <2>3
    <3> HIDE DEF base
    <3>2. BobState(s, base, ours)
      BY Zenon, <3>1, BobIsGood
    <3>3. s.rootKey # <<>> /\ s.rootKey[1] = {base}
      BY <3>2 DEF BobState
    <3> QED
      BY Zenon, <3>2, <3>3 DEF BobState, base
  <2>6. OfBase(s)
    BY Zenon, <2>5 DEF OfBase
  <2>7. m \in Messages
    BY Zenon DEF KeysInv, Fresh, FreshMessage
  <2> QED
    BY Zenon, <2>4, <2>5, <2>6, <2>7, SpentElsewhere
<1> QED
  BY Zenon, <1>1, <1>2 DEF Candidate

\* The only prekey that a step brings is one of a new base key.
NewPreKeys ==
  \A p \in Parties :
    /\ \A k \in PreKeysFor(p)' : k \in PreKeysFor(p) \/ k.base = nextKey
    /\ \A j, k \in PreKeysFor(p)' : j.base = nextKey /\ k.base = nextKey => j = k

LEMMA OnePreKeyKept ==
  ASSUME KeysInv, OnePreKey, NewPreKeys
  PROVE  OnePreKey'
<1> SUFFICES ASSUME NEW p \in Parties, NEW j \in PreKeysFor(p)', NEW k \in PreKeysFor(p)',
                    j.base = k.base
             PROVE  j = k
  BY Zenon DEF OnePreKey
<1>1. CASE j.base = nextKey
  BY Zenon, <1>1 DEF NewPreKeys
<1>2. CASE j.base # nextKey
  BY Zenon, <1>2 DEF NewPreKeys, OnePreKey
<1> QED
  BY Zenon, <1>1, <1>2

LEMMA BurntStays ==
  ASSUME KeysInv, OnceInv, Retained, NewPreKeys,
         \A p \in Parties : prekeys'[p] \subseteq prekeys[p], NEW p \in Parties
  PROVE  /\ \A u \in StatesOf(record[p]) : Burnt(p, {u.aliceBase})'
         /\ \A m \in Sent(p) : opens[p][m] # 0 => Burnt(p, m.chainKey[1])'
<1>1. ASSUME NEW a, a # {nextKey}, Burnt(p, a)
      PROVE  Burnt(p, a)'
  <2>1. \A k \in PreKeysFor(p)' : k \in PreKeysFor(p) \/ {k.base} # a
    BY Zenon, <1>1 DEF NewPreKeys
  <2>2. prekeys'[p] \subseteq prekeys[p]
    BY Zenon
  <2> QED
    BY Zenon, <1>1, <2>1, <2>2, BurntKept
<1>2. ASSUME NEW u \in StatesOf(record[p])
      PROVE  Burnt(p, {u.aliceBase})'
  <2>1. {u.aliceBase} # {nextKey}
    <3>1. u.aliceBase < nextKey /\ nextKey \in Nat
      BY Zenon DEF KeysInv, Typed, Fresh, FreshState
    <3> QED
      BY <3>1
  <2>2. Burnt(p, {u.aliceBase})
    BY Zenon DEF OnceInv
  <2> QED
    BY Zenon, <1>1, <2>1, <2>2
<1>3. ASSUME NEW m \in Sent(p), opens[p][m] # 0
      PROVE  Burnt(p, m.chainKey[1])'
  <2>1. m.chainKey[1] # {nextKey}
    BY Zenon, MessageBase
  <2>2. Burnt(p, m.chainKey[1])
    BY Zenon, <1>3 DEF OnceInv
  <2> QED
    BY Zenon, <1>1, <2>1, <2>2
<1> QED
  BY Zenon, <1>2, <1>3

\* A state that is not renewed opens nothing that was opened.
LEMMA SpentInOthers ==
  ASSUME KeysInv, OnceInv, NEW p \in Parties, NEW m \in Sent(p), NEW s,
         opens[p][m] # 0 \/ m.chainKey[1] = {s.aliceBase},
         NEW u \in StatesOf(record[p]), u.aliceBase # s.aliceBase
  PROVE  Spent(ClearUnacknowledged(u), m)
<1>1. GoodState(u) /\ u \in SessionStates /\ FreshState(u, nextKey)
  BY Zenon DEF KeysInv, Typed, Fresh, GoodState
<1>2. Spent(u, m)
  <2>1. CASE opens[p][m] # 0
    BY Zenon, <2>1 DEF OnceInv
  <2>2. CASE m.chainKey[1] = {s.aliceBase}
    <3>1. OfBase(u)
      BY Zenon, <1>1 DEF OfBase, FreshState, Old
    <3>2. m \in Messages
      BY Zenon, MessageBase
    <3>3. m.chainKey[1] # {u.aliceBase}
      BY Zenon, <2>2
    <3> QED
      BY Zenon, <1>1, <3>1, <3>2, <3>3, SpentElsewhere
  <2> QED
    BY Zenon, <2>1, <2>2
<1> QED
  BY Zenon, <1>1, <1>2, SpentCleared

\* What a step of p has to bring so that everything opened is spent after it.
LEMMA OnceAfter ==
  ASSUME KeysInv, OnceInv, Retained, NewPreKeys,
         \A p \in Parties : prekeys'[p] \subseteq prekeys[p],
         NEW p \in Parties, NEW s, Renews(p, s), Burnt(p, {s.aliceBase})',
         \A q \in Parties : \A m \in Sent(q)' : opens'[q][m] # 0 =>
            /\ m \in Sent(q)
            /\ \/ opens[q][m] # 0 /\ opens'[q][m] = opens[q][m]
               \/ q = p /\ opens'[q][m] = 1 /\ m.chainKey[1] = {s.aliceBase},
         \A m \in Sent(p)' : opens'[p][m] # 0 => Spent(s, m)
  PROVE  OnceInv'
<1>1. OnePreKey'
  BY Zenon, OnePreKeyKept DEF OnceInv
<1>2. \A q \in Parties : q # p => record'[q] = record[q]
  BY Zenon DEF Renews
<1>3. \A t \in StatesOf(record'[p]) : t = s \/ \E u \in StatesOf(record[p]) :
               u.aliceBase # s.aliceBase /\ t = ClearUnacknowledged(u)
  BY Zenon, StatesAfter
<1>4. ASSUME NEW q \in Parties, NEW t \in StatesOf(record'[q])
      PROVE  Burnt(q, {t.aliceBase})'
  <2>1. CASE q # p
    <3>1. t \in StatesOf(record[q])
      BY Zenon, <1>2, <2>1
    <3> QED
      BY Zenon, <3>1, BurntStays
  <2>2. CASE q = p /\ t = s
    BY Zenon, <2>2
  <2>3. CASE q = p /\ t # s
    <3>1. PICK u \in StatesOf(record[p]) : t = ClearUnacknowledged(u)
      BY Zenon, <1>3, <2>3
    <3>2. u \in SessionStates
      BY Zenon DEF KeysInv, Typed, GoodState
    <3>3. t.aliceBase = u.aliceBase
      BY Zenon, <3>1, <3>2, ClearFacts
    <3>4. Burnt(p, {u.aliceBase})'
      BY Zenon, BurntStays
    <3> QED
      BY Zenon, <2>3, <3>3, <3>4
  <2> QED
    BY Zenon, <2>1, <2>2, <2>3
<1>5. ASSUME NEW q \in Parties, NEW m \in Sent(q)', opens'[q][m] # 0
      PROVE  /\ opens'[q][m] = 1 /\ Burnt(q, m.chainKey[1])'
             /\ \A t \in StatesOf(record'[q]) : Spent(t, m)
  <2>1. m \in Sent(q)
    BY Zenon, <1>5
  <2>2. opens'[q][m] = 1
    BY ZenonT(30), <1>5 DEF OnceInv
  <2>3. Burnt(q, m.chainKey[1])'
    <3>1. CASE opens[q][m] # 0
      BY Zenon, <2>1, <3>1, BurntStays
    <3>2. CASE q = p /\ m.chainKey[1] = {s.aliceBase}
      BY Zenon, <3>2
    <3> QED
      BY Zenon, <1>5, <3>1, <3>2
  <2>4. ASSUME NEW t \in StatesOf(record'[q]) PROVE Spent(t, m)
    <3>1. CASE q # p
      <4>1. t \in StatesOf(record[q]) /\ opens[q][m] # 0
        BY Zenon, <1>2, <1>5, <3>1
      <4> QED
        BY Zenon, <2>1, <4>1 DEF OnceInv
    <3>2. CASE q = p /\ t = s
      BY Zenon, <1>5, <3>2
    <3>3. CASE q = p /\ t # s
      <4>1. PICK u \in StatesOf(record[p]) : u.aliceBase # s.aliceBase /\ t = ClearUnacknowledged(u)
        BY Zenon, <1>3, <3>3
      <4>2. opens[p][m] # 0 \/ m.chainKey[1] = {s.aliceBase}
        BY Zenon, <1>5, <3>3
      <4>3. m \in Sent(p)
        BY Zenon, <2>1, <3>3
      <4>4. Spent(ClearUnacknowledged(u), m)
        BY Zenon, <4>1, <4>2, <4>3, SpentInOthers
      <4> QED
        BY Zenon, <4>1, <4>4
    <3> QED
      BY Zenon, <3>1, <3>2, <3>3
  <2> QED
    BY Zenon, <2>2, <2>3, <2>4
<1>6. \A q \in Parties : \A t \in StatesOf(record'[q]) : Burnt(q, {t.aliceBase})'
  BY Zenon, <1>4
<1>7. \A q \in Parties : \A m \in Sent(q)' : opens'[q][m] # 0 =>
        /\ opens'[q][m] = 1 /\ Burnt(q, m.chainKey[1])'
        /\ \A t \in StatesOf(record'[q]) : Spent(t, m)
  BY Zenon, <1>5
<1> QED
  BY Zenon, <1>1, <1>6, <1>7 DEF OnceInv

\* process_prekey_bundle
LEMMA OnceBundle ==
  ASSUME KeysInv, OnceInv, Retained, NEW p \in Parties, ProcessPreKeyBundle(p)
  PROVE  OnceInv'
<1> DEFINE q == Other(p)
           New(x) == InitializeAliceSession(nextKey, nextKey + 1, SignedPreKey[q],
                                            [base |-> nextKey, oneTime |-> x])
<1>a. PICK oneTime \in Bundle(q) : \E s :
           s = New(oneTime) /\ oneTime \in Seq(OneTimePreKeys) /\ Renews(p, s)
  BY Zenon, BundleEffect
<1>1. PICK s : s = New(oneTime) /\ oneTime \in Seq(OneTimePreKeys) /\ Renews(p, s)
  BY Zenon, <1>a
<1>2. prekeys' = prekeys /\ opens' = opens
  BY Zenon DEF ProcessPreKeyBundle
<1>3. q \in Parties /\ SignedPreKey[q] \in Nat /\ \A r \in Parties : r = p \/ r = q
  BY Zenon, Others, SessionAssumption
<1>4. nextKey \in Nat /\ \A r \in Parties : SignedPreKey[r] < nextKey
  BY Zenon DEF KeysInv, Typed, Fresh
<1> DEFINE theirs == SignedPreKey[q]
           preKey == [base |-> nextKey, oneTime |-> oneTime]
           key == nextKey + 1
           n == nextKey + 2
<1>5. /\ key \in Nat /\ n \in Nat /\ nextKey < key /\ key < n
      /\ theirs \in Nat /\ theirs < nextKey
      /\ preKey \in PreKeys /\ preKey.base = nextKey
      /\ s = InitializeAliceSession(nextKey, key, theirs, preKey)
  BY <1>1, <1>3, <1>4 DEF PreKeys
<1> HIDE DEF theirs, preKey, key, n, New
<1>6. /\ GoodState(s) /\ FreshState(s, n) /\ s.aliceBase = nextKey /\ s.pending = << preKey >>
  <2>1. \A a, b, c, d \in Nat : \A e \in PreKeys :
            /\ a < b /\ b < c /\ d < a /\ e.base = a
            /\ \A r \in Parties : SignedPreKey[r] < a
            => FreshState(InitializeAliceSession(a, b, d, e), c)
    BY AliceIsGood
  <2>2. s.pending = << preKey >> /\ s.aliceBase = nextKey
    BY Zenon, <1>5 DEF InitializeAliceSession
  <2>3. GoodState(s)
    BY Zenon, <1>1 DEF Renews
  <2> QED
    BY Zenon, <1>4, <1>5, <2>1, <2>2, <2>3
<1>7. \A r \in Parties : Sent(r)' = Sent(r)
  BY Zenon, <1>2 DEF Sent
<1>8. /\ \A k \in PreKeysFor(q)' : k \in PreKeysFor(q) \/ k = preKey
      /\ PreKeysFor(p)' = PreKeysFor(p)
  <2>1. \A k : s.pending = << k >> => k = preKey
    BY <1>6
  <2>2. \A k \in PreKeysFor(q)' : k \in PreKeysFor(q) \/ s.pending = << k >>
    BY Zenon, <1>1, <1>3, <1>7, PreKeysAfter
  <2>3. PreKeysFor(p)' = PreKeysFor(p)
    BY Zenon, <1>1, <1>7, PreKeysAfter
  <2> QED
    BY Zenon, <2>1, <2>2, <2>3
<1>9. \A r \in Parties : \A k \in PreKeysFor(r) : k.base < nextKey /\ k.base # nextKey
  <2>1. \A r \in Parties : \A k \in PreKeysFor(r) : k \in PreKeys /\ k.base < nextKey
    BY Zenon, BasesAreOld
  <2> QED
    BY <1>4, <2>1
<1>10. NewPreKeys
  <2>1. ASSUME NEW r \in Parties
        PROVE  \A k \in PreKeysFor(r)' : k \in PreKeysFor(r) \/ k = preKey
    BY Zenon, <1>3, <1>8
  <2> QED
    BY Zenon, <1>5, <1>9, <2>1 DEF NewPreKeys
<1>11. Burnt(p, {s.aliceBase})'
  <2>1. \A k \in PreKeysFor(p)' : {k.base} # {s.aliceBase}
    BY Zenon, <1>6, <1>8, <1>9
  <2> QED
    BY Zenon, <2>1 DEF Burnt
<1>12. \A m \in Sent(p)' : Spent(s, m)
  <2> SUFFICES ASSUME NEW m \in Sent(p) PROVE Spent(s, m)
    BY Zenon, <1>7
  <2>1. m \in Messages /\ m.chainKey[1] # {s.aliceBase}
    BY Zenon, <1>6, MessageBase
  <2>2. OfBase(s)
    BY Zenon, <1>6 DEF OfBase, FreshState, Old
  <2> QED
    BY Zenon, <1>6, <2>1, <2>2, SpentElsewhere
<1>13. \A r \in Parties : \A m \in Sent(r)' : opens'[r][m] # 0 =>
         m \in Sent(r) /\ opens[r][m] # 0 /\ opens'[r][m] = opens[r][m]
  BY Zenon, <1>2, <1>7
<1>14. \A r \in Parties : prekeys'[r] \subseteq prekeys[r]
  BY Zenon, <1>2
<1> QED
  BY <1>1, <1>10, <1>11, <1>12, <1>13, <1>14, OnceAfter

\* message_encrypt
LEMMA OnceEncrypt ==
  ASSUME KeysInv, OnceInv, Retained, NEW p \in Parties, EncryptLoaded(p, record[p])
  PROVE  OnceInv'
<1> DEFINE q == Other(p)
<1>a. PICK s \in StatesOf(record[p]) : \E new : \E m \in Messages :
            /\ new = [s EXCEPT !.senderIndex = @ + 1] /\ m = NextMessage(s)
            /\ Renews(p, new) /\ opens' = [opens EXCEPT ![q] = Posted(@, m)]
  BY EncryptEffect
<1>b. PICK new : \E m \in Messages :
            /\ new = [s EXCEPT !.senderIndex = @ + 1] /\ m = NextMessage(s)
            /\ Renews(p, new) /\ opens' = [opens EXCEPT ![q] = Posted(@, m)]
  BY Zenon, <1>a
<1>1. PICK m \in Messages :
            /\ new = [s EXCEPT !.senderIndex = @ + 1] /\ m = NextMessage(s)
            /\ Renews(p, new) /\ opens' = [opens EXCEPT ![q] = Posted(@, m)]
  BY Zenon, <1>b
<1>2. prekeys' = prekeys
  BY Zenon DEF EncryptLoaded
<1>3. q \in Parties /\ q # p /\ Other(q) = p /\ \A r \in Parties : r = p \/ r = q
  BY Zenon, Others
<1>4. s \in SessionStates /\ GoodState(s) /\ FreshState(s, nextKey)
  BY Zenon DEF KeysInv, Typed, Fresh, GoodState
<1>5. /\ new.aliceBase = s.aliceBase /\ new.rootKey = s.rootKey /\ new.senderKey = s.senderKey
      /\ new.receivers = s.receivers /\ new.pending = s.pending
  BY Zenon, <1>1, <1>4 DEF SessionStates
<1>6. m.preKey = s.pending
  BY Zenon, <1>1 DEF NextMessage
<1> HIDE DEF q
<1>7. /\ Sent(q)' = Sent(q) \cup {m} /\ opens'[q][m] = 0
      /\ \A x \in Sent(q) : x # m => opens'[q][x] = opens[q][x]
      /\ Sent(p)' = Sent(p) /\ opens'[p] = opens[p]
  <2>1. opens' = [opens EXCEPT ![q] = Posted(@, m)]
    BY Zenon, <1>1
  <2>2. Sent(q)' = Sent(q) \cup {m}
    BY Zenon, <1>3, <2>1, PostedFacts
  <2>3. opens'[q][m] = 0
    BY Zenon, <1>3, <2>1, PostedFacts
  <2>4. \A x \in Sent(q) : x # m => opens'[q][x] = opens[q][x]
    <3>1. opens'[q] = Posted(opens[q], m)
      BY Zenon, <1>3, <2>1 DEF KeysInv, Typed
    <3> QED
      BY Zenon, <3>1 DEF Posted, Sent
  <2>5. \A r \in Parties : r # q => Sent(r)' = Sent(r) /\ opens'[r] = opens[r]
    BY Zenon, <1>3, <2>1, PostedFacts
  <2> QED
    BY Zenon, <1>3, <2>2, <2>3, <2>4, <2>5
<1>8. /\ \A k \in PreKeysFor(q)' : k \in PreKeysFor(q)
      /\ PreKeysFor(p)' = PreKeysFor(p)
  <2>1. \A k \in PreKeysFor(q)' : \/ k \in PreKeysFor(q) \/ new.pending = << k >>
                                  \/ \E x \in Sent(q)' \ Sent(q) : x.preKey = << k >>
    BY Zenon, <1>1, PreKeysAfter DEF q
  <2>2. \A k \in PreKeysFor(q)' : k \in PreKeysFor(q) \/ s.pending = << k >>
    BY Zenon, <1>5, <1>6, <1>7, <2>1
  <2>3. \A k \in PreKeysFor(q)' : k \in PreKeys
    BY Zenon DEF PreKeysFor
  <2>4. \A k \in PreKeys : s.pending = << k >> => k \in PreKeysFor(q)
    BY Zenon, <1>3 DEF PreKeysFor
  <2>5. PreKeysFor(p)' = PreKeysFor(p)
    BY Zenon, <1>1, <1>7, PreKeysAfter
  <2> QED
    BY Zenon, <2>2, <2>3, <2>4, <2>5
<1>9. NewPreKeys
  <2>1. \A r \in Parties : \A k \in PreKeysFor(r)' : k \in PreKeysFor(r)
    BY Zenon, <1>3, <1>8
  <2> QED
    BY <2>1 DEF NewPreKeys, OnceInv, OnePreKey
<1>10. \A r \in Parties : prekeys'[r] \subseteq prekeys[r]
  BY Zenon, <1>2
<1>11. Burnt(p, {new.aliceBase})'
  <2>1. Burnt(p, {s.aliceBase})'
    BY Zenon, <1>9, <1>10, BurntStays
  <2> QED
    BY Zenon, <1>5, <2>1
<1>12. \A x \in Sent(p)' : opens'[p][x] # 0 => Spent(new, x)
  <2> SUFFICES ASSUME NEW x \in Sent(p), opens[p][x] # 0 PROVE Spent(new, x)
    BY Zenon, <1>7
  <2>1. Spent(s, x)
    BY Zenon DEF OnceInv
  <2> QED
    BY Zenon, <1>5, <2>1 DEF Spent, ChainsOf, Knows
<1>13. \A r \in Parties : \A x \in Sent(r)' : opens'[r][x] # 0 =>
         x \in Sent(r) /\ opens[r][x] # 0 /\ opens'[r][x] = opens[r][x]
  BY Zenon, <1>3, <1>7
<1>14. OnceInv'
  <2>1. Renews(p, new)
    BY Zenon, <1>1
  <2> QED
    BY Zenon, <1>9, <1>10, <1>11, <1>12, <1>13, <2>1, OnceAfter
<1> QED
  BY Zenon, <1>14

\* A message that set up a session used up its one-time prekey, and an older
\* session had done so before.
LEMMA DecryptBurns ==
  ASSUME KeysInv, OnceInv, Retained, NewPreKeys, NEW p \in Parties, NEW msg \in Sent(p),
         DecryptLoaded(p, record[p], msg), NEW s, Candidate(p, record[p], msg, s),
         PreKeysFor(p)' = PreKeysFor(p), Has(p, s.aliceBase)'
  PROVE  Burnt(p, {s.aliceBase})'
<1>1. /\ prekeys'[p] = prekeys[p] \ UsedPreKey(record[p], msg)
      /\ \A q \in Parties : prekeys'[q] \subseteq prekeys[q]
  BY Zenon, OpenedFacts
<1>2. CASE s \in StatesOf(record[p])
  BY Zenon, <1>1, <1>2, BurntStays
<1>3. CASE /\ msg.preKey # <<>>
           /\ s = InitializeBobSession(msg.preKey[1].base, SignedPreKey[p])
           /\ \A u \in StatesOf(record[p]) : u.aliceBase # msg.preKey[1].base
  <2> DEFINE k == msg.preKey[1]
  <2>1. k \in PreKeysFor(p) /\ s.aliceBase = k.base
    BY Zenon, <1>3, PreKeyOfMessage DEF InitializeBobSession
  <2>2. UsedPreKey(record[p], msg) = Range(k.oneTime)
    <3>1. GoodRecord(record[p])
      BY Zenon DEF KeysInv, Typed
    <3>2. ~MatchesSession(record[p], k.base)
      BY Zenon, <1>3, <3>1, MatchesFacts
    <3> QED
      BY Zenon, <1>3, <3>2 DEF UsedPreKey
  <2>3. k.oneTime \in Seq(OneTimePreKeys)
    BY Zenon, <2>1 DEF PreKeysFor, PreKeys
  <2> HIDE DEF k
  <2>4. k.oneTime # <<>> => Range(k.oneTime) # {}
    <3> SUFFICES ASSUME k.oneTime # <<>> PROVE Range(k.oneTime) # {}
      BY Zenon
    <3>1. Len(k.oneTime) \in Nat /\ Len(k.oneTime) # 0
      BY <2>3
    <3>2. 1 \in DOMAIN k.oneTime
      BY <2>3, <3>1
    <3> QED
      BY Zenon, <3>2 DEF Range
  <2>5. ~(Range(k.oneTime) \subseteq prekeys'[p]) \/ k.oneTime = <<>>
    BY Zenon, <1>1, <2>2, <2>4
  <2>6. \A j \in PreKeysFor(p)' : {j.base} = {s.aliceBase} => j = k
    BY Zenon, <2>1 DEF OnceInv, OnePreKey
  <2>7. Has(p, k.base)'
    BY Zenon, <2>1
  <2> QED
    BY Zenon, <2>5, <2>6, <2>7 DEF Burnt
<1> QED
  BY Zenon, <1>2, <1>3 DEF Candidate

\* message_decrypt_prekey and message_decrypt_signal
LEMMA OnceDecrypt ==
  ASSUME WellOrdered, KeysInv, OnceInv, Retained, NEW p \in Parties, NEW msg \in Sent(p),
         DecryptLoaded(p, record[p], msg)
  PROVE  OnceInv' /\ opens[p][msg] = 0
<1>a. PICK s : \E r :
        /\ Candidate(p, record[p], msg, s) /\ GoodState(s)
        /\ r = DecryptWithState(s, msg, nextKey) /\ r.result = "ok" /\ Renews(p, r.state)
  BY Zenon, DecryptEffect
<1>1. PICK r :
        /\ Candidate(p, record[p], msg, s) /\ GoodState(s)
        /\ r = DecryptWithState(s, msg, nextKey) /\ r.result = "ok" /\ Renews(p, r.state)
  BY Zenon, <1>a
<1>2. msg \in Messages /\ nextKey \in Nat
  BY Zenon, MessageBase DEF KeysInv, Typed
<1>3. opens[p][msg] = 0
  <2>1. ASSUME opens[p][msg] # 0 PROVE FALSE
    <3>1. Spent(s, msg)
      BY Zenon, <1>1, <2>1, CandidateSpent
    <3>2. DecryptWithState(s, msg, nextKey).result # "ok"
      BY Zenon, <1>1, <1>2, <3>1, SpentIsRefused
    <3> QED
      BY Zenon, <1>1, <3>2
  <2> QED
    BY Zenon, <2>1
<1>4. /\ \A q \in Parties : Sent(q)' = Sent(q)
      /\ opens'[p] = [opens[p] EXCEPT ![msg] = @ + 1]
      /\ \A q \in Parties : q # p => opens'[q] = opens[q]
      /\ \A q \in Parties : prekeys'[q] \subseteq prekeys[q]
  BY Zenon, OpenedFacts
<1> DEFINE new == r.state
<1>5. /\ Renews(p, new) /\ new.aliceBase = s.aliceBase /\ new.pending = <<>>
  <2>1. Outcome(s, msg, nextKey, r)
    BY Zenon, <1>1, <1>2, DecryptOutcome
  <2> QED
    BY Zenon, <1>1, <2>1 DEF Outcome
<1>6. msg.chainKey[1] = {s.aliceBase}
  <2>1. Candidate(p, record[p], msg, s) /\ GoodState(s)
    BY Zenon, <1>1
  <2>2. r = DecryptWithState(s, msg, nextKey) /\ r.result = "ok"
    BY Zenon, <1>1
  <2>3. Freshened(p, msg, s, r.state)
    BY Zenon, <2>1, <2>2, DecryptedIsFresh
  <2> QED
    BY Zenon, <2>3 DEF Freshened
<1>7. Spent(new, msg)
  BY Zenon, <1>1, <1>2, SpentNow
<1>8. \A m \in Messages : Old(m.chainKey, nextKey) /\ Spent(s, m) => Spent(new, m)
  BY Zenon, <1>1, <1>2, SpentAfter
<1> HIDE DEF new
<1>9. \A q \in Parties : \A k \in PreKeysFor(q)' : k \in PreKeysFor(q)
  <2>1. PreKeysFor(p)' = PreKeysFor(p)
    BY Zenon, <1>4, <1>5, PreKeysAfter
  <2>2. Other(p) \in Parties /\ \A q \in Parties : q = p \/ q = Other(p)
    BY Zenon, Others
  <2>3. \A k : << k >> # <<>>
    BY Zenon
  <2>4. \A k \in PreKeysFor(Other(p))' : k \in PreKeysFor(Other(p))
    BY <1>4, <1>5, <2>2, <2>3, PreKeysAfter
  <2> QED
    BY Zenon, <2>1, <2>2, <2>4
<1>10. NewPreKeys
  BY Zenon, <1>9 DEF NewPreKeys, OnceInv, OnePreKey
<1>11. Burnt(p, {new.aliceBase})'
  <2>1. PreKeysFor(p)' = PreKeysFor(p)
    BY Zenon, <1>4, <1>5, PreKeysAfter
  <2>2. new \in StatesOf(record'[p])
    BY Zenon, <1>5, StatesAfter
  <2>3. Has(p, s.aliceBase)'
    BY Zenon, <1>5, <2>2 DEF Has
  <2>4. Candidate(p, record[p], msg, s)
    BY Zenon, <1>1
  <2>5. Burnt(p, {s.aliceBase})'
    BY Zenon, <1>10, <2>1, <2>3, <2>4, DecryptBurns
  <2> QED
    BY Zenon, <1>5, <2>5
<1>12. \A m \in Sent(p) : m # msg => opens'[p][m] = opens[p][m]
  BY Zenon, <1>4 DEF Sent
<1>13. opens'[p][msg] = 1
  BY <1>3, <1>4 DEF Sent
<1>14. \A q \in Parties : \A m \in Sent(q)' : opens'[q][m] # 0 =>
            /\ m \in Sent(q)
            /\ \/ opens[q][m] # 0 /\ opens'[q][m] = opens[q][m]
               \/ q = p /\ opens'[q][m] = 1 /\ m.chainKey[1] = {new.aliceBase}
  <2> SUFFICES ASSUME NEW q \in Parties, NEW m \in Sent(q), opens'[q][m] # 0
               PROVE  \/ opens[q][m] # 0 /\ opens'[q][m] = opens[q][m]
                      \/ q = p /\ opens'[q][m] = 1 /\ m.chainKey[1] = {new.aliceBase}
    BY <1>4
  <2>1. CASE q = p /\ m = msg
    BY Zenon, <1>5, <1>6, <1>13, <2>1
  <2>2. CASE q # p \/ m # msg
    BY Zenon, <1>4, <1>12, <2>2
  <2> QED
    BY Zenon, <2>1, <2>2
<1>15. \A m \in Sent(p)' : opens'[p][m] # 0 => Spent(new, m)
  <2> SUFFICES ASSUME NEW m \in Sent(p), opens'[p][m] # 0 PROVE Spent(new, m)
    BY Zenon, <1>4
  <2>1. CASE m = msg
    BY Zenon, <1>7, <2>1
  <2>2. CASE m # msg
    <3>1. opens[p][m] # 0
      BY Zenon, <1>12, <2>2
    <3>2. Spent(s, m)
      BY Zenon, <1>1, <3>1, CandidateSpent
    <3>3. m \in Messages /\ Old(m.chainKey, nextKey)
      BY Zenon, MessageBase
    <3> QED
      BY Zenon, <1>8, <3>2, <3>3
  <2> QED
    BY Zenon, <2>1, <2>2
<1>16. Renews(p, new) /\ \A q \in Parties : prekeys'[q] \subseteq prekeys[q]
  BY Zenon, <1>4, <1>5
<1>17. OnceInv'
  BY Zenon, <1>10, <1>11, <1>14, <1>15, <1>16, OnceAfter
<1> QED
  BY Zenon, <1>3, <1>17

\* A message that was sent, or opened for the first time, as AtMostOnce has it.
LEMMA StepsAreOnce ==
  ASSUME WellOrdered, KeysInv, OnceInv, Retained, NEW p \in Parties,
         \/ ProcessPreKeyBundle(p) \/ MessageEncrypt(p)
         \/ \E msg \in Sent(p) : MessageDecrypt(p, msg)
  PROVE  \A q \in Parties : [Once(q)!Next]_(opens[q])
<1>1. CASE ProcessPreKeyBundle(p)
  BY Zenon, <1>1 DEF ProcessPreKeyBundle
<1>2. CASE MessageEncrypt(p)
  <2> DEFINE o == Other(p)
  <2>1. o \in Parties /\ \A q \in Parties : q = p \/ q = o
    BY Zenon, Others
  <2>2. EncryptLoaded(p, record[p])
    BY Zenon, <1>2 DEF MessageEncrypt
  <2>3. PICK s \in StatesOf(record[p]) : opens' = [opens EXCEPT ![o] = Posted(@, NextMessage(s))]
    BY Zenon, <2>2, EncryptEffect
  <2> DEFINE m == NextMessage(s)
  <2>4. m \notin Sent(o)
    BY Zenon, NextIsNew
  <2>5. opens'[o] = Posted(opens[o], m) /\ \A q \in Parties : q # o => opens'[q] = opens[q]
    BY Zenon, <2>1, <2>3 DEF KeysInv, Typed
  <2> HIDE DEF m, o
  <2>6. /\ opens'[o] = [x \in DOMAIN opens[o] \cup {m} |-> IF x = m THEN 0 ELSE opens[o][x]]
        /\ m \in DOMAIN opens'[o] \ DOMAIN opens[o]
    BY Zenon, <2>4, <2>5 DEF Posted, Sent
  <2>7. Once(o)!Send
    BY Zenon, <2>6 DEF Once!Send
  <2> QED
    BY Zenon, <2>5, <2>7 DEF Once!Next
<1>3. ASSUME NEW msg \in Sent(p), MessageDecrypt(p, msg)
      PROVE  \A q \in Parties : [Once(q)!Next]_(opens[q])
  <2>1. DecryptLoaded(p, record[p], msg)
    BY Zenon, <1>3 DEF MessageDecrypt
  <2>2. opens[p][msg] = 0
    BY Zenon, <2>1, OnceDecrypt
  <2>3. /\ opens'[p] = [opens[p] EXCEPT ![msg] = @ + 1]
        /\ \A q \in Parties : q # p => opens'[q] = opens[q]
    BY Zenon, <2>1, OpenedFacts
  <2>4. msg \in DOMAIN opens[p] /\ opens'[p] = [opens[p] EXCEPT ![msg] = 1]
    BY <2>2, <2>3 DEF Sent
  <2>5. Once(p)!Open
    BY Zenon, <2>2, <2>4 DEF Once!Open
  <2> QED
    BY Zenon, <2>3, <2>5 DEF Once!Next
<1> QED
  BY Zenon, <1>1, <1>2, <1>3

LEMMA OnceInit == Init => OnceInv
<1> SUFFICES ASSUME Init PROVE OnceInv
  BY Zenon
<1>1. \A p \in Parties : record[p].current = <<>> /\ record[p].previous = <<>>
  BY Zenon DEF Init, FreshRecord
<1>2. \A p \in Parties : StatesOf(record[p]) = {}
  BY Zenon, <1>1, RangeEmpty DEF StatesOf
<1>3. \A p \in Parties : Sent(p) = {}
  <2>1. \A p \in Parties : opens[p] = <<>>
    BY Zenon DEF Init
  <2>2. DOMAIN <<>> = {}
    OBVIOUS
  <2> QED
    BY Zenon, <2>1, <2>2 DEF Sent
<1>4. \A p \in Parties : PreKeysFor(p) = {}
  <2>1. \A p \in Parties : Other(p) \in Parties
    BY Zenon, Others
  <2> QED
    BY Zenon, <1>2, <1>3, <2>1 DEF PreKeysFor
<1> QED
  BY Zenon, <1>2, <1>3, <1>4 DEF OnceInv, OnePreKey

LEMMA OnceNext ==
  ASSUME WellOrdered
  PROVE  KeysInv /\ OnceInv /\ [Next]_vars /\ [Retained]_vars
    => OnceInv' /\ [\A p \in Parties : [Once(p)!Next]_(opens[p])]_vars
<1> SUFFICES ASSUME KeysInv, OnceInv, [Next]_vars, [Retained]_vars
             PROVE  OnceInv' /\ [\A p \in Parties : [Once(p)!Next]_(opens[p])]_vars
  BY Zenon
<1>1. CASE UNCHANGED vars
  <2>1. record' = record /\ prekeys' = prekeys /\ opens' = opens
    BY Zenon, <1>1 DEF vars
  <2>2. OnceInv'
    <3>1. \A p : Sent(p)' = Sent(p) /\ PreKeysFor(p)' = PreKeysFor(p)
      BY Zenon, <2>1 DEF Sent, PreKeysFor
    <3>2. \A p, a : Burnt(p, a)' <=> Burnt(p, a)
      BY Zenon, <2>1, <3>1 DEF Burnt, Has
    <3> QED
      BY Zenon, <2>1, <3>1, <3>2 DEF OnceInv, OnePreKey
  <2> QED
    BY Zenon, <1>1, <2>2
<1>2. ASSUME Retained, NEW p \in Parties,
             \/ ProcessPreKeyBundle(p) \/ MessageEncrypt(p)
             \/ \E msg \in Sent(p) : MessageDecrypt(p, msg)
      PROVE  OnceInv' /\ \A q \in Parties : [Once(q)!Next]_(opens[q])
  <2>1. OnceInv'
    BY Zenon, <1>2, OnceBundle, OnceEncrypt, OnceDecrypt DEF MessageEncrypt, MessageDecrypt
  <2>2. \A q \in Parties : [Once(q)!Next]_(opens[q])
    BY Zenon, <1>2, StepsAreOnce
  <2> QED
    BY Zenon, <2>1, <2>2
<1> QED
  BY Zenon, <1>1, <1>2 DEF Next

-----------------------------------------------------------------------------
(* Duplicates *)

-----------------------------------------------------------------------------
(* DuplicateWasOpened.  A ratchet key belongs to one chain, and what a chain   *)
(* has passed and not stored was opened.                                       *)

\* A ratchet key that a state sends with, and its chain.
SendingOf(s) == [key |-> s.senderKey, chain |-> s.senderChain]

\* Those that q has sent or may send with.
Sendings(q) ==
  {[key |-> m.ratchetKey, chain |-> m.chainKey] : m \in Sent(Other(q))} \cup
  {SendingOf(s) : s \in StatesOf(record[q])}

\* A ratchet key has one chain, for its sender and for its receiver.
OneChain ==
  /\ \A q \in Parties : \A x, y \in Sendings(q) : x.key = y.key => x.chain = y.chain
  /\ \A p \in Parties : \A s \in StatesOf(record[p]) :
       \A c \in ChainsOf(s), x \in Sendings(Other(p)) :
         c.ratchetKey = x.key => c.chainKey = x.chain

\* A receiver is never ahead of the sender.
Behind ==
  \A p \in Parties : \A s \in StatesOf(record[p]), t \in StatesOf(record[Other(p)]) :
    \A c \in ChainsOf(s) : c.ratchetKey = t.senderKey => c.index <= t.senderIndex

\* No two messages have one message key.
Distinct ==
  \A p \in Parties : \A m, n \in Sent(p) :
    m.chainKey = n.chainKey /\ m.counter = n.counter => m = n

\* Counters stay below the number of messages sent.
Counted ==
  \A p \in Parties :
    /\ IsFiniteSet(Sent(p)) /\ Cardinality(Sent(p)) <= MaxSends
    /\ \A m \in Sent(p) : m.counter < Cardinality(Sent(p))
    /\ \A s \in StatesOf(record[Other(p)]) : s.senderIndex <= Cardinality(Sent(p))

\* A key that a chain has passed and not stored was used.
Passed ==
  \A p \in Parties : \A m \in Sent(p) : \A s \in StatesOf(record[p]) :
    \A c \in ChainsOf(s) :
      c.ratchetKey = m.ratchetKey /\ m.counter < c.index /\ m.counter \notin c.keys
      => opens[p][m] # 0

\* What is used of finite sets.
FiniteSetFacts ==
  /\ IsFiniteSet({}) /\ Cardinality({}) = 0
  /\ \A S : IsFiniteSet(S) => Cardinality(S) \in Nat
  /\ \A S, x : IsFiniteSet(S) /\ x \notin S =>
       IsFiniteSet(S \cup {x}) /\ Cardinality(S \cup {x}) = Cardinality(S) + 1
  /\ \A a, b \in Nat : \A S \in SUBSET (a .. b) : a <= b + 1 =>
       Cardinality(S) \in Nat /\ Cardinality(S) <= b - a + 1

PassedInv == OneChain /\ Behind /\ Distinct /\ Counted /\ Passed

\* The keys that were sent with are no signed prekeys and are not to come.
LEMMA SendingsAreOld ==
  ASSUME KeysInv, NEW q \in Parties, NEW x \in Sendings(q)
  PROVE  /\ x.key \in Nat /\ x.key < nextKey
         /\ \A r \in Parties : x.key # SignedPreKey[r]
<1>1. CASE \E m \in Sent(Other(q)) : x = [key |-> m.ratchetKey, chain |-> m.chainKey]
  <2>1. PICK m \in Sent(Other(q)) : x = [key |-> m.ratchetKey, chain |-> m.chainKey]
    BY Zenon, <1>1
  <2>2. Other(q) \in Parties
    BY Zenon, Others
  <2>3. FreshMessage(m, nextKey)
    BY Zenon, <2>2 DEF KeysInv, Fresh
  <2> QED
    BY Zenon, <2>1, <2>3 DEF FreshMessage, Messages
<1>2. CASE \E s \in StatesOf(record[q]) : x = SendingOf(s)
  <2>1. PICK s \in StatesOf(record[q]) : x = SendingOf(s)
    BY Zenon, <1>2
  <2>2. FreshState(s, nextKey) /\ s \in SessionStates
    BY Zenon DEF KeysInv, Typed, Fresh, GoodState
  <2> QED
    BY Zenon, <2>1, <2>2 DEF FreshState, SessionStates, SendingOf
<1> QED
  BY Zenon, <1>1, <1>2 DEF Sendings

\* What a message that was sent and a state that sends have in Sendings.
LEMMA InSendings ==
  ASSUME NEW q \in Parties
  PROVE  /\ \A m \in Sent(Other(q)) : \E x \in Sendings(q) :
              x.key = m.ratchetKey /\ x.chain = m.chainKey
         /\ \A s \in StatesOf(record[q]) : \E x \in Sendings(q) :
              x.key = s.senderKey /\ x.chain = s.senderChain
<1>1. ASSUME NEW m \in Sent(Other(q))
      PROVE  \E x \in Sendings(q) : x.key = m.ratchetKey /\ x.chain = m.chainKey
  <2>1. [key |-> m.ratchetKey, chain |-> m.chainKey] \in Sendings(q)
    BY Zenon DEF Sendings
  <2> QED
    BY Zenon, <2>1
<1>2. ASSUME NEW s \in StatesOf(record[q])
      PROVE  \E x \in Sendings(q) : x.key = s.senderKey /\ x.chain = s.senderChain
  <2>1. SendingOf(s) \in Sendings(q)
    BY Zenon DEF Sendings
  <2> QED
    BY Zenon, <2>1 DEF SendingOf
<1> QED
  BY Zenon, <1>1, <1>2

\* The keys that may be sent with after a step of p.
LEMMA SendingsAfter ==
  ASSUME KeysInv, NEW p \in Parties, NEW s, Renews(p, s), Sent(p)' = Sent(p),
         \A m \in Sent(Other(p))' : \/ m \in Sent(Other(p))
                                    \/ m.ratchetKey = s.senderKey /\ m.chainKey = s.senderChain
  PROVE  /\ \A x \in Sendings(p)' : x \in Sendings(p) \/ x = SendingOf(s)
         /\ Sendings(Other(p))' = Sendings(Other(p))
<1> DEFINE q == Other(p)
<1>1. q \in Parties /\ q # p /\ Other(q) = p
  BY Zenon, Others
<1>2. record'[q] = record[q]
  BY Zenon, <1>1 DEF Renews
<1>3. \A t \in StatesOf(record'[p]) : SendingOf(t) \in Sendings(p) \/ SendingOf(t) = SendingOf(s)
  <2> SUFFICES ASSUME NEW t \in StatesOf(record'[p]), t # s
               PROVE  SendingOf(t) \in Sendings(p)
    BY Zenon
  <2>1. PICK u \in StatesOf(record[p]) : t = ClearUnacknowledged(u)
    BY StatesAfter
  <2>2. u \in SessionStates
    BY Zenon DEF KeysInv, Typed, GoodState
  <2>3. SendingOf(t) = SendingOf(u)
    BY Zenon, <2>1, <2>2, ClearFacts DEF SendingOf
  <2> QED
    BY Zenon, <2>3 DEF Sendings
<1> HIDE DEF q
<1>4. ASSUME NEW x \in Sendings(p)'
      PROVE  x \in Sendings(p) \/ x = SendingOf(s)
  <2>1. \/ \E m \in Sent(q)' : x = [key |-> m.ratchetKey, chain |-> m.chainKey]
        \/ \E t \in StatesOf(record'[p]) : x = SendingOf(t)
    BY Zenon DEF Sendings, q
  <2>2. CASE \E m \in Sent(q)' : x = [key |-> m.ratchetKey, chain |-> m.chainKey]
    <3>1. PICK m \in Sent(q)' : x = [key |-> m.ratchetKey, chain |-> m.chainKey]
      BY Zenon, <2>2
    <3>2. CASE m \in Sent(q)
      BY Zenon, <3>1, <3>2 DEF Sendings, q
    <3>3. CASE m.ratchetKey = s.senderKey /\ m.chainKey = s.senderChain
      BY Zenon, <3>1, <3>3 DEF SendingOf
    <3> QED
      BY Zenon, <3>2, <3>3 DEF q
  <2> QED
    BY Zenon, <1>3, <2>1, <2>2
<1>5. Sendings(q)' = Sendings(q)
  BY Zenon, <1>1, <1>2 DEF Sendings
<1> QED
  BY Zenon, <1>4, <1>5 DEF q

\* A step keeps one chain for each key, if what it adds does.
LEMMA OneChainKept ==
  ASSUME KeysInv, OneChain, NEW p \in Parties, NEW s, Renews(p, s),
         \A x \in Sendings(p)' : x \in Sendings(p) \/ x = SendingOf(s),
         Sendings(Other(p))' = Sendings(Other(p)),
         SendingOf(s) \in Sendings(p) \/ nextKey <= s.senderKey,
         \A c \in ChainsOf(s), x \in Sendings(Other(p)) : c.ratchetKey = x.key => c.chainKey = x.chain
  PROVE  OneChain'
<1> DEFINE q == Other(p)
           new == SendingOf(s)
<1>1. q \in Parties /\ q # p /\ Other(q) = p /\ \A r \in Parties : r = p \/ r = q
  BY Zenon, Others
<1>2. record'[q] = record[q] /\ nextKey \in Nat /\ s.senderKey \in Nat
  BY Zenon, <1>1 DEF Renews, KeysInv, Typed, GoodState, SessionStates
<1>3. new.key = s.senderKey
  BY Zenon DEF SendingOf
<1> HIDE DEF new
<1>4. \A x \in Sendings(p) : x.key \in Nat /\ x.key < nextKey
  BY Zenon, SendingsAreOld
<1>5. \A x, y \in Sendings(p)' : x.key = y.key => x.chain = y.chain
  <2>1. \A x, y \in Sendings(p) : x.key = y.key => x.chain = y.chain
    BY Zenon DEF OneChain
  <2>2. new \in Sendings(p) \/ nextKey <= new.key
    BY Zenon, <1>3 DEF new
  <2>3. \A x \in Sendings(p)' : x \in Sendings(p) \/ x = new
    BY Zenon DEF new
  <2>4. CASE new \in Sendings(p)
    BY Zenon, <2>1, <2>3, <2>4
  <2>5. CASE nextKey <= new.key
    BY <1>2, <1>3, <1>4, <2>1, <2>3, <2>5
  <2> QED
    BY Zenon, <2>2, <2>4, <2>5
<1>6. ASSUME NEW t \in StatesOf(record[q]), NEW c \in ChainsOf(t), NEW x \in Sendings(p)',
             c.ratchetKey = x.key
      PROVE  c.chainKey = x.chain
  <2>1. c.ratchetKey < nextKey /\ FreshState(t, nextKey)
    BY Zenon, <1>1 DEF KeysInv, Fresh, FreshState
  <2>2. x \in Sendings(p)
    <3>1. CASE x = new /\ nextKey <= s.senderKey
      <4>1. FALSE
        BY <1>2, <1>3, <1>6, <2>1, <3>1
      <4> QED
        BY Zenon, <4>1
    <3> QED
      BY Zenon, <3>1 DEF new
  <2> QED
    BY <1>1, <1>6, <2>2 DEF OneChain
<1>7. ASSUME NEW t \in StatesOf(record'[p]), NEW c \in ChainsOf(t), NEW x \in Sendings(q),
             c.ratchetKey = x.key
      PROVE  c.chainKey = x.chain
  <2>1. CASE t = s
    BY Zenon, <1>7, <2>1 DEF q
  <2>2. CASE t # s
    <3>1. PICK u \in StatesOf(record[p]) : t = ClearUnacknowledged(u)
      BY <2>2, StatesAfter
    <3>2. GoodState(u)
      BY Zenon DEF KeysInv, Typed
    <3>3. c \in ChainsOf(u)
      BY Zenon, <3>1, <3>2, ClearedIsGood
    <3> QED
      BY <1>7, <3>3 DEF OneChain, q
  <2> QED
    BY Zenon, <2>1, <2>2
<1>8. Sendings(q)' = Sendings(q)
  BY Zenon DEF q
<1> HIDE DEF q
<1>9. \A r \in Parties : \A x, y \in Sendings(r)' : x.key = y.key => x.chain = y.chain
  BY <1>1, <1>5, <1>8 DEF OneChain
<1>10. \A r \in Parties : \A t \in StatesOf(record'[r]) :
         \A c \in ChainsOf(t), x \in Sendings(Other(r))' : c.ratchetKey = x.key => c.chainKey = x.chain
  <2>1. \A t \in StatesOf(record'[q]) :
          \A c \in ChainsOf(t), x \in Sendings(Other(q))' : c.ratchetKey = x.key => c.chainKey = x.chain
    BY Zenon, <1>1, <1>2, <1>6
  <2>2. \A t \in StatesOf(record'[p]) :
          \A c \in ChainsOf(t), x \in Sendings(Other(p))' : c.ratchetKey = x.key => c.chainKey = x.chain
    BY Zenon, <1>7, <1>8 DEF q
  <2> QED
    BY <1>1, <2>1, <2>2
<1> QED
  BY Zenon, <1>9, <1>10 DEF OneChain

\* A step keeps receivers behind their senders, if its new state is.
LEMMA BehindKept ==
  ASSUME KeysInv, Behind, NEW p \in Parties, NEW s, Renews(p, s),
         \A t \in StatesOf(record[Other(p)]) :
           /\ \A c \in ChainsOf(s) : c.ratchetKey = t.senderKey => c.index <= t.senderIndex
           /\ \A c \in ChainsOf(t) : c.ratchetKey = s.senderKey => c.index <= s.senderIndex
  PROVE  Behind'
<1> DEFINE q == Other(p)
<1>1. q \in Parties /\ q # p /\ Other(q) = p /\ \A r \in Parties : r = p \/ r = q
  BY Zenon, Others
<1>2. record'[q] = record[q]
  BY Zenon, <1>1 DEF Renews
<1>3. ASSUME NEW u \in StatesOf(record'[p]), NEW t \in StatesOf(record[q])
      PROVE  /\ \A c \in ChainsOf(u) : c.ratchetKey = t.senderKey => c.index <= t.senderIndex
             /\ \A c \in ChainsOf(t) : c.ratchetKey = u.senderKey => c.index <= u.senderIndex
  <2>1. CASE u = s
    BY Zenon, <2>1 DEF q
  <2>2. CASE u # s
    <3>1. PICK v \in StatesOf(record[p]) : u = ClearUnacknowledged(v)
      BY <2>2, StatesAfter
    <3>2. GoodState(v) /\ v \in SessionStates
      BY Zenon DEF KeysInv, Typed, GoodState
    <3>3. ChainsOf(u) = ChainsOf(v) /\ u.senderKey = v.senderKey /\ u.senderIndex = v.senderIndex
      BY Zenon, <3>1, <3>2, ClearedIsGood, ClearFacts
    <3>4. \A c \in ChainsOf(v) : c.ratchetKey = t.senderKey => c.index <= t.senderIndex
      BY Zenon DEF Behind, q
    <3>5. \A c \in ChainsOf(t) : c.ratchetKey = v.senderKey => c.index <= v.senderIndex
      BY Zenon, <1>1 DEF Behind
    <3> QED
      BY Zenon, <3>3, <3>4, <3>5
  <2> QED
    BY Zenon, <2>1, <2>2
<1> HIDE DEF q
<1>4. \A u \in StatesOf(record'[p]), t \in StatesOf(record'[Other(p)]) :
        \A c \in ChainsOf(u) : c.ratchetKey = t.senderKey => c.index <= t.senderIndex
  BY Zenon, <1>2, <1>3 DEF q
<1>5. \A u \in StatesOf(record'[q]), t \in StatesOf(record'[Other(q)]) :
        \A c \in ChainsOf(u) : c.ratchetKey = t.senderKey => c.index <= t.senderIndex
  BY Zenon, <1>1, <1>2, <1>3
<1> QED
  BY Zenon, <1>1, <1>4, <1>5 DEF Behind

\* What was passed stays opened, if the new state passes over nothing and no
\* chain is past a new message.
LEMMA PassedKept ==
  ASSUME KeysInv, Passed, NEW p \in Parties, NEW s, Renews(p, s), Sent(p)' = Sent(p),
         \A m \in Sent(Other(p))' : \/ m \in Sent(Other(p))
                                    \/ \A t \in StatesOf(record[Other(p)]) : \A c \in ChainsOf(t) :
                                         c.ratchetKey = m.ratchetKey => ~(m.counter < c.index),
         \A r \in Parties : \A m \in Sent(r) : opens[r][m] # 0 => opens'[r][m] # 0,
         \A m \in Sent(p) : \A c \in ChainsOf(s) :
           c.ratchetKey = m.ratchetKey /\ m.counter < c.index /\ m.counter \notin c.keys
           => opens'[p][m] # 0
  PROVE  Passed'
<1> DEFINE q == Other(p)
<1>1. q \in Parties /\ q # p /\ Other(q) = p /\ \A r \in Parties : r = p \/ r = q
  BY Zenon, Others
<1>2. record'[q] = record[q]
  BY Zenon, <1>1 DEF Renews
<1>3. ASSUME NEW m \in Sent(p), NEW u \in StatesOf(record'[p]), NEW c \in ChainsOf(u),
             c.ratchetKey = m.ratchetKey /\ m.counter < c.index /\ m.counter \notin c.keys
      PROVE  opens'[p][m] # 0
  <2>1. CASE u = s
    BY Zenon, <1>3, <2>1
  <2>2. CASE u # s
    <3>1. PICK v \in StatesOf(record[p]) : u = ClearUnacknowledged(v)
      BY <2>2, StatesAfter
    <3>2. GoodState(v)
      BY Zenon DEF KeysInv, Typed
    <3>3. c \in ChainsOf(v)
      BY Zenon, <3>1, <3>2, ClearedIsGood
    <3> QED
      BY Zenon, <1>3, <3>3 DEF Passed
  <2> QED
    BY Zenon, <2>1, <2>2
<1>4. ASSUME NEW m \in Sent(q)', NEW u \in StatesOf(record[q]), NEW c \in ChainsOf(u),
             c.ratchetKey = m.ratchetKey /\ m.counter < c.index /\ m.counter \notin c.keys
      PROVE  opens'[q][m] # 0
  <2>1. m \in Sent(q)
    BY Zenon, <1>4 DEF q
  <2>2. opens[q][m] # 0
    BY Zenon, <1>1, <1>4, <2>1 DEF Passed
  <2> QED
    BY Zenon, <1>1, <2>1, <2>2
<1> HIDE DEF q
<1>5. \A m \in Sent(p)' : \A u \in StatesOf(record'[p]) : \A c \in ChainsOf(u) :
        c.ratchetKey = m.ratchetKey /\ m.counter < c.index /\ m.counter \notin c.keys
        => opens'[p][m] # 0
  BY Zenon, <1>3
<1>6. \A m \in Sent(q)' : \A u \in StatesOf(record'[q]) : \A c \in ChainsOf(u) :
        c.ratchetKey = m.ratchetKey /\ m.counter < c.index /\ m.counter \notin c.keys
        => opens'[q][m] # 0
  BY Zenon, <1>2, <1>4
<1> QED
  BY Zenon, <1>1, <1>5, <1>6 DEF Passed

\* Counters stay below the number of messages, if the new state's does.
LEMMA CountedKept ==
  ASSUME KeysInv, Counted, NEW p \in Parties, NEW s, Renews(p, s),
         \A r \in Parties : Sent(r)' = Sent(r), s.senderIndex <= Cardinality(Sent(Other(p)))
  PROVE  Counted'
<1> DEFINE q == Other(p)
<1>1. q \in Parties /\ q # p /\ Other(q) = p /\ \A r \in Parties : r = p \/ r = q
  BY Zenon, Others
<1>2. record'[q] = record[q]
  BY Zenon, <1>1 DEF Renews
<1>3. ASSUME NEW u \in StatesOf(record'[p])
      PROVE  u.senderIndex <= Cardinality(Sent(q))
  <2>1. CASE u = s
    BY Zenon, <2>1 DEF q
  <2>2. CASE u # s
    <3>1. PICK v \in StatesOf(record[p]) : u = ClearUnacknowledged(v)
      BY <2>2, StatesAfter
    <3>2. v \in SessionStates
      BY Zenon DEF KeysInv, Typed, GoodState
    <3>3. u.senderIndex = v.senderIndex
      BY Zenon, <3>1, <3>2, ClearFacts
    <3> QED
      BY Zenon, <1>1, <3>3 DEF Counted
  <2> QED
    BY Zenon, <2>1, <2>2
<1> HIDE DEF q
<1>4. \A u \in StatesOf(record[q]) : u.senderIndex <= Cardinality(Sent(p))
  BY Zenon, <1>1 DEF Counted, q
<1>5. \A r \in Parties : \A u \in StatesOf(record'[Other(r)]) :
        u.senderIndex <= Cardinality(Sent(r))
  <2>1. \A u \in StatesOf(record'[Other(q)]) : u.senderIndex <= Cardinality(Sent(q))
    BY Zenon, <1>1, <1>3
  <2>2. \A u \in StatesOf(record'[Other(p)]) : u.senderIndex <= Cardinality(Sent(p))
    BY Zenon, <1>2, <1>4 DEF q
  <2> QED
    BY Zenon, <1>1, <2>1, <2>2
<1> QED
  BY Zenon, <1>5 DEF Counted

\* process_prekey_bundle, by what its new state is.
LEMMA BundleFacts ==
  ASSUME KeysInv, NEW p \in Parties, ProcessPreKeyBundle(p)
  PROVE  \E oneTime \in Bundle(Other(p)) : \E s :
           /\ Renews(p, s)
           /\ s.aliceBase = nextKey /\ s.senderKey = nextKey + 1 /\ s.senderIndex = 0
           /\ s.senderChain = CreateChain(DeriveKeys(nextKey), SignedPreKey[Other(p)], nextKey + 1)
           /\ s.rootKey = s.senderChain
           /\ ChainsOf(s) = {ReceiverChain(SignedPreKey[Other(p)], DeriveKeys(nextKey))}
           /\ s.pending = << [base |-> nextKey, oneTime |-> oneTime] >>
           /\ FreshState(s, nextKey + 2)
           /\ \A u \in StatesOf(record[p]) : u.aliceBase # s.aliceBase
           /\ Len(record[p].previous) < ArchivedStatesMax => Keeps(record[p], record'[p], s)
           /\ offered' = [offered EXCEPT ![Other(p)] = @ \ Range(oneTime)]
<1> DEFINE q == Other(p)
           New(x) == InitializeAliceSession(nextKey, nextKey + 1, SignedPreKey[q],
                                            [base |-> nextKey, oneTime |-> x])
<1>a. PICK oneTime \in Bundle(q) : \E s :
           /\ s = New(oneTime) /\ oneTime \in Seq(OneTimePreKeys) /\ Renews(p, s)
           /\ \A u \in StatesOf(record[p]) : u.aliceBase # s.aliceBase
           /\ Len(record[p].previous) < ArchivedStatesMax => Keeps(record[p], record'[p], s)
           /\ offered' = [offered EXCEPT ![q] = @ \ Range(oneTime)]
  BY Zenon, BundleEffect
<1>1. PICK s :
           /\ s = New(oneTime) /\ oneTime \in Seq(OneTimePreKeys) /\ Renews(p, s)
           /\ \A u \in StatesOf(record[p]) : u.aliceBase # s.aliceBase
           /\ Len(record[p].previous) < ArchivedStatesMax => Keeps(record[p], record'[p], s)
           /\ offered' = [offered EXCEPT ![q] = @ \ Range(oneTime)]
  BY Zenon, <1>a
<1>3. q \in Parties /\ SignedPreKey[q] \in Nat
  BY Zenon, Others, SessionAssumption
<1>4. nextKey \in Nat /\ \A r \in Parties : SignedPreKey[r] < nextKey
  BY Zenon DEF KeysInv, Typed, Fresh
<1> DEFINE theirs == SignedPreKey[q]
           preKey == [base |-> nextKey, oneTime |-> oneTime]
           key == nextKey + 1
           n == nextKey + 2
           Facts(a, b, c, d, e, t) ==
             /\ FreshState(t, c) /\ t.aliceBase = a /\ t.senderKey = b /\ t.senderIndex = 0
             /\ t.senderChain = CreateChain(DeriveKeys(a), d, b) /\ t.rootKey = t.senderChain
             /\ ChainsOf(t) = {ReceiverChain(d, DeriveKeys(a))}
             /\ t.pending = << e >>
<1>5. /\ key \in Nat /\ n \in Nat /\ nextKey < key /\ key < n /\ nextKey <= n
      /\ theirs \in Nat /\ theirs < nextKey
      /\ preKey \in PreKeys /\ preKey.base = nextKey
      /\ s = InitializeAliceSession(nextKey, key, theirs, preKey)
  BY <1>1, <1>3, <1>4 DEF PreKeys
<1>6. \A a, b, c, d \in Nat : \A e \in PreKeys :
         /\ a < b /\ b < c /\ d < a /\ e.base = a
         /\ \A r \in Parties : SignedPreKey[r] < a
         => Facts(a, b, c, d, e, InitializeAliceSession(a, b, d, e))
  <2> SUFFICES ASSUME NEW a \in Nat, NEW b \in Nat, NEW c \in Nat, NEW d \in Nat, NEW e \in PreKeys,
                      a < b, b < c, d < a, e.base = a, \A r \in Parties : SignedPreKey[r] < a,
                      NEW t, t = InitializeAliceSession(a, b, d, e)
               PROVE  Facts(a, b, c, d, e, t)
    OBVIOUS
  <2>1. FreshState(t, c)
    BY Zenon, AliceIsGood
  <2>5. t.aliceBase = a /\ t.senderKey = b /\ t.senderIndex = 0
    BY Zenon DEF InitializeAliceSession
  <2>2. t.senderChain = CreateChain(DeriveKeys(a), d, b) /\ t.rootKey = t.senderChain
    BY AliceIsGood
  <2>3. ChainsOf(t) = {ReceiverChain(d, DeriveKeys(a))}
    BY AliceIsGood
  <2>4. t.pending = << e >>
    BY Zenon DEF InitializeAliceSession
  <2> QED
    BY Zenon, <2>1, <2>2, <2>3, <2>4, <2>5
<1> HIDE DEF theirs, preKey, key, n, New, Facts
<1>7. Facts(nextKey, key, n, theirs, preKey, s)
  BY Zenon, <1>4, <1>5, <1>6
<1> QED
  BY Zenon, <1>1, <1>7 DEF Facts, theirs, preKey, key, n, q

\* process_prekey_bundle keeps PassedInv: the new chain is of a signed prekey.
LEMMA PassedBundle ==
  ASSUME FiniteSetFacts, KeysInv, PassedInv, NEW p \in Parties, ProcessPreKeyBundle(p)
  PROVE  PassedInv'
<1> DEFINE q == Other(p)
<1>a. \E s :
        /\ Renews(p, s) /\ s.senderKey = nextKey + 1 /\ s.senderIndex = 0
        /\ ChainsOf(s) = {ReceiverChain(SignedPreKey[q], DeriveKeys(nextKey))}
  BY Zenon, BundleFacts
<1>1. PICK s :
        /\ Renews(p, s) /\ s.senderKey = nextKey + 1 /\ s.senderIndex = 0
        /\ ChainsOf(s) = {ReceiverChain(SignedPreKey[q], DeriveKeys(nextKey))}
  BY Zenon, <1>a
<1>2. opens' = opens /\ \A r \in Parties : Sent(r)' = Sent(r)
  BY Zenon DEF ProcessPreKeyBundle, Sent
<1>3. q \in Parties /\ q # p /\ Other(q) = p /\ \A r \in Parties : r = p \/ r = q
  BY Zenon, Others
<1>4. nextKey \in Nat /\ nextKey <= s.senderKey
  BY <1>1 DEF KeysInv, Typed
<1>5. \A c \in ChainsOf(s) : c.ratchetKey = SignedPreKey[q] /\ c.index = 0
  BY <1>1 DEF ReceiverChain
<1> HIDE DEF q
<1>6. /\ \A x \in Sendings(p)' : x \in Sendings(p) \/ x = SendingOf(s)
      /\ Sendings(Other(p))' = Sendings(Other(p))
  BY Zenon, <1>1, <1>2, <1>3, SendingsAfter DEF q
<1>7. OneChain'
  <2>1. \A x \in Sendings(q) : x.key # SignedPreKey[q]
    BY Zenon, <1>3, SendingsAreOld
  <2>2. \A c \in ChainsOf(s), x \in Sendings(q) : c.ratchetKey = x.key => c.chainKey = x.chain
    BY Zenon, <1>5, <2>1
  <2> QED
    BY Zenon, <1>1, <1>4, <1>6, <2>2, OneChainKept DEF PassedInv, q
<1>8. Behind'
  <2>1. ASSUME NEW t \in StatesOf(record[q])
        PROVE  /\ \A c \in ChainsOf(s) : c.ratchetKey = t.senderKey => c.index <= t.senderIndex
               /\ \A c \in ChainsOf(t) : c.ratchetKey = s.senderKey => c.index <= s.senderIndex
    <3>1. FreshState(t, nextKey) /\ GoodState(t)
      BY Zenon, <1>3 DEF KeysInv, Fresh, Typed
    <3>2. t.senderKey # SignedPreKey[q]
      BY Zenon, <1>3, <3>1 DEF FreshState
    <3>3. \A c \in ChainsOf(t) : c.ratchetKey \in Nat /\ c.ratchetKey < nextKey
      BY Zenon, <3>1, KnownChain DEF FreshState, Chains
    <3>4. \A c \in ChainsOf(t) : c.ratchetKey # s.senderKey
      BY <1>1, <1>4, <3>3
    <3> QED
      BY Zenon, <1>5, <3>2, <3>4
  <2> QED
    BY Zenon, <1>1, <2>1, BehindKept DEF PassedInv, q
<1>9. Distinct'
  BY <1>2 DEF PassedInv, Distinct
<1>10. Counted'
  <2>1. Cardinality(Sent(q)) \in Nat
    BY Zenon, <1>3 DEF PassedInv, Counted, FiniteSetFacts
  <2>2. s.senderIndex <= Cardinality(Sent(q))
    BY <1>1, <2>1
  <2> QED
    BY Zenon, <1>1, <1>2, <2>2, CountedKept DEF PassedInv, q
<1>11. Passed'
  <2>1. \A m \in Sent(p) : m.counter \in Nat
    BY Zenon, MessageBase DEF Messages
  <2>2. \A m \in Sent(p) : \A c \in ChainsOf(s) : ~(m.counter < c.index)
    BY <1>5, <2>1
  <2> QED
    BY Zenon, <1>1, <1>2, <1>3, <2>2, PassedKept DEF PassedInv, q
<1> QED
  BY Zenon, <1>7, <1>8, <1>9, <1>10, <1>11 DEF PassedInv

\* message_encrypt with the state s, by what its new state and its message are.
Encrypts(p, s, new, m) ==
  /\ s \in StatesOf(record[p]) /\ record[p].current = << s >>
  /\ Renews(p, new) /\ Keeps(record[p], record'[p], new)
  /\ new.aliceBase = s.aliceBase /\ new.rootKey = s.rootKey /\ new.senderKey = s.senderKey
  /\ new.senderChain = s.senderChain /\ new.senderIndex = s.senderIndex + 1
  /\ new.receivers = s.receivers /\ new.pending = s.pending
  /\ m \in Messages /\ m.ratchetKey = s.senderKey /\ m.chainKey = s.senderChain
  /\ m.counter = s.senderIndex /\ m.preKey = s.pending
  /\ m \notin Sent(Other(p)) /\ Sent(Other(p))' = Sent(Other(p)) \cup {m}
  /\ \A x \in Sent(Other(p)) : opens'[Other(p)][x] = opens[Other(p)][x]
  /\ Sent(p)' = Sent(p) /\ opens'[p] = opens[p]

LEMMA EncryptFacts ==
  ASSUME KeysInv, NEW p \in Parties, EncryptLoaded(p, record[p])
  PROVE  \E s, new, m : Encrypts(p, s, new, m)
<1> DEFINE q == Other(p)
<1>a. PICK s \in StatesOf(record[p]) : \E new : \E m \in Messages :
            /\ record[p].current = << s >>
            /\ new = [s EXCEPT !.senderIndex = @ + 1] /\ m = NextMessage(s)
            /\ Renews(p, new) /\ Keeps(record[p], record'[p], new)
            /\ opens' = [opens EXCEPT ![q] = Posted(@, m)]
  BY EncryptEffect
<1>b. PICK new : \E m \in Messages :
            /\ record[p].current = << s >>
            /\ new = [s EXCEPT !.senderIndex = @ + 1] /\ m = NextMessage(s)
            /\ Renews(p, new) /\ Keeps(record[p], record'[p], new)
            /\ opens' = [opens EXCEPT ![q] = Posted(@, m)]
  BY Zenon, <1>a
<1>1. PICK m \in Messages :
            /\ record[p].current = << s >>
            /\ new = [s EXCEPT !.senderIndex = @ + 1] /\ m = NextMessage(s)
            /\ Renews(p, new) /\ Keeps(record[p], record'[p], new)
            /\ opens' = [opens EXCEPT ![q] = Posted(@, m)]
  BY Zenon, <1>b
<1>3. q \in Parties /\ q # p
  BY Zenon, Others
<1>4. s \in SessionStates
  BY Zenon DEF KeysInv, Typed, GoodState
<1>5. /\ new.aliceBase = s.aliceBase /\ new.rootKey = s.rootKey /\ new.senderKey = s.senderKey
      /\ new.senderChain = s.senderChain /\ new.senderIndex = s.senderIndex + 1
      /\ new.receivers = s.receivers /\ new.pending = s.pending
  BY Zenon, <1>1, <1>4 DEF SessionStates
<1>6. /\ m.ratchetKey = s.senderKey /\ m.chainKey = s.senderChain
      /\ m.counter = s.senderIndex /\ m.preKey = s.pending
  BY Zenon, <1>1 DEF NextMessage
<1>7. m \notin Sent(q)
  BY Zenon, <1>1, NextIsNew
<1> HIDE DEF q
<1>8. opens' = [opens EXCEPT ![q] = Posted(@, m)]
  BY Zenon, <1>1
<1>9. Sent(q)' = Sent(q) \cup {m}
  BY Zenon, <1>3, <1>8, PostedFacts
<1>10. \A x \in Sent(q) : opens'[q][x] = opens[q][x]
  <2>1. opens'[q] = Posted(opens[q], m)
    BY Zenon, <1>3, <1>8 DEF KeysInv, Typed
  <2> QED
    BY Zenon, <1>7, <2>1 DEF Posted, Sent
<1>11. \A r \in Parties : r # q => Sent(r)' = Sent(r) /\ opens'[r] = opens[r]
  BY Zenon, <1>3, <1>8, PostedFacts
<1>12. Sent(p)' = Sent(p) /\ opens'[p] = opens[p]
  BY Zenon, <1>3, <1>11
<1> QED
  BY Zenon, <1>1, <1>5, <1>6, <1>7, <1>9, <1>10, <1>12 DEF Encrypts, q

\* message_encrypt keeps PassedInv: no chain is ahead of the sender.
LEMMA PassedEncrypt ==
  ASSUME FiniteSetFacts, KeysInv, PassedInv, NEW p \in Parties, MessageEncrypt(p)
  PROVE  PassedInv'
<1> DEFINE q == Other(p)
<1>a. PICK s, new, m : Encrypts(p, s, new, m)
  BY Zenon, EncryptFacts DEF MessageEncrypt
<1>1. /\ s \in StatesOf(record[p]) /\ Renews(p, new)
      /\ new.senderKey = s.senderKey /\ new.senderChain = s.senderChain
      /\ new.senderIndex = s.senderIndex + 1 /\ ChainsOf(new) = ChainsOf(s)
      /\ m.ratchetKey = s.senderKey /\ m.chainKey = s.senderChain /\ m.counter = s.senderIndex
      /\ m \notin Sent(q) /\ Sent(q)' = Sent(q) \cup {m}
      /\ \A x \in Sent(q) : opens'[q][x] = opens[q][x]
      /\ Sent(p)' = Sent(p) /\ opens'[p] = opens[p]
  BY Zenon, <1>a DEF Encrypts, ChainsOf
<1>2. q \in Parties /\ q # p /\ Other(q) = p /\ \A r \in Parties : r = p \/ r = q
  BY Zenon, Others
<1>3. s.senderIndex \in Nat
  BY Zenon, <1>1 DEF KeysInv, Typed, GoodState, SessionStates
<1>4. Cardinality(Sent(q)) < MaxSends
  BY Zenon DEF MessageEncrypt
<1> HIDE DEF q
<1>5. OneChain'
  <2>1. /\ \A x \in Sendings(p)' : x \in Sendings(p) \/ x = SendingOf(new)
        /\ Sendings(Other(p))' = Sendings(Other(p))
    <3>1. \A n \in Sent(Other(p))' : \/ n \in Sent(Other(p))
                                     \/ n.ratchetKey = new.senderKey /\ n.chainKey = new.senderChain
      BY Zenon, <1>1 DEF q
    <3> QED
      BY Zenon, <1>1, <3>1, SendingsAfter
  <2>2. SendingOf(new) \in Sendings(p)
    BY Zenon, <1>1 DEF Sendings, SendingOf
  <2>3. \A c \in ChainsOf(new), x \in Sendings(Other(p)) : c.ratchetKey = x.key => c.chainKey = x.chain
    BY Zenon, <1>1 DEF PassedInv, OneChain
  <2> QED
    BY Zenon, <1>1, <2>1, <2>2, <2>3, OneChainKept DEF PassedInv
<1>6. Behind'
  <2>1. ASSUME NEW t \in StatesOf(record[q])
        PROVE  /\ \A c \in ChainsOf(new) : c.ratchetKey = t.senderKey => c.index <= t.senderIndex
               /\ \A c \in ChainsOf(t) : c.ratchetKey = new.senderKey => c.index <= new.senderIndex
    <3>1. \A c \in ChainsOf(s) : c.ratchetKey = t.senderKey => c.index <= t.senderIndex
      BY Zenon, <1>1 DEF PassedInv, Behind, q
    <3>2. \A c \in ChainsOf(t) : c.ratchetKey = s.senderKey => c.index <= s.senderIndex
      BY Zenon, <1>1, <1>2 DEF PassedInv, Behind
    <3>3. \A c \in ChainsOf(t) : c.index \in Nat
      BY <1>2, KnownChain DEF KeysInv, Typed, Chains
    <3> QED
      BY <1>1, <1>3, <3>1, <3>2, <3>3
  <2> QED
    BY Zenon, <1>1, <2>1, BehindKept DEF PassedInv, q
<1>7. Distinct'
  <2>1. ASSUME NEW n \in Sent(q), m.chainKey = n.chainKey /\ m.counter = n.counter
        PROVE  FALSE
    <3>1. n.counter < s.senderIndex
      BY Zenon, <1>1, <2>1 DEF KeysInv, Ahead, q
    <3> QED
      BY <1>1, <1>3, <2>1, <3>1
  <2>2. \A a, b \in Sent(q) : a.chainKey = b.chainKey /\ a.counter = b.counter => a = b
    BY Zenon, <1>2 DEF PassedInv, Distinct
  <2>3. \A a, b \in Sent(q)' : a.chainKey = b.chainKey /\ a.counter = b.counter => a = b
    BY Zenon, <1>1, <2>1, <2>2
  <2>4. \A a, b \in Sent(p)' : a.chainKey = b.chainKey /\ a.counter = b.counter => a = b
    BY Zenon, <1>1 DEF PassedInv, Distinct
  <2> QED
    BY Zenon, <1>2, <2>3, <2>4 DEF Distinct
<1>8. Counted'
  <2> DEFINE N == Cardinality(Sent(q))
  <2>1. IsFiniteSet(Sent(q)) /\ N \in Nat
    BY Zenon, <1>2 DEF PassedInv, Counted, FiniteSetFacts
  <2>2. IsFiniteSet(Sent(q)') /\ Cardinality(Sent(q)') = N + 1
    BY Zenon, <1>1, <2>1 DEF FiniteSetFacts
  <2> HIDE DEF N
  <2>3. N < MaxSends /\ MaxSends \in Nat
    BY Zenon, <1>4, SessionAssumption DEF N
  <2>4. ASSUME NEW n \in Sent(q)' PROVE n.counter < N + 1
    <3>1. CASE n \in Sent(q)
      <4>1. n.counter < N /\ n.counter \in Nat
        BY Zenon, <1>2, <3>1, MessageBase DEF PassedInv, Counted, N, Messages
      <4> QED
        BY <2>1, <4>1
    <3>2. CASE n = m
      <4>1. s.senderIndex <= N
        BY Zenon, <1>1, <1>2 DEF PassedInv, Counted, N
      <4> QED
        BY <1>1, <1>3, <2>1, <3>2, <4>1
    <3> QED
      BY Zenon, <1>1, <3>1, <3>2
  <2>5. ASSUME NEW u \in StatesOf(record'[p]) PROVE u.senderIndex <= N + 1
    <3>1. CASE u = new
      <4>1. s.senderIndex <= N
        BY Zenon, <1>1, <1>2 DEF PassedInv, Counted, N
      <4> QED
        BY <1>1, <1>3, <2>1, <3>1, <4>1
    <3>2. CASE u # new
      <4>1. PICK v \in StatesOf(record[p]) : u = ClearUnacknowledged(v)
        BY <1>1, <3>2, StatesAfter
      <4>2. v \in SessionStates
        BY Zenon DEF KeysInv, Typed, GoodState
      <4>3. u.senderIndex = v.senderIndex /\ v.senderIndex \in Nat
        BY Zenon, <4>1, <4>2, ClearFacts DEF SessionStates
      <4>4. v.senderIndex <= N
        BY Zenon, <1>2 DEF PassedInv, Counted, N
      <4> QED
        BY <2>1, <4>3, <4>4
    <3> QED
      BY Zenon, <3>1, <3>2
  <2>6. N + 1 <= MaxSends
    BY <2>1, <2>3
  <2>7. /\ IsFiniteSet(Sent(q)') /\ Cardinality(Sent(q)') <= MaxSends
        /\ \A n \in Sent(q)' : n.counter < Cardinality(Sent(q)')
        /\ \A u \in StatesOf(record'[Other(q)]) : u.senderIndex <= Cardinality(Sent(q)')
    BY Zenon, <1>2, <2>2, <2>4, <2>5, <2>6
  <2>8. /\ IsFiniteSet(Sent(p)') /\ Cardinality(Sent(p)') <= MaxSends
        /\ \A n \in Sent(p)' : n.counter < Cardinality(Sent(p)')
        /\ \A u \in StatesOf(record'[Other(p)]) : u.senderIndex <= Cardinality(Sent(p)')
    <3>1. record'[Other(p)] = record[Other(p)]
      BY Zenon, <1>1, <1>2 DEF Renews, q
    <3> QED
      BY Zenon, <1>1, <3>1 DEF PassedInv, Counted
  <2> QED
    BY Zenon, <1>2, <2>7, <2>8 DEF Counted
<1>9. Passed'
  <2>1. \A t \in StatesOf(record[q]) : \A c \in ChainsOf(t) :
          c.ratchetKey = m.ratchetKey => ~(m.counter < c.index)
    <3>1. \A t \in StatesOf(record[q]) : \A c \in ChainsOf(t) :
            c.index \in Nat /\ (c.ratchetKey = s.senderKey => c.index <= s.senderIndex)
      BY ZenonT(30), <1>1, <1>2, KnownChain DEF PassedInv, Behind, KeysInv, Typed, Chains
    <3> QED
      BY <1>1, <1>3, <3>1
  <2>2. \A n \in Sent(Other(p))' : \/ n \in Sent(Other(p))
                                   \/ \A t \in StatesOf(record[Other(p)]) : \A c \in ChainsOf(t) :
                                        c.ratchetKey = n.ratchetKey => ~(n.counter < c.index)
    BY Zenon, <1>1, <2>1 DEF q
  <2>3. \A r \in Parties : \A n \in Sent(r) : opens[r][n] # 0 => opens'[r][n] # 0
    BY Zenon, <1>1, <1>2
  <2>4. \A n \in Sent(p) : \A c \in ChainsOf(new) :
           c.ratchetKey = n.ratchetKey /\ n.counter < c.index /\ n.counter \notin c.keys
           => opens'[p][n] # 0
    BY Zenon, <1>1 DEF PassedInv, Passed
  <2> QED
    BY Zenon, <1>1, <2>2, <2>3, <2>4, PassedKept DEF PassedInv
<1> QED
  BY Zenon, <1>5, <1>6, <1>7, <1>8, <1>9 DEF PassedInv

\* Opening msg with the state s, by what its new state is.
Opens(p, msg, s, new) ==
  /\ Candidate(p, record[p], msg, s) /\ GoodState(s) /\ Renews(p, new)
  /\ s \in StatesOf(record[p]) \/ Len(record[p].previous) < ArchivedStatesMax
     => Keeps(record[p], record'[p], new)
  /\ new.aliceBase = s.aliceBase /\ new.pending = <<>>
  /\ msg.chainKey[1] = {s.aliceBase} /\ TriedChain(s, msg).chainKey = msg.chainKey
  /\ Got(s, msg).result = "ok" /\ Got(s, msg).chain \in ChainsOf(new)
  /\ \A e \in ChainsOf(new) :
       e = Got(s, msg).chain \/ (e \in ChainsOf(s) /\ e.ratchetKey # msg.ratchetKey)
  /\ Knows(s, msg.ratchetKey) =>
       /\ s \in StatesOf(record[p])
       /\ new.rootKey = s.rootKey /\ new.senderKey = s.senderKey
       /\ new.senderChain = s.senderChain /\ new.senderIndex = s.senderIndex
  /\ ~Knows(s, msg.ratchetKey) =>
       /\ new.senderKey = nextKey /\ new.senderIndex = 0
       /\ new.senderChain = CreateChain(msg.chainKey, msg.ratchetKey, nextKey)
       /\ new.rootKey = new.senderChain
  /\ Knows(s, msg.ratchetKey) \/ Len(s.receivers) < MaxReceiverChains =>
       \A e \in ChainsOf(s) : e.ratchetKey # msg.ratchetKey => e \in ChainsOf(new)

LEMMA OpensFacts ==
  ASSUME WellOrdered, KeysInv, NEW p \in Parties, NEW msg \in Sent(p), DecryptLoaded(p, record[p], msg)
  PROVE  \E s, new : Opens(p, msg, s, new)
<1>a. PICK s : \E r :
        /\ Candidate(p, record[p], msg, s) /\ GoodState(s)
        /\ r = DecryptWithState(s, msg, nextKey) /\ r.result = "ok" /\ Renews(p, r.state)
        /\ s \in StatesOf(record[p]) \/ Len(record[p].previous) < ArchivedStatesMax
           => Keeps(record[p], record'[p], r.state)
  BY Zenon, DecryptEffect
<1>1. PICK r :
        /\ Candidate(p, record[p], msg, s) /\ GoodState(s)
        /\ r = DecryptWithState(s, msg, nextKey) /\ r.result = "ok" /\ Renews(p, r.state)
        /\ s \in StatesOf(record[p]) \/ Len(record[p].previous) < ArchivedStatesMax
           => Keeps(record[p], record'[p], r.state)
  BY Zenon, <1>a
<1>2. msg \in Messages /\ nextKey \in Nat
  BY Zenon, MessageBase DEF KeysInv, Typed
<1>3. Candidate(p, record[p], msg, s) /\ GoodState(s)
  BY Zenon, <1>1
<1>4. r = DecryptWithState(s, msg, nextKey) /\ r.result = "ok"
  BY Zenon, <1>1
<1> DEFINE new == r.state
           g == Got(s, msg)
           c == TriedChain(s, msg)
<1>5. /\ Knows(s, msg.ratchetKey) => s \in StatesOf(record[p])
      /\ c.chainKey = msg.chainKey /\ msg.chainKey[1] = {s.aliceBase}
  <2>1. Freshened(p, msg, s, r.state)
    BY Zenon, <1>3, <1>4, DecryptedIsFresh
  <2> QED
    BY Zenon, <2>1 DEF Freshened
<1>g. GoodState(s) /\ r = DecryptWithState(s, msg, nextKey)
  BY Zenon, <1>1
<1>o. Outcome(s, msg, nextKey, r)
  BY Zenon, <1>2, <1>g, DecryptOutcome
<1>6. /\ r.result = IF g.result = "ok" /\ c.chainKey # msg.chainKey THEN "invalid" ELSE g.result
      /\ new.aliceBase = s.aliceBase /\ new.pending = <<>> /\ g.chain \in ChainsOf(new)
      /\ \A e \in ChainsOf(new) : e = g.chain \/ (e \in ChainsOf(s) /\ e.ratchetKey # msg.ratchetKey)
  BY Zenon, <1>o DEF Outcome
<1>7. /\ Knows(s, msg.ratchetKey) =>
           /\ new.rootKey = s.rootKey /\ new.senderKey = s.senderKey
           /\ new.senderChain = s.senderChain /\ new.senderIndex = s.senderIndex
      /\ ~Knows(s, msg.ratchetKey) =>
           /\ new.senderKey = nextKey /\ new.senderIndex = 0
           /\ new.senderChain = CreateChain(c.chainKey, msg.ratchetKey, nextKey)
           /\ new.rootKey = new.senderChain
      /\ Knows(s, msg.ratchetKey) \/ Len(s.receivers) < MaxReceiverChains =>
           \A e \in ChainsOf(s) : e.ratchetKey # msg.ratchetKey => e \in ChainsOf(new)
  BY Zenon, <1>o DEF Outcome
<1>8. /\ Renews(p, new)
      /\ s \in StatesOf(record[p]) \/ Len(record[p].previous) < ArchivedStatesMax
           => Keeps(record[p], record'[p], new)
  BY Zenon, <1>1
<1> HIDE DEF new, g, c
<1>9. g.result = "ok"
  BY Zenon, <1>4, <1>5, <1>6
<1>10. Opens(p, msg, s, new)
  BY Zenon, <1>3, <1>5, <1>6, <1>7, <1>8, <1>9 DEF Opens, g, c
<1> QED
  BY Zenon, <1>10

\* Nothing is trimmed from keys below MAX_MESSAGE_KEYS.
LEMMA NewestKeepsAll ==
  ASSUME FiniteSetFacts, NEW S \in SUBSET Nat, NEW n \in Nat, \A j \in S : j < n, n <= MaxMessageKeys
  PROVE  Newest(S) = S
<1>1. ASSUME NEW k \in S PROVE Cardinality({j \in S : j > k}) < MaxMessageKeys
  <2>1. k \in Nat /\ k < n
    BY Zenon
  <2> DEFINE a == k + 1
             b == n - 1
             T == {j \in S : j > k}
  <2>2. \A j \in T : j \in a .. b
    BY <2>1
  <2>3. a \in Nat /\ b \in Nat /\ a <= b + 1 /\ b - a + 1 = n - 1 - k
    BY <2>1
  <2> HIDE DEF a, b, T
  <2>5. T \in SUBSET (a .. b)
    BY Zenon, <2>2
  <2>6. Cardinality(T) \in Nat /\ Cardinality(T) <= b - a + 1
    BY Zenon, <2>3, <2>5 DEF FiniteSetFacts
  <2>7. Cardinality(T) < MaxMessageKeys
    BY <2>1, <2>3, <2>6, ChainAssumption
  <2> QED
    BY Zenon, <2>7 DEF T
<1> QED
  BY Zenon, <1>1 DEF Newest

\* The key of msg is used up in the chain c of s, which becomes that of g.
UsedUp(s, msg, c, g) ==
  /\ c \in Chains /\ c.ratchetKey = msg.ratchetKey
  /\ c.index # 0 => Knows(s, msg.ratchetKey) /\ c \in ChainsOf(s)
  /\ g.chain \in Chains
  /\ g.chain.ratchetKey = msg.ratchetKey /\ g.chain.chainKey = c.chainKey
  /\ msg.counter < g.chain.index /\ msg.counter \notin g.chain.keys
  /\ g.chain.index <= c.index \/ g.chain.index = msg.counter + 1
  /\ \A k \in Nat : k < g.chain.index /\ k \notin g.chain.keys
       => k = msg.counter \/ (k < c.index /\ k \notin c.keys)

\* The chain that a message of another counter finds after msg was opened.
LEMMA GotFacts ==
  ASSUME FiniteSetFacts, KeysInv, PassedInv, MaxSends <= MaxMessageKeys,
         NEW p \in Parties, NEW msg \in Sent(p), NEW s, GoodState(s), NEW c, c = TriedChain(s, msg), NEW g, g = Got(s, msg), g.result = "ok"
  PROVE  UsedUp(s, msg, c, g)
<1> DEFINE n == msg.counter
<1>1. msg \in Messages /\ n \in Nat
  BY Zenon, MessageBase DEF Messages
<1>2. /\ c \in Chains /\ c.ratchetKey = msg.ratchetKey /\ \A k \in c.keys : k < c.index
      /\ ~Knows(s, msg.ratchetKey) => c.index = 0
  BY Zenon, <1>1, TriedChainType
<1>3. Knows(s, msg.ratchetKey) => c \in ChainsOf(s)
  BY Zenon, KnownChain
<1>4. g = GetOrCreateMessageKey(c, n)
  BY Zenon DEF Got
<1>5. NothingTrimmed(n)
  <2>1. n < Cardinality(Sent(p)) /\ Cardinality(Sent(p)) <= MaxSends /\ Cardinality(Sent(p)) \in Nat
    BY Zenon DEF PassedInv, Counted, FiniteSetFacts
  <2>2. n <= MaxMessageKeys
    BY <1>1, <2>1, SessionAssumption, ChainAssumption
  <2> HIDE DEF n
  <2>3. ASSUME NEW S \in SUBSET (0 .. n - 1) PROVE Newest(S) = S
    <3>1. S \in SUBSET Nat /\ \A j \in S : j < n
      BY <1>1
    <3> QED
      BY Zenon, <1>1, <2>2, <3>1, NewestKeepsAll
  <2> QED
    BY Zenon, <2>3 DEF NothingTrimmed
<1> HIDE DEF n
<1>6. g.chain \in Chains /\ g.chain.ratchetKey = c.ratchetKey /\ g.chain.chainKey = c.chainKey
  BY Zenon, <1>1, <1>2, <1>4, KeyResults
<1>7. /\ n < g.chain.index /\ n \notin g.chain.keys
      /\ g.chain.index <= c.index \/ g.chain.index = n + 1
  BY <1>1, <1>2, <1>4, KeyUsedUp
<1>8. \A k \in Nat : k # n /\ (k >= c.index \/ k \in c.keys)
        => (k >= g.chain.index \/ k \in g.chain.keys)
  BY <1>1, <1>2, <1>4, <1>5, KeyUsedUp
<1>9. c.index \in Nat /\ g.chain.index \in Nat
  BY Zenon, <1>2, <1>6 DEF Chains
<1>10. \A k \in Nat : k < g.chain.index /\ k \notin g.chain.keys
         => k = n \/ (k < c.index /\ k \notin c.keys)
  BY <1>8, <1>9
<1> QED
  BY Zenon, <1>2, <1>3, <1>6, <1>7, <1>10 DEF n, UsedUp

\* Opening a message keeps PassedInv: the message is the only one of its key.
LEMMA PassedDecrypt ==
  ASSUME WellOrdered, FiniteSetFacts, KeysInv, PassedInv, MaxSends <= MaxMessageKeys,
         NEW p \in Parties, NEW msg \in Sent(p), MessageDecrypt(p, msg)
  PROVE  PassedInv'
<1> DEFINE q == Other(p)
<1>a. PICK s, new : Opens(p, msg, s, new)
  BY Zenon, OpensFacts DEF MessageDecrypt
<1> DEFINE c == TriedChain(s, msg)
           g == Got(s, msg)
<1>1. /\ Candidate(p, record[p], msg, s) /\ GoodState(s) /\ Renews(p, new)
      /\ c.chainKey = msg.chainKey /\ g.result = "ok"
      /\ \A e \in ChainsOf(new) : e = g.chain \/ (e \in ChainsOf(s) /\ e.ratchetKey # msg.ratchetKey)
  BY Zenon, <1>a DEF Opens
<1>2. /\ Knows(s, msg.ratchetKey) =>
           /\ s \in StatesOf(record[p]) /\ new.senderKey = s.senderKey
           /\ new.senderChain = s.senderChain /\ new.senderIndex = s.senderIndex
      /\ ~Knows(s, msg.ratchetKey) => new.senderKey = nextKey /\ new.senderIndex = 0
  BY Zenon, <1>a DEF Opens
<1>3. /\ c.ratchetKey = msg.ratchetKey /\ c.index \in Nat
      /\ c.index # 0 => Knows(s, msg.ratchetKey) /\ c \in ChainsOf(s)
      /\ g.chain.ratchetKey = msg.ratchetKey /\ g.chain.chainKey = c.chainKey
      /\ g.chain.index <= c.index \/ g.chain.index = msg.counter + 1
      /\ g.chain.index \in Nat
      /\ \A k \in Nat : k < g.chain.index /\ k \notin g.chain.keys
           => k = msg.counter \/ (k < c.index /\ k \notin c.keys)
  <2>1. UsedUp(s, msg, c, g)
    BY Zenon, <1>1, GotFacts
  <2> HIDE DEF c, g
  <2> QED
    BY Zenon, <2>1 DEF UsedUp, Chains
<1>4. \A e \in ChainsOf(s) : s \in StatesOf(record[p])
  <2>1. CASE s \in StatesOf(record[p])
    BY Zenon, <2>1
  <2>2. CASE s \notin StatesOf(record[p])
    <3>1. msg.preKey # <<>> /\ s = InitializeBobSession(msg.preKey[1].base, SignedPreKey[p])
      BY Zenon, <1>1, <2>2 DEF Candidate
    <3>2. msg.preKey[1].base \in Nat /\ SignedPreKey[p] \in Nat
      BY Zenon, <3>1, PreKeyOfMessage, SessionAssumption
    <3>3. BobState(s, msg.preKey[1].base, SignedPreKey[p])
      BY Zenon, <3>1, <3>2, BobIsGood
    <3> QED
      BY Zenon, <3>3 DEF BobState
  <2> QED
    BY Zenon, <2>1, <2>2
<1>5. q \in Parties /\ q # p /\ Other(q) = p /\ \A r \in Parties : r = p \/ r = q
  BY Zenon, Others
<1>6. /\ \A r \in Parties : Sent(r)' = Sent(r)
      /\ opens'[p] = [opens[p] EXCEPT ![msg] = @ + 1]
      /\ \A r \in Parties : r # p => opens'[r] = opens[r]
  BY Zenon, OpenedFacts DEF MessageDecrypt
<1>7. /\ nextKey \in Nat /\ \A m \in Sent(p) : m \in Messages /\ m.counter \in Nat
      /\ opens[p] \in [Sent(p) -> Nat]
  BY Zenon, MessageBase DEF KeysInv, Typed, Messages
<1>8. \A x \in Sendings(q) : x.key = msg.ratchetKey => x.chain = msg.chainKey
  <2>1. PICK y \in Sendings(q) : y.key = msg.ratchetKey /\ y.chain = msg.chainKey
    BY Zenon, <1>5, InSendings
  <2> QED
    BY <1>5, <2>1 DEF PassedInv, OneChain
<1> HIDE DEF q, c, g
<1>9. OneChain'
  <2>1. /\ \A x \in Sendings(p)' : x \in Sendings(p) \/ x = SendingOf(new)
        /\ Sendings(Other(p))' = Sendings(Other(p))
    BY Zenon, <1>1, <1>5, <1>6, SendingsAfter DEF q
  <2>2. SendingOf(new) \in Sendings(p) \/ nextKey <= new.senderKey
    <3>1. CASE Knows(s, msg.ratchetKey)
      BY Zenon, <1>2, <3>1 DEF Sendings, SendingOf
    <3> QED
      BY <1>2, <1>7, <3>1
  <2>3. \A e \in ChainsOf(new), x \in Sendings(Other(p)) : e.ratchetKey = x.key => e.chainKey = x.chain
    <3> SUFFICES ASSUME NEW e \in ChainsOf(new), NEW x \in Sendings(q), e.ratchetKey = x.key
                 PROVE  e.chainKey = x.chain
      BY Zenon DEF q
    <3>1. CASE e = g.chain
      BY Zenon, <1>1, <1>3, <1>8, <3>1
    <3>2. CASE e \in ChainsOf(s)
      BY <1>4, <3>2 DEF PassedInv, OneChain, q
    <3> QED
      BY Zenon, <1>1, <3>1, <3>2
  <2> QED
    BY Zenon, <1>1, <2>1, <2>2, <2>3, OneChainKept DEF PassedInv
<1>10. Behind'
  <2>1. ASSUME NEW t \in StatesOf(record[q])
        PROVE  /\ \A e \in ChainsOf(new) : e.ratchetKey = t.senderKey => e.index <= t.senderIndex
               /\ \A e \in ChainsOf(t) : e.ratchetKey = new.senderKey => e.index <= new.senderIndex
    <3>1. FreshState(t, nextKey) /\ GoodState(t) /\ t.senderIndex \in Nat
      BY Zenon, <1>5 DEF KeysInv, Fresh, Typed, GoodState, SessionStates
    <3>2. ASSUME NEW e \in ChainsOf(s), e.ratchetKey = t.senderKey
          PROVE  e.index <= t.senderIndex
      BY Zenon, <1>4, <3>2 DEF PassedInv, Behind, q
    <3>3. ASSUME g.chain.ratchetKey = t.senderKey
          PROVE  g.chain.index <= t.senderIndex
      <4>1. PICK x \in Sendings(q) : x.key = t.senderKey /\ x.chain = t.senderChain
        BY Zenon, <1>5, InSendings
      <4>2. t.senderChain = msg.chainKey
        BY Zenon, <1>3, <1>8, <3>3, <4>1
      <4>3. msg.counter < t.senderIndex
        BY Zenon, <1>5, <4>2 DEF KeysInv, Ahead
      <4>4. CASE g.chain.index = msg.counter + 1
        BY <1>7, <3>1, <4>3, <4>4
      <4>5. CASE g.chain.index <= c.index /\ c.index # 0
        <5>1. c.index <= t.senderIndex
          BY Zenon, <1>3, <3>2, <3>3, <4>5
        <5> QED
          BY <1>3, <3>1, <4>5, <5>1
      <4>6. CASE g.chain.index <= c.index /\ c.index = 0
        BY <1>3, <3>1, <4>6
      <4> QED
        BY Zenon, <1>3, <4>4, <4>5, <4>6
    <3>4. ASSUME NEW e \in ChainsOf(t), e.ratchetKey = new.senderKey
          PROVE  e.index <= new.senderIndex
      <4>1. CASE Knows(s, msg.ratchetKey)
        <5>1. e.ratchetKey = s.senderKey /\ s \in StatesOf(record[p])
          BY Zenon, <1>2, <3>4, <4>1
        <5>2. e.index <= s.senderIndex
          BY Zenon, <1>5, <5>1 DEF PassedInv, Behind
        <5> QED
          BY Zenon, <1>2, <4>1, <5>2
      <4>2. CASE ~Knows(s, msg.ratchetKey)
        <5>1. e.ratchetKey \in Nat /\ e.ratchetKey < nextKey
          BY Zenon, <3>1, KnownChain DEF FreshState, Chains
        <5>2. FALSE
          BY <1>2, <1>7, <3>4, <4>2, <5>1
        <5> QED
          BY Zenon, <5>2
      <4> QED
        BY Zenon, <4>1, <4>2
    <3> QED
      BY Zenon, <1>1, <3>2, <3>3, <3>4
  <2> QED
    BY Zenon, <1>1, <2>1, BehindKept DEF PassedInv, q
<1>11. Distinct'
  BY <1>6 DEF PassedInv, Distinct
<1>12. Counted'
  <2>1. Cardinality(Sent(q)) \in Nat
    BY Zenon, <1>5 DEF PassedInv, Counted, FiniteSetFacts
  <2>2. new.senderIndex <= Cardinality(Sent(q))
    <3>1. CASE Knows(s, msg.ratchetKey)
      BY Zenon, <1>2, <1>5, <3>1 DEF PassedInv, Counted
    <3>2. CASE ~Knows(s, msg.ratchetKey)
      BY <1>2, <2>1, <3>2
    <3> QED
      BY Zenon, <3>1, <3>2
  <2> QED
    BY Zenon, <1>1, <1>6, <2>2, CountedKept DEF PassedInv, q
<1>13. \A m \in Sent(p) : m # msg => opens'[p][m] = opens[p][m]
  BY Zenon, <1>6 DEF Sent
<1>14. opens'[p][msg] # 0
  <2>1. opens'[p][msg] = opens[p][msg] + 1
    BY Zenon, <1>6 DEF Sent
  <2> QED
    BY <1>7, <2>1
<1>15. Passed'
  <2>1. \A r \in Parties : \A m \in Sent(r) : opens[r][m] # 0 => opens'[r][m] # 0
    BY Zenon, <1>5, <1>6, <1>13, <1>14
  <2>2. ASSUME NEW m \in Sent(p), NEW e \in ChainsOf(new),
               e.ratchetKey = m.ratchetKey /\ m.counter < e.index /\ m.counter \notin e.keys
        PROVE  opens'[p][m] # 0
    <3>1. ASSUME NEW f \in ChainsOf(s),
                 f.ratchetKey = m.ratchetKey /\ m.counter < f.index /\ m.counter \notin f.keys
          PROVE  opens'[p][m] # 0
      <4>1. opens[p][m] # 0
        BY Zenon, <1>4, <3>1 DEF PassedInv, Passed
      <4> QED
        BY Zenon, <2>1, <4>1
    <3>2. CASE e = g.chain
      <4>1. m.ratchetKey = msg.ratchetKey /\ m.counter \in Nat
        BY Zenon, <1>3, <1>7, <2>2, <3>2
      <4>2. CASE m.counter = msg.counter
        <5>1. PICK x \in Sendings(q) : x.key = m.ratchetKey /\ x.chain = m.chainKey
          BY Zenon, <1>5, InSendings
        <5>2. m.chainKey = msg.chainKey
          BY Zenon, <1>8, <4>1, <5>1
        <5>3. m = msg
          BY Zenon, <4>2, <5>2 DEF PassedInv, Distinct
        <5> QED
          BY Zenon, <1>14, <5>3
      <4>3. CASE m.counter < c.index /\ m.counter \notin c.keys
        <5>1. c.index # 0
          BY <1>3, <4>1, <4>3
        <5> QED
          BY Zenon, <1>3, <3>1, <4>1, <4>3, <5>1
      <4> QED
        BY Zenon, <1>3, <2>2, <3>2, <4>1, <4>2, <4>3
    <3> QED
      BY Zenon, <1>1, <2>2, <3>1, <3>2
  <2> QED
    BY Zenon, <1>1, <1>5, <1>6, <2>1, <2>2, PassedKept DEF PassedInv, q
<1> QED
  BY Zenon, <1>9, <1>10, <1>11, <1>12, <1>15 DEF PassedInv

LEMMA PassedStart ==
  ASSUME FiniteSetFacts PROVE Init => PassedInv
<1> SUFFICES ASSUME Init PROVE PassedInv
  BY Zenon
<1>1. \A p \in Parties : Sent(p) = {} /\ StatesOf(record[p]) = {}
  BY DEF Init, Sent, StatesOf, FreshRecord, Range
<1>2. \A p \in Parties : Other(p) \in Parties
  BY Zenon, Others
<1>3. \A p \in Parties : Sendings(p) = {}
  BY Zenon, <1>1, <1>2 DEF Sendings
<1>4. Counted
  <2>1. IsFiniteSet({}) /\ Cardinality({}) <= MaxSends
    BY SessionAssumption DEF FiniteSetFacts
  <2> QED
    BY Zenon, <1>1, <1>2, <2>1 DEF Counted
<1> QED
  BY Zenon, <1>1, <1>2, <1>3, <1>4 DEF PassedInv, OneChain, Behind, Distinct, Passed

LEMMA PassedNext ==
  ASSUME WellOrdered, FiniteSetFacts, MaxSends <= MaxMessageKeys
  PROVE  KeysInv /\ PassedInv /\ [Next]_vars => PassedInv'
<1> SUFFICES ASSUME KeysInv, PassedInv, [Next]_vars PROVE PassedInv'
  BY Zenon
<1>1. CASE Next
  <2>1. PICK p \in Parties : \/ ProcessPreKeyBundle(p) \/ MessageEncrypt(p)
                             \/ \E msg \in Sent(p) : MessageDecrypt(p, msg)
    BY Zenon, <1>1 DEF Next
  <2>2. CASE ProcessPreKeyBundle(p)
    BY Zenon, <2>2, PassedBundle
  <2>3. CASE MessageEncrypt(p)
    BY Zenon, <2>3, PassedEncrypt
  <2>4. CASE \E msg \in Sent(p) : MessageDecrypt(p, msg)
    BY Zenon, <2>4, PassedDecrypt
  <2> QED
    BY Zenon, <2>1, <2>2, <2>3, <2>4
<1>2. CASE vars' = vars
  <2>1. /\ record' = record /\ opens' = opens
        /\ \A p \in Parties : Sent(p)' = Sent(p)
    BY Zenon, <1>2 DEF vars, Sent
  <2>2. \A p \in Parties : Other(p) \in Parties
    BY Zenon, Others
  <2>3. \A p \in Parties : Sendings(p)' = Sendings(p)
    BY Zenon, <2>1, <2>2 DEF Sendings
  <2> QED
    BY <2>1, <2>2, <2>3 DEF PassedInv, OneChain, Behind, Distinct, Counted, Passed
<1> QED
  BY Zenon, <1>1, <1>2

\* What is refused as a duplicate has been passed by the chain that knows it.
LEMMA DuplicateIsPassed ==
  ASSUME WellOrdered, KeysInv, PassedInv, NEW p \in Parties, NEW msg \in Sent(p),
         Decrypt(p, record[p], msg).result = "duplicate"
  PROVE  opens[p][msg] # 0
<1> DEFINE d == Decrypt(p, record[p], msg)
           R(s) == DecryptWithState(s, msg, nextKey)
<1>1. /\ msg \in Messages /\ msg.counter \in Nat /\ nextKey \in Nat /\ Len(msg.preKey) <= 1
      /\ GoodRecord(record[p]) /\ \A s \in StatesOf(record[p]) : GoodState(s)
  BY Zenon, MessageBase DEF KeysInv, Typed, Fresh, FreshMessage, Messages
<1>2. \E s : Candidate(p, record[p], msg, s) /\ GoodState(s) /\ d.result = R(s).result
  <2> HIDE DEF d, R
  <2>1. d.result # "invalid"
    BY Zenon DEF d
  <2>2. d = Decrypt(p, record[p], msg)
    BY Zenon DEF d
  <2>3. DecidedRight(p, record[p], msg, d)
    BY Zenon, <1>1, <2>2, DecryptFrom
  <2> QED
    BY Zenon, <2>1, <2>3 DEF DecidedRight, DecidedBy, R
<1>3. PICK s : Candidate(p, record[p], msg, s) /\ GoodState(s) /\ d.result = R(s).result
  BY Zenon, <1>2
<1> DEFINE c == TriedChain(s, msg)
           g == Got(s, msg)
<1>4. Outcome(s, msg, nextKey, R(s))
  BY Zenon, <1>1, <1>3, DecryptOutcome
<1>5. g.result = "duplicate"
  <2>1. R(s).result = IF g.result = "ok" /\ c.chainKey # msg.chainKey THEN "invalid" ELSE g.result
    BY Zenon, <1>4 DEF Outcome
  <2> HIDE DEF R, g, c
  <2> QED
    BY Zenon, <1>3, <2>1
<1>6. /\ c \in Chains /\ c.ratchetKey = msg.ratchetKey /\ \A k \in c.keys : k < c.index
      /\ ~Knows(s, msg.ratchetKey) => c.index = 0
  BY Zenon, <1>1, <1>3, TriedChainType
<1>7. g = GetOrCreateMessageKey(c, msg.counter)
  BY Zenon DEF Got
<1>8. Knows(s, msg.ratchetKey) => c \in ChainsOf(s)
  BY Zenon, <1>3, KnownChain
<1> HIDE DEF c, g, R
<1>9. msg.counter < c.index /\ msg.counter \notin c.keys
  BY Zenon, <1>1, <1>5, <1>6, <1>7, KeyResults
<1>10. c \in ChainsOf(s)
  <2>1. c.index \in Nat
    BY Zenon, <1>6 DEF Chains
  <2>2. c.index # 0
    BY <1>1, <1>9, <2>1
  <2> QED
    BY Zenon, <1>6, <1>8, <2>2
<1>11. s \in StatesOf(record[p])
  <2>1. ASSUME s \notin StatesOf(record[p]) PROVE FALSE
    <3>1. msg.preKey # <<>> /\ s = InitializeBobSession(msg.preKey[1].base, SignedPreKey[p])
      BY Zenon, <1>3, <2>1 DEF Candidate
    <3>2. msg.preKey[1].base \in Nat /\ SignedPreKey[p] \in Nat
      BY Zenon, <3>1, PreKeyOfMessage, SessionAssumption
    <3>3. BobState(s, msg.preKey[1].base, SignedPreKey[p])
      BY Zenon, <3>1, <3>2, BobIsGood
    <3> QED
      BY Zenon, <1>10, <3>3 DEF BobState
  <2> QED
    BY Zenon, <2>1
<1> QED
  BY Zenon, <1>6, <1>9, <1>10, <1>11 DEF PassedInv, Passed
==============================================================================
