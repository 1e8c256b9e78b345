------------------------- MODULE SessionOpenProofs --------------------------
(***************************************************************************)
(* That every message that was sent can be opened, whatever arrived before *)
(* it and whoever set up which session, as long as the limits of consts.rs *)
(* are not reached.                                                        *)
(***************************************************************************)
EXTENDS SessionDeliveryProofs

\* The session of a base key at p: its state, or the one the first message sets up.
Sides(p, base) ==
  {s \in StatesOf(record[p]) : s.aliceBase = base} \cup
  (IF Has(p, base) THEN {} ELSE {InitializeBobSession(base, SignedPreKey[p])})

\* The receiving side s has turned to the key that t sends with, or turns to it
\* when it gets t's next message.
Follows(s, t) ==
  ~Knows(s, t.senderKey) => t.senderChain = CreateChain(s.rootKey, t.senderKey, s.senderKey)

Following ==
  \A p \in Parties : \A t \in StatesOf(record[Other(p)]) :
    \A s \in Sides(p, t.aliceBase) : Follows(s, t)

\* The sender of a message still has its session, the receiver has turned to its
\* ratchet key or turns to it next, and it can set up the session if it has not.
Met ==
  \A p \in Parties : \A m \in Sent(p) : \E t \in StatesOf(record[Other(p)]) :
    /\ m.chainKey[1] = {t.aliceBase}
    /\ \A s \in Sides(p, t.aliceBase) : Knows(s, m.ratchetKey) \/ m.ratchetKey = t.senderKey
    /\ ~Has(p, t.aliceBase) =>
         m.preKey # <<>> /\ Range(m.preKey[1].oneTime) \subseteq prekeys[p]

\* A state sends with the answer to a ratchet key that it knows.
Answering ==
  \A p \in Parties : \A s \in StatesOf(record[p]) : \E c \in ChainsOf(s) :
    s.senderChain[Len(s.senderChain)] = {c.ratchetKey, s.senderKey}

\* A session the other side has not set up is still announced.
Announced ==
  \A p \in Parties : \A s \in Range(record[p].current) :
    ~Has(Other(p), s.aliceBase) =>
      s.pending # <<>> /\ Range(s.pending[1].oneTime) \subseteq prekeys[Other(p)]

\* One-time prekeys are handed out once.
HandedOut ==
  \A p \in Parties :
    /\ offered[p] \subseteq prekeys[p]
    /\ \A k \in PreKeysFor(p) : Range(k.oneTime) \cap offered[p] = {}
    /\ \A j, k \in PreKeysFor(p) : Range(j.oneTime) \cap Range(k.oneTime) # {} => j.base = k.base

Bases == {s.aliceBase : s \in UNION {StatesOf(record[p]) : p \in Parties}}

\* What the numbers of states and of chains are bounded by.
Bounded ==
  /\ IsFiniteSet(Bases) /\ Cardinality(Bases) <= bundles
  /\ \A p \in Parties : \A s \in StatesOf(record[p]) : \A c \in ChainsOf(s) :
       \/ c.ratchetKey = SignedPreKey[Other(p)]
       \/ \E m \in Sent(p) : c.ratchetKey = m.ratchetKey

OpenInv == Following /\ Met /\ Answering /\ Announced /\ HandedOut /\ Bounded

\* Two states of which only the counter and the prekey to announce may differ.
Alike(s, t) ==
  /\ s.aliceBase = t.aliceBase /\ s.rootKey = t.rootKey /\ s.senderKey = t.senderKey
  /\ s.senderChain = t.senderChain /\ s.receivers = t.receivers

LEMMA AlikeFacts ==
  ASSUME NEW s, NEW u, Alike(s, u)
  PROVE  /\ \A key : Knows(s, key) <=> Knows(u, key)
         /\ ChainsOf(s) = ChainsOf(u)
         /\ \A t : Follows(s, t) <=> Follows(u, t)
         /\ \A t : Follows(t, s) <=> Follows(t, u)
  BY Zenon DEF Alike, Knows, ChainsOf, Follows

\* The side of a session at p is one state.
LEMMA SideFacts ==
  ASSUME KeysInv, NEW p \in Parties, NEW base \in Nat
  PROVE  /\ \A s \in Sides(p, base) :
              /\ GoodState(s) /\ s.aliceBase = base
              /\ \/ s \in StatesOf(record[p])
                 \/ ~Has(p, base) /\ BobState(s, base, SignedPreKey[p])
         /\ \A s, t \in Sides(p, base) : s = t
         /\ \E s : s \in Sides(p, base)
<1>1. GoodRecord(record[p]) /\ \A s \in StatesOf(record[p]) : GoodState(s)
  BY Zenon DEF KeysInv, Typed
<1>2. \A s, t \in StatesOf(record[p]) : s.aliceBase = t.aliceBase => s = t
  BY Zenon, <1>1, StatesAreTyped
<1> DEFINE new == InitializeBobSession(base, SignedPreKey[p])
<1>3. BobState(new, base, SignedPreKey[p])
  <2>1. SignedPreKey[p] \in Nat
    BY Zenon, SessionAssumption
  <2> QED
    BY Zenon, <2>1, BobIsGood
<1> HIDE DEF new
<1>4. Sides(p, base) = {s \in StatesOf(record[p]) : s.aliceBase = base} \cup
                       (IF Has(p, base) THEN {} ELSE {new})
  BY Zenon DEF Sides, new
<1>5. ASSUME NEW s \in Sides(p, base)
      PROVE  /\ GoodState(s) /\ s.aliceBase = base
             /\ \/ s \in StatesOf(record[p])
                \/ ~Has(p, base) /\ BobState(s, base, SignedPreKey[p])
  <2>1. CASE s \in StatesOf(record[p]) /\ s.aliceBase = base
    BY Zenon, <1>1, <2>1
  <2>2. CASE ~Has(p, base) /\ s = new
    BY Zenon, <1>3, <2>2 DEF BobState
  <2> QED
    BY Zenon, <1>4, <2>1, <2>2
<1>6. \A s, t \in Sides(p, base) : s = t
  BY Zenon, <1>2, <1>4 DEF Has
<1>7. \E s : s \in Sides(p, base)
  BY Zenon, <1>4 DEF Has
<1> QED
  BY Zenon, <1>5, <1>6, <1>7

\* The states that a message is tried with.
LEMMA CandidateSides ==
  ASSUME KeysInv, NEW p \in Parties, NEW msg \in Sent(p), NEW base \in Nat,
         msg.chainKey[1] = {base}, NEW s
  PROVE  /\ Candidate(p, record[p], msg, s) /\ s.aliceBase = base => s \in Sides(p, base)
         /\ /\ s \in Sides(p, base)
            /\ ~Has(p, base) =>
                 msg.preKey # <<>> /\ Range(msg.preKey[1].oneTime) \subseteq prekeys[p]
            => Candidate(p, record[p], msg, s)
<1>1. msg.preKey # <<>> => msg.preKey[1].base = base
  <2>1. msg.preKey # <<>> => msg.chainKey[1] = {msg.preKey[1].base}
    BY Zenon, PreKeyOfMessage
  <2> QED
    BY Zenon, <2>1
<1>2. ASSUME Candidate(p, record[p], msg, s), s.aliceBase = base PROVE s \in Sides(p, base)
  BY Zenon, <1>1, <1>2 DEF Candidate, Sides, Has
<1>3. ASSUME s \in Sides(p, base),
             ~Has(p, base) =>
               msg.preKey # <<>> /\ Range(msg.preKey[1].oneTime) \subseteq prekeys[p]
      PROVE  Candidate(p, record[p], msg, s)
  BY Zenon, <1>1, <1>3 DEF Candidate, Sides, Has
<1> QED
  BY Zenon, <1>2, <1>3

\* The sides after a step of p that drops no state.
Moved(p, s) ==
  /\ \A base : Has(p, base)' <=> Has(p, base) \/ base = s.aliceBase
  /\ \A base : \A x \in Sides(p, base)' :
       \/ base = s.aliceBase /\ x = s
       \/ base # s.aliceBase /\ \E u \in Sides(p, base) : Alike(u, x)
  /\ \A base : Sides(Other(p), base)' = Sides(Other(p), base)
  /\ \A base : Has(Other(p), base)' <=> Has(Other(p), base)
  /\ record'[Other(p)] = record[Other(p)]
  /\ s \in StatesOf(record'[p])
  /\ \A u \in StatesOf(record[p]) : u.aliceBase # s.aliceBase =>
       \E x \in StatesOf(record'[p]) : Alike(u, x)
  /\ \A x \in StatesOf(record'[p]) : x = s \/ \E u \in StatesOf(record[p]) :
       u.aliceBase # s.aliceBase /\ Alike(u, x)

LEMMA SidesAfter ==
  ASSUME KeysInv, NEW p \in Parties, NEW s, Renews(p, s), Keeps(record[p], record'[p], s)
  PROVE  Moved(p, s)
<1> DEFINE q == Other(p)
<1>1. /\ s \in StatesOf(record'[p])
      /\ \A x \in StatesOf(record'[p]) : x = s \/ \E u \in StatesOf(record[p]) :
           u.aliceBase # s.aliceBase /\ x = ClearUnacknowledged(u)
  BY StatesAfter
<1>2. \A u \in StatesOf(record[p]) : Alike(u, ClearUnacknowledged(u))
  <2>1. \A u \in StatesOf(record[p]) : u \in SessionStates
    BY Zenon DEF KeysInv, Typed, GoodState
  <2> QED
    BY Zenon, <2>1, ClearFacts DEF Alike
<1>3. \A x \in StatesOf(record'[p]) : x = s \/ \E u \in StatesOf(record[p]) :
           u.aliceBase # s.aliceBase /\ Alike(u, x)
  BY Zenon, <1>1, <1>2
<1>4. \A u \in StatesOf(record[p]) : u.aliceBase # s.aliceBase =>
        \E x \in StatesOf(record'[p]) : Alike(u, x)
  BY Zenon, <1>2 DEF Keeps, StatesOf
<1>5. record'[q] = record[q] /\ q \in Parties
  BY Zenon, Others DEF Renews
<1>6. \A base : Has(q, base)' <=> Has(q, base)
  BY Zenon, <1>5 DEF Has
<1>7. \A base : Sides(q, base)' = Sides(q, base)
  BY Zenon, <1>5, <1>6 DEF Sides
<1>8. \A base : Has(p, base)' <=> Has(p, base) \/ base = s.aliceBase
  BY <1>1, <1>3, <1>4 DEF Has, Alike
<1>9. ASSUME NEW base, NEW x \in Sides(p, base)'
      PROVE  \/ base = s.aliceBase /\ x = s
             \/ base # s.aliceBase /\ \E u \in Sides(p, base) : Alike(u, x)
  <2>1. CASE x \in StatesOf(record'[p]) /\ x.aliceBase = base
    BY Zenon, <1>3, <2>1 DEF Sides, Alike
  <2>2. CASE ~Has(p, base)' /\ x = InitializeBobSession(base, SignedPreKey[p])
    <3>1. ~Has(p, base) /\ base # s.aliceBase
      BY Zenon, <1>8, <2>2
    <3>2. x \in Sides(p, base)
      BY Zenon, <2>2, <3>1 DEF Sides
    <3>3. Alike(x, x)
      BY Zenon DEF Alike
    <3> QED
      BY Zenon, <3>1, <3>2, <3>3
  <2> QED
    BY Zenon, <2>1, <2>2 DEF Sides
<1> QED
  BY Zenon, <1>1, <1>3, <1>4, <1>5, <1>6, <1>7, <1>8, <1>9 DEF Moved

LEMMA FollowingKept ==
  ASSUME KeysInv, Following, NEW p \in Parties, NEW s, Moved(p, s),
         \A u \in Sides(Other(p), s.aliceBase) : Follows(u, s),
         \A t \in StatesOf(record[Other(p)]) : t.aliceBase = s.aliceBase => Follows(s, t)
  PROVE  Following'
<1> DEFINE q == Other(p)
<1>1. q \in Parties /\ Other(q) = p /\ \A r \in Parties : r = p \/ r = q
  BY Zenon, Others
<1>2. ASSUME NEW t \in StatesOf(record'[q]), NEW x \in Sides(p, t.aliceBase)'
      PROVE  Follows(x, t)
  <2>1. t \in StatesOf(record[q])
    BY Zenon DEF Moved
  <2>2. \/ t.aliceBase = s.aliceBase /\ x = s
        \/ \E u \in Sides(p, t.aliceBase) : Alike(u, x)
    BY Zenon DEF Moved
  <2>3. ASSUME NEW u \in Sides(p, t.aliceBase), Alike(u, x) PROVE Follows(x, t)
    <3>1. Follows(u, t)
      BY Zenon, <2>1 DEF Following
    <3> QED
      BY Zenon, <2>3, <3>1, AlikeFacts
  <2> QED
    BY Zenon, <2>1, <2>2, <2>3
<1>3. ASSUME NEW t \in StatesOf(record'[p]), NEW x \in Sides(q, t.aliceBase)'
      PROVE  Follows(x, t)
  <2>1. x \in Sides(q, t.aliceBase)
    BY Zenon DEF Moved
  <2>2. t = s \/ \E u \in StatesOf(record[p]) : Alike(u, t)
    BY Zenon DEF Moved
  <2>3. ASSUME NEW u \in StatesOf(record[p]), Alike(u, t) PROVE Follows(x, t)
    <3>1. x \in Sides(q, u.aliceBase)
      BY Zenon, <2>1, <2>3 DEF Alike
    <3>2. Follows(x, u)
      BY Zenon, <1>1, <3>1 DEF Following
    <3> QED
      BY Zenon, <2>3, <3>2, AlikeFacts
  <2> QED
    BY Zenon, <2>1, <2>2, <2>3
<1> HIDE DEF q
<1> QED
  BY Zenon, <1>1, <1>2, <1>3 DEF Following, q

\* The prekey of the message sets up its session at p.
CanSetUp(p, m) == m.preKey # <<>> /\ Range(m.preKey[1].oneTime) \subseteq prekeys[p]

\* What makes Met hold for one message.
MetBy(p, m, t) ==
  /\ m.chainKey[1] = {t.aliceBase}
  /\ \A s \in Sides(p, t.aliceBase) : Knows(s, m.ratchetKey) \/ m.ratchetKey = t.senderKey
  /\ ~Has(p, t.aliceBase) => CanSetUp(p, m)

LEMMA MetKept ==
  ASSUME KeysInv, Met, NEW p \in Parties, NEW s, s.aliceBase \in Nat, Moved(p, s),
         Sent(p)' = Sent(p), prekeys'[Other(p)] = prekeys[Other(p)],
         \A t \in StatesOf(record[p]) : t.aliceBase = s.aliceBase =>
           \/ t.senderKey = s.senderKey
           \/ \A u \in Sides(Other(p), s.aliceBase) : Knows(u, t.senderKey),
         \A m \in Sent(Other(p))' : \/ m \in Sent(Other(p))
                                    \/ /\ m.chainKey[1] = {s.aliceBase} /\ m.ratchetKey = s.senderKey
                                       /\ ~Has(Other(p), s.aliceBase) => CanSetUp(Other(p), m),
         \A k \in PreKeysFor(p) :
           k.base # s.aliceBase /\ Range(k.oneTime) \subseteq prekeys[p]
           => Range(k.oneTime) \subseteq prekeys'[p],
         \A m \in Sent(p) : m.chainKey[1] = {s.aliceBase} =>
           \E u \in Sides(p, s.aliceBase) : \A key : Knows(u, key) => Knows(s, key)
  PROVE  Met'
<1> DEFINE q == Other(p)
<1>1. q \in Parties /\ Other(q) = p /\ \A r \in Parties : r = p \/ r = q
  BY Zenon, Others
<1>2. ASSUME NEW m \in Sent(p) PROVE \E t \in StatesOf(record'[q]) : MetBy(p, m, t)'
  <2>1. PICK t \in StatesOf(record[q]) : MetBy(p, m, t)
    BY Zenon DEF Met, MetBy, CanSetUp
  <2>2. t \in StatesOf(record'[q])
    BY Zenon, <2>1 DEF Moved
  <2>3. ASSUME NEW x \in Sides(p, t.aliceBase)'
        PROVE  Knows(x, m.ratchetKey) \/ m.ratchetKey = t.senderKey
    <3>1. CASE t.aliceBase = s.aliceBase /\ x = s
      <4>1. PICK u \in Sides(p, s.aliceBase) : \A key : Knows(u, key) => Knows(s, key)
        BY Zenon, <2>1, <3>1 DEF MetBy
      <4> QED
        BY Zenon, <2>1, <3>1, <4>1 DEF MetBy
    <3>2. CASE \E u \in Sides(p, t.aliceBase) : Alike(u, x)
      BY Zenon, <2>1, <3>2, AlikeFacts DEF MetBy
    <3> QED
      BY Zenon, <3>1, <3>2 DEF Moved
  <2>4. ASSUME ~Has(p, t.aliceBase)' PROVE CanSetUp(p, m)'
    <3>1. ~Has(p, t.aliceBase) /\ t.aliceBase # s.aliceBase
      BY Zenon, <2>4 DEF Moved
    <3>2. m.preKey # <<>> /\ Range(m.preKey[1].oneTime) \subseteq prekeys[p]
      BY Zenon, <2>1, <3>1 DEF MetBy, CanSetUp
    <3>3. m.preKey[1] \in PreKeysFor(p) /\ m.chainKey[1] = {m.preKey[1].base}
      BY Zenon, <3>2, PreKeyOfMessage
    <3>4. m.preKey[1].base # s.aliceBase
      BY Zenon, <2>1, <3>1, <3>3 DEF MetBy
    <3> QED
      BY Zenon, <3>2, <3>3, <3>4 DEF CanSetUp
  <2> QED
    BY Zenon, <2>1, <2>2, <2>3, <2>4 DEF MetBy
<1>3. ASSUME NEW m \in Sent(q) PROVE \E t \in StatesOf(record'[p]) : MetBy(q, m, t)'
  <2>1. PICK t \in StatesOf(record[p]) : MetBy(q, m, t)
    BY Zenon, <1>1 DEF Met, MetBy, CanSetUp
  <2>2. \A base : Sides(q, base)' = Sides(q, base) /\ (Has(q, base)' <=> Has(q, base))
    BY Zenon DEF Moved
  <2>3. CanSetUp(q, m)' <=> CanSetUp(q, m)
    BY Zenon DEF CanSetUp
  <2>4. CASE t.aliceBase # s.aliceBase
    <3>1. PICK x \in StatesOf(record'[p]) : Alike(t, x)
      BY Zenon, <2>4 DEF Moved
    <3> QED
      BY Zenon, <2>1, <2>2, <2>3, <3>1 DEF MetBy, Alike
  <2>5. CASE t.aliceBase = s.aliceBase
    <3>1. s \in StatesOf(record'[p])
      BY Zenon DEF Moved
    <3>2. \A u \in Sides(q, s.aliceBase) : Knows(u, m.ratchetKey) \/ m.ratchetKey = s.senderKey
      BY Zenon, <2>1, <2>5 DEF MetBy
    <3> QED
      BY Zenon, <2>1, <2>2, <2>3, <2>5, <3>1, <3>2 DEF MetBy
  <2> QED
    BY Zenon, <2>4, <2>5
<1>4. ASSUME NEW m, m.chainKey[1] = {s.aliceBase}, m.ratchetKey = s.senderKey,
             ~Has(q, s.aliceBase) => CanSetUp(q, m)
      PROVE  \E t \in StatesOf(record'[p]) : MetBy(q, m, t)'
  <2>1. s \in StatesOf(record'[p]) /\ (Has(q, s.aliceBase)' <=> Has(q, s.aliceBase))
    BY Zenon DEF Moved
  <2>2. CanSetUp(q, m)' <=> CanSetUp(q, m)
    BY Zenon DEF CanSetUp
  <2> QED
    BY Zenon, <1>4, <2>1, <2>2 DEF MetBy
<1>5. \A m \in Sent(q)' : \E t \in StatesOf(record'[p]) : MetBy(q, m, t)'
  BY Zenon, <1>3, <1>4
<1>6. \A m \in Sent(p)' : \E t \in StatesOf(record'[q]) : MetBy(p, m, t)'
  BY Zenon, <1>2
<1> HIDE DEF q
<1>7. \A r \in Parties : \A m \in Sent(r)' : \E t \in StatesOf(record'[Other(r)]) : MetBy(r, m, t)'
  BY <1>1, <1>5, <1>6 DEF q
<1> QED
  BY Zenon, <1>7 DEF Met, MetBy, CanSetUp

\* The keys of the chains of a state, and the one that its sending chain answers.
Answers(s) ==
  \E c \in ChainsOf(s) : s.senderChain[Len(s.senderChain)] = {c.ratchetKey, s.senderKey}

LEMMA AnsweringKept ==
  ASSUME KeysInv, Answering, NEW p \in Parties, NEW s, Moved(p, s), Answers(s)
  PROVE  Answering'
<1> DEFINE q == Other(p)
<1>1. q \in Parties /\ \A r \in Parties : r = p \/ r = q
  BY Zenon, Others
<1>2. \A r \in Parties : \A u \in StatesOf(record[r]) : Answers(u)
  BY Zenon DEF Answering, Answers
<1>3. ASSUME NEW u, NEW x, Alike(u, x), Answers(u) PROVE Answers(x)
  BY Zenon, <1>3, AlikeFacts DEF Answers, Alike
<1>4. \A x \in StatesOf(record'[p]) : Answers(x)
  <2>1. \A x \in StatesOf(record'[p]) : x = s \/ \E u \in StatesOf(record[p]) : Alike(u, x)
    BY Zenon DEF Moved
  <2> QED
    BY Zenon, <1>2, <1>3, <2>1
<1>5. \A x \in StatesOf(record'[q]) : Answers(x)
  BY Zenon, <1>1, <1>2 DEF Moved
<1>6. \A r \in Parties : \A x \in StatesOf(record'[r]) : Answers(x)
  BY Zenon, <1>1, <1>4, <1>5
<1> QED
  BY Zenon, <1>6 DEF Answering, Answers

\* The prekey that a state announces can set up its session at p.
Announces(p, s) == s.pending # <<>> /\ Range(s.pending[1].oneTime) \subseteq prekeys[p]

\* The prekeys of the other sessions are still there.
OthersCanSetUp(p, base) ==
  \A k \in PreKeysFor(p) :
    k.base # base /\ Range(k.oneTime) \subseteq prekeys[p]
    => Range(k.oneTime) \subseteq prekeys'[p]

LEMMA AnnouncedKept ==
  ASSUME KeysInv, Announced, NEW p \in Parties, NEW s, Moved(p, s),
         record'[p].current = << s >>, prekeys'[Other(p)] = prekeys[Other(p)],
         OthersCanSetUp(p, s.aliceBase),
         ~Has(Other(p), s.aliceBase) => Announces(Other(p), s)
  PROVE  Announced'
<1> DEFINE q == Other(p)
<1>1. q \in Parties /\ Other(q) = p /\ \A r \in Parties : r = p \/ r = q
  BY Zenon, Others
<1>2. ASSUME NEW x \in Range(record'[p].current), ~Has(q, x.aliceBase)'
      PROVE  Announces(q, x)'
  <2>1. x = s
    BY Zenon, RangeSingle
  <2>2. ~Has(q, s.aliceBase)
    BY Zenon, <1>2, <2>1 DEF Moved
  <2> QED
    BY Zenon, <2>1, <2>2 DEF Announces
<1>3. ASSUME NEW x \in Range(record'[q].current), ~Has(p, x.aliceBase)'
      PROVE  Announces(p, x)'
  <2>1. x \in Range(record[q].current) /\ x \in StatesOf(record[q])
    BY Zenon DEF Moved, StatesOf
  <2>2. ~Has(p, x.aliceBase) /\ x.aliceBase # s.aliceBase
    BY Zenon, <1>3 DEF Moved
  <2>3. x.pending # <<>> /\ Range(x.pending[1].oneTime) \subseteq prekeys[p]
    BY Zenon, <1>1, <2>1, <2>2 DEF Announced
  <2>4. /\ x \in SessionStates /\ Len(x.pending) <= 1
        /\ x.pending # <<>> => x.pending[1].base = x.aliceBase
    BY Zenon, <1>1, <2>1 DEF KeysInv, Typed, Fresh, FreshState, GoodState
  <2>5. x.pending \in Seq(PreKeys)
    BY Zenon, <2>4 DEF SessionStates
  <2>6. x.pending[1] \in PreKeys /\ x.pending = << x.pending[1] >>
    BY Zenon, <2>3, <2>4, <2>5, OneOrNone
  <2>7. x.pending[1] \in PreKeysFor(p)
    BY Zenon, <2>1, <2>6 DEF PreKeysFor
  <2>8. Range(x.pending[1].oneTime) \subseteq prekeys'[p]
    BY Zenon, <2>2, <2>3, <2>4, <2>7 DEF OthersCanSetUp
  <2> QED
    BY Zenon, <2>3, <2>8 DEF Announces
<1> HIDE DEF q
<1>4. \A r \in Parties : \A x \in Range(record'[r].current) :
        ~Has(Other(r), x.aliceBase)' => Announces(Other(r), x)'
  BY Zenon, <1>1, <1>2, <1>3 DEF q
<1> QED
  BY Zenon, <1>4 DEF Announced, Announces

LEMMA HandedOutKept ==
  ASSUME HandedOut, NEW p \in Parties, PreKeysFor(p)' = PreKeysFor(p),
         PreKeysFor(Other(p))' \subseteq PreKeysFor(Other(p)), offered' = offered,
         prekeys'[Other(p)] = prekeys[Other(p)], offered[p] \subseteq prekeys'[p]
  PROVE  HandedOut'
<1> DEFINE q == Other(p)
<1>1. q \in Parties /\ \A r \in Parties : r = p \/ r = q
  BY Zenon, Others
<1>2. /\ offered'[p] \subseteq prekeys'[p]
      /\ \A k \in PreKeysFor(p)' : Range(k.oneTime) \cap offered'[p] = {}
      /\ \A j, k \in PreKeysFor(p)' : Range(j.oneTime) \cap Range(k.oneTime) # {} => j.base = k.base
  BY DEF HandedOut
<1>3. /\ offered'[q] \subseteq prekeys'[q]
      /\ \A k \in PreKeysFor(q)' : Range(k.oneTime) \cap offered'[q] = {}
      /\ \A j, k \in PreKeysFor(q)' : Range(j.oneTime) \cap Range(k.oneTime) # {} => j.base = k.base
  BY Zenon, <1>1 DEF HandedOut
<1> HIDE DEF q
<1> QED
  BY <1>1, <1>2, <1>3 DEF HandedOut

\* The chains of a state at p are of the signed prekey or of messages sent to p.
FromSent(p, s) ==
  \A c \in ChainsOf(s) : \/ c.ratchetKey = SignedPreKey[Other(p)]
                         \/ \E m \in Sent(p) : c.ratchetKey = m.ratchetKey

LEMMA BoundedKept ==
  ASSUME FiniteSetFacts, KeysInv, Bounded, NEW p \in Parties, NEW s, Moved(p, s),
         \A r \in Parties : Sent(r) \subseteq Sent(r)', FromSent(p, s),
         \/ s.aliceBase \in Bases /\ bundles' = bundles
         \/ s.aliceBase \notin Bases /\ bundles' = bundles + 1
  PROVE  Bounded'
<1> DEFINE q == Other(p)
<1>1. q \in Parties /\ \A r \in Parties : r = p \/ r = q
  BY Zenon, Others
<1>2. \A base : base \in Bases <=> Has(p, base) \/ Has(q, base)
  BY Zenon, <1>1 DEF Bases, Has
<1>3. \A base : base \in Bases' <=> Has(p, base)' \/ Has(q, base)'
  BY Zenon, <1>1 DEF Bases, Has
<1>4. \A base : base \in Bases' <=> base \in Bases \/ base = s.aliceBase
  BY Zenon, <1>2, <1>3 DEF Moved
<1>5. Bases' = Bases \cup {s.aliceBase}
  BY Zenon, <1>4
<1>6. IsFiniteSet(Bases) /\ Cardinality(Bases) \in Nat /\ bundles \in Nat /\ Cardinality(Bases) <= bundles
  BY DEF Bounded, FiniteSetFacts, KeysInv, Typed
<1>7. IsFiniteSet(Bases') /\ Cardinality(Bases') <= bundles'
  <2>1. CASE s.aliceBase \in Bases /\ bundles' = bundles
    <3>1. Bases' = Bases
      BY Zenon, <1>5, <2>1
    <3> QED
      BY Zenon, <1>6, <2>1, <3>1
  <2>2. CASE s.aliceBase \notin Bases /\ bundles' = bundles + 1
    <3>1. IsFiniteSet(Bases') /\ Cardinality(Bases') = Cardinality(Bases) + 1
      BY Zenon, <1>5, <1>6, <2>2 DEF FiniteSetFacts
    <3> QED
      BY <1>6, <2>2, <3>1
  <2> QED
    BY Zenon, <2>1, <2>2
<1>8. \A r \in Parties : \A u \in StatesOf(record[r]) : FromSent(r, u)
  BY Zenon DEF Bounded, FromSent
<1>9. \A r \in Parties : \A u, x : FromSent(r, u) /\ ChainsOf(u) = ChainsOf(x) => FromSent(r, x)'
  BY Zenon DEF FromSent, ChainsOf
<1>10. \A x \in StatesOf(record'[p]) : FromSent(p, x)'
  <2>1. \A x \in StatesOf(record'[p]) : x = s \/ \E u \in StatesOf(record[p]) : Alike(u, x)
    BY Zenon DEF Moved
  <2>2. \A u, x : Alike(u, x) => ChainsOf(u) = ChainsOf(x)
    BY Zenon, AlikeFacts
  <2>3. FromSent(p, s)'
    BY Zenon, <1>9
  <2>4. ASSUME NEW x, NEW u \in StatesOf(record[p]), Alike(u, x) PROVE FromSent(p, x)'
    <3>1. FromSent(p, u)
      BY Zenon, <1>8
    <3>2. ChainsOf(u) = ChainsOf(x)
      BY Zenon, <2>2, <2>4
    <3> QED
      BY Zenon, <1>9, <3>1, <3>2
  <2> QED
    BY Zenon, <2>1, <2>3, <2>4
<1>11. \A x \in StatesOf(record'[q]) : FromSent(q, x)'
  BY Zenon, <1>1, <1>8, <1>9 DEF Moved
<1>12. \A r \in Parties : \A x \in StatesOf(record'[r]) : FromSent(r, x)'
  BY Zenon, <1>1, <1>10, <1>11
<1> QED
  BY Zenon, <1>7, <1>12 DEF Bounded, FromSent

\* A finite set has as many elements as any injection into it has values.
InjectionFact ==
  \A n \in Nat : \A T : \A f \in [1..n -> T] :
    IsFiniteSet(T) /\ (\A i, j \in 1..n : f[i] = f[j] => i = j) => n <= Cardinality(T)

\* The states of a record have different bases, so there is room for those of all bundles.
LEMMA StatesFit ==
  ASSUME InjectionFact, KeysInv, Bounded, NEW p \in Parties
  PROVE  /\ Len(record[p].previous) \in Nat
         /\ Len(record[p].previous) <= Cardinality(Bases)
         /\ \A base \in Bases : ~Has(p, base) => Len(record[p].previous) + 1 <= Cardinality(Bases)
<1> DEFINE old == record[p].previous
           n == Len(old)
<1>1. /\ old \in Seq(SessionStates)
      /\ \A i, j \in DOMAIN old : old[i].aliceBase = old[j].aliceBase => i = j
  BY Zenon DEF KeysInv, Typed, GoodRecord, Records
<1>2. n \in Nat /\ DOMAIN old = 1..n
  BY <1>1
<1>3. \A i \in 1..n : old[i] \in StatesOf(record[p])
  BY <1>1, InRange DEF StatesOf
<1>4. \A i \in 1..n : old[i].aliceBase \in Bases /\ Has(p, old[i].aliceBase)
  BY Zenon, <1>3 DEF Bases, Has
<1>5. IsFiniteSet(Bases)
  BY Zenon DEF Bounded
<1> HIDE DEF n, old
<1>6. n <= Cardinality(Bases)
  <2> DEFINE f == [i \in 1..n |-> old[i].aliceBase]
  <2>1. f \in [1..n -> Bases]
    BY Zenon, <1>4
  <2>2. \A i, j \in 1..n : f[i] = f[j] => i = j
    BY Zenon, <1>1, <1>2
  <2> HIDE DEF f
  <2> QED
    BY Zenon, <1>2, <1>5, <2>1, <2>2 DEF InjectionFact
<1>7. ASSUME NEW base \in Bases, ~Has(p, base) PROVE n + 1 <= Cardinality(Bases)
  <2> DEFINE f == [i \in 1..(n + 1) |-> IF i = n + 1 THEN base ELSE old[i].aliceBase]
  <2>1. \A i \in 1..(n + 1) : i = n + 1 \/ i \in 1..n
    BY <1>2
  <2>2. f \in [1..(n + 1) -> Bases]
    BY Zenon, <1>4, <2>1
  <2>3. \A i \in 1..n : f[i] = old[i].aliceBase /\ f[i] # base
    BY <1>2, <1>4, <1>7
  <2>4. f[n + 1] = base
    BY <1>2
  <2> HIDE DEF f
  <2>5. ASSUME NEW i \in 1..(n + 1), NEW j \in 1..(n + 1), f[i] = f[j] PROVE i = j
    BY Zenon, <1>1, <1>2, <2>1, <2>3, <2>4, <2>5
  <2>6. n + 1 \in Nat
    BY <1>2
  <2> QED
    BY Zenon, <1>5, <2>2, <2>5, <2>6 DEF InjectionFact
<1> QED
  BY Zenon, <1>2, <1>6, <1>7 DEF n, old

\* A message of an unknown ratchet key finds room for its chain.
LEMMA ChainsFit ==
  ASSUME InjectionFact, FiniteSetFacts, KeysInv, Counted, Bounded, MaxSends < MaxReceiverChains,
         NEW p \in Parties, NEW s \in StatesOf(record[p]), NEW msg \in Sent(p),
         ~Knows(s, msg.ratchetKey)
  PROVE  Len(s.receivers) < MaxReceiverChains
<1> DEFINE rs == s.receivers
           n == Len(rs)
           key == SignedPreKey[Other(p)]
<1>1. GoodState(s) /\ rs \in Seq(Chains)
  BY Zenon DEF KeysInv, Typed, GoodState, SessionStates
<1>2. n \in Nat /\ DOMAIN rs = 1..n
  BY <1>1
<1>3. \A i \in 1..n : rs[i] \in ChainsOf(s)
  BY Zenon, <1>1, InRange DEF ChainsOf
<1>4. \A i \in 1..n : rs[i].ratchetKey = key \/ \E m \in Sent(p) : rs[i].ratchetKey = m.ratchetKey
  BY Zenon, <1>3 DEF Bounded
<1>5. \A i \in 1..n : rs[i].ratchetKey # msg.ratchetKey
  BY Zenon, <1>2 DEF Knows
<1>6. \A i, j \in 1..n : rs[i].ratchetKey = rs[j].ratchetKey => i = j
  BY Zenon, <1>1, <1>2 DEF GoodState, DistinctKeys
<1>7. IsFiniteSet(Sent(p)) /\ Cardinality(Sent(p)) \in Nat /\ Cardinality(Sent(p)) <= MaxSends
  BY Zenon DEF Counted, FiniteSetFacts
<1> HIDE DEF rs, n, key
<1> DEFINE Of(i) == IF rs[i].ratchetKey = key THEN msg
                    ELSE CHOOSE m \in Sent(p) : rs[i].ratchetKey = m.ratchetKey
           f == [i \in 1..n |-> Of(i)]
<1>8. \A i \in 1..n : /\ Of(i) \in Sent(p)
                      /\ rs[i].ratchetKey = key => Of(i) = msg
                      /\ rs[i].ratchetKey # key => Of(i).ratchetKey = rs[i].ratchetKey
  BY Zenon, <1>4
<1> HIDE DEF Of
<1>9. f \in [1..n -> Sent(p)] /\ \A i \in 1..n : f[i] = Of(i)
  BY Zenon, <1>8
<1> HIDE DEF f
<1>10. ASSUME NEW i \in 1..n, NEW j \in 1..n, f[i] = f[j] PROVE i = j
  <2>1. rs[i].ratchetKey = rs[j].ratchetKey
    BY <1>5, <1>8, <1>9, <1>10
  <2> QED
    BY Zenon, <1>6, <2>1
<1>11. n <= Cardinality(Sent(p))
  BY Zenon, <1>2, <1>7, <1>9, <1>10 DEF InjectionFact
<1>12. n < MaxReceiverChains
  BY <1>2, <1>7, <1>11, SessionAssumption
<1> QED
  BY Zenon, <1>12 DEF n, rs

LEMMA OpenStart ==
  ASSUME FiniteSetFacts PROVE Init => OpenInv
<1> SUFFICES ASSUME Init PROVE OpenInv
  BY Zenon
<1>1. \A p \in Parties : /\ Sent(p) = {} /\ StatesOf(record[p]) = {} /\ Range(record[p].current) = {}
                         /\ offered[p] = prekeys[p] /\ Other(p) \in Parties
  BY Others DEF Init, Sent, StatesOf, FreshRecord, Range
<1>2. \A p \in Parties : PreKeysFor(p) = {}
  BY Zenon, <1>1 DEF PreKeysFor
<1>3. Bases = {}
  BY <1>1 DEF Bases
<1>4. Bounded
  <2>1. bundles = 0
    BY Zenon DEF Init
  <2>2. IsFiniteSet({}) /\ Cardinality({}) = 0
    BY Zenon DEF FiniteSetFacts
  <2>3. IsFiniteSet(Bases) /\ Cardinality(Bases) <= bundles
    BY <1>3, <2>1, <2>2
  <2> QED
    BY Zenon, <1>1, <2>3 DEF Bounded
<1>5. HandedOut
  BY Zenon, <1>1, <1>2 DEF HandedOut
<1> QED
  BY Zenon, <1>1, <1>4, <1>5 DEF OpenInv, Following, Met, Answering, Announced

LEMMA LastAgreement ==
  ASSUME NEW root \in ChainKeys, NEW a \in Nat, NEW b \in Nat, NEW c, c = CreateChain(root, a, b)
  PROVE  c[Len(c)] = {a, b}
<1>1. Len(root) \in Nat
  BY DEF ChainKeys
<1>2. Len(c) = Len(root) + 1 /\ c[Len(root) + 1] = {a, b}
  BY ZenonT(30), CreateChainType
<1> QED
  BY Zenon, <1>2

\* A session is set up towards the other party.
LEMMA OpenBundle ==
  ASSUME InjectionFact, FiniteSetFacts, KeysInv, OpenInv, MaxBundles <= ArchivedStatesMax,
         NEW p \in Parties, ProcessPreKeyBundle(p)
  PROVE  OpenInv'
<1> DEFINE q == Other(p)
<1>1. q \in Parties /\ q # p /\ Other(q) = p /\ \A r \in Parties : r = p \/ r = q
  BY Zenon, Others
<1>2. PICK oneTime \in Bundle(q) : \E s :
        /\ Renews(p, s)
        /\ s.aliceBase = nextKey /\ s.senderKey = nextKey + 1 /\ s.senderIndex = 0
        /\ s.senderChain = CreateChain(DeriveKeys(nextKey), SignedPreKey[q], nextKey + 1)
        /\ s.rootKey = s.senderChain
        /\ ChainsOf(s) = {ReceiverChain(SignedPreKey[q], DeriveKeys(nextKey))}
        /\ s.pending = << [base |-> nextKey, oneTime |-> oneTime] >>
        /\ FreshState(s, nextKey + 2)
        /\ \A u \in StatesOf(record[p]) : u.aliceBase # s.aliceBase
        /\ Len(record[p].previous) < ArchivedStatesMax => Keeps(record[p], record'[p], s)
        /\ offered' = [offered EXCEPT ![q] = @ \ Range(oneTime)]
  BY Zenon, BundleFacts
<1>3. PICK s :
        /\ Renews(p, s)
        /\ s.aliceBase = nextKey /\ s.senderKey = nextKey + 1 /\ s.senderIndex = 0
        /\ s.senderChain = CreateChain(DeriveKeys(nextKey), SignedPreKey[q], nextKey + 1)
        /\ s.rootKey = s.senderChain
        /\ ChainsOf(s) = {ReceiverChain(SignedPreKey[q], DeriveKeys(nextKey))}
        /\ s.pending = << [base |-> nextKey, oneTime |-> oneTime] >>
        /\ FreshState(s, nextKey + 2)
        /\ \A u \in StatesOf(record[p]) : u.aliceBase # s.aliceBase
        /\ Len(record[p].previous) < ArchivedStatesMax => Keeps(record[p], record'[p], s)
        /\ offered' = [offered EXCEPT ![q] = @ \ Range(oneTime)]
  BY Zenon, <1>2
<1> DEFINE k == [base |-> nextKey, oneTime |-> oneTime]
<1>4. /\ bundles \in Nat /\ bundles < MaxBundles /\ bundles' = bundles + 1 /\ nextKey \in Nat
      /\ prekeys' = prekeys /\ opens' = opens /\ \A r \in Parties : Sent(r)' = Sent(r)
  BY DEF ProcessPreKeyBundle, KeysInv, Typed, Sent
<1>5. Moved(p, s)
  <2>1. /\ Len(record[p].previous) \in Nat /\ Len(record[p].previous) <= Cardinality(Bases)
        /\ Cardinality(Bases) <= bundles /\ Cardinality(Bases) \in Nat
    BY Zenon, StatesFit DEF OpenInv, Bounded, FiniteSetFacts
  <2>2. Len(record[p].previous) < ArchivedStatesMax
    BY <1>4, <2>1, SessionAssumption
  <2> QED
    BY Zenon, <1>3, <2>2, SidesAfter
<1>6. \A r \in Parties : \A u \in StatesOf(record[r]) : u.aliceBase \in Nat /\ u.aliceBase < nextKey
  BY Zenon DEF KeysInv, Typed, Fresh, FreshState, GoodState, SessionStates
<1>7. \A r \in Parties : ~Has(r, nextKey)
  BY <1>4, <1>6 DEF Has
<1>8. Following'
  <2>1. ASSUME NEW u \in Sides(q, s.aliceBase) PROVE Follows(u, s)
    <3>1. BobState(u, nextKey, SignedPreKey[q])
      BY <1>1, <1>3, <1>4, <1>7, SideFacts DEF Has
    <3>2. u.rootKey = DeriveKeys(nextKey) /\ u.senderKey = SignedPreKey[q]
      BY Zenon, <3>1 DEF BobState, DeriveKeys
    <3> QED
      BY Zenon, <1>3, <3>2 DEF Follows, CreateChain
  <2>2. \A t \in StatesOf(record[q]) : t.aliceBase = s.aliceBase => Follows(s, t)
    BY Zenon, <1>1, <1>3, <1>7 DEF Has
  <2> QED
    BY Zenon, <1>5, <2>1, <2>2, FollowingKept DEF OpenInv
<1>9. Met'
  <2>1. s.aliceBase \in Nat /\ Sent(p)' = Sent(p) /\ Sent(q)' = Sent(q) /\ prekeys'[q] = prekeys[q]
    BY Zenon, <1>1, <1>3, <1>4
  <2>2. \A t \in StatesOf(record[p]) : t.aliceBase # s.aliceBase
    BY Zenon, <1>3
  <2>3. \A m \in Sent(p) : m.chainKey[1] # {s.aliceBase}
    BY Zenon, <1>3, MessageBase
  <2>4. \A j \in PreKeysFor(p) : Range(j.oneTime) \subseteq prekeys[p] => Range(j.oneTime) \subseteq prekeys'[p]
    BY Zenon, <1>4
  <2> QED
    BY Zenon, <1>5, <2>1, <2>2, <2>3, <2>4, MetKept DEF OpenInv
<1>10. Answering'
  <2>1. Answers(s)
    <3>1. DeriveKeys(nextKey) \in ChainKeys /\ Len(DeriveKeys(nextKey)) = 1 /\ SignedPreKey[q] \in Nat
      BY <1>1, <1>4, SessionAssumption DEF DeriveKeys, ChainKeys
    <3>2. nextKey + 1 \in Nat
      BY <1>4
    <3>3. s.senderChain[Len(s.senderChain)] = {SignedPreKey[q], nextKey + 1}
      <4>1. s.senderChain = CreateChain(DeriveKeys(nextKey), SignedPreKey[q], nextKey + 1)
        BY Zenon, <1>3
      <4> QED
        BY <3>1, <3>2, <4>1, LastAgreement
    <3> QED
      BY <1>3, <3>3 DEF Answers, ReceiverChain
  <2> QED
    BY Zenon, <1>5, <2>1, AnsweringKept DEF OpenInv
<1>11. oneTime \in {<<>>} \cup {<< id >> : id \in offered[q]}
  BY Zenon, <1>2 DEF Bundle
<1>12. Range(oneTime) \subseteq offered[q]
  BY Zenon, <1>11, RangeEmpty, RangeSingle
<1>13. Announced'
  <2>1. record'[p].current = << s >>
    BY Zenon, <1>3 DEF Renews, Renewed
  <2>2. OthersCanSetUp(p, s.aliceBase) /\ prekeys'[q] = prekeys[q]
    BY Zenon, <1>4 DEF OthersCanSetUp
  <2>3. Announces(q, s)
    <3>1. offered[q] \subseteq prekeys[q]
      BY Zenon, <1>1 DEF OpenInv, HandedOut
    <3>2. s.pending # <<>> /\ s.pending[1].oneTime = oneTime
      BY <1>3
    <3> QED
      BY Zenon, <1>12, <3>1, <3>2 DEF Announces
  <2> QED
    BY Zenon, <1>5, <2>1, <2>2, <2>3, AnnouncedKept DEF OpenInv
<1>14. HandedOut'
  <2>1. /\ \A j \in PreKeysFor(q)' : j \in PreKeysFor(q) \/ j = k
        /\ PreKeysFor(p)' = PreKeysFor(p)
    <3>1. s.pending = << k >> /\ Sent(q)' = Sent(q) /\ Sent(p)' = Sent(p)
      BY Zenon, <1>1, <1>3, <1>4
    <3> HIDE DEF k
    <3>2. \A j : << k >> = << j >> => j = k
      BY Zenon
    <3> QED
      BY <1>3, <3>1, <3>2, PreKeysAfter
  <2>2. offered'[q] = offered[q] \ Range(oneTime) /\ offered'[p] = offered[p]
    BY Zenon, <1>1, <1>3 DEF KeysInv, Typed
  <2>3. k.oneTime = oneTime
    BY Zenon
  <2> HIDE DEF k
  <2>4. /\ offered'[p] \subseteq prekeys'[p]
        /\ \A j \in PreKeysFor(p)' : Range(j.oneTime) \cap offered'[p] = {}
        /\ \A i, j \in PreKeysFor(p)' : Range(i.oneTime) \cap Range(j.oneTime) # {} => i.base = j.base
    BY <1>4, <2>1, <2>2 DEF OpenInv, HandedOut
  <2>5. /\ offered[q] \subseteq prekeys[q]
        /\ \A j \in PreKeysFor(q) : Range(j.oneTime) \cap offered[q] = {}
        /\ \A i, j \in PreKeysFor(q) : Range(i.oneTime) \cap Range(j.oneTime) # {} => i.base = j.base
    BY Zenon, <1>1 DEF OpenInv, HandedOut
  <2>6. /\ offered'[q] \subseteq prekeys'[q]
        /\ \A j \in PreKeysFor(q)' : Range(j.oneTime) \cap offered'[q] = {}
    BY Zenon, <1>4, <2>1, <2>2, <2>3, <2>5
  <2>7. \A i, j \in PreKeysFor(q)' : Range(i.oneTime) \cap Range(j.oneTime) # {} => i.base = j.base
    BY Zenon, <1>12, <2>1, <2>3, <2>5
  <2> QED
    BY Zenon, <1>1, <2>4, <2>6, <2>7 DEF HandedOut
<1>15. Bounded'
  <2>1. s.aliceBase \notin Bases
    BY Zenon, <1>3, <1>7 DEF Bases, Has
  <2>2. FromSent(p, s)
    BY <1>3 DEF FromSent, ReceiverChain
  <2> QED
    BY Zenon, <1>4, <1>5, <2>1, <2>2, BoundedKept DEF OpenInv
<1> QED
  BY Zenon, <1>8, <1>9, <1>10, <1>13, <1>14, <1>15 DEF OpenInv

\* A message is sent.
LEMMA OpenEncrypt ==
  ASSUME FiniteSetFacts, KeysInv, OpenInv, NEW p \in Parties, MessageEncrypt(p)
  PROVE  OpenInv'
<1> DEFINE q == Other(p)
<1>1. q \in Parties /\ q # p /\ Other(q) = p /\ \A r \in Parties : r = p \/ r = q
  BY Zenon, Others
<1>2. EncryptLoaded(p, record[p])
  BY Zenon DEF MessageEncrypt
<1>3. PICK s, new, m : Encrypts(p, s, new, m)
  BY Zenon, <1>2, EncryptFacts
<1>4. /\ s \in StatesOf(record[p]) /\ record[p].current = << s >>
      /\ Renews(p, new) /\ Keeps(record[p], record'[p], new)
      /\ new.aliceBase = s.aliceBase /\ new.pending = s.pending
      /\ m.ratchetKey = new.senderKey /\ m.chainKey = s.senderChain /\ m.preKey = s.pending
      /\ Sent(q)' = Sent(q) \cup {m} /\ Sent(p)' = Sent(p)
      /\ new.senderKey = s.senderKey
  BY Zenon, <1>3 DEF Encrypts
<1>5. Alike(s, new)
  BY Zenon, <1>3 DEF Encrypts, Alike
<1>6. prekeys' = prekeys /\ offered' = offered /\ bundles' = bundles
  BY Zenon, <1>2 DEF EncryptLoaded
<1>7. /\ GoodState(s) /\ FreshState(s, nextKey) /\ s.aliceBase \in Nat /\ s \in SessionStates
      /\ s.senderChain[1] = {s.aliceBase} /\ Len(s.pending) <= 1
  BY <1>4 DEF KeysInv, Typed, Fresh, FreshState, GoodState, SessionStates
<1>8. Moved(p, new)
  BY Zenon, <1>4, SidesAfter
<1>9. s \in Sides(p, new.aliceBase)
  BY Zenon, <1>4 DEF Sides
<1>10. Following'
  <2>1. ASSUME NEW u \in Sides(q, new.aliceBase) PROVE Follows(u, new)
    <3>1. Follows(u, s)
      BY Zenon, <1>1, <1>4 DEF OpenInv, Following
    <3> QED
      BY Zenon, <1>5, <3>1, AlikeFacts
  <2>2. ASSUME NEW t \in StatesOf(record[q]), t.aliceBase = new.aliceBase PROVE Follows(new, t)
    <3>1. Follows(s, t)
      BY Zenon, <1>9, <2>2 DEF OpenInv, Following
    <3> QED
      BY Zenon, <1>5, <3>1, AlikeFacts
  <2> QED
    BY Zenon, <1>8, <2>1, <2>2, FollowingKept DEF OpenInv
<1>11. ~Has(q, s.aliceBase) => s.pending # <<>> /\ Range(s.pending[1].oneTime) \subseteq prekeys[q]
  <2>1. s \in Range(record[p].current)
    BY Zenon, <1>4, RangeSingle
  <2> QED
    BY Zenon, <2>1 DEF OpenInv, Announced
<1>12. Met'
  <2>1. new.aliceBase \in Nat /\ prekeys'[q] = prekeys[q]
    BY Zenon, <1>4, <1>6, <1>7
  <2>2. ASSUME NEW t \in StatesOf(record[p]), t.aliceBase = new.aliceBase
        PROVE  t.senderKey = new.senderKey
    <3>1. GoodRecord(record[p])
      BY Zenon DEF KeysInv, Typed
    <3>2. t = s
      BY Zenon, <1>4, <2>2, <3>1, StatesAreTyped
    <3> QED
      BY Zenon, <1>4, <3>2
  <2>3. /\ m.chainKey[1] = {new.aliceBase} /\ m.ratchetKey = new.senderKey
        /\ ~Has(q, new.aliceBase) => CanSetUp(q, m)
    BY Zenon, <1>4, <1>7, <1>11 DEF CanSetUp
  <2>4. \A x \in Sent(q)' : x \in Sent(q) \/ x = m
    BY Zenon, <1>4
  <2>5. \A j \in PreKeysFor(p) : Range(j.oneTime) \subseteq prekeys[p] => Range(j.oneTime) \subseteq prekeys'[p]
    BY Zenon, <1>6
  <2>6. \A key : Knows(s, key) => Knows(new, key)
    BY Zenon, <1>5, AlikeFacts
  <2>7. \A x \in Sent(q)' : \/ x \in Sent(q)
                            \/ /\ x.chainKey[1] = {new.aliceBase} /\ x.ratchetKey = new.senderKey
                               /\ ~Has(q, new.aliceBase) => CanSetUp(q, x)
    BY Zenon, <2>3, <2>4
  <2> QED
    BY Zenon, <1>4, <1>8, <1>9, <2>1, <2>2, <2>5, <2>6, <2>7, MetKept DEF OpenInv
<1>13. Answering'
  <2>1. Answers(s)
    BY Zenon, <1>4 DEF OpenInv, Answering, Answers
  <2>2. Answers(new)
    BY Zenon, <1>5, <2>1, AlikeFacts DEF Answers, Alike
  <2> QED
    BY Zenon, <1>8, <2>2, AnsweringKept DEF OpenInv
<1>14. Announced'
  <2>1. record'[p].current = << new >>
    BY Zenon, <1>4 DEF Renews, Renewed
  <2>2. OthersCanSetUp(p, new.aliceBase) /\ prekeys'[q] = prekeys[q]
    BY Zenon, <1>6 DEF OthersCanSetUp
  <2>3. ~Has(q, new.aliceBase) => Announces(q, new)
    BY Zenon, <1>4, <1>11 DEF Announces
  <2> QED
    BY Zenon, <1>8, <2>1, <2>2, <2>3, AnnouncedKept DEF OpenInv
<1>15. HandedOut'
  <2>1. PreKeysFor(p)' = PreKeysFor(p)
    BY Zenon, <1>4, PreKeysAfter
  <2>2. ASSUME NEW k \in PreKeysFor(q)' PROVE k \in PreKeysFor(q)
    <3>1. k \in PreKeys
      BY Zenon DEF PreKeysFor
    <3>2. \/ k \in PreKeysFor(q)
          \/ \E x \in Sent(q)' \ Sent(q) : x.preKey = << k >>
          \/ new.pending = << k >>
      BY Zenon, <1>4, PreKeysAfter
    <3>3. k \in PreKeysFor(q) \/ s.pending = << k >>
      BY Zenon, <1>4, <3>2
    <3> QED
      BY Zenon, <1>1, <1>4, <3>1, <3>3 DEF PreKeysFor
  <2>3. offered[p] \subseteq prekeys'[p] /\ prekeys'[q] = prekeys[q]
    BY Zenon, <1>6 DEF OpenInv, HandedOut
  <2> QED
    BY Zenon, <1>6, <2>1, <2>2, <2>3, HandedOutKept DEF OpenInv
<1>16. Bounded'
  <2>1. new.aliceBase \in Bases
    BY Zenon, <1>4 DEF Bases
  <2>2. FromSent(p, s)
    BY Zenon, <1>4 DEF OpenInv, Bounded, FromSent
  <2>3. FromSent(p, new)
    BY Zenon, <1>5, <2>2, AlikeFacts DEF FromSent
  <2>4. \A r \in Parties : Sent(r) \subseteq Sent(r)'
    BY Zenon, <1>1, <1>4
  <2> QED
    BY Zenon, <1>6, <1>8, <2>1, <2>3, <2>4, BoundedKept DEF OpenInv
<1> QED
  BY Zenon, <1>10, <1>12, <1>13, <1>14, <1>15, <1>16 DEF OpenInv

\* The two sides of the session that a message of t's record belongs to: the
\* side s of the receiver p and the state t of the sender.
Meets(p, msg, s, t) ==
  /\ t \in StatesOf(record[Other(p)]) /\ t.aliceBase = s.aliceBase
  /\ s \in Sides(p, t.aliceBase) /\ t \in Sides(Other(p), s.aliceBase)
  /\ Knows(s, msg.ratchetKey) \/ (msg.ratchetKey = t.senderKey /\ msg.chainKey = t.senderChain)
  /\ Follows(s, t) /\ (s \in StatesOf(record[p]) => Follows(t, s))
  /\ t.rootKey = t.senderChain /\ GoodState(t) /\ Answers(t)
  /\ ~Has(p, t.aliceBase) => CanSetUp(p, msg)

LEMMA SidesMeet ==
  ASSUME KeysInv, PassedInv, OpenInv, NEW p \in Parties, NEW msg \in Sent(p)
  PROVE  \E t \in StatesOf(record[Other(p)]) :
           /\ msg.chainKey[1] = {t.aliceBase} /\ t.aliceBase \in Nat
           /\ \A s \in Sides(p, t.aliceBase) : Meets(p, msg, s, t)
<1> DEFINE q == Other(p)
<1>1. q \in Parties /\ Other(q) = p
  BY Zenon, Others
<1>2. PICK t \in StatesOf(record[q]) : MetBy(p, msg, t)
  BY Zenon DEF OpenInv, Met, MetBy, CanSetUp
<1>3. /\ GoodState(t) /\ t.aliceBase \in Nat /\ t.rootKey = t.senderChain
  BY Zenon, <1>1, <1>2 DEF KeysInv, Typed, Fresh, FreshState, GoodState, SessionStates
<1>4. Answers(t)
  BY Zenon, <1>1, <1>2 DEF OpenInv, Answering, Answers
<1>5. msg.ratchetKey = t.senderKey => msg.chainKey = t.senderChain
  <2>1. PICK x \in Sendings(q) : x.key = msg.ratchetKey /\ x.chain = msg.chainKey
    BY Zenon, <1>1, InSendings
  <2>2. PICK y \in Sendings(q) : y.key = t.senderKey /\ y.chain = t.senderChain
    BY Zenon, <1>1, <1>2, InSendings
  <2> QED
    BY Zenon, <1>1, <2>1, <2>2 DEF PassedInv, OneChain
<1>6. ASSUME NEW s \in Sides(p, t.aliceBase) PROVE Meets(p, msg, s, t)
  <2>1. s.aliceBase = t.aliceBase
    BY Zenon, <1>3, SideFacts
  <2>2. t \in Sides(q, s.aliceBase)
    BY Zenon, <1>2, <2>1 DEF Sides
  <2>3. Knows(s, msg.ratchetKey) \/ msg.ratchetKey = t.senderKey
    BY Zenon, <1>2 DEF MetBy
  <2>4. Follows(s, t)
    BY Zenon, <1>2 DEF OpenInv, Following
  <2>5. s \in StatesOf(record[p]) => Follows(t, s)
    BY Zenon, <1>1, <2>2 DEF OpenInv, Following
  <2>6. ~Has(p, t.aliceBase) => CanSetUp(p, msg)
    BY Zenon, <1>2 DEF MetBy
  <2> QED
    BY Zenon, <1>2, <1>3, <1>4, <1>5, <2>1, <2>2, <2>3, <2>4, <2>5, <2>6 DEF Meets
<1> QED
  BY Zenon, <1>2, <1>3, <1>6 DEF MetBy

\* The receiver's key is one that the sender knows when the receiver turns.
LEMMA TurnsFrom ==
  ASSUME KeysInv, NEW p \in Parties, NEW msg \in Sent(p), NEW s, GoodState(s), NEW t,
         Meets(p, msg, s, t), ~Knows(s, msg.ratchetKey)
  PROVE  Knows(t, s.senderKey)
<1>1. GoodState(t) /\ Answers(t) /\ msg.ratchetKey = t.senderKey
      /\ t.senderChain = CreateChain(s.rootKey, t.senderKey, s.senderKey)
  BY Zenon DEF Meets, Follows
<1>2. s.rootKey \in ChainKeys /\ s.senderKey \in Nat /\ t.senderKey \in Nat
  BY Zenon, <1>1 DEF GoodState, SessionStates
<1>3. t.senderChain[Len(t.senderChain)] = {t.senderKey, s.senderKey}
  BY <1>1, <1>2, LastAgreement
<1>4. PICK c \in ChainsOf(t) : t.senderChain[Len(t.senderChain)] = {c.ratchetKey, t.senderKey}
  BY Zenon, <1>1 DEF Answers
<1>5. {c.ratchetKey, t.senderKey} = {t.senderKey, s.senderKey}
  BY Zenon, <1>3, <1>4
<1>6. c.ratchetKey = s.senderKey
  BY <1>5
<1> QED
  BY Zenon, <1>1, <1>4, <1>6, KnownChain

\* What opening a message does to the two sides of its session.
LEMMA OpensMeeting ==
  ASSUME InjectionFact, FiniteSetFacts, KeysInv, PassedInv, OpenInv,
         MaxSends < MaxReceiverChains, MaxBundles <= ArchivedStatesMax,
         NEW p \in Parties, NEW msg \in Sent(p), NEW s, NEW new, Opens(p, msg, s, new)
  PROVE  /\ Moved(p, new) /\ Knows(new, msg.ratchetKey) /\ \A key : Knows(s, key) => Knows(new, key)
         /\ s \in Sides(p, s.aliceBase) /\ s.aliceBase \in Nat
         /\ \E t : Meets(p, msg, s, t)
<1> DEFINE q == Other(p)
<1>1. /\ Candidate(p, record[p], msg, s) /\ GoodState(s) /\ Renews(p, new)
      /\ s \in StatesOf(record[p]) \/ Len(record[p].previous) < ArchivedStatesMax
         => Keeps(record[p], record'[p], new)
      /\ msg.chainKey[1] = {s.aliceBase} /\ new.aliceBase = s.aliceBase
      /\ Got(s, msg).chain \in ChainsOf(new)
      /\ Knows(s, msg.ratchetKey) \/ Len(s.receivers) < MaxReceiverChains =>
           \A e \in ChainsOf(s) : e.ratchetKey # msg.ratchetKey => e \in ChainsOf(new)
  BY Zenon DEF Opens
<1>2. PICK t \in StatesOf(record[q]) :
        /\ msg.chainKey[1] = {t.aliceBase} /\ t.aliceBase \in Nat
        /\ \A u \in Sides(p, t.aliceBase) : Meets(p, msg, u, t)
  BY Zenon, SidesMeet
<1>3. t.aliceBase = s.aliceBase
  BY Zenon, <1>1, <1>2
<1>4. s \in Sides(p, s.aliceBase) /\ s.aliceBase \in Nat
  BY Zenon, <1>1, <1>2, <1>3, CandidateSides
<1>5. s \in StatesOf(record[p]) \/ (~Has(p, s.aliceBase) /\ s.receivers = <<>>)
  <2>1. \/ s \in StatesOf(record[p])
        \/ ~Has(p, s.aliceBase) /\ BobState(s, s.aliceBase, SignedPreKey[p])
    BY Zenon, <1>4, SideFacts
  <2> QED
    BY Zenon, <2>1 DEF BobState
<1>6. Keeps(record[p], record'[p], new)
  <2>1. CASE s \in StatesOf(record[p])
    BY Zenon, <1>1, <2>1
  <2>2. CASE ~Has(p, s.aliceBase)
    <3>1. s.aliceBase \in Bases
      <4>1. q \in Parties
        BY Zenon, Others
      <4> QED
        BY Zenon, <1>2, <1>3, <4>1 DEF Bases
    <3>2. /\ Len(record[p].previous) \in Nat /\ Len(record[p].previous) + 1 <= Cardinality(Bases)
          /\ Cardinality(Bases) \in Nat /\ Cardinality(Bases) <= bundles
      BY Zenon, <2>2, <3>1, StatesFit DEF OpenInv, Bounded, FiniteSetFacts
    <3>3. bundles \in Nat /\ bundles <= MaxBundles
      BY SessionAssumption DEF KeysInv, Typed
    <3>4. Len(record[p].previous) < ArchivedStatesMax
      BY <3>2, <3>3, SessionAssumption
    <3> QED
      BY Zenon, <1>1, <3>4
  <2> QED
    BY Zenon, <1>5, <2>1, <2>2
<1>7. Moved(p, new)
  BY Zenon, <1>1, <1>6, SidesAfter
<1>8. msg \in Messages /\ msg.counter \in Nat
  BY Zenon, MessageBase DEF Messages
<1>9. Got(s, msg).chain.ratchetKey = msg.ratchetKey
  <2>1. /\ TriedChain(s, msg) \in Chains /\ TriedChain(s, msg).ratchetKey = msg.ratchetKey
        /\ \A k \in TriedChain(s, msg).keys : k < TriedChain(s, msg).index
    BY Zenon, <1>1, <1>8, TriedChainType
  <2>2. Got(s, msg).chain.ratchetKey = TriedChain(s, msg).ratchetKey
    BY <1>8, <2>1, KeyResults DEF Got
  <2> QED
    BY Zenon, <2>1, <2>2
<1>10. GoodState(new)
  BY Zenon, <1>1 DEF Renews
<1>11. Knows(new, msg.ratchetKey)
  BY Zenon, <1>1, <1>9, <1>10, KnownChain
<1>12. Knows(s, msg.ratchetKey) \/ Len(s.receivers) < MaxReceiverChains
  <2>1. CASE s \in StatesOf(record[p])
    BY Zenon, <2>1, ChainsFit DEF PassedInv, OpenInv
  <2>2. CASE s.receivers = <<>>
    <3>1. Len(s.receivers) = 0
      BY <2>2
    <3> QED
      BY <3>1, SessionAssumption
  <2> QED
    BY Zenon, <1>5, <2>1, <2>2
<1>13. ASSUME NEW key, Knows(s, key) PROVE Knows(new, key)
  <2>1. PICK e \in ChainsOf(s) : e.ratchetKey = key
    BY Zenon, <1>1, <1>13, KnownChain
  <2>2. CASE key = msg.ratchetKey
    BY Zenon, <1>11, <2>2
  <2>3. CASE key # msg.ratchetKey
    <3>1. e \in ChainsOf(new)
      BY Zenon, <1>1, <1>12, <2>1, <2>3
    <3> QED
      BY Zenon, <1>10, <2>1, <3>1, KnownChain
  <2> QED
    BY Zenon, <2>2, <2>3
<1>14. Meets(p, msg, s, t)
  BY Zenon, <1>2, <1>3, <1>4
<1> QED
  BY Zenon, <1>4, <1>7, <1>11, <1>13, <1>14

\* A message is opened.
LEMMA OpenDecrypt ==
  ASSUME WellOrdered, InjectionFact, FiniteSetFacts, KeysInv, PassedInv, OpenInv,
         MaxSends < MaxReceiverChains, MaxBundles <= ArchivedStatesMax,
         NEW p \in Parties, NEW msg \in Sent(p), MessageDecrypt(p, msg)
  PROVE  OpenInv'
<1> DEFINE q == Other(p)
<1>1. q \in Parties /\ q # p /\ Other(q) = p /\ \A r \in Parties : r = p \/ r = q
  BY Zenon, Others
<1>2. PICK s, new : Opens(p, msg, s, new)
  BY Zenon, OpensFacts DEF MessageDecrypt
<1>3. /\ Renews(p, new) /\ new.aliceBase = s.aliceBase /\ new.pending = <<>> /\ GoodState(s)
      /\ msg.chainKey[1] = {s.aliceBase} /\ TriedChain(s, msg).chainKey = msg.chainKey
      /\ Knows(s, msg.ratchetKey) =>
           /\ s \in StatesOf(record[p])
           /\ new.rootKey = s.rootKey /\ new.senderKey = s.senderKey /\ new.senderChain = s.senderChain
      /\ ~Knows(s, msg.ratchetKey) =>
           /\ new.senderKey = nextKey
           /\ new.senderChain = CreateChain(msg.chainKey, msg.ratchetKey, nextKey)
      /\ \A e \in ChainsOf(new) : e = Got(s, msg).chain \/ e \in ChainsOf(s)
  BY Zenon, <1>2 DEF Opens
<1>4. /\ Moved(p, new) /\ Knows(new, msg.ratchetKey) /\ \A key : Knows(s, key) => Knows(new, key)
      /\ s \in Sides(p, s.aliceBase) /\ s.aliceBase \in Nat
      /\ \E t : Meets(p, msg, s, t)
  BY Zenon, <1>2, OpensMeeting
<1>5. PICK t : Meets(p, msg, s, t)
  BY Zenon, <1>4
<1>6. /\ t \in StatesOf(record[q]) /\ t.aliceBase = s.aliceBase /\ t \in Sides(q, s.aliceBase)
      /\ Knows(s, msg.ratchetKey) \/ (msg.ratchetKey = t.senderKey /\ msg.chainKey = t.rootKey)
      /\ Follows(s, t) /\ (s \in StatesOf(record[p]) => Follows(t, s))
  BY Zenon, <1>5 DEF Meets
<1>7. Has(q, s.aliceBase)
  BY Zenon, <1>6 DEF Has
<1>8. /\ \A u \in Sides(q, s.aliceBase) : u = t
      /\ \A u \in StatesOf(record[q]) : u.aliceBase = s.aliceBase => u = t
      /\ \A u \in StatesOf(record[p]) : u.aliceBase = s.aliceBase => u = s
  <2>1. \A u \in Sides(q, s.aliceBase) : u = t
    <3>1. q \in Parties /\ s.aliceBase \in Nat /\ t \in Sides(q, s.aliceBase)
      BY Zenon, <1>1, <1>4, <1>6
    <3> QED
      BY Zenon, <3>1, SideFacts
  <2>2. \A u \in Sides(p, s.aliceBase) : u = s
    BY Zenon, <1>4, SideFacts
  <2> QED
    BY Zenon, <2>1, <2>2 DEF Sides
<1>9. /\ \A r \in Parties : Sent(r)' = Sent(r)
      /\ prekeys'[p] = prekeys[p] \ UsedPreKey(record[p], msg)
  BY Zenon, OpenedFacts DEF MessageDecrypt
<1>10. prekeys'[q] = prekeys[q] /\ offered' = offered /\ bundles' = bundles
  BY Zenon, <1>1 DEF MessageDecrypt, DecryptLoaded, KeysInv, Typed
<1>11. Following'
  <2>1. Follows(t, new)
    <3>1. CASE Knows(s, msg.ratchetKey)
      BY Zenon, <1>3, <1>6, <3>1 DEF Follows
    <3>2. CASE ~Knows(s, msg.ratchetKey)
      BY Zenon, <1>3, <1>6, <3>2 DEF Follows, CreateChain
    <3> QED
      BY Zenon, <3>1, <3>2
  <2>2. Follows(new, t)
    <3>1. CASE Knows(s, msg.ratchetKey)
      BY Zenon, <1>3, <1>4, <1>6, <3>1 DEF Follows
    <3>2. CASE ~Knows(s, msg.ratchetKey)
      BY Zenon, <1>4, <1>6, <3>2 DEF Follows
    <3> QED
      BY Zenon, <3>1, <3>2
  <2>3. \A u \in Sides(q, new.aliceBase) : Follows(u, new)
    BY Zenon, <1>3, <1>8, <2>1
  <2>4. \A u \in StatesOf(record[q]) : u.aliceBase = new.aliceBase => Follows(new, u)
    BY Zenon, <1>3, <1>8, <2>2
  <2> QED
    BY Zenon, <1>4, <2>3, <2>4, FollowingKept DEF OpenInv
<1>12. UsedPreKey(record[p], msg) = {} \/
         \E k \in PreKeysFor(p) : k.base = s.aliceBase /\ UsedPreKey(record[p], msg) = Range(k.oneTime)
  <2>1. CASE msg.preKey = <<>>
    BY Zenon, <2>1 DEF UsedPreKey
  <2>2. CASE msg.preKey # <<>>
    <3>1. msg.preKey[1] \in PreKeysFor(p) /\ msg.chainKey[1] = {msg.preKey[1].base}
      BY Zenon, <2>2, PreKeyOfMessage
    <3>2. msg.preKey[1].base = s.aliceBase
      BY Zenon, <1>3, <3>1
    <3> QED
      BY Zenon, <3>1, <3>2 DEF UsedPreKey
  <2> QED
    BY Zenon, <2>1, <2>2
<1>13. OthersCanSetUp(p, new.aliceBase) /\ offered[p] \subseteq prekeys'[p]
  <2>1. /\ offered[p] \subseteq prekeys[p]
        /\ \A k \in PreKeysFor(p) : Range(k.oneTime) \cap offered[p] = {}
        /\ \A j, k \in PreKeysFor(p) : Range(j.oneTime) \cap Range(k.oneTime) # {} => j.base = k.base
    BY Zenon DEF OpenInv, HandedOut
  <2>2. CASE UsedPreKey(record[p], msg) = {}
    <3>1. prekeys'[p] = prekeys[p]
      BY Zenon, <1>9, <2>2
    <3> QED
      BY Zenon, <2>1, <3>1 DEF OthersCanSetUp
  <2>3. ASSUME NEW k \in PreKeysFor(p), k.base = s.aliceBase, prekeys'[p] = prekeys[p] \ Range(k.oneTime)
        PROVE  OthersCanSetUp(p, new.aliceBase) /\ offered[p] \subseteq prekeys'[p]
    <3>1. offered[p] \subseteq prekeys'[p]
      BY Zenon, <2>1, <2>3
    <3>2. ASSUME NEW j \in PreKeysFor(p), j.base # s.aliceBase, Range(j.oneTime) \subseteq prekeys[p]
          PROVE  Range(j.oneTime) \subseteq prekeys'[p]
      <4>1. Range(j.oneTime) \cap Range(k.oneTime) = {}
        BY Zenon, <2>1, <2>3, <3>2
      <4> QED
        BY Zenon, <2>3, <3>2, <4>1
    <3> QED
      BY Zenon, <1>3, <3>1, <3>2 DEF OthersCanSetUp
  <2> QED
    BY Zenon, <1>9, <1>12, <2>2, <2>3
<1>14. Met'
  <2>1. ASSUME NEW u \in StatesOf(record[p]), u.aliceBase = new.aliceBase
        PROVE  \/ u.senderKey = new.senderKey
               \/ \A x \in Sides(q, new.aliceBase) : Knows(x, u.senderKey)
    <3>1. u = s
      BY Zenon, <1>3, <1>8, <2>1
    <3>2. CASE Knows(s, msg.ratchetKey)
      BY Zenon, <1>3, <3>1, <3>2
    <3>3. CASE ~Knows(s, msg.ratchetKey)
      <4>1. Knows(t, s.senderKey)
        BY Zenon, <1>3, <1>5, <3>3, TurnsFrom
      <4> QED
        BY Zenon, <1>3, <1>8, <3>1, <4>1
    <3> QED
      BY Zenon, <3>2, <3>3
  <2>2. /\ new.aliceBase \in Nat /\ Sent(p)' = Sent(p) /\ Sent(q)' = Sent(q)
        /\ s \in Sides(p, new.aliceBase)
    BY Zenon, <1>1, <1>3, <1>4, <1>9
  <2>3. \A k \in PreKeysFor(p) :
          k.base # new.aliceBase /\ Range(k.oneTime) \subseteq prekeys[p]
          => Range(k.oneTime) \subseteq prekeys'[p]
    BY Zenon, <1>13 DEF OthersCanSetUp
  <2> QED
    BY Zenon, <1>4, <1>10, <2>1, <2>2, <2>3, MetKept DEF OpenInv
<1>15. msg \in Messages /\ msg.chainKey \in ChainKeys /\ msg.ratchetKey \in Nat /\ nextKey \in Nat
       /\ msg.counter \in Nat
  BY Zenon, MessageBase DEF Messages, KeysInv, Typed
<1>16. GoodState(new)
  BY Zenon, <1>3 DEF Renews
<1>17. Answering'
  <2>1. Answers(new)
    <3>1. CASE Knows(s, msg.ratchetKey)
      <4>1. PICK c \in ChainsOf(s) : s.senderChain[Len(s.senderChain)] = {c.ratchetKey, s.senderKey}
        BY Zenon, <1>3, <3>1 DEF OpenInv, Answering
      <4>2. Knows(new, c.ratchetKey)
        BY Zenon, <1>3, <1>4, KnownChain
      <4>3. PICK e \in ChainsOf(new) : e.ratchetKey = c.ratchetKey
        BY Zenon, <1>16, <4>2, KnownChain
      <4> QED
        BY Zenon, <1>3, <3>1, <4>1, <4>3 DEF Answers
    <3>2. CASE ~Knows(s, msg.ratchetKey)
      <4>1. new.senderChain[Len(new.senderChain)] = {msg.ratchetKey, new.senderKey}
        BY <1>3, <1>15, <3>2, LastAgreement
      <4>2. PICK e \in ChainsOf(new) : e.ratchetKey = msg.ratchetKey
        BY Zenon, <1>4, <1>16, KnownChain
      <4> QED
        BY Zenon, <4>1, <4>2 DEF Answers
    <3> QED
      BY Zenon, <3>1, <3>2
  <2> QED
    BY Zenon, <1>4, <2>1, AnsweringKept DEF OpenInv
<1>18. Announced'
  <2>1. record'[p].current = << new >>
    BY Zenon, <1>3 DEF Renews, Renewed
  <2> QED
    BY Zenon, <1>3, <1>4, <1>7, <1>10, <1>13, <2>1, AnnouncedKept DEF OpenInv
<1>19. HandedOut'
  <2>1. PreKeysFor(p)' = PreKeysFor(p)
    BY Zenon, <1>3, <1>9, PreKeysAfter
  <2>2. ASSUME NEW k \in PreKeysFor(q)' PROVE k \in PreKeysFor(q)
    <3>1. \/ k \in PreKeysFor(q)
          \/ \E x \in Sent(q)' \ Sent(q) : x.preKey = << k >>
          \/ new.pending = << k >>
      BY Zenon, <1>3, PreKeysAfter
    <3>2. Sent(q)' = Sent(q) /\ new.pending # << k >>
      BY <1>1, <1>3, <1>9
    <3> QED
      BY Zenon, <3>1, <3>2
  <2> QED
    BY Zenon, <1>10, <1>13, <2>1, <2>2, HandedOutKept DEF OpenInv
<1>20. Bounded'
  <2>1. new.aliceBase \in Bases
    BY Zenon, <1>1, <1>3, <1>6 DEF Bases
  <2>2. Got(s, msg).chain.ratchetKey = msg.ratchetKey
    <3>1. /\ TriedChain(s, msg) \in Chains /\ TriedChain(s, msg).ratchetKey = msg.ratchetKey
          /\ \A k \in TriedChain(s, msg).keys : k < TriedChain(s, msg).index
      BY Zenon, <1>3, <1>15, TriedChainType
    <3>2. Got(s, msg).chain.ratchetKey = TriedChain(s, msg).ratchetKey
      BY <1>15, <3>1, KeyResults DEF Got
    <3> QED
      BY Zenon, <3>1, <3>2
  <2>3. FromSent(p, s)
    <3>1. \/ s \in StatesOf(record[p])
          \/ ~Has(p, s.aliceBase) /\ BobState(s, s.aliceBase, SignedPreKey[p])
      BY Zenon, <1>4, SideFacts
    <3>2. CASE s \in StatesOf(record[p])
      BY Zenon, <3>2 DEF OpenInv, Bounded, FromSent
    <3>3. CASE BobState(s, s.aliceBase, SignedPreKey[p])
      BY Zenon, <3>3 DEF BobState, FromSent
    <3> QED
      BY Zenon, <3>1, <3>2, <3>3
  <2>4. FromSent(p, new)
    BY Zenon, <1>3, <2>2, <2>3 DEF FromSent
  <2> QED
    BY Zenon, <1>4, <1>9, <1>10, <2>1, <2>4, BoundedKept DEF OpenInv
<1> QED
  BY Zenon, <1>11, <1>14, <1>17, <1>18, <1>19, <1>20 DEF OpenInv

LEMMA OpenSteps ==
  ASSUME WellOrdered, InjectionFact, FiniteSetFacts,
         MaxSends < MaxReceiverChains, MaxBundles <= ArchivedStatesMax
  PROVE  KeysInv /\ PassedInv /\ OpenInv /\ [Next]_vars => OpenInv'
<1> SUFFICES ASSUME KeysInv, PassedInv, OpenInv, [Next]_vars PROVE OpenInv'
  BY Zenon
<1>1. CASE Next
  <2>1. PICK p \in Parties : \/ ProcessPreKeyBundle(p) \/ MessageEncrypt(p)
                             \/ \E msg \in Sent(p) : MessageDecrypt(p, msg)
    BY Zenon, <1>1 DEF Next
  <2>2. CASE ProcessPreKeyBundle(p)
    BY Zenon, <2>2, OpenBundle
  <2>3. CASE MessageEncrypt(p)
    BY Zenon, <2>3, OpenEncrypt
  <2>4. CASE \E msg \in Sent(p) : MessageDecrypt(p, msg)
    BY Zenon, <2>4, OpenDecrypt
  <2> QED
    BY Zenon, <2>1, <2>2, <2>3, <2>4
<1>2. CASE vars' = vars
  <2>1. /\ record' = record /\ prekeys' = prekeys /\ offered' = offered /\ bundles' = bundles
        /\ \A p \in Parties : Sent(p)' = Sent(p) /\ Other(p) \in Parties
    BY Zenon, <1>2, Others DEF vars, Sent
  <2>2. \A p \in Parties : \A base : Has(p, base)' <=> Has(p, base)
    BY Zenon, <2>1 DEF Has
  <2>3. \A p \in Parties : \A base : Sides(p, base)' = Sides(p, base)
    BY Zenon, <2>1, <2>2 DEF Sides
  <2>4. Following' /\ Answering'
    BY <2>1, <2>3 DEF OpenInv, Following, Answering
  <2>5. Met'
    <3>1. \A p \in Parties : \A m \in Sent(p) : \E t \in StatesOf(record[Other(p)]) : MetBy(p, m, t)
      BY Zenon DEF OpenInv, Met, MetBy, CanSetUp
    <3>2. \A p \in Parties : \A m, t : MetBy(p, m, t)' <=> MetBy(p, m, t)
      BY <2>1, <2>2, <2>3 DEF MetBy, CanSetUp
    <3>3. \A p \in Parties : \A m \in Sent(p)' : \E t \in StatesOf(record'[Other(p)]) : MetBy(p, m, t)'
      BY Zenon, <2>1, <3>1, <3>2
    <3> QED
      BY Zenon, <3>3 DEF Met, MetBy, CanSetUp
  <2>6. Announced'
    BY Zenon, <2>1, <2>2 DEF OpenInv, Announced
  <2>7. HandedOut'
    <3>1. \A p \in Parties : PreKeysFor(p)' = PreKeysFor(p)
      BY Zenon, <2>1 DEF PreKeysFor
    <3> QED
      BY <2>1, <3>1 DEF OpenInv, HandedOut
  <2>8. Bounded'
    <3>1. Bases' = Bases
      BY Zenon, <2>1 DEF Bases
    <3> QED
      BY <2>1, <3>1 DEF OpenInv, Bounded
  <2> QED
    BY Zenon, <2>4, <2>5, <2>6, <2>7, <2>8 DEF OpenInv
<1> QED
  BY Zenon, <1>1, <1>2

\* The side of the session that a message belongs to authenticates it and is
\* not too far behind it.
LEMMA SideDecides ==
  ASSUME FiniteSetFacts, KeysInv, PassedInv, MaxSends <= MaxForwardJumps,
         NEW p \in Parties, NEW msg \in Sent(p), NEW s, NEW t, Meets(p, msg, s, t),
         t.aliceBase \in Nat
  PROVE  GoodState(s) /\ DecryptWithState(s, msg, nextKey).result # "invalid"
<1> DEFINE q == Other(p)
           c == TriedChain(s, msg)
           g == Got(s, msg)
           r == DecryptWithState(s, msg, nextKey)
<1>1. /\ msg \in Messages /\ msg.counter \in Nat /\ nextKey \in Nat
      /\ q \in Parties /\ Other(q) = p
  BY Zenon, MessageBase, Others DEF Messages, KeysInv, Typed
<1>2. /\ s \in Sides(p, t.aliceBase) /\ Follows(s, t)
      /\ Knows(s, msg.ratchetKey) \/ (msg.ratchetKey = t.senderKey /\ msg.chainKey = t.senderChain)
  BY Zenon DEF Meets
<1>3. GoodState(s) /\ (s \in StatesOf(record[p]) \/ BobState(s, t.aliceBase, SignedPreKey[p]))
  BY Zenon, <1>2, SideFacts
<1>4. /\ c \in Chains /\ c.ratchetKey = msg.ratchetKey /\ \A k \in c.keys : k < c.index
      /\ ~Knows(s, msg.ratchetKey) =>
           c.chainKey = CreateChain(s.rootKey, msg.ratchetKey, s.senderKey)
  BY Zenon, <1>1, <1>3, TriedChainType
<1>5. Knows(s, msg.ratchetKey) => c \in ChainsOf(s)
  BY Zenon, <1>3, KnownChain
<1>6. g = GetOrCreateMessageKey(c, msg.counter)
  BY Zenon DEF Got
<1>7. Outcome(s, msg, nextKey, r)
  BY Zenon, <1>1, <1>3, DecryptOutcome
<1> HIDE DEF c, g, r
<1>8. c.chainKey = msg.chainKey
  <2>1. CASE Knows(s, msg.ratchetKey)
    <3>1. c \in ChainsOf(s)
      BY Zenon, <1>5, <2>1
    <3>2. s \in StatesOf(record[p])
      <4>1. BobState(s, t.aliceBase, SignedPreKey[p]) => ChainsOf(s) = {}
        BY Zenon DEF BobState
      <4> QED
        BY Zenon, <1>3, <3>1, <4>1
    <3>3. PICK x \in Sendings(q) : x.key = msg.ratchetKey /\ x.chain = msg.chainKey
      BY Zenon, <1>1, InSendings
    <3> QED
      BY Zenon, <1>4, <3>1, <3>2, <3>3 DEF PassedInv, OneChain
  <2>2. CASE ~Knows(s, msg.ratchetKey)
    BY Zenon, <1>2, <1>4, <2>2 DEF Follows
  <2> QED
    BY Zenon, <2>1, <2>2
<1>9. msg.counter < MaxSends
  <2>1. msg.counter < Cardinality(Sent(p)) /\ Cardinality(Sent(p)) <= MaxSends /\ Cardinality(Sent(p)) \in Nat
    BY Zenon DEF PassedInv, Counted, FiniteSetFacts
  <2> QED
    BY <1>1, <2>1, SessionAssumption
<1>10. g.result # "invalid"
  <2>1. /\ g.result = "duplicate" <=> msg.counter < c.index /\ msg.counter \notin c.keys
        /\ g.result = "ok" <=> \/ msg.counter < c.index /\ msg.counter \in c.keys
                               \/ msg.counter >= c.index /\ msg.counter - c.index <= MaxForwardJumps
    BY <1>1, <1>4, <1>6, KeyResults
  <2>2. c.index \in Nat
    BY Zenon, <1>4 DEF Chains
  <2>3. msg.counter - c.index <= MaxForwardJumps
    BY <1>1, <1>9, <2>2, SessionAssumption, ChainAssumption
  <2>4. msg.counter < c.index \/ msg.counter >= c.index
    BY <1>1, <2>2
  <2> QED
    BY Zenon, <2>1, <2>3, <2>4
<1>11. r.result = IF g.result = "ok" /\ c.chainKey # msg.chainKey THEN "invalid" ELSE g.result
  BY Zenon, <1>7 DEF Outcome, c, g
<1> QED
  BY Zenon, <1>3, <1>8, <1>10, <1>11 DEF r

\* Whoever set up which session, a message that was not opened can be.
LEMMA OpenImplies ==
  ASSUME WellOrdered, FiniteSetFacts, KeysInv, PassedInv, OpenInv, MaxSends <= MaxForwardJumps
  PROVE  EveryMessageOpens
<1> SUFFICES ASSUME NEW p \in Parties, NEW msg \in Sent(p), opens[p][msg] = 0
             PROVE  Decrypt(p, record[p], msg).result = "ok"
  BY Zenon DEF EveryMessageOpens
<1> DEFINE d == Decrypt(p, record[p], msg)
<1>1. d.result # "duplicate"
  BY Zenon, DuplicateIsPassed
<1>2. /\ msg \in Messages /\ nextKey \in Nat /\ Len(msg.preKey) <= 1
      /\ GoodRecord(record[p]) /\ \A s \in StatesOf(record[p]) : GoodState(s)
  BY Zenon, MessageBase DEF KeysInv, Typed, Fresh, FreshMessage, Messages
<1>3. DecidedRight(p, record[p], msg, d)
  BY Zenon, <1>2, DecryptFrom
<1> HIDE DEF d
<1>4. d.result # "invalid"
  <2>1. PICK t \in StatesOf(record[Other(p)]) :
          /\ msg.chainKey[1] = {t.aliceBase} /\ t.aliceBase \in Nat
          /\ \A s \in Sides(p, t.aliceBase) : Meets(p, msg, s, t)
    BY Zenon, SidesMeet
  <2>2. PICK s : s \in Sides(p, t.aliceBase)
    BY Zenon, <2>1, SideFacts
  <2>3. Meets(p, msg, s, t)
    BY Zenon, <2>1, <2>2
  <2>4. ~Has(p, t.aliceBase) => msg.preKey # <<>> /\ Range(msg.preKey[1].oneTime) \subseteq prekeys[p]
    BY Zenon, <2>3 DEF Meets, CanSetUp
  <2>5. Candidate(p, record[p], msg, s)
    BY Zenon, <2>1, <2>2, <2>4, CandidateSides
  <2>6. DecryptWithState(s, msg, nextKey).result # "invalid"
    BY Zenon, <2>1, <2>3, SideDecides
  <2> QED
    BY Zenon, <1>3, <2>5, <2>6 DEF DecidedRight
<1>5. PICK s : DecidedBy(p, record[p], msg, d, s, DecryptWithState(s, msg, nextKey))
  BY Zenon, <1>3, <1>4 DEF DecidedRight
<1> DEFINE r == DecryptWithState(s, msg, nextKey)
<1>6. GoodState(s) /\ d.result = r.result
  BY Zenon, <1>5 DEF DecidedBy
<1>7. Outcome(s, msg, nextKey, r)
  BY Zenon, <1>2, <1>6, DecryptOutcome
<1>8. Got(s, msg).result \in {"ok", "duplicate", "invalid"}
  <2>1. /\ TriedChain(s, msg) \in Chains /\ msg.counter \in Nat
        /\ \A k \in TriedChain(s, msg).keys : k < TriedChain(s, msg).index
    BY Zenon, <1>2, <1>6, TriedChainType DEF Messages
  <2> QED
    BY Zenon, <2>1, KeyResults DEF Got
<1> HIDE DEF r
<1>9. r.result \in {"ok", "duplicate", "invalid"}
  BY Zenon, <1>7, <1>8 DEF Outcome
<1> QED
  BY Zenon, <1>1, <1>4, <1>6, <1>9 DEF d
==============================================================================
