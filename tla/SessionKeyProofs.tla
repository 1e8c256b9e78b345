-------------------------- MODULE SessionKeyProofs --------------------------
(***************************************************************************)
(* What the operations on chains, states and records of a session do, the  *)
(* types of Session and the freshness of its message keys, for every value *)
(* of the limits of consts.rs, any number of bundles and messages and any  *)
(* prekeys.                                                                *)
(***************************************************************************)
EXTENDS Session, TLAPS

-----------------------------------------------------------------------------
(* Types.  A record is seen as the set of its states, one per base key, and  *)
(* a state's receivers as the set of its chains, one per ratchet key.        *)

ChainKeys == Seq(SUBSET Nat)
PreKeys == [base : Nat, oneTime : Seq(OneTimePreKeys)]
Chains == [ratchetKey : Nat, chainKey : ChainKeys, index : Nat, keys : SUBSET Nat]
SessionStates ==
  [aliceBase : Nat, rootKey : ChainKeys, senderKey : Nat, senderChain : ChainKeys,
   senderIndex : Nat, receivers : Seq(Chains), pending : Seq(PreKeys)]
Records == [current : Seq(SessionStates), previous : Seq(SessionStates)]
Messages ==
  [ratchetKey : Nat, chainKey : ChainKeys, counter : Nat, preKey : Seq(PreKeys)]

StatesOf(rec) == Range(rec.current) \cup Range(rec.previous)
ChainsOf(s) == Range(s.receivers)

\* No ratchet key has two chains.
DistinctKeys(chains) ==
  \A i, j \in DOMAIN chains : chains[i].ratchetKey = chains[j].ratchetKey => i = j

\* A state as its limits and get_or_create_chain_key keep it.
GoodState(s) ==
  /\ s \in SessionStates
  /\ Len(s.receivers) <= MaxReceiverChains
  /\ DistinctKeys(s.receivers)
  /\ \A c \in ChainsOf(s) : \A k \in c.keys : k < c.index

\* A record as promote_state keeps it: no base key twice, and no archived state
\* has a prekey message to repeat.
GoodRecord(rec) ==
  /\ rec \in Records
  /\ Len(rec.current) <= 1
  /\ Len(rec.previous) <= ArchivedStatesMax
  /\ \A i, j \in DOMAIN rec.previous :
       rec.previous[i].aliceBase = rec.previous[j].aliceBase => i = j
  /\ \A s \in Range(rec.current), t \in Range(rec.previous) : s.aliceBase # t.aliceBase
  /\ \A t \in Range(rec.previous) : t.pending = <<>>

\* What every operation does to a record: s is the current state now, and the
\* archived ones are others that were in the record before.
Renewed(rec, new, s) ==
  /\ new.current = << s >>
  /\ \A t \in Range(new.previous) : \E u \in StatesOf(rec) :
       u.aliceBase # s.aliceBase /\ t = ClearUnacknowledged(u)

\* No other state was dropped.
Keeps(rec, new, s) ==
  \A u \in StatesOf(rec) :
    u.aliceBase # s.aliceBase => ClearUnacknowledged(u) \in Range(new.previous)

-----------------------------------------------------------------------------
(* Lemmas about sequences *)

\* Range of a sequence of length at most one, and membership in general.
LEMMA InRange ==
  ASSUME NEW S, NEW seq \in Seq(S)
  PROVE  /\ Range(seq) \subseteq S
         /\ \A x : x \in Range(seq) <=> \E i \in 1..Len(seq) : seq[i] = x
  BY DEF Range

LEMMA RangeSingle == \A x : Range(<< x >>) = {x}
  BY DEF Range

LEMMA RangeEmpty == Range(<<>>) = {}
  BY DEF Range

\* An optional value is there or not.
LEMMA OneOrNone ==
  ASSUME NEW S, NEW seq \in Seq(S), Len(seq) <= 1, seq # <<>>
  PROVE  Len(seq) = 1 /\ seq[1] \in S /\ Range(seq) = {seq[1]} /\ seq = << seq[1] >>
<1>1. Len(seq) = 1
  <2>1. Len(seq) \in Nat /\ Len(seq) # 0
    OBVIOUS
  <2> QED
    BY <2>1
<1> QED
  BY <1>1 DEF Range

\* What \o makes of two sequences.
LEMMA JoinFacts ==
  ASSUME NEW S, NEW a \in Seq(S), NEW b \in Seq(S)
  PROVE  /\ a \o b \in Seq(S)
         /\ Len(a \o b) = Len(a) + Len(b)
         /\ \A i \in 1..(Len(a) + Len(b)) :
              (a \o b)[i] = IF i <= Len(a) THEN a[i] ELSE b[i - Len(a)]
<1>1. Len(a) \in Nat /\ Len(b) \in Nat
  OBVIOUS
<1>2. Len(a \o b) = Len(a) + Len(b)
  OBVIOUS
<1>3. \A i \in 1..Len(a) : (a \o b)[i] = a[i]
  OBVIOUS
<1>4. \A i \in (Len(a) + 1)..(Len(a) + Len(b)) : (a \o b)[i] = b[i - Len(a)]
  OBVIOUS
<1>5. a \o b \in Seq(S)
  OBVIOUS
<1> QED
  BY <1>1, <1>2, <1>3, <1>4, <1>5

LEMMA WithoutFacts ==
  ASSUME NEW S, NEW seq \in Seq(S), NEW i \in 1..Len(seq)
  PROVE  /\ Without(seq, i) \in Seq(S)
         /\ Len(Without(seq, i)) = Len(seq) - 1
         /\ \A j \in 1..(Len(seq) - 1) :
              Without(seq, i)[j] = IF j < i THEN seq[j] ELSE seq[j + 1]
<1> DEFINE a == SubSeq(seq, 1, i - 1)
           b == SubSeq(seq, i + 1, Len(seq))
<1>1. /\ a \in Seq(S) /\ Len(a) = i - 1
      /\ \A j \in 1..(i - 1) : a[j] = seq[j]
  <2>1. \A j \in 1..(i - 1) : seq[j] \in S
    OBVIOUS
  <2> QED
    BY <2>1
<1>2. /\ b \in Seq(S) /\ Len(b) = Len(seq) - i
      /\ \A j \in 1..(Len(seq) - i) : b[j] = seq[i + j]
  <2>1. \A j \in (i + 1)..Len(seq) : seq[j] \in S
    OBVIOUS
  <2> QED
    BY <2>1
<1> HIDE DEF a, b
<1>3. /\ a \o b \in Seq(S) /\ Len(a \o b) = Len(a) + Len(b)
      /\ \A j \in 1..(Len(a) + Len(b)) :
           (a \o b)[j] = IF j <= Len(a) THEN a[j] ELSE b[j - Len(a)]
  BY Zenon, <1>1, <1>2, JoinFacts
<1>4. Without(seq, i) = a \o b
  BY Zenon DEF Without, a, b
<1>5. ASSUME NEW j \in 1..(Len(seq) - 1)
      PROVE  Without(seq, i)[j] = IF j < i THEN seq[j] ELSE seq[j + 1]
  <2>1. CASE j < i
    BY <1>1, <1>2, <1>3, <1>4, <2>1
  <2>2. CASE ~(j < i)
    <3>1. j - Len(a) \in 1..(Len(seq) - i) /\ i + (j - Len(a)) = j + 1
      BY <1>1, <2>2
    <3>2. (a \o b)[j] = b[j - Len(a)]
      BY <1>1, <1>2, <1>3, <2>2
    <3> QED
      BY Zenon, <1>2, <1>4, <2>2, <3>1, <3>2
  <2> QED
    BY Zenon, <2>1, <2>2
<1>6. Without(seq, i) \in Seq(S) /\ Len(Without(seq, i)) = Len(seq) - 1
  <2>1. Len(a) + Len(b) = Len(seq) - 1
    BY <1>1, <1>2
  <2> QED
    BY Zenon, <1>3, <1>4, <2>1
<1> QED
  BY Zenon, <1>5, <1>6

-----------------------------------------------------------------------------
(* What the operations on a record do to the set of its states *)

\* ClearUnacknowledged only forgets the prekey message, and does it once.
LEMMA ClearFacts ==
  ASSUME NEW s \in SessionStates
  PROVE  /\ ClearUnacknowledged(s) \in SessionStates
         /\ ClearUnacknowledged(s).aliceBase = s.aliceBase
         /\ ClearUnacknowledged(s).rootKey = s.rootKey
         /\ ClearUnacknowledged(s).senderKey = s.senderKey
         /\ ClearUnacknowledged(s).senderChain = s.senderChain
         /\ ClearUnacknowledged(s).senderIndex = s.senderIndex
         /\ ClearUnacknowledged(s).receivers = s.receivers
         /\ ClearUnacknowledged(s).pending = <<>>
         /\ s.pending = <<>> => ClearUnacknowledged(s) = s
         /\ ClearUnacknowledged(ClearUnacknowledged(s)) = ClearUnacknowledged(s)
<1>1. ASSUME NEW t \in SessionStates
      PROVE  /\ ClearUnacknowledged(t) \in SessionStates
             /\ ClearUnacknowledged(t).pending = <<>>
             /\ t.pending = <<>> => ClearUnacknowledged(t) = t
  <2>1. <<>> \in Seq(PreKeys)
    OBVIOUS
  <2>2. ClearUnacknowledged(t) \in SessionStates
    BY Zenon, <2>1 DEF ClearUnacknowledged, SessionStates
  <2>3. ClearUnacknowledged(t).pending = <<>>
    BY Zenon DEF ClearUnacknowledged, SessionStates
  <2>4. t.pending = <<>> => ClearUnacknowledged(t) = t
    BY Zenon DEF ClearUnacknowledged, SessionStates
  <2> QED
    BY Zenon, <2>2, <2>3, <2>4
<1>2. /\ ClearUnacknowledged(s).aliceBase = s.aliceBase
      /\ ClearUnacknowledged(s).rootKey = s.rootKey
      /\ ClearUnacknowledged(s).senderKey = s.senderKey
      /\ ClearUnacknowledged(s).senderChain = s.senderChain
      /\ ClearUnacknowledged(s).senderIndex = s.senderIndex
      /\ ClearUnacknowledged(s).receivers = s.receivers
  BY Zenon DEF ClearUnacknowledged, SessionStates
<1> QED
  BY Zenon, <1>1, <1>2

\* The states of a good record: typed, and the one of each base key is unique.
LEMMA StatesAreTyped ==
  ASSUME NEW rec, GoodRecord(rec)
  PROVE  /\ StatesOf(rec) \subseteq SessionStates
         /\ \A s, t \in StatesOf(rec) : s.aliceBase = t.aliceBase => s = t
<1>1. rec.current \in Seq(SessionStates) /\ rec.previous \in Seq(SessionStates)
  BY Zenon DEF GoodRecord, Records
<1>2. Range(rec.current) \subseteq SessionStates /\ Range(rec.previous) \subseteq SessionStates
  BY Zenon, <1>1, InRange
<1>3. \A s, t \in Range(rec.current) : s = t
  BY <1>1 DEF GoodRecord, Range
<1>4. \A s, t \in Range(rec.previous) : s.aliceBase = t.aliceBase => s = t
  BY Zenon DEF GoodRecord, Range
<1>5. \A s \in Range(rec.current), t \in Range(rec.previous) : s.aliceBase # t.aliceBase
  BY Zenon DEF GoodRecord
<1> QED
  BY Zenon, <1>2, <1>3, <1>4, <1>5 DEF StatesOf

\* promote_state with a state whose base key is new: the old current state is
\* archived, and one is dropped only when ARCHIVED_STATES_MAX_LENGTH is reached.
LEMMA PromoteRenews ==
  ASSUME NEW rec, GoodRecord(rec), NEW s \in SessionStates,
         \A u \in StatesOf(rec) : u.aliceBase # s.aliceBase
  PROVE  /\ GoodRecord(PromoteState(rec, s))
         /\ Renewed(rec, PromoteState(rec, s), s)
         /\ Len(rec.previous) < ArchivedStatesMax => Keeps(rec, PromoteState(rec, s), s)
<1> DEFINE new == PromoteState(rec, s)
           prev == rec.previous
           c == rec.current[1]
           n == IF Len(prev) >= ArchivedStatesMax THEN Len(prev) - 1 ELSE Len(prev)
<1>1. /\ rec.current \in Seq(SessionStates) /\ prev \in Seq(SessionStates)
      /\ Len(rec.current) <= 1 /\ Len(prev) <= ArchivedStatesMax
  BY Zenon DEF GoodRecord, Records
<1>2. Range(prev) \subseteq SessionStates /\ Range(rec.current) \subseteq SessionStates
  BY Zenon, <1>1, InRange
<1>3. \A t \in Range(prev) : t.pending = <<>> /\ ClearUnacknowledged(t) = t
  BY Zenon, <1>2, ClearFacts DEF GoodRecord
<1>4. new.current = << s >> /\ Range(<< s >>) = {s} /\ << s >> \in Seq(SessionStates) /\ Len(<< s >>) = 1
  BY RangeSingle DEF PromoteState
<1>5. CASE rec.current = <<>>
  <2>1. new = [current |-> << s >>, previous |-> prev]
    BY Zenon, <1>5 DEF PromoteState
  <2>2. Range(rec.current) = {}
    BY Zenon, <1>5, RangeEmpty
  <2> HIDE DEF new
  <2>3. GoodRecord(new)
    BY <1>1, <1>3, <1>4, <2>1 DEF GoodRecord, Records, StatesOf
  <2>4. Renewed(rec, new, s)
    BY Zenon, <1>3, <2>1 DEF Renewed, StatesOf
  <2>5. Keeps(rec, new, s)
    BY Zenon, <1>3, <2>1, <2>2 DEF Keeps, StatesOf
  <2> QED
    BY Zenon, <2>3, <2>4, <2>5 DEF new
<1>6. CASE rec.current # <<>>
  <2>1. /\ Len(rec.current) = 1 /\ c \in SessionStates /\ Range(rec.current) = {c}
    <3>1. Len(rec.current) = 1
      BY Zenon, <1>1, <1>6, OneOrNone
    <3> QED
      BY <1>1, <3>1 DEF Range
  <2> DEFINE d == ClearUnacknowledged(c)
             sub == SubSeq(prev, 1, n)
             np == << d >> \o sub
  <2>2. /\ d \in SessionStates /\ d.aliceBase = c.aliceBase /\ d.pending = <<>>
    BY Zenon, <2>1, ClearFacts
  <2>3. n \in Nat /\ n <= Len(prev) /\ n < ArchivedStatesMax
        /\ (Len(prev) < ArchivedStatesMax => n = Len(prev))
    BY <1>1, SessionAssumption
  <2>4. /\ sub \in Seq(SessionStates) /\ Len(sub) = n
        /\ \A i \in 1..n : sub[i] = prev[i]
    <3>1. \A i \in 1..n : prev[i] \in SessionStates
      BY <1>1, <2>3
    <3> QED
      BY <2>3, <3>1
  <2>5. new = [current |-> << s >>, previous |-> np]
    BY Zenon, <1>6 DEF PromoteState
  <2> HIDE DEF d, sub, new, n
  <2>6. /\ np \in Seq(SessionStates) /\ Len(np) = n + 1
        /\ np[1] = d
        /\ \A i \in 2..(n + 1) : np[i] = prev[i - 1]
    <3>1. << d >> \in Seq(SessionStates) /\ Len(<< d >>) = 1
      BY <2>2
    <3> QED
      BY <2>2, <2>3, <2>4, <3>1
  <2> HIDE DEF np
  <2>7. Range(np) = {d} \cup {prev[i] : i \in 1..n}
    <3>1. ASSUME NEW x \in Range(np) PROVE x \in {d} \cup {prev[i] : i \in 1..n}
      <4>1. PICK i \in 1..(n + 1) : np[i] = x
        BY <2>6, InRange
      <4>2. CASE i = 1
        BY Zenon, <2>6, <4>1, <4>2
      <4>3. CASE i # 1
        <5>1. i \in 2..(n + 1) /\ i - 1 \in 1..n
          BY <2>3, <4>3
        <5> QED
          BY Zenon, <2>6, <4>1, <5>1
      <4> QED
        BY Zenon, <4>2, <4>3
    <3>2. ASSUME NEW i \in 1..n PROVE prev[i] \in Range(np)
      <4>1. i + 1 \in 1..(n + 1) /\ i + 1 \in 2..(n + 1) /\ np[i + 1] = prev[i]
        BY <2>3, <2>6
      <4> QED
        BY Zenon, <2>6, <4>1, InRange
    <3>3. d \in Range(np)
      BY <2>3, <2>6, InRange
    <3> QED
      BY Zenon, <3>1, <3>2, <3>3
  <2>8. \A i \in 1..n : prev[i] \in Range(prev)
    BY <1>1, <2>3, InRange
  <2>9. GoodRecord(new)
    <3>1. new \in Records
      BY Zenon, <1>4, <2>5, <2>6 DEF Records
    <3>2. \A i, j \in DOMAIN np : np[i].aliceBase = np[j].aliceBase => i = j
      <4>1. DOMAIN np = 1..(n + 1)
        BY <2>6
      <4>2. \A i \in 2..(n + 1) : np[i] = prev[i - 1] /\ i - 1 \in 1..n /\ i - 1 \in DOMAIN prev
                                  /\ prev[i - 1].aliceBase # c.aliceBase
        BY <1>1, <2>1, <2>3, <2>6, <2>8 DEF GoodRecord
      <4>3. \A i, j \in DOMAIN prev : prev[i].aliceBase = prev[j].aliceBase => i = j
        BY Zenon DEF GoodRecord
      <4>4. ASSUME NEW i \in 1..(n + 1), NEW j \in 1..(n + 1),
                   np[i].aliceBase = np[j].aliceBase
            PROVE  i = j
        <5>0. /\ i # 1 => i \in 2..(n + 1)
              /\ j # 1 => j \in 2..(n + 1)
          BY <2>3
        <5>1. CASE i = 1 /\ j # 1
          BY Zenon, <2>2, <2>6, <4>2, <4>4, <5>0, <5>1
        <5>2. CASE i # 1 /\ j = 1
          BY Zenon, <2>2, <2>6, <4>2, <4>4, <5>0, <5>2
        <5>3. CASE i # 1 /\ j # 1
          <6>1. i \in 2..(n + 1) /\ j \in 2..(n + 1)
            BY Zenon, <5>0, <5>3
          <6>2. i - 1 = j - 1
            BY <4>2, <4>3, <4>4, <6>1
          <6> QED
            BY <6>1, <6>2
        <5> QED
          BY Zenon, <5>1, <5>2, <5>3
      <4> QED
        BY Zenon, <4>1, <4>4
    <3>3. \A t \in Range(np) : t.aliceBase # s.aliceBase /\ t.pending = <<>>
      BY <1>3, <2>1, <2>2, <2>7, <2>8 DEF StatesOf
    <3> QED
      <4>1. Range(new.current) = {s} /\ Len(new.current) = 1 /\ new.previous = np
        BY Zenon, <1>4, <2>5
      <4>2. Len(np) <= ArchivedStatesMax
        BY <2>3, <2>6, SessionAssumption
      <4> QED
        BY <3>1, <3>2, <3>3, <4>1, <4>2 DEF GoodRecord
  <2>10. Renewed(rec, new, s)
    BY <1>3, <2>1, <2>5, <2>7, <2>8 DEF Renewed, StatesOf, d
  <2>11. ASSUME Len(prev) < ArchivedStatesMax PROVE Keeps(rec, new, s)
    <3>1. n = Len(prev) /\ Range(prev) = {prev[i] : i \in 1..n}
      BY <1>1, <2>3, <2>11, InRange DEF Range
    <3> QED
      BY Zenon, <1>3, <2>1, <2>5, <2>7, <3>1 DEF Keeps, StatesOf, d
  <2> QED
    BY Zenon, <2>9, <2>10, <2>11 DEF new
<1> QED
  BY Zenon, <1>5, <1>6

\* promote_old_session: the i-th archived state, or what became of it, is the
\* current one; as its place is free, nothing is dropped.
LEMMA PromoteOldRenews ==
  ASSUME NEW rec, GoodRecord(rec), NEW i \in DOMAIN rec.previous,
         NEW s \in SessionStates, s.aliceBase = rec.previous[i].aliceBase
  PROVE  /\ GoodRecord(PromoteOldSession(rec, i, s))
         /\ Renewed(rec, PromoteOldSession(rec, i, s), s)
         /\ Keeps(rec, PromoteOldSession(rec, i, s), s)
<1> DEFINE prev == rec.previous
           rest == Without(prev, i)
           mid == [rec EXCEPT !.previous = Without(@, i)]
<1>1. /\ rec.current \in Seq(SessionStates) /\ prev \in Seq(SessionStates)
      /\ Len(rec.current) <= 1 /\ Len(prev) <= ArchivedStatesMax
      /\ DOMAIN prev = 1..Len(prev) /\ i \in 1..Len(prev)
  BY DEF GoodRecord, Records
<1>2. /\ rest \in Seq(SessionStates) /\ Len(rest) = Len(prev) - 1
      /\ \A j \in 1..(Len(prev) - 1) : rest[j] = IF j < i THEN prev[j] ELSE prev[j + 1]
  BY Zenon, <1>1, WithoutFacts
<1>3. mid = [current |-> rec.current, previous |-> rest]
  BY DEF GoodRecord, Records
<1>4. \A j, k \in 1..Len(prev) : prev[j].aliceBase = prev[k].aliceBase => j = k
  BY Zenon, <1>1 DEF GoodRecord
<1> HIDE DEF rest, mid
<1>5. \A j \in 1..(Len(prev) - 1) :
        \E k \in 1..Len(prev) : /\ k # i /\ rest[j] = prev[k]
                                /\ k = IF j < i THEN j ELSE j + 1
  BY <1>1, <1>2
<1>6. Range(rest) = {t \in Range(prev) : t.aliceBase # s.aliceBase}
  <2>1. ASSUME NEW t \in Range(rest) PROVE t \in Range(prev) /\ t.aliceBase # s.aliceBase
    <3>1. PICK j \in 1..(Len(prev) - 1) : rest[j] = t
      BY <1>2, InRange
    <3>2. PICK k \in 1..Len(prev) : k # i /\ rest[j] = prev[k]
      BY Zenon, <1>5
    <3> QED
      BY Zenon, <1>1, <1>4, <3>1, <3>2, InRange
  <2>2. ASSUME NEW t \in Range(prev), t.aliceBase # s.aliceBase PROVE t \in Range(rest)
    <3>1. PICK k \in 1..Len(prev) : prev[k] = t
      BY Zenon, <1>1, InRange
    <3>2. k # i
      BY Zenon, <2>2, <3>1
    <3> DEFINE j == IF k < i THEN k ELSE k - 1
    <3>3. j \in 1..(Len(prev) - 1) /\ (IF j < i THEN j ELSE j + 1) = k
      BY <1>1, <3>2
    <3>4. rest[j] = t
      BY Zenon, <1>2, <3>1, <3>3
    <3> QED
      BY Zenon, <1>2, <3>3, <3>4, InRange
  <2> QED
    BY Zenon, <2>1, <2>2
<1>7. GoodRecord(mid)
  <2>1. \A j, k \in DOMAIN rest : rest[j].aliceBase = rest[k].aliceBase => j = k
    <3>1. DOMAIN rest = 1..(Len(prev) - 1)
      BY <1>2
    <3>2. ASSUME NEW j \in 1..(Len(prev) - 1), NEW k \in 1..(Len(prev) - 1),
                 rest[j].aliceBase = rest[k].aliceBase
          PROVE  j = k
      <4>1. PICK a \in 1..Len(prev) : rest[j] = prev[a] /\ a = IF j < i THEN j ELSE j + 1
        BY Zenon, <1>5
      <4>2. PICK b \in 1..Len(prev) : rest[k] = prev[b] /\ b = IF k < i THEN k ELSE k + 1
        BY Zenon, <1>5
      <4>3. a = b
        BY Zenon, <1>4, <3>2, <4>1, <4>2
      <4> QED
        BY <4>1, <4>2, <4>3
    <3> QED
      BY Zenon, <3>1, <3>2
  <2>2. Len(rest) <= ArchivedStatesMax
    BY <1>1, <1>2, SessionAssumption
  <2>3. mid \in Records
    BY Zenon, <1>1, <1>2, <1>3 DEF Records
  <2> QED
    BY Zenon, <1>1, <1>3, <1>6, <2>1, <2>2, <2>3 DEF GoodRecord
<1>8. \A u \in StatesOf(mid) : u.aliceBase # s.aliceBase
  <2>1. prev[i] \in Range(prev)
    BY Zenon, <1>1, InRange
  <2> QED
    BY Zenon, <1>3, <1>6, <2>1 DEF StatesOf, GoodRecord
<1>9. Len(mid.previous) < ArchivedStatesMax
  BY <1>1, <1>2, <1>3, SessionAssumption
<1>10. /\ GoodRecord(PromoteState(mid, s)) /\ Renewed(mid, PromoteState(mid, s), s)
       /\ Keeps(mid, PromoteState(mid, s), s)
  BY Zenon, <1>7, <1>8, <1>9, PromoteRenews
<1>11. /\ StatesOf(mid) \subseteq StatesOf(rec)
       /\ \A u \in StatesOf(rec) : u.aliceBase # s.aliceBase => u \in StatesOf(mid)
  BY Zenon, <1>3, <1>6 DEF StatesOf
<1>12. PromoteOldSession(rec, i, s) = PromoteState(mid, s)
  BY Zenon DEF PromoteOldSession, mid
<1> QED
  BY Zenon, <1>10, <1>11, <1>12 DEF Renewed, Keeps

\* The current state is replaced by what became of it.
LEMMA ReplaceRenews ==
  ASSUME NEW rec, GoodRecord(rec), rec.current # <<>>,
         NEW s \in SessionStates, s.aliceBase = rec.current[1].aliceBase
  PROVE  /\ GoodRecord([rec EXCEPT !.current = << s >>])
         /\ Renewed(rec, [rec EXCEPT !.current = << s >>], s)
         /\ Keeps(rec, [rec EXCEPT !.current = << s >>], s)
<1> DEFINE new == [rec EXCEPT !.current = << s >>]
           prev == rec.previous
<1>1. /\ rec.current \in Seq(SessionStates) /\ prev \in Seq(SessionStates)
      /\ Len(rec.current) <= 1
  BY Zenon DEF GoodRecord, Records
<1>2. Range(rec.current) = {rec.current[1]}
  BY Zenon, <1>1, OneOrNone
<1>3. \A t \in Range(prev) : t \in SessionStates /\ t.pending = <<>>
                             /\ t.aliceBase # s.aliceBase /\ ClearUnacknowledged(t) = t
  BY <1>1, <1>2, InRange, ClearFacts DEF GoodRecord
<1>4. new = [current |-> << s >>, previous |-> prev]
  BY DEF GoodRecord, Records
<1> HIDE DEF new
<1>5. /\ << s >> \in Seq(SessionStates) /\ Len(<< s >>) = 1 /\ Range(<< s >>) = {s}
  BY RangeSingle
<1>6. GoodRecord(new)
  <2>1. new \in Records
    BY Zenon, <1>1, <1>4, <1>5 DEF Records
  <2> QED
    BY <1>3, <1>4, <1>5, <2>1 DEF GoodRecord
<1>7. Renewed(rec, new, s)
  BY Zenon, <1>3, <1>4 DEF Renewed, StatesOf
<1>8. Keeps(rec, new, s)
  BY Zenon, <1>2, <1>3, <1>4 DEF Keeps, StatesOf
<1> QED
  BY Zenon, <1>6, <1>7, <1>8 DEF new

\* Two renewals of the state of one base key are one.
LEMMA RenewedTwice ==
  ASSUME NEW rec, NEW mid, NEW new, NEW s, NEW t, t.aliceBase = s.aliceBase,
         GoodRecord(rec), GoodRecord(mid), Renewed(rec, mid, s), Renewed(mid, new, t)
  PROVE  /\ Renewed(rec, new, t)
         /\ Keeps(rec, mid, s) /\ Keeps(mid, new, t) => Keeps(rec, new, t)
<1>1. StatesOf(rec) \subseteq SessionStates
  BY Zenon, StatesAreTyped
<1>2. Range(mid.current) = {s} /\ StatesOf(mid) = {s} \cup Range(mid.previous)
  BY Zenon, RangeSingle DEF Renewed, StatesOf
<1>3. \A u \in StatesOf(rec) :
        /\ ClearUnacknowledged(ClearUnacknowledged(u)) = ClearUnacknowledged(u)
        /\ ClearUnacknowledged(u).aliceBase = u.aliceBase
  BY Zenon, <1>1, ClearFacts
<1>4. Renewed(rec, new, t)
  <2>1. ASSUME NEW x \in Range(new.previous)
        PROVE  \E u \in StatesOf(rec) : u.aliceBase # t.aliceBase /\ x = ClearUnacknowledged(u)
    <3>1. PICK v \in StatesOf(mid) : v.aliceBase # t.aliceBase /\ x = ClearUnacknowledged(v)
      BY Zenon DEF Renewed
    <3>2. v \in Range(mid.previous)
      BY Zenon, <1>2, <3>1
    <3>3. PICK u \in StatesOf(rec) : u.aliceBase # s.aliceBase /\ v = ClearUnacknowledged(u)
      BY Zenon, <3>2 DEF Renewed
    <3> QED
      BY Zenon, <1>3, <3>1, <3>3
  <2> QED
    BY Zenon, <2>1 DEF Renewed
<1>5. ASSUME Keeps(rec, mid, s), Keeps(mid, new, t) PROVE Keeps(rec, new, t)
  BY Zenon, <1>2, <1>3, <1>5 DEF Keeps
<1> QED
  BY Zenon, <1>4, <1>5

-----------------------------------------------------------------------------
(* What opening a message does to a chain and to a state *)

\* MAX_MESSAGE_KEYS is not reached by keys below n.
NothingTrimmed(n) == \A S \in SUBSET (0 .. n - 1) : Newest(S) = S

\* get_or_create_message_key: its result, and the chain after it.
LEMMA KeyResults ==
  ASSUME NEW c \in Chains, \A k \in c.keys : k < c.index, NEW n \in Nat,
         NEW got, got = GetOrCreateMessageKey(c, n)
  PROVE  /\ got.chain \in Chains
         /\ got.chain.ratchetKey = c.ratchetKey /\ got.chain.chainKey = c.chainKey
         /\ \A k \in got.chain.keys : k < got.chain.index
         /\ got.result = "duplicate" <=> n < c.index /\ n \notin c.keys
         /\ got.result = "ok" <=> \/ n < c.index /\ n \in c.keys
                                  \/ n >= c.index /\ n - c.index <= MaxForwardJumps
         /\ got.result \in {"ok", "duplicate", "invalid"}
<1>1. c.index \in Nat /\ c.keys \in SUBSET Nat
  BY Zenon DEF Chains
<1>2. CASE n < c.index /\ n \in c.keys
  <2>1. got = [result |-> "ok", chain |-> TakeStored(c, n)]
    BY <1>1, <1>2 DEF GetOrCreateMessageKey
  <2>2. /\ TakeStored(c, n) \in Chains
        /\ TakeStored(c, n).ratchetKey = c.ratchetKey /\ TakeStored(c, n).chainKey = c.chainKey
        /\ TakeStored(c, n).index = c.index /\ TakeStored(c, n).keys \subseteq c.keys
    BY Zenon DEF TakeStored, Chains
  <2> QED
    BY <1>1, <1>2, <2>1, <2>2
<1>3. CASE n < c.index /\ n \notin c.keys
  <2>1. got = [result |-> "duplicate", chain |-> c]
    BY <1>1, <1>3 DEF GetOrCreateMessageKey
  <2> QED
    BY <1>1, <1>3, <2>1
<1>4. CASE n >= c.index /\ n - c.index > MaxForwardJumps
  <2>1. got = [result |-> "invalid", chain |-> c]
    BY <1>1, <1>4 DEF GetOrCreateMessageKey
  <2> QED
    BY <1>1, <1>4, <2>1, ChainAssumption
<1>5. CASE n >= c.index /\ ~(n - c.index > MaxForwardJumps)
  <2>1. got = [result |-> "ok", chain |-> SkipTo(c, n)]
    BY <1>1, <1>5, ChainAssumption DEF GetOrCreateMessageKey
  <2> DEFINE S == Newest(c.keys \cup (c.index .. n - 1))
  <2>2. S \in SUBSET Nat /\ \A k \in S : k < n + 1
    BY <1>1, <1>5 DEF Newest
  <2>3. SkipTo(c, n) = [c EXCEPT !.keys = S, !.index = n + 1]
    BY Zenon DEF SkipTo
  <2> HIDE DEF S
  <2>4. /\ SkipTo(c, n) \in Chains
        /\ SkipTo(c, n).ratchetKey = c.ratchetKey /\ SkipTo(c, n).chainKey = c.chainKey
        /\ SkipTo(c, n).index = n + 1 /\ SkipTo(c, n).keys = S
    <3>1. n + 1 \in Nat
      OBVIOUS
    <3>2. SkipTo(c, n) \in Chains
      BY Zenon, <2>2, <2>3, <3>1 DEF Chains
    <3> QED
      BY Zenon, <2>3, <3>2 DEF Chains
  <2>5. got.chain = SkipTo(c, n) /\ got.result = "ok"
    BY <2>1
  <2>6. ~(n < c.index) /\ n - c.index <= MaxForwardJumps
    BY <1>1, <1>5, ChainAssumption
  <2> QED
    BY Zenon, <1>5, <2>2, <2>4, <2>5, <2>6
<1> QED
  BY <1>1, <1>2, <1>3, <1>4, <1>5

\* A message key is used up when it is handed out; the others that were there
\* stay, unless they are trimmed.
LEMMA KeyUsedUp ==
  ASSUME NEW c \in Chains, \A k \in c.keys : k < c.index, NEW n \in Nat,
         NEW got, got = GetOrCreateMessageKey(c, n), got.result = "ok"
  PROVE  /\ n < got.chain.index /\ n \notin got.chain.keys
         /\ c.index <= got.chain.index
         /\ got.chain.index <= c.index \/ got.chain.index = n + 1
         /\ \A k \in got.chain.keys : k \in c.keys \/ k >= c.index
         /\ NothingTrimmed(n) => \A k \in Nat :
              /\ k # n /\ (k >= c.index \/ k \in c.keys)
              => (k >= got.chain.index \/ k \in got.chain.keys)
<1>1. c.index \in Nat /\ c.keys \in SUBSET Nat
  BY Zenon DEF Chains
<1>2. CASE n < c.index /\ n \in c.keys
  <2>1. got = [result |-> "ok", chain |-> TakeStored(c, n)]
    BY <1>1, <1>2 DEF GetOrCreateMessageKey
  <2>2. TakeStored(c, n).index = c.index /\ TakeStored(c, n).keys = c.keys \ {n}
    BY Zenon DEF TakeStored, Chains
  <2> QED
    BY <1>1, <1>2, <2>1, <2>2
<1>3. CASE n >= c.index
  <2>1. ~(n - c.index > MaxForwardJumps)
    BY <1>1, <1>3, ChainAssumption, KeyResults
  <2>2. got = [result |-> "ok", chain |-> SkipTo(c, n)]
    BY <1>1, <1>3, <2>1, ChainAssumption DEF GetOrCreateMessageKey
  <2> DEFINE all == c.keys \cup (c.index .. n - 1)
             S == Newest(all)
  <2>3. S \subseteq all /\ all \in SUBSET Nat /\ \A k \in all : k < n
    BY <1>1, <1>3 DEF Newest
  <2>4. NothingTrimmed(n) => S = all
    <3>1. all \in SUBSET (0 .. n - 1)
      BY <2>3
    <3> HIDE DEF all
    <3> QED
      BY Zenon, <3>1 DEF NothingTrimmed
  <2>5. SkipTo(c, n).index = n + 1 /\ SkipTo(c, n).keys = S
    BY Zenon DEF SkipTo, Chains
  <2> HIDE DEF S
  <2> QED
    BY <1>1, <1>3, <2>2, <2>3, <2>4, <2>5
<1> QED
  BY Zenon, <1>1, <1>2, <1>3, KeyResults

\* set_receiver_chain_key and set_message_keys: one chain is replaced.
LEMMA ReplaceChain ==
  ASSUME NEW rs \in Seq(Chains), DistinctKeys(rs), NEW i \in DOMAIN rs,
         NEW d \in Chains, d.ratchetKey = rs[i].ratchetKey
  PROVE  /\ [rs EXCEPT ![i] = d] \in Seq(Chains)
         /\ Len([rs EXCEPT ![i] = d]) = Len(rs)
         /\ DistinctKeys([rs EXCEPT ![i] = d])
         /\ Range([rs EXCEPT ![i] = d]) =
              {d} \cup {e \in Range(rs) : e.ratchetKey # d.ratchetKey}
<1> DEFINE new == [rs EXCEPT ![i] = d]
<1>1. i \in 1..Len(rs) /\ DOMAIN rs = 1..Len(rs)
  OBVIOUS
<1>2. /\ new \in Seq(Chains) /\ Len(new) = Len(rs)
      /\ \A j \in 1..Len(rs) : new[j] = IF j = i THEN d ELSE rs[j]
  BY <1>1
<1> HIDE DEF new
<1>3. DOMAIN new = 1..Len(rs)
  BY <1>2
<1>4. DistinctKeys(new)
  BY Zenon, <1>1, <1>2, <1>3 DEF DistinctKeys
<1>5. Range(new) = {d} \cup {e \in Range(rs) : e.ratchetKey # d.ratchetKey}
  BY <1>1, <1>2, <1>3 DEF Range, DistinctKeys
<1> QED
  BY Zenon, <1>2, <1>4, <1>5 DEF new

\* add_receiver_chain: the new chain is the last one, and another goes only when
\* MAX_RECEIVER_CHAINS is reached.
LEMMA AddChain ==
  ASSUME NEW rs \in Seq(Chains), DistinctKeys(rs), Len(rs) <= MaxReceiverChains,
         NEW c \in Chains, \A e \in Range(rs) : e.ratchetKey # c.ratchetKey,
         NEW new, new = AddReceiverChain(rs, c)
  PROVE  /\ new \in Seq(Chains) /\ Len(new) \in 1..MaxReceiverChains
         /\ DistinctKeys(new)
         /\ new[Len(new)] = c
         /\ Range(new) \subseteq Range(rs) \cup {c}
         /\ Len(rs) < MaxReceiverChains => Range(new) = Range(rs) \cup {c}
<1> DEFINE all == Append(rs, c)
           n == Len(rs)
<1>1. /\ all \in Seq(Chains) /\ Len(all) = n + 1 /\ all # <<>>
      /\ \A i \in 1..n : all[i] = rs[i]
      /\ all[n + 1] = c
  OBVIOUS
<1>2. n \in Nat /\ n <= MaxReceiverChains /\ DOMAIN rs = 1..n
      /\ MaxReceiverChains \in Nat /\ MaxReceiverChains >= 1
  BY SessionAssumption
<1>3. new = IF Len(all) > MaxReceiverChains THEN Tail(all) ELSE all
  BY Zenon DEF AddReceiverChain
<1> HIDE DEF all
<1>4. \A i \in 1..n : rs[i] \in Range(rs)
  BY Zenon, <1>2 DEF Range
<1>5. \A i, j \in 1..(n + 1) : all[i].ratchetKey = all[j].ratchetKey => i = j
  <2> SUFFICES ASSUME NEW i \in 1..(n + 1), NEW j \in 1..(n + 1),
                      all[i].ratchetKey = all[j].ratchetKey
               PROVE  i = j
    BY Zenon
  <2>1. CASE i \in 1..n /\ j \in 1..n
    BY Zenon, <1>1, <1>2, <2>1 DEF DistinctKeys
  <2>2. CASE i \in 1..n /\ j = n + 1
    BY Zenon, <1>1, <1>4, <2>2
  <2>3. CASE i = n + 1 /\ j \in 1..n
    BY Zenon, <1>1, <1>4, <2>3
  <2>4. CASE i = n + 1 /\ j = n + 1
    BY Zenon, <2>4
  <2> QED
    BY <1>2, <2>1, <2>2, <2>3, <2>4
<1>6. Range(all) = Range(rs) \cup {c}
  <2>1. DOMAIN all = 1..(n + 1)
    BY <1>1, <1>2
  <2>2. \A i \in 1..(n + 1) : all[i] \in Range(rs) \cup {c}
    BY <1>1, <1>2, <1>4
  <2>3. \A i \in 1..n : i \in 1..(n + 1) /\ all[i] = rs[i]
    BY <1>1, <1>2
  <2>4. n + 1 \in 1..(n + 1)
    BY <1>2
  <2> QED
    BY <1>1, <1>2, <2>1, <2>2, <2>3, <2>4 DEF Range
<1>7. CASE n < MaxReceiverChains
  <2>1. new = all
    BY <1>1, <1>2, <1>3, <1>7
  <2>2. Len(new) = n + 1 /\ Len(new) \in 1..MaxReceiverChains /\ DOMAIN new = 1..(n + 1)
    BY <1>1, <1>2, <1>7, <2>1
  <2>3. DistinctKeys(new)
    BY Zenon, <1>5, <2>1, <2>2 DEF DistinctKeys
  <2> QED
    BY Zenon, <1>1, <1>6, <2>1, <2>2, <2>3
<1>8. CASE n = MaxReceiverChains
  <2>1. new = Tail(all)
    BY <1>1, <1>2, <1>3, <1>8
  <2>2. /\ new \in Seq(Chains) /\ Len(new) = n
        /\ \A i \in 1..n : new[i] = all[i + 1]
    <3>1. /\ Tail(all) \in Seq(Chains) /\ Len(Tail(all)) = Len(all) - 1
          /\ \A i \in 1..Len(Tail(all)) : Tail(all)[i] = all[i + 1]
      BY <1>1
    <3>2. Len(Tail(all)) = n
      BY <1>1, <1>2, <3>1
    <3> QED
      BY Zenon, <2>1, <3>1, <3>2
  <2>3. DOMAIN new = 1..n /\ \A i \in 1..n : i + 1 \in 1..(n + 1)
    BY <1>2, <2>2
  <2>4. DistinctKeys(new)
    <3>1. ASSUME NEW i \in 1..n, NEW j \in 1..n, new[i].ratchetKey = new[j].ratchetKey
          PROVE  i = j
      <4>1. i + 1 = j + 1
        BY <1>5, <2>2, <2>3, <3>1
      <4> QED
        BY <4>1
    <3> QED
      BY Zenon, <2>3, <3>1 DEF DistinctKeys
  <2>5. Range(new) \subseteq Range(all)
    <3>1. DOMAIN all = 1..(n + 1)
      BY <1>1, <1>2
    <3> QED
      BY Zenon, <2>2, <2>3, <3>1 DEF Range
  <2>6. new[Len(new)] = c /\ Len(new) \in 1..MaxReceiverChains
    BY <1>1, <1>2, <1>8, <2>2
  <2> QED
    BY <1>2, <1>6, <1>8, <2>2, <2>4, <2>5, <2>6
<1>9. \A a, b \in Nat : a <= b => a < b \/ a = b
  OBVIOUS
<1> QED
  BY Zenon, <1>2, <1>7, <1>8, <1>9

\* The chain that a state looks a message up in: the one it has for the message's
\* ratchet key, or the one that turning the ratchet makes.
TriedChain(s, msg) ==
  IF Knows(s, msg.ratchetKey)
  THEN CHOOSE c \in ChainsOf(s) : c.ratchetKey = msg.ratchetKey
  ELSE ReceiverChain(msg.ratchetKey,
                     CreateChain(s.rootKey, msg.ratchetKey, s.senderKey))

\* What the chain gives for the message.
Got(s, msg) == GetOrCreateMessageKey(TriedChain(s, msg), msg.counter)

\* Knows, and the chain it finds, by the set of chains.
LEMMA KnownChain ==
  ASSUME NEW s, GoodState(s)
  PROVE  /\ ChainsOf(s) \subseteq Chains
         /\ \A c, d \in ChainsOf(s) : c.ratchetKey = d.ratchetKey => c = d
         /\ \A key : Knows(s, key) <=> \E c \in ChainsOf(s) : c.ratchetKey = key
         /\ \A msg : Knows(s, msg.ratchetKey) =>
              /\ TriedChain(s, msg) \in ChainsOf(s)
              /\ TriedChain(s, msg).ratchetKey = msg.ratchetKey
<1>1. s.receivers \in Seq(Chains)
  BY Zenon DEF GoodState, SessionStates
<1>2. ChainsOf(s) \subseteq Chains
  BY Zenon, <1>1, InRange DEF ChainsOf
<1>3. \A c, d \in ChainsOf(s) : c.ratchetKey = d.ratchetKey => c = d
  BY Zenon DEF GoodState, ChainsOf, Range, DistinctKeys
<1>4. \A key : Knows(s, key) <=> \E c \in ChainsOf(s) : c.ratchetKey = key
  BY Zenon DEF Knows, ChainsOf, Range
<1>5. ASSUME NEW msg, Knows(s, msg.ratchetKey)
      PROVE  /\ TriedChain(s, msg) \in ChainsOf(s)
             /\ TriedChain(s, msg).ratchetKey = msg.ratchetKey
  BY Zenon, <1>4, <1>5 DEF TriedChain
<1> QED
  BY Zenon, <1>2, <1>3, <1>4, <1>5

\* The agreement that a ratchet step adds to a key.
LEMMA CreateChainType ==
  ASSUME NEW root \in ChainKeys, NEW a \in Nat, NEW b \in Nat
  PROVE  /\ CreateChain(root, a, b) \in ChainKeys
         /\ CreateChain(root, a, b) = CreateChain(root, b, a)
         /\ Len(CreateChain(root, a, b)) = Len(root) + 1
         /\ CreateChain(root, a, b)[Len(root) + 1] = {a, b}
         /\ \A i \in 1..Len(root) : CreateChain(root, a, b)[i] = root[i]
<1>1. {a, b} \in SUBSET Nat /\ {a, b} = {b, a}
  BY Zenon
<1> QED
  BY <1>1 DEF CreateChain, ChainKeys

LEMMA TriedChainType ==
  ASSUME NEW s, GoodState(s), NEW msg \in Messages
  PROVE  /\ TriedChain(s, msg) \in Chains
         /\ TriedChain(s, msg).ratchetKey = msg.ratchetKey
         /\ \A k \in TriedChain(s, msg).keys : k < TriedChain(s, msg).index
         /\ ~Knows(s, msg.ratchetKey) =>
              /\ TriedChain(s, msg).chainKey =
                   CreateChain(s.rootKey, msg.ratchetKey, s.senderKey)
              /\ TriedChain(s, msg).index = 0 /\ TriedChain(s, msg).keys = {}
<1>1. CASE Knows(s, msg.ratchetKey)
  BY Zenon, <1>1, KnownChain DEF GoodState
<1>2. CASE ~Knows(s, msg.ratchetKey)
  <2>1. msg.ratchetKey \in Nat /\ s.rootKey \in ChainKeys /\ s.senderKey \in Nat
    BY Zenon DEF Messages, GoodState, SessionStates
  <2> DEFINE key == CreateChain(s.rootKey, msg.ratchetKey, s.senderKey)
  <2>2. key \in ChainKeys
    BY Zenon, <2>1, CreateChainType
  <2>3. TriedChain(s, msg) = [ratchetKey |-> msg.ratchetKey, chainKey |-> key,
                              index |-> 0, keys |-> {}]
    BY Zenon, <1>2 DEF TriedChain, ReceiverChain
  <2> HIDE DEF key
  <2>4. TriedChain(s, msg) \in Chains
    BY <2>1, <2>2, <2>3 DEF Chains
  <2> QED
    BY <1>2, <2>3, <2>4 DEF key
<1> QED
  BY Zenon, <1>1, <1>2

\* get_or_create_chain_key: the state has the chain now; if it had to be made, the
\* sending side has turned to the fresh key.
LEMMA Turned ==
  ASSUME NEW s, GoodState(s), NEW msg \in Messages, NEW fresh \in Nat,
         NEW turned, turned = GetOrCreateChain(s, msg.ratchetKey, fresh)
  PROVE  /\ turned \in SessionStates /\ DistinctKeys(turned.receivers)
         /\ Len(turned.receivers) <= MaxReceiverChains
         /\ TriedChain(s, msg) \in ChainsOf(turned)
         /\ ChainsOf(turned) \subseteq ChainsOf(s) \cup {TriedChain(s, msg)}
         /\ turned.aliceBase = s.aliceBase
         /\ Knows(s, msg.ratchetKey) => turned = s
         /\ ~Knows(s, msg.ratchetKey) =>
              /\ turned.senderKey = fresh /\ turned.senderIndex = 0
              /\ turned.senderChain =
                   CreateChain(TriedChain(s, msg).chainKey, msg.ratchetKey, fresh)
              /\ turned.rootKey = turned.senderChain
              /\ Len(s.receivers) < MaxReceiverChains => ChainsOf(s) \subseteq ChainsOf(turned)
<1> DEFINE key == msg.ratchetKey
           c == TriedChain(s, msg)
<1>1. key \in Nat
  BY Zenon DEF Messages
<1>2. s \in SessionStates /\ s.receivers \in Seq(Chains) /\ DistinctKeys(s.receivers)
      /\ Len(s.receivers) <= MaxReceiverChains
      /\ s.rootKey \in ChainKeys /\ s.senderKey \in Nat
  BY Zenon DEF GoodState, SessionStates
<1>3. c \in Chains /\ c.ratchetKey = key
  BY Zenon, TriedChainType
<1>4. CASE Knows(s, key)
  <2>1. turned = s
    BY Zenon, <1>4 DEF GetOrCreateChain
  <2>2. c \in ChainsOf(s)
    BY Zenon, <1>4, KnownChain
  <2> QED
    BY Zenon, <1>2, <1>4, <2>1, <2>2
<1>5. CASE ~Knows(s, key)
  <2> DEFINE receiving == CreateChain(s.rootKey, key, s.senderKey)
             sending == CreateChain(receiving, key, fresh)
             rs == AddReceiverChain(s.receivers, c)
  <2>1. receiving \in ChainKeys /\ sending \in ChainKeys
    BY Zenon, <1>1, <1>2, CreateChainType
  <2>2. c = ReceiverChain(key, receiving) /\ c.chainKey = receiving
    BY Zenon, <1>5, TriedChainType DEF TriedChain
  <2>3. \A e \in Range(s.receivers) : e.ratchetKey # c.ratchetKey
    BY Zenon, <1>3, <1>5, KnownChain DEF ChainsOf
  <2> HIDE DEF c
  <2>4. /\ rs \in Seq(Chains) /\ Len(rs) \in 1..MaxReceiverChains
        /\ DistinctKeys(rs)
        /\ rs[Len(rs)] = c
        /\ Range(rs) \subseteq Range(s.receivers) \cup {c}
        /\ Len(s.receivers) < MaxReceiverChains => Range(rs) = Range(s.receivers) \cup {c}
    BY Zenon, <1>2, <1>3, <2>3, AddChain
  <2>5. turned = [s EXCEPT !.rootKey = sending, !.receivers = rs, !.senderKey = fresh,
                           !.senderChain = sending, !.senderIndex = 0]
    BY Zenon, <1>5, <2>2 DEF GetOrCreateChain
  <2> HIDE DEF receiving, sending, rs
  <2>6. c \in Range(rs) /\ Len(rs) <= MaxReceiverChains
    BY <2>4, InRange, SessionAssumption
  <2>7. turned \in SessionStates
    <3>1. turned = [aliceBase |-> s.aliceBase, rootKey |-> sending, senderKey |-> fresh,
                    senderChain |-> sending, senderIndex |-> 0, receivers |-> rs,
                    pending |-> s.pending]
      BY Zenon, <1>2, <2>5 DEF SessionStates
    <3>2. s.aliceBase \in Nat /\ s.pending \in Seq(PreKeys) /\ 0 \in Nat
      BY Zenon, <1>2 DEF SessionStates
    <3>3. sending \in ChainKeys /\ rs \in Seq(Chains) /\ fresh \in Nat
      BY Zenon, <2>1, <2>4
    <3> QED
      BY <3>1, <3>2, <3>3 DEF SessionStates
  <2>8. /\ turned.rootKey = sending /\ turned.receivers = rs /\ turned.senderKey = fresh
        /\ turned.senderChain = sending /\ turned.senderIndex = 0
        /\ turned.aliceBase = s.aliceBase
    BY Zenon, <1>2, <2>5 DEF SessionStates
  <2>9. sending = CreateChain(c.chainKey, key, fresh)
    BY Zenon, <2>2 DEF sending
  <2> QED
    BY Zenon, <1>5, <2>4, <2>6, <2>7, <2>8, <2>9 DEF ChainsOf, c
<1> QED
  BY Zenon, <1>4, <1>5

\* decrypt_message_with_state, by the sets of chains.
Outcome(s, msg, fresh, r) ==
  /\ r.result = IF Got(s, msg).result = "ok" /\ TriedChain(s, msg).chainKey # msg.chainKey
                THEN "invalid" ELSE Got(s, msg).result
  /\ GoodState(r.state)
  /\ r.state.aliceBase = s.aliceBase /\ r.state.pending = <<>>
  /\ Got(s, msg).chain \in ChainsOf(r.state)
  /\ \A e \in ChainsOf(r.state) :
       e = Got(s, msg).chain \/ (e \in ChainsOf(s) /\ e.ratchetKey # msg.ratchetKey)
  /\ Knows(s, msg.ratchetKey) =>
       /\ r.state.rootKey = s.rootKey /\ r.state.senderKey = s.senderKey
       /\ r.state.senderChain = s.senderChain /\ r.state.senderIndex = s.senderIndex
  /\ ~Knows(s, msg.ratchetKey) =>
       /\ r.state.senderKey = fresh /\ r.state.senderIndex = 0
       /\ r.state.senderChain = CreateChain(TriedChain(s, msg).chainKey, msg.ratchetKey, fresh)
       /\ r.state.rootKey = r.state.senderChain
  /\ Knows(s, msg.ratchetKey) \/ Len(s.receivers) < MaxReceiverChains =>
       \A e \in ChainsOf(s) : e.ratchetKey # msg.ratchetKey => e \in ChainsOf(r.state)

LEMMA DecryptOutcome ==
  ASSUME NEW s, GoodState(s), NEW msg \in Messages, NEW fresh \in Nat,
         NEW r, r = DecryptWithState(s, msg, fresh)
  PROVE  Outcome(s, msg, fresh, r)
<1> DEFINE key == msg.ratchetKey
           turned == GetOrCreateChain(s, key, fresh)
           i == CHOOSE j \in DOMAIN turned.receivers : turned.receivers[j].ratchetKey = key
           c == TriedChain(s, msg)
           got == Got(s, msg)
           d == got.chain
           rs == [turned.receivers EXCEPT ![i] = d]
<1>1. msg.counter \in Nat /\ msg.chainKey \in ChainKeys
  BY Zenon DEF Messages
<1>2. c \in Chains /\ c.ratchetKey = key /\ \A k \in c.keys : k < c.index
  BY Zenon, TriedChainType
<1>3. /\ d \in Chains /\ d.ratchetKey = key /\ d.chainKey = c.chainKey
      /\ \A k \in d.keys : k < d.index
  <2>1. got = GetOrCreateMessageKey(c, msg.counter)
    BY Zenon DEF Got
  <2> HIDE DEF c, got
  <2> QED
    BY <1>1, <1>2, <2>1, KeyResults
<1>4. /\ turned \in SessionStates /\ DistinctKeys(turned.receivers)
      /\ Len(turned.receivers) <= MaxReceiverChains
      /\ c \in ChainsOf(turned) /\ ChainsOf(turned) \subseteq ChainsOf(s) \cup {c}
      /\ turned.aliceBase = s.aliceBase
      /\ Knows(s, key) => turned = s
      /\ ~Knows(s, key) =>
           /\ turned.senderKey = fresh /\ turned.senderIndex = 0
           /\ turned.senderChain = CreateChain(c.chainKey, key, fresh)
           /\ turned.rootKey = turned.senderChain
           /\ Len(s.receivers) < MaxReceiverChains => ChainsOf(s) \subseteq ChainsOf(turned)
  BY Turned
<1>5. /\ turned.receivers \in Seq(Chains)
      /\ \A e \in ChainsOf(s) : \A k \in e.keys : k < e.index
  BY Zenon, <1>4 DEF SessionStates, GoodState
<1> HIDE DEF turned, c, d, got, key
<1>6. i \in DOMAIN turned.receivers /\ turned.receivers[i] = c
  <2>1. PICK j \in DOMAIN turned.receivers : turned.receivers[j] = c
    BY Zenon, <1>4 DEF ChainsOf, Range
  <2>2. i \in DOMAIN turned.receivers /\ turned.receivers[i].ratchetKey = key
    BY Zenon, <1>2, <2>1
  <2> QED
    BY Zenon, <1>2, <1>4, <2>1, <2>2 DEF DistinctKeys
<1>7. r = [result |-> IF got.result = "ok" /\ ~(c.chainKey = msg.chainKey)
                      THEN "invalid" ELSE got.result,
           state |-> ClearUnacknowledged([turned EXCEPT !.receivers[i] = d])]
  <2>1. got = GetOrCreateMessageKey(turned.receivers[i], msg.counter)
    BY Zenon, <1>6 DEF got, Got, c
  <2> QED
    BY <1>6, <2>1 DEF DecryptWithState, turned, key, d
<1> HIDE DEF i
<1>8. /\ rs \in Seq(Chains) /\ Len(rs) = Len(turned.receivers) /\ DistinctKeys(rs)
      /\ Range(rs) = {d} \cup {e \in Range(turned.receivers) : e.ratchetKey # key}
  BY <1>2, <1>3, <1>4, <1>5, <1>6, ReplaceChain
<1> DEFINE made == [turned EXCEPT !.receivers[i] = d]
<1>9. made = [turned EXCEPT !.receivers = rs]
  BY Zenon, <1>4 DEF SessionStates
<1> HIDE DEF rs, made
<1>10. /\ made \in SessionStates /\ made.receivers = rs
       /\ made.aliceBase = turned.aliceBase /\ made.rootKey = turned.rootKey
       /\ made.senderKey = turned.senderKey /\ made.senderChain = turned.senderChain
       /\ made.senderIndex = turned.senderIndex
  BY Zenon, <1>4, <1>8, <1>9 DEF SessionStates
<1>11. /\ r.state \in SessionStates /\ r.state.receivers = rs /\ r.state.pending = <<>>
       /\ r.state.aliceBase = s.aliceBase /\ r.state.rootKey = turned.rootKey
       /\ r.state.senderKey = turned.senderKey /\ r.state.senderChain = turned.senderChain
       /\ r.state.senderIndex = turned.senderIndex
  <2>1. r.state = ClearUnacknowledged(made)
    BY <1>7 DEF made
  <2> QED
    BY <1>4, <1>10, <2>1, ClearFacts
<1>12. /\ ChainsOf(r.state) = {d} \cup {e \in ChainsOf(turned) : e.ratchetKey # key}
  BY Zenon, <1>8, <1>11 DEF ChainsOf
<1>13. \A e \in ChainsOf(r.state) : e = d \/ (e \in ChainsOf(s) /\ e.ratchetKey # key)
  BY Zenon, <1>2, <1>4, <1>12
<1>14. GoodState(r.state)
  <2>1. \A e \in ChainsOf(r.state) : \A k \in e.keys : k < e.index
    BY Zenon, <1>3, <1>5, <1>13
  <2> QED
    BY Zenon, <1>4, <1>8, <1>11, <2>1 DEF GoodState
<1>15. r.result = IF got.result = "ok" /\ c.chainKey # msg.chainKey THEN "invalid"
                  ELSE got.result
  BY <1>7
<1>16. ASSUME Knows(s, key) \/ Len(s.receivers) < MaxReceiverChains
       PROVE  \A e \in ChainsOf(s) : e.ratchetKey # key => e \in ChainsOf(r.state)
  BY Zenon, <1>4, <1>12, <1>16
<1> QED
  BY Zenon, <1>4, <1>11, <1>12, <1>13, <1>14, <1>15, <1>16 DEF Outcome, c, d, got, key

-----------------------------------------------------------------------------
(* What decrypting a message does to a record *)

\* The naturals are well ordered: what FirstOf needs.
WellOrdered == \A S \in SUBSET Nat : S # {} => \E i \in S : \A j \in S : i <= j

\* A nonempty set of naturals has a first element.
LEMMA FirstIsLeast ==
  ASSUME WellOrdered, NEW S \in SUBSET Nat, S # {}
  PROVE  FirstOf(S) \in S /\ \A j \in S : FirstOf(S) <= j
<1>1. \E i \in S : \A j \in S : i <= j
  BY Zenon DEF WellOrdered
<1> QED
  BY Zenon, <1>1 DEF FirstOf

\* The order in which a record's states are tried.
LEMMA FlatFacts ==
  ASSUME NEW rec, GoodRecord(rec), NEW flat, flat = rec.current \o rec.previous
  PROVE  /\ rec.current \in Seq(SessionStates) /\ rec.previous \in Seq(SessionStates)
         /\ DOMAIN flat = 1..(Len(rec.current) + Len(rec.previous))
         /\ \A i \in DOMAIN flat :
              /\ i <= Len(rec.current) => i \in DOMAIN rec.current /\ flat[i] = rec.current[i]
              /\ ~(i <= Len(rec.current)) => /\ i - Len(rec.current) \in DOMAIN rec.previous
                                             /\ flat[i] = rec.previous[i - Len(rec.current)]
         /\ Range(flat) = StatesOf(rec)
<1>1. rec.current \in Seq(SessionStates) /\ rec.previous \in Seq(SessionStates)
  BY Zenon DEF GoodRecord, Records
<1> DEFINE a == rec.current
           b == rec.previous
           m == Len(a)
           n == Len(b)
<1>2. m \in Nat /\ n \in Nat /\ DOMAIN a = 1..m /\ DOMAIN b = 1..n
  BY <1>1
<1>3. /\ flat \in Seq(SessionStates) /\ Len(flat) = m + n
      /\ \A i \in 1..(m + n) : flat[i] = IF i <= m THEN a[i] ELSE b[i - m]
  BY Zenon, <1>1, JoinFacts
<1>4. DOMAIN flat = 1..(m + n)
  BY <1>3
<1> HIDE DEF a, b, m, n
<1>a. ASSUME NEW i \in 1..(m + n), i <= m PROVE i \in 1..m /\ flat[i] = a[i]
  <2>1. flat[i] = IF i <= m THEN a[i] ELSE b[i - m]
    BY Zenon, <1>3
  <2>2. i \in 1..m
    BY <1>2, <1>a
  <2> QED
    BY Zenon, <1>a, <2>1, <2>2
<1>b. ASSUME NEW i \in 1..(m + n), ~(i <= m) PROVE i - m \in 1..n /\ flat[i] = b[i - m]
  <2>1. flat[i] = IF i <= m THEN a[i] ELSE b[i - m]
    BY Zenon, <1>3
  <2>2. i - m \in 1..n
    BY <1>2, <1>b
  <2> QED
    BY Zenon, <1>b, <2>1, <2>2
<1>5. ASSUME NEW i \in 1..(m + n)
      PROVE  /\ i <= m => i \in 1..m /\ flat[i] = a[i]
             /\ ~(i <= m) => i - m \in 1..n /\ flat[i] = b[i - m]
  BY Zenon, <1>a, <1>b
<1>6. Range(flat) = Range(a) \cup Range(b)
  <2>1. Range(flat) \subseteq Range(a) \cup Range(b)
    BY Zenon, <1>2, <1>4, <1>5 DEF Range
  <2>2. ASSUME NEW i \in 1..m PROVE a[i] \in Range(flat)
    <3>1. i \in 1..(m + n) /\ i <= m
      BY <1>2
    <3>2. flat[i] = a[i]
      BY Zenon, <1>a, <3>1
    <3> QED
      BY Zenon, <1>4, <3>1, <3>2 DEF Range
  <2>3. ASSUME NEW i \in 1..n PROVE b[i] \in Range(flat)
    <3>1. i + m \in 1..(m + n) /\ flat[i + m] = b[i]
      <4>1. i + m \in 1..(m + n) /\ ~(i + m <= m) /\ i + m - m = i
        BY <1>2
      <4> DEFINE k == i + m
      <4>2. k \in 1..(m + n) /\ ~(k <= m) /\ k - m = i
        BY <1>2
      <4> HIDE DEF k
      <4>3. flat[k] = b[i]
        BY Zenon, <1>b, <4>2
      <4> QED
        BY Zenon, <4>2, <4>3 DEF k
    <3> QED
      BY Zenon, <1>4, <3>1 DEF Range
  <2>4. Range(a) \subseteq Range(flat)
    BY Zenon, <1>2, <2>2 DEF Range
  <2>5. Range(b) \subseteq Range(flat)
    BY Zenon, <1>2, <2>3 DEF Range
  <2> QED
    BY Zenon, <2>1, <2>4, <2>5
<1> QED
  BY Zenon, <1>1, <1>2, <1>4, <1>5, <1>6 DEF a, b, m, n, StatesOf

\* promote_matching_session looks for the base key in all states.
LEMMA MatchesFacts ==
  ASSUME NEW rec, GoodRecord(rec), NEW base
  PROVE  MatchesSession(rec, base) <=> \E u \in StatesOf(rec) : u.aliceBase = base
<1> DEFINE flat == rec.current \o rec.previous
<1>1. Range(flat) = StatesOf(rec)
  BY Zenon, FlatFacts
<1> QED
  BY Zenon, <1>1 DEF MatchesSession, HasBase, Range

LEMMA ClearedIsGood ==
  ASSUME NEW s, GoodState(s)
  PROVE  GoodState(ClearUnacknowledged(s)) /\ ChainsOf(ClearUnacknowledged(s)) = ChainsOf(s)
  BY Zenon, ClearFacts DEF GoodState, ChainsOf

\* The states of a renewed record.
LEMMA RenewedStates ==
  ASSUME NEW rec, NEW new, NEW s, Renewed(rec, new, s)
  PROVE  /\ s \in StatesOf(new)
         /\ \A t \in StatesOf(new) : t = s \/ \E u \in StatesOf(rec) :
              u.aliceBase # s.aliceBase /\ t = ClearUnacknowledged(u)
  BY RangeSingle DEF Renewed, StatesOf

\* What the record comes to when the outcome r of one of its states decides.
Decides(rec, d, r) ==
  /\ d.result = r.result
  /\ GoodRecord(d.record)
  /\ Renewed(rec, d.record, r.state)
  /\ Keeps(rec, d.record, r.state)

\* decrypt_message_with_record: the state that decides is one of the record, the
\* current one for a prekey message, and it is the one renewed.
Decided(rec, msg, fresh, d) ==
  /\ d.result # "invalid" => \E s \in StatesOf(rec) :
       /\ msg.preKey # <<>> /\ rec.current # <<>> => s = rec.current[1]
       /\ Decides(rec, d, DecryptWithState(s, msg, fresh))
  /\ \A s \in StatesOf(rec) :
       /\ DecryptWithState(s, msg, fresh).result # "invalid"
       /\ msg.preKey # <<>> => rec.current # <<>> /\ s = rec.current[1]
       => d.result # "invalid"

LEMMA RecordOutcome ==
  ASSUME WellOrdered, NEW rec, GoodRecord(rec), \A s \in StatesOf(rec) : GoodState(s),
         NEW msg \in Messages, NEW fresh \in Nat,
         NEW d, d = DecryptWithRecord(rec, msg, msg.preKey # <<>>, fresh)
  PROVE  Decided(rec, msg, fresh, d)
<1> DEFINE isPreKey == msg.preKey # <<>>
           flat == rec.current \o rec.previous
           try == [i \in DOMAIN flat |-> DecryptWithState(flat[i], msg, fresh)]
           decided == {i \in DOMAIN try : try[i].result # "invalid"}
           k == FirstOf(decided)
           cur == Len(rec.current)
<1>1. /\ rec.current \in Seq(SessionStates) /\ rec.previous \in Seq(SessionStates)
      /\ DOMAIN flat = 1..(cur + Len(rec.previous))
      /\ \A i \in DOMAIN flat :
           /\ i <= cur => i \in DOMAIN rec.current /\ flat[i] = rec.current[i]
           /\ ~(i <= cur) => i - cur \in DOMAIN rec.previous /\ flat[i] = rec.previous[i - cur]
      /\ Range(flat) = StatesOf(rec)
  BY Zenon, FlatFacts
<1>2. d = IF decided = {} \/ (isPreKey /\ 1 \notin decided)
          THEN [result |-> "invalid", record |-> rec]
          ELSE [result |-> try[k].result,
                record |-> IF k <= cur THEN [rec EXCEPT !.current = << try[k].state >>]
                           ELSE PromoteOldSession(rec, k - cur, try[k].state)]
  BY Zenon DEF DecryptWithRecord
<1>c. cur \in Nat /\ cur <= 1 /\ Len(rec.previous) \in Nat
  BY <1>1 DEF GoodRecord
<1>d. \A s \in StatesOf(rec) : \E i \in DOMAIN flat : flat[i] = s
  BY Zenon, <1>1 DEF Range
<1>e. \A i \in DOMAIN flat : flat[i] \in StatesOf(rec)
  BY Zenon, <1>1 DEF Range
<1> HIDE DEF flat
<1>t. DOMAIN try = DOMAIN flat /\ \A i \in DOMAIN flat : try[i] = DecryptWithState(flat[i], msg, fresh)
  BY Zenon
<1> HIDE DEF try
<1>f. decided \subseteq DOMAIN flat /\ decided \in SUBSET Nat
  <2>1. decided \subseteq DOMAIN flat
    BY Zenon, <1>t
  <2>2. \A i \in DOMAIN flat : i \in Nat /\ i >= 1
    BY <1>1, <1>c
  <2> QED
    BY Zenon, <2>1, <2>2
<1>g. \A i \in decided : try[i].result # "invalid"
  BY Zenon
<1>h. \A i \in DOMAIN flat : try[i].result # "invalid" => i \in decided
  BY Zenon, <1>t
<1> HIDE DEF decided, k
<1> HIDE DEF isPreKey
<1>3. ASSUME d.result # "invalid"
      PROVE  \E s \in StatesOf(rec) :
              /\ isPreKey /\ rec.current # <<>> => s = rec.current[1]
              /\ Decides(rec, d, DecryptWithState(s, msg, fresh))
  <2>1. decided # {} /\ (isPreKey => 1 \in decided)
    BY <1>2, <1>3
  <2>2. k \in decided /\ \A j \in decided : k <= j
    BY Zenon, <1>f, <2>1, FirstIsLeast DEF k
  <2>3. /\ d.result = try[k].result
        /\ d.record = IF k <= cur THEN [rec EXCEPT !.current = << try[k].state >>]
                      ELSE PromoteOldSession(rec, k - cur, try[k].state)
    BY <1>2, <2>1
  <2> DEFINE s == flat[k]
             r == DecryptWithState(s, msg, fresh)
  <2>4. k \in DOMAIN flat /\ try[k] = r /\ s \in StatesOf(rec)
    BY Zenon, <1>e, <1>f, <1>t, <2>2
  <2>5. GoodState(r.state) /\ r.state.aliceBase = s.aliceBase
    <3>1. Outcome(s, msg, fresh, r)
      BY Zenon, <2>4, DecryptOutcome
    <3> QED
      BY Zenon, <3>1 DEF Outcome
  <2>6. r.state \in SessionStates
    BY Zenon, <2>5 DEF GoodState
  <2>7. isPreKey /\ rec.current # <<>> => s = rec.current[1]
    <3> SUFFICES ASSUME isPreKey, rec.current # <<>> PROVE s = rec.current[1]
      BY Zenon
    <3>1. cur = 1
      BY Zenon, <1>1, <1>c, OneOrNone
    <3>2. k = 1
      BY <1>f, <2>1, <2>2, <2>4, <1>1, <1>c
    <3> QED
      BY <1>1, <2>4, <3>1, <3>2
  <2>8. GoodRecord(d.record) /\ Renewed(rec, d.record, r.state) /\ Keeps(rec, d.record, r.state)
    <3>1. CASE k <= cur
      <4>1. k = 1 /\ cur = 1
        <5>1. k \in 1..(cur + Len(rec.previous))
          BY Zenon, <1>1, <2>4
        <5> HIDE DEF cur
        <5> QED
          BY <1>c, <3>1, <5>1
      <4>2. s = rec.current[1] /\ rec.current # <<>>
        BY <1>1, <2>4, <3>1, <4>1
      <4>3. d.record = [rec EXCEPT !.current = << r.state >>]
        BY Zenon, <2>3, <2>4, <3>1
      <4> HIDE DEF s, r
      <4> QED
        BY <2>5, <2>6, <4>2, <4>3, ReplaceRenews
    <3>2. CASE ~(k <= cur)
      <4>1. k - cur \in DOMAIN rec.previous /\ s = rec.previous[k - cur]
        BY Zenon, <1>1, <2>4, <3>2
      <4>2. d.record = PromoteOldSession(rec, k - cur, r.state)
        BY Zenon, <2>3, <2>4, <3>2
      <4> DEFINE i == k - cur
      <4> HIDE DEF s, r, i
      <4>3. i \in DOMAIN rec.previous /\ s = rec.previous[i] /\ d.record = PromoteOldSession(rec, i, r.state)
        BY Zenon, <4>1, <4>2 DEF i
      <4> QED
        BY Zenon, <2>5, <2>6, <4>3, PromoteOldRenews
    <3> QED
      BY Zenon, <3>1, <3>2
  <2>9. Decides(rec, d, r)
    BY Zenon, <2>3, <2>4, <2>8 DEF Decides
  <2> QED
    BY Zenon, <2>4, <2>7, <2>9
<1>4. ASSUME NEW s \in StatesOf(rec), DecryptWithState(s, msg, fresh).result # "invalid",
             isPreKey => rec.current # <<>> /\ s = rec.current[1]
      PROVE  d.result # "invalid"
  <2>1. PICK i \in DOMAIN flat : flat[i] = s
    BY Zenon, <1>d
  <2>2. i \in decided
    BY Zenon, <1>h, <1>t, <1>4, <2>1
  <2>3. isPreKey => 1 \in decided
    <3> SUFFICES ASSUME isPreKey PROVE 1 \in decided
      BY Zenon
    <3>1. cur = 1
      BY Zenon, <1>1, <1>c, <1>4, OneOrNone
    <3>2. 1 \in DOMAIN flat /\ flat[1] = s
      BY <1>1, <1>c, <1>4, <3>1
    <3> QED
      BY Zenon, <1>h, <1>t, <1>4, <3>2
  <2>4. k \in decided
    BY Zenon, <1>f, <2>2, FirstIsLeast DEF k
  <2> QED
    BY <1>2, <1>g, <2>2, <2>3, <2>4
<1> QED
  BY Zenon, <1>3, <1>4 DEF Decided, isPreKey

\* The state that a message may be opened with: for a prekey message the one
\* of its base key, or a new one if there is none and the store has the prekey.
Candidate(p, rec, msg, s) ==
  \/ s \in StatesOf(rec) /\ (msg.preKey # <<>> => s.aliceBase = msg.preKey[1].base)
  \/ /\ msg.preKey # <<>> /\ s = InitializeBobSession(msg.preKey[1].base, SignedPreKey[p])
     /\ \A u \in StatesOf(rec) : u.aliceBase # msg.preKey[1].base
     /\ Range(msg.preKey[1].oneTime) \subseteq prekeys[p]

BobState(s, base, ours) ==
  /\ GoodState(s) /\ ChainsOf(s) = {} /\ s.aliceBase = base /\ s.senderIndex = 0
  /\ s.senderKey = ours /\ s.senderChain = << {base} >> /\ s.rootKey = << {base} >>
  /\ s.pending = <<>> /\ s.receivers = <<>>

LEMMA BobIsGood ==
  ASSUME NEW base \in Nat, NEW ours \in Nat, NEW s, s = InitializeBobSession(base, ours)
  PROVE  BobState(s, base, ours)
<1>1. << {base} >> \in ChainKeys /\ <<>> \in Seq(Chains) /\ <<>> \in Seq(PreKeys)
  BY DEF ChainKeys
<1>2. s \in SessionStates
  BY Zenon, <1>1 DEF InitializeBobSession, DeriveKeys, SessionStates
<1>3. /\ s.aliceBase = base /\ s.senderIndex = 0
      /\ s.senderKey = ours /\ s.senderChain = << {base} >> /\ s.rootKey = << {base} >>
      /\ s.pending = <<>> /\ s.receivers = <<>>
  BY Zenon DEF InitializeBobSession, DeriveKeys
<1>4. ChainsOf(s) = {}
  BY Zenon, <1>3, RangeEmpty DEF ChainsOf
<1>5. Len(s.receivers) = 0 /\ DOMAIN s.receivers = {}
  BY <1>3
<1> QED
  BY <1>2, <1>3, <1>4, <1>5, SessionAssumption DEF GoodState, DistinctKeys, BobState

\* process_prekey makes the candidate the current state.
LEMMA PreKeyOutcome ==
  ASSUME WellOrdered, NEW p \in Parties, NEW rec, GoodRecord(rec), NEW msg \in Messages,
         msg.preKey # <<>>, Len(msg.preKey) <= 1,
         NEW done, done = ProcessPreKey(p, rec, msg.preKey[1])
  PROVE  /\ \A s : Candidate(p, rec, msg, s) => \E mid :
              /\ done = << mid >> /\ GoodRecord(mid) /\ Renewed(rec, mid, s)
              /\ s \in StatesOf(rec) \/ Len(rec.previous) < ArchivedStatesMax => Keeps(rec, mid, s)
         /\ done # <<>> => \E s : Candidate(p, rec, msg, s)
<1> DEFINE base == msg.preKey[1].base
           new == InitializeBobSession(base, SignedPreKey[p])
<1>1. msg.preKey[1] \in PreKeys /\ base \in Nat
  <2>1. msg.preKey \in Seq(PreKeys)
    BY Zenon DEF Messages
  <2>2. msg.preKey[1] \in PreKeys
    BY Zenon, <2>1, OneOrNone
  <2> QED
    BY Zenon, <2>2 DEF PreKeys
<1>2. MatchesSession(rec, base) <=> \E u \in StatesOf(rec) : u.aliceBase = base
  BY Zenon, MatchesFacts
<1>3. GoodState(new) /\ new.aliceBase = base /\ new \in SessionStates
  <2>1. SignedPreKey[p] \in Nat
    BY Zenon, SessionAssumption
  <2>2. BobState(new, base, SignedPreKey[p])
    BY Zenon, <1>1, <2>1, BobIsGood
  <2> QED
    BY Zenon, <2>2 DEF BobState, GoodState
<1>4. done = IF MatchesSession(rec, base) THEN << PromoteMatchingSession(rec, base) >>
             ELSE IF Range(msg.preKey[1].oneTime) \subseteq prekeys[p]
                  THEN << PromoteState(rec, new) >> ELSE <<>>
  BY Zenon DEF ProcessPreKey
<1> HIDE DEF base, new
<1>5. ASSUME NEW s \in StatesOf(rec), s.aliceBase = base
      PROVE  LET mid == PromoteMatchingSession(rec, base)
             IN GoodRecord(mid) /\ Renewed(rec, mid, s) /\ Keeps(rec, mid, s)
  <2>1. StatesOf(rec) \subseteq SessionStates
        /\ \A u, v \in StatesOf(rec) : u.aliceBase = v.aliceBase => u = v
    BY Zenon, StatesAreTyped
  <2>2. rec.current \in Seq(SessionStates) /\ rec.previous \in Seq(SessionStates)
    BY Zenon DEF GoodRecord, Records
  <2>3. CASE HasBase(rec.current, base) # {}
    <3>1. PICK j \in DOMAIN rec.current : rec.current[j].aliceBase = base
      BY Zenon, <2>3 DEF HasBase
    <3>2. rec.current # <<>>
      BY <3>1
    <3>3. Range(rec.current) = {rec.current[1]} /\ rec.current = << rec.current[1] >>
      BY Zenon, <2>2, <3>2, OneOrNone DEF GoodRecord
    <3>4. rec.current[j] \in Range(rec.current)
      BY Zenon, <3>1 DEF Range
    <3>5. rec.current[1] = s
      BY Zenon, <1>5, <2>1, <3>1, <3>3, <3>4 DEF StatesOf
    <3>6. [rec EXCEPT !.current = << s >>] = rec
      BY Zenon, <3>3, <3>5 DEF GoodRecord, Records
    <3>7. PromoteMatchingSession(rec, base) = rec
      BY Zenon, <2>3 DEF PromoteMatchingSession
    <3>8. s \in SessionStates
      BY Zenon, <2>1
    <3> QED
      BY <3>2, <3>5, <3>6, <3>7, <3>8, ReplaceRenews
  <2>4. CASE HasBase(rec.current, base) = {}
    <3> DEFINE all == HasBase(rec.previous, base)
               i == FirstOf(all)
    <3>1. s \in Range(rec.previous)
      <4>1. s \notin Range(rec.current)
        BY Zenon, <1>5, <2>4 DEF HasBase, Range
      <4> QED
        BY Zenon, <4>1 DEF StatesOf
    <3>2. all \in SUBSET Nat /\ all # {}
      <4>1. all # {}
        BY Zenon, <1>5, <3>1 DEF HasBase, Range
      <4>2. DOMAIN rec.previous \in SUBSET Nat
        BY <2>2
      <4> QED
        BY Zenon, <4>1, <4>2 DEF HasBase
    <3> HIDE DEF all
    <3>3. i \in all
      BY Zenon, <3>2, FirstIsLeast
    <3> HIDE DEF i
    <3>4. i \in DOMAIN rec.previous /\ rec.previous[i].aliceBase = base
      BY Zenon, <3>3 DEF HasBase, all
    <3>5. rec.previous[i] = s
      BY Zenon, <1>5, <2>1, <3>4 DEF StatesOf, Range
    <3>6. PromoteMatchingSession(rec, base) = PromoteOldSession(rec, i, s)
      BY Zenon, <2>4, <3>5 DEF PromoteMatchingSession, i, all
    <3>7. s \in SessionStates
      BY Zenon, <2>1
    <3> QED
      BY Zenon, <3>4, <3>5, <3>6, <3>7, PromoteOldRenews
  <2> QED
    BY Zenon, <2>3, <2>4
<1>6. ASSUME \A u \in StatesOf(rec) : u.aliceBase # base
      PROVE  LET mid == PromoteState(rec, new)
             IN /\ GoodRecord(mid) /\ Renewed(rec, mid, new)
                /\ Len(rec.previous) < ArchivedStatesMax => Keeps(rec, mid, new)
  BY Zenon, <1>3, <1>6, PromoteRenews
<1>7. ASSUME NEW s, Candidate(p, rec, msg, s)
      PROVE  \E mid : /\ done = << mid >> /\ GoodRecord(mid) /\ Renewed(rec, mid, s)
                      /\ s \in StatesOf(rec) \/ Len(rec.previous) < ArchivedStatesMax
                         => Keeps(rec, mid, s)
  <2>1. CASE s \in StatesOf(rec) /\ s.aliceBase = base
    BY Zenon, <1>2, <1>4, <1>5, <2>1
  <2>2. CASE ~(s \in StatesOf(rec) /\ s.aliceBase = base)
    <3>1. /\ s = new /\ \A u \in StatesOf(rec) : u.aliceBase # base
          /\ Range(msg.preKey[1].oneTime) \subseteq prekeys[p]
      BY Zenon, <1>7, <2>2 DEF Candidate, base, new
    <3>2. done = << PromoteState(rec, new) >>
      BY Zenon, <1>2, <1>4, <3>1
    <3>3. s \notin StatesOf(rec)
      BY Zenon, <1>3, <3>1
    <3> QED
      BY Zenon, <1>6, <3>1, <3>2, <3>3
  <2> QED
    BY Zenon, <2>1, <2>2
<1>8. ASSUME done # <<>> PROVE \E s : Candidate(p, rec, msg, s)
  <2>1. CASE MatchesSession(rec, base)
    BY Zenon, <1>2, <2>1 DEF Candidate, base
  <2>2. CASE ~MatchesSession(rec, base)
    BY Zenon, <1>2, <1>4, <1>8, <2>2 DEF Candidate, base, new
  <2> QED
    BY Zenon, <2>1, <2>2
<1> QED
  BY Zenon, <1>7, <1>8

\* The result d for msg is that of the candidate s, with the state r after it.
DecidedBy(p, rec, msg, d, s, r) ==
  /\ Candidate(p, rec, msg, s) /\ GoodState(s) /\ d.result = r.result
  /\ GoodRecord(d.record) /\ Renewed(rec, d.record, r.state)
  /\ s \in StatesOf(rec) \/ Len(rec.previous) < ArchivedStatesMax
     => Keeps(rec, d.record, r.state)

DecidedRight(p, rec, msg, d) ==
  /\ d.result # "invalid" =>
       \E s : DecidedBy(p, rec, msg, d, s, DecryptWithState(s, msg, nextKey))
  /\ \A s : Candidate(p, rec, msg, s)
            /\ DecryptWithState(s, msg, nextKey).result # "invalid"
            => d.result # "invalid"

\* message_decrypt_prekey and message_decrypt_signal: a candidate decides, and
\* is renewed; one that decides is enough for the message to be decided.
LEMMA DecryptFrom ==
  ASSUME WellOrdered, NEW p \in Parties, NEW rec, GoodRecord(rec), \A s \in StatesOf(rec) : GoodState(s),
         NEW msg \in Messages, Len(msg.preKey) <= 1, nextKey \in Nat,
         NEW d, d = Decrypt(p, rec, msg)
  PROVE  DecidedRight(p, rec, msg, d)
<1> DEFINE R(s) == DecryptWithState(s, msg, nextKey)
<1>1. CASE msg.preKey = <<>>
  <2>1. d = DecryptWithRecord(rec, msg, msg.preKey # <<>>, nextKey)
    BY Zenon, <1>1 DEF Decrypt
  <2>2. \A s : Candidate(p, rec, msg, s) <=> s \in StatesOf(rec)
    BY Zenon, <1>1 DEF Candidate
  <2>3. Decided(rec, msg, nextKey, d)
    BY Zenon, <2>1, RecordOutcome
  <2>4. ASSUME d.result # "invalid"
        PROVE  \E s : Candidate(p, rec, msg, s) /\ GoodState(s) /\ Decides(rec, d, R(s))
    BY Zenon, <2>2, <2>3, <2>4 DEF Decided
  <2>5. ASSUME NEW s, Candidate(p, rec, msg, s), R(s).result # "invalid"
        PROVE  d.result # "invalid"
    BY Zenon, <1>1, <2>2, <2>3, <2>5 DEF Decided
  <2> QED
    BY Zenon, <2>4, <2>5 DEF Decides, DecidedRight, DecidedBy
<1>2. CASE msg.preKey # <<>>
  <2> DEFINE done == ProcessPreKey(p, rec, msg.preKey[1])
  <2>1. d = IF done = <<>> THEN [result |-> "invalid", record |-> rec]
            ELSE DecryptWithRecord(done[1], msg, msg.preKey # <<>>, nextKey)
    BY Zenon, <1>2 DEF Decrypt
  <2>2. /\ \A s : Candidate(p, rec, msg, s) => \E mid :
              /\ done = << mid >> /\ GoodRecord(mid) /\ Renewed(rec, mid, s)
              /\ s \in StatesOf(rec) \/ Len(rec.previous) < ArchivedStatesMax => Keeps(rec, mid, s)
        /\ done # <<>> => \E s : Candidate(p, rec, msg, s)
    BY Zenon, <1>2, PreKeyOutcome
  <2> HIDE DEF done
  <2>3. ASSUME NEW s, Candidate(p, rec, msg, s) PROVE GoodState(s)
    <3>1. CASE s \in StatesOf(rec)
      BY Zenon, <3>1
    <3>2. CASE s \notin StatesOf(rec)
      <4>1. s = InitializeBobSession(msg.preKey[1].base, SignedPreKey[p])
        BY Zenon, <2>3, <3>2 DEF Candidate
      <4>2. msg.preKey \in Seq(PreKeys)
        BY Zenon DEF Messages
      <4>3. msg.preKey[1] \in PreKeys
        BY Zenon, <1>2, <4>2, OneOrNone
      <4>4. msg.preKey[1].base \in Nat
        BY Zenon, <4>3 DEF PreKeys
      <4>5. SignedPreKey[p] \in Nat
        BY Zenon, SessionAssumption
      <4>6. BobState(s, msg.preKey[1].base, SignedPreKey[p])
        BY Zenon, <4>1, <4>4, <4>5, BobIsGood
      <4> QED
        BY Zenon, <4>6 DEF BobState
    <3> QED
      BY Zenon, <3>1, <3>2
  <2>4. ASSUME NEW s, Candidate(p, rec, msg, s)
        PROVE  /\ d.result # "invalid" =>
                    /\ d.result = R(s).result
                    /\ GoodRecord(d.record) /\ Renewed(rec, d.record, R(s).state)
                    /\ s \in StatesOf(rec) \/ Len(rec.previous) < ArchivedStatesMax
                       => Keeps(rec, d.record, R(s).state)
               /\ R(s).result # "invalid" => d.result # "invalid"
    <3>1. PICK mid : /\ done = << mid >> /\ GoodRecord(mid) /\ Renewed(rec, mid, s)
                     /\ s \in StatesOf(rec) \/ Len(rec.previous) < ArchivedStatesMax
                        => Keeps(rec, mid, s)
      BY Zenon, <2>2, <2>4
    <3>2. d = DecryptWithRecord(mid, msg, msg.preKey # <<>>, nextKey)
      BY Zenon, <2>1, <3>1
    <3>3. GoodState(s)
      BY Zenon, <2>3, <2>4
    <3>4. mid.current = << s >> /\ mid.current # <<>> /\ mid.current[1] = s /\ s \in StatesOf(mid)
      BY <3>1, RenewedStates DEF Renewed
    <3>5. ASSUME NEW t \in StatesOf(mid) PROVE GoodState(t)
      <4>1. t = s \/ \E u \in StatesOf(rec) : t = ClearUnacknowledged(u)
        BY <3>1, RenewedStates
      <4> QED
        BY Zenon, <3>3, <4>1, ClearedIsGood
    <3>a. GoodRecord(mid)
      BY Zenon, <3>1
    <3>b. Decided(mid, msg, nextKey, d)
      BY Zenon, <3>2, <3>5, <3>a, RecordOutcome
    <3>c. R(s).state.aliceBase = s.aliceBase
      <4>1. Outcome(s, msg, nextKey, R(s))
        BY Zenon, <3>3, DecryptOutcome
      <4> QED
        BY Zenon, <4>1 DEF Outcome
    <3> HIDE DEF R
    <3>d. d.result # "invalid" => Decides(mid, d, R(s))
      BY Zenon, <1>2, <3>4, <3>b DEF Decided, R
    <3>6. d.result # "invalid" =>
            /\ d.result = R(s).result /\ GoodRecord(d.record)
            /\ Renewed(mid, d.record, R(s).state) /\ Keeps(mid, d.record, R(s).state)
      BY Zenon, <3>d DEF Decides
    <3>7. R(s).result # "invalid" => d.result # "invalid"
      BY Zenon, <1>2, <3>4, <3>b DEF Decided, R
    <3>9. d.result # "invalid" =>
            /\ Renewed(rec, d.record, R(s).state)
            /\ Keeps(rec, mid, s) => Keeps(rec, d.record, R(s).state)
      BY Zenon, <3>1, <3>6, <3>c, RenewedTwice
    <3> QED
      BY Zenon, <3>1, <3>6, <3>7, <3>9
  <2> HIDE DEF R
  <2>5. d.result # "invalid" => \E s : Candidate(p, rec, msg, s)
    <3>1. done = <<>> => d = [result |-> "invalid", record |-> rec]
      BY Zenon, <2>1
    <3>2. done = <<>> => d.result = "invalid"
      BY <3>1
    <3> QED
      BY Zenon, <2>2, <3>2
  <2> QED
    BY Zenon, <2>3, <2>4, <2>5 DEF R, DecidedRight, DecidedBy
<1> QED
  BY Zenon, <1>1, <1>2

-----------------------------------------------------------------------------
(* Types and fresh keys *)

-----------------------------------------------------------------------------
(* Key freshness: the invariant from which FreshMessageKeys follows, for any  *)
(* limits.  A key pair is generated once, a session is recognised by its base *)
(* key at the head of every key derived in it, and a sending chain is never   *)
(* behind a message made with it.                                             *)

\* The key is derived from key pairs generated before n.
Old(c, n) == c # <<>> /\ \A j \in DOMAIN c : \A k \in c[j] : k < n

FreshState(s, n) ==
  /\ s.aliceBase < n /\ s.senderKey < n
  /\ \A p \in Parties : s.senderKey # SignedPreKey[p]
  /\ s.rootKey = s.senderChain
  /\ Old(s.senderChain, n) /\ s.senderChain[1] = {s.aliceBase}
  /\ \A c \in ChainsOf(s) :
       c.ratchetKey < n /\ Old(c.chainKey, n) /\ c.chainKey[1] = {s.aliceBase}
  /\ Len(s.pending) <= 1 /\ (s.pending # <<>> => s.pending[1].base = s.aliceBase)

FreshMessage(m, n) ==
  /\ m \in Messages
  /\ m.ratchetKey < n /\ \A p \in Parties : m.ratchetKey # SignedPreKey[p]
  /\ Old(m.chainKey, n)
  /\ Len(m.preKey) <= 1 /\ (m.preKey # <<>> => m.chainKey[1] = {m.preKey[1].base})

Typed ==
  /\ DOMAIN record = Parties
  /\ prekeys \in [Parties -> SUBSET OneTimePreKeys]
  /\ offered \in [Parties -> SUBSET OneTimePreKeys]
  /\ DOMAIN opens = Parties
  /\ \A p \in Parties : opens[p] \in [Sent(p) -> Nat]
  /\ bundles \in 0..MaxBundles /\ nextKey \in Nat
  /\ \A p \in Parties : GoodRecord(record[p]) /\ \A s \in StatesOf(record[p]) : GoodState(s)

Fresh ==
  /\ \A p \in Parties : SignedPreKey[p] < nextKey
  /\ \A p \in Parties : \A s \in StatesOf(record[p]) : FreshState(s, nextKey)
  /\ \A p \in Parties : \A m \in Sent(p) : FreshMessage(m, nextKey)

\* A sender never goes back in a chain.
Ahead ==
  \A p \in Parties : \A s \in StatesOf(record[p]), m \in Sent(Other(p)) :
    m.chainKey = s.senderChain => m.counter < s.senderIndex

KeysInv == Typed /\ Fresh /\ Ahead

\* The two parties.
LEMMA Others ==
  ASSUME NEW p \in Parties
  PROVE  /\ Other(p) \in Parties /\ Other(p) # p /\ Other(Other(p)) = p
         /\ \A q \in Parties : q = p \/ q = Other(p)
<1>1. PICK a \in Parties, b \in Parties : a # b /\ Parties = {a, b}
  BY Zenon, SessionAssumption
<1>2. Other(p) \in Parties /\ Other(p) # p
  BY Zenon, <1>1 DEF Other
<1>3. Other(Other(p)) \in Parties /\ Other(Other(p)) # Other(p)
  <2> DEFINE q == Other(p)
  <2> HIDE DEF q
  <2>1. Other(q) \in Parties /\ Other(q) # q
    BY <1>1 DEF Other
  <2> QED
    BY Zenon, <2>1 DEF q
<1> QED
  BY Zenon, <1>1, <1>2, <1>3

\* Nothing old becomes new.
LEMMA OldStaysOld ==
  ASSUME NEW n \in Nat, NEW k \in Nat, n <= k
  PROVE  /\ \A c \in ChainKeys : Old(c, n) => Old(c, k)
         /\ \A s \in SessionStates : GoodState(s) /\ FreshState(s, n) => FreshState(s, k)
         /\ \A m : FreshMessage(m, n) => FreshMessage(m, k)
<1>1. ASSUME NEW c \in ChainKeys, Old(c, n) PROVE Old(c, k)
  <2>1. \A j \in DOMAIN c : c[j] \in SUBSET Nat
    BY DEF ChainKeys
  <2>2. \A j \in DOMAIN c : \A x \in c[j] : x \in Nat /\ x < n
    BY Zenon, <1>1, <2>1 DEF Old
  <2>3. \A j \in DOMAIN c : \A x \in c[j] : x < k
    BY <2>2
  <2> QED
    BY Zenon, <1>1, <2>3 DEF Old
<1>2. ASSUME NEW s \in SessionStates, GoodState(s), FreshState(s, n) PROVE FreshState(s, k)
  <2>1. s.aliceBase \in Nat /\ s.senderKey \in Nat /\ s.senderChain \in ChainKeys
    BY Zenon DEF SessionStates
  <2>2. \A c \in ChainsOf(s) : c.ratchetKey \in Nat /\ c.chainKey \in ChainKeys
    BY Zenon, <1>2, KnownChain DEF Chains
  <2>3. s.aliceBase < k /\ s.senderKey < k
    BY <1>2, <2>1 DEF FreshState
  <2>4. \A c \in ChainsOf(s) : c.ratchetKey < k
    BY <1>2, <2>2 DEF FreshState
  <2> QED
    BY Zenon, <1>1, <1>2, <2>1, <2>2, <2>3, <2>4 DEF FreshState
<1>3. ASSUME NEW m, FreshMessage(m, n) PROVE FreshMessage(m, k)
  <2>1. m \in Messages /\ m.ratchetKey \in Nat /\ m.chainKey \in ChainKeys
    BY Zenon, <1>3 DEF FreshMessage, Messages
  <2>2. m.ratchetKey < k
    BY <1>3, <2>1 DEF FreshMessage
  <2> QED
    BY Zenon, <1>1, <1>3, <2>1, <2>2 DEF FreshMessage
<1> QED
  BY Zenon, <1>1, <1>2, <1>3

LEMMA ClearedIsFresh ==
  ASSUME NEW s, GoodState(s), NEW n, FreshState(s, n)
  PROVE  FreshState(ClearUnacknowledged(s), n)
<1>1. s \in SessionStates /\ Len(<<>>) = 0
  BY Zenon DEF GoodState
<1>2. /\ ClearUnacknowledged(s).aliceBase = s.aliceBase
      /\ ClearUnacknowledged(s).rootKey = s.rootKey
      /\ ClearUnacknowledged(s).senderKey = s.senderKey
      /\ ClearUnacknowledged(s).senderChain = s.senderChain
      /\ ChainsOf(ClearUnacknowledged(s)) = ChainsOf(s)
      /\ ClearUnacknowledged(s).pending = <<>>
  BY Zenon, <1>1, ClearFacts DEF ChainsOf
<1> QED
  BY <1>1, <1>2 DEF FreshState

\* A ratchet step's key is as old as what goes into it.
LEMMA AgreementIsOld ==
  ASSUME NEW c \in ChainKeys, NEW n \in Nat, Old(c, n), NEW a \in Nat, a < n, NEW b \in Nat, b < n
  PROVE  Old(CreateChain(c, a, b), n) /\ CreateChain(c, a, b)[1] = c[1]
<1> DEFINE d == CreateChain(c, a, b)
<1>1. /\ d \in ChainKeys /\ Len(d) = Len(c) + 1 /\ d[Len(c) + 1] = {a, b}
      /\ \A i \in 1..Len(c) : d[i] = c[i]
  <2>1. d \in ChainKeys
    BY ZenonT(30), CreateChainType
  <2>2. Len(d) = Len(c) + 1
    BY ZenonT(30), CreateChainType
  <2>3. d[Len(c) + 1] = {a, b}
    BY ZenonT(30), CreateChainType
  <2>4. \A i \in 1..Len(c) : d[i] = c[i]
    BY ZenonT(30), CreateChainType
  <2> QED
    BY Zenon, <2>1, <2>2, <2>3, <2>4
<1>2. Len(c) \in Nat /\ Len(c) # 0 /\ DOMAIN c = 1..Len(c) /\ DOMAIN d = 1..Len(d)
  BY <1>1 DEF ChainKeys, Old
<1> HIDE DEF d
<1>3. \A j \in 1..Len(d) : j \in 1..Len(c) \/ j = Len(c) + 1
  BY <1>1, <1>2
<1>4. \A j \in DOMAIN d : \A k \in d[j] : k < n
  BY Zenon, <1>1, <1>2, <1>3 DEF Old
<1>5. 1 \in 1..Len(c) /\ d # <<>>
  <2>1. 1 \in 1..Len(c) /\ Len(d) # 0
    BY <1>1, <1>2
  <2> QED
    BY <2>1
<1> QED
  BY Zenon, <1>1, <1>4, <1>5 DEF Old, d

\* A session as process_prekey_bundle makes it.
LEMMA AliceIsGood ==
  ASSUME NEW n \in Nat, NEW key \in Nat, NEW top \in Nat, n < key, key < top,
         NEW theirs \in Nat, theirs < n, NEW k \in PreKeys, k.base = n,
         \A p \in Parties : SignedPreKey[p] < n,
         NEW s, s = InitializeAliceSession(n, key, theirs, k)
  PROVE  /\ GoodState(s) /\ FreshState(s, top)
         /\ s.aliceBase = n /\ s.senderKey = key /\ s.senderIndex = 0
         /\ s.rootKey = s.senderChain /\ s.senderChain = CreateChain(DeriveKeys(n), theirs, key)
         /\ ChainsOf(s) = {ReceiverChain(theirs, DeriveKeys(n))}
         /\ s.pending = << k >>
         /\ Len(s.receivers) = 1
<1> DEFINE root == DeriveKeys(n)
           sending == CreateChain(root, theirs, key)
           c == ReceiverChain(theirs, root)
<1>2. s = [aliceBase |-> n, rootKey |-> sending, senderKey |-> key, senderChain |-> sending,
           senderIndex |-> 0, receivers |-> << c >>, pending |-> << k >>]
  BY Zenon DEF InitializeAliceSession
<1>1. root \in ChainKeys /\ root[1] = {n} /\ Old(root, top)
  <2>1. {n} \in SUBSET Nat /\ n < top
    OBVIOUS
  <2> QED
    BY <2>1 DEF ChainKeys, DeriveKeys, Old
<1> HIDE DEF root
<1>3. sending \in ChainKeys
  BY Zenon, <1>1, CreateChainType
<1>4. c \in Chains /\ c.ratchetKey = theirs /\ c.chainKey = root /\ c.keys = {}
  BY Zenon, <1>1 DEF ReceiverChain, Chains
<1>5. k \in PreKeys /\ k.base = n
  BY Zenon
<1>6. Old(root, top) /\ Old(sending, top) /\ root[1] = {n} /\ sending[1] = {n}
  <2>1. theirs < top /\ key < top
    OBVIOUS
  <2> QED
    BY <1>1, <2>1, AgreementIsOld
<1> HIDE DEF c, root, sending
<1>7. /\ << c >> \in Seq(Chains) /\ Len(<< c >>) = 1 /\ Range(<< c >>) = {c}
      /\ << k >> \in Seq(PreKeys) /\ Len(<< k >>) = 1 /\ << k >>[1] = k
  BY <1>4, <1>5, RangeSingle
<1>8. key \in Nat /\ n < top /\ key < top /\ theirs < top
  OBVIOUS
<1>9. s \in SessionStates
  <2> DEFINE rs == << c >>
             ks == << k >>
  <2>1. key \in Nat /\ 0 \in Nat /\ rs \in Seq(Chains) /\ ks \in Seq(PreKeys)
    BY Zenon, <1>7, <1>8
  <2>2. s = [aliceBase |-> n, rootKey |-> sending, senderKey |-> key, senderChain |-> sending,
             senderIndex |-> 0, receivers |-> rs, pending |-> ks]
    BY Zenon, <1>2
  <2> HIDE DEF rs, ks
  <2> QED
    BY <1>3, <2>1, <2>2 DEF SessionStates
<1>10. /\ s.aliceBase = n /\ s.senderKey = key /\ s.senderIndex = 0
       /\ s.rootKey = sending /\ s.senderChain = sending
       /\ s.receivers = << c >> /\ s.pending = << k >>
  BY <1>2
<1>11. ChainsOf(s) = {c}
  BY Zenon, <1>7, <1>10 DEF ChainsOf
<1>12. DistinctKeys(s.receivers)
  BY <1>10 DEF DistinctKeys
<1>13. GoodState(s)
  <2>1. Len(s.receivers) <= MaxReceiverChains
    <3>1. Len(s.receivers) = 1
      BY Zenon, <1>7, <1>10
    <3>2. 1 <= MaxReceiverChains
      BY SessionAssumption
    <3> QED
      BY Zenon, <3>1, <3>2
  <2>2. \A e \in ChainsOf(s) : \A j \in e.keys : j < e.index
    BY Zenon, <1>4, <1>11
  <2> QED
    BY Zenon, <1>9, <1>12, <2>1, <2>2 DEF GoodState
<1>14. \A p \in Parties : key # SignedPreKey[p]
  BY SessionAssumption
<1>15. FreshState(s, top)
  <2>1. s.aliceBase < top /\ s.senderKey < top
    BY Zenon, <1>8, <1>10
  <2>2. Old(s.senderChain, top) /\ s.senderChain[1] = {s.aliceBase} /\ s.rootKey = s.senderChain
    BY Zenon, <1>6, <1>10
  <2>3. c.ratchetKey < top /\ Old(c.chainKey, top) /\ c.chainKey[1] = {s.aliceBase}
    BY Zenon, <1>4, <1>6, <1>8, <1>10
  <2>4. Len(s.pending) <= 1 /\ s.pending[1].base = s.aliceBase
    <3>1. Len(s.pending) = 1 /\ s.pending[1] = k
      BY Zenon, <1>7, <1>10
    <3>2. s.pending[1].base = s.aliceBase
      BY Zenon, <1>5, <1>10, <3>1
    <3>3. 1 <= 1
      OBVIOUS
    <3> QED
      BY Zenon, <3>1, <3>2, <3>3
  <2>5. \A p \in Parties : s.senderKey # SignedPreKey[p]
    BY Zenon, <1>10, <1>14
  <2>6. FreshState(s, top)
    BY Zenon, <1>11, <2>1, <2>2, <2>3, <2>4, <2>5 DEF FreshState
  <2> QED
    BY Zenon, <2>6
<1> QED
  BY Zenon, <1>7, <1>10, <1>11, <1>13, <1>15 DEF c, root, sending

\* What a step of party p makes of its record; the other's is as it was.
Renews(p, s) ==
  /\ GoodRecord(record'[p]) /\ Renewed(record[p], record'[p], s) /\ GoodState(s)
  /\ DOMAIN record' = Parties
  /\ \A q \in Parties : q # p => record'[q] = record[q]

\* process_prekey_bundle
LEMMA BundleEffect ==
  ASSUME KeysInv, NEW p \in Parties, ProcessPreKeyBundle(p)
  PROVE  \E oneTime \in Bundle(Other(p)) : \E s :
           /\ s = InitializeAliceSession(nextKey, nextKey + 1, SignedPreKey[Other(p)],
                                         [base |-> nextKey, oneTime |-> oneTime])
           /\ oneTime \in Seq(OneTimePreKeys)
           /\ Renews(p, s) /\ \A u \in StatesOf(record[p]) : u.aliceBase # s.aliceBase
           /\ Len(record[p].previous) < ArchivedStatesMax => Keeps(record[p], record'[p], s)
           /\ offered' = [offered EXCEPT ![Other(p)] = @ \ Range(oneTime)]
<1> DEFINE q == Other(p)
           New(x) == InitializeAliceSession(nextKey, nextKey + 1, SignedPreKey[q],
                                            [base |-> nextKey, oneTime |-> x])
<1>1. PICK oneTime \in Bundle(q) :
         /\ offered' = [offered EXCEPT ![q] = @ \ Range(oneTime)]
         /\ record' = [record EXCEPT ![p] = PromoteState(@, New(oneTime))]
  BY Zenon DEF ProcessPreKeyBundle
<1>2. q \in Parties
  BY Zenon, Others
<1>3. oneTime \in Seq(OneTimePreKeys)
  <2>1. offered[q] \subseteq OneTimePreKeys
    BY Zenon, <1>2 DEF KeysInv, Typed
  <2>2. oneTime = <<>> \/ \E id \in offered[q] : oneTime = << id >>
    BY Zenon DEF Bundle
  <2>3. \A id \in OneTimePreKeys : << id >> \in Seq(OneTimePreKeys)
    OBVIOUS
  <2>4. <<>> \in Seq(OneTimePreKeys)
    OBVIOUS
  <2> QED
    BY Zenon, <2>1, <2>2, <2>3, <2>4
<1>4. nextKey \in Nat /\ GoodRecord(record[p]) /\ DOMAIN record = Parties
      /\ \A r \in Parties : SignedPreKey[r] < nextKey
  BY Zenon DEF KeysInv, Typed, Fresh
<1>5. SignedPreKey[q] \in Nat
  BY Zenon, <1>2, SessionAssumption
<1> DEFINE s == New(oneTime)
<1>6. GoodState(s) /\ s.aliceBase = nextKey
  <2> DEFINE theirKey == SignedPreKey[q]
  <2>1. theirKey \in Nat /\ theirKey < nextKey
    BY Zenon, <1>2, <1>4, <1>5
  <2> DEFINE preKey == [base |-> nextKey, oneTime |-> oneTime]
             myKey == nextKey + 1
             limit == nextKey + 2
  <2>2. s = InitializeAliceSession(nextKey, myKey, theirKey, preKey)
    BY Zenon
  <2>n. myKey \in Nat /\ limit \in Nat /\ nextKey < myKey /\ myKey < limit
    BY <1>4
  <2>k. preKey \in PreKeys /\ preKey.base = nextKey
    BY Zenon, <1>3, <1>4 DEF PreKeys
  <2>3. nextKey \in Nat /\ \A r \in Parties : SignedPreKey[r] < nextKey
    BY Zenon, <1>4
  <2> HIDE DEF theirKey, preKey, myKey, limit
  <2>s. ASSUME NEW x, x = InitializeAliceSession(nextKey, myKey, theirKey, preKey)
        PROVE  GoodState(x) /\ x.aliceBase = nextKey
    <3>1. /\ nextKey \in Nat /\ myKey \in Nat /\ limit \in Nat /\ nextKey < myKey /\ myKey < limit
          /\ theirKey \in Nat /\ theirKey < nextKey /\ preKey \in PreKeys /\ preKey.base = nextKey
          /\ \A r \in Parties : SignedPreKey[r] < nextKey
      BY Zenon, <2>1, <2>3, <2>k, <2>n
    <3>2. \A a, b, c, d \in Nat : \A e \in PreKeys :
            /\ a < b /\ b < c /\ d < a /\ e.base = a
            /\ \A r \in Parties : SignedPreKey[r] < a
            => /\ GoodState(InitializeAliceSession(a, b, d, e))
               /\ InitializeAliceSession(a, b, d, e).aliceBase = a
      BY AliceIsGood
    <3> QED
      BY <2>s, <3>1, <3>2
  <2> QED
    BY Zenon, <2>2, <2>s
<1> HIDE DEF New
<1>7. \A u \in StatesOf(record[p]) : u.aliceBase # s.aliceBase
  <2>1. \A u \in StatesOf(record[p]) : u.aliceBase \in Nat /\ u.aliceBase < nextKey
    BY Zenon DEF KeysInv, Typed, Fresh, FreshState, GoodState, SessionStates
  <2> QED
    BY <1>4, <1>6, <2>1
<1>8. record'[p] = PromoteState(record[p], s) /\ DOMAIN record' = Parties
      /\ \A r \in Parties : r # p => record'[r] = record[r]
  BY Zenon, <1>1, <1>4
<1>9. s \in SessionStates
  BY Zenon, <1>6 DEF GoodState
<1>10. /\ GoodRecord(record'[p]) /\ Renewed(record[p], record'[p], s)
       /\ Len(record[p].previous) < ArchivedStatesMax => Keeps(record[p], record'[p], s)
  BY Zenon, <1>4, <1>7, <1>8, <1>9, PromoteRenews
<1> QED
  BY Zenon, <1>1, <1>3, <1>6, <1>7, <1>8, <1>10 DEF Renews, New

\* message_encrypt
LEMMA EncryptEffect ==
  ASSUME KeysInv, NEW p \in Parties, EncryptLoaded(p, record[p])
  PROVE  \E s \in StatesOf(record[p]) : \E new : \E m \in Messages :
           /\ record[p].current = << s >>
           /\ new = [s EXCEPT !.senderIndex = @ + 1]
           /\ m = NextMessage(s)
           /\ Renews(p, new) /\ Keeps(record[p], record'[p], new)
           /\ opens' = [opens EXCEPT ![Other(p)] = Posted(@, m)]
<1> DEFINE rec == record[p]
           s == rec.current[1]
           new == [s EXCEPT !.senderIndex = @ + 1]
           m == NextMessage(s)
<1>1. /\ rec.current # <<>>
      /\ opens' = [opens EXCEPT ![Other(p)] = Posted(@, m)]
      /\ record' = [record EXCEPT ![p] = [rec EXCEPT !.current[1].senderIndex = @ + 1]]
  BY Zenon DEF EncryptLoaded
<1>2. GoodRecord(rec) /\ (\A t \in StatesOf(rec) : GoodState(t)) /\ DOMAIN record = Parties
  BY Zenon DEF KeysInv, Typed
<1>3. rec \in Records /\ rec.current \in Seq(SessionStates) /\ Len(rec.current) <= 1
  BY Zenon, <1>2 DEF GoodRecord, Records
<1>4. rec.current = << s >> /\ Range(rec.current) = {s} /\ s \in SessionStates
  BY Zenon, <1>1, <1>3, OneOrNone
<1>5. s \in StatesOf(rec) /\ GoodState(s)
  BY Zenon, <1>2, <1>4 DEF StatesOf
<1>6. [rec EXCEPT !.current[1].senderIndex = @ + 1] = [rec EXCEPT !.current = << new >>]
  <2> DEFINE c == rec.current
  <2>1. [rec EXCEPT !.current[1].senderIndex = @ + 1]
          = [rec EXCEPT !.current = [c EXCEPT ![1] = new]]
    BY Zenon
  <2>2. [c EXCEPT ![1] = new] = << new >>
    <3> HIDE DEF new, s
    <3>1. c = << s >>
      BY Zenon, <1>4
    <3> QED
      BY <3>1
  <2> QED
    BY Zenon, <2>1, <2>2
<1>7. /\ new \in SessionStates /\ new.aliceBase = s.aliceBase /\ new.receivers = s.receivers
  <2> HIDE DEF s
  <2>1. s.senderIndex \in Nat
    BY Zenon, <1>4 DEF SessionStates
  <2>2. s.senderIndex + 1 \in Nat
    BY <2>1
  <2> QED
    BY Zenon, <1>4, <2>2 DEF SessionStates
<1>8. GoodState(new)
  BY Zenon, <1>5, <1>7 DEF GoodState, ChainsOf
<1>9. m \in Messages
  BY Zenon, <1>4 DEF NextMessage, Messages, SessionStates
<1> HIDE DEF new, m, s
<1>10. record'[p] = [rec EXCEPT !.current = << new >>] /\ DOMAIN record' = Parties
       /\ \A q \in Parties : q # p => record'[q] = record[q]
  BY Zenon, <1>1, <1>2, <1>6
<1>11. new.aliceBase = rec.current[1].aliceBase
  BY Zenon, <1>7 DEF s
<1>12. GoodRecord(record'[p]) /\ Renewed(rec, record'[p], new) /\ Keeps(rec, record'[p], new)
  BY <1>1, <1>2, <1>7, <1>10, <1>11, ReplaceRenews
<1>13. Renews(p, new)
  BY Zenon, <1>8, <1>10, <1>12 DEF Renews
<1>14. new = [s EXCEPT !.senderIndex = @ + 1] /\ m = NextMessage(s)
  BY Zenon DEF new, m
<1> QED
  BY Zenon, <1>1, <1>4, <1>5, <1>9, <1>12, <1>13, <1>14

\* message_decrypt_prekey and message_decrypt_signal
LEMMA DecryptEffect ==
  ASSUME WellOrdered, KeysInv, NEW p \in Parties, NEW msg \in Sent(p), DecryptLoaded(p, record[p], msg)
  PROVE  \E s, r :
           /\ Candidate(p, record[p], msg, s) /\ GoodState(s)
           /\ r = DecryptWithState(s, msg, nextKey) /\ r.result = "ok"
           /\ Renews(p, r.state)
           /\ s \in StatesOf(record[p]) \/ Len(record[p].previous) < ArchivedStatesMax
              => Keeps(record[p], record'[p], r.state)
           /\ nextKey' = IF r.state.senderKey = nextKey THEN nextKey + 1 ELSE nextKey
<1> DEFINE rec == record[p]
           d == Decrypt(p, rec, msg)
<1>1. /\ d.result = "ok"
      /\ record' = [record EXCEPT ![p] = d.record]
      /\ nextKey' = IF d.record.current[1].senderKey = nextKey THEN nextKey + 1 ELSE nextKey
  BY Zenon DEF DecryptLoaded
<1>2. /\ GoodRecord(rec) /\ (\A t \in StatesOf(rec) : GoodState(t)) /\ DOMAIN record = Parties
      /\ nextKey \in Nat /\ msg \in Messages /\ Len(msg.preKey) <= 1
  BY Zenon DEF KeysInv, Typed, Fresh, FreshMessage
<1> HIDE DEF d
<1>3. DecidedRight(p, rec, msg, d)
  BY Zenon, <1>2, DecryptFrom DEF d
<1>b. PICK s : DecidedBy(p, rec, msg, d, s, DecryptWithState(s, msg, nextKey))
  BY Zenon, <1>1, <1>3 DEF DecidedRight
<1> DEFINE r == DecryptWithState(s, msg, nextKey)
<1>4. /\ Candidate(p, rec, msg, s) /\ GoodState(s) /\ d.result = r.result
      /\ GoodRecord(d.record) /\ Renewed(rec, d.record, r.state)
      /\ s \in StatesOf(rec) \/ Len(rec.previous) < ArchivedStatesMax
         => Keeps(rec, d.record, r.state)
  BY Zenon, <1>b DEF DecidedBy
<1>5. GoodState(r.state)
  <2>1. Outcome(s, msg, nextKey, r)
    BY Zenon, <1>2, <1>4, DecryptOutcome
  <2> QED
    BY Zenon, <2>1 DEF Outcome
<1>c. r = DecryptWithState(s, msg, nextKey)
  BY Zenon DEF r
<1> HIDE DEF r
<1>6. record'[p] = d.record /\ DOMAIN record' = Parties
      /\ \A q \in Parties : q # p => record'[q] = record[q]
  BY Zenon, <1>1, <1>2
<1>7. Renews(p, r.state)
  BY Zenon, <1>4, <1>5, <1>6 DEF Renews
<1>8. d.record.current[1] = r.state
  <2>1. d.record.current = << r.state >>
    BY Zenon, <1>4 DEF Renewed
  <2> QED
    BY <2>1
<1>9. /\ r.result = "ok"
      /\ s \in StatesOf(rec) \/ Len(rec.previous) < ArchivedStatesMax
         => Keeps(rec, record'[p], r.state)
      /\ nextKey' = IF r.state.senderKey = nextKey THEN nextKey + 1 ELSE nextKey
  BY Zenon, <1>1, <1>4, <1>6, <1>8
<1> QED
  BY Zenon, <1>4, <1>7, <1>9, <1>c

\* A ratchet step with a key pair that is not old makes a key that is not old.
LEMMA NewChain ==
  ASSUME NEW root \in ChainKeys, NEW a \in Nat, NEW b \in Nat, NEW n \in Nat, n <= b,
         NEW c \in ChainKeys, Old(c, n)
  PROVE  c # CreateChain(root, a, b)
<1> SUFFICES ASSUME c = CreateChain(root, a, b) PROVE FALSE
  BY Zenon
<1>1. Len(c) = Len(root) + 1 /\ c[Len(root) + 1] = {a, b}
  BY ZenonT(30), CreateChainType
<1>2. Len(root) + 1 \in DOMAIN c
  BY <1>1 DEF ChainKeys
<1>3. b < n
  BY Zenon, <1>1, <1>2 DEF Old
<1> QED
  BY <1>3

\* All records after a step of p.
LEMMA StatesAfter ==
  ASSUME KeysInv, NEW p \in Parties, NEW s, Renews(p, s)
  PROVE  /\ \A q \in Parties : GoodRecord(record'[q])
         /\ \A q \in Parties : \A t \in StatesOf(record'[q]) : GoodState(t)
         /\ s \in StatesOf(record'[p])
         /\ \A t \in StatesOf(record'[p]) : t = s \/ \E u \in StatesOf(record[p]) :
              u.aliceBase # s.aliceBase /\ t = ClearUnacknowledged(u)
<1>1. \A q \in Parties : GoodRecord(record[q]) /\ \A t \in StatesOf(record[q]) : GoodState(t)
  BY Zenon DEF KeysInv, Typed
<1>2. /\ GoodRecord(record'[p]) /\ Renewed(record[p], record'[p], s) /\ GoodState(s)
      /\ \A q \in Parties : q # p => record'[q] = record[q]
  BY Zenon DEF Renews
<1>3. /\ s \in StatesOf(record'[p])
      /\ \A t \in StatesOf(record'[p]) : t = s \/ \E u \in StatesOf(record[p]) :
           u.aliceBase # s.aliceBase /\ t = ClearUnacknowledged(u)
  BY <1>2, RenewedStates
<1>4. \A t \in StatesOf(record'[p]) : GoodState(t)
  BY Zenon, <1>1, <1>2, <1>3, ClearedIsGood
<1>5. \A q \in Parties : \A t \in StatesOf(record'[q]) : GoodState(t)
  BY Zenon, <1>1, <1>2, <1>4
<1>6. \A q \in Parties : GoodRecord(record'[q])
  BY Zenon, <1>1, <1>2
<1> QED
  BY Zenon, <1>3, <1>5, <1>6

\* What is fresh stays so, if the renewed state is.
LEMMA FreshAfter ==
  ASSUME KeysInv, NEW p \in Parties, NEW s, Renews(p, s),
         NEW n \in Nat, nextKey <= n, FreshState(s, n)
  PROVE  /\ \A q \in Parties : SignedPreKey[q] < n
         /\ \A q \in Parties : \A t \in StatesOf(record'[q]) : FreshState(t, n)
         /\ \A q \in Parties : \A m \in Sent(q) : FreshMessage(m, n)
<1>1. /\ nextKey \in Nat
      /\ \A q \in Parties : SignedPreKey[q] < nextKey
      /\ \A q \in Parties : \A t \in StatesOf(record[q]) : FreshState(t, nextKey) /\ GoodState(t)
      /\ \A q \in Parties : \A m \in Sent(q) : FreshMessage(m, nextKey)
  BY Zenon DEF KeysInv, Typed, Fresh
<1>2. \A q \in Parties : \A t \in StatesOf(record[q]) : FreshState(t, n) /\ GoodState(t)
  <2>1. \A q \in Parties : \A t \in StatesOf(record[q]) : t \in SessionStates
    BY Zenon, <1>1 DEF GoodState
  <2> QED
    BY Zenon, <1>1, <2>1, OldStaysOld
<1>3. \A q \in Parties : \A m \in Sent(q) : FreshMessage(m, n)
  BY Zenon, <1>1, OldStaysOld
<1>4. \A q \in Parties : SignedPreKey[q] < n
  <2>1. \A q \in Parties : SignedPreKey[q] \in Nat
    BY Zenon, SessionAssumption
  <2> QED
    BY <1>1, <2>1
<1>5. \A t \in StatesOf(record'[p]) : FreshState(t, n)
  <2>1. ASSUME NEW t \in StatesOf(record'[p]) PROVE FreshState(t, n)
    <3>1. t = s \/ \E u \in StatesOf(record[p]) : t = ClearUnacknowledged(u)
      BY StatesAfter
    <3> QED
      BY Zenon, <1>2, <3>1, ClearedIsFresh
  <2> QED
    BY Zenon, <2>1
<1>6. \A q \in Parties : q # p => record'[q] = record[q]
  BY Zenon DEF Renews
<1> QED
  BY Zenon, <1>2, <1>3, <1>4, <1>5, <1>6

\* What the candidate state and the message contribute to the state that opened it.
Freshened(p, msg, s, new) ==
  /\ Knows(s, msg.ratchetKey) =>
       s \in StatesOf(record[p]) /\ s.senderKey < nextKey /\ FreshState(new, nextKey)
  /\ ~Knows(s, msg.ratchetKey) => FreshState(new, nextKey + 1)
  /\ TriedChain(s, msg).chainKey = msg.chainKey
  /\ s.aliceBase < nextKey /\ msg.chainKey[1] = {s.aliceBase}

LEMMA DecryptedIsFresh ==
  ASSUME KeysInv, NEW p \in Parties, NEW msg \in Sent(p), NEW s, GoodState(s),
         Candidate(p, record[p], msg, s),
         NEW r, r = DecryptWithState(s, msg, nextKey), r.result = "ok"
  PROVE  Freshened(p, msg, s, r.state)
<1>1. nextKey \in Nat /\ FreshMessage(msg, nextKey) /\ msg \in Messages
      /\ \A q \in Parties : SignedPreKey[q] < nextKey
  BY Zenon DEF KeysInv, Typed, Fresh, FreshMessage
<1>m. /\ msg.ratchetKey \in Nat /\ msg.chainKey \in ChainKeys /\ msg.preKey \in Seq(PreKeys)
      /\ msg.ratchetKey < nextKey /\ Old(msg.chainKey, nextKey) /\ Len(msg.preKey) <= 1
      /\ msg.preKey # <<>> => msg.chainKey[1] = {msg.preKey[1].base}
  BY Zenon, <1>1 DEF FreshMessage, Messages
<1>s. s.rootKey \in ChainKeys /\ s.senderKey \in Nat /\ s.aliceBase \in Nat
  BY Zenon DEF GoodState, SessionStates
<1>2. /\ s.aliceBase < nextKey /\ s.senderKey < nextKey
      /\ Old(s.rootKey, nextKey) /\ s.rootKey[1] = {s.aliceBase}
      /\ \A c \in ChainsOf(s) :
           c.ratchetKey < nextKey /\ Old(c.chainKey, nextKey) /\ c.chainKey[1] = {s.aliceBase}
      /\ Knows(s, msg.ratchetKey) => s \in StatesOf(record[p]) /\ FreshState(s, nextKey)
  <2>1. CASE s \in StatesOf(record[p])
    <3>1. FreshState(s, nextKey)
      BY Zenon, <2>1 DEF KeysInv, Fresh
    <3> QED
      BY Zenon, <2>1, <3>1 DEF FreshState
  <2>2. CASE s \notin StatesOf(record[p])
    <3> DEFINE base == msg.preKey[1].base
    <3>1. msg.preKey # <<>> /\ s = InitializeBobSession(base, SignedPreKey[p])
      BY Zenon, <2>2 DEF Candidate
    <3>2. base \in Nat
      <4>1. msg.preKey[1] \in PreKeys
        BY Zenon, <1>m, <3>1, OneOrNone
      <4> QED
        BY Zenon, <4>1 DEF PreKeys
    <3>3. base < nextKey
      <4>1. msg.chainKey[1] = {base} /\ 1 \in DOMAIN msg.chainKey
        <5>1. msg.chainKey[1] = {base}
          BY Zenon, <1>m, <3>1
        <5>2. msg.chainKey # <<>> /\ msg.chainKey \in Seq(SUBSET Nat)
          BY Zenon, <1>m DEF Old, ChainKeys
        <5>3. Len(msg.chainKey) # 0 /\ Len(msg.chainKey) \in Nat
          BY <5>2
        <5>4. 1 \in 1..Len(msg.chainKey)
          BY <5>3
        <5> QED
          BY <5>1, <5>2, <5>4
      <4> QED
        BY Zenon, <1>m, <4>1 DEF Old
    <3>4. SignedPreKey[p] \in Nat /\ SignedPreKey[p] < nextKey
      BY Zenon, <1>1, SessionAssumption
    <3> HIDE DEF base
    <3> DEFINE mine == SignedPreKey[p]
    <3>a. mine \in Nat /\ s = InitializeBobSession(base, mine)
      BY Zenon, <3>1, <3>4
    <3> HIDE DEF mine
    <3>b. BobState(s, base, mine)
      BY Zenon, <3>2, <3>a, BobIsGood
    <3>5. /\ ChainsOf(s) = {} /\ s.aliceBase = base /\ s.senderKey = SignedPreKey[p]
          /\ s.rootKey = << {base} >>
      BY Zenon, <3>b DEF BobState, mine
    <3>6. Old(<< {base} >>, nextKey) /\ << {base} >>[1] = {base}
      BY <3>3 DEF Old
    <3>7. ~Knows(s, msg.ratchetKey)
      BY Zenon, <3>5, KnownChain
    <3> QED
      BY Zenon, <3>3, <3>4, <3>5, <3>6, <3>7
  <2> QED
    BY Zenon, <2>1, <2>2
<1> DEFINE c == TriedChain(s, msg)
           g == Got(s, msg).chain
<1>3. c \in Chains /\ c.ratchetKey = msg.ratchetKey /\ \A k \in c.keys : k < c.index
  BY Zenon, <1>1, TriedChainType
<1>o. Outcome(s, msg, nextKey, r)
  BY Zenon, <1>1, DecryptOutcome
<1>4. /\ GoodState(r.state) /\ r.state.aliceBase = s.aliceBase /\ r.state.pending = <<>>
      /\ \A e \in ChainsOf(r.state) : e = g \/ e \in ChainsOf(s)
      /\ r.result = IF Got(s, msg).result = "ok" /\ c.chainKey # msg.chainKey
                    THEN "invalid" ELSE Got(s, msg).result
  <2>1. GoodState(r.state) /\ r.state.aliceBase = s.aliceBase /\ r.state.pending = <<>>
    BY Zenon, <1>o DEF Outcome
  <2>2. \A e \in ChainsOf(r.state) : e = g \/ e \in ChainsOf(s)
    BY Zenon, <1>o DEF Outcome
  <2>3. r.result = IF Got(s, msg).result = "ok" /\ c.chainKey # msg.chainKey
                    THEN "invalid" ELSE Got(s, msg).result
    BY Zenon, <1>o DEF Outcome
  <2> QED
    BY Zenon, <2>1, <2>2, <2>3
<1>5. c.chainKey = msg.chainKey /\ Got(s, msg).result = "ok"
  BY Zenon, <1>4
<1>6. g.ratchetKey = msg.ratchetKey /\ g.chainKey = msg.chainKey
  <2>1. msg.counter \in Nat
    BY Zenon, <1>1 DEF Messages
  <2> QED
    BY Zenon, <1>3, <1>5, <2>1, KeyResults DEF Got
<1>7. msg.chainKey[1] = {s.aliceBase}
  <2>1. CASE Knows(s, msg.ratchetKey)
    BY <1>2, <1>5, <2>1, KnownChain
  <2>2. CASE ~Knows(s, msg.ratchetKey)
    <3>1. c.chainKey = CreateChain(s.rootKey, msg.ratchetKey, s.senderKey)
      BY Zenon, <1>1, <2>2, TriedChainType
    <3>2. /\ s.rootKey \in ChainKeys /\ Old(s.rootKey, nextKey) /\ s.rootKey[1] = {s.aliceBase}
          /\ nextKey \in Nat /\ msg.ratchetKey \in Nat /\ msg.ratchetKey < nextKey
          /\ s.senderKey \in Nat /\ s.senderKey < nextKey
      BY Zenon, <1>1, <1>2, <1>m, <1>s, <2>2
    <3>3. CreateChain(s.rootKey, msg.ratchetKey, s.senderKey)[1] = s.rootKey[1]
      BY <3>2, AgreementIsOld
    <3> QED
      BY Zenon, <1>5, <3>1, <3>2, <3>3
  <2> QED
    BY Zenon, <2>1, <2>2
<1> HIDE DEF c, g
<1>8. ASSUME NEW n \in Nat, nextKey <= n, NEW e \in ChainsOf(r.state)
      PROVE  e.ratchetKey < n /\ Old(e.chainKey, n) /\ e.chainKey[1] = {r.state.aliceBase}
  <2>1. e.ratchetKey \in Nat /\ e.chainKey \in ChainKeys
    BY <1>4, KnownChain DEF Chains
  <2>2. e.ratchetKey < nextKey /\ Old(e.chainKey, nextKey) /\ e.chainKey[1] = {s.aliceBase}
    BY Zenon, <1>2, <1>4, <1>6, <1>7, <1>m
  <2> QED
    BY <1>1, <1>4, <1>8, <2>1, <2>2, OldStaysOld
<1>9. Len(r.state.pending) <= 1 /\ r.state.pending = <<>>
  BY <1>4
<1>10. ASSUME Knows(s, msg.ratchetKey) PROVE FreshState(r.state, nextKey)
  <2>1. /\ r.state.rootKey = s.rootKey /\ r.state.senderKey = s.senderKey
        /\ r.state.senderChain = s.senderChain
    BY Zenon, <1>o, <1>10 DEF Outcome
  <2>2. FreshState(s, nextKey)
    BY Zenon, <1>2, <1>10
  <2> QED
    BY <1>1, <1>4, <1>8, <1>9, <2>1, <2>2 DEF FreshState
<1>11. ASSUME ~Knows(s, msg.ratchetKey) PROVE FreshState(r.state, nextKey + 1)
  <2>1. /\ r.state.senderKey = nextKey /\ r.state.rootKey = r.state.senderChain
        /\ r.state.senderChain = CreateChain(msg.chainKey, msg.ratchetKey, nextKey)
    BY Zenon, <1>o, <1>5, <1>11 DEF Outcome, c
  <2> DEFINE n == nextKey + 1
  <2>2. n \in Nat /\ nextKey <= n /\ nextKey < n /\ s.aliceBase < n /\ msg.ratchetKey < n
    BY <1>1, <1>2, <1>m, <1>s
  <2>3. Old(msg.chainKey, n)
    <3> HIDE DEF n
    <3> QED
      BY Zenon, <1>1, <1>m, <2>2, OldStaysOld
  <2> HIDE DEF n
  <2>4. Old(r.state.senderChain, n) /\ r.state.senderChain[1] = {s.aliceBase}
    BY <1>1, <1>7, <1>m, <2>1, <2>2, <2>3, AgreementIsOld
  <2>5. \A q \in Parties : nextKey # SignedPreKey[q]
    BY <1>1, SessionAssumption
  <2>6. FreshState(r.state, n)
    BY Zenon, <1>4, <1>8, <1>9, <2>1, <2>2, <2>4, <2>5 DEF FreshState
  <2> QED
    BY Zenon, <2>6 DEF n
<1> QED
  BY Zenon, <1>2, <1>5, <1>7, <1>10, <1>11 DEF Freshened, c

LEMMA KeysInit == Init => KeysInv
<1> SUFFICES ASSUME Init PROVE KeysInv
  BY Zenon
<1> DEFINE S == {SignedPreKey[p] : p \in Parties}
<1>1. Max(S) \in S /\ \A y \in S : Max(S) >= y
  <2>1. PICK a \in Parties, b \in Parties : Parties = {a, b}
    BY Zenon, SessionAssumption
  <2> DEFINE x == SignedPreKey[a]
             y == SignedPreKey[b]
  <2>2. x \in Nat /\ y \in Nat /\ S = {x, y}
    BY <2>1, SessionAssumption
  <2> HIDE DEF x, y, S
  <2>3. \E z \in S : \A w \in S : z >= w
    <3>1. CASE x >= y
      BY <2>2, <3>1
    <3>2. CASE y >= x
      BY <2>2, <3>2
    <3> QED
      BY <2>2, <3>1, <3>2
  <2> QED
    BY Zenon, <2>3 DEF Max
<1>2. S \in SUBSET Nat
  BY SessionAssumption
<1>3. nextKey = 1 + Max(S)
  BY Zenon DEF Init
<1>4. \A p \in Parties : SignedPreKey[p] \in S
  BY Zenon
<1> HIDE DEF S
<1>5. nextKey \in Nat /\ \A y \in S : y < nextKey
  <2> DEFINE top == Max(S)
  <2>1. top \in Nat /\ nextKey = 1 + top
    BY Zenon, <1>1, <1>2, <1>3
  <2>2. \A y \in S : y \in Nat /\ top >= y
    BY Zenon, <1>1, <1>2
  <2> HIDE DEF top
  <2> QED
    BY <2>1, <2>2
<1>6. \A p \in Parties : SignedPreKey[p] < nextKey
  BY Zenon, <1>4, <1>5
<1>7. \A p \in Parties : record[p] = FreshRecord /\ opens[p] = <<>>
  BY Zenon DEF Init
<1>8. Range(FreshRecord.current) = {} /\ Range(FreshRecord.previous) = {}
  BY Zenon, RangeEmpty DEF FreshRecord
<1>9. GoodRecord(FreshRecord) /\ StatesOf(FreshRecord) = {}
  <2>1. <<>> \in Seq(SessionStates) /\ Len(<<>>) = 0 /\ DOMAIN <<>> = {}
    OBVIOUS
  <2>2. FreshRecord \in Records
    BY Zenon, <2>1 DEF FreshRecord, Records
  <2>3. 0 <= ArchivedStatesMax /\ 0 <= 1
    BY SessionAssumption
  <2>4. FreshRecord.current = <<>> /\ FreshRecord.previous = <<>>
    BY Zenon DEF FreshRecord
  <2> QED
    BY Zenon, <1>8, <2>1, <2>2, <2>3, <2>4 DEF GoodRecord, StatesOf
<1>10. \A p \in Parties : Sent(p) = {} /\ opens[p] \in [Sent(p) -> Nat]
  <2>1. DOMAIN <<>> = {} /\ <<>> \in [{} -> Nat]
    OBVIOUS
  <2>2. \A p \in Parties : Sent(p) = {}
    BY Zenon, <1>7, <2>1 DEF Sent
  <2> QED
    BY Zenon, <1>7, <2>1, <2>2
<1>11. Typed
  <2>1. /\ DOMAIN record = Parties /\ DOMAIN opens = Parties
        /\ prekeys \in [Parties -> SUBSET OneTimePreKeys]
        /\ offered \in [Parties -> SUBSET OneTimePreKeys]
    BY Zenon DEF Init
  <2>2. bundles \in 0..MaxBundles
    BY SessionAssumption DEF Init
  <2> QED
    BY Zenon, <1>5, <1>7, <1>9, <1>10, <2>1, <2>2 DEF Typed
<1>12. Fresh
  BY Zenon, <1>6, <1>7, <1>9, <1>10 DEF Fresh
<1>13. Ahead
  BY Zenon, <1>7, <1>9 DEF Ahead
<1> QED
  BY Zenon, <1>11, <1>12, <1>13 DEF KeysInv

\* A state that is not the renewed one sends as it did.
LEMMA AheadElsewhere ==
  ASSUME KeysInv, NEW p \in Parties, NEW s, Renews(p, s),
         NEW t \in StatesOf(record'[p]), t # s, NEW m \in Sent(Other(p)),
         m.chainKey = t.senderChain
  PROVE  m.counter < t.senderIndex
<1>1. PICK u \in StatesOf(record[p]) : t = ClearUnacknowledged(u)
  BY StatesAfter
<1>2. u \in SessionStates
  BY Zenon DEF KeysInv, Typed, GoodState
<1>3. t.senderChain = u.senderChain /\ t.senderIndex = u.senderIndex
  BY Zenon, <1>1, <1>2, ClearFacts
<1> QED
  BY Zenon, <1>3 DEF KeysInv, Ahead

\* process_prekey_bundle keeps the keys fresh.
LEMMA KeysBundle ==
  ASSUME KeysInv, NEW p \in Parties, ProcessPreKeyBundle(p)
  PROVE  KeysInv'
<1> DEFINE q == Other(p)
           New(x) == InitializeAliceSession(nextKey, nextKey + 1, SignedPreKey[q],
                                            [base |-> nextKey, oneTime |-> x])
<1>a. PICK oneTime \in Bundle(q) : \E s :
           /\ s = New(oneTime) /\ oneTime \in Seq(OneTimePreKeys) /\ Renews(p, s)
           /\ offered' = [offered EXCEPT ![q] = @ \ Range(oneTime)]
  BY Zenon, BundleEffect
<1>1. PICK s :
           /\ s = New(oneTime) /\ oneTime \in Seq(OneTimePreKeys) /\ Renews(p, s)
           /\ offered' = [offered EXCEPT ![q] = @ \ Range(oneTime)]
  BY Zenon, <1>a
<1>2. /\ nextKey' = nextKey + 2 /\ bundles' = bundles + 1 /\ prekeys' = prekeys /\ opens' = opens
      /\ bundles < MaxBundles
  BY Zenon DEF ProcessPreKeyBundle
<1>3. q \in Parties /\ SignedPreKey[q] \in Nat
  BY Zenon, Others, SessionAssumption
<1>4. nextKey \in Nat /\ \A r \in Parties : SignedPreKey[r] < nextKey
  BY Zenon DEF KeysInv, Typed, Fresh
<1> DEFINE theirs == SignedPreKey[q]
           preKey == [base |-> nextKey, oneTime |-> oneTime]
           key == nextKey + 1
           n == nextKey + 2
<1>5. /\ key \in Nat /\ n \in Nat /\ nextKey < key /\ key < n /\ nextKey <= n
      /\ theirs \in Nat /\ theirs < nextKey
      /\ preKey \in PreKeys /\ preKey.base = nextKey
      /\ s = InitializeAliceSession(nextKey, key, theirs, preKey)
  BY <1>1, <1>3, <1>4 DEF PreKeys
<1> HIDE DEF theirs, preKey, key, n, New
<1>6. FreshState(s, n) /\ s.senderChain = CreateChain(DeriveKeys(nextKey), theirs, key)
  <2>1. \A a, b, c, d \in Nat : \A e \in PreKeys :
            /\ a < b /\ b < c /\ d < a /\ e.base = a
            /\ \A r \in Parties : SignedPreKey[r] < a
            => /\ FreshState(InitializeAliceSession(a, b, d, e), c)
               /\ InitializeAliceSession(a, b, d, e).senderChain = CreateChain(DeriveKeys(a), d, b)
    BY AliceIsGood
  <2> QED
    BY <1>4, <1>5, <2>1
<1>7. nextKey' = n /\ n \in Nat
  BY Zenon, <1>2, <1>5 DEF n
<1>8. \A r \in Parties : Sent(r)' = Sent(r)
  BY Zenon, <1>2 DEF Sent
<1>9. Typed'
  <2>1. \A r \in Parties : GoodRecord(record'[r]) /\ \A t \in StatesOf(record'[r]) : GoodState(t)
    BY Zenon, <1>1, StatesAfter
  <2>2. offered' \in [Parties -> SUBSET OneTimePreKeys]
    BY Zenon, <1>1, <1>3 DEF KeysInv, Typed
  <2>3. bundles' \in 0..MaxBundles
    BY <1>2, SessionAssumption DEF KeysInv, Typed
  <2>4. DOMAIN record' = Parties
    BY Zenon, <1>1 DEF Renews
  <2> QED
    BY Zenon, <1>2, <1>7, <1>8, <2>1, <2>2, <2>3, <2>4 DEF KeysInv, Typed
<1>10. Fresh'
  BY Zenon, <1>1, <1>5, <1>6, <1>7, <1>8, FreshAfter DEF Fresh
<1>11. ASSUME NEW t \in StatesOf(record'[p]), NEW m \in Sent(q), m.chainKey = t.senderChain
       PROVE  m.counter < t.senderIndex
  <2>1. t # s
    <3>1. m.chainKey \in ChainKeys /\ Old(m.chainKey, nextKey)
      BY Zenon, <1>3 DEF KeysInv, Fresh, FreshMessage, Messages
    <3>2. DeriveKeys(nextKey) \in ChainKeys
      BY <1>4 DEF DeriveKeys, ChainKeys
    <3>3. nextKey <= key
      BY <1>4, <1>5
    <3>4. m.chainKey # CreateChain(DeriveKeys(nextKey), theirs, key)
      BY Zenon, <1>4, <1>5, <3>1, <3>2, <3>3, NewChain
    <3> QED
      BY Zenon, <1>6, <1>11, <3>4
  <2> QED
    BY Zenon, <1>1, <1>11, <2>1, AheadElsewhere
<1>12. Ahead'
  <2>1. ASSUME NEW r \in Parties, NEW t \in StatesOf(record'[r]), NEW m \in Sent(Other(r)),
               m.chainKey = t.senderChain
        PROVE  m.counter < t.senderIndex
    <3>1. CASE r = p
      BY Zenon, <1>11, <2>1, <3>1
    <3>2. CASE r # p
      <4>1. record'[r] = record[r]
        BY Zenon, <1>1, <3>2 DEF Renews
      <4> QED
        BY Zenon, <2>1, <4>1 DEF KeysInv, Ahead
    <3> QED
      BY Zenon, <3>1, <3>2
  <2>2. \A r \in Parties : Sent(Other(r))' = Sent(Other(r))
    BY Zenon, <1>8, Others
  <2> QED
    BY Zenon, <2>1, <2>2 DEF Ahead
<1> QED
  BY Zenon, <1>9, <1>10, <1>12 DEF KeysInv

\* What posting a message does to the messages sent.
LEMMA PostedFacts ==
  ASSUME KeysInv, NEW q \in Parties, NEW m, opens' = [opens EXCEPT ![q] = Posted(@, m)]
  PROVE  /\ DOMAIN opens' = Parties
         /\ Sent(q)' = Sent(q) \cup {m} /\ opens'[q][m] = 0
         /\ \A x \in Sent(q) : x # m => opens'[q][x] = opens[q][x]
         /\ \A r \in Parties : r # q => Sent(r)' = Sent(r) /\ opens'[r] = opens[r]
         /\ \A r \in Parties : opens'[r] \in [Sent(r)' -> Nat]
<1>1. DOMAIN opens = Parties /\ \A r \in Parties : opens[r] \in [Sent(r) -> Nat]
  BY Zenon DEF KeysInv, Typed
<1>2. opens'[q] = [x \in Sent(q) \cup {m} |-> IF x = m THEN 0 ELSE opens[q][x]]
  BY Zenon, <1>1 DEF Posted, Sent
<1>3. DOMAIN opens' = Parties /\ \A r \in Parties : r # q => opens'[r] = opens[r]
  BY Zenon, <1>1
<1>4. opens'[q] \in [Sent(q) \cup {m} -> Nat]
  BY <1>1, <1>2
<1>5. \A r \in Parties : Sent(r)' = DOMAIN opens'[r]
  BY Zenon DEF Sent
<1>6. Sent(q)' = Sent(q) \cup {m}
  BY Zenon, <1>2, <1>5
<1>7. \A r \in Parties : r # q => Sent(r)' = Sent(r)
  BY Zenon, <1>3, <1>5 DEF Sent
<1> QED
  BY Zenon, <1>1, <1>2, <1>3, <1>4, <1>6, <1>7

\* message_encrypt keeps the keys fresh.
LEMMA KeysEncrypt ==
  ASSUME KeysInv, NEW p \in Parties, EncryptLoaded(p, record[p])
  PROVE  KeysInv'
<1> DEFINE q == Other(p)
<1>a. PICK s \in StatesOf(record[p]) : \E new : \E m \in Messages :
           /\ new = [s EXCEPT !.senderIndex = @ + 1] /\ m = NextMessage(s)
           /\ Renews(p, new) /\ opens' = [opens EXCEPT ![q] = Posted(@, m)]
  BY EncryptEffect
<1>b. PICK new : \E m \in Messages :
           /\ new = [s EXCEPT !.senderIndex = @ + 1] /\ m = NextMessage(s)
           /\ Renews(p, new) /\ opens' = [opens EXCEPT ![q] = Posted(@, m)]
  BY Zenon, <1>a
<1>1. PICK m \in Messages :
           /\ new = [s EXCEPT !.senderIndex = @ + 1] /\ m = NextMessage(s)
           /\ Renews(p, new) /\ opens' = [opens EXCEPT ![q] = Posted(@, m)]
  BY Zenon, <1>b
<1>2. nextKey' = nextKey /\ bundles' = bundles /\ prekeys' = prekeys /\ offered' = offered
  BY Zenon DEF EncryptLoaded
<1>3. q \in Parties /\ q # p
  BY Zenon, Others
<1>4. /\ s \in SessionStates /\ GoodState(s) /\ FreshState(s, nextKey)
      /\ nextKey \in Nat /\ nextKey <= nextKey
  BY DEF KeysInv, Typed, Fresh, GoodState
<1>5. /\ new.aliceBase = s.aliceBase /\ new.senderChain = s.senderChain
      /\ new.senderKey = s.senderKey /\ new.rootKey = s.rootKey
      /\ new.receivers = s.receivers /\ new.pending = s.pending
      /\ new.senderIndex = s.senderIndex + 1 /\ s.senderIndex \in Nat
  BY Zenon, <1>1, <1>4 DEF SessionStates
<1>6. FreshState(new, nextKey)
  BY Zenon, <1>4, <1>5 DEF FreshState, ChainsOf
<1>7. /\ m.ratchetKey = s.senderKey /\ m.chainKey = s.senderChain
      /\ m.counter = s.senderIndex /\ m.preKey = s.pending
  BY Zenon, <1>1 DEF NextMessage
<1>8. FreshMessage(m, nextKey)
  BY Zenon, <1>1, <1>4, <1>7 DEF FreshMessage, FreshState
<1>9. /\ DOMAIN opens' = Parties /\ Sent(q)' = Sent(q) \cup {m}
      /\ \A r \in Parties : r # q => Sent(r)' = Sent(r)
      /\ \A r \in Parties : opens'[r] \in [Sent(r)' -> Nat]
  BY Zenon, <1>1, <1>3, PostedFacts
<1>10. Typed'
  <2>1. \A r \in Parties : GoodRecord(record'[r]) /\ \A t \in StatesOf(record'[r]) : GoodState(t)
    BY Zenon, <1>1, StatesAfter
  <2>2. DOMAIN record' = Parties
    BY Zenon, <1>1 DEF Renews
  <2> QED
    BY Zenon, <1>2, <1>9, <2>1, <2>2 DEF KeysInv, Typed
<1>11. Fresh'
  <2>1. /\ \A r \in Parties : SignedPreKey[r] < nextKey
        /\ \A r \in Parties : \A t \in StatesOf(record'[r]) : FreshState(t, nextKey)
        /\ \A r \in Parties : \A x \in Sent(r) : FreshMessage(x, nextKey)
    BY Zenon, <1>1, <1>4, <1>6, FreshAfter
  <2>2. \A r \in Parties : \A x \in Sent(r)' : FreshMessage(x, nextKey)
    BY Zenon, <1>8, <1>9, <2>1
  <2> QED
    BY Zenon, <1>2, <2>1, <2>2 DEF Fresh
<1>12. ASSUME NEW t \in StatesOf(record'[p]), NEW x \in Sent(q) \cup {m},
              x.chainKey = t.senderChain
       PROVE  x.counter < t.senderIndex
  <2>1. CASE t = new
    <3>1. CASE x = m
      BY <1>5, <1>7, <2>1, <3>1
    <3>2. CASE x \in Sent(q)
      <4>1. x.counter < s.senderIndex
        BY Zenon, <1>5, <1>12, <2>1, <3>2 DEF KeysInv, Ahead
      <4>2. x.counter \in Nat
        BY Zenon, <1>3, <3>2 DEF KeysInv, Fresh, FreshMessage, Messages
      <4> QED
        BY <1>5, <2>1, <4>1, <4>2
    <3> QED
      BY Zenon, <3>1, <3>2
  <2>2. CASE t # new
    <3>1. PICK u \in StatesOf(record[p]) :
            u.aliceBase # new.aliceBase /\ t = ClearUnacknowledged(u)
      <4>1. \A y \in StatesOf(record'[p]) : y = new \/ \E u \in StatesOf(record[p]) :
              u.aliceBase # new.aliceBase /\ y = ClearUnacknowledged(u)
        <5>1. Renews(p, new)
          BY Zenon, <1>1
        <5> QED
          BY <5>1, StatesAfter
      <4> QED
        BY Zenon, <2>2, <4>1
    <3>2. u \in SessionStates /\ FreshState(u, nextKey)
      BY Zenon DEF KeysInv, Typed, Fresh, GoodState
    <3>3. t.senderChain = u.senderChain
      BY Zenon, <3>1, <3>2, ClearFacts
    <3>4. m.chainKey # t.senderChain
      BY Zenon, <1>4, <1>5, <1>7, <3>1, <3>2, <3>3 DEF FreshState
    <3> QED
      BY Zenon, <1>1, <1>12, <2>2, <3>4, AheadElsewhere
  <2> QED
    BY Zenon, <2>1, <2>2
<1>13. Ahead'
  <2>1. ASSUME NEW r \in Parties, NEW t \in StatesOf(record'[r]), NEW x \in Sent(Other(r))',
               x.chainKey = t.senderChain
        PROVE  x.counter < t.senderIndex
    <3>1. CASE r = p
      BY Zenon, <1>9, <1>12, <2>1, <3>1
    <3>2. CASE r # p
      <4>1. record'[r] = record[r]
        BY Zenon, <1>1, <3>2 DEF Renews
      <4>2. Other(r) = p
        BY Zenon, <1>3, <3>2, Others
      <4>3. Sent(Other(r))' = Sent(Other(r))
        BY Zenon, <1>3, <1>9, <4>2
      <4> QED
        BY Zenon, <2>1, <4>1, <4>3 DEF KeysInv, Ahead
    <3> QED
      BY Zenon, <3>1, <3>2
  <2> QED
    BY Zenon, <2>1 DEF Ahead
<1> QED
  BY Zenon, <1>10, <1>11, <1>13 DEF KeysInv

\* message_decrypt_prekey and message_decrypt_signal keep the keys fresh.
LEMMA KeysDecrypt ==
  ASSUME WellOrdered, KeysInv, NEW p \in Parties, NEW msg \in Sent(p), DecryptLoaded(p, record[p], msg)
  PROVE  KeysInv'
<1> DEFINE q == Other(p)
<1>1. PICK s, r :
           /\ Candidate(p, record[p], msg, s) /\ GoodState(s)
           /\ r = DecryptWithState(s, msg, nextKey) /\ r.result = "ok"
           /\ Renews(p, r.state)
           /\ nextKey' = IF r.state.senderKey = nextKey THEN nextKey + 1 ELSE nextKey
  BY Zenon, DecryptEffect
<1>2. /\ bundles' = bundles /\ offered' = offered
      /\ prekeys' = [prekeys EXCEPT ![p] = @ \ UsedPreKey(record[p], msg)]
      /\ opens' = [opens EXCEPT ![p][msg] = @ + 1]
  BY Zenon DEF DecryptLoaded
<1>3. nextKey \in Nat /\ msg \in Messages
  BY Zenon DEF KeysInv, Typed, Fresh, FreshMessage
<1>4. /\ Knows(s, msg.ratchetKey) =>
           /\ s \in StatesOf(record[p]) /\ s.senderKey < nextKey
           /\ FreshState(r.state, nextKey)
      /\ ~Knows(s, msg.ratchetKey) => FreshState(r.state, nextKey + 1)
      /\ TriedChain(s, msg).chainKey = msg.chainKey
  <2>1. Candidate(p, record[p], msg, s) /\ GoodState(s)
    BY Zenon, <1>1
  <2>2. r = DecryptWithState(s, msg, nextKey) /\ r.result = "ok"
    BY Zenon, <1>1
  <2>3. Freshened(p, msg, s, r.state)
    BY Zenon, <2>1, <2>2, DecryptedIsFresh
  <2> QED
    BY Zenon, <2>3 DEF Freshened
<1>5. /\ Knows(s, msg.ratchetKey) =>
           /\ r.state.senderKey = s.senderKey /\ r.state.senderChain = s.senderChain
           /\ r.state.senderIndex = s.senderIndex
      /\ ~Knows(s, msg.ratchetKey) =>
           /\ r.state.senderKey = nextKey
           /\ r.state.senderChain =
                CreateChain(TriedChain(s, msg).chainKey, msg.ratchetKey, nextKey)
  <2>1. Outcome(s, msg, nextKey, r)
    BY Zenon, <1>1, <1>3, DecryptOutcome
  <2> QED
    BY Zenon, <2>1 DEF Outcome
<1>6. nextKey' \in Nat /\ nextKey <= nextKey' /\ FreshState(r.state, nextKey')
  <2>1. CASE Knows(s, msg.ratchetKey)
    <3>1. s.senderKey # nextKey
      BY <1>3, <1>4, <2>1
    <3>2. nextKey' = nextKey
      BY Zenon, <1>1, <1>5, <2>1, <3>1
    <3> QED
      BY <1>3, <1>4, <2>1, <3>2
  <2>2. CASE ~Knows(s, msg.ratchetKey)
    <3>1. nextKey' = nextKey + 1
      BY Zenon, <1>1, <1>5, <2>2
    <3> QED
      BY <1>3, <1>4, <2>2, <3>1
  <2> QED
    BY Zenon, <2>1, <2>2
<1>7. /\ DOMAIN opens' = Parties /\ \A x \in Parties : Sent(x)' = Sent(x)
      /\ \A x \in Parties : opens'[x] \in [Sent(x) -> Nat]
  <2>1. DOMAIN opens = Parties /\ \A x \in Parties : opens[x] \in [Sent(x) -> Nat]
    BY Zenon DEF KeysInv, Typed
  <2>2. DOMAIN opens' = Parties /\ \A x \in Parties : opens'[x] \in [Sent(x) -> Nat]
    BY <1>2, <2>1
  <2>3. \A x \in Parties : DOMAIN opens'[x] = Sent(x)
    BY Zenon, <2>2
  <2> QED
    BY Zenon, <2>2, <2>3 DEF Sent
<1>8. Typed'
  <2>1. \A x \in Parties : GoodRecord(record'[x]) /\ \A t \in StatesOf(record'[x]) : GoodState(t)
    BY Zenon, <1>1, StatesAfter
  <2>2. prekeys' \in [Parties -> SUBSET OneTimePreKeys]
    BY Zenon, <1>2 DEF KeysInv, Typed
  <2>3. DOMAIN record' = Parties
    BY Zenon, <1>1 DEF Renews
  <2> QED
    BY Zenon, <1>2, <1>6, <1>7, <2>1, <2>2, <2>3 DEF KeysInv, Typed
<1>9. Fresh'
  <2> DEFINE n == nextKey'
  <2>1. n \in Nat /\ nextKey <= n /\ FreshState(r.state, n)
    BY Zenon, <1>6
  <2> HIDE DEF n
  <2>2. /\ \A x \in Parties : SignedPreKey[x] < n
        /\ \A x \in Parties : \A t \in StatesOf(record'[x]) : FreshState(t, n)
        /\ \A x \in Parties : \A m \in Sent(x) : FreshMessage(m, n)
    BY Zenon, <1>1, <2>1, FreshAfter
  <2> QED
    BY Zenon, <1>7, <2>2 DEF Fresh, n
<1>10. ASSUME NEW t \in StatesOf(record'[p]), NEW m \in Sent(q), m.chainKey = t.senderChain
       PROVE  m.counter < t.senderIndex
  <2>1. CASE t = r.state /\ Knows(s, msg.ratchetKey)
    BY Zenon, <1>4, <1>5, <1>10, <2>1 DEF KeysInv, Ahead
  <2>2. CASE t = r.state /\ ~Knows(s, msg.ratchetKey)
    <3>1. m.chainKey \in ChainKeys /\ Old(m.chainKey, nextKey)
      BY Others DEF KeysInv, Fresh, FreshMessage, Messages
    <3>2. msg.chainKey \in ChainKeys /\ msg.ratchetKey \in Nat /\ nextKey <= nextKey
      BY <1>3 DEF Messages
    <3>3. m.chainKey # CreateChain(msg.chainKey, msg.ratchetKey, nextKey)
      BY Zenon, <1>3, <3>1, <3>2, NewChain
    <3> QED
      BY Zenon, <1>4, <1>5, <1>10, <2>2, <3>3
  <2>3. CASE t # r.state
    BY Zenon, <1>1, <1>10, <2>3, AheadElsewhere
  <2> QED
    BY Zenon, <2>1, <2>2, <2>3
<1>11. Ahead'
  <2>1. ASSUME NEW x \in Parties, NEW t \in StatesOf(record'[x]), NEW m \in Sent(Other(x)),
               m.chainKey = t.senderChain
        PROVE  m.counter < t.senderIndex
    <3>1. CASE x = p
      BY Zenon, <1>10, <2>1, <3>1
    <3>2. CASE x # p
      <4>1. record'[x] = record[x]
        BY Zenon, <1>1, <3>2 DEF Renews
      <4> QED
        BY Zenon, <2>1, <4>1 DEF KeysInv, Ahead
    <3> QED
      BY Zenon, <3>1, <3>2
  <2>2. \A x \in Parties : Sent(Other(x))' = Sent(Other(x))
    BY Zenon, <1>7, Others
  <2> QED
    BY Zenon, <2>1, <2>2 DEF Ahead
<1> QED
  BY Zenon, <1>8, <1>9, <1>11 DEF KeysInv

LEMMA KeysStep ==
  ASSUME WellOrdered PROVE KeysInv /\ [Next]_vars => KeysInv'
<1> SUFFICES ASSUME KeysInv, [Next]_vars PROVE KeysInv'
  BY Zenon
<1>1. CASE UNCHANGED vars
  BY Zenon, <1>1 DEF vars, KeysInv, Typed, Fresh, Ahead, Sent
<1>2. CASE Next
  <2>1. PICK p \in Parties : \/ ProcessPreKeyBundle(p) \/ MessageEncrypt(p)
                            \/ \E msg \in Sent(p) : MessageDecrypt(p, msg)
    BY Zenon, <1>2 DEF Next
  <2>2. CASE ProcessPreKeyBundle(p)
    BY Zenon, <2>2, KeysBundle
  <2>3. CASE MessageEncrypt(p)
    BY Zenon, <2>3, KeysEncrypt DEF MessageEncrypt
  <2>4. CASE \E msg \in Sent(p) : MessageDecrypt(p, msg)
    BY Zenon, <2>4, KeysDecrypt DEF MessageDecrypt
  <2> QED
    BY Zenon, <2>1, <2>2, <2>3, <2>4
<1> QED
  BY Zenon, <1>1, <1>2

\* What the invariant says of the types and of the next message keys.
LEMMA KeysImply == KeysInv => TypeOK /\ FreshMessageKeys
<1> SUFFICES ASSUME KeysInv PROVE TypeOK /\ FreshMessageKeys
  BY Zenon
<1>1. TypeOK
  <2>1. ASSUME NEW p \in Parties, NEW i \in DOMAIN States(p)
        PROVE  Len(States(p)[i].receivers) <= MaxReceiverChains
    <3>1. GoodRecord(record[p])
      BY Zenon DEF KeysInv, Typed
    <3>2. Range(States(p)) = StatesOf(record[p])
      BY Zenon, <3>1, FlatFacts DEF States
    <3>3. States(p)[i] \in StatesOf(record[p])
      BY Zenon, <3>2 DEF Range
    <3> QED
      BY Zenon, <3>3 DEF KeysInv, Typed, GoodState
  <2> QED
    BY Zenon, <2>1 DEF KeysInv, Typed, TypeOK, GoodRecord
<1>2. FreshMessageKeys
  <2> SUFFICES ASSUME NEW p \in Parties, record[p].current # <<>>,
                      NEW msg \in Sent(Other(p)), NEW s, s = record[p].current[1],
                      msg.chainKey = s.senderChain, msg.counter = s.senderIndex
               PROVE  FALSE
    BY Zenon DEF FreshMessageKeys, NextMessage
  <2>1. record[p].current \in Seq(SessionStates) /\ Len(record[p].current) <= 1
    BY Zenon DEF KeysInv, Typed, GoodRecord, Records
  <2>2. Range(record[p].current) = {record[p].current[1]}
    BY Zenon, <2>1, OneOrNone
  <2>3. s \in StatesOf(record[p])
    BY Zenon, <2>2 DEF StatesOf
  <2>4. msg.counter < s.senderIndex
    BY Zenon, <2>3 DEF KeysInv, Ahead
  <2>5. s.senderIndex \in Nat
    BY Zenon, <2>3 DEF KeysInv, Typed, GoodState, SessionStates
  <2> QED
    BY <2>4, <2>5
<1> QED
  BY Zenon, <1>1, <1>2

-----------------------------------------------------------------------------
(* Prekeys and messages, for the proofs about delivery *)

\* The prekeys that name a session towards p, in messages and in states that
\* still send them.
PreKeysFor(p) ==
  {k \in PreKeys : \/ \E m \in Sent(p) : m.preKey = << k >>
                   \/ \E s \in StatesOf(record[Other(p)]) : s.pending = << k >>}

Has(p, base) == \E s \in StatesOf(record[p]) : s.aliceBase = base

\* The base key of a prekey was generated before.
LEMMA BasesAreOld ==
  ASSUME KeysInv, NEW p \in Parties, NEW k \in PreKeysFor(p)
  PROVE  k \in PreKeys /\ k.base < nextKey
<1>1. k \in PreKeys
  BY Zenon DEF PreKeysFor
<1>2. ASSUME NEW m \in Sent(p), m.preKey = << k >>
      PROVE  k.base < nextKey
  <2>1. FreshMessage(m, nextKey)
    BY Zenon DEF KeysInv, Fresh
  <2>2. m.preKey # <<>> /\ m.preKey[1] = k
    BY <1>2
  <2>3. Old(m.chainKey, nextKey) /\ m.chainKey \in Seq(SUBSET Nat) /\ m.chainKey[1] = {k.base}
    BY Zenon, <2>1, <2>2 DEF FreshMessage, Messages, ChainKeys
  <2>4. 1 \in DOMAIN m.chainKey
    <3>1. Len(m.chainKey) \in Nat /\ Len(m.chainKey) # 0
      BY <2>3 DEF Old
    <3> QED
      BY <2>3, <3>1
  <2>5. k.base \in m.chainKey[1]
    BY Zenon, <2>3
  <2> QED
    BY Zenon, <2>3, <2>4, <2>5 DEF Old
<1>3. ASSUME NEW s \in StatesOf(record[Other(p)]), s.pending = << k >>
      PROVE  k.base < nextKey
  <2>1. FreshState(s, nextKey)
    BY Zenon, Others DEF KeysInv, Fresh
  <2>2. s.pending # <<>> /\ s.pending[1] = k
    BY <1>3
  <2> QED
    BY Zenon, <2>1, <2>2 DEF FreshState
<1> QED
  BY Zenon, <1>1, <1>2, <1>3 DEF PreKeysFor

\* The prekeys under way after a step of p.
LEMMA PreKeysAfter ==
  ASSUME KeysInv, NEW p \in Parties, NEW s, Renews(p, s)
  PROVE  /\ \A k \in PreKeysFor(Other(p))' :
              \/ k \in PreKeysFor(Other(p))
              \/ \E m \in Sent(Other(p))' \ Sent(Other(p)) : m.preKey = << k >>
              \/ s.pending = << k >>
         /\ Sent(p)' = Sent(p) => PreKeysFor(p)' = PreKeysFor(p)
<1> DEFINE q == Other(p)
<1>1. q \in Parties /\ q # p /\ Other(q) = p
  BY Zenon, Others
<1>2. record'[q] = record[q]
  BY Zenon, <1>1 DEF Renews
<1>3. \A t \in StatesOf(record'[p]) : t = s \/ t.pending = <<>>
  <2>1. ASSUME NEW u \in StatesOf(record[p])
        PROVE  ClearUnacknowledged(u).pending = <<>>
    <3>1. u \in SessionStates
      BY Zenon DEF KeysInv, Typed, GoodState
    <3> QED
      BY Zenon, <3>1, ClearFacts
  <2> QED
    BY <2>1, StatesAfter
<1>4. \A k : << k >> # <<>>
  BY Zenon
<1> HIDE DEF q
<1>5. ASSUME NEW k \in PreKeysFor(q)'
      PROVE  \/ k \in PreKeysFor(q)
             \/ \E m \in Sent(q)' \ Sent(q) : m.preKey = << k >>
             \/ s.pending = << k >>
  <2>1. k \in PreKeys
    BY Zenon DEF PreKeysFor
  <2>2. \/ \E m \in Sent(q)' : m.preKey = << k >>
        \/ \E t \in StatesOf(record'[p]) : t.pending = << k >>
    BY Zenon, <1>1 DEF PreKeysFor
  <2>3. CASE \E m \in Sent(q) : m.preKey = << k >>
    BY Zenon, <2>1, <2>3 DEF PreKeysFor
  <2>4. CASE \E t \in StatesOf(record'[p]) : t.pending = << k >>
    BY Zenon, <1>3, <1>4, <2>4
  <2> QED
    BY <2>2, <2>3, <2>4
<1>6. ASSUME Sent(p)' = Sent(p)
      PROVE  PreKeysFor(p)' = PreKeysFor(p)
  BY Zenon, <1>2, <1>6 DEF PreKeysFor, q
<1> QED
  BY Zenon, <1>5, <1>6 DEF q

\* The prekey of a prekey message.
LEMMA PreKeyOfMessage ==
  ASSUME KeysInv, NEW p \in Parties, NEW msg \in Sent(p), msg.preKey # <<>>
  PROVE  /\ msg.preKey[1] \in PreKeysFor(p) /\ msg.preKey[1].base \in Nat
         /\ msg.chainKey[1] = {msg.preKey[1].base}
<1>1. FreshMessage(msg, nextKey)
  BY Zenon DEF KeysInv, Fresh
<1>2. msg.preKey \in Seq(PreKeys) /\ Len(msg.preKey) <= 1
  BY Zenon, <1>1 DEF FreshMessage, Messages
<1>3. msg.preKey[1] \in PreKeys /\ msg.preKey = << msg.preKey[1] >>
  BY Zenon, <1>2, OneOrNone
<1>4. msg.preKey[1] \in PreKeysFor(p)
  BY Zenon, <1>3 DEF PreKeysFor
<1>5. msg.chainKey[1] = {msg.preKey[1].base}
  BY Zenon, <1>1 DEF FreshMessage
<1> QED
  BY Zenon, <1>3, <1>4, <1>5 DEF PreKeys

\* No key of a message is derived from a base key that is still to come.
LEMMA MessageBase ==
  ASSUME KeysInv, NEW p \in Parties, NEW m \in Sent(p)
  PROVE  m \in Messages /\ Old(m.chainKey, nextKey) /\ m.chainKey[1] # {nextKey}
<1>1. m \in Messages /\ Old(m.chainKey, nextKey)
  BY Zenon DEF KeysInv, Fresh, FreshMessage
<1>2. 1 \in DOMAIN m.chainKey
  <2>1. m.chainKey \in Seq(SUBSET Nat) /\ m.chainKey # <<>>
    BY Zenon, <1>1 DEF Old, Messages, ChainKeys
  <2>2. Len(m.chainKey) \in Nat /\ Len(m.chainKey) # 0
    BY <2>1
  <2> QED
    BY <2>1, <2>2
<1>3. nextKey \notin m.chainKey[1]
  <2>1. \A k \in m.chainKey[1] : k < nextKey
    BY Zenon, <1>1, <1>2 DEF Old
  <2>2. nextKey \in Nat
    BY Zenon DEF KeysInv, Typed
  <2> QED
    BY <2>1, <2>2
<1> QED
  BY Zenon, <1>1, <1>3

\* The message made next was not made before.
LEMMA NextIsNew ==
  ASSUME KeysInv, NEW p \in Parties, NEW s \in StatesOf(record[p])
  PROVE  NextMessage(s) \notin Sent(Other(p))
<1>1. s.senderIndex \in Nat
  BY Zenon DEF KeysInv, Typed, GoodState, SessionStates
<1>2. NextMessage(s).chainKey = s.senderChain /\ NextMessage(s).counter = s.senderIndex
  BY Zenon DEF NextMessage
<1> QED
  BY <1>1, <1>2 DEF KeysInv, Ahead

\* The stores after a message was opened.
LEMMA OpenedFacts ==
  ASSUME KeysInv, NEW p \in Parties, NEW msg \in Sent(p), DecryptLoaded(p, record[p], msg)
  PROVE  /\ \A q \in Parties : Sent(q)' = Sent(q)
         /\ opens'[p] = [opens[p] EXCEPT ![msg] = @ + 1]
         /\ \A q \in Parties : q # p => opens'[q] = opens[q]
         /\ prekeys'[p] = prekeys[p] \ UsedPreKey(record[p], msg)
         /\ \A q \in Parties : prekeys'[q] \subseteq prekeys[q]
<1>1. /\ opens' = [opens EXCEPT ![p][msg] = @ + 1]
      /\ prekeys' = [prekeys EXCEPT ![p] = @ \ UsedPreKey(record[p], msg)]
  BY Zenon DEF DecryptLoaded
<1>2. DOMAIN opens = Parties /\ DOMAIN prekeys = Parties
  BY Zenon DEF KeysInv, Typed
<1>3. opens'[p] = [opens[p] EXCEPT ![msg] = @ + 1] /\ \A q \in Parties : q # p => opens'[q] = opens[q]
  BY Zenon, <1>1, <1>2
<1>4. DOMAIN opens'[p] = DOMAIN opens[p]
  BY Zenon, <1>3
<1>5. \A q \in Parties : Sent(q)' = Sent(q)
  BY Zenon, <1>3, <1>4 DEF Sent
<1>6. prekeys'[p] = prekeys[p] \ UsedPreKey(record[p], msg)
  BY Zenon, <1>1, <1>2
<1>7. \A q \in Parties : q # p => prekeys'[q] = prekeys[q]
  BY Zenon, <1>1, <1>2
<1> QED
  BY Zenon, <1>3, <1>5, <1>6, <1>7
==============================================================================
