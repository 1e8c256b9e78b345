--------------------------- MODULE SessionProofs ----------------------------
(***************************************************************************)
(* The theorems about Session, for every value of the limits of consts.rs, *)
(* any prekeys, any number of messages and any order of arrival.  The      *)
(* modules below this one state their lemmas under WellOrdered,            *)
(* FiniteSetFacts and InjectionFact, facts of the library proved here.     *)
(***************************************************************************)
EXTENDS SessionOpenProofs, FiniteSetTheorems

LEMMA NaturalsAreWellOrdered == WellOrdered
<1> SUFFICES ASSUME NEW S \in SUBSET Nat, S # {}
             PROVE  \E i \in S : \A j \in S : i <= j
  BY Zenon DEF WellOrdered
<1> DEFINE less == OpToRel(<, Nat)
<1>1. \A x, y \in Nat : y < x => <<y, x>> \in less
  BY Zenon DEF OpToRel
<1>2. IsWellFoundedOn(less, Nat)
  BY Zenon, NatLessThanWellFounded
<1> HIDE DEF less
<1>3. PICK x \in S : \A y \in S : ~(<<y, x>> \in less)
  BY Zenon, <1>2, WFMin
<1>4. \A y \in S : ~(y < x)
  BY Zenon, <1>1, <1>3
<1>5. \A y \in S : x <= y
  BY <1>4
<1> QED
  BY Zenon, <1>5

LEMMA FiniteSetsAreFinite == FiniteSetFacts
<1>1. IsFiniteSet({}) /\ Cardinality({}) = 0
  BY Zenon, FS_EmptySet
<1>2. \A S : IsFiniteSet(S) => Cardinality(S) \in Nat
  BY Zenon, FS_CardinalityType
<1>3. ASSUME NEW S, NEW x, IsFiniteSet(S), x \notin S
      PROVE  IsFiniteSet(S \cup {x}) /\ Cardinality(S \cup {x}) = Cardinality(S) + 1
  BY Zenon, <1>3, FS_AddElement
<1>4. ASSUME NEW a \in Nat, NEW b \in Nat, NEW S \in SUBSET (a .. b), a <= b + 1
      PROVE  Cardinality(S) \in Nat /\ Cardinality(S) <= b - a + 1
  <2>1. a \in Int /\ b \in Int
    OBVIOUS
  <2>2. IsFiniteSet(a .. b) /\ Cardinality(a .. b) = IF a > b THEN 0 ELSE b - a + 1
    BY Zenon, <2>1, FS_Interval
  <2>3. Cardinality(S) <= Cardinality(a .. b) /\ Cardinality(S) \in Nat
    BY Zenon, <2>2, FS_Subset, FS_CardinalityType
  <2> QED
    BY <1>4, <2>2, <2>3
<1> QED
  BY Zenon, <1>1, <1>2, <1>3, <1>4 DEF FiniteSetFacts

LEMMA InjectionsAreSmall == InjectionFact
<1> SUFFICES ASSUME NEW n \in Nat, NEW T, NEW f \in [1..n -> T], IsFiniteSet(T),
                    \A i, j \in 1..n : f[i] = f[j] => i = j
             PROVE  n <= Cardinality(T)
  BY Zenon DEF InjectionFact
<1>1. f \in Injection(1..n, T)
  BY Zenon DEF Injection, IsInjective
<1>2. IsFiniteSet(1..n) /\ Cardinality(1..n) = n
  <2>1. 1 \in Int /\ n \in Int
    OBVIOUS
  <2>2. IsFiniteSet(1..n) /\ Cardinality(1..n) = IF 1 > n THEN 0 ELSE n - 1 + 1
    BY Zenon, <2>1, FS_Interval
  <2> QED
    BY <2>2
<1>3. Cardinality(1..n) <= Cardinality(T)
  BY Zenon, <1>1, FS_Injection
<1> QED
  BY Zenon, <1>2, <1>3

\* The invariant of the session code: records and states as their limits keep
\* them, and fresh keys.
THEOREM KeysInvariant == Spec => []KeysInv
<1>1. Init => KeysInv
  BY Zenon, KeysInit
<1>2. KeysInv /\ [Next]_vars => KeysInv'
  BY Zenon, KeysStep, NaturalsAreWellOrdered
<1> QED
  BY <1>1, <1>2, PTL DEF Spec

\* At most one current state, the limits of consts.rs kept, and every store typed.
THEOREM SessionTypes == Spec => []TypeOK
<1>1. KeysInv => TypeOK
  BY Zenon, KeysImply
<1> QED
  BY <1>1, KeysInvariant, PTL

\* No two messages are made with the same message key, whatever sessions the
\* sender switches between and whatever limits are reached.
THEOREM MessageKeysAreFresh == Spec => []FreshMessageKeys
<1>1. KeysInv => FreshMessageKeys
  BY Zenon, KeysImply
<1> QED
  BY <1>1, KeysInvariant, PTL

\* Each party opens a message once at most, for every value of the limits of
\* consts.rs, any number of sessions and messages, and whatever order they arrive
\* in, as long as no session set up without a one-time prekey is dropped from its
\* record.
THEOREM MessagesOpenOnce == Spec /\ [][Retained]_vars => OpensOnce
<1>1. Init => OnceInv
  BY Zenon, OnceInit
<1>2. KeysInv /\ OnceInv /\ [Next]_vars /\ [Retained]_vars
        => OnceInv' /\ [\A p \in Parties : [Once(p)!Next]_(opens[p])]_vars
  BY Zenon, OnceNext, NaturalsAreWellOrdered
<1> QED
  BY <1>1, <1>2, KeysInvariant, PTL DEF Spec, OpensOnce

\* "DuplicateMessageException if the input is a message that has already been
\* received" (SessionCipher.java:118), and is not thrown for one that was not, as
\* long as a chain stores the key of every message it passes (MAX_MESSAGE_KEYS).
THEOREM DuplicatesWereOpened ==
  ASSUME MaxSends <= MaxMessageKeys
  PROVE  Spec => []DuplicateWasOpened
<1>1. Init => PassedInv
  BY Zenon, PassedStart, FiniteSetsAreFinite
<1>2. KeysInv /\ PassedInv /\ [Next]_vars => PassedInv'
  BY Zenon, PassedNext, FiniteSetsAreFinite, NaturalsAreWellOrdered
<1>3. KeysInv /\ PassedInv => DuplicateWasOpened
  <2> SUFFICES ASSUME KeysInv, PassedInv, NEW p \in Parties, NEW msg \in Sent(p),
                      Decrypt(p, record[p], msg).result = "duplicate"
               PROVE  opens[p][msg] > 0
    BY Zenon DEF DuplicateWasOpened
  <2>1. opens[p][msg] # 0
    BY Zenon, DuplicateIsPassed, NaturalsAreWellOrdered
  <2>2. opens[p][msg] \in Nat
    BY Zenon DEF KeysInv, Typed
  <2> QED
    BY <2>1, <2>2
<1> QED
  BY <1>1, <1>2, <1>3, KeysInvariant, PTL DEF Spec

\* Every message that was sent and not opened yet can be opened now: whatever
\* arrived before it or not at all, and whoever set up which session in the
\* meantime, its receiver has the session of its sender, or its prekey sets it up,
\* and that session authenticates it.  None of the limits of consts.rs may be
\* reached: MAX_MESSAGE_KEYS, MAX_FORWARD_JUMPS and MAX_RECEIVER_CHAINS by the
\* messages, ARCHIVED_STATES_MAX_LENGTH by the bundles.
THEOREM MessagesCanBeOpened ==
  ASSUME MaxSends <= MaxMessageKeys, MaxSends <= MaxForwardJumps,
         MaxSends < MaxReceiverChains, MaxBundles <= ArchivedStatesMax
  PROVE  Spec => []EveryMessageOpens
<1>1. Init => PassedInv /\ OpenInv
  BY Zenon, PassedStart, OpenStart, FiniteSetsAreFinite
<1>2. KeysInv /\ PassedInv /\ [Next]_vars => PassedInv'
  BY Zenon, PassedNext, FiniteSetsAreFinite, NaturalsAreWellOrdered
<1>3. KeysInv /\ PassedInv /\ OpenInv /\ [Next]_vars => OpenInv'
  BY Zenon, OpenSteps, FiniteSetsAreFinite, NaturalsAreWellOrdered, InjectionsAreSmall
<1>4. KeysInv /\ PassedInv /\ OpenInv => EveryMessageOpens
  BY Zenon, OpenImplies, FiniteSetsAreFinite, NaturalsAreWellOrdered
<1> QED
  BY <1>1, <1>2, <1>3, <1>4, KeysInvariant, PTL DEF Spec
==============================================================================
