------------------------ MODULE IncrementalMacProofs ------------------------
(***************************************************************************)
(* Proofs about attachments that are authenticated while they are read,    *)
(* for texts of any length over any bytes, every chunk size and every way  *)
(* to split what is written and read.                                      *)
(***************************************************************************)
EXTENDS IncrementalMac, TLAPS

\* The first n bytes.
Take(text, n) == SubSeq(text, 1, n)

\* The Incremental that has been given text, in whatever pieces.
Given(text) == [text |-> text, unused |-> chunkSize - (Len(text) % chunkSize)]

\* The MACs it has returned: one for each full chunk, of all the text up to there.
ChunkMacs(text) ==
  [i \in 1..(Len(text) \div chunkSize) |-> Take(text, i * chunkSize)]

\* The reader has validated k chunks, and they are what was written.
Validated(k) ==
  /\ k <= Len(written) \div chunkSize
  /\ k * chunkSize <= Len(received)
  /\ Take(received, k * chunkSize) = Take(written, k * chunkSize)
  /\ reader = Given(Take(written, k * chunkSize))
  /\ expected = SubSeq(digests, k + 1, Len(digests))

MacTypes ==
  /\ chunkSize \in Nat \ {0}
  /\ written \in Seq(Bytes) /\ received \in Seq(Bytes)
  /\ buffer \in Seq(Bytes) /\ released \in Seq(Bytes)
  /\ atEnd \in BOOLEAN
  /\ state \in {"write", "READ_FROM_INPUT", "RELEASE_SAFE_BYTES", "eof", "failed"}

\* The writer's Incremental and its digests are functions of what was written.
WriterInv ==
  /\ writer = Given(written)
  /\ digests = IF state = "write" THEN ChunkMacs(written)
               ELSE Append(ChunkMacs(written), written)
  /\ state = "write" => /\ reader = Given(<<>>) /\ buffer = <<>> /\ released = <<>>
                        /\ ~atEnd

\* While reading, whole chunks are validated and handed out, and the buffer holds
\* the part of the next one that was read.
ReadingInv ==
  state = "READ_FROM_INPUT" =>
    /\ ~atEnd /\ Len(buffer) < chunkSize
    /\ \E k \in Nat : /\ Validated(k) /\ released = Take(written, k * chunkSize)
                      /\ k * chunkSize + Len(buffer) <= Len(received)
                      /\ buffer = SubSeq(received, k * chunkSize + 1,
                                         k * chunkSize + Len(buffer))

\* While handing out, what was handed out and what is in the buffer has been
\* validated; after the last chunk this is everything that was written.
ReleasingInv ==
  state = "RELEASE_SAFE_BYTES" =>
    IF atEnd THEN released \o buffer = written
    ELSE \E k \in Nat : Validated(k) /\ released \o buffer = Take(written, k * chunkSize)

MacInv ==
  /\ MacTypes /\ WriterInv /\ ReadingInv /\ ReleasingInv
  /\ ReleasedIsGenuine /\ EndIsWhole /\ GenuineIsAccepted

-----------------------------------------------------------------------------
(* Lemmas about sequences and division *)

LEMMA LengthFacts ==
  ASSUME NEW S, NEW s \in Seq(S)
  PROVE  Len(s) \in Nat /\ DOMAIN s = 1..Len(s) /\ \A i \in 1..Len(s) : s[i] \in S
  OBVIOUS

LEMMA SameElements ==
  ASSUME NEW S, NEW s \in Seq(S), NEW t \in Seq(S),
         Len(s) = Len(t), \A i \in 1..Len(s) : s[i] = t[i]
  PROVE  s = t
  OBVIOUS

LEMMA NoElements ==
  ASSUME NEW S
  PROVE  /\ <<>> \in Seq(S) /\ Len(<<>>) = 0
         /\ \A s \in Seq(S) : s # <<>> => Len(s) \in Nat \ {0}
  OBVIOUS

LEMMA JoinFacts ==
  ASSUME NEW S, NEW a \in Seq(S), NEW b \in Seq(S)
  PROVE  /\ a \o b \in Seq(S)
         /\ Len(a \o b) = Len(a) + Len(b)
         /\ \A i \in 1..(Len(a) + Len(b)) :
              (a \o b)[i] = IF i <= Len(a) THEN a[i] ELSE b[i - Len(a)]
<1>1. Len(a) \in Nat /\ Len(b) \in Nat
  OBVIOUS
<1>2. Len(a \o b) = Len(a) + Len(b)
  OBVIOUS
<1>3. \A i \in 1..Len(a) : (a \o b)[i] = a[i]
  OBVIOUS
<1>4. \A i \in (Len(a) + 1)..(Len(a) + Len(b)) : (a \o b)[i] = b[i - Len(a)]
  OBVIOUS
<1>5. a \o b \in Seq(S)
  OBVIOUS
<1> QED
  BY <1>1, <1>2, <1>3, <1>4, <1>5

LEMMA JoinNothing ==
  ASSUME NEW S, NEW s \in Seq(S)
  PROVE  s \o <<>> = s /\ <<>> \o s = s
<1>1. s \o <<>> \in Seq(S) /\ Len(s \o <<>>) = Len(s) /\ \A i \in 1..Len(s) : (s \o <<>>)[i] = s[i]
  OBVIOUS
<1>2. <<>> \o s \in Seq(S) /\ Len(<<>> \o s) = Len(s) /\ \A i \in 1..Len(s) : (<<>> \o s)[i] = s[i]
  OBVIOUS
<1> QED
  BY Zenon, <1>1, <1>2, SameElements

LEMMA CutFacts ==
  ASSUME NEW S, NEW s, NEW m \in Int, NEW n \in Int, \A i \in m..n : s[i] \in S
  PROVE  /\ SubSeq(s, m, n) \in Seq(S)
         /\ Len(SubSeq(s, m, n)) = IF m <= n THEN n - m + 1 ELSE 0
         /\ \A i \in 1..(n - m + 1) : SubSeq(s, m, n)[i] = s[m + i - 1]
  OBVIOUS

LEMMA CutNothing ==
  ASSUME NEW s, NEW m \in Int, NEW n \in Int, n < m
  PROVE  SubSeq(s, m, n) = <<>>
  OBVIOUS

LEMMA AddFacts ==
  ASSUME NEW S, NEW s \in Seq(S), NEW x \in S
  PROVE  /\ Append(s, x) \in Seq(S) /\ Append(s, x) # <<>>
         /\ Len(Append(s, x)) = Len(s) + 1
         /\ \A i \in 1..Len(s) : Append(s, x)[i] = s[i]
         /\ Append(s, x)[Len(s) + 1] = x
  OBVIOUS

LEMMA JoinJoin ==
  ASSUME NEW S, NEW s \in Seq(S), NEW t \in Seq(S), NEW u \in Seq(S)
  PROVE  (s \o t) \o u = s \o (t \o u)
  OBVIOUS

LEMMA PieceFacts ==
  ASSUME NEW S, NEW t \in Seq(S), NEW m \in Nat, NEW n \in Nat, m + n <= Len(t)
  PROVE  /\ SubSeq(t, m + 1, m + n) \in Seq(S)
         /\ Len(SubSeq(t, m + 1, m + n)) = n
         /\ \A i \in 1..n : SubSeq(t, m + 1, m + n)[i] = t[m + i]
<1>1. \A i \in (m + 1)..(m + n) : t[i] \in S
  OBVIOUS
<1>2. /\ SubSeq(t, m + 1, m + n) \in Seq(S)
      /\ Len(SubSeq(t, m + 1, m + n)) = IF m + 1 <= m + n THEN (m + n) - (m + 1) + 1 ELSE 0
      /\ \A i \in 1..((m + n) - (m + 1) + 1) :
           SubSeq(t, m + 1, m + n)[i] = t[(m + 1) + i - 1]
  BY <1>1, CutFacts
<1>3. (m + n) - (m + 1) + 1 = n /\ \A i \in 1..n : (m + 1) + i - 1 = m + i
  OBVIOUS
<1> QED
  BY <1>2, <1>3

LEMMA TakeFacts ==
  ASSUME NEW S, NEW t \in Seq(S), NEW n \in Nat, n <= Len(t)
  PROVE  /\ Take(t, n) \in Seq(S)
         /\ Len(Take(t, n)) = n
         /\ \A i \in 1..n : Take(t, n)[i] = t[i]
<1>1. \A i \in 1..n : t[i] \in S
  OBVIOUS
<1> QED
  BY <1>1, CutFacts DEF Take

\* Two sequences of the same length and elements, the form used below.
LEMMA SameSeq ==
  ASSUME NEW S, NEW s \in Seq(S), NEW t \in Seq(S), NEW n \in Nat, Len(s) = n, Len(t) = n,
         \A i \in 1..n : s[i] = t[i]
  PROVE  s = t
  BY Zenon, SameElements

LEMMA TakeAll ==
  ASSUME NEW S, NEW t \in Seq(S)
  PROVE  Take(t, Len(t)) = t
<1> DEFINE n == Len(t)
<1>1. n \in Nat /\ n <= n
  BY LengthFacts
<1>2. Take(t, n) \in Seq(S) /\ Len(Take(t, n)) = n /\ \A i \in 1..n : Take(t, n)[i] = t[i]
  BY Zenon, <1>1, TakeFacts
<1> QED
  BY <1>1, <1>2, SameSeq

LEMMA TakeNone ==
  ASSUME NEW t
  PROVE  Take(t, 0) = <<>>
  BY CutNothing DEF Take

\* A piece put behind what was taken before it.
LEMMA TakeMore ==
  ASSUME NEW S, NEW t \in Seq(S), NEW m \in Nat, NEW n \in Nat, m + n <= Len(t)
  PROVE  Take(t, m) \o SubSeq(t, m + 1, m + n) = Take(t, m + n)
<1> DEFINE a == Take(t, m)
           b == SubSeq(t, m + 1, m + n)
           c == Take(t, m + n)
<1>1. Len(t) \in Nat /\ m <= Len(t) /\ m + n \in Nat
  BY LengthFacts
<1>2. a \in Seq(S) /\ Len(a) = m /\ \A i \in 1..m : a[i] = t[i]
  BY Zenon, <1>1, TakeFacts
<1>3. b \in Seq(S) /\ Len(b) = n /\ \A i \in 1..n : b[i] = t[m + i]
  BY Zenon, PieceFacts
<1>4. c \in Seq(S) /\ Len(c) = m + n /\ \A i \in 1..(m + n) : c[i] = t[i]
  BY Zenon, <1>1, TakeFacts
<1> HIDE DEF a, b, c
<1>5. a \in Seq(S) /\ b \in Seq(S)
  BY Zenon, <1>2, <1>3
<1>6. /\ a \o b \in Seq(S) /\ Len(a \o b) = Len(a) + Len(b)
      /\ \A i \in 1..(Len(a) + Len(b)) :
           (a \o b)[i] = IF i <= Len(a) THEN a[i] ELSE b[i - Len(a)]
  BY Zenon, <1>5, JoinFacts
<1>7. ASSUME NEW i \in 1..(m + n) PROVE (a \o b)[i] = c[i]
  <2>1. CASE i <= m
    <3>1. i \in 1..m /\ i \in 1..(Len(a) + Len(b)) /\ i <= Len(a)
      BY <1>2, <1>3, <2>1
    <3> QED
      BY Zenon, <1>2, <1>4, <1>6, <3>1
  <2>2. CASE ~(i <= m)
    <3>1. i - m \in 1..n /\ m + (i - m) = i
      BY <2>2
    <3> QED
      BY Zenon, <1>2, <1>3, <1>4, <1>6, <2>2, <3>1
  <2> QED
    BY Zenon, <2>1, <2>2
<1>8. Len(a \o b) = m + n
  BY Zenon, <1>2, <1>3, <1>6
<1>9. a \o b = c
  BY Zenon, <1>1, <1>4, <1>6, <1>7, <1>8, SameSeq
<1> QED
  BY Zenon, <1>9 DEF a, b, c

\* What is taken of two texts put together.
LEMMA TakeOfConcat ==
  ASSUME NEW S, NEW s \in Seq(S), NEW t \in Seq(S), NEW n \in Nat
  PROVE  /\ n <= Len(s) => Take(s \o t, n) = Take(s, n)
         /\ n <= Len(t) => Take(s \o t, Len(s) + n) = s \o Take(t, n)
<1> DEFINE u == s \o t
           l == Len(s)
<1>1. l \in Nat /\ Len(t) \in Nat
  BY Zenon, LengthFacts
<1>2. /\ u \in Seq(S) /\ Len(u) = l + Len(t)
      /\ \A i \in 1..(l + Len(t)) : u[i] = IF i <= l THEN s[i] ELSE t[i - l]
  BY Zenon, JoinFacts
<1> HIDE DEF u
<1>3. ASSUME n <= l PROVE Take(u, n) = Take(s, n)
  <2>1. n <= Len(u)
    BY <1>1, <1>2, <1>3
  <2>2. Take(u, n) \in Seq(S) /\ Len(Take(u, n)) = n /\ \A i \in 1..n : Take(u, n)[i] = u[i]
    BY Zenon, <1>2, <2>1, TakeFacts
  <2>3. Take(s, n) \in Seq(S) /\ Len(Take(s, n)) = n /\ \A i \in 1..n : Take(s, n)[i] = s[i]
    BY Zenon, <1>3, TakeFacts
  <2>4. \A i \in 1..n : u[i] = s[i]
    BY <1>1, <1>2, <1>3
  <2> QED
    BY Zenon, <2>2, <2>3, <2>4, SameSeq
<1>4. ASSUME n <= Len(t) PROVE Take(u, l + n) = s \o Take(t, n)
  <2> DEFINE b == Take(t, n)
             c == Take(u, l + n)
  <2>1. l + n <= Len(u) /\ l + n \in Nat
    BY <1>1, <1>2, <1>4
  <2>2. c \in Seq(S) /\ Len(c) = l + n /\ \A i \in 1..(l + n) : c[i] = u[i]
    BY Zenon, <1>2, <2>1, TakeFacts
  <2>3. b \in Seq(S) /\ Len(b) = n /\ \A i \in 1..n : b[i] = t[i]
    BY Zenon, <1>4, TakeFacts
  <2> HIDE DEF b, c
  <2>4. b \in Seq(S)
    BY Zenon, <2>3
  <2>5. /\ s \o b \in Seq(S) /\ Len(s \o b) = l + Len(b)
        /\ \A i \in 1..(l + Len(b)) : (s \o b)[i] = IF i <= l THEN s[i] ELSE b[i - l]
    BY Zenon, <2>4, JoinFacts
  <2>6. ASSUME NEW i \in 1..(l + n) PROVE (s \o b)[i] = c[i]
    <3>1. i \in 1..(l + Len(t)) /\ (~(i <= l) => i - l \in 1..n)
      BY <1>1, <1>4
    <3>2. CASE i <= l
      BY Zenon, <1>2, <2>2, <2>3, <2>5, <3>1, <3>2
    <3>3. CASE ~(i <= l)
      BY Zenon, <1>2, <2>2, <2>3, <2>5, <3>1, <3>3
    <3> QED
      BY Zenon, <3>2, <3>3
  <2>7. Len(s \o b) = l + n
    BY Zenon, <2>3, <2>5
  <2>8. s \o b = c
    BY Zenon, <2>1, <2>2, <2>5, <2>6, <2>7, SameSeq
  <2> QED
    BY Zenon, <2>8 DEF b, c
<1> QED
  BY Zenon, <1>3, <1>4 DEF u

LEMMA Divide ==
  ASSUME NEW n \in Nat, NEW c \in Nat \ {0}
  PROVE  /\ n \div c \in Nat /\ n % c \in Nat /\ n % c < c
         /\ n = (n \div c) * c + (n % c)
<1>1. n \div c \in Nat /\ n % c \in 0..(c - 1)
  OBVIOUS
<1>2. n = c * (n \div c) + (n % c)
  OBVIOUS
<1> QED
  BY <1>1, <1>2

LEMMA Quotient ==
  ASSUME NEW q \in Nat, NEW r \in Nat, NEW c \in Nat \ {0}, r < c,
         NEW n \in Nat, n = q * c + r
  PROVE  n \div c = q /\ n % c = r
<1> DEFINE a == n \div c
           b == n % c
<1>1. a \in Nat /\ b \in Nat /\ b < c /\ n = a * c + b
  BY Zenon, Divide
<1> HIDE DEF a, b
<1>2. a = q
  BY <1>1
<1>3. b = r
  BY <1>1, <1>2
<1> QED
  BY Zenon, <1>2, <1>3 DEF a, b

-----------------------------------------------------------------------------
(* What update and its callers compute *)

\* The chunks behind a text: how the number of full chunks and of bytes in the
\* begun one grows.
LEMMA Counting ==
  ASSUME NEW c \in Nat \ {0}, NEW l \in Nat, NEW n \in Nat,
         NEW over \in Int, n - (c - (l % c)) <= over, over <= n - (c - (l % c))
  PROVE  /\ over < 0 => /\ (l + n) \div c = l \div c
                        /\ c - ((l + n) % c) = -over
         /\ over >= 0 => /\ over \in Nat /\ over \div c \in Nat
                         /\ (l + n) \div c = (l \div c) + (1 + over \div c)
                         /\ (l + n) % c = over % c
<1> DEFINE q == l \div c
           m == l % c
<1>1. q \in Nat /\ m \in Nat /\ m < c /\ l = q * c + m
  BY Zenon, Divide
<1>2. over = n - (c - m)
  BY <1>1
<1> HIDE DEF q, m
<1>3. ASSUME over < 0 PROVE (l + n) \div c = q /\ c - ((l + n) % c) = -over
  <2>1. m + n \in Nat /\ m + n < c /\ l + n \in Nat /\ l + n = q * c + (m + n)
    BY <1>1, <1>2, <1>3
  <2>2. (l + n) \div c = q /\ (l + n) % c = m + n
    BY <1>1, <2>1, Quotient
  <2> QED
    BY <1>1, <1>2, <2>2
<1>4. ASSUME over >= 0
      PROVE  /\ over \in Nat /\ over \div c \in Nat
             /\ (l + n) \div c = q + (1 + over \div c)
             /\ (l + n) % c = over % c
  <2> DEFINE d == over \div c
             r == over % c
  <2>1. over \in Nat
    BY <1>1, <1>2, <1>4
  <2>2. d \in Nat /\ r \in Nat /\ r < c /\ over = d * c + r
    BY Zenon, <2>1, Divide
  <2> HIDE DEF d, r
  <2>3. l + n = (q * c + c) + over
    BY <1>1, <1>2
  <2>4. q * c + c + d * c = (q + (1 + d)) * c
    BY <1>1, <2>2
  <2>5. l + n = (q + (1 + d)) * c + r /\ q + (1 + d) \in Nat /\ l + n \in Nat
    BY <1>1, <2>2, <2>3, <2>4
  <2>6. (l + n) \div c = q + (1 + d) /\ (l + n) % c = r
    <3> DEFINE x == l + n
               k == q + (1 + d)
    <3>1. x = k * c + r /\ k \in Nat /\ x \in Nat
      BY Zenon, <2>5
    <3> HIDE DEF x, k
    <3>2. x \div c = k /\ x % c = r
      BY <2>2, <3>1, Quotient
    <3> QED
      BY Zenon, <3>2 DEF x, k
  <2> QED
    BY Zenon, <2>1, <2>2, <2>6 DEF d, r
<1> QED
  BY Zenon, <1>3, <1>4 DEF q, m

LEMMA FunctionIsSeq ==
  ASSUME NEW S, NEW n \in Nat, NEW f \in [1..n -> S]
  PROVE  f \in Seq(S) /\ Len(f) = n
  OBVIOUS

LEMMA ChunkMacsFacts ==
  ASSUME chunkSize \in Nat \ {0}, NEW t \in Seq(Bytes)
  PROVE  /\ ChunkMacs(t) \in Seq(Seq(Bytes))
         /\ Len(ChunkMacs(t)) = Len(t) \div chunkSize
         /\ Len(t) \div chunkSize \in Nat
         /\ \A i \in 1..(Len(t) \div chunkSize) :
              /\ i * chunkSize \in Nat /\ i * chunkSize <= Len(t)
              /\ ChunkMacs(t)[i] = Take(t, i * chunkSize)
<1> DEFINE n == Len(t)
           c == chunkSize
           q == n \div c
<1>1. n \in Nat
  BY Zenon, LengthFacts
<1>2. q \in Nat /\ n % c \in Nat /\ n = q * c + (n % c)
  BY Zenon, <1>1, Divide
<1>3. ChunkMacs(t) = [i \in 1..q |-> Take(t, i * c)]
  BY Zenon DEF ChunkMacs
<1> HIDE DEF n, q
<1>4. ASSUME NEW i \in 1..q PROVE i * c \in Nat /\ i * c <= n /\ Take(t, i * c) \in Seq(Bytes)
  <2>1. i * c \in Nat /\ i * c <= q * c /\ q * c \in Nat
    BY <1>2
  <2>2. i * c <= n
    BY <1>1, <1>2, <2>1
  <2> QED
    BY Zenon, <2>1, <2>2, TakeFacts DEF n
<1>5. ChunkMacs(t) \in Seq(Seq(Bytes)) /\ Len(ChunkMacs(t)) = q
  <2>1. ChunkMacs(t) \in [1..q -> Seq(Bytes)]
    BY Zenon, <1>3, <1>4
  <2> QED
    BY Zenon, <1>2, <2>1, FunctionIsSeq
<1> QED
  BY Zenon, <1>2, <1>3, <1>4, <1>5 DEF n, q

\* Incremental.update adds to the text, and returns the MACs of the chunks that
\* are full now and were not before.
LEMMA UpdateFacts ==
  ASSUME chunkSize \in Nat \ {0}, NEW t \in Seq(Bytes), NEW bytes \in Seq(Bytes)
  PROVE  /\ Update(Given(t), bytes).inc = Given(t \o bytes)
         /\ ChunkMacs(t) \o Update(Given(t), bytes).macs = ChunkMacs(t \o bytes)
<1> DEFINE c == chunkSize
           l == Len(t)
           n == Len(bytes)
           u == c - (l % c)
           over == n - u
           full == IF over < 0 THEN 0 ELSE 1 + over \div c
           new == t \o bytes
           macs == [i \in 1..full |-> t \o SubSeq(bytes, 1, u + (i - 1) * c)]
<1>1. l \in Nat /\ n \in Nat
  BY Zenon, LengthFacts
<1>2. new \in Seq(Bytes) /\ Len(new) = l + n
  BY Zenon, JoinFacts
<1>3. /\ over < 0 => /\ (l + n) \div c = l \div c
                     /\ c - ((l + n) % c) = -over
      /\ over >= 0 => /\ over \in Nat /\ over \div c \in Nat
                      /\ (l + n) \div c = (l \div c) + (1 + over \div c)
                      /\ (l + n) % c = over % c
  <2>1. over \in Int /\ n - (c - (l % c)) <= over /\ over <= n - (c - (l % c))
    BY <1>1, Divide
  <2> HIDE DEF over
  <2> QED
    BY ZenonT(30), <1>1, <2>1, Counting
<1>4. l \div c \in Nat /\ l % c \in Nat /\ l % c < c /\ l = (l \div c) * c + (l % c)
  BY Zenon, <1>1, Divide
<1>5. u \in Nat /\ over \in Int
  BY <1>1, <1>4
<1>6. /\ Update(Given(t), bytes).inc =
           [text |-> new, unused |-> IF over < 0 THEN -over ELSE c - (over % c)]
      /\ Update(Given(t), bytes).macs = macs
  BY Zenon DEF Update, Given
<1>7. Given(new) = [text |-> new, unused |-> c - ((l + n) % c)]
  BY Zenon, <1>2 DEF Given
<1>8. Update(Given(t), bytes).inc = Given(new)
  <2>1. (IF over < 0 THEN -over ELSE c - (over % c)) = c - ((l + n) % c)
    BY <1>3, <1>5
  <2> QED
    BY Zenon, <1>6, <1>7, <2>1
<1>9. full \in Nat /\ (l + n) \div c = (l \div c) + full
  <2>1. CASE over < 0
    BY <1>3, <1>4, <2>1
  <2>2. CASE over >= 0
    <3>1. full = 1 + over \div c
      BY <1>5, <2>2
    <3> HIDE DEF over, full
    <3> QED
      BY <1>3, <2>2, <3>1
  <2> QED
    BY <1>5, <2>1, <2>2
<1>10. ASSUME NEW i \in 1..full
       PROVE  /\ u + (i - 1) * c \in Nat /\ u + (i - 1) * c <= n
              /\ l + (u + (i - 1) * c) = ((l \div c) + i) * c
  <2> DEFINE q == l \div c
             d == over \div c
  <2>1. over >= 0 /\ full = 1 + d
    BY <1>5, <1>9
  <2>2. over \in Nat /\ d \in Nat /\ over % c \in Nat /\ over = d * c + (over % c)
    BY Zenon, <1>3, <2>1, Divide
  <2>3. i - 1 \in Nat /\ i - 1 <= d
    BY <2>1
  <2>4. n = u + over
    BY <1>1, <1>5
  <2>5. l + u = q * c + c
    BY <1>4
  <2> HIDE DEF q, d, over, u, full
  <2>6. (i - 1) * c \in Nat /\ (i - 1) * c <= d * c /\ d * c \in Nat
    BY <2>2, <2>3
  <2>7. d * c <= over
    BY <2>2, <2>6
  <2>8. u + (i - 1) * c \in Nat /\ u + (i - 1) * c <= n
    BY <1>5, <2>2, <2>4, <2>6, <2>7
  <2>9. q * c + c + (i - 1) * c = (q + i) * c
    BY <1>4, <2>3 DEF q
  <2>10. q * c \in Nat
    BY <1>4 DEF q
  <2>11. l + (u + (i - 1) * c) = (q + i) * c
    BY <1>1, <1>5, <2>5, <2>6, <2>9, <2>10
  <2> QED
    BY Zenon, <2>8, <2>11 DEF q
<1> DEFINE q == l \div c
<1>11. /\ ChunkMacs(t) \in Seq(Seq(Bytes)) /\ Len(ChunkMacs(t)) = q
       /\ \A i \in 1..q : /\ i * c \in Nat /\ i * c <= l
                          /\ ChunkMacs(t)[i] = Take(t, i * c)
  BY Zenon, ChunkMacsFacts
<1>12. /\ ChunkMacs(new) \in Seq(Seq(Bytes)) /\ Len(ChunkMacs(new)) = q + full
       /\ \A i \in 1..(q + full) : ChunkMacs(new)[i] = Take(new, i * c)
  BY Zenon, <1>2, <1>9, ChunkMacsFacts
<1>13. macs \in Seq(Seq(Bytes)) /\ Len(macs) = full
       /\ \A i \in 1..full : macs[i] = Take(new, (q + i) * c)
  <2>1. ASSUME NEW i \in 1..full
        PROVE  /\ macs[i] \in Seq(Bytes) /\ macs[i] = Take(new, (q + i) * c)
    <3> DEFINE x == u + (i - 1) * c
    <3>1. x \in Nat /\ x <= n /\ l + x = (q + i) * c
      BY Zenon, <1>10
    <3>2. macs[i] = t \o Take(bytes, x)
      BY Zenon DEF Take
    <3> HIDE DEF x, macs
    <3>3. Take(new, l + x) = t \o Take(bytes, x)
      BY <3>1, TakeOfConcat
    <3>4. Take(bytes, x) \in Seq(Bytes)
      BY Zenon, <3>1, TakeFacts
    <3>5. t \o Take(bytes, x) \in Seq(Bytes)
      BY Zenon, <3>4, JoinFacts
    <3> QED
      BY Zenon, <3>1, <3>2, <3>3, <3>5
  <2> HIDE DEF u, full
  <2>2. macs \in [1..full -> Seq(Bytes)]
    BY Zenon, <2>1
  <2>3. macs \in Seq(Seq(Bytes)) /\ Len(macs) = full
    BY Zenon, <1>9, <2>2, FunctionIsSeq
  <2> QED
    BY Zenon, <2>1, <2>3
<1> HIDE DEF macs, full, new, q, over, u
<1>14. ChunkMacs(t) \o macs = ChunkMacs(new)
  <2> DEFINE a == ChunkMacs(t)
  <2>1. a \in Seq(Seq(Bytes)) /\ macs \in Seq(Seq(Bytes))
    BY Zenon, <1>11, <1>13
  <2>2. /\ a \o macs \in Seq(Seq(Bytes)) /\ Len(a \o macs) = Len(a) + Len(macs)
        /\ \A i \in 1..(Len(a) + Len(macs)) :
             (a \o macs)[i] = IF i <= Len(a) THEN a[i] ELSE macs[i - Len(a)]
    BY Zenon, <2>1, JoinFacts
  <2>3. q \in Nat /\ full \in Nat /\ q + full \in Nat
    BY <1>4, <1>9 DEF q
  <2>4. ASSUME NEW i \in 1..(q + full) PROVE (a \o macs)[i] = ChunkMacs(new)[i]
    <3>1. CASE i <= q
      <4>1. i \in 1..q /\ i <= Len(a) /\ i \in 1..(Len(a) + Len(macs))
        BY <1>11, <1>13, <2>3, <3>1
      <4>2. i * c \in Nat /\ i * c <= l
        BY Zenon, <1>11, <4>1
      <4>3. Take(new, i * c) = Take(t, i * c)
        BY Zenon, <4>2, TakeOfConcat DEF new
      <4> QED
        BY Zenon, <1>11, <1>12, <2>2, <4>1, <4>3
    <3>2. CASE ~(i <= q)
      <4>1. i - q \in 1..full /\ q + (i - q) = i /\ ~(i <= Len(a))
            /\ i \in 1..(Len(a) + Len(macs))
        BY <1>11, <1>13, <2>3, <3>2
      <4>2. (a \o macs)[i] = macs[i - q]
        BY Zenon, <1>11, <2>2, <4>1
      <4> QED
        BY Zenon, <1>12, <1>13, <4>1, <4>2
    <3> QED
      BY Zenon, <3>1, <3>2
  <2>5. Len(a \o macs) = q + full
    BY Zenon, <1>11, <1>13, <2>2
  <2> HIDE DEF a
  <2>6. a \o macs = ChunkMacs(new)
    BY ZenonT(30), <1>12, <2>2, <2>3, <2>4, <2>5, SameSeq
  <2> QED
    BY Zenon, <2>6 DEF a
<1> QED
  BY Zenon, <1>6, <1>8, <1>14 DEF new

\* A piece of a piece, and two pieces next to each other.
LEMMA PieceOfPiece ==
  ASSUME NEW S, NEW t \in Seq(S), NEW a \in Nat, NEW b \in Nat, a + b <= Len(t),
         NEW i \in Nat, NEW n \in Nat, i + n <= b
  PROVE  SubSeq(SubSeq(t, a + 1, a + b), i + 1, i + n) = SubSeq(t, (a + i) + 1, (a + i) + n)
<1> DEFINE p == SubSeq(t, a + 1, a + b)
           d == SubSeq(p, i + 1, i + n)
           e == SubSeq(t, (a + i) + 1, (a + i) + n)
<1>1. p \in Seq(S) /\ Len(p) = b /\ \A j \in 1..b : p[j] = t[a + j]
  BY PieceFacts
<1> HIDE DEF p
<1>2. i + n <= Len(p)
  BY Zenon, <1>1
<1>3. d \in Seq(S) /\ Len(d) = n /\ \A j \in 1..n : d[j] = p[i + j]
  BY <1>1, <1>2, PieceFacts
<1>4. a + i \in Nat /\ (a + i) + n <= Len(t)
  BY LengthFacts
<1>5. e \in Seq(S) /\ Len(e) = n /\ \A j \in 1..n : e[j] = t[(a + i) + j]
  <2> DEFINE x == a + i
  <2>1. x \in Nat /\ x + n <= Len(t)
    BY Zenon, <1>4
  <2> HIDE DEF x
  <2>2. SubSeq(t, x + 1, x + n) \in Seq(S) /\ Len(SubSeq(t, x + 1, x + n)) = n
        /\ \A j \in 1..n : SubSeq(t, x + 1, x + n)[j] = t[x + j]
    BY <2>1, PieceFacts
  <2> QED
    BY Zenon, <2>2 DEF x
<1> HIDE DEF d, e
<1>6. ASSUME NEW j \in 1..n PROVE d[j] = e[j]
  <2>1. i + j \in 1..b /\ a + (i + j) = (a + i) + j
    OBVIOUS
  <2> QED
    BY Zenon, <1>1, <1>3, <1>5, <2>1
<1>7. d = e
  BY Zenon, <1>3, <1>5, <1>6, SameSeq
<1> QED
  BY Zenon, <1>7 DEF d, e, p

LEMMA PieceMore ==
  ASSUME NEW S, NEW t \in Seq(S), NEW a \in Nat, NEW m \in Nat, NEW n \in Nat,
         a + (m + n) <= Len(t)
  PROVE  SubSeq(t, a + 1, a + m) \o SubSeq(t, (a + m) + 1, (a + m) + n)
           = SubSeq(t, a + 1, a + (m + n))
<1> DEFINE p == SubSeq(t, a + 1, a + (m + n))
           k == m + n
<1>1. k \in Nat /\ a + k <= Len(t) /\ m <= k
  OBVIOUS
<1>2. p \in Seq(S) /\ Len(p) = m + n
  BY PieceFacts, <1>1
<1> HIDE DEF k
<1>3. SubSeq(SubSeq(t, a + 1, a + k), 0 + 1, 0 + m) = SubSeq(t, (a + 0) + 1, (a + 0) + m)
  <2>1. 0 \in Nat /\ 0 + m <= k
    BY <1>1
  <2> QED
    BY <1>1, <2>1, PieceOfPiece
<1>4. SubSeq(SubSeq(t, a + 1, a + k), m + 1, m + n) = SubSeq(t, (a + m) + 1, (a + m) + n)
  <2>1. m + n <= k
    BY DEF k
  <2> QED
    BY <1>1, <2>1, PieceOfPiece
<1>5. Take(p, m) \o SubSeq(p, m + 1, m + n) = Take(p, m + n)
  <2>1. m + n <= Len(p)
    BY <1>2
  <2> HIDE DEF p
  <2> QED
    BY Zenon, <1>2, <2>1, TakeMore
<1>6. Take(p, m + n) = p
  <2> HIDE DEF p
  <2>1. Take(p, Len(p)) = p
    BY Zenon, <1>2, TakeAll
  <2> QED
    BY Zenon, <1>2, <2>1
<1>7. 0 + 1 = 1 /\ 0 + m = m /\ a + 0 = a
  OBVIOUS
<1> QED
  BY Zenon, <1>3, <1>4, <1>5, <1>6, <1>7 DEF Take, k

LEMMA TakeTake ==
  ASSUME NEW S, NEW t \in Seq(S), NEW m \in Nat, NEW n \in Nat, m <= n, n <= Len(t)
  PROVE  Take(Take(t, n), m) = Take(t, m)
<1> DEFINE a == Take(t, n)
<1>1. m <= Len(t)
  BY LengthFacts
<1>2. a \in Seq(S) /\ Len(a) = n /\ \A i \in 1..n : a[i] = t[i]
  BY Zenon, TakeFacts
<1> HIDE DEF a
<1>3. Take(a, m) \in Seq(S) /\ Len(Take(a, m)) = m /\ \A i \in 1..m : Take(a, m)[i] = a[i]
  BY Zenon, <1>2, TakeFacts
<1>4. Take(t, m) \in Seq(S) /\ Len(Take(t, m)) = m /\ \A i \in 1..m : Take(t, m)[i] = t[i]
  BY Zenon, <1>1, TakeFacts
<1>5. \A i \in 1..m : i \in 1..n
  OBVIOUS
<1>6. Take(a, m) = Take(t, m)
  BY Zenon, <1>2, <1>3, <1>4, <1>5, SameSeq
<1> QED
  BY Zenon, <1>6 DEF a

LEMMA TakeFirst ==
  ASSUME NEW S, NEW s \in Seq(S), NEW b \in Seq(S)
  PROVE  Take(s \o b, Len(s)) = Take(s, Len(s))
<1>1. Len(s) \in Nat /\ Len(s) <= Len(s)
  BY LengthFacts
<1> QED
  BY Zenon, <1>1, TakeOfConcat

\* What begins a text that was taken from another one begins that one.
LEMMA PrefixOfTaken ==
  ASSUME NEW S, NEW t \in Seq(S), NEW n \in Nat, n <= Len(t),
         NEW s \in Seq(S), NEW b \in Seq(S), s \o b = Take(t, n)
  PROVE  IsPrefix(s, t)
<1> DEFINE l == Len(s)
<1>1. l \in Nat /\ Len(b) \in Nat /\ Len(t) \in Nat
  BY Zenon, LengthFacts
<1>2. Len(s \o b) = l + Len(b)
  BY Zenon, JoinFacts
<1>3. l <= n
  BY <1>1, <1>2, TakeFacts
<1>4. Take(s \o b, l) = Take(s, l)
  BY Zenon, TakeFirst
<1>5. Take(Take(t, n), l) = Take(t, l)
  BY Zenon, <1>1, <1>3, TakeTake
<1>6. Take(s, l) = Take(t, l)
  BY Zenon, <1>4, <1>5
<1>7. l <= Len(t)
  BY <1>1, <1>3
<1> QED
  BY Zenon, <1>6, <1>7 DEF IsPrefix, Take

\* Incremental.update with at most one chunk, where none is begun: what validateChunk does.
LEMMA UpdateByChunk ==
  ASSUME chunkSize \in Nat \ {0}, NEW k \in Nat, NEW t \in Seq(Bytes),
         Len(t) <= k * chunkSize, k * chunkSize <= Len(t),
         NEW chunk \in Seq(Bytes), Len(chunk) <= chunkSize
  PROVE  /\ Update(Given(t), chunk).inc = Given(t \o chunk)
         /\ Len(chunk) < chunkSize => Update(Given(t), chunk).macs = <<>>
         /\ Len(chunk) = chunkSize => Update(Given(t), chunk).macs = << t \o chunk >>
<1> DEFINE c == chunkSize
           n == Len(chunk)
           over == n - c
           full == IF over < 0 THEN 0 ELSE 1 + over \div c
           F(i) == t \o SubSeq(chunk, 1, c + (i - 1) * c)
           macs == [i \in 1..full |-> F(i)]
<1>1. n \in Nat /\ Len(t) \in Nat
  BY Zenon, LengthFacts
<1>2. Len(t) % c = 0
  <2> DEFINE l == Len(t)
  <2>1. l \in Nat /\ l = k * c + 0 /\ 0 < c
    BY <1>1
  <2> HIDE DEF l
  <2>2. l % c = 0
    BY ZenonT(30), <2>1, Quotient
  <2> QED
    BY Zenon, <2>2 DEF l
<1>3. Given(t) = [text |-> t, unused |-> c]
  <2>1. c - (Len(t) % c) = c
    BY <1>2
  <2> QED
    BY Zenon, <2>1 DEF Given
<1>4. Update(Given(t), chunk).macs = macs
  BY <1>3 DEF Update
<1>5. ASSUME n < c PROVE macs = <<>>
  <2>1. full = 0
    BY <1>1, <1>5
  <2> QED
    BY <2>1
<1>6. ASSUME n = c PROVE macs = << t \o chunk >>
  <2>1. over = 0 /\ 0 \div c = 0
    BY <1>6
  <2>2. full = 1
    BY <2>1
  <2>3. c + (1 - 1) * c = n
    BY <1>6
  <2>4. SubSeq(chunk, 1, n) = chunk
    BY Zenon, TakeAll DEF Take
  <2>5. F(1) = t \o chunk
    BY Zenon, <2>3, <2>4
  <2> HIDE DEF F, full
  <2>6. macs = << F(1) >>
    BY <2>2
  <2> QED
    BY Zenon, <2>5, <2>6
<1>7. Update(Given(t), chunk).inc = Given(t \o chunk)
  BY Zenon, UpdateFacts
<1> QED
  BY Zenon, <1>4, <1>5, <1>6, <1>7

LEMMA Multiples ==
  ASSUME NEW c \in Nat \ {0}, NEW k \in Nat, NEW n \in Nat
  PROVE  /\ k * c \in Nat /\ n * c \in Nat /\ (k + 1) * c = k * c + c
         /\ k <= n => k * c <= n * c
         /\ k > n => k * c >= n * c + c
  OBVIOUS

LEMMA SingleSeq ==
  ASSUME NEW S, NEW s \in Seq(S), Len(s) = 1
  PROVE  s = << s[1] >>
  OBVIOUS

\* Validating.update with no MAC, and with one.
LEMMA MatchNone ==
  ASSUME NEW S, NEW list \in Seq(S)
  PROVE  Match(<<>>, list).ok /\ Match(<<>>, list).expected = list
<1> DEFINE good == {i \in 0..Len(<<>>) : /\ i <= Len(list)
                                         /\ SubSeq(<<>>, 1, i) = SubSeq(list, 1, i)}
<1>1. Len(<<>>) = 0 /\ Len(list) \in Nat
  BY Zenon, LengthFacts
<1>2. SubSeq(<<>>, 1, 0) = <<>> /\ SubSeq(list, 1, 0) = <<>>
  BY CutNothing
<1>3. good = {0}
  BY <1>1, <1>2
<1>4. Max({0}) = 0
  BY DEF Max
<1>5. Max(good) = 0
  BY Zenon, <1>3, <1>4
<1>6. /\ Match(<<>>, list).ok <=> Max(good) = Len(<<>>)
      /\ Match(<<>>, list).expected = SubSeq(list, Max(good) + 1, Len(list))
  BY Zenon DEF Match
<1>7. SubSeq(list, 0 + 1, Len(list)) = list
  BY TakeAll DEF Take
<1> HIDE DEF good
<1> QED
  BY Zenon, <1>1, <1>5, <1>6, <1>7

LEMMA MatchOne ==
  ASSUME NEW S, NEW list \in Seq(S), list # <<>>, NEW x
  PROVE  /\ Match(<< x >>, list).ok <=> list[1] = x
         /\ list[1] = x => Match(<< x >>, list).expected = SubSeq(list, 2, Len(list))
<1> DEFINE m == << x >>
           good == {i \in 0..Len(m) : i <= Len(list) /\ SubSeq(m, 1, i) = SubSeq(list, 1, i)}
<1>1. Len(m) = 1 /\ Len(list) \in Nat /\ Len(list) # 0
  BY Zenon, LengthFacts, NoElements
<1>2. SubSeq(m, 1, 0) = <<>> /\ SubSeq(list, 1, 0) = <<>>
  BY CutNothing
<1>3. SubSeq(m, 1, 1) = m
  <2>1. m \in Seq({x})
    OBVIOUS
  <2>2. Take(m, Len(m)) = m
    BY Zenon, <2>1, TakeAll
  <2> QED
    BY Zenon, <1>1, <2>2 DEF Take
<1>4. SubSeq(list, 1, 1) = << list[1] >>
  <2>1. 1 \in Nat /\ 1 <= Len(list)
    BY <1>1
  <2>2. /\ Take(list, 1) \in Seq(S) /\ Len(Take(list, 1)) = 1
        /\ \A i \in 1..1 : Take(list, 1)[i] = list[i]
    BY Zenon, <2>1, TakeFacts
  <2>3. Take(list, 1) = << Take(list, 1)[1] >>
    BY Zenon, <2>2, SingleSeq
  <2>4. Take(list, 1)[1] = list[1]
    BY <2>2
  <2> QED
    BY Zenon, <2>3, <2>4 DEF Take
<1>5. 0 \in good
  BY <1>1, <1>2
<1>6. 1 \in good <=> m = << list[1] >>
  BY <1>1, <1>3, <1>4
<1>7. 1 \in good <=> list[1] = x
  BY Zenon, <1>6
<1>8. good \subseteq {0, 1}
  BY <1>1
<1>9. /\ Match(m, list).ok <=> Max(good) = Len(m)
      /\ Match(m, list).expected = SubSeq(list, Max(good) + 1, Len(list))
  BY Zenon DEF Match
<1> HIDE DEF good, m
<1>10. ASSUME list[1] = x PROVE Max(good) = 1
  <2>1. good = {0, 1}
    BY Zenon, <1>5, <1>7, <1>8, <1>10
  <2>2. Max({0, 1}) = 1
    <3> DEFINE y == Max({0, 1})
    <3>1. y \in {0, 1} /\ \A z \in {0, 1} : y >= z
      <4>1. \E w \in {0, 1} : \A z \in {0, 1} : w >= z
        OBVIOUS
      <4> QED
        BY Zenon, <4>1 DEF Max
    <3> HIDE DEF y
    <3>2. y = 1
      BY <3>1
    <3> QED
      BY Zenon, <3>2 DEF y
  <2> QED
    BY Zenon, <2>1, <2>2
<1>11. ASSUME list[1] # x PROVE Max(good) = 0
  <2>1. good = {0}
    BY Zenon, <1>5, <1>7, <1>8, <1>11
  <2>2. Max({0}) = 0
    BY DEF Max
  <2> QED
    BY Zenon, <2>1, <2>2
<1>12. Match(m, list).ok <=> list[1] = x
  BY <1>1, <1>9, <1>10, <1>11
<1>13. list[1] = x => Match(m, list).expected = SubSeq(list, 2, Len(list))
  BY <1>9, <1>10
<1> QED
  BY Zenon, <1>12, <1>13 DEF m

\* The digests of the writer after close().
LEMMA DigestFacts ==
  ASSUME MacTypes, WriterInv, state # "write", NEW n \in Nat, n = Len(written) \div chunkSize
  PROVE  /\ n \in Nat /\ digests \in Seq(Seq(Bytes)) /\ Len(digests) = n + 1
         /\ \A i \in 1..n : digests[i] = Take(written, i * chunkSize)
         /\ digests[n + 1] = written
         /\ \A k \in Nat : k <= n <=> k * chunkSize <= Len(written)
<1> DEFINE a == ChunkMacs(written)
           c == chunkSize
           l == Len(written)
<1>1. /\ c \in Nat \ {0} /\ written \in Seq(Bytes) /\ l \in Nat
      /\ digests = Append(a, written)
  BY Zenon, LengthFacts DEF MacTypes, WriterInv
<1>2. /\ a \in Seq(Seq(Bytes)) /\ Len(a) = n /\ n \in Nat
      /\ \A i \in 1..n : a[i] = Take(written, i * c)
  BY Zenon, <1>1, ChunkMacsFacts
<1> HIDE DEF a
<1>3. /\ digests \in Seq(Seq(Bytes)) /\ Len(digests) = Len(a) + 1
      /\ \A i \in 1..Len(a) : digests[i] = a[i]
      /\ digests[Len(a) + 1] = written
  <2>1. a \in Seq(Seq(Bytes)) /\ written \in Seq(Bytes)
    BY Zenon, <1>1, <1>2
  <2> QED
    BY <1>1, <2>1, AddFacts
<1>4. ASSUME NEW k \in Nat PROVE k <= n <=> k * c <= l
  <2> DEFINE q == l \div c
             r == l % c
  <2>1. q \in Nat /\ r \in Nat /\ r < c /\ l = q * c + r
    BY Zenon, <1>1, Divide
  <2>2. n = q
    BY Zenon
  <2> HIDE DEF q, r, l
  <2>3. /\ k * c \in Nat /\ q * c \in Nat
        /\ k <= q => k * c <= q * c
        /\ k > q => k * c >= q * c + c
    BY Zenon, <1>1, <2>1, Multiples
  <2>4. k <= q <=> k * c <= l
    BY <1>1, <2>1, <2>3
  <2> QED
    BY Zenon, <2>2, <2>4
<1> QED
  BY Zenon, <1>2, <1>3, <1>4

\* What the reader expects when k chunks are validated.
LEMMA ExpectedFacts ==
  ASSUME MacTypes, WriterInv, state # "write", NEW k \in Nat, Validated(k),
         NEW n \in Nat, n = Len(written) \div chunkSize
  PROVE  /\ expected \in Seq(Seq(Bytes)) /\ Len(expected) = n + 1 - k /\ expected # <<>>
         /\ expected[1] = digests[k + 1]
         /\ SubSeq(expected, 2, Len(expected)) = SubSeq(digests, k + 2, Len(digests))
<1> DEFINE m == n + 1 - k
           D == digests
<1>1. n \in Nat /\ D \in Seq(Seq(Bytes)) /\ Len(D) = n + 1
  BY Zenon, DigestFacts
<1>2. k <= n /\ expected = SubSeq(D, k + 1, Len(D))
  BY Zenon DEF Validated
<1>3. m \in Nat /\ 1 <= m /\ k + m = Len(D) /\ m - 1 \in Nat
  <2> DEFINE e == Len(D)
  <2>1. n \in Nat /\ e = n + 1 /\ k <= n
    BY Zenon, <1>1, <1>2
  <2> HIDE DEF e
  <2>2. m \in Nat /\ 1 <= m /\ k + m = e /\ m - 1 \in Nat
    BY <2>1
  <2> QED
    BY Zenon, <2>2 DEF e
<1> HIDE DEF m, D
<1>4. /\ SubSeq(D, k + 1, k + m) \in Seq(Seq(Bytes))
      /\ Len(SubSeq(D, k + 1, k + m)) = m
      /\ \A i \in 1..m : SubSeq(D, k + 1, k + m)[i] = D[k + i]
  <2>1. k + m <= Len(D)
    BY <1>1, <1>3
  <2>2. D \in Seq(Seq(Bytes))
    BY Zenon, <1>1
  <2> QED
    BY <1>3, <2>1, <2>2, PieceFacts
<1>5. expected = SubSeq(D, k + 1, k + m)
  BY Zenon, <1>2, <1>3
<1>6. expected \in Seq(Seq(Bytes)) /\ Len(expected) = m /\ expected[1] = D[k + 1]
  BY <1>3, <1>4, <1>5
<1>7. expected # <<>>
  BY <1>3, <1>6
<1>8. SubSeq(SubSeq(D, k + 1, k + m), 1 + 1, 1 + (m - 1))
        = SubSeq(D, (k + 1) + 1, (k + 1) + (m - 1))
  <2> DEFINE j == m - 1
             i == 1
  <2>1. j \in Nat /\ i \in Nat /\ i + j <= m /\ k + m <= Len(D) /\ D \in Seq(Seq(Bytes))
    BY <1>1, <1>3
  <2> HIDE DEF j, i
  <2>2. SubSeq(SubSeq(D, k + 1, k + m), i + 1, i + j) = SubSeq(D, (k + i) + 1, (k + i) + j)
    BY <1>3, <2>1, PieceOfPiece
  <2> QED
    BY Zenon, <2>2 DEF i, j
<1>9. 1 + 1 = 2 /\ 1 + (m - 1) = m /\ (k + 1) + 1 = k + 2 /\ (k + 1) + (m - 1) = Len(D)
  BY <1>3
<1>10. SubSeq(expected, 2, Len(expected)) = SubSeq(D, k + 2, Len(D))
  BY Zenon, <1>5, <1>6, <1>8, <1>9
<1> QED
  BY Zenon, <1>6, <1>7, <1>10 DEF m, D

-----------------------------------------------------------------------------
(* The steps *)

fixedVars == <<chunkSize, written, writer, digests, received>>

\* The texts of k validated chunks.
LEMMA ValidatedText ==
  ASSUME MacTypes, WriterInv, state # "write", NEW k \in Nat, Validated(k)
  PROVE  /\ k * chunkSize \in Nat /\ k * chunkSize <= Len(written)
         /\ k * chunkSize <= Len(received)
         /\ reader.text = Take(written, k * chunkSize)
         /\ reader.text = Take(received, k * chunkSize)
         /\ reader.text \in Seq(Bytes) /\ Len(reader.text) = k * chunkSize
<1> DEFINE n == Len(written) \div chunkSize
           m == k * chunkSize
<1>1. chunkSize \in Nat \ {0} /\ written \in Seq(Bytes)
  BY Zenon DEF MacTypes
<1>2. n \in Nat
  BY Zenon, <1>1, LengthFacts, Divide
<1>3. m \in Nat
  BY Zenon, <1>1, Multiples
<1>4. k <= n /\ m <= Len(received) /\ reader.text = Take(written, m)
      /\ Take(received, m) = Take(written, m)
  BY Zenon DEF Validated, Given
<1> HIDE DEF n, m
<1>5. m <= Len(written)
  BY Zenon, <1>2, <1>4, DigestFacts DEF n, m
<1>6. Take(written, m) \in Seq(Bytes) /\ Len(Take(written, m)) = m
  BY Zenon, <1>1, <1>3, <1>5, TakeFacts
<1> QED
  BY Zenon, <1>3, <1>4, <1>5, <1>6 DEF m

\* A chunk that was read to its end: it is handed out only if it was written.
LEMMA ValidateFull ==
  ASSUME MacInv, state = "READ_FROM_INPUT", NEW k \in Nat, Validated(k),
         released = Take(written, k * chunkSize),
         k * chunkSize + chunkSize <= Len(received),
         NEW chunk, chunk = SubSeq(received, k * chunkSize + 1, k * chunkSize + chunkSize),
         ~atEnd, ValidateChunk(chunk, FALSE), UNCHANGED <<fixedVars, atEnd, released>>
  PROVE  MacInv'
<1> DEFINE c == chunkSize
           m == k * c
           n == Len(written) \div c
           t == Take(received, m)
           new == Take(received, m + c)
<1>1. /\ MacTypes /\ WriterInv /\ state # "write"
      /\ c \in Nat \ {0} /\ written \in Seq(Bytes) /\ received \in Seq(Bytes)
      /\ Len(received) \in Nat /\ Len(written) \in Nat
  BY Zenon, LengthFacts DEF MacInv, MacTypes
<1>2. /\ m \in Nat /\ m <= Len(written) /\ reader.text = t
      /\ t \in Seq(Bytes) /\ Len(t) = m /\ t = Take(written, m)
  BY Zenon, <1>1, ValidatedText
<1>3. n \in Nat /\ k <= n /\ reader = Given(t)
  <2>1. n \in Nat
    BY Zenon, <1>1, Divide
  <2> QED
    BY Zenon, <1>2, <2>1 DEF Validated
<1>4. chunk \in Seq(Bytes) /\ Len(chunk) = c
  <2>1. m + c <= Len(received) /\ c \in Nat
    BY Zenon, <1>1
  <2> HIDE DEF m
  <2> QED
    BY <1>1, <1>2, <2>1, PieceFacts DEF m
<1>5. t \o chunk = new
  <2>1. m + c <= Len(received) /\ c \in Nat
    BY Zenon, <1>1
  <2>2. chunk = SubSeq(received, m + 1, m + c)
    BY Zenon
  <2> HIDE DEF m
  <2>3. Take(received, m) \o SubSeq(received, m + 1, m + c) = Take(received, m + c)
    BY Zenon, <1>1, <1>2, <2>1, TakeMore
  <2> QED
    BY Zenon, <2>2, <2>3
<1>6. new \in Seq(Bytes) /\ Len(new) = m + c
  <2>1. m + c <= Len(received) /\ m + c \in Nat
    BY <1>1, <1>2
  <2> QED
    BY Zenon, <1>1, <2>1, TakeFacts
<1>7. m + c = (k + 1) * c /\ k + 1 \in Nat
  BY <1>1, Multiples
<1>8. Update(reader, chunk).inc = Given(new) /\ Update(reader, chunk).macs = << new >>
  <2>1. Len(t) <= k * c /\ k * c <= Len(t) /\ Len(chunk) <= c
    BY <1>1, <1>2, <1>4
  <2> HIDE DEF t, new
  <2>2. /\ Update(Given(t), chunk).inc = Given(t \o chunk)
        /\ Len(chunk) = chunkSize => Update(Given(t), chunk).macs = << t \o chunk >>
    BY Zenon, <1>1, <1>2, <1>4, <2>1, UpdateByChunk
  <2> QED
    BY Zenon, <1>3, <1>4, <1>5, <2>2
<1>9. /\ expected \in Seq(Seq(Bytes)) /\ expected # <<>> /\ expected[1] = digests[k + 1]
      /\ SubSeq(expected, 2, Len(expected)) = SubSeq(digests, k + 2, Len(digests))
  BY Zenon, <1>1, <1>3, ExpectedFacts
<1>10. /\ \A i \in 1..n : digests[i] = Take(written, i * c)
       /\ digests[n + 1] = written
       /\ \A i \in Nat : i <= n <=> i * c <= Len(written)
  BY Zenon, <1>1, <1>3, DigestFacts
<1>11. /\ Match(<< new >>, expected).ok <=> digests[k + 1] = new
       /\ digests[k + 1] = new =>
            Match(<< new >>, expected).expected = SubSeq(digests, k + 2, Len(digests))
  BY Zenon, <1>9, MatchOne
<1>12. /\ reader' = Given(new)
       /\ expected' = Match(<< new >>, expected).expected
       /\ buffer' = chunk
       /\ state' = IF Match(<< new >>, expected).ok THEN "RELEASE_SAFE_BYTES" ELSE "failed"
  BY Zenon, <1>8 DEF ValidateChunk
<1>13. /\ chunkSize' = chunkSize /\ written' = written /\ writer' = writer
       /\ digests' = digests /\ received' = received /\ atEnd' = atEnd /\ released' = released
  BY Zenon DEF fixedVars
<1> HIDE DEF m, n, t, new
<1>14. k + 1 <= n => digests[k + 1] = Take(written, m + c)
  BY <1>3, <1>7, <1>10
<1>15. ASSUME digests[k + 1] = new PROVE k + 1 <= n /\ new = Take(written, m + c)
  <2>1. CASE k + 1 <= n
    BY Zenon, <1>14, <1>15, <2>1
  <2>2. CASE ~(k + 1 <= n)
    <3>1. k = n
      BY <1>3, <2>2
    <3>2. Len(written) = m + c
      BY Zenon, <1>6, <1>10, <1>15, <3>1
    <3>3. (k + 1) * c <= Len(written)
      BY <1>1, <1>7, <3>2
    <3> QED
      BY Zenon, <1>7, <1>10, <2>2, <3>3
  <2> QED
    BY Zenon, <2>1, <2>2
<1>16. received = written => digests[k + 1] = new
  <2> SUFFICES ASSUME received = written PROVE digests[k + 1] = new
    BY Zenon
  <2>1. (k + 1) * c <= Len(written)
    BY Zenon, <1>7 DEF m
  <2>2. k + 1 <= n
    BY Zenon, <1>7, <1>10, <2>1
  <2> QED
    BY Zenon, <1>14, <2>2 DEF new
<1>17. MacTypes'
  BY Zenon, <1>1, <1>4, <1>12, <1>13 DEF MacTypes
<1>18. WriterInv'
  <2>1. state' # "write"
    BY Zenon, <1>12
  <2> QED
    BY Zenon, <1>1, <1>13, <2>1 DEF WriterInv, Given, ChunkMacs
<1>19. ReadingInv'
  BY Zenon, <1>12 DEF ReadingInv
<1>20. ReleasingInv'
  <2>0. ~atEnd'
    BY <1>13
  <2> SUFFICES ASSUME state' = "RELEASE_SAFE_BYTES"
               PROVE  \E j \in Nat : /\ Validated(j)'
                                     /\ released' \o buffer' = Take(written', j * chunkSize')
    BY Zenon, <2>0 DEF ReleasingInv
  <2>1. digests[k + 1] = new
    BY Zenon, <1>11, <1>12
  <2>2. k + 1 <= n /\ new = Take(written, (k + 1) * c)
    BY Zenon, <1>7, <1>15, <2>1
  <2>3. expected' = SubSeq(digests, (k + 1) + 1, Len(digests))
    <3>1. (k + 1) + 1 = k + 2
      OBVIOUS
    <3> QED
      BY Zenon, <1>11, <1>12, <2>1, <3>1
  <2>4. Take(received, (k + 1) * c) = Take(written, (k + 1) * c)
    BY Zenon, <1>7, <2>2 DEF new
  <2>5. (k + 1) * c <= Len(received)
    BY Zenon, <1>7 DEF m
  <2>6. reader' = Given(Take(written, (k + 1) * c))
    BY Zenon, <1>12, <2>2
  <2>7. Validated(k + 1)'
    BY Zenon, <1>13, <2>2, <2>3, <2>4, <2>5, <2>6 DEF Validated, Given, n
  <2>8. released \o chunk = new
    BY Zenon, <1>2, <1>5 DEF m
  <2>9. released' \o buffer' = Take(written', (k + 1) * chunkSize')
    BY Zenon, <1>12, <1>13, <2>2, <2>8
  <2>10. k + 1 \in Nat
    OBVIOUS
  <2> WITNESS k + 1 \in Nat
  <2> QED
    BY Zenon, <2>7, <2>9
<1>21. ReleasedIsGenuine'
  BY Zenon, <1>13 DEF MacInv, ReleasedIsGenuine
<1>22. EndIsWhole'
  BY Zenon, <1>12 DEF EndIsWhole
<1>23. GenuineIsAccepted'
  BY Zenon, <1>11, <1>12, <1>13, <1>16 DEF GenuineIsAccepted
<1> QED
  BY Zenon, <1>17, <1>18, <1>19, <1>20, <1>21, <1>22, <1>23 DEF MacInv

\* What is still to be read.
LEMMA RestFacts ==
  ASSUME MacInv, state = "READ_FROM_INPUT", NEW k \in Nat, Validated(k),
         NEW a \in Nat, a <= k * chunkSize + Len(buffer), k * chunkSize + Len(buffer) <= a,
         a <= Len(received)
  PROVE  /\ Len(Rest) = Len(received) - a
         /\ \A n \in Nat : n <= Len(Rest) =>
              SubSeq(Rest, 1, n) = SubSeq(received, a + 1, a + n)
<1> DEFINE b == Len(received) - a
           R == SubSeq(received, a + 1, a + b)
<1>1. received \in Seq(Bytes) /\ Len(received) \in Nat
  BY Zenon, LengthFacts DEF MacInv, MacTypes
<1>2. b \in Nat /\ a + b = Len(received)
  BY <1>1
<1>3. Len(reader.text) = k * chunkSize
  BY Zenon, ValidatedText DEF MacInv
<1>4. Rest = R
  <2>1. k * chunkSize \in Nat /\ Len(buffer) \in Nat
    BY Zenon, Multiples, LengthFacts DEF MacInv, MacTypes
  <2>2. Len(reader.text) + Len(buffer) = a
    BY <1>3, <2>1
  <2> QED
    BY Zenon, <1>2, <2>2 DEF Rest
<1> HIDE DEF b
<1>5. a + b <= Len(received)
  BY <1>1, <1>2
<1>6. Len(R) = b
  BY <1>1, <1>2, <1>5, PieceFacts
<1>7. ASSUME NEW n \in Nat, n <= b
      PROVE  SubSeq(R, 1, n) = SubSeq(received, a + 1, a + n)
  <2>1. 0 \in Nat /\ 0 + n <= b
    BY <1>7
  <2>2. SubSeq(R, 0 + 1, 0 + n) = SubSeq(received, (a + 0) + 1, (a + 0) + n)
    BY <1>1, <1>2, <1>5, <2>1, PieceOfPiece
  <2>3. 0 + 1 = 1 /\ 0 + n = n /\ a + 0 = a
    OBVIOUS
  <2> QED
    BY Zenon, <2>2, <2>3
<1> HIDE DEF R
<1> QED
  BY Zenon, <1>4, <1>6, <1>7 DEF b

\* readFromInput with bytes from the channel.
LEMMA ReadFromInputInv ==
  ASSUME MacInv, NEW n \in Nat, ReadFromInput(n)
  PROVE  MacInv'
<1> DEFINE c == chunkSize
           chunk == buffer \o SubSeq(Rest, 1, n)
           b == Len(buffer)
<1>1. /\ state = "READ_FROM_INPUT" /\ n \in 1..(c - b) /\ n <= Len(Rest)
      /\ IF Len(chunk) = c THEN ValidateChunk(chunk, FALSE)
         ELSE buffer' = chunk /\ UNCHANGED <<reader, expected, state>>
      /\ UNCHANGED <<fixedVars, atEnd, released>>
  BY Zenon DEF ReadFromInput, fixedVars
<1>2. /\ c \in Nat \ {0} /\ received \in Seq(Bytes) /\ buffer \in Seq(Bytes)
      /\ Len(received) \in Nat /\ b \in Nat
  BY Zenon, LengthFacts DEF MacInv, MacTypes
<1>3. ~atEnd /\ b < c
  BY Zenon, <1>1 DEF MacInv, ReadingInv
<1>4. PICK k \in Nat : /\ Validated(k) /\ released = Take(written, k * c)
                       /\ k * c + b <= Len(received)
                       /\ buffer = SubSeq(received, k * c + 1, k * c + b)
  BY Zenon, <1>1 DEF MacInv, ReadingInv
<1> DEFINE m == k * c
           a == m + b
<1>5. m \in Nat /\ a \in Nat /\ a <= Len(received)
  <2>1. m \in Nat
    BY Zenon, <1>2, Multiples
  <2> QED
    BY <1>2, <1>4, <2>1
<1>6. SubSeq(Rest, 1, n) = SubSeq(received, a + 1, a + n) /\ a + n <= Len(received)
  <2>1. a <= k * chunkSize + Len(buffer) /\ k * chunkSize + Len(buffer) <= a
    BY <1>5
  <2> HIDE DEF a
  <2>2. /\ Len(Rest) = Len(received) - a
        /\ \A i \in Nat : i <= Len(Rest) =>
             SubSeq(Rest, 1, i) = SubSeq(received, a + 1, a + i)
    BY Zenon, <1>1, <1>4, <1>5, <2>1, RestFacts
  <2>3. a + n <= Len(received)
    BY <1>1, <1>2, <1>5, <2>2
  <2> QED
    BY Zenon, <1>1, <2>2, <2>3
<1>7. chunk = SubSeq(received, m + 1, m + (b + n)) /\ m + (b + n) <= Len(received)
  <2>1. m + (b + n) <= Len(received)
    BY <1>2, <1>5, <1>6
  <2> HIDE DEF m, b
  <2>2. SubSeq(received, m + 1, m + b) \o SubSeq(received, (m + b) + 1, (m + b) + n)
          = SubSeq(received, m + 1, m + (b + n))
    BY <1>2, <1>5, <2>1, PieceMore
  <2> QED
    BY Zenon, <1>4, <1>6, <2>1, <2>2 DEF m, b
<1>8. b + n \in Nat /\ b + n <= c
  BY <1>1, <1>2
<1>9. chunk \in Seq(Bytes) /\ Len(chunk) = b + n
  <2> DEFINE d == b + n
  <2>1. d \in Nat /\ m + d <= Len(received)
    BY Zenon, <1>7, <1>8
  <2> HIDE DEF d, m
  <2>2. SubSeq(received, m + 1, m + d) \in Seq(Bytes) /\ Len(SubSeq(received, m + 1, m + d)) = d
    BY <1>2, <1>5, <2>1, PieceFacts
  <2> QED
    BY Zenon, <1>7, <2>2 DEF d
<1> HIDE DEF chunk
<1>10. CASE Len(chunk) = c
  <2>1. b + n = c
    BY Zenon, <1>9, <1>10
  <2>2. chunk = SubSeq(received, k * c + 1, k * c + c) /\ k * c + c <= Len(received)
    BY Zenon, <1>7, <2>1
  <2>3. ValidateChunk(chunk, FALSE) /\ UNCHANGED <<fixedVars, atEnd, released>>
    BY Zenon, <1>1, <1>10
  <2> QED
    BY Zenon, <1>1, <1>3, <1>4, <2>2, <2>3, ValidateFull
<1>11. CASE Len(chunk) # c
  <2>1. /\ buffer' = chunk /\ reader' = reader /\ expected' = expected /\ state' = state
        /\ chunkSize' = chunkSize /\ written' = written /\ writer' = writer
        /\ digests' = digests /\ received' = received /\ released' = released
    BY Zenon, <1>1, <1>11 DEF fixedVars
  <2>2. atEnd' = atEnd
    BY Zenon, <1>1
  <2>3. Len(chunk) < c
    <3> DEFINE x == b + n
    <3>1. x \in Nat /\ x <= c /\ x # c
      BY Zenon, <1>8, <1>9, <1>11
    <3> HIDE DEF x
    <3>2. x < c
      BY <1>2, <3>1
    <3> QED
      BY Zenon, <1>9, <3>2 DEF x
  <2>4. MacTypes'
    <3>1. atEnd' \in BOOLEAN
      BY Zenon, <2>2 DEF MacInv, MacTypes
    <3> QED
      BY Zenon, <1>9, <2>1, <3>1 DEF MacInv, MacTypes
  <2>5. WriterInv'
    BY Zenon, <1>1, <2>1 DEF MacInv, WriterInv, Given, ChunkMacs
  <2>6. ~atEnd'
    BY Zenon, <1>3, <2>2
  <2>7. \E j \in Nat : /\ Validated(j)' /\ released' = Take(written', j * chunkSize')
                       /\ j * chunkSize' + Len(buffer') <= Len(received')
                       /\ buffer' = SubSeq(received', j * chunkSize' + 1,
                                           j * chunkSize' + Len(buffer'))
    <3>1. Validated(k)'
      BY Zenon, <1>4, <2>1 DEF Validated, Given
    <3>2. released' = Take(written', k * chunkSize')
      BY Zenon, <1>4, <2>1
    <3>3. k * c + Len(chunk) <= Len(received)
          /\ chunk = SubSeq(received, k * c + 1, k * c + Len(chunk))
      BY Zenon, <1>7, <1>9
    <3> WITNESS k \in Nat
    <3> QED
      BY Zenon, <2>1, <3>1, <3>2, <3>3
  <2>8. ReadingInv'
    BY Zenon, <2>1, <2>3, <2>6, <2>7 DEF ReadingInv
  <2>9. ReleasingInv' /\ ReleasedIsGenuine' /\ EndIsWhole' /\ GenuineIsAccepted'
    BY Zenon, <1>1, <2>1 DEF MacInv, ReleasingInv, ReleasedIsGenuine, EndIsWhole, GenuineIsAccepted
  <2> QED
    BY Zenon, <2>4, <2>5, <2>8, <2>9 DEF MacInv
<1> QED
  BY Zenon, <1>10, <1>11

\* readFromInput at the end: the last chunk is handed out only if this is all
\* that was written, and then always.
LEMMA ReadEndInv ==
  ASSUME MacInv, ReadEnd
  PROVE  MacInv'
<1> DEFINE c == chunkSize
           b == Len(buffer)
           n == Len(written) \div c
<1>1. /\ state = "READ_FROM_INPUT" /\ Rest = <<>> /\ atEnd'
      /\ chunkSize' = chunkSize /\ written' = written /\ writer' = writer
      /\ digests' = digests /\ received' = received /\ released' = released
  BY Zenon DEF ReadEnd
<1>2. /\ received = <<>> => /\ state' = "eof" /\ reader' = reader /\ expected' = expected
                            /\ buffer' = buffer
      /\ received # <<>> => ValidateChunk(buffer, TRUE)
  BY Zenon DEF ReadEnd
<1>3. /\ MacTypes /\ WriterInv /\ state # "write"
      /\ c \in Nat \ {0} /\ received \in Seq(Bytes) /\ buffer \in Seq(Bytes)
      /\ written \in Seq(Bytes)
      /\ Len(received) \in Nat /\ b \in Nat /\ Len(written) \in Nat
  BY Zenon, <1>1, LengthFacts DEF MacInv, MacTypes
<1>4. b < c
  BY Zenon, <1>1 DEF MacInv, ReadingInv
<1>5. ReleasedIsGenuine'
  BY Zenon, <1>1 DEF MacInv, ReleasedIsGenuine
<1>6. ASSUME NEW new, new \in {"eof", "failed", "RELEASE_SAFE_BYTES"}, state' = new,
             buffer' = buffer
      PROVE  MacTypes' /\ WriterInv' /\ ReadingInv'
  <2>1. MacTypes'
    BY Zenon, <1>1, <1>6 DEF MacInv, MacTypes
  <2>2. WriterInv'
    BY Zenon, <1>1, <1>6 DEF MacInv, WriterInv, Given, ChunkMacs
  <2>3. ReadingInv'
    BY Zenon, <1>6 DEF ReadingInv
  <2> QED
    BY Zenon, <2>1, <2>2, <2>3
<1>7. CASE received = <<>>
  <2>1. state' = "eof" /\ buffer' = buffer
    BY Zenon, <1>2, <1>7
  <2>2. MacTypes' /\ WriterInv' /\ ReadingInv'
    BY Zenon, <1>6, <2>1
  <2>3. ReleasingInv' /\ EndIsWhole' /\ GenuineIsAccepted'
    BY Zenon, <1>1, <1>7, <2>1 DEF ReleasingInv, EndIsWhole, GenuineIsAccepted
  <2> QED
    BY Zenon, <1>5, <2>2, <2>3 DEF MacInv
<1>8. CASE received # <<>>
  <2>1. PICK k \in Nat : /\ Validated(k) /\ released = Take(written, k * c)
                         /\ k * c + b <= Len(received)
                         /\ buffer = SubSeq(received, k * c + 1, k * c + b)
    BY Zenon, <1>1 DEF MacInv, ReadingInv
  <2> DEFINE m == k * c
             t == Take(received, m)
  <2>2. /\ m \in Nat /\ reader.text = t /\ t \in Seq(Bytes) /\ Len(t) = m
        /\ t = Take(written, m)
    BY Zenon, <1>3, <2>1, ValidatedText
  <2>3. m + b = Len(received)
    <3> DEFINE a == m + b
    <3>1. /\ a \in Nat /\ a <= k * chunkSize + Len(buffer)
          /\ k * chunkSize + Len(buffer) <= a /\ a <= Len(received)
      BY <1>3, <2>1, <2>2
    <3> HIDE DEF a
    <3>2. Len(Rest) = Len(received) - a
      BY Zenon, <1>1, <2>1, <3>1, RestFacts
    <3>3. Len(Rest) = 0
      BY Zenon, <1>1
    <3>4. a = Len(received)
      BY <1>3, <3>1, <3>2, <3>3
    <3> QED
      BY Zenon, <3>4 DEF a
  <2>4. t \o buffer = received
    <3>1. buffer = SubSeq(received, m + 1, m + b)
      BY Zenon, <2>1
    <3> HIDE DEF m, b
    <3>2. m + b <= Len(received)
      BY <1>3, <2>3
    <3>3. Take(received, m) \o SubSeq(received, m + 1, m + b) = Take(received, m + b)
      BY Zenon, <1>3, <2>2, <3>2, TakeMore
    <3>4. Take(received, Len(received)) = received
      BY Zenon, <1>3, TakeAll
    <3> QED
      BY Zenon, <2>3, <3>1, <3>3, <3>4
  <2>5. reader = Given(t)
    BY Zenon, <2>1, <2>2 DEF Validated
  <2>6. Update(reader, buffer).inc = Given(received) /\ Update(reader, buffer).macs = <<>>
    <3>1. Len(t) <= k * c /\ k * c <= Len(t) /\ Len(buffer) <= c
      BY <1>3, <1>4, <2>2
    <3> HIDE DEF t
    <3>2. /\ Update(Given(t), buffer).inc = Given(t \o buffer)
          /\ Len(buffer) < chunkSize => Update(Given(t), buffer).macs = <<>>
      BY Zenon, <1>3, <2>2, <3>1, UpdateByChunk
    <3> QED
      BY Zenon, <1>4, <2>4, <2>5, <3>2
  <2>7. n \in Nat /\ k <= n
    <3>1. n \in Nat
      BY Zenon, <1>3, Divide
    <3> QED
      BY Zenon, <2>1, <3>1 DEF Validated
  <2>8. /\ expected \in Seq(Seq(Bytes)) /\ Len(expected) = n + 1 - k
        /\ expected[1] = digests[k + 1]
    BY Zenon, <1>3, <2>1, <2>7, ExpectedFacts
  <2>9. digests[n + 1] = written
    BY Zenon, <1>3, <2>7, DigestFacts
  <2>10. Match(<<>>, expected).ok /\ Match(<<>>, expected).expected = expected
    BY Zenon, <2>8, MatchNone
  <2>11. /\ expected' = expected /\ buffer' = buffer
         /\ state' = IF expected = << received >> THEN "RELEASE_SAFE_BYTES" ELSE "failed"
    <3>1. Given(received).text = received
      BY Zenon DEF Given
    <3> QED
      BY Zenon, <1>2, <1>8, <2>6, <2>10, <3>1 DEF ValidateChunk, Finalize
  <2>12. expected = << received >> => received = written
    <3> SUFFICES ASSUME expected = << received >> PROVE received = written
      BY Zenon
    <3>1. Len(expected) = 1 /\ expected[1] = received
      BY Zenon
    <3>2. k = n
      BY <2>7, <2>8, <3>1
    <3> QED
      BY Zenon, <2>8, <2>9, <3>1, <3>2
  <2>13. received = written => expected = << received >>
    <3> SUFFICES ASSUME received = written PROVE expected = << received >>
      BY Zenon
    <3>1. k = n
      <4> DEFINE l == Len(received)
      <4>1. l \in Nat /\ l = k * c + b
        BY Zenon, <1>3, <2>3
      <4> HIDE DEF l
      <4>2. l \div c = k
        BY Zenon, <1>3, <1>4, <4>1, Quotient
      <4> QED
        BY Zenon, <4>2 DEF l
    <3>2. Len(expected) = 1
      BY <2>7, <2>8, <3>1
    <3>3. expected = << expected[1] >>
      BY Zenon, <2>8, <3>2, SingleSeq
    <3> QED
      BY Zenon, <2>8, <2>9, <3>1, <3>3
  <2>14. MacTypes' /\ WriterInv' /\ ReadingInv'
    BY Zenon, <1>6, <2>11
  <2>15. ReleasingInv'
    <3> SUFFICES ASSUME state' = "RELEASE_SAFE_BYTES" PROVE released' \o buffer' = written'
      BY Zenon, <1>1 DEF ReleasingInv
    <3>1. received = written
      BY Zenon, <2>11, <2>12
    <3>2. released = t
      BY Zenon, <2>1, <2>2
    <3> QED
      BY Zenon, <1>1, <2>4, <2>11, <3>1, <3>2
  <2>16. EndIsWhole'
    BY Zenon, <2>11 DEF EndIsWhole
  <2>17. GenuineIsAccepted'
    BY Zenon, <1>1, <2>11, <2>13 DEF GenuineIsAccepted
  <2> QED
    BY Zenon, <1>5, <2>14, <2>15, <2>16, <2>17 DEF MacInv
<1> QED
  BY Zenon, <1>7, <1>8

\* releaseSafeBytes
LEMMA ReleaseInv ==
  ASSUME MacInv, NEW n \in Nat, ReleaseSafeBytes(n)
  PROVE  MacInv'
<1> DEFINE first == SubSeq(buffer, 1, n)
           rest == SubSeq(buffer, n + 1, Len(buffer))
           b == Len(buffer)
<1>1. /\ state = "RELEASE_SAFE_BYTES" /\ n <= b /\ (n = 0 => buffer = <<>>)
      /\ released' = released \o first /\ buffer' = rest
      /\ state' = IF buffer # <<>> THEN state ELSE IF atEnd THEN "eof" ELSE "READ_FROM_INPUT"
      /\ chunkSize' = chunkSize /\ written' = written /\ writer' = writer
      /\ digests' = digests /\ received' = received /\ reader' = reader
      /\ expected' = expected
  BY Zenon DEF ReleaseSafeBytes
<1>2. atEnd' = atEnd
  BY Zenon DEF ReleaseSafeBytes
<1>3. /\ chunkSize \in Nat \ {0} /\ written \in Seq(Bytes) /\ buffer \in Seq(Bytes)
      /\ released \in Seq(Bytes) /\ b \in Nat /\ Len(written) \in Nat
      /\ MacTypes /\ WriterInv /\ state # "write"
  BY Zenon, <1>1, LengthFacts DEF MacInv, MacTypes
<1>4. first \in Seq(Bytes) /\ rest \in Seq(Bytes) /\ first \o rest = buffer
  <2> DEFINE d == b - n
  <2>1. d \in Nat /\ n + d = b
    BY <1>1, <1>3
  <2> HIDE DEF d
  <2>2. n + d <= Len(buffer)
    BY <1>3, <2>1
  <2>3. SubSeq(buffer, n + 1, n + d) \in Seq(Bytes)
    BY Zenon, <1>3, <2>1, <2>2, PieceFacts
  <2>4. Take(buffer, n) \in Seq(Bytes)
    BY Zenon, <1>1, <1>3, TakeFacts
  <2>5. Take(buffer, n) \o SubSeq(buffer, n + 1, n + d) = Take(buffer, n + d)
    BY Zenon, <1>3, <2>1, <2>2, TakeMore
  <2>6. Take(buffer, b) = buffer
    BY Zenon, <1>3, TakeAll
  <2> QED
    BY Zenon, <2>1, <2>3, <2>4, <2>5, <2>6 DEF Take
<1> HIDE DEF first, rest
<1>5. released' \in Seq(Bytes) /\ buffer' \in Seq(Bytes)
      /\ released' \o buffer' = released \o buffer
  <2>1. released \o first \in Seq(Bytes)
    BY Zenon, <1>3, <1>4, JoinFacts
  <2>2. (released \o first) \o rest = released \o (first \o rest)
    <3>1. released \in Seq(Bytes) /\ first \in Seq(Bytes) /\ rest \in Seq(Bytes)
      BY Zenon, <1>3, <1>4
    <3> QED
      BY <3>1, JoinJoin
  <2> QED
    BY Zenon, <1>1, <1>4, <2>1, <2>2
<1>6. PICK m \in Nat : m <= Len(written) /\ released \o buffer = Take(written, m)
  <2>1. CASE atEnd
    <3>1. released \o buffer = written
      BY Zenon, <1>1, <2>1 DEF MacInv, ReleasingInv
    <3> QED
      BY <1>3, <3>1, TakeAll
  <2>2. CASE ~atEnd
    <3>1. PICK k \in Nat : /\ Validated(k)
                           /\ released \o buffer = Take(written, k * chunkSize)
      BY Zenon, <1>1, <2>2 DEF MacInv, ReleasingInv
    <3>2. k * chunkSize \in Nat /\ k * chunkSize <= Len(written)
      BY Zenon, <1>3, <3>1, ValidatedText
    <3> QED
      BY Zenon, <3>1, <3>2
  <2> QED
    BY Zenon, <2>1, <2>2
<1>7. ReleasedIsGenuine'
  <2>1. released' \o buffer' = Take(written, m)
    BY Zenon, <1>5, <1>6
  <2>2. IsPrefix(released', written)
    BY Zenon, <1>3, <1>5, <1>6, <2>1, PrefixOfTaken
  <2> QED
    BY Zenon, <1>1, <2>2 DEF ReleasedIsGenuine
<1>8. MacTypes'
  <2>1. atEnd' \in BOOLEAN
    BY Zenon, <1>2 DEF MacInv, MacTypes
  <2> QED
    BY Zenon, <1>1, <1>5, <2>1 DEF MacInv, MacTypes
<1>9. WriterInv'
  BY Zenon, <1>1, <1>3 DEF WriterInv, Given, ChunkMacs
<1>10. GenuineIsAccepted'
  BY Zenon, <1>1 DEF MacInv, GenuineIsAccepted
<1>11. ASSUME buffer = <<>> PROVE n = 0 /\ released' = released /\ buffer' = <<>>
  <2>1. n = 0 /\ Len(buffer) = 0
    BY <1>1, <1>11
  <2>2. released' \o buffer' = released
    BY Zenon, <1>3, <1>5, <1>11, JoinNothing
  <2>3. buffer' = <<>>
    BY <1>1, <2>1, CutNothing DEF rest
  <2>4. released' \o <<>> = released'
    BY Zenon, <1>5, JoinNothing
  <2> QED
    BY Zenon, <2>1, <2>2, <2>3, <2>4
<1>12. CASE atEnd
  <2>1. released \o buffer = written /\ atEnd'
    BY Zenon, <1>1, <1>2, <1>12 DEF MacInv, ReleasingInv
  <2>2. ReleasingInv'
    BY Zenon, <1>1, <1>5, <2>1 DEF ReleasingInv
  <2>3. ReadingInv'
    BY Zenon, <1>1, <1>12 DEF ReadingInv
  <2>4. EndIsWhole'
    <3> SUFFICES ASSUME state' = "eof" PROVE released' = written'
      BY Zenon DEF EndIsWhole
    <3>1. buffer = <<>>
      BY Zenon, <1>1
    <3>2. released' = released /\ released \o <<>> = released
      BY Zenon, <1>3, <1>11, <3>1, JoinNothing
    <3> QED
      BY Zenon, <1>1, <2>1, <3>1, <3>2
  <2> QED
    BY Zenon, <1>7, <1>8, <1>9, <1>10, <2>2, <2>3, <2>4 DEF MacInv
<1>13. CASE ~atEnd
  <2>1. PICK k \in Nat : /\ Validated(k)
                         /\ released \o buffer = Take(written, k * chunkSize)
    BY Zenon, <1>1, <1>13 DEF MacInv, ReleasingInv
  <2>2. ~atEnd' /\ state' # "eof"
    BY Zenon, <1>1, <1>2, <1>13
  <2>3. Validated(k)'
    BY Zenon, <1>1, <2>1 DEF Validated, Given
  <2>4. \E j \in Nat : Validated(j)' /\ released' \o buffer' = Take(written', j * chunkSize')
    <3>1. released' \o buffer' = Take(written', k * chunkSize')
      BY Zenon, <1>1, <1>5, <2>1
    <3> WITNESS k \in Nat
    <3> QED
      BY Zenon, <2>3, <3>1
  <2>5. ReleasingInv'
    BY Zenon, <2>2, <2>4 DEF ReleasingInv
  <2>6. ReadingInv'
    <3> SUFFICES ASSUME state' = "READ_FROM_INPUT" PROVE ReadingInv'
      BY Zenon DEF ReadingInv
    <3>1. buffer = <<>>
      BY Zenon, <1>1
    <3>2. released' = released /\ buffer' = <<>> /\ released \o <<>> = released
      BY Zenon, <1>3, <1>11, <3>1, JoinNothing
    <3>3. released' = Take(written', k * chunkSize')
      BY Zenon, <1>1, <2>1, <3>1, <3>2
    <3> DEFINE x == k * chunkSize
    <3>4. x \in Nat /\ x <= Len(received)
      BY Zenon, <1>3, <2>1, ValidatedText
    <3> HIDE DEF x
    <3>5. SubSeq(received, x + 1, x + 0) = <<>> /\ Len(<<>>) = 0 /\ x + 0 = x
      BY <3>4, CutNothing
    <3>6. /\ x + Len(buffer') <= Len(received')
          /\ buffer' = SubSeq(received', x + 1, x + Len(buffer'))
      BY Zenon, <1>1, <3>2, <3>4, <3>5
    <3>7. /\ k * chunkSize' + Len(buffer') <= Len(received')
          /\ buffer' = SubSeq(received', k * chunkSize' + 1, k * chunkSize' + Len(buffer'))
      BY Zenon, <1>1, <3>6 DEF x
    <3>8. \E j \in Nat : /\ Validated(j)' /\ released' = Take(written', j * chunkSize')
                         /\ j * chunkSize' + Len(buffer') <= Len(received')
                         /\ buffer' = SubSeq(received', j * chunkSize' + 1,
                                             j * chunkSize' + Len(buffer'))
      <4> WITNESS k \in Nat
      <4> QED
        BY Zenon, <2>3, <3>3, <3>7
    <3>9. Len(buffer') < chunkSize'
      BY <1>1, <1>3, <3>2, <3>5
    <3> QED
      BY Zenon, <2>2, <3>8, <3>9 DEF ReadingInv
  <2>7. EndIsWhole'
    BY Zenon, <2>2 DEF EndIsWhole
  <2> QED
    BY Zenon, <1>7, <1>8, <1>9, <1>10, <2>5, <2>6, <2>7 DEF MacInv
<1> QED
  BY Zenon, <1>12, <1>13

\* write()
LEMMA WriteInv ==
  ASSUME MacInv, NEW bytes \in Seq(Bytes), Write(bytes)
  PROVE  MacInv'
<1>1. /\ state = "write" /\ written' = written \o bytes
      /\ writer' = Update(writer, bytes).inc
      /\ digests' = digests \o Update(writer, bytes).macs
      /\ chunkSize' = chunkSize /\ received' = received /\ reader' = reader
      /\ expected' = expected /\ buffer' = buffer /\ state' = state
      /\ released' = released
  BY Zenon DEF Write
<1>2. atEnd' = atEnd
  BY Zenon DEF Write
<1>3. /\ chunkSize \in Nat \ {0} /\ written \in Seq(Bytes)
      /\ writer = Given(written) /\ digests = ChunkMacs(written)
      /\ released = <<>>
  BY Zenon, <1>1 DEF MacInv, MacTypes, WriterInv
<1>4. written' \in Seq(Bytes)
  BY Zenon, <1>1, <1>3, JoinFacts
<1>5. MacTypes'
  <2>1. atEnd' \in BOOLEAN
    BY Zenon, <1>2 DEF MacInv, MacTypes
  <2> QED
    BY Zenon, <1>1, <1>4, <2>1 DEF MacInv, MacTypes
<1>6. WriterInv'
  <2>1. /\ Update(Given(written), bytes).inc = Given(written \o bytes)
        /\ ChunkMacs(written) \o Update(Given(written), bytes).macs
             = ChunkMacs(written \o bytes)
    BY Zenon, <1>3, UpdateFacts
  <2>2. writer' = Given(written \o bytes) /\ digests' = ChunkMacs(written \o bytes)
    BY Zenon, <1>1, <1>3, <2>1
  <2>3. writer' = Given(written)' /\ digests' = ChunkMacs(written)'
    BY Zenon, <1>1, <2>2 DEF Given, ChunkMacs
  <2>4. ~atEnd'
    BY Zenon, <1>1, <1>2 DEF MacInv, WriterInv
  <2>5. reader' = Given(<<>>)' /\ buffer' = <<>> /\ released' = <<>>
    BY Zenon, <1>1 DEF MacInv, WriterInv, Given
  <2> QED
    BY Zenon, <1>1, <2>3, <2>4, <2>5 DEF WriterInv
<1>7. ReadingInv' /\ ReleasingInv' /\ EndIsWhole' /\ GenuineIsAccepted'
  BY Zenon, <1>1 DEF ReadingInv, ReleasingInv, EndIsWhole, GenuineIsAccepted
<1>8. ReleasedIsGenuine'
  <2>1. SubSeq(<<>>, 1, 0) = <<>> /\ SubSeq(written', 1, 0) = <<>> /\ Len(<<>>) = 0
    BY CutNothing
  <2>2. Len(written') \in Nat
    BY Zenon, <1>4, LengthFacts
  <2> QED
    BY <1>1, <1>3, <2>1, <2>2 DEF ReleasedIsGenuine, IsPrefix
<1> QED
  BY Zenon, <1>5, <1>6, <1>7, <1>8 DEF MacInv

\* close(), and reading begins.
LEMMA CloseInv ==
  ASSUME MacInv, NEW text \in Seq(Bytes), CloseAndOpen(text)
  PROVE  MacInv'
<1>1. /\ state = "write" /\ digests' = Append(digests, writer.text)
      /\ expected' = digests' /\ received' = text /\ state' = "READ_FROM_INPUT"
      /\ chunkSize' = chunkSize /\ written' = written /\ writer' = writer
      /\ reader' = reader /\ buffer' = buffer /\ released' = released
  BY Zenon DEF CloseAndOpen
<1>2. atEnd' = atEnd
  BY Zenon DEF CloseAndOpen
<1>3. /\ chunkSize \in Nat \ {0} /\ written \in Seq(Bytes) /\ Len(written) \in Nat
      /\ writer = Given(written) /\ digests = ChunkMacs(written)
      /\ reader = Given(<<>>) /\ buffer = <<>> /\ released = <<>> /\ ~atEnd
  BY Zenon, <1>1, LengthFacts DEF MacInv, MacTypes, WriterInv
<1>4. MacTypes'
  <2>1. atEnd' \in BOOLEAN
    BY Zenon, <1>2 DEF MacInv, MacTypes
  <2> QED
    BY Zenon, <1>1, <2>1 DEF MacInv, MacTypes
<1>5. WriterInv'
  BY Zenon, <1>1, <1>3 DEF WriterInv, Given, ChunkMacs
<1>6. ReadingInv'
  <2> DEFINE D == digests'
  <2>1. D \in Seq(Seq(Bytes))
    <3>1. digests \in Seq(Seq(Bytes)) /\ writer.text \in Seq(Bytes)
      BY Zenon, <1>3, ChunkMacsFacts DEF Given
    <3> QED
      BY Zenon, <1>1, <3>1, AddFacts
  <2>2. D = SubSeq(D, 1, Len(D))
    BY Zenon, <2>1, TakeAll DEF Take
  <2>3. Take(written, 0) = <<>> /\ Take(text, 0) = <<>>
    BY Zenon, TakeNone
  <2>4. 0 * chunkSize = 0 /\ 0 + 1 = 1 /\ 0 <= Len(written) \div chunkSize
    BY <1>3, Divide
  <2>5. 0 <= Len(text)
    BY LengthFacts
  <2>6. Validated(0)'
    <3>1. Take(received', 0 * chunkSize') = Take(written', 0 * chunkSize')
      BY Zenon, <1>1, <2>3, <2>4
    <3>2. reader' = Given(Take(written, 0 * chunkSize))'
      BY Zenon, <1>1, <1>3, <2>3, <2>4 DEF Given
    <3>3. expected' = SubSeq(digests', 0 + 1, Len(digests'))
      BY Zenon, <1>1, <2>2, <2>4
    <3>4. 0 <= Len(written') \div chunkSize' /\ 0 * chunkSize' <= Len(received')
      BY Zenon, <1>1, <2>4, <2>5
    <3> QED
      BY Zenon, <3>1, <3>2, <3>3, <3>4 DEF Validated
  <2>7. SubSeq(text, 0 + 1, 0 + 0) = <<>> /\ Len(<<>>) = 0 /\ 0 + 0 = 0
    BY CutNothing
  <2>8. \E j \in Nat : /\ Validated(j)' /\ released' = Take(written', j * chunkSize')
                       /\ j * chunkSize' + Len(buffer') <= Len(received')
                       /\ buffer' = SubSeq(received', j * chunkSize' + 1,
                                           j * chunkSize' + Len(buffer'))
    <3>1. /\ released' = Take(written', 0 * chunkSize')
          /\ 0 * chunkSize' + Len(buffer') <= Len(received')
          /\ buffer' = SubSeq(received', 0 * chunkSize' + 1, 0 * chunkSize' + Len(buffer'))
      BY Zenon, <1>1, <1>3, <2>3, <2>4, <2>5, <2>7
    <3> WITNESS 0 \in Nat
    <3> QED
      BY Zenon, <2>6, <3>1
  <2>9. ~atEnd' /\ Len(buffer') < chunkSize'
    <3>1. ~atEnd'
      BY Zenon, <1>2, <1>3
    <3> QED
      BY <1>1, <1>3, <2>7, <3>1
  <2> QED
    BY Zenon, <2>8, <2>9 DEF ReadingInv
<1>7. ReleasingInv' /\ EndIsWhole' /\ GenuineIsAccepted'
  BY Zenon, <1>1 DEF ReleasingInv, EndIsWhole, GenuineIsAccepted
<1>8. ReleasedIsGenuine'
  BY Zenon, <1>1 DEF MacInv, ReleasedIsGenuine
<1> QED
  BY Zenon, <1>4, <1>5, <1>6, <1>7, <1>8 DEF MacInv

LEMMA MacInitInv == MacInit => MacInv
<1> SUFFICES ASSUME MacInit PROVE MacInv
  BY Zenon
<1>1. /\ chunkSize \in Nat \ {0} /\ written = <<>> /\ writer = Fresh(chunkSize)
      /\ digests = <<>> /\ received = <<>> /\ reader = Fresh(chunkSize)
      /\ buffer = <<>> /\ state = "write" /\ released = <<>>
  BY MacAssumption DEF MacInit
<1>2. atEnd = FALSE
  BY Zenon DEF MacInit
<1>3. <<>> \in Seq(Bytes) /\ Len(<<>>) = 0
  BY Zenon, NoElements
<1>4. MacTypes
  BY Zenon, <1>1, <1>2, <1>3 DEF MacTypes
<1>5. 0 % chunkSize = 0 /\ 0 \div chunkSize = 0 /\ chunkSize - 0 = chunkSize
  BY <1>1
<1>6. Given(<<>>) = Fresh(chunkSize)
  BY Zenon, <1>1, <1>3, <1>5 DEF Given, Fresh
<1>7. ChunkMacs(<<>>) = <<>>
  <2>1. ChunkMacs(<<>>) \in Seq(Seq(Bytes)) /\ Len(ChunkMacs(<<>>)) = 0
    BY Zenon, <1>1, <1>3, <1>5, ChunkMacsFacts
  <2> QED
    BY Zenon, <2>1, NoElements
<1>8. WriterInv
  BY Zenon, <1>1, <1>2, <1>6, <1>7 DEF WriterInv
<1>9. ReadingInv /\ ReleasingInv /\ EndIsWhole /\ GenuineIsAccepted
  BY Zenon, <1>1 DEF ReadingInv, ReleasingInv, EndIsWhole, GenuineIsAccepted
<1>10. ReleasedIsGenuine
  BY <1>1, <1>3 DEF ReleasedIsGenuine, IsPrefix
<1> QED
  BY Zenon, <1>4, <1>8, <1>9, <1>10 DEF MacInv

LEMMA MacNextInv == MacInv /\ [MacNext]_macVars => MacInv'
<1> SUFFICES ASSUME MacInv, [MacNext]_macVars PROVE MacInv'
  BY Zenon
<1>1. Texts \subseteq Seq(Bytes)
  BY DEF Texts, BoundedSeq, SeqOf
<1>2. CASE UNCHANGED macVars
  <2>1. /\ chunkSize' = chunkSize /\ written' = written /\ writer' = writer
        /\ digests' = digests /\ received' = received /\ reader' = reader
        /\ expected' = expected /\ buffer' = buffer /\ state' = state
        /\ released' = released /\ atEnd' = atEnd
    BY Zenon, <1>2 DEF macVars
  <2> QED
    BY Zenon, <2>1 DEF MacInv, MacTypes, WriterInv, ReadingInv, ReleasingInv, Validated, Given,
                ChunkMacs, ReleasedIsGenuine, EndIsWhole, GenuineIsAccepted
<1>3. CASE \E bytes \in Texts : Write(bytes) \/ CloseAndOpen(bytes)
  BY Zenon, <1>1, <1>3, WriteInv, CloseInv
<1>4. CASE \E n \in 0..MaxLen : ReadFromInput(n) \/ ReleaseSafeBytes(n)
  BY <1>4, ReadFromInputInv, ReleaseInv
<1>5. CASE ReadEnd
  BY Zenon, <1>5, ReadEndInv
<1> QED
  BY Zenon, <1>2, <1>3, <1>4, <1>5 DEF MacNext

\* The inductive invariant of the writer and of the validating stream
\* (Incremental and Validating of incremental_mac.rs, and their Java streams).
THEOREM MacInvariance == MacSpec => []MacInv
  BY MacInitInv, MacNextInv, PTL DEF MacSpec

\* No byte is handed out that was not written, in its place, for texts of any
\* length, every chunk size and every way to split reads and writes.
THEOREM ReleasedStaysGenuine == MacSpec => []ReleasedIsGenuine
<1>1. MacInv => ReleasedIsGenuine
  BY Zenon DEF MacInv
<1> QED
  BY <1>1, MacInvariance, PTL

\* The end is reported only after everything that was written, or of an input
\* without any byte.
THEOREM EndsAreWhole == MacSpec => []EndIsWhole
<1>1. MacInv => EndIsWhole
  BY Zenon DEF MacInv
<1> QED
  BY <1>1, MacInvariance, PTL

\* What was written is never refused.
THEOREM GenuineStaysAccepted == MacSpec => []GenuineIsAccepted
<1>1. MacInv => GenuineIsAccepted
  BY Zenon DEF MacInv
<1> QED
  BY <1>1, MacInvariance, PTL

=============================================================================
