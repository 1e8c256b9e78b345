--------------------------- MODULE KeyTransparency ---------------------------
(***************************************************************************)
(* The client of the key transparency log (rust/keytrans): the implicit    *)
(* binary search tree over the log, the guide of a search through it, and  *)
(* the monitoring data that the client keeps for one key and checks every  *)
(* answer against.                                                         *)
(*                                                                         *)
(* The log holds, for every position from the first occurrence of the key  *)
(* on, the version (counter) of the key there.  Inclusion and consistency  *)
(* proofs are taken to be sound: the client reads the true counters, and   *)
(* the log only grows.  The counters themselves may go down, which the     *)
(* client is to notice where it looks.                                     *)
(***************************************************************************)
EXTENDS Integers, Sequences, FiniteSets, Bitwise, SequencesExt

CONSTANTS Starts,      \* first positions of the key
          MaxSize,     \* bound: positions in the log
          MaxVersion,  \* bound: versions of the key
          MaxSlips,    \* bound: times that a counter goes down
          NoVersion    \* a search for the most recent version

ASSUME KeysAssumption == Starts \subseteq 0..(MaxSize - 1) /\ NoVersion \notin Nat

VARIABLES start,    \* MonitoringData.pos: first occurrence of the key
          log,      \* counters of positions start, start + 1, ...
          ptrs,     \* MonitoringData.ptrs: the counters seen, by position
          refused,  \* history: an answer did not verify
          slips     \* history: times that a counter went down

keyVars == <<start, log, ptrs, refused, slips>>

treeSize == start + Len(log)
counter(x) == log[x - start + 1]
Versions == 0..MaxVersion

-----------------------------------------------------------------------------
(* left_balanced.rs *)

RECURSIVE log2(_), level(_)
log2(n) == IF n < 2 THEN 0 ELSE 1 + log2(n \div 2)
is_leaf(x) == x % 2 = 0
level(x) == IF is_leaf(x) THEN 0 ELSE 1 + level(x \div 2)

\* A leaf has no children: there is no 2^(-1), as the code panics.
left_step(x) == x ^^ (2^(level(x) - 1))
right_step(x) == x ^^ (3 * 2^(level(x) - 1))
parent_step(x) ==
  LET k == level(x)
      b == (x \div 2^(k + 1)) % 2
  IN (x | (2^k)) ^^ (b * 2^(k + 1))

-----------------------------------------------------------------------------
(* implicit.rs: the search tree over the positions from..n - 1 *)

RECURSIVE move_within(_, _, _)
move_within(x, from, n) ==
  CASE x < from -> move_within(right_step(x), from, n)
    [] x >= n   -> move_within(left_step(x), from, n)
    [] OTHER    -> x

root(from, n) == move_within(2^log2(n) - 1, from, n)
left(x, from, n) == move_within(left_step(x), from, n)
right(x, from, n) == move_within(right_step(x), from, n)

RECURSIVE parent(_, _), direct_path(_, _, _), frontierFrom(_, _, _)
parent(x, n) == LET p == parent_step(x) IN IF p >= n THEN parent(p, n) ELSE p

direct_path(x, from, n) ==
  IF x = root(from, n) THEN <<>>
  ELSE <<parent(x, n)>> \o direct_path(parent(x, n), from, n)

\* Mutant: the entry's left parents are checked as well.
monitoring_path_all(x, from, n) == direct_path(x, from, n)

monitoring_path(x, from, n) == SelectSeq(direct_path(x, from, n), LAMBDA p : p > x)

frontierFrom(x, from, n) ==
  IF x = n - 1 THEN <<x>> ELSE <<x>> \o frontierFrom(right(x, from, n), from, n)
frontier(from, n) == frontierFrom(root(from, n), from, n)

\* What of the frontier comes after the last node that is checked already.
monitoring_frontier(nodes, entries) ==
  LET index == CHOOSE i \in DOMAIN nodes :
                 nodes[i] \in entries /\ \A j \in i + 1..Len(nodes) : nodes[j] \notin entries
  IN SubSeq(nodes, index + 1, Len(nodes))

full_monitoring_path(entry, from, n) ==
  LET path == monitoring_path(entry, from, n)
  IN path \o monitoring_frontier(frontier(from, n), ToSet(path) \cup {entry})

RECURSIVE climb(_, _)
climb(x, entry) == IF x > entry THEN x ELSE climb(parent_step(x), entry)

\* Mutant: the size is taken for the position.
first_parent_position(entry) == climb(entry, entry)

first_parent_to_the_right(entry) == climb(entry, entry) + 1

next_monitor(entries) ==
  Min({first_parent_to_the_right(e) : e \in entries})

-----------------------------------------------------------------------------
(* guide.rs: the positions a search looks up, in order, and its result *)

Monotonic(ids) == \A x, y \in ToSet(ids) : x <= y => counter(x) <= counter(y)

\* The least of the positions looked up with at least the version.
Least(ids, version) ==
  Min({x \in ToSet(ids) : counter(x) >= version})

\* Mutant: the search goes right on equality.
GoesRightEqual(ctr, version) == ctr <= version

GoesRight(ctr, version) == ctr < version

\* The first of the frontier with the greatest version.
FrontierStart(ids, version) == Least(ids, version)

\* poll() with everything looked up: the search is over after ids, or goes on.
RECURSIVE Lookups(_, _, _)
Lookups(ids, last, version) ==
  LET n == treeSize
      ctr == counter(last)
      next == IF GoesRight(ctr, version) THEN right(last, start, n) ELSE left(last, start, n)
  IN IF \/ ~Monotonic(ids) \/ is_leaf(last)
        \/ last = (IF GoesRight(ctr, version) THEN n - 1 ELSE start)
     THEN ids
     ELSE Lookups(Append(ids, next), next, version)

\* for_most_recent or for_version, consume() and result().
Consume(version) ==
  LET first == frontier(start, treeSize)
      wanted == IF version = NoVersion THEN counter(Last(first)) ELSE version
      ids == IF version # NoVersion
             THEN Lookups(<<root(start, treeSize)>>, root(start, treeSize), wanted)
             ELSE IF ~Monotonic(first) THEN first
             ELSE Lookups(first, FrontierStart(first, wanted), wanted)
      found == \E x \in ToSet(ids) : counter(x) >= wanted
  IN [ids |-> ids,
      outcome |-> IF ~Monotonic(ids) THEN "invalid"
                  ELSE IF found /\ counter(Least(ids, wanted)) = wanted
                       THEN "found" ELSE "absent",
      id |-> IF found THEN Least(ids, wanted) ELSE start]

-----------------------------------------------------------------------------
(* verify.rs: what the client keeps, and its checks of an answer.  Data is   *)
(* [ok, ptrs]: ok is FALSE when the answer is refused, with nothing stored.  *)

Fails(old) == [ok |-> FALSE, ptrs |-> old]

start_monitoring(old, pos, version) ==
  IF old = <<>> THEN pos :> version ELSE old

\* Of one key, whose index and start position are always the same; the flag owned
\* only says who asked.
check_search_consistency(old, pos, version) ==
  LET above == SelectSeq(monitoring_path(pos, start, treeSize), LAMBDA x : x \in DOMAIN old)
      low == IF pos \in DOMAIN old THEN old[pos] # version
             ELSE above # <<>> /\ old[Head(above)] < version
  IN IF low THEN Fails(old)
     ELSE [ok |-> TRUE,
           ptrs |-> IF pos \in DOMAIN old \/ above # <<>> THEN old
                    ELSE old @@ (pos :> version)]

\* The positions above pos that the answer covers without a gap.
covered(pos, entries) ==
  LET path == monitoring_path(pos, start, treeSize)
      gapless == {i \in 0..Len(path) : \A j \in 1..i : path[j] \in entries}
  IN SubSeq(path, 1, Max(gapless))

find_updated_mapping(pos, version, entries) ==
  LET up == covered(pos, entries)
  IN IF up = <<>> THEN <<pos, version>> ELSE <<Last(up), counter(Last(up))>>

\* Mutant: a lower version at a later position is stored.
updateUnchecked(old, entries) ==
  LET pairs == {find_updated_mapping(p, old[p], entries) : p \in DOMAIN old}
  IN [ok |-> TRUE,
      ptrs |-> [x \in {a[1] : a \in pairs} |-> (CHOOSE a \in pairs : a[1] = x)[2]]]

update(old, entries) ==
  LET low == \E p \in DOMAIN old : \E x \in ToSet(covered(p, entries)) : counter(x) < old[p]
      pairs == {find_updated_mapping(p, old[p], entries) : p \in DOMAIN old}
      clash == \E a, b \in pairs : a[1] = b[1] /\ a[2] # b[2]
  IN IF low \/ clash THEN Fails(old)
     ELSE [ok |-> TRUE,
           ptrs |-> [x \in {a[1] : a \in pairs} |-> (CHOOSE a \in pairs : a[1] = x)[2]]]

Stores(result) ==
  /\ ptrs' = IF result.ok THEN result.ptrs ELSE ptrs
  /\ refused' = (refused \/ ~result.ok)
  /\ UNCHANGED <<start, log, slips>>

\* verify_search, for the most recent version or for a given one; a client that
\* does not monitor contacts keeps nothing of a key it does not own.
Search(version, monitor) ==
  LET found == Consume(version)
      old == IF monitor THEN start_monitoring(ptrs, found.id, counter(found.id)) ELSE ptrs
      checked == check_search_consistency(old, found.id, counter(found.id))
  IN /\ found.outcome # "absent"
     /\ Stores(IF found.outcome = "invalid" THEN Fails(ptrs)
               ELSE IF old = <<>> THEN [ok |-> TRUE, ptrs |-> old]
               ELSE IF checked.ok THEN update(checked.ptrs, ToSet(found.ids)) ELSE checked)

\* verify_monitor, of the latest position that is known.
Monitor ==
  /\ ptrs # <<>>
  /\ Stores(update(ptrs, ToSet(full_monitoring_path(Max(DOMAIN ptrs), start, treeSize))))

\* The log grows by an update of the key, or of another key.
Grow(version) ==
  /\ treeSize < MaxSize
  /\ log' = Append(log, version)
  /\ slips' = IF version < Last(log) THEN slips + 1 ELSE slips
  /\ slips' <= MaxSlips
  /\ UNCHANGED <<start, ptrs, refused>>

KeysInit == /\ start \in Starts /\ log = <<0>>
            /\ ptrs = <<>> /\ refused = FALSE /\ slips = 0

KeysNext == \/ \E v \in Versions : v <= Last(log) + 1 /\ Grow(v)
            \/ \E v \in Versions \cup {NoVersion}, monitor \in BOOLEAN : Search(v, monitor)
            \/ Monitor

KeysSpec == KeysInit /\ [][KeysNext]_keyVars

-----------------------------------------------------------------------------
Positions == start..(treeSize - 1)

\* A search returns the first position that holds the version, and the most
\* recent one when none is asked for: for every log whose counters only go up,
\* every first position, size and version, and it misses no version that exists.
SearchFinds ==
  slips = 0 => \A v \in Versions \cup {NoVersion} :
    LET wanted == IF v = NoVersion THEN Last(log) ELSE v
        places == {x \in Positions : counter(x) = wanted}
        found == Consume(v)
    IN IF places = {} THEN found.outcome = "absent"
       ELSE found.outcome = "found" /\ found.id = Min(places)

\* A log whose counters only go up is never refused, in whatever order searches,
\* monitoring and growth of the log come.
HonestIsAccepted == slips = 0 => ~refused

\* The monitoring data never goes back: what was known of a version is still
\* known, there or at a later position with no lower version.
MonitoringClimbs ==
  [][\A p \in DOMAIN ptrs : \E q \in DOMAIN ptrs' : q >= p /\ ptrs'[q] >= ptrs[p]]_keyVars

\* next_monitor is the smallest size of the log at which monitoring would give
\* something: below it no position has a parent to check, from it on one has.
NextMonitorIsExact ==
  ptrs # <<>> =>
    (treeSize >= next_monitor(DOMAIN ptrs)
       <=> \E p \in DOMAIN ptrs : monitoring_path(p, start, treeSize) # <<>>)

=============================================================================
