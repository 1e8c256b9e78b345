------------------------------ MODULE MessageKeys ------------------------------
(***************************************************************************)
(* A receiver chain of a session (libsignal session_cipher.rs and          *)
(* state/session.rs): which message key a counter is given, which skipped  *)
(* keys are kept, and when a message counts as a duplicate.                *)
(*                                                                         *)
(* A chain is [index, keys]: the index of its chain key, and the counters  *)
(* whose message keys are stored.  The code's vector of stored keys has    *)
(* the newest in front; as counters are stored in ascending order, the one *)
(* popped at the limit is always the smallest.                             *)
(***************************************************************************)
EXTENDS Integers, FiniteSets

CONSTANTS MaxMessageKeys,     \* MAX_MESSAGE_KEYS
          MaxForwardJumps     \* MAX_FORWARD_JUMPS

ASSUME ChainAssumption == MaxMessageKeys \in Nat /\ MaxForwardJumps \in Nat

\* Mutant: the newest keys go instead of the oldest.
Oldest(keys) ==
  {k \in keys : Cardinality({j \in keys : j < k}) < MaxMessageKeys}

\* The stored keys that survive the trimming of set_message_keys.
Newest(keys) ==
  {k \in keys : Cardinality({j \in keys : j > k}) < MaxMessageKeys}

\* Mutant: the key stays stored.
TakeStoredKeeps(chain, n) == chain

\* get_message_keys: take a stored key.
TakeStored(chain, n) == [chain EXCEPT !.keys = @ \ {n}]

\* Mutant: the loop stores nothing.
SkipDropping(chain, n) == [chain EXCEPT !.index = n + 1]

\* The loop of get_or_create_message_key, then set_receiver_chain_key.
SkipTo(chain, n) ==
  [chain EXCEPT !.keys = Newest(@ \cup (chain.index .. n - 1)),
                !.index = n + 1]

\* get_or_create_message_key: the result, and the chain after it.
GetOrCreateMessageKey(chain, n) ==
  CASE n < chain.index /\ n \in chain.keys ->
         [result |-> "ok", chain |-> TakeStored(chain, n)]
    [] n < chain.index /\ n \notin chain.keys ->
         [result |-> "duplicate", chain |-> chain]
    [] n >= chain.index /\ n - chain.index > MaxForwardJumps ->
         [result |-> "invalid", chain |-> chain]
    [] OTHER ->
         [result |-> "ok", chain |-> SkipTo(chain, n)]

=============================================================================
