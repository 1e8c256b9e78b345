---------------------------- MODULE ReceiverChain ----------------------------
(***************************************************************************)
(* A receiver chain alone: the messages of one sender chain arrive in any  *)
(* order, any number of times, or never.                                   *)
(***************************************************************************)
EXTENDS MessageKeys

CONSTANT Counters       \* bound: the counters the sender uses

ASSUME CountersAssumption == Counters \subseteq Nat

VARIABLES chain,        \* the receiver chain
          opens         \* how often the message of each counter was decrypted

chainVars == <<chain, opens>>

Init == /\ chain = [index |-> 0, keys |-> {}]
        /\ opens = [n \in Counters |-> 0]

Receive(n) ==
  LET r == GetOrCreateMessageKey(chain, n) IN
  /\ r.result = "ok"
  /\ chain' = r.chain
  /\ opens' = [opens EXCEPT ![n] = @ + 1]

Next == \E n \in Counters : Receive(n)

Spec == Init /\ [][Next]_chainVars

-----------------------------------------------------------------------------
TypeOK == /\ chain \in [index : Nat, keys : SUBSET Nat]
          /\ opens \in [Counters -> Nat]

\* A key that was used is neither stored nor still to be derived, and every
\* stored key lies behind the chain.
KeysAreUnused == /\ \A k \in chain.keys : k < chain.index
                 /\ \A n \in Counters : opens[n] > 0 =>
                      n < chain.index /\ n \notin chain.keys

\* No more keys are stored than MAX_MESSAGE_KEYS (consts.rs), however far and
\* however often the chain jumps ahead.
StorageBounded == Cardinality(chain.keys) <= MaxMessageKeys

\* A message the chain has passed by at most MAX_MESSAGE_KEYS steps can still be
\* opened: trimming only drops keys of messages that are later than that.
LateMessageOpens ==
  \A n \in Counters :
    (opens[n] = 0 /\ n < chain.index /\ chain.index - n <= MaxMessageKeys)
       => n \in chain.keys

\* The message of each counter is opened once at most.
Once == INSTANCE AtMostOnce WITH InitiallySent <- Counters
OpensOnce == Once!Spec
=============================================================================
