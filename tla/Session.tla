------------------------------- MODULE Session -------------------------------
(***************************************************************************)
(* Sessions of libsignal's double ratchet between two devices: how they    *)
(* are set up from a prekey bundle, how a record keeps the current and the *)
(* archived ones, and how messages are encrypted and decrypted.            *)
(*                                                                         *)
(* Keys are symbolic.  A key pair is a number.  A root or chain key is the *)
(* sequence of Diffie-Hellman agreements it is derived from, so two        *)
(* devices hold the same key if and only if they made the same agreements  *)
(* in the same order; a message authenticates under the chain key it was   *)
(* made with and under no other.  An optional value is a sequence of       *)
(* length 0 or 1.  Left out: the post-quantum ratchet (the spqr library),  *)
(* identity trust (SharedPrefsSignalProtocolStore trusts every key),       *)
(* previous_counter (sent, never read), the 30 days after which an         *)
(* unacknowledged session refuses to send.                                 *)
(***************************************************************************)
EXTENDS MessageKeys, Sequences, FiniteSetsExt

CONSTANTS Parties,            \* the two devices
          SignedPreKey,       \* per party: the key pair of its signed prekey
          OneTimePreKeys,     \* the ids of the one-time prekeys of each party
          MaxReceiverChains,  \* MAX_RECEIVER_CHAINS
          ArchivedStatesMax,  \* ARCHIVED_STATES_MAX_LENGTH
          MaxBundles,         \* bound: bundles processed, by both together
          MaxSends            \* bound: messages each party sends

ASSUME SessionAssumption ==
  /\ \E p, q \in Parties : p # q /\ Parties = {p, q}
  /\ SignedPreKey \in [Parties -> Nat]
  /\ \A p, q \in Parties : SignedPreKey[p] = SignedPreKey[q] => p = q
  /\ MaxReceiverChains \in Nat \ {0} /\ ArchivedStatesMax \in Nat \ {0}
  /\ MaxBundles \in Nat /\ MaxSends \in Nat

VARIABLES
  record,       \* per party: its SessionRecord for the other one
  prekeys,      \* per party: the one-time prekeys its store still holds
  offered,      \* per party: the one-time prekeys the server still hands out
  opens,        \* per party: every message sent to it, and how often it opened it
  bundles,      \* bundles processed so far
  nextKey       \* the next key pair to be generated

vars == <<record, prekeys, offered, opens, bundles, nextKey>>

Sent(p) == DOMAIN opens[p]

Other(p) == CHOOSE q \in Parties : q # p

\* RootKey.create_chain: the agreement of two key pairs is one for both sides.
CreateChain(root, key1, key2) == Append(root, {key1, key2})

\* derive_keys on the secrets both sides compute from the base key.
DeriveKeys(base) == << {base} >>

ReceiverChain(key, chainKey) ==
  [ratchetKey |-> key, chainKey |-> chainKey, index |-> 0, keys |-> {}]

-----------------------------------------------------------------------------
(* SessionState                                                            *)

InitializeAliceSession(base, ratchetKey, theirs, preKey) ==
  LET root == DeriveKeys(base)
      sending == CreateChain(root, theirs, ratchetKey)
  IN [aliceBase |-> base, rootKey |-> sending,
      senderKey |-> ratchetKey, senderChain |-> sending, senderIndex |-> 0,
      receivers |-> << ReceiverChain(theirs, root) >>,
      pending |-> << preKey >>]

InitializeBobSession(base, ours) ==
  [aliceBase |-> base, rootKey |-> DeriveKeys(base),
   senderKey |-> ours, senderChain |-> DeriveKeys(base), senderIndex |-> 0,
   receivers |-> <<>>, pending |-> <<>>]

ClearUnacknowledged(state) == [state EXCEPT !.pending = <<>>]

\* Mutant: old chains are never dropped.
AddReceiverChainUntrimmed(chains, new) == Append(chains, new)

\* add_receiver_chain: the oldest chain goes when there are too many.
AddReceiverChain(chains, new) ==
  LET all == Append(chains, new)
  IN IF Len(all) > MaxReceiverChains THEN Tail(all) ELSE all

Knows(state, key) == \E i \in DOMAIN state.receivers : state.receivers[i].ratchetKey = key

\* Mutant: the new receiver chain replaces the old ones.
GetOrCreateChainReplacing(state, key, fresh) ==
  IF Knows(state, key) THEN state ELSE
  LET receiving == CreateChain(state.rootKey, key, state.senderKey)
      sending == CreateChain(receiving, key, fresh)
  IN [state EXCEPT !.rootKey = sending,
                   !.receivers = << ReceiverChain(key, receiving) >>,
                   !.senderKey = fresh, !.senderChain = sending, !.senderIndex = 0]

\* get_or_create_chain_key: an unknown ratchet key turns the ratchet.
GetOrCreateChain(state, key, fresh) ==
  IF Knows(state, key) THEN state ELSE
  LET receiving == CreateChain(state.rootKey, key, state.senderKey)
      sending == CreateChain(receiving, key, fresh)
  IN [state EXCEPT !.rootKey = sending,
                   !.receivers = AddReceiverChain(@, ReceiverChain(key, receiving)),
                   !.senderKey = fresh, !.senderChain = sending, !.senderIndex = 0]

\* Mutant: the message is not authenticated.
DecryptUnauthenticated(state, msg, fresh) ==
  LET turned == GetOrCreateChain(state, msg.ratchetKey, fresh)
      i == CHOOSE j \in DOMAIN turned.receivers :
             turned.receivers[j].ratchetKey = msg.ratchetKey
      got == GetOrCreateMessageKey(turned.receivers[i], msg.counter)
  IN [result |-> got.result,
      state |-> ClearUnacknowledged([turned EXCEPT !.receivers[i] = got.chain])]

\* decrypt_message_with_state, on a copy of the state: the state after it is
\* kept only if the result is "ok".
DecryptWithState(state, msg, fresh) ==
  LET turned == GetOrCreateChain(state, msg.ratchetKey, fresh)
      i == CHOOSE j \in DOMAIN turned.receivers :
             turned.receivers[j].ratchetKey = msg.ratchetKey
      got == GetOrCreateMessageKey(turned.receivers[i], msg.counter)
      authentic == turned.receivers[i].chainKey = msg.chainKey
  IN [result |-> IF got.result = "ok" /\ ~authentic THEN "invalid" ELSE got.result,
      state |-> ClearUnacknowledged([turned EXCEPT !.receivers[i] = got.chain])]

-----------------------------------------------------------------------------
(* SessionRecord                                                           *)

FreshRecord == [current |-> <<>>, previous |-> <<>>]

\* promote_state, with archive_current_state_inner.
PromoteState(rec, state) ==
  [current |-> << state >>,
   previous |-> IF rec.current = <<>> THEN rec.previous
                ELSE << ClearUnacknowledged(rec.current[1]) >> \o
                     SubSeq(rec.previous, 1,
                            IF Len(rec.previous) >= ArchivedStatesMax
                            THEN Len(rec.previous) - 1 ELSE Len(rec.previous))]

Without(seq, i) == SubSeq(seq, 1, i - 1) \o SubSeq(seq, i + 1, Len(seq))

\* promote_old_session
PromoteOldSession(rec, i, state) ==
  PromoteState([rec EXCEPT !.previous = Without(@, i)], state)

HasBase(states, base) == {i \in DOMAIN states : states[i].aliceBase = base}

FirstOf(indices) == CHOOSE i \in indices : \A j \in indices : i <= j

\* Mutant: only the current session is looked at.
MatchesCurrentSession(rec, base) == HasBase(rec.current, base) # {}

\* promote_matching_session
MatchesSession(rec, base) == HasBase(rec.current \o rec.previous, base) # {}

PromoteMatchingSession(rec, base) ==
  IF HasBase(rec.current, base) # {} THEN rec
  ELSE LET i == FirstOf(HasBase(rec.previous, base))
       IN PromoteOldSession(rec, i, rec.previous[i])

\* decrypt_message_with_record: the current session, then (for a message that
\* is not a prekey message) the archived ones up to the first that opens the
\* message or calls it a duplicate.
DecryptWithRecord(rec, msg, isPreKey, fresh) ==
  LET try == [i \in DOMAIN (rec.current \o rec.previous) |->
                DecryptWithState((rec.current \o rec.previous)[i], msg, fresh)]
      decided == {i \in DOMAIN try : try[i].result # "invalid"}
      i == FirstOf(decided)
      cur == Len(rec.current)
  IN IF decided = {} \/ (isPreKey /\ 1 \notin decided)
     THEN [result |-> "invalid", record |-> rec]
     ELSE [result |-> try[i].result,
           record |-> IF i <= cur THEN [rec EXCEPT !.current = << try[i].state >>]
                      ELSE PromoteOldSession(rec, i - cur, try[i].state)]

-----------------------------------------------------------------------------
(* The operations                                                          *)

Init ==
  /\ record = [p \in Parties |-> FreshRecord]
  /\ prekeys = [p \in Parties |-> OneTimePreKeys]
  /\ offered = [p \in Parties |-> OneTimePreKeys]
  /\ opens = [p \in Parties |-> <<>>]
  /\ bundles = 0
  /\ nextKey = 1 + Max({SignedPreKey[p] : p \in Parties})

\* The server hands out each one-time prekey once, then bundles without one.
Bundle(q) == IF offered[q] = {} THEN {<<>>} ELSE {<<id>> : id \in offered[q]}

\* process_prekey_bundle: a new session towards the other party.
ProcessPreKeyBundle(p) ==
  LET q == Other(p) IN
  /\ bundles < MaxBundles
  /\ \E oneTime \in Bundle(q) :
       /\ offered' = [offered EXCEPT ![q] = @ \ Range(oneTime)]
       /\ record' = [record EXCEPT ![p] = PromoteState(@,
                       InitializeAliceSession(nextKey, nextKey + 1, SignedPreKey[q],
                                              [base |-> nextKey, oneTime |-> oneTime]))]
  /\ bundles' = bundles + 1
  /\ nextKey' = nextKey + 2
  /\ UNCHANGED <<prekeys, opens>>

\* The message the sender chain of a session makes next.
NextMessage(state) ==
  [ratchetKey |-> state.senderKey, chainKey |-> state.senderChain,
   counter |-> state.senderIndex, preKey |-> state.pending]

\* The messages sent so far, with a new one that nobody has opened.
Posted(sent, msg) == [m \in DOMAIN sent \cup {msg} |-> IF m = msg THEN 0 ELSE sent[m]]

\* Mutant: the sender chain does not advance.
EncryptStanding(p, rec) ==
  /\ rec.current # <<>>
  /\ opens' = [opens EXCEPT ![Other(p)] = Posted(@, NextMessage(rec.current[1]))]
  /\ UNCHANGED <<record, prekeys, offered, bundles, nextKey>>

\* message_encrypt, with the record loaded.
EncryptLoaded(p, rec) ==
  /\ rec.current # <<>>
  /\ opens' = [opens EXCEPT ![Other(p)] = Posted(@, NextMessage(rec.current[1]))]
  /\ record' = [record EXCEPT ![p] = [rec EXCEPT !.current[1].senderIndex = @ + 1]]
  /\ UNCHANGED <<prekeys, offered, bundles, nextKey>>

MessageEncrypt(p) ==
  /\ Cardinality(Sent(Other(p))) < MaxSends
  /\ EncryptLoaded(p, record[p])

\* process_prekey: the record after it, or none if a prekey is missing.
ProcessPreKey(p, rec, preKey) ==
  IF MatchesSession(rec, preKey.base)
  THEN << PromoteMatchingSession(rec, preKey.base) >>
  ELSE IF Range(preKey.oneTime) \subseteq prekeys[p]
       THEN << PromoteState(rec, InitializeBobSession(preKey.base, SignedPreKey[p])) >>
       ELSE <<>>

\* What decrypting the message with the loaded record comes to.
Decrypt(p, rec, msg) ==
  LET processed == IF msg.preKey = <<>> THEN << rec >>
                   ELSE ProcessPreKey(p, rec, msg.preKey[1])
  IN IF processed = <<>> THEN [result |-> "invalid", record |-> rec]
     ELSE DecryptWithRecord(processed[1], msg, msg.preKey # <<>>, nextKey)

\* The one-time prekey that a prekey message which made a new session used up.
UsedPreKey(rec, msg) ==
  IF msg.preKey = <<>> \/ MatchesSession(rec, msg.preKey[1].base) THEN {}
  ELSE Range(msg.preKey[1].oneTime)

\* message_decrypt_prekey and message_decrypt_signal, with the record loaded.
\* A message that fails to decrypt leaves every store as it was.
DecryptLoaded(p, rec, msg) ==
  LET done == Decrypt(p, rec, msg) IN
  /\ done.result = "ok"
  /\ record' = [record EXCEPT ![p] = done.record]
  /\ prekeys' = [prekeys EXCEPT ![p] = @ \ UsedPreKey(rec, msg)]
  /\ opens' = [opens EXCEPT ![p][msg] = @ + 1]
  /\ nextKey' = IF done.record.current[1].senderKey = nextKey THEN nextKey + 1
                ELSE nextKey
  /\ UNCHANGED <<offered, bundles>>

MessageDecrypt(p, msg) == DecryptLoaded(p, record[p], msg)

Next ==
  \E p \in Parties :
    \/ ProcessPreKeyBundle(p)
    \/ MessageEncrypt(p)
    \/ \E msg \in Sent(p) : MessageDecrypt(p, msg)

Spec == Init /\ [][Next]_vars

-----------------------------------------------------------------------------
(* Properties                                                              *)

States(p) == record[p].current \o record[p].previous

TypeOK ==
  /\ \A p \in Parties :
       /\ Len(record[p].current) <= 1
       /\ Len(record[p].previous) <= ArchivedStatesMax
       /\ \A i \in DOMAIN States(p) : Len(States(p)[i].receivers) <= MaxReceiverChains
       /\ opens[p] \in [Sent(p) -> Nat]
       /\ prekeys[p] \subseteq OneTimePreKeys /\ offered[p] \subseteq OneTimePreKeys
  /\ bundles \in 0..MaxBundles
  /\ nextKey \in Nat

\* Each party opens a message once at most, in whatever order and however often
\* messages arrive, through new sessions, archived ones and trimmed chains.
\* (A session set up without a one-time prekey must still be in the record: once
\* it is dropped at ARCHIVED_STATES_MAX_LENGTH, its prekey messages set it up anew.)
Once(p) == INSTANCE AtMostOnce WITH InitiallySent <- {}, opens <- opens[p]
OpensOnce == [][\A p \in Parties : [Once(p)!Next]_(opens[p])]_vars

\* Every message sent and not yet opened can be opened now, whatever arrived
\* before it or not at all and whoever set up which session in the meantime
\* (as long as none of the limits of consts.rs has been reached).
EveryMessageOpens ==
  \A p \in Parties : \A msg \in Sent(p) :
    opens[p][msg] = 0 => Decrypt(p, record[p], msg).result = "ok"

\* "DuplicateMessageException if the input is a message that has already been
\* received" (SessionCipher.java:118), and is not thrown for one that was not,
\* unless its key was trimmed at MAX_MESSAGE_KEYS.
DuplicateWasOpened ==
  \A p \in Parties : \A msg \in Sent(p) :
    Decrypt(p, record[p], msg).result = "duplicate" => opens[p][msg] > 0

\* No two messages are made with the same message key: a sender never goes back
\* in a chain, whatever sessions it switches between.
FreshMessageKeys ==
  \A p \in Parties : record[p].current # <<>> =>
    \A msg \in Sent(Other(p)) :
      LET new == NextMessage(record[p].current[1])
      IN <<msg.chainKey, msg.counter>> # <<new.chainKey, new.counter>>
=============================================================================
