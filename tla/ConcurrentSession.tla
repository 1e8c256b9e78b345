-------------------------- MODULE ConcurrentSession --------------------------
(***************************************************************************)
(* Session, as the app uses it: BackgroundSyncManager decrypts every       *)
(* envelope on a coroutine of its own and ChatActivity encrypts on others, *)
(* all through SessionCiphers on the same SharedPrefsSignalProtocolStore   *)
(* and with no lock.  A cipher operation loads the record, works on its    *)
(* copy and stores it; other operations come in between.                   *)
(***************************************************************************)
EXTENDS Session

CONSTANT Threads        \* the threads of each party that use ciphers

VARIABLE job            \* per party and thread: none, or the record it loaded
                        \* and the message it decrypts (none: it encrypts)

concurrentVars == <<vars, job>>

ConcurrentInit == Init /\ job = [p \in Parties |-> [t \in Threads |-> <<>>]]

\* load_session, at the start of either operation.
LoadSession(p, t, work) ==
  /\ job[p][t] = <<>>
  /\ job' = [job EXCEPT ![p][t] = << [rec |-> record[p], work |-> work] >>]
  /\ UNCHANGED vars

\* The rest of message_decrypt_prekey or message_decrypt_signal.
FinishDecrypt(p, t) ==
  /\ job[p][t] # <<>> /\ job[p][t][1].work # <<>>
  /\ LET j == job[p][t][1] IN
       \/ DecryptLoaded(p, j.rec, j.work[1])
       \/ Decrypt(p, j.rec, j.work[1]).result # "ok" /\ UNCHANGED vars
  /\ job' = [job EXCEPT ![p][t] = <<>>]

\* The rest of message_encrypt.
FinishEncrypt(p, t) ==
  /\ job[p][t] # <<>> /\ job[p][t][1].work = <<>>
  /\ EncryptLoaded(p, job[p][t][1].rec)
  /\ job' = [job EXCEPT ![p][t] = <<>>]

Encrypting(p) == {t \in Threads : job[p][t] # <<>> /\ job[p][t][1].work = <<>>}

ConcurrentNext ==
  \E p \in Parties :
    \/ ProcessPreKeyBundle(p) /\ UNCHANGED job
    \/ \E t \in Threads :
         \/ /\ record[p].current # <<>>
            /\ Cardinality(Sent(Other(p))) + Cardinality(Encrypting(p)) < MaxSends
            /\ LoadSession(p, t, <<>>)
         \/ \E msg \in Sent(p) : LoadSession(p, t, << msg >>)
         \/ FinishDecrypt(p, t)
         \/ FinishEncrypt(p, t)

ConcurrentSpec == ConcurrentInit /\ [][ConcurrentNext]_concurrentVars
=============================================================================
