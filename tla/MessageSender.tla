---------------------------- MODULE MessageSender ----------------------------
(***************************************************************************)
(* Sending: MessageSender.sendMessage and sendImageMessage on the          *)
(* coroutines ChatActivity launches for them, the sessions they share in   *)
(* SharedPrefsSignalProtocolStore, and the rows ChatActivity stores.  All  *)
(* calls have the same recipient.                                          *)
(*                                                                         *)
(* A session is the registration id it was made for.  The server knows     *)
(* which devices the recipient has; it refuses a message that names other  *)
(* devices (409) or other registration ids (410).  No lock guards the      *)
(* store: calls interleave at every request and at every access to it.     *)
(***************************************************************************)
EXTENDS Integers, FiniteSets

CONSTANTS TextCalls,        \* the calls of sendMessage
          ImageCalls,       \* and of sendImageMessage
          Devices,          \* device ids of the recipient, 1 is the primary
          RegistrationIds,  \* the registration ids each device may have
          NoValue

Calls == TextCalls \cup ImageCalls
Ids == UNION {RegistrationIds[d] : d \in Devices}

ASSUME SenderAssumption == /\ TextCalls \cap ImageCalls = {}
                           /\ 1 \in Devices
                           /\ NoValue \notin Ids \cup Devices

VARIABLES
  registered,   \* server: the recipient's devices and their registration ids
  sessions,     \* store: the sessions with the recipient's devices
  pc,           \* where each call is
  attempt,      \* attempts begun
  todo,         \* activeDeviceIds still to be encrypted for, each with the
                \* registration id of its prekey bundle, if any was fetched
  device,       \* deviceId, the one that is encrypted for now
  loaded,       \* the session that encrypt() has loaded and not stored yet
  push,         \* pushMessages: the registration id used for each device
  uploaded,     \* images whose ciphertext is on the attachment server
  accepted,     \* how often the server took each message
  rows,         \* the texts in the database
  disturbed     \* history: calls that have an excuse to fail

deviceVars == <<device, loaded>>
requestVars == <<attempt, todo, deviceVars, push>>
results == <<uploaded, accepted, rows>>
senderVars == <<registered, sessions, pc, requestVars, results, disturbed>>

NoDevices == [d \in {} |-> NoValue]
Without(f, S) == [d \in DOMAIN f \ S |-> f[d]]
With(f, d, v) == [e \in DOMAIN f \cup {d} |-> IF e = d THEN v ELSE f[e]]

Has(f, d, v) == d \in DOMAIN f /\ f[d] = v

SenderInit ==
  /\ registered \in [{1} -> RegistrationIds[1]] /\ sessions = NoDevices
  /\ pc = [c \in Calls |-> "idle"]
  /\ attempt = [c \in Calls |-> 0]
  /\ todo = [c \in Calls |-> NoDevices]
  /\ device = [c \in Calls |-> NoValue] /\ loaded = [c \in Calls |-> NoValue]
  /\ push = [c \in Calls |-> NoDevices]
  /\ uploaded = {}
  /\ accepted = [c \in Calls |-> 0]
  /\ rows = {} /\ disturbed = {}

InProgress(c) == pc[c] \notin {"idle", "sent", "failed"}
Others(c) == {o \in Calls \ {c} : InProgress(o)}
GoOn(c, where) == pc' = [pc EXCEPT ![c] = where]

\* The call returns; the locals of its attempts are gone.
Return(c, outcome) ==
  /\ GoOn(c, outcome)
  /\ attempt' = [attempt EXCEPT ![c] = 0]
  /\ todo' = [todo EXCEPT ![c] = NoDevices]
  /\ device' = [device EXCEPT ![c] = NoValue]
  /\ loaded' = [loaded EXCEPT ![c] = NoValue]
  /\ push' = [push EXCEPT ![c] = NoDevices]

\* An exception or a refusal that is not the call's own fault.
FailCall(c) == /\ Return(c, "failed")
               /\ disturbed' = disturbed \cup {c}

-----------------------------------------------------------------------------
(* ChatActivity: a text is sent first and stored after, an image is stored
   first and sent after. *)

ClickSend(c) ==
  /\ c \in TextCalls /\ pc[c] = "idle"
  /\ GoOn(c, "attempt")
  /\ UNCHANGED <<registered, sessions, requestVars, results, disturbed>>

\* Whether the image's row is stored or not (insertMessage returns -1 when the
\* thread is gone) the image goes on; it does not when something throws or there
\* is no messageSender.
SendImageBytes(c) ==
  /\ c \in ImageCalls /\ pc[c] = "idle"
  /\ \/ GoOn(c, "upload") /\ UNCHANGED <<requestVars, disturbed>>
     \/ FailCall(c)
  /\ UNCHANGED <<registered, sessions, results>>

\* insertMessage: no row, and no exception, when the thread is gone.
InsertRow(c) == rows' = rows \cup {c} \/ UNCHANGED rows

\* Mutant: a text is stored whatever sendMessage returned.
SaveTextAlways(c) ==
  /\ c \in TextCalls /\ pc[c] \in {"accepted", "failed"}
  /\ InsertRow(c)
  /\ GoOn(c, "sent")
  /\ UNCHANGED <<registered, sessions, requestVars, uploaded, accepted, disturbed>>

\* updateSnippet and insertMessage after a successful sendMessage.  If the
\* activity was destroyed meanwhile, its scope is cancelled and the call ends
\* without them.
SaveText(c) ==
  /\ c \in TextCalls /\ pc[c] = "accepted"
  /\ InsertRow(c)
  /\ GoOn(c, "sent")
  /\ UNCHANGED <<registered, sessions, requestVars, uploaded, accepted, disturbed>>

-----------------------------------------------------------------------------
(* sendImageMessage up to the loop: one of the upload forms, then the upload;
   every failure and exception leaves uploadSucceeded false. *)

Upload(c) ==
  /\ pc[c] = "upload"
  /\ \/ /\ uploaded' = uploaded \cup {c}
        /\ GoOn(c, "attempt")
        /\ UNCHANGED <<requestVars, disturbed>>
     \/ FailCall(c) /\ UNCHANGED uploaded
  /\ UNCHANGED <<registered, sessions, accepted, rows>>

-----------------------------------------------------------------------------
(* An attempt: sendMessage, and the same loop in sendImageMessage. *)

\* fetchPrekeys: on the second attempt, or without a primary session.
FetchesPreKeys(c) == attempt[c] > 0 \/ 1 \notin DOMAIN sessions

\* while (attempt < 2)
MayRetry(c) == attempt[c] < 2

\* Mutant: attempts are not counted.
AttemptUncounted(c) ==
  /\ pc[c] = "attempt" /\ MayRetry(c)
  /\ GoOn(c, IF FetchesPreKeys(c) THEN "prekeys" ELSE "list")
  /\ UNCHANGED <<registered, sessions, requestVars, results, disturbed>>

Attempt(c) ==
  /\ pc[c] = "attempt" /\ MayRetry(c)
  /\ attempt' = [attempt EXCEPT ![c] = @ + 1]
  /\ GoOn(c, IF FetchesPreKeys(c) THEN "prekeys" ELSE "list")
  /\ UNCHANGED <<registered, sessions, todo, deviceVars, push, results, disturbed>>

\* The loop ends after the second refusal.
GiveUp(c) ==
  /\ pc[c] = "attempt" /\ ~MayRetry(c)
  /\ Return(c, "failed")
  /\ UNCHANGED <<registered, sessions, results, disturbed>>

\* activeDeviceIds, and the delivery certificate: the cached one, a new one, or none
\* if the server refuses it, or an exception.  Nothing below depends on which, and
\* other calls see no more of it than the certificate.
Prepare(c, devices) ==
  \/ /\ todo' = [todo EXCEPT ![c] = devices]
     /\ GoOn(c, "encrypt")
     /\ UNCHANGED <<attempt, deviceVars, push, disturbed>>
  \/ FailCall(c)

\* The devices of the prekey response, unless that request fails.
GetPreKeys(c) ==
  /\ pc[c] = "prekeys"
  /\ Prepare(c, registered)
  /\ UNCHANGED <<registered, sessions, results>>

\* getSubDeviceSessions: the devices with a session, or the primary.
SubDeviceSessions == IF sessions = NoDevices THEN {1} ELSE DOMAIN sessions

ListDevices(c) ==
  /\ pc[c] = "list"
  /\ Prepare(c, [d \in SubDeviceSessions |-> NoValue])
  /\ UNCHANGED <<registered, sessions, results>>

-----------------------------------------------------------------------------
(* One device of the loop: containsSession, process(bundle), encrypt() and
   loadSession are an access to the store each. *)

\* containsSession: with a session, encrypt; without one, build it from the
\* bundle; without a bundle, skip the device.
NextDevice(c, d) ==
  /\ pc[c] = "encrypt" /\ d \in DOMAIN todo[c]
  /\ todo' = IF d \in DOMAIN sessions \/ todo[c][d] = NoValue
             THEN [todo EXCEPT ![c] = Without(@, {d})] ELSE todo
  /\ \/ /\ d \in DOMAIN sessions
        /\ device' = [device EXCEPT ![c] = d]
        /\ GoOn(c, "load")
     \/ /\ d \notin DOMAIN sessions /\ todo[c][d] # NoValue
        /\ device' = [device EXCEPT ![c] = d]
        /\ GoOn(c, "build")
     \/ /\ d \notin DOMAIN sessions /\ todo[c][d] = NoValue
        /\ UNCHANGED <<pc, device>>
  /\ UNCHANGED <<registered, sessions, attempt, loaded, push, results, disturbed>>

\* storeSession by a call (or a coroutine of the inbox): a session other than with
\* the registered device excuses the calls in progress.
StoreSession(d, id, excused) ==
  /\ sessions' = With(sessions, d, id)
  /\ disturbed' = IF Has(registered, d, id) THEN disturbed ELSE disturbed \cup excused

\* process(bundle) stores a session whatever is there by now.  A bundle without a
\* Kyber prekey or with a bad signature throws; the devices before it keep the
\* sessions that were built for them.
BuildSession(c) ==
  /\ pc[c] = "build"
  /\ \/ /\ StoreSession(device[c], todo[c][device[c]], Others(c))
        /\ todo' = [todo EXCEPT ![c] = Without(@, {device[c]})]
        /\ GoOn(c, "load")
        /\ UNCHANGED <<attempt, deviceVars, push>>
     \/ FailCall(c) /\ UNCHANGED sessions
  /\ UNCHANGED <<registered, results>>

\* encrypt() loads the session.  It throws if there is none, and if the session
\* was never acknowledged for thirty days.
EncryptLoads(c) ==
  /\ pc[c] = "load"
  /\ \/ /\ device[c] \in DOMAIN sessions
        /\ loaded' = [loaded EXCEPT ![c] = sessions[device[c]]]
        /\ GoOn(c, "store")
        /\ UNCHANGED <<attempt, todo, device, push, disturbed>>
     \/ device[c] \in DOMAIN sessions /\ FailCall(c)
     \/ device[c] \notin DOMAIN sessions /\ Return(c, "failed") /\ UNCHANGED disturbed
  /\ UNCHANGED <<registered, sessions, results>>

\* ... and stores it with the next chain key, even if it was deleted meanwhile.
EncryptStores(c) ==
  /\ pc[c] = "store"
  /\ StoreSession(device[c], loaded[c], Others(c))
  /\ loaded' = [loaded EXCEPT ![c] = NoValue]
  /\ GoOn(c, "id")
  /\ UNCHANGED <<registered, attempt, todo, device, push, results>>

\* loadSession(address).remoteRegistrationId, 0 without a session.
RegistrationId(c) ==
  /\ pc[c] = "id"
  /\ push' = [push EXCEPT ![c] =
       With(@, device[c], IF device[c] \in DOMAIN sessions THEN sessions[device[c]]
                          ELSE NoValue)]
  /\ device' = [device EXCEPT ![c] = NoValue]
  /\ GoOn(c, "encrypt")
  /\ UNCHANGED <<registered, sessions, attempt, todo, loaded, results, disturbed>>

\* pushMessages.isEmpty()
NoDevicesLeft(c) ==
  /\ pc[c] = "encrypt" /\ todo[c] = NoDevices /\ push[c] = NoDevices
  /\ Return(c, "failed")
  /\ UNCHANGED <<registered, sessions, results, disturbed>>

-----------------------------------------------------------------------------
(* api.sendMessage. *)

Sending(c) == pc[c] = "encrypt" /\ todo[c] = NoDevices /\ push[c] # NoDevices

\* Taken: the call learns of it, or the answer is lost.
ServerAccepts(c) ==
  /\ Sending(c) /\ push[c] = registered
  /\ accepted' = [accepted EXCEPT ![c] = @ + 1]
  /\ \/ /\ Return(c, IF c \in TextCalls THEN "accepted" ELSE "sent")
        /\ disturbed' = disturbed \ {c}
     \/ FailCall(c)
  /\ UNCHANGED <<registered, sessions, uploaded, rows>>

\* Mutant: a lost answer is tried again.
SendFailsRetried(c) ==
  /\ Sending(c)
  /\ GoOn(c, "refused")
  /\ accepted' = [accepted EXCEPT ![c] = IF push[c] = registered THEN @ + 1 ELSE @]
  /\ UNCHANGED <<registered, sessions, requestVars, uploaded, rows, disturbed>>

\* Another status, or the request did not arrive.
SendFails(c) ==
  /\ Sending(c)
  /\ FailCall(c)
  /\ UNCHANGED <<registered, sessions, results>>

\* 409 or 410.
ServerRefuses(c) ==
  /\ Sending(c) /\ push[c] # registered
  /\ GoOn(c, "refused")
  /\ UNCHANGED <<registered, sessions, requestVars, results, disturbed>>

\* Mutant: only the sessions with linked devices are deleted.
Linked(c, d) == d # 1

\* The sessions a refused call deletes: all it tried to send to.
Deletes(c, d) == d \in DOMAIN push[c]

\* One deleteSession; after the last one the next attempt.
DeleteSession(c, d) ==
  /\ pc[c] = "refused" /\ d \in DOMAIN push[c]
  /\ sessions' = IF Deletes(c, d) THEN Without(sessions, {d}) ELSE sessions
  /\ disturbed' = disturbed \cup Others(c)
  /\ push' = [push EXCEPT ![c] = Without(@, {d})]
  /\ IF DOMAIN push[c] = {d} THEN GoOn(c, "attempt") ELSE UNCHANGED pc
  /\ UNCHANGED <<registered, attempt, todo, deviceVars, results>>

-----------------------------------------------------------------------------
(* The recipient. *)

\* A device is linked, unlinked, or registers again.
DevicesChange ==
  /\ \E d \in Devices : \E r \in RegistrationIds[d] :
       \/ registered' = With(registered, d, r)
       \/ d # 1 /\ registered' = Without(registered, {d})
  /\ registered' # registered
  /\ disturbed' = disturbed \cup {c \in Calls : InProgress(c)}
  /\ UNCHANGED <<sessions, pc, requestVars, results>>

\* A message from a device of the recipient makes a session with it, a late one
\* of an earlier registration too.
SessionFromIncoming(d) ==
  /\ \E id \in RegistrationIds[d] :
       StoreSession(d, id, {c \in Calls : InProgress(c)})
  /\ sessions' # sessions
  /\ UNCHANGED <<registered, pc, requestVars, results>>

CallStep(c) ==
  \/ SaveText(c) \/ Upload(c) \/ Attempt(c) \/ GiveUp(c)
  \/ GetPreKeys(c) \/ ListDevices(c)
  \/ \E d \in Devices : NextDevice(c, d) \/ DeleteSession(c, d)
  \/ BuildSession(c) \/ EncryptLoads(c) \/ EncryptStores(c) \/ RegistrationId(c)
  \/ NoDevicesLeft(c) \/ ServerAccepts(c) \/ SendFails(c) \/ ServerRefuses(c)

SenderNext ==
  \/ \E c \in Calls : ClickSend(c) \/ SendImageBytes(c) \/ CallStep(c)
  \/ DevicesChange
  \/ \E d \in Devices : SessionFromIncoming(d)

\* Requests end: the HTTP client has timeouts.
Fairness == \A c \in Calls : WF_senderVars(CallStep(c))

SenderSpec == SenderInit /\ [][SenderNext]_senderVars /\ Fairness

-----------------------------------------------------------------------------
Partial(Values) == UNION {[S -> Values] : S \in SUBSET Devices}

Places == {"idle", "upload", "attempt", "prekeys", "list", "encrypt",
           "build", "load", "store", "id", "refused", "accepted", "sent", "failed"}

SenderTypeOK ==
  /\ registered \in Partial(Ids) /\ sessions \in Partial(Ids)
  /\ pc \in [Calls -> Places]
  /\ attempt \in [Calls -> 0 .. 2]
  /\ todo \in [Calls -> Partial(Ids \cup {NoValue})]
  /\ device \in [Calls -> Devices \cup {NoValue}]
  /\ loaded \in [Calls -> Ids \cup {NoValue}]
  /\ push \in [Calls -> Partial(Ids \cup {NoValue})]
  /\ uploaded \subseteq ImageCalls
  /\ accepted \in [Calls -> Nat]
  /\ rows \subseteq TextCalls /\ disturbed \subseteq Calls

\* The retry after 409 and 410 never makes the server take a message twice.
AcceptedAtMostOnce == \A c \in Calls : accepted[c] <= 1

\* Two attempts are enough, whatever sessions are in the store: a call fails only
\* if a request of its own failed, a bundle or a session could not be used, the
\* recipient's devices changed meanwhile, or meanwhile another call deleted
\* sessions, or a call or an incoming message stored one that is out of date.
UndisturbedSucceeds ==
  \A c \in Calls : pc[c] = "failed" => c \in disturbed

\* A text in the database is a message the server has taken, however the attempts
\* of its call went.
StoredTextWasTaken == \A c \in rows : accepted[c] = 1

\* An image message the server has taken points to a ciphertext that was
\* uploaded (uploadSucceeded).
PointerHasCiphertext ==
  \A c \in ImageCalls : accepted[c] > 0 => c \in uploaded

\* Every call ends, even if the recipient's devices change all the time (a call
\* is made once, so eventually none is in progress).
CallsEnd == <>[](\A c \in Calls : ~InProgress(c))
=============================================================================
