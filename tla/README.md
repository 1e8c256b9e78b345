# legacysignal: TLA+ models and proofs

legacysignal is a Signal client for Android 4.x: an app in Kotlin (`app/`) on a
fork of libsignal (`libsignal-client/`, Rust with a Java interface). This
directory models the parts that carry its own logic and that are hard to test:
the connection that must come back by itself, the service that must survive
being killed, registration, sending to devices that change, the way of a message
from the socket into the database, and, in libsignal, the double ratchet, the
chat connection, key transparency and the incremental MAC.

Paths of the app below are relative to
`app/src/main/java/com/simonproyt/legacysignal/`, those of libsignal to
`libsignal-client/rust/`.

## The system and its modules

| Part | Code | Module |
|---|---|---|
| Web socket, reconnects, clients | `api/SignalWebSocket.kt`, `BackgroundSyncManager.kt` start/stop | `BackgroundSync` |
| Service, alarm, boot, settings | `SyncService.kt`, `SyncReceiver.kt`, `BootReceiver.kt`, `HomeActivity.kt` | `SyncService`, on top of `BackgroundSync` |
| Reception, database, chat screen | `SignalWebSocket.onMessage`, `BackgroundSyncManager` handler, `data/DatabaseHelper.kt`, `ChatActivity.kt` | `Inbox` |
| Contacts, change signal, screens | `BackgroundSyncManager.fetchAndSaveProfile` and collector, `data/DatabaseHelper.kt` | `Contacts` |
| Sending texts and images | `crypto/MessageSender.kt`, `ChatActivity.kt` | `MessageSender` |
| Padding of contents | `crypto/MessageSender.kt`, `crypto/MessageReceiver.kt` | `Padding` |
| Registration | `LoginActivity.kt`, `ProfileSetupActivity.kt` | `Registration` |
| Message keys of a receiver chain | `protocol/src/session_cipher.rs`, `state/session.rs` | `MessageKeys` (operators), `ReceiverChain` (state machine) |
| Sessions and records | `protocol/src/session.rs`, `ratchet.rs`, `session_cipher.rs`, `state/session.rs` | `Session`, on `MessageKeys` |
| What a session promises | – | `AtMostOnce` (abstract specification) |
| The app's use of the ciphers | `BackgroundSyncManager.kt` handler, `SharedPrefsSignalProtocolStore.kt` | `ConcurrentSession`, on `Session` |
| Chat connection | `net/src/chat/ws.rs`, `net/infra/src/ws/connection.rs` | `ChatConnection` |
| Key transparency | `keytrans/src/` | `KeyTransparency` |
| Incremental MAC | `protocol/src/incremental_mac.rs` and its Java streams | `IncrementalMac` |

`MC*.tla` give TLC its constants and symmetries; `MCSeparateParts` also puts six
parts that share no state into one run, each behaviour being about one of them.
`*Proofs.tla` hold theorems. `PROJECT.json` maps every definition to the lines it
stands for and lists all components (also those left out), runs, hazards and
findings.

### BackgroundSync

A *client* is a `SignalClient` with its `SignalWebSocket`; a *socket* is an
OkHttp web socket. `start()` makes a new client unless one is running,
`connect()` replaces the client's socket, `stop()` disconnects the client.
Everything on the main thread is one step. OkHttp calls the listener on a
thread per socket, so `scheduleReconnect()` is three steps there
(`ReportDisconnected` with the check of `manualDisconnect`,
`RemoveOldRunnable`, `PostRunnable`). `manualDisconnect` is a plain field: the
check may still read FALSE after `disconnect()`. `reconnectRunnable` is read the
same way, but a stale read of it has the effect of an earlier interleaving (the
removal misses the new runnable, which becomes an *orphan*: posted, with no
field that refers to it), so it needs no choice of its own.

Sockets and clients that nothing refers to any more are used again, so that
behaviours are infinite on finite sets; the sets bound how many are alive at a
time, `MaxOrphans` how many orphans a client has.

### SyncService

Start commands, the 10-second stop of the polling mode, the alarm, the
preference and START_STICKY, with `BackgroundSync`'s actions below them.
`startService` makes the service a started one at once and queues a command;
`stopSelf()` without a start id ends that state whatever commands are queued.
Those commands still come, to an instance that is no longer started
(`lateCommands`), and what it posts can stop the sync but not the next instance
(`lateStops`). `ProcessDies` and `Reboot` lose all that lives in the process;
Android brings back a service that was started. The user is logged in throughout
(the app has no logout). `ChatActivity.onResume` calls the same `start()` as
`ChatOpened`, and `SyncService.onCreate` only shows the notification. Not
modelled: that a kill may lose the preference when `apply()` has not written it
yet.

One sequence of these steps leaves persistent mode without what it is meant to
have. The user changes from polling to persistent while a stop is posted, and the
stop runs before the command of the change: `stopSelf()` ends the started state,
the command then cancels the alarm, and sync runs in a service that Android does
not bring back. A kill ends it for good, until something gives the next command
(the home screen, a reboot). The history variable `abandoned` marks this case;
the properties name it as their exception, and `PollingSurvivesKill` shows that
polling mode has none.

### Inbox

One step per database call of the message coroutine (`LoadSession`, `Decrypt`,
`Lookup`, `CreateThread`, `Reload`, `StoreMessage`, `ShowNotification`) and of
the chat screen. The session is the set of messages whose key is used up, in
memory (`consumed`) and in the preferences' file (`flushed`). `insertThread`
replaces a contact's row under a new id unless a message refers to the old one;
`insertMessage` fails silently on an id without a row. Names and snippets are
left out; so is the download of attachments, after which the coroutine goes on
whether it succeeded or not.

### Contacts

The contacts row of one contact, as which of its columns are set. `saveContact`
replaces the row and so wipes the avatar; `saveContactAvatar` updates it. Every
start of sync launches a collector that nobody cancels and that asks for
profiles whenever the thread list changes. `dbChangeSignal` is a shared flow with
room for one value and no replay: `pending` holds the listeners that have still
to take it, and `tryEmit` drops the value while there are any. A flow queries
first and subscribes afterwards (`Query`, `Subscribe`, `Take`), and `saveContact`
signals nothing: that a screen shows the last change is not promised by this
code, and no property says so. A process that dies between the saved profile and
the avatar leaves the row without one (`ContactsProcessDies`).

### MessageSender and Padding

`sendMessage` and `sendImageMessage` are the same loop of two attempts over one
store; an image is uploaded first. The calls of the model run at the same time
and have one recipient, whose devices and registration ids may change at any
time. A session is the registration id it was made for. A call stops at every
request and at every access to the store: `containsSession` (`NextDevice`),
`process(bundle)` (`BuildSession`), the load and the store of `encrypt()`
(`EncryptLoads`, `EncryptStores`), `loadSession` for the registration id
(`RegistrationId`), and each `deleteSession` (`DeleteSession`). So one call may
store again what another has just deleted. Incoming messages make sessions too,
also late ones of an earlier registration (`SessionFromIncoming`).

`disturbed` is a history variable: a request of the call failed, a bundle or a
session could not be used, the recipient changed, or another call deleted
sessions or stored one that was outdated by then. An image is stored before it is
sent (`SendImageBytes`), a text when it was (`SaveText`); either may end without
a row (`insertMessage` returns -1 when the thread is gone), so the only relation
between rows and messages is `StoredTextWasTaken`.

Left out: the delivery certificate, which only decides whether a message is
sealed and on which no other state depends (the image path does not look at its
expiry); the retries of OkHttp on a connection failure (`SignalClient.kt:27`),
which `AcceptedAtMostOnce` therefore does not speak about; time. A session that
was not acknowledged for 30 days makes `encrypt()` fail, and `containsSession`
still finds it, so that every later call fails on it as well: in the model any
session may fail this way. `Padding` has the padding and its removal as
functions on bytes.

### Registration

The two pages of the login screen, the session for the SMS and its captcha, and
the attempts: each press of the button makes new keys and a new password, which
the attempt stands for. The server acts (`ServerRegisters`,
`ServerTakesPreKeys`) before the answer comes back or gets lost. An activity can
be left and opened again while its requests are still under way. Credentials and
keys go to two files through `apply()` (`Flush`); `ProcessDies` loses what was not
written. `unsure` records the cases in which the code promises nothing:
overlapping attempts, a lost answer of the registration, a death between the
files.

### MessageKeys, ReceiverChain, Session, AtMostOnce

`MessageKeys` has `get_or_create_message_key` as an operator on a chain: its
index and the counters of its stored keys. `ReceiverChain` lets messages of one
chain arrive in any order. `Session` has two devices with symbolic keys: a chain
key is the sequence of agreements it was derived from, so that two devices hold
the same key exactly if they made the same agreements, and a message
authenticates under its own chain key only. Messages stay on the network for
ever: they may come late, repeatedly or never. A failed decryption changes no
store, and so is no step. Left out: the post-quantum ratchet (another library),
identity trust (the store trusts every key), the refusal to send on a session
unacknowledged for 30 days (see `MessageSender`), the exemption from
MAX_FORWARD_JUMPS of sessions with oneself.

`ConcurrentSession` splits each cipher operation into load and the rest, as the
app's coroutines overlap. Processing a bundle stays one step.

### ChatConnection

Callers of `Chat::send`, `disconnect` and `is_connected`, the task that owns the
web socket, and the server. The task and the calls share the requests channel of
capacity one, a oneshot channel per request, and `TaskState` behind a lock that
one call may hold while it joins the task. Every await is a place where others
take steps. A timeout may fire whenever it is armed. Request ids wrap
(`IdSpace`). The phases of the task follow its code: its loop ends, it tells the
listener, which may take a while, drops its channels, and is then marked as
finished. A change of the interface abandons the write under way and with it the
response channel of its request (`InterfaceChanged`): that call asks for the
reason of the end while the task has not ended. The assertion in
`wait_for_task_to_finish` (`ws.rs:834`) then panics, unless `disconnect` was
called before; the same may happen in the moment between the last drop and the
mark. The model has that outcome (answer "panic"), and `chat_cut_off` is about
it. A call that panicked counts as back in `CallsComeBack` and is none of those
that `FinishedIsTold` and `ReasonIsReported` speak about.

### KeyTransparency

The operators are those of `implicit.rs`, `left_balanced.rs` and `guide.rs`, on
the same numbers. The state is a log of counters that grows, and the
`MonitoringData` of one key that `Search` and `Monitor` keep. The client reads
true counters (hashes, signatures and VRF proofs are taken to be sound); a
counter may go down, at most `MaxSlips` times. A search for a version that is
absent is refused and stores nothing, so it is no step. A search abstracts the
checks of hashes, commitment and tree head to that. The trimming at the
distinguished tree head is left out, and so are the index, the start position
and the `owned` flag in `check_search_consistency`: there is one key, whose
start never changes.

### IncrementalMac

The MAC of a text is the text. The writer writes in pieces of any length and
closes; then the reader gets the same text or another one. The input stream hands
out a chunk after it was validated. After the exception of a failed validation
the stream is not read further ("failed" is final). An input without any byte
ends without a comparison; `EndIsWhole` names that case.

## Runs

| Run | Checks | Bounds, and why they are enough |
|---|---|---|
| `sync_service` | `SyncNeverForgotten`, `PollingSurvivesKill`, `PollingDisconnects`, `PersistentComesBack`; of the connection `NoLeakedSocket`, `NeverStranded`, `StoppedStaysStopped`, `ConnectedAgain` | 2 clients, 2 sockets, 1 orphan, 1 command and 1 stop queued, intervals 0 and 15: a stopped client still calls back while a new one reconnects, and a stop overtakes a command |
| `session` | `EveryMessageOpens`, `DuplicateWasOpened`, `FreshMessageKeys`, `OpensOnce` | 2 bundles, by both devices or twice by one, and 3 messages per device; one one-time prekey each, so the second bundle of a device has none; limits not reached |
| `session_limits` | `TypeOK` (with the limits), `OpensOnce` | 3 bundles, 2 messages per device, one receiver chain, one archived session, no stored key: every trimming happens |
| `inbox` | `MessagesAreReachable`, `TextStoredOnce` | 2 messages, 2 coroutines, 1 chat that sends, 2 thread ids, 1 lost acknowledgement, 1 crash: two writers race for a row and the loser's id goes stale |
| `chat_connection` | `NoCallForgotten`, `AnswerIsOwn`, `FinishedIsTold`, `ReasonIsReported`, `CallsComeBack`, `DisconnectEnds` | 2 calls, 1 keepalive, 1 request of the server, ids 3, 0, 1, 2: the channel is full, ids wrap, a write is abandoned, one call joins while the other waits for the lock |
| `message_sender` | `AcceptedAtMostOnce`, `UndisturbedSucceeds`, `StoredTextWasTaken`, `CallsEnd` | a text and an image at once, 2 devices, of which one may register anew and the other be linked and unlinked: both 409 and 410, in both attempts, and every interleaving of two calls on the store |
| `separate_parts` | Receiver chain: `LateMessageOpens`, `OpensOnce` (refinement of `AtMostOnce`) | counters 0..8, 3 stored keys, jumps of 4: both limits are reached |
| | Registration: `CredentialsAreCurrent`, `SetupHasPreKeys` | 2 attempts, overlapping or one after the other, deaths without bound |
| | Contacts: `MissingAvatarIsExplained` | 1 screen, 2 collectors, 2 fetches at once, 1 change, deaths without bound: signals get dropped and fetches overlap |
| | Key transparency: `SearchFinds`, `HonestIsAccepted`, `MonitoringClimbs`, `NextMonitorIsExact` | logs of up to 8 entries (past a power of two), the key starting at 0, 2 or 5, versions 0..2, 1 slip |
| | Incremental MAC: `ReleasedIsGenuine`, `EndIsWhole`, `GenuineIsAccepted` | chunks of 1 to 3, all texts over two bytes up to length 4: ends inside, at and after a chunk |
| | Padding: `PaddingComesOff` | all contents of up to 5 bytes of 0, 1 and 0x80, up to 2 zeros of padding |

The runs keep to the properties that take several steps of several actors to
break. The type invariants, the strengthenings and some plainer invariants
(`ClientsAreSettled`, `SurvivesKill`, `KeysAreUnused`, `StorageBounded`,
`OldestIsOutstanding`, `PointerHasCiphertext`, `OneAtATime`, `NeverStuck`,
`PreKeysAreOurs`) are proved for all constants instead; see the theorems below.

Larger instances that were checked once and are too slow to keep: `sync_service`
with 2 commands queued (780,636 states), `inbox` with 3 thread ids (5.5 million
states), registration with 3 attempts (361,939 states).

`OpensOnce` with a full archive needs one-time prekeys: a session that was set
up without one and has been dropped from the archive is set up anew by its
prekey messages (`session_limits` has a one-time prekey for every bundle).

`ConnectedAgain` is about the socket, not about the reported state: a stopped
client's late callback may leave `connectionState` at DISCONNECTED although the
new client is connected. It assumes `Prompt`: from some time on the handshake
is over before the next runnable replaces the socket. The code's 3-second delay
is meant for that; the model has no clock, and without `Prompt` reconnects may
overtake every handshake.

`TextStoredOnce` speaks of a session held by one coroutine at a time and of the
time before a crash: overlapping handlers are what `concurrent_session` is about,
and a crash may bring back a session older than the messages it has opened.

`NeverStuck` excepts the request for the SMS: after an error there the button
stays disabled. `CredentialsAreCurrent` excepts attempts that overlap (`unsure`).
Each exception is what the code does, and is in the model.

Runs that show a disagreement between the code and what it says of itself:

- `background_sync_churn`: "Persistent Connection (High Battery)"
  (`HomeActivity.kt:151`). The callbacks do not ask which socket calls them. The
  close of a replaced socket schedules the next reconnect, which replaces the
  good socket: this may go on for ever (`PersistentConnection`), although the
  connection also keeps coming back (`ConnectedAgain`).
- `concurrent_session`: DuplicateMessageException "if the input is a message that
  has already been received" (`SessionCipher.java:118`), and "This class is not
  thread-safe" (`SessionCipher.java:30`). Two overlapping decryptions open a
  repeated message twice.
- `inbox_reported`: "Saved message from" (`BackgroundSyncManager.kt:239`) is
  logged although the insert failed on a thread replaced in the meantime.
- `inbox_kept`: bubbles "show up after a reopen or a crash" (`readme.md:11`). A
  message is acknowledged before it is stored; `stop()` or a crash loses it.
- `chat_cut_off`: "Since the earlier send failed, the task must have dropped its
  receiver" (`ws.rs:749-751`, asserted at `ws.rs:834`). The call whose write was
  abandoned gets there while the task still runs.

Deadlock is checked where the system runs for ever (`BackgroundSync`,
`SyncService`). The other models end when all is sent and delivered.

### Fairness

`BackgroundSync`: Android runs what is posted, a thread inside
`scheduleReconnect()` goes on, and OkHttp's timeouts end every handshake and
every close that was asked for. An open socket may stay open for ever, and
nothing makes the user, the server or the network do anything. `SyncService`
adds that start commands are delivered, polling stops run and alarms go off;
fairness is strong for commands and alarms, because the bounds on queues and
sockets, which Android does not have, may disable them for a while.

`MessageSender`: a call goes on, since OkHttp's timeouts end every request, with
an answer or a failure. `ChatConnection`: tokio polls the calls and the task,
listeners return, and the idle timeout fires when the server is silent for good;
nothing makes the server answer. A write ends, too, with success or with a
failure: the code has no timer for it, since the idle timer is not polled during
a write (`connection.rs:332`, `347`), so `CallsComeBack` and `DisconnectEnds`
rest on TCP here. `Contacts`, `Registration`, `IncrementalMac` and the others
have no liveness property.

## Theorems

All proofs are for arbitrary constants, under the named assumptions of the
modules.

- `SyncInboxProofs`, on `SyncService` and `Inbox`. Of the connection alone, from
  `SyncAssumption` (`None` is no client and no socket). The inductive invariant
  is `ConnectionInv`: `TypeOK`, `ClientsAreSettled`, `NoLeakedSocket`,
  `NeverStranded`. `ClientsAreSettled` is the strengthening: that only the
  running client may reconnect, and that its socket calls its own listener, is
  what makes the other two inductive (a runnable or callback of a stopped client
  meets `manualDisconnect`). `StopIsFinal` follows from the same invariant.
  Of the service: `NeverForgotten`, `KillsAreSurvived` and `PollingIsSafe`
  from `ServiceInv`. `SyncNeverForgotten` alone is not inductive, as a dying
  process takes `isRunning` and the posted stops with it; what outlives it is a
  started service or an alarm (`SurvivesKill`). The exception `abandoned` arises
  only from a command taken in persistent mode by an instance that was stopped,
  and polling mode is only reached with a command that started the service again.
  `ConnectionStaysSound` reuses the lemmas on `BackgroundSync` step by step,
  kills and reboots being new initial states.
  Of the inbox: `ThreadInv` for the threads: whoever holds a thread id, a
  coroutine before its insert or the open chat, holds one that was given to its
  own contact, perhaps replaced since (`OwnInv`); and every row is in the thread
  its contact has now (`RowsInv`), since an id with rows cannot be replaced.
  `OnceInv` for `TextsStoredOnce`: while each session is held by one coroutine
  at a time, what it has loaded is what is stored, and a text on its way is
  consumed, not stored yet, and with one coroutine only (`SessionInv`); a text
  the user sends is unsent, being sent, or stored (`SentInv`).
- `SeparatePartsProofs`, on `ReceiverChain`, `Registration`, `Contacts`,
  `Padding` and `MessageSender`. Of the receiver chain, from `ChainAssumption`
  and `CountersAssumption`: the invariant `Inv` is inductive as it stands. Its
  hard part is the trimming: `NewestIsBounded` (what stays has at most
  MAX_MESSAGE_KEYS members, through the least element of a finite set) and
  `NewestKeepsRecent`. `Refinement` shows that a chain implements `AtMostOnce`.
  Of registration: `ButtonGuards` ties the button to the attempts (while it is
  enabled none of this activity is under way). `Settled` holds until `unsure`:
  one attempt is under way at most, and what the phone and the server hold
  belongs to the account, up to how far the attempt has come.
  Of the padding: `PaddingTakenOff`. The index at which `unpad` stops is the one
  of the mark, because all behind it is zero; what the content ends with is not
  read.
  Of contacts: `ProfileInv` adds to the property that a fetch which has saved a
  profile finds the row again, so that its download updates it; `FlowInv` is
  about the signal: whoever has still to take the value is subscribed.
  Of sending, from `SenderAssumption`: `SenderInv`. `TakenAtMostOnce`,
  `StoredTextsAreTaken` and `PointersStayGood` follow from `ProgressInv`: where a
  call is says what has happened to its message. The hard theorem is
  `TwoAttemptsSuffice`, by `RetryInv` on undisturbed calls: a first attempt has in
  hand every session that would be refused (`Covered`), encrypted for, still to
  come, or on the device between its load and its store; so the refusal deletes
  them all and what is left in the store is `Clean`; the second attempt asks for
  the prekeys and is then for the devices the server knows, with their
  registration ids (`Exact`). `PrimaryInHand` keeps a call from having nobody to
  send to. Other calls that are not counted as a disturbance only improve the
  store (`Improved`). The invariant was checked with TLC on the run's instance
  before it was proved.
- `ChatConnectionProofs`, from `IdAssumption` and `NamesAssumption`:
  `ConnectionInv`. `EndInv` says when the end may be seen: the listener's last
  event is Finished exactly when the task has told it, and the channels close and
  the state changes only later. `ReasonInv` says that a call which
  reports a disconnection either never had its request in the connection or
  reports the result of the finished task; a call whose write was abandoned cannot
  report one before.
  `AnswersAreOwn` has one more hypothesis, `EnoughIds`: no more requests than
  ids, of which the code has 2^64. `IdsInv` says that the ids issued so far are
  the first ones of one turn around the id space (`Issued`, `Numbered`), so that
  no two requests ever have the same one; `OwnInv` follows the answers from the
  server to the call.
- `IncrementalMacProofs`, from `MacAssumption`. `MacInv` adds to the three
  properties where the two streams are: the digests written are those of the
  whole chunks so far and the rest is in the current one (`WriterInv`); what the
  reader holds and has released is a beginning of the input, cut at a chunk
  until the end was validated (`ReadingInv`, `ReleasingInv`). `Update` is
  written without recursion, as the digests it completes and the bytes it keeps,
  which is what lets the prover reason about pieces of any length.
- `SessionProofs` has the theorems about `Session`, from `SessionAssumption` and
  `ChainAssumption`; their lemmas are in three modules that extend one another.
  These lemmas name the facts they use of numbers and finite sets as hypotheses
  (`WellOrdered`, `FiniteSetFacts`, `InjectionFact`) and `SessionProofs` proves
  the facts from the library, since the provers get slow where all of the
  library is in sight.
  `SessionKeyProofs` begins with the operators: what `PromoteState`,
  `PromoteOldSession`, a replaced chain and a new chain leave in a record
  (`Renewed`), and `DecryptFrom`: a message that opens is opened by exactly one
  candidate state, one of the record or a new one of `process_prekey`, and the
  others stay, some without their pending prekey or dropped.
  - `KeysInv` (`SessionKeyProofs`) for `SessionTypes` and `MessageKeysAreFresh`.
    Types alone are not inductive for fresh keys: a sender chain that came up a
    second time would begin again at zero. `Fresh` says that every key pair is
    older than `nextKey` and every chain begins with the agreement of its
    session's base key, so that a ratchet step, whose last agreement has the
    newest key pair, makes a chain no message was ever sent with; `Ahead` says
    that no sent message has reached the sender index of its chain.
  - `OnceInv` (`SessionDeliveryProofs`) for `MessagesOpenOnce`. An opened
    message is `Spent` in every state that is left: its chain is past it and has
    not stored its key, and the ratchet cannot make that chain again. A state
    made anew would know nothing of that, so no session may be set up twice: its
    one-time prekey is `Burnt`. The hypothesis `[][Retained]_vars` is the
    exception that `OpensOnce` names: a session without a one-time prekey is not
    dropped from its record. The runs that check `OpensOnce` satisfy it.
  - `PassedInv` (`SessionDeliveryProofs`) for `DuplicatesWereOpened`. `Passed`
    says that a key which a chain has passed and not stored was used. It holds
    as long as no stored key is trimmed, hence `MaxSends <= MaxMessageKeys`;
    `Counted` bounds the counters by the number of messages. `OneChain`,
    `Behind` and `Distinct` say that all who send or receive with one ratchet
    key mean the same chain, so that the refusal of any of the candidate states
    is about the key of this message.
  - `OpenInv` (`SessionOpenProofs`) for `MessagesCanBeOpened`, the theorem that
    relates both parties. A session has two sides, and one that was not set up
    yet is the one its first message would set up (`Sides`). `Following` says
    that the receiving side has turned to the key the other one sends with, or
    gets its chain key by the next turn of the ratchet. `Met` says the same of
    every message that was sent, however old, and that its prekey can still set
    up the session where there is none; `Announced` and `HandedOut` keep it so
    (an unanswered session is announced in every message, and one-time prekeys
    are given out once). `Answering` is what a turn of the ratchet needs.
    `Bounded` counts: sessions by the bundles, and chains by the messages. The
    hypotheses say that none of the limits is reached, as in the run `session`:
    `MaxSends <= MaxMessageKeys`, `MaxSends <= MaxForwardJumps`, `MaxSends <
    MaxReceiverChains`, `MaxBundles <= ArchivedStatesMax`. Beyond them the code
    drops what a late message would need, and the message may be lost.

Only model-checked:

- Liveness, which is out of the prover's reach: `PollingDisconnects`,
  `PersistentComesBack`, `ConnectedAgain`, `CallsComeBack`, `DisconnectEnds`,
  `CallsEnd`.
- `KeyTransparency`: `SearchFinds`, `HonestIsAccepted`, `NextMonitorIsExact` and
  `MonitoringClimbs`. Its tree is defined by recursion and by bit operations; what
  they compute for every log size would need induction over data.

## Not modelled

- The vendored libsignal is most of the repository's code. Its other crates
  (zero-knowledge credentials, attestation, backup and media formats, usernames,
  account keys) are algebra and formats over bytes without concurrent state; a
  symbolic model would assume what they compute. The bridges are generated. What
  is mapped is about two fifths of the files the modules stand for, and about
  two percent of the repository as a whole; more than that would be lines that no
  definition translates.
- Byte-level cryptography of the app: attachment and profile ciphers, sealed
  sender.
- Display-only screens, TLS set-up, API declarations, notifications, files of
  attachments.
- A crash that brings back an older sender chain in `Session`; in `Inbox` the
  session is restored after a crash, as the set of messages it has opened.
- The age limit of unacknowledged sessions (as a time), the delivery certificate,
  the retries of the HTTP client, and the post-quantum ratchet.
- Opening a chat connection (routes, proxies, TLS), and the trimming at the
  distinguished tree head in key transparency.
- Names and snippets of threads, which no other state depends on.

`PROJECT.json` gives the reason for each component.
