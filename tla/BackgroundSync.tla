--------------------------- MODULE BackgroundSync ---------------------------
(***************************************************************************)
(* The connection to the server: SignalWebSocket (one object per           *)
(* SignalClient) and BackgroundSyncManager.start/stop, which create and    *)
(* discard the clients.                                                    *)
(*                                                                         *)
(* connect(), disconnect(), start(), stop() and the reconnect runnable run *)
(* on the main thread, each as one step.  The listener's callbacks run on  *)
(* OkHttp threads, one per socket; scheduleReconnect() is three of their   *)
(* steps, because the main thread and the other callbacks interleave with  *)
(* its unsynchronised check, removal and post.                             *)
(*                                                                         *)
(* A socket or a client nothing refers to any more is used again for the   *)
(* next one, so behaviours are infinite while the sets are finite: the     *)
(* sets bound how many sockets and clients are alive at the same time.     *)
(***************************************************************************)
EXTENDS Integers

CONSTANTS Clients,      \* SignalClient objects, each with its SignalWebSocket
          Sockets,      \* okhttp3.WebSocket objects
          None,         \* Kotlin's null
          MaxOrphans    \* bound: posted runnables no field refers to, per client

ASSUME SyncAssumption == /\ None \notin Clients \cup Sockets
                         /\ MaxOrphans \in Nat

VARIABLES
  isRunning,            \* BackgroundSyncManager.isRunning
  client,               \* BackgroundSyncManager.client
  connectionState,      \* BackgroundSyncManager._connectionState
  webSocket,            \* per client: SignalWebSocket.webSocket
  manualDisconnect,     \* per client: SignalWebSocket.manualDisconnect
  pending,              \* per client: the reconnectRunnable is posted
  orphans,              \* per client: runnables posted, but overwritten in the field
  phase,                \* per socket: what OkHttp will call next
  closed,               \* per socket: close() has been called
  owner,                \* per socket: the client whose listener it calls
  scheduling            \* per socket: where its thread is in scheduleReconnect()

managerVars == <<isRunning, client>>
runnableVars == <<pending, orphans>>
socketVars == <<phase, closed, owner>>
vars == <<isRunning, client, connectionState, webSocket, manualDisconnect,
          pending, orphans, phase, closed, owner, scheduling>>

ConnectionState == {"CONNECTING", "CONNECTED", "DISCONNECTED"}

\* "closing": the peer's close frame has arrived and onClosed is still to come.
Phase == {"connecting", "open", "closing", "dead"}

TypeOK ==
  /\ isRunning \in BOOLEAN
  /\ client \in Clients \cup {None}
  /\ connectionState \in ConnectionState
  /\ webSocket \in [Clients -> Sockets \cup {None}]
  /\ manualDisconnect \in [Clients -> BOOLEAN]
  /\ pending \in [Clients -> BOOLEAN]
  /\ orphans \in [Clients -> Nat]
  /\ phase \in [Sockets -> Phase]
  /\ closed \in [Sockets -> BOOLEAN]
  /\ owner \in [Sockets -> Clients \cup {None}]
  /\ scheduling \in [Sockets -> {"no", "checked", "removed"}]

\* Nothing refers to the socket: a new WebSocket may be this one.
FreeSocket(s) == /\ phase[s] = "dead"
                 /\ scheduling[s] = "no"

\* Nothing of this client is left: a new SignalClient may be this one.
FreeClient(c) == /\ ~pending[c]
                 /\ orphans[c] = 0
                 /\ \A s \in Sockets : owner[s] = c => FreeSocket(s)

Init ==
  /\ isRunning = FALSE
  /\ client = None
  /\ connectionState = "DISCONNECTED"
  /\ webSocket = [c \in Clients |-> None]
  /\ manualDisconnect = [c \in Clients |-> TRUE]
  /\ pending = [c \in Clients |-> FALSE]
  /\ orphans = [c \in Clients |-> 0]
  /\ phase = [s \in Sockets |-> "dead"]
  /\ closed = [s \in Sockets |-> TRUE]
  /\ owner = [s \in Sockets |-> None]
  /\ scheduling = [s \in Sockets |-> "no"]

-----------------------------------------------------------------------------
(* Main thread                                                             *)

\* Mutant: connect() forgets the old socket without closing it.
ReopenLeaky(c, s) ==
  /\ FreeSocket(s)
  /\ webSocket' = [webSocket EXCEPT ![c] = s]
  /\ phase' = [phase EXCEPT ![s] = "connecting"]
  /\ owner' = [owner EXCEPT ![s] = c]
  /\ closed' = [closed EXCEPT ![s] = FALSE]

\* The socket set after connect(): the old one is asked to close, s is new.
Reopen(c, s) ==
  /\ FreeSocket(s)
  /\ webSocket' = [webSocket EXCEPT ![c] = s]
  /\ phase' = [phase EXCEPT ![s] = "connecting"]
  /\ owner' = [owner EXCEPT ![s] = c]
  /\ closed' = [t \in Sockets |-> IF t = s THEN FALSE
                                  ELSE closed[t] \/ t = webSocket[c]]

\* SignalWebSocket.connect(), the runnables left being `left`.
Connect(c, left) ==
  /\ manualDisconnect' = [manualDisconnect EXCEPT ![c] = FALSE]
  /\ pending' = [pending EXCEPT ![c] = FALSE]
  /\ orphans' = [orphans EXCEPT ![c] = left]
  /\ connectionState' = "CONNECTING"
  /\ \E s \in Sockets : Reopen(c, s)
  /\ UNCHANGED scheduling

\* start() on a manager that is not running: a new client, connected.
StartNew ==
  /\ ~(isRunning /\ client # None)
  /\ isRunning' = TRUE
  /\ \E c \in Clients : /\ FreeClient(c)
                        /\ client' = c
                        /\ Connect(c, 0)

\* start() on a running manager: reconnect if the state says DISCONNECTED.
StartAgain ==
  /\ isRunning /\ client # None
  /\ connectionState = "DISCONNECTED"
  /\ Connect(client, orphans[client])
  /\ UNCHANGED managerVars

\* stop(), with SignalWebSocket.disconnect() on the client.
Stop ==
  /\ isRunning
  /\ isRunning' = FALSE
  /\ manualDisconnect' = [manualDisconnect EXCEPT ![client] = TRUE]
  /\ pending' = [pending EXCEPT ![client] = FALSE]
  /\ closed' = [t \in Sockets |-> closed[t] \/ t = webSocket[client]]
  /\ webSocket' = [webSocket EXCEPT ![client] = None]
  /\ connectionState' = "DISCONNECTED"
  /\ UNCHANGED <<client, orphans, phase, owner, scheduling>>

\* Mutant: the runnable does not look at manualDisconnect.
RunReconnectAlways(c) ==
  /\ UNCHANGED managerVars
  /\ pending[c] \/ orphans[c] > 0
  /\ Connect(c, IF pending[c] THEN orphans[c] ELSE orphans[c] - 1)

\* The looper runs a posted runnable: the one the field refers to, or an orphan.
RunReconnect(c) ==
  /\ UNCHANGED managerVars
  /\ \E left \in {n \in {orphans[c], orphans[c] - 1} : n >= 0} :
       /\ left = orphans[c] => pending[c]
       /\ \/ /\ ~manualDisconnect[c]
             /\ Connect(c, left)
          \/ /\ manualDisconnect[c]
             /\ pending' = [pending EXCEPT ![c] = @ /\ left # orphans[c]]
             /\ orphans' = [orphans EXCEPT ![c] = left]
             /\ UNCHANGED <<connectionState, webSocket, manualDisconnect,
                            socketVars, scheduling>>

-----------------------------------------------------------------------------
(* OkHttp threads.  None of the callbacks looks at which socket calls it.  *)

OnOpen(s) ==
  /\ phase[s] = "connecting"
  /\ phase' = [phase EXCEPT ![s] = "open"]
  /\ connectionState' = "CONNECTED"
  /\ UNCHANGED <<managerVars, webSocket, manualDisconnect, runnableVars,
                 closed, owner, scheduling>>

\* The common part of onClosing, onClosed and onFailure: report the state and
\* enter scheduleReconnect(), which returns at once after a manual disconnect.
\* (manualDisconnect is not volatile: this thread may not see disconnect() yet.)
ReportDisconnected(s) ==
  /\ scheduling[s] = "no"
  /\ connectionState' = "DISCONNECTED"
  /\ \E seen \in {manualDisconnect[owner[s]], FALSE} :
       scheduling' = [scheduling EXCEPT ![s] = IF seen THEN "no" ELSE "checked"]
  /\ UNCHANGED <<managerVars, webSocket, manualDisconnect, runnableVars, owner>>

\* The peer's close frame: of its own accord, or in answer to our close().
OnClosing(s) ==
  /\ phase[s] = "open"
  /\ phase' = [phase EXCEPT ![s] = "closing"]
  /\ closed' = [closed EXCEPT ![s] = TRUE]
  /\ ReportDisconnected(s)

OnClosed(s) ==
  /\ phase[s] = "closing"
  /\ phase' = [phase EXCEPT ![s] = "dead"]
  /\ UNCHANGED closed
  /\ ReportDisconnected(s)

\* Mutant: onFailure reports the state and schedules nothing.
OnFailureSilent(s) ==
  /\ phase[s] # "dead"
  /\ phase' = [phase EXCEPT ![s] = "dead"]
  /\ connectionState' = "DISCONNECTED"
  /\ UNCHANGED <<managerVars, webSocket, manualDisconnect, runnableVars, owner,
                 closed, scheduling>>

OnFailure(s) ==
  /\ phase[s] # "dead"
  /\ phase' = [phase EXCEPT ![s] = "dead"]
  /\ UNCHANGED closed
  /\ ReportDisconnected(s)

\* Mutant: the thread removes the old runnable and posts no new one.
RemoveOldRunnableOnly(s) ==
  /\ scheduling[s] = "checked"
  /\ scheduling' = [scheduling EXCEPT ![s] = "no"]
  /\ pending' = [pending EXCEPT ![owner[s]] = FALSE]
  /\ UNCHANGED <<managerVars, connectionState, webSocket, manualDisconnect,
                 orphans, socketVars>>

\* scheduleReconnect(): removeCallbacks on the runnable the field refers to.
RemoveOldRunnable(s) ==
  /\ scheduling[s] = "checked"
  /\ scheduling' = [scheduling EXCEPT ![s] = "removed"]
  /\ pending' = [pending EXCEPT ![owner[s]] = FALSE]
  /\ UNCHANGED <<managerVars, connectionState, webSocket, manualDisconnect,
                 orphans, socketVars>>

\* scheduleReconnect(): a new runnable in the field, posted.  A runnable another
\* thread posted since the removal stays posted without a reference.
PostRunnable(s) ==
  LET c == owner[s] IN
  /\ scheduling[s] = "removed"
  /\ pending[c] => orphans[c] < MaxOrphans
  /\ scheduling' = [scheduling EXCEPT ![s] = "no"]
  /\ pending' = [pending EXCEPT ![c] = TRUE]
  /\ orphans' = [orphans EXCEPT ![c] = IF pending[c] THEN @ + 1 ELSE @]
  /\ UNCHANGED <<managerVars, connectionState, webSocket, manualDisconnect,
                 socketVars>>

Manager == StartNew \/ StartAgain \/ Stop

Callback(s) == OnOpen(s) \/ OnClosing(s) \/ OnClosed(s) \/ OnFailure(s)

Scheduling(s) == RemoveOldRunnable(s) \/ PostRunnable(s)

Next ==
  \/ Manager
  \/ \E c \in Clients : RunReconnect(c)
  \/ \E s \in Sockets : Callback(s) \/ Scheduling(s)

Spec == Init /\ [][Next]_vars

-----------------------------------------------------------------------------
(* Fairness: Android runs what is posted, a thread inside a callback goes  *)
(* on, and OkHttp's timeouts make every handshake and every close it was   *)
(* asked for end.  An open socket may stay open for ever.                  *)

SocketProgress(s) ==
  \/ OnOpen(s)
  \/ OnClosed(s)
  \/ closed[s] /\ OnClosing(s)
  \/ (closed[s] \/ phase[s] = "connecting") /\ OnFailure(s)

Fairness ==
  /\ \A s \in Sockets : WF_vars(SocketProgress(s)) /\ WF_vars(Scheduling(s))
  /\ \A c \in Clients : WF_vars(RunReconnect(c))

FairSpec == Spec /\ Fairness

-----------------------------------------------------------------------------
(* Properties                                                              *)

Alive(s) == phase[s] \in {"connecting", "open"} /\ ~closed[s]

\* A socket that was not asked to close is the one the running client holds:
\* connect() and stop() close what they replace, so two connections of one
\* account never stay up side by side and none outlives stop().
NoLeakedSocket ==
  \A s \in Sockets : Alive(s) => isRunning /\ s = webSocket[client]

\* While sync is on, something is on its way that can restore the connection:
\* its socket still has a callback to make, a thread is inside
\* scheduleReconnect(), or a runnable is posted.
NeverStranded ==
  isRunning =>
    \/ phase[webSocket[client]] # "dead"
    \/ pending[client]
    \/ orphans[client] > 0
    \/ \E s \in Sockets : owner[s] = client /\ scheduling[s] # "no"

\* The manager and the clients agree: sync is on exactly for the client that may
\* reconnect, and that client's socket calls its listener and nobody else's; a
\* client that was stopped holds no socket and stays disconnected for good.
ClientsAreSettled ==
  /\ isRunning => /\ client \in Clients
                  /\ ~manualDisconnect[client]
                  /\ webSocket[client] \in Sockets
                  /\ owner[webSocket[client]] = client
  /\ \A c \in Clients :
       ~(isRunning /\ c = client) => manualDisconnect[c] /\ webSocket[c] = None
  /\ \A s \in Sockets : ~FreeSocket(s) => owner[s] \in Clients

\* No step opens a connection while sync is off: whatever callback or runnable
\* of a stopped client is still under way, connect() is not called again.
StoppedStaysStopped ==
  [][\A s \in Sockets :
       (phase'[s] = "connecting" /\ phase[s] # "connecting") => isRunning']_vars

\* What comes from outside: the user and the service, the peer, the network.
\* (A socket in "closing" ends the same way through onFailure as through onClosed.)
Disturbance ==
  \/ Manager
  \/ \E s \in Sockets : \/ phase[s] # "closing" /\ OnFailure(s)
                        \/ ~closed[s] /\ OnClosing(s)

Undisturbed == <>[][~Disturbance]_vars

\* Timing the model has no clock for: from some time on, the handshake of the
\* client's socket ends before the next runnable, 3 seconds on, replaces it.
Prompt ==
  <>[][\A c \in Clients : RunReconnect(c) =>
         manualDisconnect[c] \/ phase[webSocket[c]] # "connecting"]_vars

Connected == phase[webSocket[client]] = "open"

\* Once nobody interferes any more, sync that is on keeps getting connected:
\* late callbacks of old sockets and clients cannot hold it off for good.
ConnectedAgain == Undisturbed /\ Prompt => []<>(isRunning => Connected)

\* Once nobody interferes any more, sync that is on ends up connected for good:
\* what the setting "Persistent Connection" offers (HomeActivity.kt:151).
PersistentConnection == Undisturbed /\ Prompt => <>[](isRunning => Connected)
=============================================================================
