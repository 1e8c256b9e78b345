-------------------------- MODULE SyncInboxProofs --------------------------
(***************************************************************************)
(* Proofs about the client in the background.  The connection, for any     *)
(* number of clients and sockets; the service and the connection together, *)
(* for every set of intervals and any bounds: sync is never forgotten, and *)
(* what is proved of the connection survives modes, kills and reboots; and *)
(* the inbox, for any messages, texts, contacts and coroutines, and any    *)
(* bounds.                                                                 *)
(***************************************************************************)
EXTENDS SyncService, Inbox, TLAPS

-----------------------------------------------------------------------------
(* The connection: BackgroundSync *)

\* The inductive invariant.
ConnectionInv == TypeOK /\ ClientsAreSettled /\ NoLeakedSocket /\ NeverStranded

\* connect() on the client of a manager that is on afterwards establishes the
\* invariant, if nothing but that client's socket was alive before.
LEMMA ConnectLemma ==
  ASSUME TypeOK,
         NEW c \in Clients, NEW left \in Nat,
         \A d \in Clients \ {c} : manualDisconnect[d] /\ webSocket[d] = None,
         \A s \in Sockets : Alive(s) => s = webSocket[c],
         \A s \in Sockets : ~FreeSocket(s) => owner[s] \in Clients,
         Connect(c, left),
         isRunning' = TRUE, client' = c
  PROVE  ConnectionInv'
<1>1. PICK s \in Sockets : Reopen(c, s)
  BY Zenon DEF Connect
<1>2. TypeOK'
  BY Zenon, <1>1 DEF TypeOK, Connect, Reopen, ConnectionState, Phase
<1>3. /\ webSocket'[c] = s
      /\ phase'[s] = "connecting"
      /\ owner'[s] = c
      /\ ~closed'[s]
      /\ ~manualDisconnect'[c]
  BY ZenonT(30), <1>1 DEF TypeOK, Connect, Reopen
<1>4. \A t \in Sockets \ {s} : /\ phase'[t] = phase[t]
                               /\ owner'[t] = owner[t]
                               /\ scheduling'[t] = scheduling[t]
                               /\ closed'[t] = (closed[t] \/ t = webSocket[c])
  BY <1>1 DEF TypeOK, Connect, Reopen
<1>5. \A d \in Clients \ {c} : manualDisconnect'[d] /\ webSocket'[d] = None
  BY Zenon, <1>1 DEF TypeOK, Connect, Reopen
<1>6. ClientsAreSettled'
  BY <1>3, <1>4, <1>5 DEF ClientsAreSettled, FreeSocket
<1>7. NoLeakedSocket'
  BY Zenon, <1>3, <1>4 DEF NoLeakedSocket, Alive
<1>8. NeverStranded'
  BY Zenon, <1>3 DEF NeverStranded
<1> QED
  BY Zenon, <1>2, <1>6, <1>7, <1>8 DEF ConnectionInv

\* The initial state satisfies the invariant: no client exists yet.
LEMMA InitInv == Init => ConnectionInv
<1> SUFFICES ASSUME Init PROVE ConnectionInv
  BY Zenon
<1>1. TypeOK
  BY Zenon DEF Init, TypeOK, ConnectionState, Phase
<1>2. ClientsAreSettled
  BY Zenon DEF Init, ClientsAreSettled, FreeSocket
<1>3. NoLeakedSocket /\ NeverStranded
  BY Zenon DEF Init, NoLeakedSocket, NeverStranded, Alive
<1> QED
  BY Zenon, <1>1, <1>2, <1>3 DEF ConnectionInv

\* start() on a manager that is off.
LEMMA StartNewInv == ConnectionInv /\ StartNew => ConnectionInv'
<1> SUFFICES ASSUME ConnectionInv, StartNew PROVE ConnectionInv'
  BY Zenon
<1>1. ~isRunning
  BY Zenon, SyncAssumption DEF SyncAssumption, ConnectionInv, ClientsAreSettled, StartNew
<1>2. PICK c \in Clients : client' = c /\ Connect(c, 0)
  BY Zenon DEF StartNew
<1>3. /\ \A d \in Clients \ {c} : manualDisconnect[d] /\ webSocket[d] = None
      /\ \A s \in Sockets : Alive(s) => s = webSocket[c]
      /\ \A s \in Sockets : ~FreeSocket(s) => owner[s] \in Clients
  BY Zenon, <1>1 DEF ConnectionInv, ClientsAreSettled, NoLeakedSocket
<1> QED
  BY Zenon, <1>2, <1>3, ConnectLemma DEF ConnectionInv, StartNew

\* connect() on the running client, from start() or from the runnable.
LEMMA ReconnectInv ==
  ASSUME ConnectionInv, isRunning, NEW left \in Nat, Connect(client, left),
         UNCHANGED managerVars
  PROVE  ConnectionInv'
<1>1. client \in Clients /\ isRunning' = TRUE /\ client' = client
  BY Zenon DEF ConnectionInv, TypeOK, ClientsAreSettled, managerVars
<1>2. /\ \A d \in Clients \ {client} : manualDisconnect[d] /\ webSocket[d] = None
      /\ \A s \in Sockets : Alive(s) => s = webSocket[client]
      /\ \A s \in Sockets : ~FreeSocket(s) => owner[s] \in Clients
  BY Zenon DEF ConnectionInv, ClientsAreSettled, NoLeakedSocket
<1> QED
  BY Zenon, <1>1, <1>2, ConnectLemma DEF ConnectionInv
\* stop() on the running client.
LEMMA StopInv == ConnectionInv /\ Stop => ConnectionInv'
<1> SUFFICES ASSUME ConnectionInv, Stop PROVE ConnectionInv'
  BY Zenon
<1>1. TypeOK'
  BY Zenon DEF ConnectionInv, TypeOK, Stop, ConnectionState
<1>2. /\ \A c \in Clients : manualDisconnect'[c] /\ webSocket'[c] = None
      /\ \A s \in Sockets : closed'[s] = (closed[s] \/ s = webSocket[client])
  BY Zenon DEF ConnectionInv, TypeOK, ClientsAreSettled, Stop
<1>3. ClientsAreSettled'
  BY Zenon, <1>2 DEF ConnectionInv, ClientsAreSettled, FreeSocket, Stop
<1>4. NoLeakedSocket' /\ NeverStranded'
  BY Zenon, <1>2 DEF ConnectionInv, NoLeakedSocket, NeverStranded, Alive, Stop
<1> QED
  BY Zenon, <1>1, <1>3, <1>4 DEF ConnectionInv

\* The reconnect runnable: it connects the running client or does nothing.
LEMMA RunReconnectInv ==
  ASSUME ConnectionInv, NEW c \in Clients, RunReconnect(c)
  PROVE  ConnectionInv'
<1>1. PICK left \in Nat :
        /\ left \in {orphans[c], orphans[c] - 1}
        /\ \/ ~manualDisconnect[c] /\ Connect(c, left)
           \/ /\ manualDisconnect[c]
              /\ pending' = [pending EXCEPT ![c] = @ /\ left # orphans[c]]
              /\ orphans' = [orphans EXCEPT ![c] = left]
              /\ UNCHANGED <<connectionState, webSocket, manualDisconnect,
                             socketVars, scheduling>>
  BY DEF ConnectionInv, TypeOK, RunReconnect
<1>2. CASE ~manualDisconnect[c] /\ Connect(c, left)
  <2>1. isRunning /\ c = client
    BY Zenon, <1>2 DEF ConnectionInv, ClientsAreSettled
  <2> QED
    BY Zenon, <1>2, <2>1, ReconnectInv DEF RunReconnect
<1>3. CASE /\ manualDisconnect[c]
           /\ pending' = [pending EXCEPT ![c] = @ /\ left # orphans[c]]
           /\ orphans' = [orphans EXCEPT ![c] = left]
           /\ UNCHANGED <<connectionState, webSocket, manualDisconnect,
                          socketVars, scheduling>>
  <2>1. isRunning => c # client
    BY Zenon, <1>3 DEF ConnectionInv, ClientsAreSettled
  <2>2. UNCHANGED <<isRunning, client, connectionState, webSocket,
                    manualDisconnect, phase, closed, owner, scheduling>>
    BY Zenon, <1>3 DEF RunReconnect, managerVars, socketVars
  <2>3. TypeOK'
    BY Zenon, <1>3, <2>2 DEF ConnectionInv, TypeOK
  <2>4. ClientsAreSettled' /\ NoLeakedSocket'
    BY Zenon, <2>2 DEF ConnectionInv, ClientsAreSettled, NoLeakedSocket, FreeSocket, Alive
  <2>5. isRunning => pending'[client] = pending[client]
                     /\ orphans'[client] = orphans[client]
    BY Zenon, <1>3, <2>1 DEF ConnectionInv, TypeOK, ClientsAreSettled
  <2>6. NeverStranded'
    BY Zenon, <2>2, <2>5 DEF ConnectionInv, NeverStranded
  <2> QED
    BY Zenon, <2>3, <2>4, <2>6 DEF ConnectionInv
<1> QED
  BY Zenon, <1>1, <1>2, <1>3
\* onOpen changes the phase of a socket that was alive before and is after.
LEMMA OnOpenInv ==
  ASSUME ConnectionInv, NEW s \in Sockets, OnOpen(s)
  PROVE  ConnectionInv'
<1>1. UNCHANGED <<isRunning, client, webSocket, manualDisconnect, pending,
                  orphans, closed, owner, scheduling>>
  BY Zenon DEF OnOpen, managerVars, runnableVars
<1>2. TypeOK'
  BY Zenon, <1>1 DEF ConnectionInv, TypeOK, OnOpen, ConnectionState, Phase
<1>3. /\ phase[s] = "connecting" /\ phase'[s] = "open"
      /\ \A t \in Sockets \ {s} : phase'[t] = phase[t]
  BY Zenon DEF ConnectionInv, TypeOK, OnOpen
<1>4. ClientsAreSettled'
  BY Zenon, <1>1, <1>3 DEF ConnectionInv, ClientsAreSettled, FreeSocket
<1>5. NoLeakedSocket'
  BY Zenon, <1>1, <1>3 DEF ConnectionInv, NoLeakedSocket, Alive
<1>6. NeverStranded'
  BY Zenon, <1>1, <1>3 DEF ConnectionInv, NeverStranded, ClientsAreSettled
<1> QED
  BY Zenon, <1>2, <1>4, <1>5, <1>6 DEF ConnectionInv

\* onClosing, onClosed and onFailure: the socket's last steps.  When it is the
\* running client's, manualDisconnect is FALSE and scheduleReconnect() goes on.
LEMMA DisconnectedInv ==
  ASSUME ConnectionInv, NEW s \in Sockets,
         OnClosing(s) \/ OnClosed(s) \/ OnFailure(s)
  PROVE  ConnectionInv'
<1>1. /\ phase[s] # "dead"
      /\ \E p \in {"closing", "dead"} : phase' = [phase EXCEPT ![s] = p]
      /\ closed' = closed \/ closed' = [closed EXCEPT ![s] = TRUE]
      /\ ReportDisconnected(s)
  BY Zenon DEF OnClosing, OnClosed, OnFailure
<1>2. UNCHANGED <<isRunning, client, webSocket, manualDisconnect, pending,
                  orphans, owner>>
  BY Zenon, <1>1 DEF ReportDisconnected, managerVars, runnableVars
<1>3. /\ phase'[s] \in {"closing", "dead"}
      /\ \A t \in Sockets \ {s} : /\ phase'[t] = phase[t]
                                  /\ closed'[t] = closed[t]
                                  /\ scheduling'[t] = scheduling[t]
      /\ owner[s] \in Clients
      /\ ~manualDisconnect[owner[s]] => scheduling'[s] = "checked"
  BY ZenonT(60), <1>1 DEF ConnectionInv, TypeOK, ClientsAreSettled, FreeSocket, ReportDisconnected
<1>4. TypeOK'
  BY Zenon, <1>1, <1>2 DEF ConnectionInv, TypeOK, ReportDisconnected, ConnectionState, Phase
<1>5. ClientsAreSettled'
  BY Zenon, <1>2, <1>3 DEF ConnectionInv, ClientsAreSettled, FreeSocket
<1>6. NoLeakedSocket'
  BY Zenon, <1>2, <1>3 DEF ConnectionInv, NoLeakedSocket, Alive
<1>7. NeverStranded'
  <2> SUFFICES ASSUME isRunning
               PROVE  \/ phase'[webSocket[client]] # "dead"
                      \/ pending[client]
                      \/ orphans[client] > 0
                      \/ \E t \in Sockets : owner[t] = client
                                           /\ scheduling'[t] # "no"
    BY Zenon, <1>2 DEF NeverStranded
  <2>1. CASE webSocket[client] = s
    BY Zenon, <1>3, <2>1 DEF ConnectionInv, ClientsAreSettled
  <2>2. CASE webSocket[client] # s
    <3>1. \A t \in Sockets : scheduling[t] # "no" => scheduling'[t] # "no"
      BY Zenon, <1>1, <1>3 DEF ReportDisconnected
    <3> QED
      BY Zenon, <1>3, <2>2, <3>1 DEF ConnectionInv, NeverStranded, ClientsAreSettled
  <2> QED
    BY Zenon, <2>1, <2>2
<1> QED
  BY Zenon, <1>4, <1>5, <1>6, <1>7 DEF ConnectionInv

\* The two later steps of scheduleReconnect().
LEMMA SchedulingInv ==
  ASSUME ConnectionInv, NEW s \in Sockets, Scheduling(s)
  PROVE  ConnectionInv'
<1>1. /\ scheduling[s] # "no"
      /\ UNCHANGED <<isRunning, client, connectionState, webSocket,
                     manualDisconnect, phase, closed, owner>>
  BY Zenon DEF Scheduling, RemoveOldRunnable, PostRunnable, managerVars, socketVars
<1>2. owner[s] \in Clients
  BY Zenon, <1>1 DEF ConnectionInv, ClientsAreSettled, FreeSocket
<1>3. /\ \A t \in Sockets \ {s} : scheduling'[t] = scheduling[t]
      /\ \A c \in Clients : orphans'[c] >= orphans[c]
      /\ \A c \in Clients \ {owner[s]} : pending'[c] = pending[c]
      /\ scheduling'[s] # "no" \/ pending'[owner[s]]
  BY <1>2 DEF ConnectionInv, TypeOK, Scheduling, RemoveOldRunnable, PostRunnable
<1>4. TypeOK'
  <2>1. CASE RemoveOldRunnable(s)
    BY Zenon, <1>1, <1>2, <2>1 DEF ConnectionInv, TypeOK, RemoveOldRunnable
  <2>2. CASE PostRunnable(s)
    <3>1. scheduling' \in [Sockets -> {"no", "checked", "removed"}]
      BY Zenon, <2>2 DEF ConnectionInv, TypeOK, PostRunnable
    <3>2. pending' \in [Clients -> BOOLEAN]
      BY Zenon, <2>2 DEF ConnectionInv, TypeOK, PostRunnable
    <3>3. orphans' \in [Clients -> Nat]
      BY <1>2, <2>2 DEF ConnectionInv, TypeOK, PostRunnable
    <3> QED
      BY Zenon, <1>1, <3>1, <3>2, <3>3 DEF ConnectionInv, TypeOK
  <2> QED
    BY Zenon, <2>1, <2>2 DEF Scheduling
<1>5. ClientsAreSettled'
  BY Zenon, <1>1, <1>2, <1>3 DEF ConnectionInv, ClientsAreSettled, FreeSocket
<1>6. NoLeakedSocket'
  BY Zenon, <1>1 DEF ConnectionInv, NoLeakedSocket, Alive
<1>7. NeverStranded'
  <2> SUFFICES ASSUME isRunning
               PROVE  \/ phase[webSocket[client]] # "dead"
                      \/ pending'[client]
                      \/ orphans'[client] > 0
                      \/ \E t \in Sockets : owner[t] = client
                                           /\ scheduling'[t] # "no"
    BY Zenon, <1>1 DEF NeverStranded
  <2>1. CASE owner[s] = client
    BY Zenon, <1>3, <2>1
  <2>2. CASE owner[s] # client
    <3>1. client \in Clients /\ orphans[client] \in Nat /\ orphans'[client] \in Nat
      BY Zenon, <1>1, <1>4 DEF ConnectionInv, TypeOK, ClientsAreSettled
    <3> QED
      BY <1>3, <2>2, <3>1 DEF ConnectionInv, NeverStranded
  <2> QED
    BY Zenon, <2>1, <2>2
<1> QED
  BY Zenon, <1>4, <1>5, <1>6, <1>7 DEF ConnectionInv
\* Every step preserves the invariant.
LEMMA NextInv == ConnectionInv /\ [Next]_vars => ConnectionInv'
<1> SUFFICES ASSUME ConnectionInv, [Next]_vars PROVE ConnectionInv'
  BY Zenon
<1>1. CASE StartNew
  BY Zenon, <1>1, StartNewInv
<1>2. CASE StartAgain
  <2>1. client \in Clients /\ orphans[client] \in Nat
    BY Zenon, <1>2 DEF ConnectionInv, TypeOK, ClientsAreSettled, StartAgain
  <2> QED
    BY Zenon, <1>2, <2>1, ReconnectInv DEF StartAgain
<1>3. CASE Stop
  BY Zenon, <1>3, StopInv
<1>4. ASSUME NEW c \in Clients, RunReconnect(c) PROVE ConnectionInv'
  BY Zenon, <1>4, RunReconnectInv
<1>5. ASSUME NEW s \in Sockets, Callback(s) PROVE ConnectionInv'
  BY Zenon, <1>5, OnOpenInv, DisconnectedInv DEF Callback
<1>6. ASSUME NEW s \in Sockets, Scheduling(s) PROVE ConnectionInv'
  BY Zenon, <1>6, SchedulingInv
<1>7. CASE UNCHANGED vars
  BY Zenon, <1>7 DEF vars, ConnectionInv, TypeOK, ClientsAreSettled, NoLeakedSocket,
              NeverStranded, FreeSocket, Alive
<1> QED
  BY Zenon, <1>1, <1>2, <1>3, <1>4, <1>5, <1>6, <1>7 DEF Next, Manager

\* The invariant holds in every reachable state.
THEOREM Invariance == Spec => []ConnectionInv
BY InitInv, NextInv, PTL DEF Spec

\* The fields keep their types: start(), stop(), the callbacks of
\* SignalWebSocket and its reconnect runnable, in any interleaving.
THEOREM TypeCorrect == Spec => []TypeOK
<1>1. ConnectionInv => TypeOK
  BY Zenon DEF ConnectionInv
<1> QED
  BY <1>1, Invariance, PTL

\* connect() and stop() close every socket they replace: with any number of
\* clients and sockets only the running client's socket is left open.
THEOREM NoSocketLeaks == Spec => []NoLeakedSocket
<1>1. ConnectionInv => NoLeakedSocket
  BY Zenon DEF ConnectionInv
<1> QED
  BY <1>1, Invariance, PTL

\* scheduleReconnect() leaves no running client without a callback, a thread
\* or a runnable that will reconnect it, however its three steps interleave.
THEOREM NobodyStranded == Spec => []NeverStranded
<1>1. ConnectionInv => NeverStranded
  BY Zenon DEF ConnectionInv
<1> QED
  BY <1>1, Invariance, PTL

\* Only a running manager's client is asked to connect: the manualDisconnect
\* check of the runnable is enough, whatever is still posted after stop().
THEOREM StopIsFinal == Spec => StoppedStaysStopped
<1> DEFINE Opens == \A s \in Sockets :
       (phase'[s] = "connecting" /\ phase[s] # "connecting") => isRunning'
<1>1. ConnectionInv /\ [Next]_vars => [Opens]_vars
  <2> SUFFICES ASSUME ConnectionInv, [Next]_vars PROVE Opens \/ UNCHANGED vars
    BY Zenon
  <2>1. CASE StartNew \/ StartAgain
    BY <2>1 DEF StartNew, StartAgain, managerVars
  <2>2. CASE Stop
    BY Zenon, <2>2 DEF Stop
  <2>3. ASSUME NEW c \in Clients, RunReconnect(c) PROVE Opens
    BY Zenon, <2>3 DEF RunReconnect, ConnectionInv, ClientsAreSettled, managerVars, socketVars
  <2>4. ASSUME NEW s \in Sockets, Callback(s) PROVE Opens
    BY Zenon, <2>4 DEF Callback, OnOpen, OnClosing, OnClosed, OnFailure, ConnectionInv, TypeOK
  <2>5. ASSUME NEW s \in Sockets, Scheduling(s) PROVE Opens
    BY Zenon, <2>5 DEF Scheduling, RemoveOldRunnable, PostRunnable, socketVars
  <2> QED
    BY Zenon, <2>1, <2>2, <2>3, <2>4, <2>5 DEF Next, Manager
<1> QED
  BY <1>1, Invariance, PTL DEF Spec, StoppedStaysStopped

\* Every client but the running one has been told to disconnect for good and has
\* let its socket go: stop() and the next start() leave nothing half-connected.
THEOREM ClientsSettle == Spec => []ClientsAreSettled
<1>1. ConnectionInv => ClientsAreSettled
  BY Zenon DEF ConnectionInv
<1> QED
  BY <1>1, Invariance, PTL

-----------------------------------------------------------------------------
(* The service: SyncService *)

\* The inductive invariant.  SyncNeverForgotten alone is not: a process that dies
\* while sync runs takes isRunning and the posted stops with it, and SurvivesKill
\* says what is left.
Counts == /\ commands \in Nat /\ lateCommands \in Nat
          /\ stops \in Nat /\ lateStops \in Nat

ServiceInv == /\ Counts
              /\ SyncNeverForgotten
              /\ SurvivesKill
              /\ PollingSurvivesKill

\* After start() sync is on, by whichever way through it.
LEMMA StartTurnsOn == Start => isRunning'
BY DEF Start, StartNew, StartAgain, managerVars, vars

\* The connection's own steps leave isRunning alone.
LEMMA ConnectionKeepsRunning == Connection => UNCHANGED isRunning
BY Zenon DEF Connection, RunReconnect, Callback, Scheduling, OnOpen, OnClosing,
       OnClosed, OnFailure, ReportDisconnected, RemoveOldRunnable,
       PostRunnable, managerVars

\* Every step preserves the invariant.
LEMMA ServiceNextInv == ServiceInv /\ [ServiceNext]_allVars => ServiceInv'
<1> SUFFICES ASSUME ServiceInv, [ServiceNext]_allVars PROVE ServiceInv'
  BY Zenon
<1> USE DEF ServiceInv, Counts, SyncNeverForgotten, SurvivesKill, PollingSurvivesKill
<1>1. CASE OnStartCommand
  <2>1. Counts'
    BY <1>1 DEF OnStartCommand, TakeCommand, PostStop
  <2>2. isRunning'
    BY Zenon, <1>1, StartTurnsOn DEF OnStartCommand
  <2>3. SurvivesKill' /\ PollingSurvivesKill'
    <3>1. CASE intervalMins > 0 /\ UNCHANGED <<alarm, abandoned>>
      BY Zenon, <1>1, <3>1 DEF OnStartCommand
    <3>2. CASE intervalMins = 0 /\ abandoned' = ~started
      <4>1. ~(intervalMins' > 0)
        BY <1>1, <3>2 DEF OnStartCommand
      <4> QED
        BY Zenon, <1>1, <3>2, <4>1 DEF OnStartCommand
    <3> QED
      BY Zenon, <1>1, <3>1, <3>2 DEF OnStartCommand
  <2> QED
    BY Zenon, <2>1, <2>2, <2>3
<1>2. CASE PollingStop
  <2>1. Counts'
    BY <1>2 DEF PollingStop, StopSelf, StopSelfAgain
  <2>2. alarm'
    BY <1>2 DEF PollingStop
  <2> QED
    BY Zenon, <2>1, <2>2
<1>3. CASE AlarmFires \/ HomeCreated \/ HomeResumed \/ ChooseInterval
  <2>1. StartService
    BY Zenon, <1>3 DEF AlarmFires, HomeCreated, HomeResumed, ChooseInterval
  <2>2. UNCHANGED <<stops, lateStops>>
    BY Zenon, <1>3 DEF AlarmFires, HomeCreated, HomeResumed, ChooseInterval
  <2> QED
    BY <2>1, <2>2 DEF StartService
<1>4. CASE ChatOpened
  <2>1. isRunning'
    BY Zenon, <1>4, StartTurnsOn DEF ChatOpened
  <2> QED
    BY Zenon, <1>4, <2>1 DEF ChatOpened, serviceVars
<1>5. CASE ProcessDies \/ Reboot
  <2>1. CASE ProcessDies
    BY <2>1 DEF ProcessDies, LoseProcess
  <2>2. CASE Reboot
    BY <2>2 DEF Reboot, LoseProcess
  <2> QED
    BY Zenon, <1>5, <2>1, <2>2
<1>6. CASE Connection
  BY Zenon, <1>6, ConnectionKeepsRunning DEF Connection, serviceVars
<1>7. CASE UNCHANGED allVars
  BY Zenon, <1>7 DEF allVars, vars, serviceVars
<1> QED
  BY Zenon, <1>1, <1>2, <1>3, <1>4, <1>5, <1>6, <1>7 DEF ServiceNext

\* The invariant holds in every reachable state of the service.
LEMMA ServiceInvariance == ServiceSpec => []ServiceInv
<1>1. ServiceInit => ServiceInv
  BY DEF ServiceInit, ServiceInv, Counts, SyncNeverForgotten, SurvivesKill,
         PollingSurvivesKill
<1> QED
  BY <1>1, ServiceNextInv, PTL DEF ServiceSpec

\* Sync is on or Android holds what starts it again: a command, a runnable or the
\* alarm that SyncService and SyncReceiver leave to each other; except after a
\* stopSelf() that came ahead of the command for persistent mode.
THEOREM NeverForgotten == ServiceSpec => []SyncNeverForgotten
<1>1. ServiceInv => SyncNeverForgotten
  BY Zenon DEF ServiceInv
<1> QED
  BY <1>1, ServiceInvariance, PTL

\* What survives the process is enough to start sync again, with the same
\* exception: a started service is sticky, and whatever stops it sets the alarm.
THEOREM KillsAreSurvived == ServiceSpec => []SurvivesKill
<1>1. ServiceInv => SurvivesKill
  BY Zenon DEF ServiceInv
<1> QED
  BY <1>1, ServiceInvariance, PTL

\* In polling mode there is no exception: stopSelf() comes with the alarm, and only
\* persistent mode cancels that.
THEOREM PollingIsSafe == ServiceSpec => []PollingSurvivesKill
<1>1. ServiceInv => PollingSurvivesKill
  BY Zenon DEF ServiceInv
<1> QED
  BY <1>1, ServiceInvariance, PTL

\* A step of the service is a step of the connection, or leaves the connection
\* alone, or brings it back to where a new process begins.
LEMMA ServiceSteps == [ServiceNext]_allVars => [Next]_vars \/ Init'
<1> SUFFICES ASSUME [ServiceNext]_allVars PROVE [Next]_vars \/ Init'
  BY Zenon
<1>1. Start => [Next]_vars
  BY Zenon DEF Start, Next, Manager
<1>2. CASE OnStartCommand \/ HomeResumed \/ ChatOpened
  BY Zenon, <1>1, <1>2 DEF OnStartCommand, HomeResumed, ChatOpened
<1>3. CASE PollingStop
  BY Zenon, <1>3 DEF PollingStop, Next, Manager
<1>4. CASE AlarmFires \/ HomeCreated \/ ChooseInterval
  BY Zenon, <1>4 DEF AlarmFires, HomeCreated, ChooseInterval
<1>5. CASE ProcessDies \/ Reboot
  BY Zenon, <1>5 DEF ProcessDies, Reboot, LoseProcess, Init
<1>6. CASE Connection
  BY Zenon, <1>6 DEF Connection, Next
<1>7. CASE UNCHANGED allVars
  BY Zenon, <1>7 DEF allVars
<1> QED
  BY Zenon, <1>2, <1>3, <1>4, <1>5, <1>6, <1>7 DEF ServiceNext

\* What is proved of the connection holds with the service around it as well.
LEMMA ConnectionInvariance == ServiceSpec => []ConnectionInv
<1>1. ServiceInit => ConnectionInv
  BY Zenon, InitInv DEF ServiceInit
<1>2. ConnectionInv /\ [ServiceNext]_allVars => ConnectionInv'
  <2>1. Init' => ConnectionInv'
    BY InitInv, PTL
  <2> QED
    BY Zenon, <2>1, NextInv, ServiceSteps
<1> QED
  BY <1>1, <1>2, PTL DEF ServiceSpec

\* With the service starting, stopping, dying and rebooting around it, the
\* connection still leaks no socket and is never stranded.
THEOREM ConnectionStaysSound ==
  ServiceSpec => []NoLeakedSocket /\ []NeverStranded
<1>1. ConnectionInv => NoLeakedSocket /\ NeverStranded
  BY Zenon DEF ConnectionInv
<1> QED
  BY <1>1, ConnectionInvariance, PTL

\* Commands and runnables stay within what may be queued, and the preference is
\* one the dialog offers, through deaths and reboots.
THEOREM ServiceTypeCorrect == ServiceSpec => []ServiceTypeOK
<1> DEFINE Queues == /\ intervalMins \in Intervals
                     /\ Counts
                     /\ commands + lateCommands <= MaxQueued
                     /\ stops + lateStops <= MaxQueued
           Flags == alarm \in BOOLEAN /\ started \in BOOLEAN /\ abandoned \in BOOLEAN
<1>1. ServiceInit => Queues
  BY ServiceAssumption DEF ServiceAssumption, ServiceInit, Counts
<1>2. ServiceInit => Flags
  BY Zenon DEF ServiceInit
<1>3. Queues /\ [ServiceNext]_allVars => Queues'
  <2> SUFFICES ASSUME Queues, [ServiceNext]_allVars PROVE Queues'
    BY Zenon
  <2> USE ServiceAssumption DEF ServiceAssumption, Counts
  <2>1. CASE OnStartCommand
    BY <2>1 DEF OnStartCommand, TakeCommand, PostStop
  <2>2. CASE PollingStop
    BY <2>2 DEF PollingStop, StopSelf, StopSelfAgain
  <2>3. CASE AlarmFires \/ HomeCreated \/ HomeResumed \/ ChooseInterval
    BY <2>3 DEF AlarmFires, HomeCreated, HomeResumed, ChooseInterval, StartService
  <2>4. CASE ProcessDies \/ Reboot
    BY <2>4 DEF ProcessDies, Reboot, LoseProcess
  <2>5. CASE ChatOpened \/ Connection \/ UNCHANGED allVars
    BY Zenon, <2>5 DEF ChatOpened, Connection, serviceVars, allVars, Counts
  <2> QED
    BY Zenon, <2>1, <2>2, <2>3, <2>4, <2>5 DEF ServiceNext
<1>4. Flags /\ [ServiceNext]_allVars => Flags'
  <2> SUFFICES ASSUME Flags, [ServiceNext]_allVars PROVE Flags'
    BY Zenon
  <2>1. CASE OnStartCommand
    BY Zenon, <2>1 DEF OnStartCommand
  <2>2. CASE PollingStop \/ Reboot
    BY Zenon, <2>2 DEF PollingStop, StopSelf, StopSelfAgain, Reboot
  <2>3. CASE AlarmFires \/ HomeCreated \/ HomeResumed \/ ChooseInterval \/ ProcessDies
    BY Zenon, <2>3 DEF AlarmFires, HomeCreated, HomeResumed, ChooseInterval, ProcessDies,
                       StartService
  <2>4. CASE ChatOpened \/ Connection \/ UNCHANGED allVars
    BY Zenon, <2>4 DEF ChatOpened, Connection, serviceVars, allVars
  <2> QED
    BY Zenon, <2>1, <2>2, <2>3, <2>4 DEF ServiceNext
<1>5. ConnectionInv /\ Queues /\ Flags => ServiceTypeOK
  BY ServiceAssumption DEF ServiceAssumption, ConnectionInv, ServiceTypeOK, Counts
<1> QED
  BY <1>1, <1>2, <1>3, <1>4, <1>5, ConnectionInvariance, PTL DEF ServiceSpec

-----------------------------------------------------------------------------
(* The inbox: Inbox *)

\* An id that was given to a thread of the contact, and whom ids belong to.
Own(id, c) == id \in 1 .. Len(ids) /\ ids[id] = c
OwnInv ==
  /\ \A c \in Contacts : threadId[c] # 0 => Own(threadId[c], c)
  /\ \A h \in Coroutines : job[h].at = "insert" => Own(job[h].thread, With[job[h].msg])
  /\ chat # Closed => /\ chat.thread # 0 => Own(chat.thread, chat.with)
                      /\ \A t \in chat.sending : With[t] = chat.with

RowsInv ==
  \A r \in rows : r.thread # 0 /\ r.thread = threadId[With[r.msg]]

ThreadInv == InboxTypeOK /\ OwnInv /\ RowsInv

-----------------------------------------------------------------------------
(* Types *)

\* What the place of a coroutine says about its record.
LEMMA JobFields ==
  ASSUME NEW j \in Jobs
  PROVE  /\ j # Idle => j.msg \in Messages /\ j.at # "idle"
         /\ j.at = "load" => j \in [at : {"load"}, msg : Messages]
         /\ j.at = "decrypt" => j \in [at : {"decrypt"}, msg : Messages, session : SUBSET Messages]
         /\ j.at = "lookup" => j \in [at : {"lookup"}, msg : Messages, text : Texts]
         /\ j.at \in {"create", "reload", "insert", "notify"} =>
              j \in [at : {"create", "reload", "insert", "notify"}, msg : Messages, text : Texts,
                     thread : Nat]
BY DEF Jobs, Idle

LEMMA ChatFields ==
  ASSUME NEW k \in Chats
  PROVE  /\ k # Closed => k \in [at : {"load", "create", "ready"}, with : Contacts, thread : Nat,
                                 sending : SUBSET Outgoing]
         /\ k = Closed <=> k.at = "closed"
         /\ k.sending \subseteq Outgoing
BY DEF Chats, Closed

LEMMA Inserted ==
  ASSUME NEW m, NEW t, NEW id, InsertMessage(m, t, id)
  PROVE  \/ rows' = rows
         \/ /\ ThreadExists(id)
            /\ \E k : rows' = rows \cup {[msg |-> m, text |-> t, thread |-> id, copy |-> k]}
BY Zenon DEF InsertMessage

LEMMA Created ==
  ASSUME InboxTypeOK, NEW c \in Contacts, InsertThread(c)
  PROVE  /\ ids' \in Seq(Contacts) /\ Len(ids') = Len(ids) + 1 /\ Len(ids) \in Nat
         /\ ids'[Len(ids')] = c /\ \A i \in 1 .. Len(ids) : ids'[i] = ids[i]
         /\ Len(ids') \in 1 .. Len(ids') /\ \A i \in 1 .. Len(ids) : i \in 1 .. Len(ids')
         /\ threadId' \in [Contacts -> Nat] /\ threadId'[c] = Len(ids')
         /\ \A o \in Contacts \ {c} : threadId'[o] = threadId[o]
<1>1. /\ ids' \in Seq(Contacts) /\ Len(ids') = Len(ids) + 1 /\ Len(ids) \in Nat
      /\ ids'[Len(ids')] = c /\ \A i \in 1 .. Len(ids) : ids'[i] = ids[i]
  BY DEF InsertThread, InboxTypeOK
<1>2. Len(ids') \in 1 .. Len(ids') /\ \A i \in 1 .. Len(ids) : i \in 1 .. Len(ids')
  BY <1>1
<1>3. Len(ids') \in Nat
  BY <1>1
<1> QED
  BY Zenon, <1>1, <1>2, <1>3 DEF InsertThread, InboxTypeOK

Handle(h) == \/ LoadSession(h) \/ Decrypt(h) \/ Lookup(h) \/ CreateThread(h)
             \/ Reload(h) \/ StoreMessage(h) \/ ShowNotification(h)

LEMMA HandleTypes ==
  ASSUME InboxTypeOK, NEW h \in Coroutines, Handle(h)
  PROVE  InboxTypeOK'
<1> USE DEF notHandler
<1>0. job[h] \in Jobs /\ job \in [Coroutines -> Jobs]
  BY Zenon DEF InboxTypeOK
<1>c. job[h] # Idle => With[job[h].msg] \in Contacts
  BY Zenon, <1>0, JobFields, InboxAssumption DEF InboxAssumption
<1>1. ASSUME NEW j \in Jobs, job' = [job EXCEPT ![h] = j] PROVE job' \in [Coroutines -> Jobs]
  BY Zenon, <1>0, <1>1
<1>2. CASE LoadSession(h)
  <2>1. [at |-> "decrypt", msg |-> job[h].msg, session |-> consumed] \in Jobs
    BY Zenon, <1>0, <1>2, JobFields DEF LoadSession, InboxTypeOK, Jobs
  <2> QED
    BY Zenon, <1>1, <1>2, <2>1 DEF LoadSession, InboxTypeOK
<1>3. CASE Decrypt(h)
  <2>0. job[h].msg \in Messages
    BY Zenon, <1>0, <1>3, JobFields DEF Decrypt
  <2>1. consumed' \subseteq Messages
    BY <1>0, <1>3, JobFields DEF Decrypt, StoreSession, InboxTypeOK
  <2>2. job' \in [Coroutines -> Jobs]
    <3>1. /\ [at |-> "lookup", msg |-> job[h].msg, text |-> "plain"] \in Jobs
          /\ [at |-> "lookup", msg |-> job[h].msg, text |-> "failed"] \in Jobs
          /\ Idle \in Jobs
      BY Zenon, <2>0 DEF Jobs, Texts
    <3> QED
      BY Zenon, <1>1, <1>3, <3>1 DEF Decrypt
  <2> QED
    BY Zenon, <1>3, <2>1, <2>2 DEF Decrypt, InboxTypeOK
<1>4. CASE Lookup(h)
  <2>1. /\ [at |-> "create", msg |-> job[h].msg, text |-> job[h].text,
            thread |-> threadId[With[job[h].msg]]] \in Jobs
        /\ [at |-> "insert", msg |-> job[h].msg, text |-> job[h].text,
            thread |-> threadId[With[job[h].msg]]] \in Jobs
    <3>1. job[h] \in [at : {"lookup"}, msg : Messages, text : Texts]
      BY Zenon, <1>0, <1>4, JobFields DEF Lookup
    <3>2. threadId[With[job[h].msg]] \in Nat
      BY Zenon, <3>1, InboxAssumption DEF InboxAssumption, InboxTypeOK
    <3> QED
      BY Zenon, <3>1, <3>2 DEF Jobs
  <2> QED
    BY Zenon, <1>1, <1>4, <2>1 DEF Lookup, InboxTypeOK
<1>5. CASE Reload(h)
  <2>1. [job[h] EXCEPT !.at = "insert", !.thread = threadId[With[job[h].msg]]] \in Jobs /\ Idle \in Jobs
    <3>1. job[h] \in [at : {"create", "reload", "insert", "notify"}, msg : Messages, text : Texts,
                       thread : Nat]
      BY Zenon, <1>0, <1>5, JobFields DEF Reload
    <3>2. threadId[With[job[h].msg]] \in Nat
      BY Zenon, <3>1, InboxAssumption DEF InboxAssumption, InboxTypeOK
    <3> QED
      BY Zenon, <3>1, <3>2 DEF Jobs
  <2> QED
    BY Zenon, <1>1, <1>5, <2>1 DEF Reload, InboxTypeOK
<1>6. CASE CreateThread(h)
  <2>1. [job[h] EXCEPT !.at = "reload"] \in Jobs /\ Idle \in Jobs
    BY Zenon, <1>0, <1>6, JobFields DEF CreateThread, Jobs
  <2>2. job' \in [Coroutines -> Jobs]
    BY Zenon, <1>0, <1>6, <2>1 DEF CreateThread
  <2>3. ids' \in Seq(Contacts) /\ threadId' \in [Contacts -> Nat]
    <3>1. With[job[h].msg] \in Contacts
      BY <1>c, <1>6 DEF CreateThread, Idle
    <3> QED
      BY Zenon, <1>6, <3>1, Created DEF CreateThread, InboxTypeOK
  <2> QED
    BY Zenon, <1>6, <2>2, <2>3 DEF CreateThread, InboxTypeOK
<1>7. CASE StoreMessage(h)
  <2>1. [job[h] EXCEPT !.at = "notify"] \in Jobs
    BY Zenon, <1>0, <1>7, JobFields DEF StoreMessage, Jobs
  <2>2. job' \in [Coroutines -> Jobs]
    BY Zenon, <1>0, <1>7, <2>1 DEF StoreMessage
  <2>3. \A r \in rows' : r.msg \in Messages \cup Outgoing
    <3>1. job[h].msg \in Messages
      BY Zenon, <1>0, <1>7, JobFields DEF StoreMessage
    <3>2. InsertMessage(job[h].msg, job[h].text, job[h].thread)
      BY Zenon, <1>7 DEF StoreMessage
    <3> QED
      BY <3>1, <3>2, Inserted DEF InboxTypeOK
  <2> QED
    BY Zenon, <1>7, <2>2, <2>3 DEF StoreMessage, InboxTypeOK
<1>8. CASE ShowNotification(h)
  BY Zenon, <1>1, <1>8 DEF ShowNotification, InboxTypeOK, Jobs
<1> QED
  BY Zenon, <1>2, <1>3, <1>4, <1>5, <1>6, <1>7, <1>8 DEF Handle

Around == \/ StartSync \/ StopSync \/ Flush \/ InboxProcessDies
          \/ \E msg \in Messages : OnMessage(msg)
Chatting == \/ \E c \in Contacts : OpenChat(c)
            \/ ChatLookup \/ ChatCreate \/ CloseChat
            \/ \E text \in Outgoing : PressSend(text) \/ StoreSent(text) \/ SendFails(text)
            \/ \E r \in rows : DeleteMessage(r)

LEMMA NextMeans == InboxNext <=> Around \/ Chatting \/ \E h \in Coroutines : Handle(h)
BY Zenon DEF InboxNext, Around, Chatting, Handle

LEMMA AroundTypes == InboxTypeOK /\ (Around \/ UNCHANGED inboxVars) => InboxTypeOK'
<1> SUFFICES ASSUME InboxTypeOK, Around \/ UNCHANGED inboxVars PROVE InboxTypeOK'
  BY Zenon
<1>1. CASE StartSync \/ StopSync \/ Flush \/ UNCHANGED inboxVars
  BY Zenon, <1>1 DEF StartSync, StopSync, Flush, inboxVars, tables, InboxTypeOK
<1>2. CASE InboxProcessDies
  BY Zenon, <1>2 DEF InboxProcessDies, tables, InboxTypeOK, Jobs, Chats
<1>3. ASSUME NEW msg \in Messages, OnMessage(msg) PROVE InboxTypeOK'
  <2>1. [at |-> "load", msg |-> msg] \in Jobs
    BY Zenon DEF Jobs
  <2>2. job' \in [Coroutines -> Jobs]
    BY Zenon, <1>3, <2>1 DEF OnMessage, InboxTypeOK
  <2> QED
    BY Zenon, <1>3, <2>2 DEF OnMessage, tables, InboxTypeOK
<1> QED
  BY Zenon, <1>1, <1>2, <1>3 DEF Around

LEMMA ChatTypes == InboxTypeOK /\ Chatting => InboxTypeOK'
<1> SUFFICES ASSUME InboxTypeOK, Chatting PROVE InboxTypeOK'
  BY Zenon
<1> USE DEF notChat
<1>0. chat \in Chats
  BY Zenon DEF InboxTypeOK
<1>1. ASSUME NEW c \in Contacts, OpenChat(c) PROVE InboxTypeOK'
  <2>1. \A id \in {0} \cup DOMAIN ids :
          [at |-> "load", with |-> c, thread |-> id, sending |-> {}] \in Chats
    BY DEF Chats, InboxTypeOK
  <2> QED
    BY Zenon, <1>1, <2>1 DEF OpenChat, InboxTypeOK
<1>2. CASE ChatLookup
  <2>1. chat \in [at : {"load", "create", "ready"}, with : Contacts, thread : Nat,
                  sending : SUBSET Outgoing]
    BY Zenon, <1>0, <1>2, ChatFields DEF ChatLookup
  <2>2. threadId[chat.with] \in Nat
    BY Zenon, <2>1 DEF InboxTypeOK
  <2>3. chat' \in Chats
    BY Zenon, <1>2, <2>1, <2>2 DEF ChatLookup, Chats
  <2> QED
    BY Zenon, <1>2, <2>3 DEF ChatLookup, InboxTypeOK
<1>3. CASE ChatCreate
  <2>1. chat \in [at : {"load", "create", "ready"}, with : Contacts, thread : Nat,
                  sending : SUBSET Outgoing]
    BY Zenon, <1>0, <1>3, ChatFields DEF ChatCreate
  <2>2. CASE InsertThread(chat.with) /\ chat' = [chat EXCEPT !.at = "ready", !.thread = Len(ids')]
             /\ UNCHANGED <<notChat, rows, unsent>>
    <3>1. ids' \in Seq(Contacts) /\ threadId' \in [Contacts -> Nat] /\ Len(ids') \in Nat
      BY <2>1, <2>2, Created
    <3>2. chat' \in Chats
      BY Zenon, <2>1, <2>2, <3>1 DEF Chats
    <3> QED
      BY Zenon, <2>2, <3>1, <3>2 DEF InboxTypeOK
  <2> QED
    BY Zenon, <1>3, <2>2, AroundTypes DEF ChatCreate, Around
<1>4. CASE CloseChat
  BY Zenon, <1>4 DEF CloseChat, InboxTypeOK, Chats
<1>5. ASSUME NEW text \in Outgoing, PressSend(text) \/ StoreSent(text) \/ SendFails(text)
      PROVE  InboxTypeOK'
  <2>1. chat \in [at : {"load", "create", "ready"}, with : Contacts, thread : Nat,
                  sending : SUBSET Outgoing]
    BY <1>0, <1>5, ChatFields DEF PressSend, StoreSent, SendFails, Closed
  <2>2. chat' \in Chats
    BY <1>5, <2>1 DEF PressSend, StoreSent, SendFails, Chats
  <2>3. \A r \in rows' : r.msg \in Messages \cup Outgoing
    BY <1>5, Inserted DEF PressSend, StoreSent, SendFails, InboxTypeOK
  <2> QED
    BY Zenon, <1>5, <2>2, <2>3 DEF PressSend, StoreSent, SendFails, InboxTypeOK
<1>6. ASSUME NEW r \in rows, DeleteMessage(r) PROVE InboxTypeOK'
  BY Zenon, <1>6 DEF DeleteMessage, InboxTypeOK
<1> QED
  BY Zenon, <1>1, <1>2, <1>3, <1>4, <1>5, <1>6 DEF Chatting

LEMMA TypesNext == InboxTypeOK /\ [InboxNext]_inboxVars => InboxTypeOK'
BY Zenon, HandleTypes, AroundTypes, ChatTypes, NextMeans

-----------------------------------------------------------------------------
(* Threads *)

\* Ids are not given out again.
LEMMA OwnStays ==
  ASSUME InboxTypeOK, NEW id, NEW c \in Contacts, Own(id, c),
         UNCHANGED ids \/ \E o \in Contacts : InsertThread(o)
  PROVE  Own(id, c)'
BY Zenon, Created DEF Own

LEMMA ThreadsCreated ==
  ASSUME InboxTypeOK, OwnInv, RowsInv, NEW c \in Contacts, InsertThread(c), UNCHANGED rows
  PROVE  /\ \A o \in Contacts : (threadId[o] # 0 => Own(threadId[o], o))'
         /\ RowsInv' /\ Own(Len(ids), c)'
<1>1. Own(Len(ids), c)' /\ threadId'[c] = Len(ids')
  BY Zenon, Created DEF Own
<1>2. \A o \in Contacts : (threadId[o] # 0 => Own(threadId[o], o))'
  <2>1. SUFFICES ASSUME NEW o \in Contacts, threadId'[o] # 0 PROVE Own(threadId[o], o)'
    BY Zenon
  <2>2. CASE o # c
    <3>1. Own(threadId[o], o) /\ threadId'[o] = threadId[o]
      BY Zenon, <2>1, <2>2, Created DEF OwnInv
    <3> QED
      BY Zenon, <3>1, Created DEF Own
  <2> QED
    BY Zenon, <1>1, <2>2
<1>3. \A r \in rows : With[r.msg] # c
  BY Zenon DEF InsertThread, InsertThreadFails, Referenced, RowsInv
<1>4. RowsInv'
  <2> SUFFICES ASSUME NEW r \in rows PROVE r.thread # 0 /\ r.thread = threadId'[With[r.msg]]
    BY Zenon DEF RowsInv
  <2>1. With[r.msg] \in Contacts \ {c}
    BY Zenon, <1>3, InboxAssumption DEF InboxAssumption, InboxTypeOK
  <2> QED
    BY Zenon, <2>1, Created DEF RowsInv
<1> QED
  BY Zenon, <1>1, <1>2, <1>4

\* A message is stored under an id of its contact only while that is the id.
LEMMA RowStored ==
  ASSUME InboxTypeOK, OwnInv, RowsInv, NEW m \in Messages \cup Outgoing, NEW t, NEW id,
         id # 0 => Own(id, With[m]), InsertMessage(m, t, id), UNCHANGED threadId
  PROVE  RowsInv'
<1>1. CASE rows' = rows
  BY Zenon, <1>1 DEF RowsInv
<1>2. CASE ThreadExists(id) /\ \E k : rows' = rows \cup {[msg |-> m, text |-> t, thread |-> id, copy |-> k]}
  <2>1. id # 0 /\ id = threadId[With[m]]
    BY Zenon, <1>2 DEF ThreadExists, OwnInv, Own
  <2> QED
    BY <1>2, <2>1 DEF RowsInv
<1> QED
  BY Zenon, <1>1, <1>2, Inserted

LEMMA HandleThreads ==
  ASSUME ThreadInv, NEW h \in Coroutines, Handle(h)
  PROVE  OwnInv' /\ RowsInv'
<1> USE DEF notHandler
<1>0. /\ InboxTypeOK /\ OwnInv /\ RowsInv /\ job[h] \in Jobs /\ job[h] # Idle
      /\ UNCHANGED chat /\ chat \in Chats
  BY DEF ThreadInv, InboxTypeOK, Handle, LoadSession, Decrypt, Lookup, CreateThread, Reload,
         StoreMessage, ShowNotification, Idle
<1>1. job[h].msg \in Messages /\ With[job[h].msg] \in Contacts
  BY Zenon, <1>0, JobFields, InboxAssumption DEF InboxAssumption
<1>2. \A g \in Coroutines \ {h} : job'[g] = job[g]
  BY Zenon, <1>0 DEF Handle, LoadSession, Decrypt, Lookup, CreateThread, Reload, StoreMessage,
              ShowNotification, InboxTypeOK
<1>3. ASSUME UNCHANGED <<threadId, ids>>,
             job'[h].at = "insert" => Own(job'[h].thread, With[job'[h].msg])
      PROVE  OwnInv'
  BY Zenon, <1>0, <1>2, <1>3 DEF OwnInv, Own
<1>4. CASE LoadSession(h) \/ ShowNotification(h)
  BY <1>0, <1>3, <1>4 DEF LoadSession, ShowNotification, InboxTypeOK, RowsInv, Idle
<1>5. CASE Decrypt(h)
  BY Zenon, <1>0, <1>3, <1>5 DEF Decrypt, InboxTypeOK, RowsInv, Idle
<1>6. CASE Lookup(h)
  <2>1. job'[h].at = "insert" => job'[h].thread = threadId[With[job[h].msg]] /\ job'[h].thread # 0
                                 /\ job'[h].msg = job[h].msg
    BY Zenon, <1>0, <1>6 DEF Lookup, InboxTypeOK
  <2> QED
    BY Zenon, <1>0, <1>1, <1>3, <1>6, <2>1 DEF Lookup, OwnInv, RowsInv
<1>7. CASE Reload(h)
  <2>1. job[h] \in [at : {"create", "reload", "insert", "notify"}, msg : Messages, text : Texts,
                    thread : Nat]
    BY Zenon, <1>0, <1>7, JobFields DEF Reload
  <2>2. job'[h].at = "insert" => job'[h].thread = threadId[With[job[h].msg]] /\ job'[h].thread # 0
                                 /\ job'[h].msg = job[h].msg
    BY Zenon, <1>0, <1>7, <2>1 DEF Reload, InboxTypeOK, Idle
  <2> QED
    BY Zenon, <1>0, <1>1, <1>3, <1>7, <2>2 DEF Reload, OwnInv, RowsInv
<1>8. CASE CreateThread(h)
  <2>1. job[h] \in [at : {"create", "reload", "insert", "notify"}, msg : Messages, text : Texts,
                    thread : Nat]
    BY Zenon, <1>0, <1>8, JobFields DEF CreateThread
  <2>2. job'[h].at # "insert"
    BY <1>0, <1>8, <2>1 DEF CreateThread, InboxTypeOK, Idle
  <2>3. CASE InsertThread(With[job[h].msg])
    <3>1. /\ \A o \in Contacts : (threadId[o] # 0 => Own(threadId[o], o))'
          /\ RowsInv'
      BY Zenon, <1>0, <1>1, <1>8, <2>3, ThreadsCreated DEF CreateThread
    <3>2. \A g \in Coroutines : (job[g].at = "insert" => Own(job[g].thread, With[job[g].msg]))'
      <4>1. SUFFICES ASSUME NEW g \in Coroutines, job'[g].at = "insert"
                     PROVE  Own(job[g].thread, With[job[g].msg])'
        BY Zenon
      <4>2. job'[g] = job[g] /\ Own(job[g].thread, With[job[g].msg])
        BY Zenon, <1>0, <1>2, <2>2, <4>1 DEF OwnInv
      <4> QED
        BY <1>0, <1>1, <2>3, <4>2, Created DEF Own
    <3>3. (chat # Closed => /\ chat.thread # 0 => Own(chat.thread, chat.with)
                            /\ \A t \in chat.sending : With[t] = chat.with)'
      BY Zenon, <1>0, <1>1, <2>3, Created DEF OwnInv, Own
    <3> QED
      BY Zenon, <3>1, <3>2, <3>3 DEF OwnInv
  <2>4. CASE UNCHANGED <<threadId, ids>>
    BY Zenon, <1>0, <1>3, <1>8, <2>2, <2>4 DEF CreateThread, RowsInv
  <2> QED
    BY Zenon, <1>8, <2>3, <2>4 DEF CreateThread
<1>9. CASE StoreMessage(h)
  <2>1. job[h] \in [at : {"create", "reload", "insert", "notify"}, msg : Messages, text : Texts,
                    thread : Nat]
    BY Zenon, <1>0, <1>9, JobFields DEF StoreMessage
  <2>2. job'[h].at # "insert"
    BY Zenon, <1>0, <1>9, <2>1 DEF StoreMessage, InboxTypeOK
  <2>3. RowsInv'
    BY Zenon, <1>0, <1>1, <1>9, RowStored DEF StoreMessage, OwnInv
  <2> QED
    BY Zenon, <1>3, <1>9, <2>2, <2>3 DEF StoreMessage
<1> QED
  BY Zenon, <1>4, <1>5, <1>6, <1>7, <1>8, <1>9 DEF Handle

LEMMA AroundThreads == ThreadInv /\ (Around \/ UNCHANGED inboxVars) => OwnInv' /\ RowsInv'
<1> SUFFICES ASSUME InboxTypeOK, OwnInv, RowsInv, Around \/ UNCHANGED inboxVars PROVE OwnInv' /\ RowsInv'
  BY Zenon DEF ThreadInv
<1>1. UNCHANGED <<threadId, ids, rows>>
  BY Zenon DEF Around, StartSync, StopSync, Flush, InboxProcessDies, OnMessage, inboxVars, tables
<1>2. RowsInv'
  BY Zenon, <1>1 DEF RowsInv
<1>3. CASE StartSync \/ StopSync \/ Flush \/ UNCHANGED inboxVars
  <2>1. UNCHANGED <<job, chat>>
    BY Zenon, <1>3 DEF StartSync, StopSync, Flush, inboxVars
  <2> QED
    BY Zenon, <1>1, <1>2, <2>1 DEF OwnInv, Own
<1>4. CASE InboxProcessDies
  BY Zenon, <1>1, <1>2, <1>4 DEF InboxProcessDies, OwnInv, Own, Idle
<1>5. ASSUME NEW msg \in Messages, OnMessage(msg) PROVE OwnInv'
  <2>1. UNCHANGED chat /\ \A g \in Coroutines : job'[g] = job[g] \/ job'[g].at = "load"
    BY <1>5 DEF OnMessage, InboxTypeOK
  <2> QED
    BY Zenon, <1>1, <2>1 DEF OwnInv, Own
<1> QED
  BY Zenon, <1>2, <1>3, <1>4, <1>5 DEF Around

LEMMA ChatThreads == ThreadInv /\ Chatting => OwnInv' /\ RowsInv'
<1> SUFFICES ASSUME ThreadInv, Chatting PROVE OwnInv' /\ RowsInv'
  BY Zenon
<1> USE DEF notChat
<1>0. InboxTypeOK /\ OwnInv /\ RowsInv /\ chat \in Chats
  BY Zenon DEF ThreadInv, InboxTypeOK
<1>1. ASSUME UNCHANGED <<threadId, ids, job>>,
             (chat # Closed => /\ chat.thread # 0 => Own(chat.thread, chat.with)
                               /\ \A t \in chat.sending : With[t] = chat.with)'
      PROVE  OwnInv'
  BY Zenon, <1>0, <1>1 DEF OwnInv, Own
<1>2. ASSUME NEW c \in Contacts, OpenChat(c) PROVE OwnInv' /\ RowsInv'
  <2>1. PICK id \in {0} \cup {i \in DOMAIN ids : ids[i] = c} :
          chat' = [at |-> "load", with |-> c, thread |-> id, sending |-> {}]
    BY Zenon, <1>2 DEF OpenChat
  <2>2. id # 0 => Own(id, c)
    BY <1>0 DEF Own, InboxTypeOK
  <2> QED
    BY Zenon, <1>0, <1>1, <1>2, <2>1, <2>2 DEF OpenChat, Own, RowsInv
<1>3. CASE ChatLookup
  <2>1. chat \in [at : {"load", "create", "ready"}, with : Contacts, thread : Nat,
                  sending : SUBSET Outgoing] /\ chat # Closed
    BY Zenon, <1>0, <1>3, ChatFields DEF ChatLookup
  <2>2. /\ chat'.with = chat.with /\ chat'.sending = chat.sending
        /\ chat'.thread = IF chat.thread = 0 THEN threadId[chat.with] ELSE chat.thread
        /\ UNCHANGED <<threadId, ids, job, rows>>
    BY Zenon, <1>3, <2>1 DEF ChatLookup
  <2> QED
    BY Zenon, <1>0, <1>1, <2>1, <2>2 DEF OwnInv, Own, RowsInv
<1>4. CASE ChatCreate
  <2>1. chat \in [at : {"load", "create", "ready"}, with : Contacts, thread : Nat,
                  sending : SUBSET Outgoing] /\ chat # Closed
    BY Zenon, <1>0, <1>4, ChatFields DEF ChatCreate
  <2>2. CASE InsertThread(chat.with) /\ chat' = [chat EXCEPT !.at = "ready", !.thread = Len(ids')]
             /\ UNCHANGED <<notChat, rows, unsent>>
    <3>1. /\ \A o \in Contacts : (threadId[o] # 0 => Own(threadId[o], o))'
          /\ RowsInv'
          /\ Own(Len(ids), chat.with)'
      BY Zenon, <1>0, <2>1, <2>2, ThreadsCreated, Created DEF Own
    <3>2. \A g \in Coroutines : (job[g].at = "insert" => Own(job[g].thread, With[job[g].msg]))'
      <4>1. chat.with \in Contacts /\ UNCHANGED job
        BY Zenon, <2>1, <2>2
      <4> QED
        BY <1>0, <2>2, <4>1, Created DEF OwnInv, Own
    <3>3. chat'.thread = Len(ids') /\ chat'.with = chat.with /\ chat'.sending = chat.sending
      BY Zenon, <2>1, <2>2
    <3>4. (chat # Closed => /\ chat.thread # 0 => Own(chat.thread, chat.with)
                            /\ \A t \in chat.sending : With[t] = chat.with)'
      BY Zenon, <1>0, <2>1, <3>1, <3>3 DEF OwnInv, Own
    <3> QED
      BY Zenon, <3>1, <3>2, <3>4 DEF OwnInv
  <2> QED
    BY Zenon, <1>4, <2>2, AroundThreads DEF ChatCreate, Around
<1>5. CASE CloseChat
  BY Zenon, <1>0, <1>1, <1>5 DEF CloseChat, RowsInv
<1>6. ASSUME NEW text \in Outgoing, PressSend(text) \/ StoreSent(text) \/ SendFails(text)
      PROVE  OwnInv' /\ RowsInv'
  <2>1. chat \in [at : {"load", "create", "ready"}, with : Contacts, thread : Nat,
                  sending : SUBSET Outgoing] /\ chat # Closed
    BY <1>0, <1>6, ChatFields DEF PressSend, StoreSent, SendFails, Closed
  <2>2. /\ chat'.with = chat.with /\ chat'.thread = chat.thread
        /\ \A t \in chat'.sending : t \in chat.sending \/ With[t] = chat.with
        /\ UNCHANGED <<threadId, ids, job>>
    BY <1>6, <2>1 DEF PressSend, StoreSent, SendFails
  <2>3. OwnInv'
    BY Zenon, <1>0, <1>1, <2>1, <2>2 DEF OwnInv, Own
  <2>4. CASE StoreSent(text)
    <3>1. With[text] = chat.with /\ InsertMessage(text, "plain", chat.thread)
      BY Zenon, <1>0, <2>1, <2>4 DEF StoreSent, OwnInv
    <3> QED
      BY Zenon, <1>0, <2>1, <2>2, <2>3, <3>1, RowStored DEF OwnInv
  <2> QED
    BY Zenon, <1>0, <1>6, <2>3, <2>4 DEF PressSend, SendFails, RowsInv
<1>7. ASSUME NEW r \in rows, DeleteMessage(r) PROVE OwnInv' /\ RowsInv'
  BY Zenon, <1>0, <1>7 DEF DeleteMessage, OwnInv, Own, RowsInv
<1> QED
  BY Zenon, <1>2, <1>3, <1>4, <1>5, <1>6, <1>7 DEF Chatting

LEMMA ThreadsInit == InboxInit => ThreadInv
<1> SUFFICES ASSUME InboxInit PROVE ThreadInv
  BY Zenon
<1>1. InboxTypeOK
  BY DEF InboxInit, InboxTypeOK, Jobs, Chats
<1> QED
  BY Zenon, <1>1 DEF InboxInit, ThreadInv, OwnInv, RowsInv, Idle

LEMMA ThreadsNext == ThreadInv /\ [InboxNext]_inboxVars => ThreadInv'
BY Zenon, TypesNext, HandleThreads, AroundThreads, ChatThreads, NextMeans DEF ThreadInv

LEMMA ThreadsHold == InboxSpec => []ThreadInv
BY ThreadsInit, ThreadsNext, PTL DEF InboxSpec

\* Coroutines of BackgroundSyncManager and the open ChatActivity hold what they
\* need at each of their steps.
THEOREM InboxTypes == InboxSpec => []InboxTypeOK
BY ThreadsHold, PTL DEF ThreadInv

\* For any number of contacts, coroutines and thread rows: no race between
\* BackgroundSyncManager and ChatActivity over creating a thread leaves a stored
\* message outside the thread of its contact.
THEOREM StoredMessagesReachable == InboxSpec => []MessagesAreReachable
<1>1. ThreadInv => MessagesAreReachable
  BY Zenon DEF ThreadInv, RowsInv, MessagesAreReachable
<1> QED
  BY <1>1, ThreadsHold, PTL

-----------------------------------------------------------------------------
(* Repeated messages *)

\* A decrypted text that is on its way, and one that is stored.
Carries(h) == /\ job[h].at \in {"lookup", "create", "reload", "insert"}
              /\ job[h].text = "plain"
Kept(m) == \E r \in rows : r.msg = m /\ r.text = "plain"

\* While each session is held by one coroutine at a time, what a coroutine has
\* loaded is what is stored, and a text that was opened is opened for good.
LoadedIsStored ==
  \A h \in Coroutines : job[h].at = "decrypt" =>
    \A m \in Messages : With[m] = With[job[h].msg] => (m \in job[h].session <=> m \in consumed)
HeldByOne ==
  \A g, h \in Coroutines :
    job[g].at = "decrypt" /\ job[h].at = "decrypt" /\ With[job[g].msg] = With[job[h].msg] => g = h
KeptIsConsumed == \A m \in Messages : Kept(m) => m \in consumed
CarriedIsNew == \A h \in Coroutines : Carries(h) => job[h].msg \in consumed /\ ~Kept(job[h].msg)
CarriedByOne ==
  \A g, h \in Coroutines : Carries(g) /\ Carries(h) /\ job[g].msg = job[h].msg => g = h

SessionInv == LoadedIsStored /\ HeldByOne /\ KeptIsConsumed /\ CarriedIsNew /\ CarriedByOne

SentInv ==
  /\ unsent \cap chat.sending = {}
  /\ \A t \in unsent \cup chat.sending : ~Kept(t)

StoredOnce == \A r, s \in rows :
                (r.msg = s.msg /\ r.text = "plain" /\ s.text = "plain") => r = s

OnceInv == /\ InboxTypeOK /\ disturbed \in BOOLEAN
           /\ SentInv
           /\ ~disturbed => SessionInv /\ StoredOnce

\* Coroutines that only lose what they had, or go on with it.
LEMMA QuietSession ==
  ASSUME SessionInv, UNCHANGED consumed, rows' \subseteq rows,
         \A h \in Coroutines : /\ job'[h].at = "decrypt" => job'[h] = job[h]
                               /\ Carries(h)' => Carries(h) /\ job'[h].msg = job[h].msg
  PROVE  SessionInv'
<1>1. \A m : Kept(m)' => Kept(m)
  BY Zenon DEF Kept
<1>2. LoadedIsStored'
  BY Zenon DEF SessionInv, LoadedIsStored
<1>3. HeldByOne'
  BY DEF SessionInv, HeldByOne
<1>4. KeptIsConsumed'
  BY Zenon, <1>1 DEF SessionInv, KeptIsConsumed
<1>5. CarriedIsNew'
  <2> SUFFICES ASSUME NEW h \in Coroutines, Carries(h)'
               PROVE  job'[h].msg \in consumed' /\ ~Kept(job[h].msg)'
    BY Zenon DEF CarriedIsNew
  <2>1. job'[h].msg = job[h].msg /\ job[h].msg \in consumed /\ ~Kept(job[h].msg)
    BY Zenon DEF SessionInv, CarriedIsNew
  <2> QED
    BY Zenon, <2>1 DEF Kept
<1>6. CarriedByOne'
  BY Zenon DEF SessionInv, CarriedByOne
<1> QED
  BY Zenon, <1>2, <1>3, <1>4, <1>5, <1>6 DEF SessionInv

LEMMA FewerStored == StoredOnce /\ rows' \subseteq rows => StoredOnce'
BY Zenon DEF StoredOnce

LEMMA DecryptSession ==
  ASSUME InboxTypeOK, SessionInv, NEW h \in Coroutines, Decrypt(h)
  PROVE  SessionInv'
<1> USE DEF notHandler
<1> DEFINE msg == job[h].msg
           session == {m \in job[h].session : With[m] = With[msg]}
<1>1. /\ job[h] \in [at : {"decrypt"}, msg : Messages, session : SUBSET Messages]
      /\ job \in [Coroutines -> Jobs] /\ UNCHANGED rows /\ consumed \subseteq Messages
  BY Zenon, JobFields DEF Decrypt, InboxTypeOK
<1>2. \A g \in Coroutines \ {h} : job'[g] = job[g]
  BY Zenon, <1>1 DEF Decrypt
<1>3. \A m : Kept(m)' <=> Kept(m)
  BY Zenon, <1>1 DEF Kept
<1>4. CASE msg \in session
  <2>1. UNCHANGED consumed /\ job'[h] = [at |-> "lookup", msg |-> msg, text |-> "failed"]
    BY Zenon, <1>1, <1>4 DEF Decrypt
  <2>2. job'[h].at # "decrypt" /\ ~Carries(h)'
    BY <2>1 DEF Carries
  <2>3. \A g \in Coroutines \ {h} : Carries(g)' <=> Carries(g)
    BY Zenon, <1>2 DEF Carries
  <2> QED
    BY Zenon, <1>1, <1>2, <2>1, <2>2, <2>3, QuietSession
<1>5. CASE msg \notin session
  <2>0. /\ LoadedIsStored /\ HeldByOne /\ KeptIsConsumed /\ CarriedIsNew /\ CarriedByOne
        /\ job[h].at = "decrypt"
    BY Zenon, <1>1 DEF SessionInv
  <2>1. msg \in Messages /\ msg \notin consumed
    BY Zenon, <1>1, <1>5, <2>0 DEF LoadedIsStored
  <2>2. consumed' = {m \in consumed : With[m] # With[msg]} \cup session \cup {msg}
    BY Zenon, <1>5 DEF Decrypt, StoreSession
  <2>3. \A m : m \in consumed' <=> m \in consumed \/ m = msg
    BY Zenon, <1>1, <2>0, <2>2 DEF LoadedIsStored
  <2>4. job'[h] = Idle \/ job'[h] = [at |-> "lookup", msg |-> msg, text |-> "plain"]
    BY Zenon, <1>1, <1>5 DEF Decrypt
  <2>5. /\ job'[h].at # "decrypt" /\ (Carries(h)' => job'[h].msg = msg)
        /\ \A g \in Coroutines \ {h} : Carries(g)' <=> Carries(g)
    <3>1. \A g \in Coroutines \ {h} : Carries(g)' <=> Carries(g)
      BY Zenon, <1>2 DEF Carries
    <3>2. job'[h].at # "decrypt" /\ (Carries(h)' => job'[h].msg = msg)
      BY <2>4 DEF Carries, Idle
    <3> QED
      BY Zenon, <3>1, <3>2
  <2>6. \A g \in Coroutines \ {h} : job[g].at = "decrypt" => With[job[g].msg] # With[msg]
    BY Zenon, <2>0 DEF HeldByOne
  <2> HIDE DEF msg, session
  <2>7. LoadedIsStored'
    <3> SUFFICES ASSUME NEW g \in Coroutines, job'[g].at = "decrypt",
                        NEW m \in Messages, With[m] = With[job'[g].msg]
                 PROVE  m \in job'[g].session <=> m \in consumed'
      BY Zenon DEF LoadedIsStored
    <3>1. g \in Coroutines \ {h} /\ job'[g] = job[g]
      BY Zenon, <1>2, <2>5
    <3>2. m \in job[g].session <=> m \in consumed
      BY Zenon, <2>0, <3>1 DEF LoadedIsStored
    <3>3. m # msg
      BY Zenon, <2>6, <3>1
    <3> QED
      BY Zenon, <2>3, <3>1, <3>2, <3>3
  <2>8. HeldByOne'
    <3> SUFFICES ASSUME NEW g \in Coroutines, NEW o \in Coroutines, job'[g].at = "decrypt",
                        job'[o].at = "decrypt", With[job'[g].msg] = With[job'[o].msg]
                 PROVE  g = o
      BY Zenon DEF HeldByOne
    <3>1. job'[g] = job[g] /\ job'[o] = job[o]
      BY Zenon, <1>2, <2>5
    <3> QED
      BY Zenon, <2>0, <3>1 DEF HeldByOne
  <2>9. KeptIsConsumed'
    BY Zenon, <1>3, <2>0, <2>3 DEF KeptIsConsumed
  <2>10. CarriedIsNew'
    <3> SUFFICES ASSUME NEW g \in Coroutines, Carries(g)'
                 PROVE  job'[g].msg \in consumed' /\ ~Kept(job[g].msg)'
      BY Zenon DEF CarriedIsNew
    <3>1. CASE g = h
      <4>1. ~Kept(msg)
        BY Zenon, <2>0, <2>1 DEF KeptIsConsumed
      <4>2. job'[g].msg = msg
        BY Zenon, <2>5, <3>1
      <4> QED
        BY Zenon, <1>1, <2>3, <4>1, <4>2 DEF Kept
    <3>2. CASE g # h
      <4>1. job'[g] = job[g] /\ Carries(g)
        BY Zenon, <1>2, <2>5, <3>2
      <4>2. job[g].msg \in consumed /\ ~Kept(job[g].msg)
        BY Zenon, <2>0, <4>1 DEF CarriedIsNew
      <4> QED
        BY Zenon, <1>1, <2>3, <4>1, <4>2 DEF Kept
    <3> QED
      BY Zenon, <3>1, <3>2
  <2>11. CarriedByOne'
    <3> SUFFICES ASSUME NEW g \in Coroutines, NEW o \in Coroutines, Carries(g)', Carries(o)',
                        job'[g].msg = job'[o].msg
                 PROVE  g = o
      BY Zenon DEF CarriedByOne
    <3>1. \A q \in Coroutines : Carries(q)' /\ q # h =>
            job'[q] = job[q] /\ Carries(q) /\ job'[q].msg # msg
      BY Zenon, <1>2, <2>0, <2>1, <2>5 DEF CarriedIsNew
    <3>2. CASE g = h \/ o = h
      BY Zenon, <2>5, <3>1, <3>2
    <3>3. CASE g # h /\ o # h
      BY Zenon, <2>0, <3>1, <3>3 DEF CarriedByOne
    <3> QED
      BY Zenon, <3>2, <3>3
  <2> QED
    BY Zenon, <2>7, <2>8, <2>9, <2>10, <2>11 DEF SessionInv
<1> QED
  BY Zenon, <1>4, <1>5

LEMMA StoreSessions ==
  ASSUME InboxTypeOK, SessionInv, StoredOnce, NEW h \in Coroutines, StoreMessage(h)
  PROVE  SessionInv' /\ StoredOnce'
<1> USE DEF notHandler
<1>1. job[h] \in [at : {"create", "reload", "insert", "notify"}, msg : Messages, text : Texts,
                  thread : Nat] /\ job[h].at = "insert"
  BY Zenon, JobFields DEF StoreMessage, InboxTypeOK
<1>2. /\ UNCHANGED consumed /\ job'[h].at = "notify"
      /\ \A g \in Coroutines \ {h} : job'[g] = job[g]
  BY Zenon, <1>1 DEF StoreMessage, InboxTypeOK
<1>3. CASE rows' = rows
  BY Zenon, <1>2, <1>3, QuietSession, FewerStored DEF Carries
<1>4. ASSUME NEW k, rows' = rows \cup {[msg |-> job[h].msg, text |-> job[h].text,
                                        thread |-> job[h].thread, copy |-> k]}
      PROVE  SessionInv' /\ StoredOnce'
  <2>1. \A m : Kept(m)' <=> Kept(m) \/ (m = job[h].msg /\ job[h].text = "plain")
    <3> DEFINE new == [msg |-> job[h].msg, text |-> job[h].text, thread |-> job[h].thread,
                       copy |-> k]
    <3>1. new.msg = job[h].msg /\ new.text = job[h].text
      BY Zenon
    <3>2. rows' = rows \cup {new}
      BY Zenon, <1>4
    <3> HIDE DEF new
    <3> QED
      BY Zenon, <3>1, <3>2 DEF Kept
  <2>0. LoadedIsStored /\ HeldByOne /\ KeptIsConsumed /\ CarriedIsNew /\ CarriedByOne
    BY Zenon DEF SessionInv
  <2>2. job[h].text = "plain" => job[h].msg \in consumed /\ ~Kept(job[h].msg)
    BY Zenon, <1>1, <2>0 DEF CarriedIsNew, Carries
  <2>3. \A g \in Coroutines \ {h} : Carries(g)' <=> Carries(g)
    BY Zenon, <1>2 DEF Carries
  <2>4. ~Carries(h)'
    BY Zenon, <1>2 DEF Carries
  <2>5. \A g \in Coroutines \ {h} : Carries(g) /\ job[h].text = "plain" => job[g].msg # job[h].msg
    BY Zenon, <1>1, <2>0 DEF CarriedByOne, Carries
  <2>6. CarriedIsNew'
    <3>1. SUFFICES ASSUME NEW g \in Coroutines, Carries(g)'
                   PROVE  job'[g].msg \in consumed' /\ ~Kept(job[g].msg)'
      BY Zenon DEF CarriedIsNew
    <3>2. g # h /\ Carries(g) /\ job'[g] = job[g]
      BY Zenon, <1>2, <2>3, <2>4, <3>1
    <3>3. job[g].msg \in consumed /\ ~Kept(job[g].msg)
      BY Zenon, <2>0, <3>2 DEF CarriedIsNew
    <3>4. ~(job[g].msg = job[h].msg /\ job[h].text = "plain")
      BY Zenon, <2>5, <3>2
    <3>5. \A m : m = job[g].msg => ~Kept(m)'
      BY Zenon, <2>1, <3>3, <3>4
    <3>6. ~Kept(job[g].msg)'
      BY Zenon, <3>2, <3>5 DEF Kept
    <3> QED
      BY Zenon, <1>2, <3>2, <3>3, <3>6
  <2>7. KeptIsConsumed'
    BY Zenon, <1>2, <2>0, <2>1, <2>2 DEF KeptIsConsumed
  <2>8. LoadedIsStored'
    BY Zenon, <1>2, <2>0 DEF LoadedIsStored
  <2>9. HeldByOne'
    BY ZenonT(30), <1>2, <2>0 DEF HeldByOne
  <2>11. CarriedByOne'
    BY Zenon, <1>2, <2>0, <2>3, <2>4 DEF CarriedByOne
  <2>10. StoredOnce'
    BY <1>4, <2>2 DEF StoredOnce, Kept
  <2> QED
    BY Zenon, <2>6, <2>7, <2>8, <2>9, <2>10, <2>11 DEF SessionInv
<1>5. \/ rows' = rows
      \/ \E k : rows' = rows \cup {[msg |-> job[h].msg, text |-> job[h].text,
                                    thread |-> job[h].thread, copy |-> k]}
  <2>1. InsertMessage(job[h].msg, job[h].text, job[h].thread)
    BY Zenon DEF StoreMessage
  <2> QED
    BY Zenon, <2>1, Inserted
<1> QED
  BY Zenon, <1>3, <1>4, <1>5

\* A session may be loaded while nobody else of the same contact holds it.
LEMMA LoadSessions ==
  ASSUME InboxTypeOK, SessionInv, NEW h \in Coroutines, LoadSession(h),
         \A g \in Coroutines : job[g].at = "decrypt" => With[job[g].msg] # With[job[h].msg]
  PROVE  SessionInv'
<1> USE DEF notHandler
<1>1. /\ UNCHANGED <<consumed, rows>>
      /\ job'[h] = [at |-> "decrypt", msg |-> job[h].msg, session |-> consumed]
      /\ \A g \in Coroutines \ {h} : job'[g] = job[g]
  BY Zenon DEF LoadSession, InboxTypeOK
<1>2. /\ \A m : Kept(m)' <=> Kept(m)
      /\ \A g \in Coroutines : Carries(g)' => Carries(g) /\ job'[g] = job[g]
  <2>1. \A m : Kept(m)' <=> Kept(m)
    BY Zenon, <1>1 DEF Kept
  <2>2. ~Carries(h)'
    BY <1>1 DEF Carries
  <2>3. \A g \in Coroutines \ {h} : Carries(g)' <=> Carries(g)
    BY Zenon, <1>1 DEF Carries
  <2> QED
    BY Zenon, <1>1, <2>1, <2>2, <2>3
<1>3. LoadedIsStored /\ HeldByOne /\ KeptIsConsumed /\ CarriedIsNew /\ CarriedByOne
  BY Zenon DEF SessionInv
<1>4. LoadedIsStored'
  <2> SUFFICES ASSUME NEW g \in Coroutines, job'[g].at = "decrypt",
                      NEW m \in Messages, With[m] = With[job'[g].msg]
               PROVE  m \in job'[g].session <=> m \in consumed'
    BY Zenon DEF LoadedIsStored
  <2>1. CASE g = h
    BY <1>1, <2>1
  <2>2. CASE g # h
    BY Zenon, <1>1, <1>3, <2>2 DEF LoadedIsStored
  <2> QED
    BY Zenon, <2>1, <2>2
<1>5. HeldByOne'
  <2> SUFFICES ASSUME NEW g \in Coroutines, NEW o \in Coroutines, job'[g].at = "decrypt",
                      job'[o].at = "decrypt", With[job'[g].msg] = With[job'[o].msg]
               PROVE  g = o
    BY Zenon DEF HeldByOne
  <2>1. job'[h].msg = job[h].msg
    BY <1>1
  <2>2. CASE g = h \/ o = h
    BY Zenon, <1>1, <2>1, <2>2
  <2>3. CASE g # h /\ o # h
    BY ZenonT(30), <1>1, <1>3, <2>3 DEF HeldByOne
  <2> QED
    BY Zenon, <2>2, <2>3
<1>6. KeptIsConsumed'
  BY Zenon, <1>1, <1>2, <1>3 DEF KeptIsConsumed
<1>7. CarriedIsNew'
  <2> SUFFICES ASSUME NEW g \in Coroutines, Carries(g)'
               PROVE  job'[g].msg \in consumed' /\ ~Kept(job[g].msg)'
    BY Zenon DEF CarriedIsNew
  <2>1. job'[g] = job[g] /\ job[g].msg \in consumed /\ ~Kept(job[g].msg)
    BY Zenon, <1>2, <1>3 DEF CarriedIsNew
  <2> QED
    BY Zenon, <1>1, <2>1 DEF Kept
<1>8. CarriedByOne'
  BY Zenon, <1>2, <1>3 DEF CarriedByOne
<1> QED
  BY Zenon, <1>4, <1>5, <1>6, <1>7, <1>8 DEF SessionInv

LEMMA HandleOnce ==
  ASSUME OnceInv, NEW h \in Coroutines, Handle(h)
  PROVE  OnceInv'
<1> USE DEF notHandler
<1>0. InboxTypeOK /\ InboxTypeOK' /\ disturbed \in BOOLEAN /\ SentInv /\ UNCHANGED <<unsent, chat>>
  BY Zenon, HandleTypes DEF OnceInv, Handle, LoadSession, Decrypt, Lookup, CreateThread, Reload,
                     StoreMessage, ShowNotification
<1>1. disturbed' \in BOOLEAN /\ (~disturbed' => ~disturbed)
  BY Zenon, <1>0 DEF Handle, LoadSession, Decrypt, Lookup, CreateThread, Reload, StoreMessage,
              ShowNotification
<1>2. SentInv'
  <2>1. ASSUME UNCHANGED rows PROVE SentInv'
    BY Zenon, <1>0, <2>1 DEF SentInv, Kept
  <2>2. CASE StoreMessage(h)
    <3>1. job[h].msg \in Messages
      BY Zenon, <1>0, <2>2, JobFields DEF InboxTypeOK, StoreMessage
    <3>2. \A t \in Outgoing : Kept(t)' => Kept(t)
      BY <2>2, <3>1, Inserted, InboxAssumption DEF InboxAssumption, StoreMessage, Kept
    <3>3. unsent \cup chat.sending \subseteq Outgoing
      BY Zenon, <1>0, ChatFields DEF InboxTypeOK
    <3> QED
      BY Zenon, <1>0, <3>2, <3>3 DEF SentInv
  <2> QED
    BY Zenon, <2>1, <2>2 DEF Handle, LoadSession, Decrypt, Lookup, CreateThread, Reload, ShowNotification
<1>3. ASSUME ~disturbed' PROVE SessionInv' /\ StoredOnce'
  <2>0. SessionInv /\ StoredOnce
    BY Zenon, <1>1, <1>3 DEF OnceInv
  <2>1. CASE LoadSession(h)
    <3>1. \A g \in Coroutines : job[g].at = "decrypt" => With[job[g].msg] # With[job[h].msg]
      BY Zenon, <1>3, <2>1 DEF LoadSession
    <3> QED
      BY Zenon, <1>0, <2>0, <2>1, <3>1, LoadSessions, FewerStored DEF LoadSession
  <2>2. CASE Decrypt(h)
    BY Zenon, <1>0, <2>0, <2>2, DecryptSession, FewerStored DEF Decrypt
  <2>3. CASE StoreMessage(h)
    BY Zenon, <1>0, <2>0, <2>3, StoreSessions
  <2>4. CASE Lookup(h) \/ CreateThread(h) \/ Reload(h) \/ ShowNotification(h)
    <3>1. UNCHANGED <<consumed, rows>> /\ \A g \in Coroutines \ {h} : job'[g] = job[g]
      BY Zenon, <1>0, <2>4 DEF Lookup, CreateThread, Reload, ShowNotification, InboxTypeOK
    <3>2. job'[h].at # "decrypt" /\ (Carries(h)' => Carries(h) /\ job'[h].msg = job[h].msg)
      <4>1. CASE Lookup(h) \/ ShowNotification(h)
        <5>1. CASE Lookup(h)
          <6>1. /\ job[h].at = "lookup" /\ job'[h].at \in {"create", "insert"}
                /\ job'[h].msg = job[h].msg /\ job'[h].text = job[h].text
            BY Zenon, <1>0, <5>1 DEF Lookup, InboxTypeOK
          <6> QED
            BY Zenon, <6>1 DEF Carries
        <5>2. CASE ShowNotification(h)
          <6>1. job'[h] = Idle
            BY Zenon, <1>0, <5>2 DEF ShowNotification, InboxTypeOK
          <6> QED
            BY <6>1 DEF Carries, Idle
        <5> QED
          BY Zenon, <4>1, <5>1, <5>2
      <4>2. CASE CreateThread(h) \/ Reload(h)
        <5>1. job[h] \in [at : {"create", "reload", "insert", "notify"}, msg : Messages,
                          text : Texts, thread : Nat]
          BY Zenon, <1>0, <4>2, JobFields DEF CreateThread, Reload, InboxTypeOK
        <5>2. CASE CreateThread(h)
          <6>1. job'[h] = Idle \/ job'[h] = [job[h] EXCEPT !.at = "reload"]
            BY Zenon, <1>0, <5>2 DEF CreateThread, InboxTypeOK
          <6>2. job[h].at = "create"
            BY Zenon, <5>2 DEF CreateThread
          <6>3. CASE job'[h] = Idle
            BY <6>3 DEF Carries, Idle
          <6>4. CASE job'[h] # Idle
            <7>1. /\ job'[h].at = "reload" /\ job'[h].msg = job[h].msg
                  /\ job'[h].text = job[h].text
              BY Zenon, <5>1, <6>1, <6>4
            <7> QED
              BY Zenon, <6>2, <7>1 DEF Carries
          <6> QED
            BY Zenon, <6>3, <6>4
        <5>3. CASE Reload(h)
          <6>1. \/ job'[h] = Idle
                \/ job'[h] = [job[h] EXCEPT !.at = "insert", !.thread = threadId[With[job[h].msg]]]
            BY Zenon, <1>0, <5>3 DEF Reload, InboxTypeOK
          <6>2. job[h].at = "reload"
            BY Zenon, <5>3 DEF Reload
          <6>3. CASE job'[h] = Idle
            BY <6>3 DEF Carries, Idle
          <6>4. CASE job'[h] # Idle
            <7>1. /\ job'[h].at = "insert" /\ job'[h].msg = job[h].msg
                  /\ job'[h].text = job[h].text
              BY Zenon, <5>1, <6>1, <6>4
            <7> QED
              BY Zenon, <6>2, <7>1 DEF Carries
          <6> QED
            BY Zenon, <6>3, <6>4
        <5> QED
          BY Zenon, <4>2, <5>2, <5>3
      <4> QED
        BY Zenon, <2>4, <4>1, <4>2
    <3> QED
      BY Zenon, <2>0, <3>1, <3>2, QuietSession, FewerStored DEF Carries
  <2> QED
    BY Zenon, <2>1, <2>2, <2>3, <2>4 DEF Handle
<1> QED
  BY Zenon, <1>0, <1>1, <1>2, <1>3 DEF OnceInv

LEMMA AroundOnce == OnceInv /\ (Around \/ UNCHANGED inboxVars) => OnceInv'
<1> SUFFICES ASSUME OnceInv, Around \/ UNCHANGED inboxVars PROVE OnceInv'
  BY Zenon
<1>0. InboxTypeOK /\ InboxTypeOK' /\ disturbed \in BOOLEAN /\ SentInv /\ UNCHANGED <<unsent, rows>>
  BY Zenon, AroundTypes DEF OnceInv, Around, StartSync, StopSync, Flush, InboxProcessDies, OnMessage,
    inboxVars, tables
<1>1. disturbed' \in BOOLEAN /\ (~disturbed' => ~disturbed)
  BY Zenon, <1>0 DEF Around, StartSync, StopSync, Flush, InboxProcessDies, OnMessage, inboxVars
<1>2. SentInv'
  <2>1. chat' = chat \/ chat'.sending = {}
    BY DEF Around, StartSync, StopSync, Flush, InboxProcessDies, OnMessage, inboxVars, Closed
  <2> QED
    BY Zenon, <1>0, <2>1 DEF SentInv, Kept
<1>3. ASSUME ~disturbed' PROVE SessionInv' /\ StoredOnce'
  <2>0. SessionInv /\ StoredOnce'
    BY Zenon, <1>0, <1>1, <1>3, FewerStored DEF OnceInv
  <2>1. CASE StartSync \/ StopSync \/ Flush \/ UNCHANGED inboxVars
    BY Zenon, <1>0, <2>0, <2>1, QuietSession DEF StartSync, StopSync, Flush, inboxVars, Carries
  <2>2. CASE InboxProcessDies
    <3>1. UNCHANGED consumed /\ \A h \in Coroutines : job'[h] = Idle
      BY Zenon, <1>3, <2>2 DEF InboxProcessDies
    <3> QED
      <4>1. \A h \in Coroutines : job'[h].at # "decrypt" /\ ~Carries(h)'
        BY <3>1 DEF Carries, Idle
      <4> QED
        BY Zenon, <1>0, <2>0, <3>1, <4>1, QuietSession
  <2>3. ASSUME NEW msg \in Messages, OnMessage(msg) PROVE SessionInv'
    <3>1. UNCHANGED consumed /\ \A h \in Coroutines : job'[h] = job[h] \/ job'[h].at = "load"
      BY <1>0, <2>3 DEF OnMessage, InboxTypeOK
    <3> QED
      BY Zenon, <1>0, <2>0, <3>1, QuietSession DEF Carries
  <2> QED
    BY Zenon, <2>0, <2>1, <2>2, <2>3 DEF Around
<1> QED
  BY Zenon, <1>0, <1>1, <1>2, <1>3 DEF OnceInv

\* ChatActivity stores a text it has sent, once.
LEMMA SentOnce ==
  ASSUME OnceInv, NEW text \in Outgoing, StoreSent(text)
  PROVE  SentInv' /\ (~disturbed => SessionInv' /\ StoredOnce')
<1> USE DEF notChat
<1>0. /\ InboxTypeOK /\ SentInv /\ text \notin Messages
      /\ UNCHANGED <<job, consumed, unsent>>
  BY Zenon, InboxAssumption DEF InboxAssumption, OnceInv, StoreSent
<1>1. /\ text \in chat.sending /\ chat'.sending = chat.sending \ {text} /\ ~Kept(text)
  BY <1>0, ChatFields DEF StoreSent, InboxTypeOK, SentInv, Closed
<1>2. \/ rows' = rows
      \/ \E k : rows' = rows \cup {[msg |-> text, text |-> "plain", thread |-> chat.thread, copy |-> k]}
  BY Zenon, Inserted DEF StoreSent
<1>3. /\ \A m : Kept(m)' => Kept(m) \/ m = text
      /\ StoredOnce => StoredOnce'
  BY <1>1, <1>2 DEF Kept, StoredOnce
<1>4. SentInv'
  BY Zenon, <1>0, <1>1, <1>3 DEF SentInv
<1>5. ASSUME SessionInv PROVE SessionInv'
  <2>1. \A m \in Messages : Kept(m)' => Kept(m)
    BY Zenon, <1>0, <1>3
  <2>2. \A h \in Coroutines : Carries(h) => job[h].msg \in Messages
    BY Zenon, <1>0, JobFields DEF InboxTypeOK, Carries, Idle
  <2>3. \A h \in Coroutines : Carries(h)' <=> Carries(h)
    BY Zenon, <1>0 DEF Carries
  <2>4. LoadedIsStored /\ HeldByOne /\ KeptIsConsumed /\ CarriedIsNew /\ CarriedByOne
    BY Zenon, <1>5 DEF SessionInv
  <2>5. LoadedIsStored' /\ HeldByOne'
    BY Zenon, <1>0, <2>4 DEF LoadedIsStored, HeldByOne
  <2>6. KeptIsConsumed'
    BY Zenon, <1>0, <2>1, <2>4 DEF KeptIsConsumed
  <2>7. CarriedIsNew'
    <3> SUFFICES ASSUME NEW h \in Coroutines, Carries(h)'
                 PROVE  job'[h].msg \in consumed' /\ ~Kept(job[h].msg)'
      BY Zenon DEF CarriedIsNew
    <3>1. job'[h].msg = job[h].msg /\ job[h].msg \in consumed /\ ~Kept(job[h].msg)
      BY Zenon, <1>0, <2>3, <2>4 DEF CarriedIsNew
    <3>2. job[h].msg # text
      BY Zenon, <1>0, <2>2, <2>3
    <3> QED
      BY <1>0, <1>2, <3>1, <3>2 DEF Kept
  <2>8. CarriedByOne'
    BY Zenon, <1>0, <2>3, <2>4 DEF CarriedByOne
  <2> QED
    BY Zenon, <2>5, <2>6, <2>7, <2>8 DEF SessionInv
<1> QED
  BY Zenon, <1>3, <1>4, <1>5 DEF OnceInv

LEMMA ChatOnce == OnceInv /\ Chatting => OnceInv'
<1> SUFFICES ASSUME OnceInv, Chatting PROVE OnceInv'
  BY Zenon
<1> USE DEF notChat
<1>0. InboxTypeOK /\ InboxTypeOK' /\ disturbed \in BOOLEAN /\ SentInv /\ chat \in Chats
  BY Zenon, ChatTypes DEF OnceInv, InboxTypeOK
<1>1. ASSUME UNCHANGED <<job, consumed, disturbed>>, rows' \subseteq rows, SentInv' PROVE OnceInv'
  <2>1. SessionInv => SessionInv'
    BY Zenon, <1>1, QuietSession DEF Carries
  <2> QED
    BY Zenon, <1>0, <1>1, <2>1, FewerStored DEF OnceInv
<1>2. ASSUME rows' \subseteq rows, unsent' = unsent, chat'.sending \subseteq chat.sending
      PROVE  SentInv'
  BY Zenon, <1>0, <1>2 DEF SentInv, Kept
<1>3. ASSUME NEW c \in Contacts, OpenChat(c) PROVE OnceInv'
  BY <1>1, <1>2, <1>3 DEF OpenChat
<1>4. CASE ChatLookup
  <2>1. chat'.sending = chat.sending
    BY Zenon, <1>0, <1>4, ChatFields DEF ChatLookup
  <2> QED
    BY Zenon, <1>1, <1>2, <1>4, <2>1 DEF ChatLookup
<1>5. CASE ChatCreate
  <2>1. CASE chat' = [chat EXCEPT !.at = "ready", !.thread = Len(ids')]
             /\ UNCHANGED <<notChat, rows, unsent>>
    <3>1. chat'.sending = chat.sending
      BY Zenon, <1>0, <1>5, <2>1, ChatFields DEF ChatCreate
    <3> QED
      BY Zenon, <1>1, <1>2, <2>1, <3>1
  <2> QED
    BY Zenon, <1>5, <2>1, AroundOnce DEF ChatCreate, Around
<1>6. CASE CloseChat
  BY Zenon, <1>1, <1>2, <1>6 DEF CloseChat, Closed
<1>7. ASSUME NEW text \in Outgoing, PressSend(text) \/ SendFails(text) PROVE OnceInv'
  <2>1. \/ chat'.sending = chat.sending \cup {text} /\ text \in unsent /\ unsent' = unsent \ {text}
        \/ chat'.sending = chat.sending \ {text} /\ unsent' = unsent
    BY Zenon, <1>0, <1>7, ChatFields DEF PressSend, SendFails, Closed
  <2>2. UNCHANGED <<rows, job, consumed, disturbed>>
    BY Zenon, <1>7 DEF PressSend, SendFails
  <2>3. SentInv'
    BY Zenon, <1>0, <2>1, <2>2 DEF SentInv, Kept
  <2> QED
    BY Zenon, <1>1, <2>2, <2>3
<1>8. ASSUME NEW text \in Outgoing, StoreSent(text) PROVE OnceInv'
  <2>1. UNCHANGED disturbed
    BY Zenon, <1>8 DEF StoreSent
  <2> QED
    BY Zenon, <1>0, <1>8, <2>1, SentOnce DEF OnceInv
<1>9. ASSUME NEW r \in rows, DeleteMessage(r) PROVE OnceInv'
  BY Zenon, <1>1, <1>2, <1>9 DEF DeleteMessage
<1> QED
  BY Zenon, <1>3, <1>4, <1>5, <1>6, <1>7, <1>8, <1>9 DEF Chatting

\* A message the server repeats is stored as a text once, as long as no session
\* is held by two coroutines at once and none is lost with the process; a text
\* the user sends is stored at most once.
THEOREM TextsStoredOnce == InboxSpec => []TextStoredOnce
<1>1. InboxInit => OnceInv
  <2>1. SUFFICES ASSUME InboxInit PROVE OnceInv
    BY Zenon
  <2>2. InboxTypeOK
    BY Zenon, <2>1, ThreadsInit DEF ThreadInv
  <2>3. disturbed = FALSE
    BY Zenon, <2>1 DEF InboxInit
  <2>4. (\A m : ~Kept(m)) /\ \A h \in Coroutines : job[h] = Idle /\ ~Carries(h)
    BY Zenon, <2>1 DEF InboxInit, Kept, Carries, Idle
  <2>5. SentInv /\ StoredOnce
    BY Zenon, <2>1, <2>4 DEF InboxInit, SentInv, StoredOnce, Closed
  <2>6. SessionInv
    <3>1. \A h \in Coroutines : job[h].at # "decrypt"
      BY <2>4 DEF Idle
    <3> QED
      BY Zenon, <2>4, <3>1 DEF SessionInv, LoadedIsStored, HeldByOne, KeptIsConsumed, CarriedIsNew,
                               CarriedByOne
  <2> QED
    BY Zenon, <2>2, <2>3, <2>5, <2>6 DEF OnceInv
<1>2. OnceInv /\ [InboxNext]_inboxVars => OnceInv'
  BY Zenon, HandleOnce, AroundOnce, ChatOnce, NextMeans
<1>3. OnceInv => TextStoredOnce
  BY Zenon DEF OnceInv, StoredOnce, TextStoredOnce
<1> QED
  BY <1>1, <1>2, <1>3, PTL DEF InboxSpec
=============================================================================
