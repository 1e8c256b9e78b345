----------------------------- MODULE SyncService -----------------------------
(***************************************************************************)
(* When sync runs at all: SyncService, the alarm of the polling mode with  *)
(* SyncReceiver, BootReceiver, the activities and the settings dialog, on  *)
(* top of BackgroundSync.  The user is logged in from the start (there is  *)
(* no logout).  Everything here but the process's death runs on the main   *)
(* thread; start commands, delayed runnables and the alarm are Android's.  *)
(*                                                                         *)
(* stopSelf() without a start id stops the service whatever commands are   *)
(* under way: those already queued still come to the instance that is      *)
(* being destroyed, and no longer make the service a started one.  What    *)
(* such an instance posts later can stop the sync, but not the next        *)
(* instance.                                                               *)
(***************************************************************************)
EXTENDS BackgroundSync

CONSTANTS Intervals,    \* the values the settings dialog offers, in minutes
          MaxQueued     \* bound: start commands, and stops, queued at once

ASSUME ServiceAssumption == /\ Intervals \subseteq Nat
                            /\ 0 \in Intervals
                            /\ MaxQueued \in Nat \ {0}

VARIABLES
  intervalMins,         \* the preference sync_interval_mins, 0 = persistent
  commands,             \* start commands on their way to the started service
  lateCommands,         \* start commands to instances stopped before they came
  stops,                \* the 10-second runnables the started service has posted
  lateStops,            \* those of instances that were stopped since
  alarm,                \* SyncReceiver's PendingIntent is set in AlarmManager
  started,              \* the service is started: Android brings it back
  abandoned             \* history: a command came too late to keep persistent
                        \* sync started, and none was given since

serviceVars == <<intervalMins, commands, lateCommands, stops, lateStops, alarm,
                 started, abandoned>>
allVars == <<vars, serviceVars>>

ServiceTypeOK ==
  /\ TypeOK
  /\ intervalMins \in Intervals
  /\ commands \in 0..MaxQueued /\ lateCommands \in 0..MaxQueued
  /\ commands + lateCommands <= MaxQueued
  /\ stops \in 0..MaxQueued /\ lateStops \in 0..MaxQueued
  /\ stops + lateStops <= MaxQueued
  /\ alarm \in BOOLEAN
  /\ started \in BOOLEAN
  /\ abandoned \in BOOLEAN

\* HomeActivity has just been created for the first time.
ServiceInit ==
  /\ Init
  /\ intervalMins = 0
  /\ commands = 1 /\ lateCommands = 0
  /\ stops = 0 /\ lateStops = 0
  /\ alarm = FALSE
  /\ started = TRUE
  /\ abandoned = FALSE

-----------------------------------------------------------------------------
\* BackgroundSyncManager.start(), all three ways through it.
Start ==
  \/ StartNew
  \/ StartAgain
  \/ /\ isRunning /\ client # None
     /\ connectionState # "DISCONNECTED"
     /\ UNCHANGED vars

\* Context.startService: the service is started, its command is queued.
StartService == /\ commands + lateCommands < MaxQueued
                /\ commands' = commands + 1
                /\ started' = TRUE
                /\ abandoned' = FALSE
                /\ UNCHANGED lateCommands

\* The next command; those to stopped instances were queued before the others.
TakeCommand ==
  \/ /\ lateCommands > 0
     /\ lateCommands' = lateCommands - 1
     /\ UNCHANGED commands
  \/ /\ lateCommands = 0 /\ commands > 0
     /\ commands' = commands - 1
     /\ UNCHANGED lateCommands

\* postDelayed, by the instance that got the command.
PostStop ==
  /\ stops + lateStops < MaxQueued
  /\ IF lateCommands > 0
     THEN lateStops' = lateStops + 1 /\ UNCHANGED stops
     ELSE stops' = stops + 1 /\ UNCHANGED lateStops

\* Mutant: the polling mode posts no stop.
OnStartCommandEndless ==
  /\ TakeCommand
  /\ Start
  /\ UNCHANGED <<stops, lateStops, alarm, abandoned, intervalMins, started>>

OnStartCommand ==
  /\ TakeCommand
  /\ Start
  /\ \/ /\ intervalMins > 0
        /\ PostStop
        /\ UNCHANGED <<alarm, abandoned>>
     \/ /\ intervalMins = 0
        /\ alarm' = FALSE
        /\ abandoned' = ~started
        /\ UNCHANGED <<stops, lateStops>>
  /\ UNCHANGED <<intervalMins, started>>

\* stopSelf() of the started instance, and what it leaves behind.
StopSelf ==
  /\ started' = FALSE
  /\ commands' = 0 /\ lateCommands' = lateCommands + commands
  /\ stops' = 0 /\ lateStops' = stops - 1

\* stopSelf() of an instance that is stopped already.
StopSelfAgain ==
  /\ lateStops' = lateStops - 1
  /\ UNCHANGED <<started, commands, lateCommands, stops>>

\* Mutant: the runnable sets no alarm.
PollingStopLast ==
  /\ stops + lateStops > 0
  /\ Stop \/ (~isRunning /\ UNCHANGED vars)
  /\ IF lateStops > 0 THEN StopSelfAgain ELSE StopSelf
  /\ UNCHANGED <<intervalMins, abandoned, alarm>>

\* The polling mode's runnable: stop(), set the next alarm, stopSelf().
PollingStop ==
  /\ stops + lateStops > 0
  /\ Stop \/ (~isRunning /\ UNCHANGED vars)
  /\ alarm' = TRUE
  /\ IF lateStops > 0 THEN StopSelfAgain ELSE StopSelf
  /\ UNCHANGED <<intervalMins, abandoned>>

\* The alarm goes off: SyncReceiver starts the service.
AlarmFires ==
  /\ alarm
  /\ alarm' = FALSE
  /\ StartService
  /\ UNCHANGED <<vars, intervalMins, stops, lateStops>>

\* HomeActivity.onCreate.
HomeCreated ==
  /\ StartService
  /\ UNCHANGED <<vars, intervalMins, stops, lateStops, alarm>>

\* HomeActivity.onResume: only in persistent mode.
HomeResumed ==
  /\ intervalMins = 0
  /\ StartService
  /\ Start
  /\ UNCHANGED <<intervalMins, stops, lateStops, alarm>>

\* ChatActivity.onCreate: start(), whatever the mode.
ChatOpened ==
  /\ Start
  /\ UNCHANGED serviceVars

\* The settings dialog: the preference, and a start command to apply it.
ChooseInterval ==
  /\ intervalMins' \in Intervals
  /\ StartService
  /\ UNCHANGED <<vars, stops, lateStops, alarm>>

\* All that lives in the process is gone; preferences and alarms stay.
LoseProcess ==
  /\ isRunning' = FALSE
  /\ client' = None
  /\ connectionState' = "DISCONNECTED"
  /\ webSocket' = [c \in Clients |-> None]
  /\ manualDisconnect' = [c \in Clients |-> TRUE]
  /\ pending' = [c \in Clients |-> FALSE]
  /\ orphans' = [c \in Clients |-> 0]
  /\ phase' = [s \in Sockets |-> "dead"]
  /\ closed' = [s \in Sockets |-> TRUE]
  /\ owner' = [s \in Sockets |-> None]
  /\ scheduling' = [s \in Sockets |-> "no"]
  /\ stops' = 0 /\ lateStops' = 0 /\ lateCommands' = 0
  /\ UNCHANGED intervalMins

\* Mutant: the service is not sticky.
ProcessDiesForGood ==
  /\ LoseProcess
  /\ commands' = 0
  /\ UNCHANGED <<alarm, started, abandoned>>

\* Android kills the process, and brings back a service that is started
\* (START_STICKY), with the commands that were not delivered yet.
ProcessDies ==
  /\ LoseProcess
  /\ commands' = IF started /\ commands = 0 THEN 1 ELSE commands
  /\ UNCHANGED <<alarm, started, abandoned>>

\* A reboot also forgets the alarms; BootReceiver starts the service.
Reboot ==
  /\ LoseProcess
  /\ commands' = 1
  /\ alarm' = FALSE
  /\ started' = TRUE
  /\ abandoned' = FALSE

Connection ==
  /\ \/ \E c \in Clients : RunReconnect(c)
     \/ \E s \in Sockets : Callback(s) \/ Scheduling(s)
  /\ UNCHANGED serviceVars

ServiceNext ==
  \/ OnStartCommand \/ PollingStop \/ AlarmFires
  \/ HomeCreated \/ HomeResumed \/ ChatOpened \/ ChooseInterval
  \/ ProcessDies \/ Reboot
  \/ Connection

ServiceSpec == ServiceInit /\ [][ServiceNext]_allVars

\* Android delivers commands, runs what is posted and lets alarms go off;
\* the connection's threads make progress as in BackgroundSync.  Fairness is
\* strong where the bounds on sockets and queues may get in the way for a while.
ServiceFairness ==
  /\ SF_allVars(OnStartCommand) /\ WF_allVars(PollingStop) /\ SF_allVars(AlarmFires)
  /\ \A s \in Sockets : /\ WF_allVars(SocketProgress(s) /\ UNCHANGED serviceVars)
                        /\ WF_allVars(Scheduling(s) /\ UNCHANGED serviceVars)
  /\ \A c \in Clients : WF_allVars(RunReconnect(c) /\ UNCHANGED serviceVars)

FairServiceSpec == ServiceSpec /\ ServiceFairness

-----------------------------------------------------------------------------
\* Sync is running or Android holds something that starts it again: a command,
\* an alarm, or the runnable that sets one.  No change of mode, kill or reboot
\* leaves a phone that never fetches messages again, unless persistent mode was
\* chosen with a polling stop ahead of its command.
SyncNeverForgotten ==
  \/ isRunning \/ alarm \/ abandoned
  \/ commands + lateCommands > 0 \/ stops + lateStops > 0

\* Were the process killed now, sync would start again, with the same exception:
\* the service is started (START_STICKY), or an alarm is set.
SurvivesKill == started \/ alarm \/ abandoned

\* In polling mode there is no exception: whatever the modes were before, a kill
\* leaves a started service or an alarm.
PollingSurvivesKill == intervalMins > 0 => started \/ alarm

\* In polling mode the connection is given up again and again, even though
\* opening a chat starts it without scheduling a stop.
PollingDisconnects == <>[](intervalMins > 0) => []<>(~isRunning)

\* In persistent mode sync always comes back on, whatever is killed, even after
\* polling stops that were still posted when the mode was changed; unless the
\* service was stopped ahead of the command of the change.
PersistentComesBack == <>[](intervalMins = 0 /\ ~abandoned) => []<>isRunning
=============================================================================
