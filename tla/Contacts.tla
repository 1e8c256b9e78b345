------------------------------ MODULE Contacts ------------------------------
(***************************************************************************)
(* What is known about a contact, and who fetches it: the contact's row in *)
(* DatabaseHelper, the change signal behind getAllThreads and              *)
(* getMessagesForThread, the screens and the collector of                  *)
(* BackgroundSyncManager that listen to it, and the coroutines of          *)
(* fetchAndSaveProfile.                                                    *)
(*                                                                         *)
(* One contact, whose thread exists.  Every database call and every        *)
(* request is a step.  What a row holds is abstracted to which columns are *)
(* set.                                                                    *)
(***************************************************************************)
EXTENDS Integers, FiniteSets

CONSTANTS Screens,     \* HomeActivity, ChatActivity
          Collectors,  \* those that BackgroundSyncManager.start launches, one
                       \* each time, and nobody cancels
          Fetches,     \* bound: profile coroutines at the same time
          MaxChanges,  \* bound: messages received and names chosen
          NoContact

Listeners == Screens \cup Collectors

ASSUME ContactsAssumption == Collectors \cap Screens = {} /\ MaxChanges \in Nat

VARIABLES
  profile,   \* server: whether the profile has a name and an avatar
  contact,   \* table contacts: the row of the contact, or NoContact
  at,        \* where the flow of each listener is
  pending,   \* dbChangeSignal: who has still to take the buffered value
  fetch,     \* the profile coroutines
  failed,    \* history: the last download to end got no avatar, or the process
             \* died before one
  handler,   \* the message coroutine
  toCome     \* messages and names to come

database == <<profile, contact>>
flows == <<at, pending>>
tasks == <<fetch, failed, handler, toCome>>
contactsVars == <<database, flows, tasks>>

ContactsInit ==
  /\ profile \in [name : BOOLEAN, avatar : BOOLEAN]
  /\ contact = NoContact
  /\ at = [l \in Listeners |-> "off"]
  /\ pending = {}
  /\ fetch = [f \in Fetches |-> "idle"]
  /\ failed = FALSE
  /\ handler = "idle"
  /\ toCome = MaxChanges

-----------------------------------------------------------------------------
(* DatabaseHelper *)

Subscribed == {l \in Listeners : at[l] \in {"waiting", "taken"}}

\* notifyDbChanged: the flow buffers one value.  While somebody has still to take
\* it, tryEmit drops the next one, for everybody; nobody is told who has queried
\* and not subscribed yet.
NotifyDbChanged == pending' = IF pending = {} THEN Subscribed ELSE pending

\* saveContact, CONFLICT_REPLACE: the avatar, which is not given, is gone, and no
\* listener is told.
SaveContact ==
  contact' = [name |-> profile.name, key |-> TRUE, avatar |-> FALSE]

\* Mutant: the row is only found when it has a name.
SaveContactAvatarNamed ==
  contact' = [contact EXCEPT !.avatar = contact.name] /\ NotifyDbChanged

\* saveContactAvatar, on a row that exists.
SaveContactAvatar == contact' = [contact EXCEPT !.avatar = TRUE] /\ NotifyDbChanged

HasName == contact # NoContact /\ contact.name
HasKey == contact # NoContact /\ contact.key
HasAvatar == contact # NoContact /\ contact.avatar

-----------------------------------------------------------------------------
(* fetchAndSaveProfile *)

\* The coroutine is launched; the bound on coroutines makes the caller wait.
FetchAndSaveProfile ==
  \E f \in Fetches : /\ fetch[f] = "idle"
                     /\ fetch' = [fetch EXCEPT ![f] = "request"]

Fetching(f, where) == fetch' = [fetch EXCEPT ![f] = where]

\* getProfile is answered and saved, or fails and the coroutine ends.
GetProfile(f) ==
  /\ fetch[f] = "request"
  /\ \/ SaveContact /\ Fetching(f, "saved")
     \/ Fetching(f, "idle") /\ UNCHANGED contact
  /\ UNCHANGED <<profile, flows, failed, handler, toCome>>

\* updateThread with the name, if the profile has one.
RenameThread(f) ==
  /\ fetch[f] = "saved"
  /\ IF profile.name THEN NotifyDbChanged ELSE UNCHANGED pending
  /\ Fetching(f, "download")
  /\ UNCHANGED <<profile, contact, at, failed, handler, toCome>>

\* The avatar; there may be none, or no url of it works.
Download(f) ==
  /\ fetch[f] = "download"
  /\ Fetching(f, "idle")
  /\ \/ profile.avatar /\ SaveContactAvatar /\ failed' = FALSE
     \/ failed' = TRUE /\ UNCHANGED <<contact, pending>>
  /\ UNCHANGED <<profile, at, handler, toCome>>

-----------------------------------------------------------------------------
(* The flows: query, subscribe, and query again for every value taken. *)

Go(l, where) == at' = [at EXCEPT ![l] = where]

\* onCreate of a screen, or start(), launches the collection; onDestroy cancels
\* that of a screen.
LaunchCollection(l) ==
  /\ at[l] = "off" /\ Go(l, "first")
  /\ UNCHANGED <<database, pending, tasks>>

CloseScreen(l) ==
  /\ at[l] # "off" /\ Go(l, "off")
  /\ pending' = pending \ {l}
  /\ UNCHANGED <<database, tasks>>

\* The collector of start(): contacts with a key and without an avatar.
WantsProfile == HasKey /\ ~HasAvatar

\* A query; the collector then goes through the threads.
Query(l) ==
  /\ \/ at[l] = "first" /\ Go(l, "gap")
     \/ at[l] = "taken" /\ Go(l, "waiting")
  /\ IF l \in Collectors /\ WantsProfile THEN FetchAndSaveProfile ELSE UNCHANGED fetch
  /\ UNCHANGED <<database, pending, failed, handler, toCome>>

Subscribe(l) ==
  /\ at[l] = "gap" /\ Go(l, "waiting")
  /\ UNCHANGED <<database, pending, tasks>>

Take(l) ==
  /\ at[l] = "waiting" /\ l \in pending
  /\ Go(l, "taken")
  /\ pending' = pending \ {l}
  /\ UNCHANGED <<database, tasks>>

-----------------------------------------------------------------------------
(* The message handler and the user. *)

OnMessage ==
  /\ handler = "idle" /\ toCome > 0
  /\ toCome' = toCome - 1
  /\ handler' = "decrypted"
  /\ UNCHANGED <<database, flows, fetch, failed>>

\* A profile key may have come along, and the contact has no name or no avatar.
HandleProfileKey ==
  /\ handler = "decrypted"
  /\ IF HasName /\ HasAvatar THEN UNCHANGED fetch
     ELSE FetchAndSaveProfile \/ UNCHANGED fetch
  /\ handler' = "update"
  /\ UNCHANGED <<database, flows, failed, toCome>>

\* updateThread, then insertMessage
StoreMessage ==
  /\ \/ handler = "update" /\ handler' = "insert"
     \/ handler = "insert" /\ handler' = "idle"
  /\ NotifyDbChanged
  /\ UNCHANGED <<database, at, fetch, failed, toCome>>

\* "Set Contact Name": updateThread
SetContactName ==
  /\ toCome > 0 /\ \E l \in Screens : at[l] # "off"
  /\ toCome' = toCome - 1
  /\ NotifyDbChanged
  /\ UNCHANGED <<database, at, fetch, failed, handler>>

\* The process dies; what is stored stays.
ContactsProcessDies ==
  /\ at' = [l \in Listeners |-> "off"] /\ pending' = {}
  /\ failed' = (failed \/ \E f \in Fetches : fetch[f] \in {"saved", "download"})
  /\ fetch' = [f \in Fetches |-> "idle"]
  /\ handler' = "idle"
  /\ UNCHANGED <<database, toCome>>

-----------------------------------------------------------------------------
Handler == OnMessage \/ HandleProfileKey \/ StoreMessage
FetchStep(f) == GetProfile(f) \/ RenameThread(f) \/ Download(f)
Flow(l) == Query(l) \/ Subscribe(l) \/ Take(l)

ContactsNext ==
  \/ Handler \/ SetContactName \/ ContactsProcessDies
  \/ \E f \in Fetches : FetchStep(f)
  \/ \E l \in Listeners : LaunchCollection(l) \/ Flow(l)
  \/ \E l \in Screens : CloseScreen(l)

ContactsSpec == ContactsInit /\ [][ContactsNext]_contactsVars

-----------------------------------------------------------------------------
ContactsTypeOK ==
  /\ contact \in {NoContact} \cup [name : BOOLEAN, key : BOOLEAN, avatar : BOOLEAN]
  /\ at \in [Listeners -> {"off", "first", "gap", "waiting", "taken"}]
  /\ pending \subseteq Subscribed
  /\ fetch \in [Fetches -> {"idle", "request", "saved", "download"}]
  /\ toCome \in 0 .. MaxChanges

\* A contact that has a profile but no avatar is being downloaded by somebody, or
\* the last download found none or was cut off by the end of the process: although
\* every fetch wipes the avatar of the ones before (saveContact), fetches that
\* overlap end with an avatar.
MissingAvatarIsExplained ==
  HasKey /\ ~HasAvatar => failed \/ \E f \in Fetches : fetch[f] \in {"saved", "download"}

=============================================================================
