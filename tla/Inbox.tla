-------------------------------- MODULE Inbox --------------------------------
(***************************************************************************)
(* The way of a received message into the database: the request on the     *)
(* web socket and its acknowledgement (SignalWebSocket.onMessage), the     *)
(* coroutine BackgroundSyncManager launches for it on Dispatchers.IO, the  *)
(* tables of DatabaseHelper, and ChatActivity, which creates threads and   *)
(* stores outgoing messages on coroutines of its own.                      *)
(*                                                                         *)
(* Each database call is one step; coroutines interleave between them.     *)
(* Left out: names, snippets and timestamps of threads, profiles, and the  *)
(* download of attachments.                                                *)
(***************************************************************************)
EXTENDS Integers, FiniteSets, Sequences

CONSTANTS Messages,     \* envelopes the server has for us
          Outgoing,     \* texts the user sends
          Contacts,     \* the other parties: senders and recipients
          With,         \* per message or text: the contact it is from or to
          Receipts,     \* the encrypted messages without content to show
          Coroutines,   \* bound: message coroutines at the same time
          MaxRows,      \* bound: thread ids given out by AUTOINCREMENT
          MaxRepeats,   \* bound: acknowledgements that get lost
          MaxCrashes    \* bound: deaths of the process

ASSUME InboxAssumption == /\ With \in [Messages \cup Outgoing -> Contacts]
                          /\ Receipts \subseteq Messages
                          /\ Messages \cap Outgoing = {}
                          /\ MaxRows \in Nat /\ MaxRepeats \in Nat /\ MaxCrashes \in Nat

VARIABLES
  server,       \* messages the server keeps, as no acknowledgement reached it
  sync,         \* BackgroundSyncManager: "off", "on", or inside stop()
  job,          \* per coroutine: its message and where it is
  consumed,     \* messages whose key the session in memory has used up
  flushed,      \* ... and the session in the preferences' file
  threadId,     \* table threads: per contact the id of its row, 0 = none
  ids,          \* AUTOINCREMENT: the contact of every thread id given out
  rows,         \* table messages: rows with a thread_id
  deleted,      \* messages and texts whose row the user has deleted
  chat,         \* the open ChatActivity: its contact, threadId and progress
  unsent,       \* texts the user has not sent yet
  repeats,      \* acknowledgements lost so far
  crashes,      \* deaths of the process so far
  disturbed     \* history: two coroutines held a session at once, or the process
                \* died before apply() had written it

inboxVars == <<server, sync, job, consumed, flushed, threadId, ids, rows,
              deleted, chat, unsent, repeats, crashes, disturbed>>
tables == <<threadId, ids, rows, deleted>>
notHandler == <<server, sync, chat, unsent, flushed, deleted, repeats, crashes>>
notChat == <<server, sync, job, consumed, flushed, deleted, repeats, crashes,
             disturbed>>

Idle == [at |-> "idle"]
Closed == [at |-> "closed", sending |-> {}]

\* What a coroutine holds before loadSession, the rest of decryptMessage,
\* getThreadByRecipient, then insertThread, the second getThreadByRecipient,
\* insertMessage and showNotification; and what the open chat holds.
Texts == {"plain", "failed"}
Jobs == {Idle} \cup [at : {"load"}, msg : Messages]
        \cup [at : {"decrypt"}, msg : Messages, session : SUBSET Messages]
        \cup [at : {"lookup"}, msg : Messages, text : Texts]
        \cup [at : {"create", "reload", "insert", "notify"}, msg : Messages, text : Texts,
              thread : Nat]
Chats == {Closed} \cup [at : {"load", "create", "ready"}, with : Contacts, thread : Nat,
                        sending : SUBSET Outgoing]

\* Coroutines and the chat hold what they need at each step; sessions, rows and
\* ids are of known messages and contacts.
InboxTypeOK ==
  /\ job \in [Coroutines -> Jobs]
  /\ chat \in Chats
  /\ ids \in Seq(Contacts)
  /\ threadId \in [Contacts -> Nat]
  /\ consumed \subseteq Messages /\ flushed \subseteq Messages /\ unsent \subseteq Outgoing
  /\ \A r \in rows : r.msg \in Messages \cup Outgoing

InboxInit ==
  /\ server = Messages
  /\ sync = "off"
  /\ job = [h \in Coroutines |-> Idle]
  /\ consumed = {} /\ flushed = {}
  /\ threadId = [c \in Contacts |-> 0] /\ ids = <<>>
  /\ rows = {}
  /\ deleted = {}
  /\ chat = Closed
  /\ unsent = Outgoing
  /\ repeats = 0 /\ crashes = 0 /\ disturbed = FALSE

-----------------------------------------------------------------------------
(* DatabaseHelper                                                          *)

Referenced(id) == \E r \in rows : r.thread = id

\* insertThread, CONFLICT_REPLACE: a new row takes the place of the contact's
\* old one, unless the foreign key of a message forbids to delete that.
InsertThreadFails(c) == threadId[c] # 0 /\ Referenced(threadId[c])

InsertThread(c) ==
  /\ ~InsertThreadFails(c)
  /\ Len(ids) < MaxRows
  /\ ids' = Append(ids, c)
  /\ threadId' = [threadId EXCEPT ![c] = Len(ids')]

\* Mutant: any id will do as thread_id.
ThreadAssumed(id) == id # 0

ThreadExists(id) == \E c \in Contacts : threadId[c] = id /\ id # 0

\* insertMessage: insert() swallows a foreign key failure and returns -1.
InsertMessage(msg, text, id) ==
  rows' = IF ThreadExists(id)
          THEN rows \cup {[msg |-> msg, text |-> text, thread |-> id,
                           copy |-> CHOOSE k \in 0..Cardinality(rows) :
                                    \A r \in rows : r.msg = msg => r.copy # k]}
          ELSE rows

-----------------------------------------------------------------------------
(* Reception                                                               *)

\* start(), and stop() in two steps: onMessageReceived = null, disconnect().
StartSync == /\ sync = "off" /\ sync' = "on"
             /\ UNCHANGED <<server, job, consumed, flushed, tables, chat, unsent, repeats, crashes, disturbed>>

StopSync == /\ \/ sync = "on" /\ sync' = "stopping"
               \/ sync = "stopping" /\ sync' = "off"
            /\ UNCHANGED <<server, job, consumed, flushed, tables, chat, unsent, repeats, crashes, disturbed>>

\* onMessage: the 200 OK goes out first (and may not get through, as on a socket
\* that is being closed), then the callback, if it is still set.
OnMessage(msg) ==
  /\ sync # "off"
  /\ msg \in server
  /\ \/ server' = server \ {msg} /\ UNCHANGED repeats
     \/ repeats < MaxRepeats /\ repeats' = repeats + 1 /\ UNCHANGED server
  /\ \/ /\ sync = "on"
        /\ \E h \in Coroutines : /\ job[h] = Idle
                                 /\ job' = [job EXCEPT ![h] = [at |-> "load", msg |-> msg]]
     \/ sync = "stopping" /\ UNCHANGED job
  /\ UNCHANGED <<sync, consumed, flushed, tables, chat, unsent, crashes,
                 disturbed>>

\* decryptMessage begins: the cipher loads the session.
LoadSession(h) ==
  /\ job[h].at = "load"
  /\ job' = [job EXCEPT ![h] = [at |-> "decrypt", msg |-> job[h].msg, session |-> consumed]]
  /\ disturbed' = (disturbed \/ \E g \in Coroutines : /\ job[g].at = "decrypt"
                                                     /\ With[job[g].msg] = With[job[h].msg])
  /\ UNCHANGED <<notHandler, consumed, threadId, ids, rows>>

\* Mutant: the session is not stored after decryption.
StoreNoSession(session, msg) == UNCHANGED consumed

\* The session is stored over whatever another coroutine stored since.
StoreSession(session, msg) ==
  consumed' = {m \in consumed : With[m] # With[msg]} \cup session \cup {msg}

\* decryptMessage goes on: the text, or "[Decryption Failed]" for a message whose
\* key the loaded session no longer has; then nothing is stored.  A message
\* without content ends the coroutine here.
Decrypt(h) ==
  LET msg == job[h].msg
      session == {m \in job[h].session : With[m] = With[msg]}
      text == IF msg \in session THEN "failed" ELSE "plain"
  IN
  /\ job[h].at = "decrypt"
  /\ IF text = "plain" THEN StoreSession(session, msg) ELSE UNCHANGED consumed
  /\ job' = [job EXCEPT ![h] =
               IF msg \in Receipts /\ text = "plain" THEN Idle
               ELSE [at |-> "lookup", msg |-> msg, text |-> text]]
  /\ UNCHANGED <<notHandler, disturbed, threadId, ids, rows>>

\* getThreadByRecipient: a thread is created where there is none.
Lookup(h) ==
  LET c == With[job[h].msg] IN
  /\ job[h].at = "lookup"
  /\ job' = [job EXCEPT ![h] =
               [at |-> IF threadId[c] = 0 THEN "create" ELSE "insert",
                msg |-> job[h].msg, text |-> job[h].text, thread |-> threadId[c]]]
  /\ UNCHANGED <<notHandler, disturbed, consumed, threadId, ids, rows>>

\* getThreadByRecipient again, after insertThread; without a row the coroutine
\* would end in an exception.
Reload(h) ==
  LET c == With[job[h].msg] IN
  /\ job[h].at = "reload"
  /\ job' = [job EXCEPT ![h] =
               IF threadId[c] = 0 THEN Idle
               ELSE [job[h] EXCEPT !.at = "insert", !.thread = threadId[c]]]
  /\ UNCHANGED <<notHandler, disturbed, consumed, threadId, ids, rows>>

\* insertThread of the coroutine; its exception ends the coroutine.
CreateThread(h) ==
  LET c == With[job[h].msg] IN
  /\ job[h].at = "create"
  /\ \/ /\ InsertThread(c)
        /\ job' = [job EXCEPT ![h].at = "reload"]
     \/ /\ InsertThreadFails(c)
        /\ job' = [job EXCEPT ![h] = Idle]
        /\ UNCHANGED <<threadId, ids>>
  /\ UNCHANGED <<notHandler, disturbed, consumed, rows>>

StoreMessage(h) ==
  /\ job[h].at = "insert"
  /\ InsertMessage(job[h].msg, job[h].text, job[h].thread)
  /\ job' = [job EXCEPT ![h].at = "notify"]
  /\ UNCHANGED <<notHandler, disturbed, consumed, threadId, ids>>

\* "Saved message from ..." and the notification.
ShowNotification(h) ==
  /\ job[h].at = "notify"
  /\ job' = [job EXCEPT ![h] = Idle]
  /\ UNCHANGED <<notHandler, disturbed, consumed, threadId, ids, rows>>

-----------------------------------------------------------------------------
(* ChatActivity                                                            *)

\* Opened for a new contact with the id 0, or from the list or a notification
\* with the id the thread had when that was made.
OpenChat(c) ==
  /\ chat = Closed
  /\ \E id \in {0} \cup {i \in DOMAIN ids : ids[i] = c} :
       chat' = [at |-> "load", with |-> c, thread |-> id, sending |-> {}]
  /\ UNCHANGED <<notChat, threadId, ids, rows, unsent>>

\* The coroutine that finds the thread, with one step for each call.
ChatLookup ==
  /\ chat.at = "load"
  /\ chat' = [chat EXCEPT
                !.at = IF chat.thread = 0 /\ threadId[chat.with] = 0 THEN "create" ELSE "ready",
                !.thread = IF @ = 0 THEN threadId[chat.with] ELSE @]
  /\ UNCHANGED <<notChat, threadId, ids, rows, unsent>>

\* The process dies; the database and the preferences' file survive.
InboxProcessDies ==
  /\ crashes < MaxCrashes
  /\ crashes' = crashes + 1
  /\ sync' = "off"
  /\ job' = [h \in Coroutines |-> Idle]
  /\ consumed' = flushed
  /\ chat' = Closed
  /\ disturbed' = (disturbed \/ flushed # consumed)
  /\ UNCHANGED <<server, flushed, tables, unsent, repeats>>

\* insertThread; where it throws, nothing catches it and the process dies.
ChatCreate ==
  /\ chat.at = "create"
  /\ \/ /\ InsertThread(chat.with)
        /\ chat' = [chat EXCEPT !.at = "ready", !.thread = Len(ids')]
        /\ UNCHANGED <<notChat, rows, unsent>>
     \/ InsertThreadFails(chat.with) /\ InboxProcessDies

\* The send button: a coroutine sends the text ...
PressSend(text) ==
  /\ chat # Closed
  /\ text \in unsent
  /\ With[text] = chat.with
  /\ unsent' = unsent \ {text}
  /\ chat' = [chat EXCEPT !.sending = @ \cup {text}]
  /\ UNCHANGED <<notChat, threadId, ids, rows>>

\* ... and stores it with the threadId the activity has by then.
StoreSent(text) ==
  /\ text \in chat.sending
  /\ InsertMessage(text, "plain", chat.thread)
  /\ chat' = [chat EXCEPT !.sending = @ \ {text}]
  /\ UNCHANGED <<notChat, threadId, ids, unsent>>

\* The text could not be sent: a bubble says so, and nothing is stored.
SendFails(text) ==
  /\ text \in chat.sending
  /\ chat' = [chat EXCEPT !.sending = @ \ {text}]
  /\ UNCHANGED <<notChat, threadId, ids, rows, unsent>>

\* deleteMessage, on a message of the open chat.
DeleteMessage(r) ==
  /\ chat.at = "ready"
  /\ r.thread = chat.thread
  /\ rows' = rows \ {r}
  /\ deleted' = deleted \cup {r.msg}
  /\ UNCHANGED <<server, sync, job, consumed, flushed, threadId, ids,
                 chat, unsent, repeats, crashes, disturbed>>

\* onDestroy cancels lifecycleScope, with what is being sent.
CloseChat ==
  /\ chat # Closed
  /\ chat' = Closed
  /\ UNCHANGED <<notChat, threadId, ids, rows, unsent>>

-----------------------------------------------------------------------------
\* The preferences' file catches up with apply().
Flush ==
  /\ flushed # consumed
  /\ flushed' = consumed
  /\ UNCHANGED <<server, sync, job, consumed, tables, chat, unsent, repeats, crashes,
                 disturbed>>

InboxNext ==
  \/ StartSync \/ StopSync \/ Flush \/ InboxProcessDies
  \/ \E msg \in Messages : OnMessage(msg)
  \/ \E h \in Coroutines : \/ LoadSession(h) \/ Decrypt(h) \/ Lookup(h) \/ CreateThread(h)
                           \/ Reload(h) \/ StoreMessage(h) \/ ShowNotification(h)
  \/ \E c \in Contacts : OpenChat(c)
  \/ ChatLookup \/ ChatCreate \/ CloseChat
  \/ \E text \in Outgoing : PressSend(text) \/ StoreSent(text) \/ SendFails(text)
  \/ \E r \in rows : DeleteMessage(r)

InboxSpec == InboxInit /\ [][InboxNext]_inboxVars

-----------------------------------------------------------------------------
(* Properties                                                              *)

\* Every stored message hangs in the one thread of its contact: no race over
\* creating a thread leaves messages in a thread that no list shows.
MessagesAreReachable == \A r \in rows : r.thread = threadId[With[r.msg]]

\* However often the server repeats a message, its text is stored once: the
\* session remembers what it opened, unless two coroutines hold it at once or the
\* process dies with session changes that apply() has not written yet.
TextStoredOnce ==
  ~disturbed => \A r, s \in rows :
    (r.msg = s.msg /\ r.text = "plain" /\ s.text = "plain") => r = s

Stored(msg) == msg \in deleted \/ \E r \in rows : r.msg = msg

\* What is about to be logged as saved is in the database: "Saved message from"
\* (BackgroundSyncManager.kt:239).
ReportedIsStored ==
  \A h \in Coroutines : job[h].at = "notify" => Stored(job[h].msg)

\* A message the server was told to forget is stored or on its way there:
\* bubbles "are stored in the sqlite db so they show up after a reopen or a
\* crash" (readme.md:11).
AcknowledgedIsKept ==
  \A msg \in Messages \ (server \cup Receipts) :
    Stored(msg) \/ \E h \in Coroutines : job[h] # Idle /\ job[h].msg = msg
=============================================================================
