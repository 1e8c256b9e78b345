--------------------------- MODULE ChatConnection ---------------------------
(***************************************************************************)
(* libsignal's chat connection (rust/net/src/chat/ws.rs over               *)
(* rust/net/infra/src/ws/connection.rs): calls of Chat::send on any        *)
(* thread, the task that owns the web socket, the listener it reports to,  *)
(* and Chat::disconnect and is_connected, which share a lock with them.    *)
(*                                                                         *)
(* A call, the task and the server take turns at every await.  Time is     *)
(* left out: a timeout may fire whenever it is armed.  Pings and messages  *)
(* the task ignores change nothing and are left out as well.               *)
(***************************************************************************)
EXTENDS Integers, Sequences

CONSTANTS Calls,            \* calls of Chat::send
          Keepalives,       \* bound: the keepalives the task may send itself
          MaxIncoming,      \* bound: requests from the server
          IdSpace,          \* u64 request ids, 2^64 in the code
          InitialRequestId, \* Config::initial_request_id
          None

ASSUME IdAssumption == /\ IdSpace \in Nat \ {0}
                       /\ InitialRequestId \in 0 .. IdSpace - 1

VARIABLES
  state,        \* TaskState behind the lock
  lock,         \* the call that holds the lock across an await
  pc,           \* where each call is
  answer,       \* what each call returned
  oneshot,      \* the response channel of each request
  queue,        \* the requests channel, of capacity 1
  responses,    \* the channel of responses to the server
  responders,   \* incoming requests not answered yet
  phase,        \* the life of the task
  result,       \* what the task ended with
  sending,      \* the message handle_next_event is writing
  nextId,       \* the id of the next request
  outstanding,  \* outstanding_reqs: [id, req] pairs
  oldest,       \* oldest_outstanding_req_sent_at: an id
  events,       \* what the listener was told
  server        \* [seen: the requests it has received, silent: it is gone]

taskVars == <<phase, result, sending, nextId, outstanding, oldest>>
vars == <<state, lock, pc, answer, oneshot, queue, responses, responders,
          taskVars, events, server>>

Requests == Calls \cup Keepalives
Graceful == {"LocalDisconnect", "RemoteDisconnect"}
CloseReasons == {"ConnectedElsewhere", "ConnectionInvalidated"}
Results == Graceful \cup CloseReasons \cup {"Failed"}  \* other TaskErrorStates
NoAnswer == [kind |-> "none"]
Failure(reason) == [kind |-> "disconnected", reason |-> reason]

\* Mutant: every end of the task looks like a closed socket.
SendErrorPlain(r) == Failure("SocketClosed")

\* The error a task's result becomes: get_task_finish_error and the conversion
\* of TaskErrorState.
SendErrorOf(r) == Failure(IF r \in CloseReasons THEN r ELSE "SocketClosed")

Init ==
  /\ state = "MaybeStillRunning"
  /\ lock = None
  /\ pc = [c \in Calls |-> "idle"]
  /\ answer = [c \in Calls |-> NoAnswer]
  /\ oneshot = [q \in Requests |-> NoAnswer]
  /\ queue = <<>> /\ responses = <<>> /\ responders = {}
  /\ phase = "running" /\ result = None
  /\ sending = None /\ nextId = InitialRequestId
  /\ outstanding = {} /\ oldest = None
  /\ events = <<"alerts">>
  /\ server = [seen |-> {}, silent |-> FALSE]

-----------------------------------------------------------------------------
(* The channels.  A call keeps its clone of the request sender until it
   returns; a Responder's sender is weak. *)

InProgress(c) == pc[c] \in {"cloned", "awaiting", "ending", "joining"}
ReceiversDropped == phase \in {"dropped", "finished"}
RequestSenders == state = "MaybeStillRunning" \/ \E c \in Calls : InProgress(c)
\* Mutant: a Responder's sender is a strong one.
HungUpResponders == /\ ~RequestSenders /\ queue = <<>>
                    /\ state # "MaybeStillRunning" /\ responses = <<>>
                    /\ responders = {}

HungUp == /\ ~RequestSenders /\ queue = <<>>
          /\ state # "MaybeStillRunning" /\ responses = <<>>

\* What a response channel holds after a send; nobody listens to a keepalive's.
Answered(q, value) == IF q \in Calls THEN value ELSE [kind |-> "ignored"]

-----------------------------------------------------------------------------
(* Chat::send. *)

Return(c, a) == /\ pc' = [pc EXCEPT ![c] = "done"]
                /\ answer' = [answer EXCEPT ![c] = a]

\* send_request: take the sender under the lock, or fail at once.
SendStart(c) ==
  /\ pc[c] = "idle" /\ lock = None
  /\ \/ /\ state = "MaybeStillRunning"
        /\ pc' = [pc EXCEPT ![c] = "cloned"]
        /\ UNCHANGED answer
     \/ /\ state = "SignaledToEnd"
        /\ Return(c, Failure("SocketClosed"))
     \/ /\ state = "Finished"
        /\ Return(c, SendErrorOf(result))
  /\ UNCHANGED <<state, lock, oneshot, queue, responses, responders, taskVars,
                 events, server>>

\* tx.send: wait for room, or see that the receiver is gone.
SendEnqueue(c) ==
  /\ pc[c] = "cloned"
  /\ \/ /\ ~ReceiversDropped /\ queue = <<>>
        /\ queue' = <<c>>
        /\ pc' = [pc EXCEPT ![c] = "awaiting"]
     \/ /\ ReceiversDropped
        /\ pc' = [pc EXCEPT ![c] = "ending"]
        /\ UNCHANGED queue
  /\ UNCHANGED <<state, lock, answer, oneshot, responses, responders, taskVars,
                 events, server>>

\* receiver.await: the answer, or the sender was dropped.
SendWake(c) ==
  /\ pc[c] = "awaiting" /\ oneshot[c].kind # "none"
  /\ IF oneshot[c].kind = "dropped"
     THEN pc' = [pc EXCEPT ![c] = "ending"] /\ UNCHANGED answer
     ELSE Return(c, oneshot[c])
  /\ UNCHANGED <<state, lock, oneshot, queue, responses, responders, taskVars,
                 events, server>>

\* get_task_finish_error up to the join: the assertion of
\* wait_for_task_to_finish panics while the task is not marked as finished, which
\* an abandoned write brings about at leisure, and the end of the task for the
\* moment between its last drop and the mark.
GetTaskFinishError(c) ==
  /\ pc[c] = "ending" /\ lock = None
  /\ \/ /\ state = "Finished"
        /\ Return(c, SendErrorOf(result))
        /\ UNCHANGED <<state, lock>>
     \/ /\ state = "SignaledToEnd"
        /\ lock' = c
        /\ pc' = [pc EXCEPT ![c] = "joining"]
        /\ UNCHANGED <<state, answer>>
     \/ /\ state = "MaybeStillRunning" /\ phase = "finished"
        /\ state' = "Finished"
        /\ Return(c, SendErrorOf(result))
        /\ UNCHANGED lock
     \/ /\ state = "MaybeStillRunning" /\ phase # "finished"
        /\ Return(c, [kind |-> "panic"])
        /\ UNCHANGED <<state, lock>>
  /\ UNCHANGED <<oneshot, queue, responses, responders, taskVars, events, server>>

\* The join of wait_for_task_to_finish, under the lock.
SendJoin(c) ==
  /\ pc[c] = "joining" /\ phase = "finished"
  /\ state' = "Finished" /\ lock' = None
  /\ Return(c, SendErrorOf(result))
  /\ UNCHANGED <<oneshot, queue, responses, responders, taskVars, events, server>>

\* The caller drops the future of its call, wherever that waits.
SendCancel(c) ==
  /\ InProgress(c)
  /\ Return(c, [kind |-> "cancelled"])
  /\ lock' = IF lock = c THEN None ELSE lock
  /\ UNCHANGED <<state, oneshot, queue, responses, responders, taskVars,
                 events, server>>

-----------------------------------------------------------------------------
(* Chat::disconnect, Chat::is_connected and Responder::send_response. *)

\* Hang up on the task.
Disconnect ==
  /\ lock = None /\ state = "MaybeStillRunning"
  /\ state' = "SignaledToEnd"
  /\ UNCHANGED <<lock, pc, answer, oneshot, queue, responses, responders,
                 taskVars, events, server>>

\* is_connected notices that the task has ended; otherwise it only looks.
IsConnected ==
  /\ lock = None /\ state = "MaybeStillRunning" /\ phase = "finished"
  /\ state' = "Finished"
  /\ UNCHANGED <<lock, pc, answer, oneshot, queue, responses, responders,
                 taskVars, events, server>>

\* The weak sender upgrades only while the state holds the strong one.
SendResponse(i) ==
  /\ i \in responders
  /\ responders' = responders \ {i}
  /\ responses' = IF state = "MaybeStillRunning" /\ ~ReceiversDropped
                  THEN Append(responses, i) ELSE responses
  /\ UNCHANGED <<state, lock, pc, answer, oneshot, queue, taskVars, events,
                 server>>

-----------------------------------------------------------------------------
(* The task: handle_one_event, one event at a time. *)

Ready == phase = "running" /\ sending = None

\* The loop ends.
Finish(r) == phase' = "finishing" /\ result' = r

\* Mutant: the id is not advanced.
NextRequestIdSame == nextId

\* wrapping_add(1).
NextRequestId == (nextId + 1) % IdSpace

\* An item of the merged outgoing stream; a request is given its id.
TakeRequest ==
  /\ Ready /\ queue # <<>>
  /\ sending' = [req |-> Head(queue), id |-> nextId]
  /\ queue' = Tail(queue)
  /\ nextId' = NextRequestId
  /\ UNCHANGED <<state, lock, pc, answer, oneshot, responses, responders, phase,
                 result, outstanding, oldest, events, server>>

TakeResponse ==
  /\ Ready /\ responses # <<>>
  /\ sending' = [req |-> None, id |-> Head(responses)]
  /\ responses' = Tail(responses)
  /\ UNCHANGED <<state, lock, pc, answer, oneshot, queue, responders, phase,
                 result, nextId, outstanding, oldest, events, server>>

\* InFlightRequests::record_send.
RecordSend(id, q) ==
  /\ outstanding' = outstanding \cup {[id |-> id, req |-> q]}
  /\ oldest' = IF oldest = None THEN id ELSE oldest

\* MessageEvent::SentMessage.
Sent ==
  /\ phase = "running" /\ sending # None
  /\ IF sending.req = None
     THEN UNCHANGED <<outstanding, oldest, server>>
     ELSE /\ RecordSend(sending.id, sending.req)
          /\ server' = [server EXCEPT !.seen = @ \cup {sending}]
  /\ sending' = None
  /\ UNCHANGED <<state, lock, pc, answer, oneshot, queue, responses, responders,
                 phase, result, nextId, events>>

\* MessageEvent::SendFailed: the request hears of it, the task ends.
SendFailed ==
  /\ phase = "running" /\ sending # None
  /\ oneshot' = IF sending.req = None THEN oneshot
                ELSE [oneshot EXCEPT ![sending.req] =
                       Answered(sending.req, [kind |-> "sendFailed"])]
  /\ sending' = None
  /\ \E r \in {"RemoteDisconnect", "Failed"} : Finish(r)
  /\ UNCHANGED <<state, lock, pc, answer, queue, responses, responders, nextId,
                 outstanding, oldest, events, server>>

\* InFlightRequests::finish_send.
FinishSend(id, value) ==
  LET done == {o \in outstanding : o.id = id} IN
  /\ oneshot' = [q \in Requests |->
                   IF \E o \in done : o.req = q THEN Answered(q, value)
                   ELSE oneshot[q]]
  /\ outstanding' = outstanding \ done
  /\ oldest' = IF oldest = id THEN None ELSE oldest

\* A response to a request the server has seen, the first or a repeated one,
\* well-formed or not.
ReceiveResponse(m) ==
  /\ Ready /\ ~server.silent /\ m \in server.seen
  /\ \E kind \in {"ok", "invalidResponse"} :
       FinishSend(m.id, [kind |-> kind, to |-> m.req])
  /\ UNCHANGED <<state, lock, pc, answer, queue, responses, responders, phase,
                 result, sending, nextId, events, server>>

\* A request: the task waits for the listener.
ReceiveRequest ==
  LET i == Len(events) IN
  /\ Ready /\ ~server.silent /\ i <= MaxIncoming
  /\ phase' = "listening"
  /\ events' = Append(events, "message")
  /\ responders' = responders \cup {i}
  /\ UNCHANGED <<state, lock, pc, answer, oneshot, queue, responses, result,
                 sending, nextId, outstanding, oldest, server>>

ListenerReturns ==
  /\ phase = "listening"
  /\ phase' = "running"
  /\ UNCHANGED <<state, lock, pc, answer, oneshot, queue, responses, responders,
                 result, sending, nextId, outstanding, oldest, events, server>>

\* The server closes, with or without a close frame, or the socket fails.
ServerCloses ==
  /\ Ready
  /\ \E r \in IF server.silent THEN {"Failed"} ELSE Results \ {"LocalDisconnect"} :
       Finish(r)
  /\ UNCHANGED <<state, lock, pc, answer, oneshot, queue, responses, responders,
                 sending, nextId, outstanding, oldest, events, server>>

\* RemoteDisconnectedTimeout: nothing was heard for remote_idle_timeout.
IdleTimeout ==
  /\ Ready
  /\ Finish("Failed")
  /\ UNCHANGED <<state, lock, pc, answer, oneshot, queue, responses, responders,
                 sending, nextId, outstanding, oldest, events, server>>

\* OutstandingRequestTimeout on another interface than the connection's; on
\* the same one the task only goes on waiting.  A write that it cuts short is
\* abandoned, with the response channel of its request.
InterfaceChanged ==
  /\ phase = "running" /\ oldest # None
  /\ Finish("Failed")
  /\ oneshot' = [q \in Requests |-> IF sending # None /\ sending.req = q
                                    THEN Answered(q, [kind |-> "dropped"])
                                    ELSE oneshot[q]]
  /\ sending' = None
  /\ UNCHANGED <<state, lock, pc, answer, queue, responses, responders, nextId,
                 outstanding, oldest, events, server>>

\* NetworkChangeEvent while no request is tracked: a keepalive of the task's
\* own, if the channel is open and has room.
NetworkChange ==
  /\ phase = "running" /\ oldest = None /\ RequestSenders /\ queue = <<>>
  /\ \E k \in Keepalives :
       /\ oneshot[k] = NoAnswer
       /\ oneshot' = [oneshot EXCEPT ![k] = [kind |-> "ignored"]]
       /\ queue' = <<k>>
  /\ UNCHANGED <<state, lock, pc, answer, responses, responders, taskVars,
                 events, server>>

\* ClientDisconnect: both outgoing channels are at their end.
ClientDisconnect ==
  /\ Ready /\ HungUp
  /\ \E r \in {"LocalDisconnect", "Failed"} : Finish(r)
  /\ UNCHANGED <<state, lock, pc, answer, oneshot, queue, responses, responders,
                 sending, nextId, outstanding, oldest, events, server>>

\* The listener is told, which may take it a while.
TellListener ==
  /\ phase = "finishing"
  /\ phase' = "telling"
  /\ events' = Append(events, "finished")
  /\ UNCHANGED <<state, lock, pc, answer, oneshot, queue, responses, responders,
                 result, sending, nextId, outstanding, oldest, server>>

\* The requests whose response channel the connection still holds.
Unanswered ==
  {q \in Requests : \/ q \in {queue[i] : i \in DOMAIN queue}
                    \/ sending # None /\ sending.req = q
                    \/ \E o \in outstanding : o.req = q}

\* The connection is gone, with its channels and the response senders of gone.
Drop(gone) ==
  /\ phase' = "dropped"
  /\ oneshot' = [q \in Requests |-> IF q \in gone
                                    THEN Answered(q, [kind |-> "dropped"])
                                    ELSE oneshot[q]]
  /\ queue' = <<>> /\ responses' = <<>>
  /\ sending' = None /\ outstanding' = {} /\ oldest' = None
  /\ UNCHANGED <<state, lock, pc, answer, responders, result, nextId, events,
                 server>>

\* Mutant: the connection is dropped as soon as the loop has ended.
DropConnectionEarly == phase \in {"finishing", "telling"} /\ Drop(Unanswered)

\* Mutant: the requests in flight are shared and outlive the connection.
DropConnectionShared == phase = "telling" /\ Drop({queue[i] : i \in DOMAIN queue})

\* spawned_task_body returns when the listener has returned.
DropConnection == phase = "telling" /\ Drop(Unanswered)

\* The runtime marks the task as finished.
TaskFinished ==
  /\ phase = "dropped"
  /\ phase' = "finished"
  /\ UNCHANGED <<state, lock, pc, answer, oneshot, queue, responses, responders,
                 result, sending, nextId, outstanding, oldest, events, server>>

\* The server is gone without a trace.
ServerSilent ==
  /\ ~server.silent /\ phase = "running"
  /\ server' = [server EXCEPT !.silent = TRUE]
  /\ UNCHANGED <<state, lock, pc, answer, oneshot, queue, responses, responders,
                 taskVars, events>>

CallStep(c) == SendEnqueue(c) \/ SendWake(c) \/ GetTaskFinishError(c) \/ SendJoin(c)
TaskStep == \/ TakeRequest \/ TakeResponse \/ Sent \/ SendFailed \/ ListenerReturns
            \/ ClientDisconnect \/ TellListener \/ DropConnection \/ TaskFinished

Next == \/ \E c \in Calls : SendStart(c) \/ CallStep(c) \/ SendCancel(c)
        \/ Disconnect \/ IsConnected
        \/ \E i \in responders : SendResponse(i)
        \/ TaskStep
        \/ \E m \in server.seen : ReceiveResponse(m)
        \/ ReceiveRequest \/ ServerCloses \/ IdleTimeout
        \/ InterfaceChanged \/ NetworkChange \/ ServerSilent

\* Every thread that can go on does so, listeners return, and a server that is
\* never heard again runs into the idle timeout.  A server owes no answer.
Fairness == /\ \A c \in Calls : WF_vars(CallStep(c))
            /\ WF_vars(TaskStep)
            /\ WF_vars(server.silent /\ IdleTimeout)

Spec == Init /\ [][Next]_vars /\ Fairness

-----------------------------------------------------------------------------
Values == {NoAnswer, [kind |-> "dropped"], [kind |-> "sendFailed"], [kind |-> "ignored"]}
          \cup [kind : {"ok", "invalidResponse"}, to : Requests]
Phases == {"running", "listening", "finishing", "telling", "dropped", "finished"}
Outgoing == [req : Requests \cup {None}, id : Nat]
Answers == Values \cup {Failure(r) : r \in CloseReasons \cup {"SocketClosed"}}
                  \cup {[kind |-> "panic"], [kind |-> "cancelled"]}

ASSUME NamesAssumption == /\ Calls \cap Keepalives = {}
                          /\ None \notin Outgoing \cup Requests \cup Nat

TypeOK ==
  /\ state \in {"MaybeStillRunning", "SignaledToEnd", "Finished"}
  /\ lock \in Calls \cup {None}
  /\ pc \in [Calls -> {"idle", "cloned", "awaiting", "ending", "joining", "done"}]
  /\ answer \in [Calls -> Answers]
  /\ oneshot \in [Requests -> Values]
  /\ queue \in Seq(Requests) /\ Len(queue) <= 1
  /\ responses \in Seq(Nat) /\ responders \subseteq Nat
  /\ phase \in Phases
  /\ result \in Results \cup {None}
  /\ sending \in Outgoing \cup {None}
  /\ nextId \in 0 .. IdSpace - 1
  /\ outstanding \subseteq [id : Nat, req : Requests]
  /\ oldest \in Nat \cup {None}
  /\ events \in Seq({"alerts", "message", "finished"})
  /\ server \in [seen : SUBSET [req : Requests, id : Nat], silent : BOOLEAN]

\* The request whose age decides whether the connection is looked at
\* (oldest_outstanding_req_sent_at) is one that is still unanswered.
OldestIsOutstanding ==
  oldest # None => \E o \in outstanding : o.id = oldest

\* A call that waits for its response either finds one in its channel, or the
\* connection still holds the other end: no caller waits for nobody.
NoCallForgotten ==
  \A c \in Calls : pc[c] = "awaiting" =>
    oneshot[c] # NoAnswer \/ c \in Unanswered

\* A response reaches the call whose request it answers, although responses are
\* matched by id alone, come in any order and may be repeated.
AnswerIsOwn ==
  \A c \in Calls : answer[c].kind = "ok" => answer[c].to = c

Told == events[Len(events)] = "finished"

\* The listener hears Finished once, after everything else, and before anybody
\* reports that the connection has ended: before the state says so, and before a
\* call that was cut off returns.  (A call whose own write failed returns before.)
FinishedIsTold ==
  /\ \A i \in DOMAIN events : events[i] = "finished" => i = Len(events)
  /\ state = "Finished" \/ ReceiversDropped => Told
  /\ \A c \in Calls :
       oneshot[c].kind = "dropped" /\ answer[c].kind = "disconnected" => Told

\* A call that asks for the reason of the end finds the task at its end: "Since the
\* earlier send failed, the task must have dropped its receiver, and it doesn't do
\* much after that" (ws.rs:749-751), which wait_for_task_to_finish asserts.
CutOffMeansEnded == \A c \in Calls : pc[c] = "ending" => ReceiversDropped

\* A call cut off by the end of the connection reports why the server ended it
\* ("Fetch the reason for the underlying connection failure").
ReasonIsReported ==
  \A c \in Calls :
    oneshot[c].kind = "dropped" /\ answer[c].kind = "disconnected"
      => answer[c].reason = IF result \in CloseReasons THEN result
                            ELSE "SocketClosed"

\* When the server is gone for good, or the task is ending, no call waits for
\* ever: the idle timeout ends the task, its end wakes every call, and each
\* comes back from the lock and the join.
CallsComeBack ==
  (server.silent \/ phase \in {"finishing", "telling"}) ~> \A c \in Calls : ~InProgress(c)

\* After Chat::disconnect, with no call in progress, the task ends, whatever
\* the server and unanswered incoming requests do.
DisconnectEnds ==
  (state = "SignaledToEnd" /\ \A c \in Calls : ~InProgress(c))
     ~> phase = "finished"

=============================================================================
