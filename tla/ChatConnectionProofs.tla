------------------------ MODULE ChatConnectionProofs ------------------------
(***************************************************************************)
(* ChatConnection for any number of calls, keepalives and requests from    *)
(* the server, and any space of request ids.                               *)
(***************************************************************************)
EXTENDS ChatConnection, TLAPS

\* The listener has been told, and when the end may be seen.
Over == phase \in {"telling", "dropped", "finished"}
EndInv ==
  /\ Len(events) > 0
  /\ \A i \in DOMAIN events : events[i] = "finished" => i = Len(events)
  /\ events[Len(events)] = "finished" <=> Over
  /\ state = "Finished" => phase = "finished"

\* The connection has never had the request of this call.
Untouched(c) == oneshot[c] = NoAnswer /\ c \notin Unanswered
ReasonInv ==
  \A c \in Calls :
    /\ pc[c] \in {"idle", "cloned"} => Untouched(c)
    /\ answer[c].kind = "disconnected" =>
         /\ pc[c] = "done"
         /\ Untouched(c) \/ (phase = "finished" /\ answer[c] = SendErrorOf(result))

ConnectionInv == TypeOK /\ EndInv /\ OldestIsOutstanding /\ NoCallForgotten /\ ReasonInv

-----------------------------------------------------------------------------
(* Types *)

LEMMA ValueKinds ==
  /\ \A v \in Values : v \in Answers /\ v.kind # "disconnected"
  /\ \A v \in Values : v # NoAnswer <=> v.kind # "none"
  /\ \A r : SendErrorOf(r) \in Answers /\ SendErrorOf(r).kind = "disconnected"
<1>1. \A v \in Values : v.kind # "disconnected" /\ (v # NoAnswer <=> v.kind # "none")
  BY DEF Values, NoAnswer
<1>2. \A r : SendErrorOf(r) \in Answers /\ SendErrorOf(r).kind = "disconnected"
  BY Zenon DEF SendErrorOf, Failure, Answers, CloseReasons
<1> QED
  BY Zenon, <1>1, <1>2 DEF Answers

LEMMA CallTypes ==
  ASSUME TypeOK, NEW c \in Calls, SendStart(c) \/ CallStep(c) \/ SendCancel(c)
  PROVE  TypeOK'
<1> USE DEF Return, taskVars
<1>1. CASE SendStart(c)
  <2>1. answer' \in [Calls -> Answers]
    <3>1. Failure("SocketClosed") \in Answers
      BY Zenon DEF Answers
    <3>2. SendErrorOf(result) \in Answers
      BY Zenon, ValueKinds
    <3>3. answer' = answer \/ \E a \in Answers : answer' = [answer EXCEPT ![c] = a]
      BY Zenon, <1>1, <3>1, <3>2 DEF SendStart
    <3> QED
      BY Zenon, <3>3 DEF TypeOK
  <2>2. pc' \in [Calls -> {"idle", "cloned", "awaiting", "ending", "joining", "done"}]
    BY Zenon, <1>1 DEF SendStart, TypeOK
  <2> QED
    BY Zenon, <1>1, <2>1, <2>2 DEF SendStart, TypeOK
<1>2. CASE SendEnqueue(c)
  <2>1. queue' \in Seq(Requests) /\ Len(queue') <= 1
    <3>1. <<c>> \in Seq(Requests) /\ Len(<<c>>) = 1
      BY DEF Requests
    <3>2. queue' = <<c>> \/ queue' = queue
      BY Zenon, <1>2 DEF SendEnqueue
    <3>3. CASE queue' = <<c>>
      <4>1. Len(queue') = Len(<<c>>)
        BY Zenon, <3>3
      <4> QED
        BY <3>1, <3>3, <4>1
    <3> QED
      BY Zenon, <3>2, <3>3 DEF TypeOK
  <2>2. pc' \in [Calls -> {"idle", "cloned", "awaiting", "ending", "joining", "done"}]
    BY Zenon, <1>2 DEF SendEnqueue, TypeOK
  <2> QED
    BY Zenon, <1>2, <2>1, <2>2 DEF SendEnqueue, TypeOK
<1>3. CASE SendWake(c)
  <2>1. answer' \in [Calls -> Answers]
    <3>1. oneshot[c] \in Answers
      BY Zenon, ValueKinds DEF TypeOK, Requests
    <3> QED
      BY Zenon, <1>3, <3>1 DEF SendWake, TypeOK
  <2>2. pc' \in [Calls -> {"idle", "cloned", "awaiting", "ending", "joining", "done"}]
    BY Zenon, <1>3 DEF SendWake, TypeOK
  <2> QED
    BY Zenon, <1>3, <2>1, <2>2 DEF SendWake, TypeOK
<1>4. CASE GetTaskFinishError(c) \/ SendJoin(c) \/ SendCancel(c)
  <2>1. answer' \in [Calls -> Answers]
    <3>1. [kind |-> "panic"] \in Answers /\ [kind |-> "cancelled"] \in Answers
      BY Zenon DEF Answers
    <3>2. SendErrorOf(result) \in Answers
      BY Zenon, ValueKinds
    <3>3. answer' = answer \/ \E a \in Answers : answer' = [answer EXCEPT ![c] = a]
      BY Zenon, <1>4, <3>1, <3>2 DEF GetTaskFinishError, SendJoin, SendCancel
    <3> QED
      BY Zenon, <3>3 DEF TypeOK
  <2>2. pc' \in [Calls -> {"idle", "cloned", "awaiting", "ending", "joining", "done"}]
    BY Zenon, <1>4 DEF GetTaskFinishError, SendJoin, SendCancel, TypeOK
  <2>3. lock' \in Calls \cup {None}
    BY Zenon, <1>4 DEF GetTaskFinishError, SendJoin, SendCancel, TypeOK
  <2>4. state' \in {"MaybeStillRunning", "SignaledToEnd", "Finished"}
    BY Zenon, <1>4 DEF GetTaskFinishError, SendJoin, SendCancel, TypeOK
  <2> QED
    BY Zenon, <1>4, <2>1, <2>2, <2>3, <2>4 DEF GetTaskFinishError, SendJoin, SendCancel, TypeOK
<1> QED
  BY Zenon, <1>1, <1>2, <1>3, <1>4 DEF CallStep

LEMMA FinishTypes ==
  ASSUME TypeOK, NEW r \in Results, Finish(r)
  PROVE  phase' \in Phases /\ result' \in Results \cup {None}
BY DEF Finish, TypeOK, Phases

LEMMA TaskTypes ==
  ASSUME TypeOK,
         \/ TaskStep \/ ReceiveRequest \/ ServerCloses \/ IdleTimeout
         \/ InterfaceChanged \/ NetworkChange \/ ServerSilent
         \/ \E m \in server.seen : ReceiveResponse(m)
  PROVE  TypeOK'
<1>1. CASE TakeRequest
  <2>1. Head(queue) \in Requests /\ Tail(queue) \in Seq(Requests) /\ Len(Tail(queue)) <= 1
    BY <1>1 DEF TakeRequest, TypeOK
  <2>2. NextRequestId \in 0 .. IdSpace - 1 /\ nextId \in Nat
    BY IdAssumption DEF IdAssumption, NextRequestId, TypeOK
  <2>3. sending' \in Outgoing
    BY Zenon, <1>1, <2>1, <2>2 DEF TakeRequest, Outgoing
  <2> QED
    BY Zenon, <1>1, <2>1, <2>2, <2>3 DEF TakeRequest, TypeOK
<1>2. CASE TakeResponse
  <2>1. Head(responses) \in Nat /\ Tail(responses) \in Seq(Nat)
    BY <1>2 DEF TakeResponse, TypeOK
  <2>2. sending' \in Outgoing
    BY Zenon, <1>2, <2>1 DEF TakeResponse, Outgoing
  <2> QED
    BY Zenon, <1>2, <2>1, <2>2 DEF TakeResponse, TypeOK
<1>3. CASE Sent
  <2>1. sending \in Outgoing
    BY Zenon, <1>3 DEF Sent, TypeOK
  <2>2. /\ outstanding' \subseteq [id : Nat, req : Requests]
        /\ oldest' \in Nat \cup {None}
    BY <1>3, <2>1 DEF Sent, RecordSend, TypeOK, Outgoing
  <2>3. server' \in [seen : SUBSET [req : Requests, id : Nat], silent : BOOLEAN]
    <3>1. CASE sending.req = None
      BY Zenon, <1>3, <3>1 DEF Sent, TypeOK
    <3>2. CASE sending.req # None
      <4>1. sending \in [req : Requests, id : Nat]
        BY Zenon, <2>1, <3>2 DEF Outgoing
      <4>2. server' = [server EXCEPT !.seen = @ \cup {sending}]
        BY Zenon, <1>3, <3>2 DEF Sent
      <4> QED
        BY Zenon, <4>1, <4>2 DEF TypeOK
    <3> QED
      BY Zenon, <3>1, <3>2
  <2> QED
    BY Zenon, <1>3, <2>2, <2>3 DEF Sent, TypeOK
<1>4. CASE SendFailed
  <2>1. sending \in Outgoing
    BY Zenon, <1>4 DEF SendFailed, TypeOK
  <2>2. oneshot' \in [Requests -> Values]
    BY Zenon, <1>4, <2>1 DEF SendFailed, TypeOK, Outgoing, Answered, Values
  <2>3. PICK r \in Results : Finish(r)
    BY Zenon, <1>4 DEF SendFailed, Results, Graceful
  <2> QED
    BY Zenon, <1>4, <2>2, <2>3, FinishTypes DEF SendFailed, TypeOK
<1>5. CASE ServerCloses \/ IdleTimeout \/ ClientDisconnect
  <2>1. PICK r \in Results : Finish(r)
    BY Zenon, <1>5 DEF ServerCloses, IdleTimeout, ClientDisconnect, Results, Graceful
  <2> QED
    BY ZenonT(60), <1>5, <2>1, FinishTypes
       DEF ServerCloses, IdleTimeout, ClientDisconnect, TypeOK
<1>12. CASE InterfaceChanged
  <2>1. oneshot' \in [Requests -> Values]
    BY Zenon, <1>12 DEF InterfaceChanged, TypeOK, Answered, Values
  <2>2. phase' \in Phases /\ result' \in Results \cup {None}
    BY Zenon, <1>12, FinishTypes DEF InterfaceChanged, Results
  <2> QED
    BY Zenon, <1>12, <2>1, <2>2 DEF InterfaceChanged, TypeOK
<1>13. CASE TellListener
  <2>1. Append(events, "finished") \in Seq({"alerts", "message", "finished"})
    BY DEF TypeOK
  <2> QED
    BY Zenon, <1>13, <2>1 DEF TellListener, TypeOK, Phases
<1>6. CASE ListenerReturns \/ TaskFinished
  BY Zenon, <1>6 DEF ListenerReturns, TaskFinished, TypeOK, Phases
<1>7. CASE ServerSilent
  <2>1. server' \in [seen : SUBSET [req : Requests, id : Nat], silent : BOOLEAN]
    BY Zenon, <1>7 DEF ServerSilent, TypeOK
  <2> QED
    BY Zenon, <1>7, <2>1 DEF ServerSilent, TypeOK, taskVars
<1>8. CASE DropConnection
  <2>1. oneshot' \in [Requests -> Values]
    BY Zenon, <1>8 DEF DropConnection, Drop, TypeOK, Answered, Values
  <2> QED
    BY <1>8, <2>1 DEF DropConnection, Drop, TypeOK, Phases
<1>9. CASE NetworkChange
  <2>1. oneshot' \in [Requests -> Values] /\ queue' \in Seq(Requests) /\ Len(queue') <= 1
    BY <1>9 DEF NetworkChange, TypeOK, Values, Requests
  <2> QED
    BY Zenon, <1>9, <2>1 DEF NetworkChange, TypeOK, taskVars
<1>10. CASE ReceiveRequest
  <2>1. responders' \subseteq Nat /\ events' \in Seq({"alerts", "message", "finished"})
    <3>1. Len(events) \in Nat /\ Append(events, "message") \in Seq({"alerts", "message", "finished"})
      BY DEF TypeOK
    <3> QED
      BY Zenon, <1>10, <3>1 DEF ReceiveRequest, TypeOK
  <2> QED
    BY Zenon, <1>10, <2>1 DEF ReceiveRequest, TypeOK, Phases
<1>11. ASSUME NEW m \in server.seen, ReceiveResponse(m) PROVE TypeOK'
  <2>1. PICK kind \in {"ok", "invalidResponse"} : FinishSend(m.id, [kind |-> kind, to |-> m.req])
    BY Zenon, <1>11 DEF ReceiveResponse
  <2>2. m.id \in Nat /\ m.req \in Requests
    BY Zenon DEF TypeOK
  <2>3. oneshot' \in [Requests -> Values]
    BY Zenon, <2>1, <2>2 DEF FinishSend, Answered, Values, TypeOK
  <2>4. outstanding' \subseteq [id : Nat, req : Requests] /\ oldest' \in Nat \cup {None}
    BY Zenon, <2>1 DEF FinishSend, TypeOK
  <2> QED
    BY Zenon, <1>11, <2>3, <2>4 DEF ReceiveResponse, TypeOK
<1> QED
  BY Zenon, <1>1, <1>2, <1>3, <1>4, <1>5, <1>6, <1>7, <1>8, <1>9, <1>10, <1>11, <1>12,
     <1>13 DEF TaskStep

LEMMA AroundTypes ==
  ASSUME TypeOK,
         \/ Disconnect \/ IsConnected \/ UNCHANGED vars
         \/ \E i \in responders : SendResponse(i)
  PROVE  TypeOK'
<1>1. CASE Disconnect \/ IsConnected \/ UNCHANGED vars
  BY Zenon, <1>1 DEF Disconnect, IsConnected, vars, taskVars, TypeOK
<1>2. ASSUME NEW i \in responders, SendResponse(i) PROVE TypeOK'
  <2>1. responses' \in Seq(Nat) /\ responders' \subseteq Nat
    <3>1. Append(responses, i) \in Seq(Nat)
      BY DEF TypeOK
    <3> QED
      BY Zenon, <1>2, <3>1 DEF SendResponse, TypeOK
  <2> QED
    BY Zenon, <1>2, <2>1 DEF SendResponse, TypeOK, taskVars
<1> QED
  BY Zenon, <1>1, <1>2

-----------------------------------------------------------------------------
(* The end of the task *)

\* Steps after which the listener has been told the same and the task is as
\* far as it was.
LEMMA QuietEnd ==
  ASSUME EndInv, UNCHANGED events, phase' = phase,
         state' = "Finished" => state = "Finished" \/ phase = "finished"
  PROVE  EndInv'
BY Zenon DEF EndInv, Over

LEMMA CallEnd ==
  ASSUME TypeOK, EndInv, NEW c \in Calls, SendStart(c) \/ CallStep(c) \/ SendCancel(c)
  PROVE  EndInv'
<1> USE DEF Return, taskVars
<1>1. UNCHANGED events /\ phase' = phase
  BY Zenon DEF SendStart, CallStep, SendEnqueue, SendWake, GetTaskFinishError, SendJoin, SendCancel
<1>2. state' = "Finished" => state = "Finished" \/ phase = "finished"
  BY Zenon DEF SendStart, CallStep, SendEnqueue, SendWake, GetTaskFinishError, SendJoin, SendCancel
<1> QED
  BY Zenon, <1>1, <1>2, QuietEnd

\* An event appended before the end.
LEMMA EventAppended ==
  ASSUME TypeOK, EndInv, ~Over, NEW e \in {"message", "finished"}, events' = Append(events, e),
         phase' \in {"listening", "telling"}, e = "finished" <=> phase' = "telling",
         UNCHANGED state
  PROVE  EndInv'
<1>1. /\ Len(events') = Len(events) + 1 /\ events'[Len(events')] = e
      /\ \A i \in DOMAIN events : events'[i] = events[i] /\ events[i] # "finished"
      /\ DOMAIN events' = DOMAIN events \cup {Len(events')}
      /\ Len(events) \in Nat
  BY DEF TypeOK, EndInv
<1>2. \A i \in DOMAIN events' : events'[i] = "finished" => i = Len(events')
  BY Zenon, <1>1
<1>3. events'[Len(events')] = "finished" <=> Over'
  BY Zenon, <1>1 DEF Over
<1> QED
  BY SMTT(30), <1>1, <1>2, <1>3 DEF EndInv, Over

LEMMA TaskEnd ==
  ASSUME TypeOK, EndInv,
         \/ TaskStep \/ ReceiveRequest \/ ServerCloses \/ IdleTimeout
         \/ InterfaceChanged \/ NetworkChange \/ ServerSilent
         \/ \E m \in server.seen : ReceiveResponse(m)
  PROVE  EndInv'
<1> USE DEF taskVars
<1>1. CASE TakeRequest \/ TakeResponse \/ Sent \/ ServerSilent
  BY Zenon, <1>1, QuietEnd DEF TakeRequest, TakeResponse, Sent, ServerSilent
<1>2. CASE ServerCloses \/ IdleTimeout \/ InterfaceChanged \/ ClientDisconnect \/ SendFailed
  BY Zenon, <1>2 DEF ServerCloses, IdleTimeout, InterfaceChanged, ClientDisconnect, SendFailed,
                     Finish, Ready, EndInv, Over
<1>3. CASE ReceiveRequest \/ TellListener
  BY Zenon, <1>3, EventAppended DEF ReceiveRequest, TellListener, Ready, Over
<1>4. CASE ListenerReturns \/ TaskFinished
  BY Zenon, <1>4 DEF ListenerReturns, TaskFinished, EndInv, Over
<1>5. CASE NetworkChange \/ DropConnection
  BY Zenon, <1>5 DEF NetworkChange, DropConnection, Drop, EndInv, Over
<1>6. ASSUME NEW m \in server.seen, ReceiveResponse(m) PROVE EndInv'
  BY Zenon, <1>6 DEF ReceiveResponse, EndInv, Over
<1> QED
  BY Zenon, <1>1, <1>2, <1>3, <1>4, <1>5, <1>6 DEF TaskStep

-----------------------------------------------------------------------------
(* Requests in flight *)

\* Where a request is while the connection has it.
Queued(q) == q \in {queue[i] : i \in DOMAIN queue}
Writing(q) == sending # None /\ sending.req = q
Tracked(q) == \E o \in outstanding : o.req = q

LEMMA UnansweredMeans ==
  \A q \in Requests : q \in Unanswered <=> Queued(q) \/ Writing(q) \/ Tracked(q)
BY Zenon DEF Unanswered, Queued, Writing, Tracked

LEMMA NoneInIt ==
  ASSUME NEW S, NEW seq \in Seq(S), Len(seq) = 0
  PROVE  seq = <<>>
  OBVIOUS

\* The channel of capacity 1 loses nothing when its item is taken.
LEMMA QueueTaken ==
  ASSUME TypeOK, queue # <<>>
  PROVE  /\ Tail(queue) = <<>>
         /\ \A q : Queued(q) <=> q = Head(queue)
<1>1. queue \in Seq(Requests) /\ Len(queue) = 1
  <2>1. queue \in Seq(Requests) /\ Len(queue) <= 1
    BY Zenon DEF TypeOK
  <2>2. Len(queue) \in Nat \ {0}
    BY <2>1
  <2> QED
    BY SMTT(30), <2>1, <2>2
<1>2. DOMAIN queue = {1} /\ Head(queue) = queue[1]
  BY <1>1
<1>3. Tail(queue) \in Seq(Requests) /\ Len(Tail(queue)) = 0
  BY <1>1
<1>4. Tail(queue) = <<>>
  BY Zenon, <1>3, NoneInIt
<1> QED
  BY Zenon, <1>2, <1>4 DEF Queued

\* A step of a connection that keeps what it has, and answers what it lets go.
LEMMA CallsKept ==
  ASSUME NoCallForgotten,
         \A c \in Calls : pc'[c] = "awaiting" => pc[c] = "awaiting",
         \A c \in Calls : oneshot[c] # NoAnswer => oneshot'[c] # NoAnswer,
         \A c \in Calls : c \in Unanswered => c \in Unanswered' \/ oneshot'[c] # NoAnswer
  PROVE  NoCallForgotten'
BY Zenon DEF NoCallForgotten

LEMMA CallTracked ==
  ASSUME TypeOK, NoCallForgotten, OldestIsOutstanding,
         NEW c \in Calls, SendStart(c) \/ CallStep(c) \/ SendCancel(c)
  PROVE  NoCallForgotten' /\ OldestIsOutstanding'
<1> USE DEF Return, taskVars
<1>1. UNCHANGED <<oneshot, outstanding, oldest, sending>>
  BY Zenon DEF SendStart, CallStep, SendEnqueue, SendWake, GetTaskFinishError, SendJoin, SendCancel
<1>2. CASE SendEnqueue(c) /\ queue' # queue
  <2>1. queue' = <<c>> /\ queue = <<>> /\ pc' = [pc EXCEPT ![c] = "awaiting"]
    BY Zenon, <1>2 DEF SendEnqueue
  <2>2. Queued(c)'
    BY <2>1 DEF Queued
  <2>3. \A o \in Calls \ {c} : o \in Unanswered => o \in Unanswered'
    BY <1>1, <2>1 DEF Unanswered
  <2>4. c \in Unanswered'
    BY Zenon, <2>2, UnansweredMeans DEF Requests, Unanswered, Queued
  <2> QED
    BY Zenon, <1>1, <2>1, <2>3, <2>4 DEF NoCallForgotten, TypeOK, OldestIsOutstanding
<1>3. CASE queue' = queue
  <2>1. Unanswered' = Unanswered
    BY Zenon, <1>1, <1>3 DEF Unanswered
  <2>2. \A o \in Calls : pc'[o] = "awaiting" => pc[o] = "awaiting"
    <3>1. CASE SendEnqueue(c)
      <4>1. <<c>> # <<>>
        BY Zenon
      <4>2. pc' = [pc EXCEPT ![c] = "ending"]
        BY Zenon, <1>3, <3>1, <4>1 DEF SendEnqueue
      <4> QED
        BY Zenon, <4>2 DEF TypeOK
    <3> QED
      BY Zenon, <3>1 DEF SendStart, CallStep, SendWake, GetTaskFinishError, SendJoin, SendCancel, TypeOK
  <2> QED
    BY Zenon, <1>1, <2>1, <2>2, CallsKept DEF OldestIsOutstanding
<1> QED
  BY Zenon, <1>2, <1>3 DEF SendStart, CallStep, SendWake, GetTaskFinishError, SendJoin, SendCancel

LEMMA TaskTracked ==
  ASSUME TypeOK, NoCallForgotten, OldestIsOutstanding,
         \/ TaskStep \/ ReceiveRequest \/ ServerCloses \/ IdleTimeout
         \/ InterfaceChanged \/ NetworkChange \/ ServerSilent
         \/ \E m \in server.seen : ReceiveResponse(m)
  PROVE  NoCallForgotten' /\ OldestIsOutstanding'
<1> USE DEF taskVars
<1>1. CASE \/ TakeResponse /\ sending = None
           \/ ReceiveRequest \/ ServerCloses \/ IdleTimeout \/ ServerSilent
           \/ ListenerReturns \/ ClientDisconnect \/ TellListener \/ TaskFinished
  <2>1. UNCHANGED <<pc, oneshot, queue, outstanding, oldest>>
    BY Zenon, <1>1 DEF TakeResponse, ReceiveRequest, ServerCloses, IdleTimeout, ServerSilent,
                ListenerReturns, ClientDisconnect, TellListener, TaskFinished, Finish
  <2>2. UNCHANGED sending \/ sending = None
    BY Zenon, <1>1 DEF TakeResponse, ReceiveRequest, ServerCloses, IdleTimeout, ServerSilent,
                ListenerReturns, ClientDisconnect, TellListener, TaskFinished, Finish
  <2>3. Unanswered \subseteq Unanswered'
    BY Zenon, <2>1, <2>2 DEF Unanswered
  <2> QED
    BY Zenon, <2>1, <2>3, CallsKept DEF OldestIsOutstanding
<1>2. CASE TakeRequest
  <2>1. /\ sending = None /\ sending' = [req |-> Head(queue), id |-> nextId]
        /\ UNCHANGED <<pc, oneshot, outstanding, oldest>>
    BY Zenon, <1>2 DEF TakeRequest, Ready
  <2>2. sending' \in Outgoing
    BY <1>2, <2>1, TaskTypes, IdAssumption
       DEF TakeRequest, TypeOK, Outgoing, IdAssumption
  <2>3. \A q \in Requests : Queued(q) => Writing(q)'
    BY SMTT(30), <1>2, <2>1, <2>2, QueueTaken, NamesAssumption DEF NamesAssumption, TakeRequest, Writing
  <2>4. \A q \in Requests : ~Writing(q) /\ (Tracked(q) => Tracked(q)')
    BY Zenon, <2>1 DEF Writing, Tracked
  <2>5. \A c \in Calls : c \in Unanswered => c \in Unanswered'
    BY Zenon, <2>3, <2>4 DEF Unanswered, Queued, Writing, Tracked
  <2> QED
    BY Zenon, <2>1, <2>5, CallsKept DEF OldestIsOutstanding
<1>3. CASE Sent
  <2>1. sending \in Outgoing /\ sending' = None /\ UNCHANGED <<pc, oneshot, queue>>
    BY Zenon, <1>3 DEF Sent, TypeOK
  <2>2. CASE sending.req = None
    <3>1. UNCHANGED <<outstanding, oldest>>
      BY Zenon, <1>3, <2>2 DEF Sent
    <3>2. \A q \in Requests : ~Writing(q)
      BY Zenon, <2>2, NamesAssumption DEF NamesAssumption, Writing
    <3>3. \A c \in Calls : c \in Unanswered => c \in Unanswered'
      BY Zenon, <2>1, <3>1, <3>2 DEF Unanswered, Writing
    <3> QED
      BY Zenon, <2>1, <3>1, <3>3, CallsKept DEF OldestIsOutstanding
  <2>3. CASE sending.req # None
    <3>1. /\ outstanding' = outstanding \cup {[id |-> sending.id, req |-> sending.req]}
          /\ oldest' = IF oldest = None THEN sending.id ELSE oldest
      BY Zenon, <1>3, <2>3 DEF Sent, RecordSend
    <3>2. \A c \in Calls : c \in Unanswered => c \in Unanswered'
      BY Zenon, <2>1, <3>1 DEF Unanswered
    <3> QED
      BY ZenonT(60), <2>1, <3>1, <3>2, CallsKept DEF OldestIsOutstanding
  <2> QED
    BY Zenon, <2>2, <2>3
<1>4. CASE SendFailed
  <2>1. /\ sending # None /\ sending \in Outgoing /\ sending' = None
        /\ UNCHANGED <<pc, queue, outstanding, oldest>>
    BY Zenon, <1>4 DEF SendFailed, TypeOK
  <2>2. \A q \in Requests : oneshot[q] # NoAnswer => oneshot'[q] # NoAnswer
    BY Zenon, <1>4, <2>1 DEF SendFailed, Answered, NoAnswer, TypeOK
  <2>3. \A q \in Requests : Writing(q) => oneshot'[q] # NoAnswer
    <3>1. SUFFICES ASSUME NEW q \in Requests, Writing(q) PROVE oneshot'[q] # NoAnswer
      BY Zenon
    <3>2. sending.req = q /\ q # None
      BY Zenon, <3>1, NamesAssumption DEF NamesAssumption, Writing
    <3> QED
      BY Zenon, <1>4, <3>2 DEF SendFailed, Answered, NoAnswer, TypeOK
  <2>4. \A c \in Calls : c \in Unanswered => c \in Unanswered' \/ oneshot'[c] # NoAnswer
    BY Zenon, <2>1, <2>3 DEF Unanswered, Writing
  <2> QED
    BY Zenon, <2>1, <2>2, <2>4, CallsKept DEF Requests, OldestIsOutstanding
<1>8. CASE InterfaceChanged
  <2>1. /\ \A q \in Requests : oneshot'[q] = IF sending # None /\ sending.req = q
                                             THEN Answered(q, [kind |-> "dropped"]) ELSE oneshot[q]
        /\ UNCHANGED <<pc, queue, outstanding, oldest>>
    BY Zenon, <1>8 DEF InterfaceChanged
  <2>2. \A q \in Requests : Answered(q, [kind |-> "dropped"]) # NoAnswer
    BY Zenon DEF Answered, NoAnswer
  <2>3. \A c \in Calls : c \in Unanswered => c \in Unanswered' \/ oneshot'[c] # NoAnswer
    BY Zenon, <2>1, <2>2 DEF Unanswered
  <2> QED
    BY Zenon, <2>1, <2>2, <2>3, CallsKept DEF Requests, OldestIsOutstanding
<1>5. CASE NetworkChange
  <2>1. UNCHANGED <<pc, outstanding, oldest, sending>> /\ queue = <<>>
    BY Zenon, <1>5 DEF NetworkChange
  <2>2. \A q \in Requests : oneshot[q] # NoAnswer => oneshot'[q] # NoAnswer
    BY Zenon, <1>5 DEF NetworkChange, NoAnswer, TypeOK
  <2>3. \A c \in Calls : c \in Unanswered => c \in Unanswered'
    BY <2>1 DEF Unanswered
  <2> QED
    BY Zenon, <2>1, <2>2, <2>3, CallsKept DEF Requests, OldestIsOutstanding
<1>6. CASE DropConnection
  <2>1. /\ \A q \in Requests : oneshot'[q] = IF q \in Unanswered THEN Answered(q, [kind |-> "dropped"])
                                             ELSE oneshot[q]
        /\ UNCHANGED pc /\ oldest' = None
    BY Zenon, <1>6 DEF DropConnection, Drop
  <2>2. \A q \in Requests : Answered(q, [kind |-> "dropped"]) # NoAnswer
    BY Zenon DEF Answered, NoAnswer
  <2> QED
    BY Zenon, <2>1, <2>2, CallsKept DEF Requests, OldestIsOutstanding
<1>7. ASSUME NEW m \in server.seen, ReceiveResponse(m)
      PROVE  NoCallForgotten' /\ OldestIsOutstanding'
  <2>1. UNCHANGED <<pc, queue, sending>>
    BY Zenon, <1>7 DEF ReceiveResponse
  <2>2. PICK kind \in {"ok", "invalidResponse"} : FinishSend(m.id, [kind |-> kind, to |-> m.req])
    BY Zenon, <1>7 DEF ReceiveResponse
  <2>3. \A q \in Requests : Answered(q, [kind |-> kind, to |-> m.req]) # NoAnswer
    BY Zenon DEF Answered, NoAnswer
  <2>4. /\ \A q \in Requests : oneshot[q] # NoAnswer => oneshot'[q] # NoAnswer
        /\ \A o \in outstanding : o \in outstanding' \/ oneshot'[o.req] # NoAnswer
    BY Zenon, <2>2, <2>3 DEF FinishSend, TypeOK
  <2>5. \A c \in Calls : c \in Unanswered => c \in Unanswered' \/ oneshot'[c] # NoAnswer
    BY Zenon, <2>1, <2>4 DEF Unanswered
  <2>6. OldestIsOutstanding'
    BY Zenon, <2>2 DEF FinishSend, OldestIsOutstanding
  <2> QED
    BY Zenon, <2>1, <2>4, <2>5, <2>6, CallsKept DEF Requests
<1> QED
  BY Zenon, <1>1, <1>2, <1>3, <1>4, <1>5, <1>6, <1>7, <1>8 DEF TaskStep, TakeResponse, Ready

LEMMA AroundKept ==
  ASSUME EndInv, OldestIsOutstanding, NoCallForgotten, ReasonInv,
         \/ Disconnect \/ IsConnected \/ UNCHANGED vars
         \/ \E i \in responders : SendResponse(i)
  PROVE  EndInv' /\ OldestIsOutstanding' /\ NoCallForgotten' /\ ReasonInv'
<1>1. /\ UNCHANGED <<events, oneshot, outstanding, oldest, queue, sending, pc, answer, result>>
      /\ phase' = phase
      /\ state' = "Finished" => state = "Finished" \/ phase = "finished"
  BY Zenon DEF Disconnect, IsConnected, SendResponse, vars, taskVars
<1>2. EndInv'
  BY Zenon, <1>1, QuietEnd
<1>3. Unanswered' = Unanswered
  BY Zenon, <1>1 DEF Unanswered
<1>4. OldestIsOutstanding' /\ NoCallForgotten'
  BY Zenon, <1>1, <1>3 DEF OldestIsOutstanding, NoCallForgotten
<1>5. ReasonInv'
  BY Zenon, <1>1, <1>3 DEF ReasonInv, Untouched
<1> QED
  BY Zenon, <1>2, <1>4, <1>5

-----------------------------------------------------------------------------
(* The reason a call reports *)

LEMMA CallReason ==
  ASSUME TypeOK, EndInv, ReasonInv, NEW c \in Calls,
         SendStart(c) \/ CallStep(c) \/ SendCancel(c)
  PROVE  ReasonInv'
<1> USE DEF Return, taskVars
<1>1. /\ UNCHANGED <<oneshot, outstanding, sending, result>> /\ phase' = phase
      /\ queue' = queue \/ (SendEnqueue(c) /\ queue' = <<c>>)
      /\ \A o \in Calls \ {c} : pc'[o] = pc[o] /\ answer'[o] = answer[o]
  BY ZenonT(60) DEF SendStart, CallStep, SendEnqueue, SendWake, GetTaskFinishError, SendJoin, SendCancel, TypeOK
<1>2. ASSUME NEW o \in Calls, Untouched(o), o # c \/ queue' = queue PROVE Untouched(o)'
  <2>1. CASE queue' = queue
    <3>1. Unanswered' = Unanswered
      BY Zenon, <1>1, <2>1 DEF Unanswered
    <3> QED
      BY Zenon, <1>1, <1>2, <3>1 DEF Untouched
  <2>2. CASE o # c /\ queue' = <<c>>
    <3>1. ~Queued(o)'
      BY <2>2 DEF Queued
    <3>2. ~Writing(o)' /\ ~Tracked(o)'
      <4>1. ~Writing(o) /\ ~Tracked(o)
        BY Zenon, <1>2, UnansweredMeans DEF Untouched, Requests
      <4> QED
        BY Zenon, <1>1, <4>1 DEF Writing, Tracked
    <3>3. o \notin Unanswered'
      BY Zenon, <3>1, <3>2 DEF Unanswered, Queued, Writing, Tracked
    <3> QED
      BY Zenon, <1>1, <1>2, <3>3 DEF Untouched
  <2> QED
    BY Zenon, <1>1, <1>2, <2>1, <2>2
<1>3. /\ pc'[c] \in {"idle", "cloned"} => Untouched(c)'
      /\ answer'[c].kind = "disconnected" =>
           /\ pc'[c] = "done"
           /\ Untouched(c)' \/ (phase' = "finished" /\ answer'[c] = SendErrorOf(result'))
  <2>1. CASE SendStart(c)
    <3>1. queue' = queue /\ pc[c] = "idle" /\ Untouched(c)'
      BY Zenon, <1>2, <2>1 DEF SendStart, ReasonInv
    <3> QED
      BY Zenon, <2>1, <3>1 DEF SendStart, TypeOK, ReasonInv
  <2>2. CASE SendEnqueue(c)
    BY Zenon, <2>2 DEF SendEnqueue, TypeOK, ReasonInv
  <2>3. CASE SendWake(c)
    <3>1. oneshot[c].kind # "disconnected"
      BY Zenon, ValueKinds DEF TypeOK, Requests
    <3> QED
      BY Zenon, <2>3, <3>1 DEF SendWake, TypeOK, ReasonInv
  <2>4. CASE GetTaskFinishError(c)
    BY SMTT(30), <2>4 DEF GetTaskFinishError, TypeOK, ReasonInv, EndInv
  <2>5. CASE SendJoin(c) \/ SendCancel(c)
    BY <2>5 DEF SendJoin, SendCancel, TypeOK
  <2> QED
    BY Zenon, <2>1, <2>2, <2>3, <2>4, <2>5 DEF CallStep
<1> QED
  BY Zenon, <1>1, <1>2, <1>3 DEF ReasonInv

\* The task touches only what it was given.
LEMMA TaskUntouched ==
  ASSUME TypeOK, NEW c \in Calls, Untouched(c),
         \/ TaskStep \/ ReceiveRequest \/ ServerCloses \/ IdleTimeout
         \/ InterfaceChanged \/ NetworkChange \/ ServerSilent
         \/ \E m \in server.seen : ReceiveResponse(m)
  PROVE  Untouched(c)'
<1> USE DEF taskVars
<1>0. c \in Requests /\ ~Queued(c) /\ ~Writing(c) /\ ~Tracked(c) /\ oneshot[c] = NoAnswer
  BY Zenon, UnansweredMeans DEF Untouched, Requests
<1>1. SUFFICES ~Queued(c)' /\ ~Writing(c)' /\ ~Tracked(c)' /\ oneshot'[c] = NoAnswer
  BY Zenon, <1>1 DEF Untouched, Unanswered, Queued, Writing, Tracked
<1>2. CASE \/ ReceiveRequest \/ ServerCloses \/ IdleTimeout \/ ServerSilent
           \/ ListenerReturns \/ ClientDisconnect \/ TellListener \/ TaskFinished
  BY Zenon, <1>0, <1>2 DEF ReceiveRequest, ServerCloses, IdleTimeout, ServerSilent,
       ListenerReturns, ClientDisconnect, TellListener, TaskFinished, Finish, Queued, Writing, Tracked
<1>10. CASE InterfaceChanged
  BY Zenon, <1>0, <1>10 DEF InterfaceChanged, Queued, Writing, Tracked
<1>3. CASE TakeRequest
  <2>1. c # Head(queue) /\ queue' = <<>>
    BY Zenon, <1>0, <1>3, QueueTaken DEF TakeRequest
  <2> QED
    BY <1>0, <1>3, <2>1 DEF TakeRequest, Queued, Writing, Tracked
<1>4. CASE TakeResponse
  BY Zenon, <1>0, <1>4, NamesAssumption DEF NamesAssumption, TakeResponse, Queued, Writing, Tracked
<1>5. CASE Sent
  BY <1>0, <1>5 DEF Sent, RecordSend, Queued, Writing, Tracked
<1>6. CASE SendFailed
  BY Zenon, <1>0, <1>6 DEF SendFailed, TypeOK, Queued, Writing, Tracked
<1>7. CASE NetworkChange
  <2>1. PICK k \in Keepalives : oneshot' = [oneshot EXCEPT ![k] = [kind |-> "ignored"]] /\ queue' = <<k>>
    BY Zenon, <1>7 DEF NetworkChange
  <2>2. k # c /\ oneshot'[c] = oneshot[c]
    BY SMTT(30), <1>0, <2>1, NamesAssumption DEF NamesAssumption, TypeOK
  <2>3. ~Queued(c)'
    BY <2>1, <2>2 DEF Queued
  <2>4. ~Writing(c)' /\ ~Tracked(c)'
    <3>1. UNCHANGED <<sending, outstanding>>
      BY Zenon, <1>7 DEF NetworkChange
    <3> QED
      BY Zenon, <1>0, <3>1 DEF Writing, Tracked
  <2> QED
    BY Zenon, <1>0, <2>2, <2>3, <2>4
<1>8. CASE DropConnection
  <2>1. c \notin Unanswered
    BY Zenon DEF Untouched
  <2>2. oneshot'[c] = NoAnswer
    BY Zenon, <1>0, <1>8, <2>1 DEF DropConnection, Drop
  <2>3. queue' = <<>> /\ sending' = None /\ outstanding' = {}
    BY Zenon, <1>8 DEF DropConnection, Drop
  <2>4. ~Queued(c)'
    BY <2>3 DEF Queued
  <2>5. ~Writing(c)' /\ ~Tracked(c)'
    BY Zenon, <2>3 DEF Writing, Tracked
  <2> QED
    BY Zenon, <2>2, <2>4, <2>5
<1>9. ASSUME NEW m \in server.seen, ReceiveResponse(m)
      PROVE  ~Queued(c)' /\ ~Writing(c)' /\ ~Tracked(c)' /\ oneshot'[c] = NoAnswer
  <2>1. UNCHANGED <<queue, sending>> /\ outstanding' \subseteq outstanding
    BY Zenon, <1>9 DEF ReceiveResponse, FinishSend
  <2>2. ~Queued(c)' /\ ~Writing(c)' /\ ~Tracked(c)'
    BY Zenon, <1>0, <2>1 DEF Queued, Writing, Tracked
  <2>3. oneshot'[c] = oneshot[c]
    BY Zenon, <1>0, <1>9 DEF ReceiveResponse, FinishSend, Tracked
  <2> QED
    BY Zenon, <1>0, <2>2, <2>3
<1> QED
  BY Zenon, <1>2, <1>3, <1>4, <1>5, <1>6, <1>7, <1>8, <1>9, <1>10 DEF TaskStep

LEMMA TaskReason ==
  ASSUME TypeOK, ReasonInv,
         \/ TaskStep \/ ReceiveRequest \/ ServerCloses \/ IdleTimeout
         \/ InterfaceChanged \/ NetworkChange \/ ServerSilent
         \/ \E m \in server.seen : ReceiveResponse(m)
  PROVE  ReasonInv'
<1>1. UNCHANGED <<pc, answer>> /\ phase # "finished"
  BY Zenon DEF TaskStep, TakeRequest, TakeResponse, Sent, SendFailed, ListenerReturns, ClientDisconnect,
         TellListener, DropConnection, Drop, TaskFinished, ReceiveRequest, ServerCloses, IdleTimeout,
         InterfaceChanged, NetworkChange, ServerSilent, ReceiveResponse, Ready, Finish
<1> QED
  BY Zenon, <1>1, TaskUntouched DEF ReasonInv

-----------------------------------------------------------------------------
(* The invariant and what follows *)

LEMMA ConnectionInit == Init => ConnectionInv
<1> SUFFICES ASSUME Init PROVE ConnectionInv
  BY Zenon
<1>1. events = <<"alerts">> /\ events \in Seq({"alerts", "message", "finished"})
  BY DEF Init
<1>2. Len(events) = 1 /\ DOMAIN events = {1} /\ events[1] = "alerts"
  BY <1>1
<1>3. queue \in Seq(Requests) /\ Len(queue) = 0 /\ responses \in Seq(Nat) /\ DOMAIN queue = {}
  BY DEF Init
<1>4. TypeOK
  BY SMTT(30), <1>1, <1>3, IdAssumption DEF IdAssumption, Init, TypeOK, Values, Answers, Phases
<1>5. EndInv
  BY <1>2 DEF Init, EndInv, Over
<1>6. Unanswered = {}
  BY Zenon, <1>3 DEF Init, Unanswered
<1>7. OldestIsOutstanding /\ NoCallForgotten /\ ReasonInv
  BY Zenon, <1>6 DEF Init, OldestIsOutstanding, NoCallForgotten, ReasonInv, Untouched, NoAnswer, Requests
<1> QED
  BY Zenon, <1>4, <1>5, <1>7 DEF ConnectionInv

LEMMA ConnectionNext == ConnectionInv /\ [Next]_vars => ConnectionInv'
<1> SUFFICES ASSUME ConnectionInv, [Next]_vars PROVE ConnectionInv'
  BY Zenon
<1>0. TypeOK /\ EndInv /\ OldestIsOutstanding /\ NoCallForgotten /\ ReasonInv
  BY Zenon DEF ConnectionInv
<1>1. ASSUME NEW c \in Calls, SendStart(c) \/ CallStep(c) \/ SendCancel(c) PROVE ConnectionInv'
  BY Zenon, <1>0, <1>1, CallTypes, CallEnd, CallTracked, CallReason DEF ConnectionInv
<1>2. CASE \/ TaskStep \/ ReceiveRequest \/ ServerCloses \/ IdleTimeout
           \/ InterfaceChanged \/ NetworkChange \/ ServerSilent
           \/ \E m \in server.seen : ReceiveResponse(m)
  BY Zenon, <1>0, <1>2, TaskTypes, TaskEnd, TaskTracked, TaskReason DEF ConnectionInv
<1>3. CASE \/ Disconnect \/ IsConnected \/ UNCHANGED vars
           \/ \E i \in responders : SendResponse(i)
  BY Zenon, <1>0, <1>3, AroundTypes, AroundKept DEF ConnectionInv
<1> QED
  BY Zenon, <1>1, <1>2, <1>3 DEF Next

LEMMA ConnectionHolds == Spec => []ConnectionInv
BY ConnectionInit, ConnectionNext, PTL DEF Spec

\* What the connection holds has its type; the requests channel never holds more
\* than its capacity of one, and ids wrap (wrapping_add).
THEOREM ConnectionTypes == Spec => []TypeOK
BY ConnectionHolds, PTL DEF ConnectionInv

\* oldest_outstanding_req_sent_at never outlives its request (finish_send).
THEOREM OldestStaysOutstanding == Spec => []OldestIsOutstanding
BY ConnectionHolds, PTL DEF ConnectionInv

\* No call of Chat::send waits on a channel whose other end was lost, whichever
\* way the connection ends.
THEOREM CallsAreRemembered == Spec => []NoCallForgotten
BY ConnectionHolds, PTL DEF ConnectionInv

\* The listener hears Finished once, last, before the state says so, and before a
\* call that lost its response channel, be it with an abandoned write, returns.
THEOREM FinishedComesLast == Spec => []FinishedIsTold
<1>1. ConnectionInv => FinishedIsTold
  <2> SUFFICES ASSUME ConnectionInv PROVE FinishedIsTold
    BY Zenon
  <2>1. /\ \A i \in DOMAIN events : events[i] = "finished" => i = Len(events)
        /\ Over => Told
        /\ state = "Finished" => phase = "finished"
    BY Zenon DEF ConnectionInv, EndInv, Told
  <2>2. ASSUME NEW c \in Calls, oneshot[c].kind = "dropped", answer[c].kind = "disconnected"
        PROVE  phase = "finished"
    <3>1. oneshot[c] # NoAnswer
      BY <2>2 DEF NoAnswer
    <3> QED
      BY Zenon, <2>2, <3>1 DEF ConnectionInv, ReasonInv, Untouched
  <2> QED
    BY Zenon, <2>1, <2>2 DEF Over, ReceiversDropped, FinishedIsTold
<1> QED
  BY <1>1, ConnectionHolds, PTL

\* A call cut off by the end reports the server's reason (get_task_finish_error).
THEOREM ReasonsAreReported == Spec => []ReasonIsReported
<1>1. ConnectionInv => ReasonIsReported
  BY DEF ConnectionInv, ReasonInv, Untouched, NoAnswer, SendErrorOf, Failure, ReasonIsReported
<1> QED
  BY <1>1, ConnectionHolds, PTL

-----------------------------------------------------------------------------
(* Answers and ids *)

LOCAL INSTANCE FiniteSetTheorems

\* There is an id for each request: 2^64 in the code.
EnoughIds == IsFiniteSet(Requests) /\ Cardinality(Requests) <= IdSpace

\* The requests that have been given an id, while the task runs: those that the
\* server has seen and the one that is being written.
Issued == {m \in [req : Requests, id : Nat] : m \in server.seen \/ m = sending}
Numbered == {q \in Requests : \E m \in Issued : m.req = q}

\* How many ids come before this one, from the first.
Turn(id) == IF id >= InitialRequestId THEN id - InitialRequestId
            ELSE id + IdSpace - InitialRequestId

\* Ids are given in turn and none twice; a request is given only one.
IdsInv ==
  phase \in {"running", "listening"} =>
    /\ \A m \in Issued : m.id < IdSpace /\ Turn(m.id) < Cardinality(Numbered)
    /\ Cardinality(Numbered) < IdSpace => Turn(nextId) = Cardinality(Numbered)
    /\ \A m, n \in Issued : m.id = n.id => m = n
    /\ \A q \in Requests : Queued(q) => q \notin Numbered
    /\ \A c \in Calls : pc[c] \in {"idle", "cloned"} => c \notin Numbered
    /\ \A k \in Keepalives : oneshot[k] = NoAnswer => ~Queued(k) /\ k \notin Numbered
    /\ \A o \in outstanding : [req |-> o.req, id |-> o.id] \in server.seen

\* An answer is the call's own, in its channel and when it has returned.
OwnInv ==
  \A c \in Calls : /\ oneshot[c].kind = "ok" => oneshot[c].to = c
                   /\ answer[c].kind = "ok" => answer[c].to = c

\* The id after another one is its successor in turn.
LEMMA NextTurn ==
  ASSUME NEW id \in 0 .. IdSpace - 1, Turn(id) + 1 < IdSpace
  PROVE  Turn((id + 1) % IdSpace) = Turn(id) + 1
<1> DEFINE i == InitialRequestId
<1>1. IdSpace \in Nat \ {0} /\ i \in 0 .. IdSpace - 1
  BY Zenon, IdAssumption
<1>2. CASE id + 1 < IdSpace
  <2>1. (id + 1) % IdSpace = id + 1
    BY <1>1, <1>2
  <2> QED
    BY <1>1, <1>2, <2>1 DEF Turn
<1>3. CASE id + 1 = IdSpace
  <2>1. (id + 1) % IdSpace = 0
    BY <1>1, <1>3
  <2> QED
    BY <1>1, <1>3, <2>1 DEF Turn
<1> QED
  BY <1>1, <1>2, <1>3

LEMMA TurnFacts ==
  /\ \A id \in 0 .. IdSpace - 1 : Turn(id) \in 0 .. IdSpace - 1
  /\ \A id, jd \in 0 .. IdSpace - 1 : Turn(id) = Turn(jd) => id = jd
  /\ Turn(InitialRequestId) = 0
<1>1. IdSpace \in Nat \ {0} /\ InitialRequestId \in 0 .. IdSpace - 1
  BY Zenon, IdAssumption
<1> QED
  BY <1>1 DEF Turn

\* Steps that issue no id.
LEMMA IdsKept ==
  ASSUME TypeOK, IdsInv, Issued' = Issued, nextId' = nextId,
         server.seen \subseteq server'.seen,
         phase' \in {"running", "listening"} => phase \in {"running", "listening"},
         \A o \in outstanding' : \/ o \in outstanding
                                 \/ [req |-> o.req, id |-> o.id] \in server'.seen,
         \A q \in Requests : Queued(q)' => Queued(q) \/ q \notin Numbered,
         \A c \in Calls : pc'[c] \in {"idle", "cloned"} => pc[c] \in {"idle", "cloned"},
         \A k \in Keepalives : oneshot'[k] = NoAnswer =>
                                 oneshot[k] = NoAnswer /\ (Queued(k)' => Queued(k))
  PROVE  IdsInv'
<1> SUFFICES ASSUME phase' \in {"running", "listening"}
             PROVE  IdsInv'
  BY Zenon DEF IdsInv
<1>1. Numbered' = Numbered
  BY Zenon DEF Numbered
<1>2. Turn(nextId') = Turn(nextId)
  BY Zenon
<1>3. /\ \A m \in Issued' : m.id < IdSpace /\ Turn(m.id) < Cardinality(Numbered')
      /\ Cardinality(Numbered') < IdSpace => Turn(nextId') = Cardinality(Numbered')
      /\ \A m, n \in Issued' : m.id = n.id => m = n
  BY Zenon, <1>1, <1>2 DEF IdsInv
<1>4. /\ \A q \in Requests : Queued(q)' => q \notin Numbered'
      /\ \A c \in Calls : pc'[c] \in {"idle", "cloned"} => c \notin Numbered'
      /\ \A k \in Keepalives : oneshot'[k] = NoAnswer => ~Queued(k)' /\ k \notin Numbered'
  BY Zenon, <1>1 DEF IdsInv
<1>5. \A o \in outstanding' : [req |-> o.req, id |-> o.id] \in server'.seen
  BY Zenon DEF IdsInv
<1> QED
  BY Zenon, <1>3, <1>4, <1>5 DEF IdsInv

LEMMA CallIds ==
  ASSUME TypeOK, IdsInv, NEW c \in Calls, SendStart(c) \/ CallStep(c) \/ SendCancel(c)
  PROVE  IdsInv'
<1> USE DEF taskVars, Return
<1>1. /\ server' = server /\ sending' = sending /\ nextId' = nextId
      /\ outstanding' = outstanding /\ phase' = phase /\ oneshot' = oneshot
  BY Zenon DEF CallStep, SendStart, SendEnqueue, SendWake, GetTaskFinishError, SendJoin, SendCancel
<1>2. Issued' = Issued
  BY Zenon, <1>1 DEF Issued
<1>3. \A d \in Calls : pc'[d] \in {"idle", "cloned"} => pc[d] \in {"idle", "cloned"}
  BY Zenon DEF CallStep, SendStart, SendEnqueue, SendWake, GetTaskFinishError, SendJoin, SendCancel,
         TypeOK
<1>4. queue' = queue \/ (queue' = <<c>> /\ pc[c] = "cloned")
  BY Zenon DEF CallStep, SendStart, SendEnqueue, SendWake, GetTaskFinishError, SendJoin, SendCancel
<1>5. CASE phase \in {"running", "listening"}
  <2>1. \A q \in Requests : Queued(q)' => Queued(q) \/ q \notin Numbered
    <3>1. CASE queue' = queue
      BY Zenon, <3>1 DEF Queued
    <3>2. CASE queue' = <<c>> /\ pc[c] = "cloned"
      <4>1. \A q : Queued(q)' => q = c
        BY <3>2 DEF Queued
      <4>2. c \notin Numbered
        BY Zenon, <1>5, <3>2 DEF IdsInv
      <4> QED
        BY Zenon, <4>1, <4>2
    <3> QED
      BY Zenon, <1>4, <3>1, <3>2
  <2>2. \A k \in Keepalives : Queued(k)' => Queued(k)
    BY <1>4, NamesAssumption DEF Queued, NamesAssumption
  <2> QED
    BY Zenon, <1>1, <1>2, <1>3, <2>1, <2>2, IdsKept
<1>6. CASE phase \notin {"running", "listening"}
  BY Zenon, <1>1, <1>6 DEF IdsInv
<1> QED
  BY Zenon, <1>5, <1>6

LEMMA AroundIds ==
  ASSUME TypeOK, IdsInv,
         \/ Disconnect \/ IsConnected \/ UNCHANGED vars
         \/ \E i \in responders : SendResponse(i)
  PROVE  IdsInv'
<1>1. /\ server' = server /\ sending' = sending /\ nextId' = nextId /\ pc' = pc
      /\ outstanding' = outstanding /\ phase' = phase /\ oneshot' = oneshot /\ queue' = queue
  BY Zenon DEF Disconnect, IsConnected, SendResponse, vars, taskVars
<1>2. Issued' = Issued
  BY Zenon, <1>1 DEF Issued
<1>3. \A q \in Requests \cup Keepalives : Queued(q)' => Queued(q)
  BY Zenon, <1>1 DEF Queued
<1> QED
  BY Zenon, <1>1, <1>2, <1>3, IdsKept

LEMMA SentIds ==
  ASSUME TypeOK, IdsInv, Sent
  PROVE  IdsInv'
<1>1. /\ phase = "running" /\ sending # None /\ sending' = None /\ queue' = queue
      /\ nextId' = nextId /\ phase' = phase /\ oneshot' = oneshot /\ pc' = pc
  BY Zenon DEF Sent
<1>2. None \notin [req : Requests, id : Nat]
  BY Zenon, NamesAssumption DEF NamesAssumption, Outgoing
<1>3. \A q \in Requests \cup Keepalives : Queued(q)' => Queued(q)
  BY Zenon, <1>1 DEF Queued
<1>4. CASE sending.req = None
  <2>1. server' = server /\ outstanding' = outstanding
    BY Zenon, <1>4 DEF Sent
  <2>2. sending \notin [req : Requests, id : Nat]
    BY Zenon, <1>4, NamesAssumption DEF NamesAssumption
  <2>3. Issued' = Issued
    BY Zenon, <1>1, <1>2, <2>1, <2>2 DEF Issued
  <2> QED
    BY Zenon, <1>1, <1>3, <2>1, <2>3, IdsKept
<1>5. CASE sending.req # None
  <2>1. outstanding' = outstanding \cup {[id |-> sending.id, req |-> sending.req]}
    BY Zenon, <1>5 DEF Sent, RecordSend
  <2>2. server'.seen = server.seen \cup {sending}
    BY Zenon, <1>5 DEF Sent, TypeOK
  <2>3. sending = [req |-> sending.req, id |-> sending.id]
    BY Zenon, <1>1 DEF TypeOK, Outgoing
  <2>4. Issued' = Issued
    BY Zenon, <1>1, <1>2, <2>2 DEF Issued
  <2>5. \A o \in outstanding' : \/ o \in outstanding
                                \/ [req |-> o.req, id |-> o.id] \in server'.seen
    BY Zenon, <2>1, <2>2, <2>3
  <2> QED
    BY Zenon, <1>1, <1>3, <2>2, <2>4, <2>5, IdsKept
<1> QED
  BY Zenon, <1>4, <1>5

LEMMA TaskIds ==
  ASSUME TypeOK, IdsInv, ReasonInv, TakeRequest => IdsInv',
         \/ TaskStep \/ ReceiveRequest \/ ServerCloses \/ IdleTimeout
         \/ InterfaceChanged \/ NetworkChange \/ ServerSilent
         \/ \E m \in server.seen : ReceiveResponse(m)
  PROVE  IdsInv'
<1> USE DEF taskVars
<1>1. CASE TakeRequest \/ Sent
  BY Zenon, <1>1, SentIds
<1>2. CASE \/ SendFailed \/ ClientDisconnect \/ TellListener \/ DropConnection \/ TaskFinished
           \/ ServerCloses \/ IdleTimeout \/ InterfaceChanged
  BY Zenon, <1>2 DEF SendFailed, ClientDisconnect, TellListener, DropConnection, Drop,
              TaskFinished, ServerCloses, IdleTimeout, InterfaceChanged, Finish, IdsInv
<1>3. CASE ListenerReturns \/ ReceiveRequest \/ ServerSilent
  <2>1. /\ server'.seen = server.seen /\ sending' = sending /\ nextId' = nextId /\ pc' = pc
        /\ outstanding' = outstanding /\ oneshot' = oneshot /\ queue' = queue
        /\ phase \in {"running", "listening"}
    BY Zenon, <1>3 DEF ListenerReturns, ReceiveRequest, ServerSilent, Ready, TypeOK
  <2>2. Issued' = Issued
    BY Zenon, <2>1 DEF Issued
  <2>3. \A q \in Requests \cup Keepalives : Queued(q)' => Queued(q)
    BY Zenon, <2>1 DEF Queued
  <2> QED
    BY Zenon, <2>1, <2>2, <2>3, IdsKept
<1>4. CASE TakeResponse
  <2>1. /\ server' = server /\ sending = None /\ sending'.req = None /\ nextId' = nextId
        /\ pc' = pc /\ outstanding' = outstanding /\ oneshot' = oneshot /\ queue' = queue
        /\ phase = "running"
    BY Zenon, <1>4 DEF TakeResponse, Ready
  <2>2. /\ sending \notin [req : Requests, id : Nat]
        /\ sending' \notin [req : Requests, id : Nat]
    BY Zenon, <2>1, NamesAssumption DEF NamesAssumption, Outgoing
  <2>3. Issued' = Issued
    BY Zenon, <2>1, <2>2 DEF Issued
  <2>4. \A q \in Requests \cup Keepalives : Queued(q)' => Queued(q)
    BY Zenon, <2>1 DEF Queued
  <2> QED
    BY Zenon, <2>1, <2>3, <2>4, IdsKept
<1>5. CASE NetworkChange
  <2>1. /\ server' = server /\ sending' = sending /\ nextId' = nextId /\ pc' = pc
        /\ outstanding' = outstanding /\ phase = "running"
    BY Zenon, <1>5 DEF NetworkChange
  <2>2. PICK k \in Keepalives : /\ oneshot[k] = NoAnswer /\ queue' = <<k>>
                                /\ oneshot' = [oneshot EXCEPT ![k] = [kind |-> "ignored"]]
    BY Zenon, <1>5 DEF NetworkChange
  <2>3. Issued' = Issued
    BY Zenon, <2>1 DEF Issued
  <2>4. \A q : Queued(q)' => q = k
    BY <2>2 DEF Queued
  <2>5. k \notin Numbered
    BY Zenon, <2>1, <2>2 DEF IdsInv
  <2>6. \A j \in Keepalives : oneshot'[j] = NoAnswer =>
                                oneshot[j] = NoAnswer /\ (Queued(j)' => Queued(j))
    <3>1. oneshot'[k] # NoAnswer
      BY Zenon, <2>2 DEF TypeOK, Requests, NoAnswer
    <3>2. \A j \in Keepalives : j # k => oneshot'[j] = oneshot[j]
      BY Zenon, <2>2 DEF TypeOK, Requests
    <3> QED
      BY Zenon, <2>4, <3>1, <3>2
  <2> QED
    BY Zenon, <2>1, <2>3, <2>4, <2>5, <2>6, IdsKept
<1>6. ASSUME NEW m \in server.seen, ReceiveResponse(m)
      PROVE  IdsInv'
  <2>1. /\ server' = server /\ sending' = sending /\ nextId' = nextId /\ pc' = pc
        /\ outstanding' \subseteq outstanding /\ queue' = queue /\ phase' = phase
    BY Zenon, <1>6 DEF ReceiveResponse, FinishSend
  <2>2. Issued' = Issued
    BY Zenon, <2>1 DEF Issued
  <2>3. \A q \in Requests \cup Keepalives : Queued(q)' => Queued(q)
    BY Zenon, <2>1 DEF Queued
  <2>4. \A k \in Keepalives : oneshot'[k] = NoAnswer => oneshot[k] = NoAnswer
    <3>1. PICK kind \in {"ok", "invalidResponse"} : FinishSend(m.id, [kind |-> kind, to |-> m.req])
      BY Zenon, <1>6 DEF ReceiveResponse
    <3>2. ASSUME NEW k \in Keepalives
          PROVE  oneshot'[k] = [kind |-> "ignored"] \/ oneshot'[k] = oneshot[k]
      <4>1. k \in Requests /\ k \notin Calls
        BY Zenon, NamesAssumption DEF NamesAssumption, Requests
      <4> QED
        BY Zenon, <3>1, <4>1 DEF FinishSend, Answered
    <3>3. [kind |-> "ignored"] # NoAnswer
      BY Zenon DEF NoAnswer
    <3> QED
      BY Zenon, <3>2, <3>3
  <2> QED
    BY Zenon, <2>1, <2>2, <2>3, <2>4, IdsKept
<1> QED
  BY Zenon, <1>1, <1>2, <1>3, <1>4, <1>5, <1>6 DEF TaskStep

\* finish_send finds the request by its id, which no other request has.
LEMMA ResponseOwn ==
  ASSUME TypeOK, IdsInv, OwnInv, NEW m \in server.seen, ReceiveResponse(m)
  PROVE  OwnInv'
<1>1. answer' = answer /\ phase = "running"
  BY Zenon DEF ReceiveResponse, Ready
<1>2. PICK kind \in {"ok", "invalidResponse"} : FinishSend(m.id, [kind |-> kind, to |-> m.req])
  BY Zenon DEF ReceiveResponse
<1>3. m \in Issued
  BY Zenon DEF Issued, TypeOK
<1>4. \A o \in outstanding : o.id = m.id => o.req = m.req
  <2> SUFFICES ASSUME NEW o \in outstanding, o.id = m.id
               PROVE  o.req = m.req
    BY Zenon
  <2> DEFINE p == [req |-> o.req, id |-> o.id]
  <2>1. p \in server.seen /\ p.req = o.req /\ p.id = m.id
    BY Zenon, <1>1 DEF IdsInv
  <2> HIDE DEF p
  <2>2. p \in Issued
    BY Zenon, <2>1 DEF Issued, TypeOK
  <2>3. p = m
    BY Zenon, <1>1, <1>3, <2>1, <2>2 DEF IdsInv
  <2> QED
    BY Zenon, <2>1, <2>3
<1>5. \A c \in Calls : oneshot'[c] = oneshot[c] \/ (c = m.req /\ oneshot'[c].to = m.req)
  <2> SUFFICES ASSUME NEW c \in Calls, oneshot'[c] # oneshot[c]
               PROVE  c = m.req /\ oneshot'[c].to = m.req
    BY Zenon
  <2>1. \E o \in outstanding : o.id = m.id /\ o.req = c
    BY Zenon, <1>2 DEF FinishSend, Requests
  <2>2. oneshot'[c] = [kind |-> kind, to |-> m.req]
    BY Zenon, <1>2, <2>1 DEF FinishSend, Requests, Answered
  <2> QED
    BY <1>4, <2>1, <2>2
<1> QED
  BY Zenon, <1>1, <1>5 DEF OwnInv

LEMMA OwnKept ==
  ASSUME ConnectionInv, IdsInv, OwnInv, [Next]_vars
  PROVE  OwnInv'
<1> USE DEF taskVars, Return
<1>0. TypeOK
  BY Zenon DEF ConnectionInv
<1>1. ASSUME NEW c \in Calls, SendStart(c) \/ CallStep(c) \/ SendCancel(c) PROVE OwnInv'
  <2>1. oneshot' = oneshot
    BY Zenon, <1>1 DEF CallStep, SendStart, SendEnqueue, SendWake, GetTaskFinishError, SendJoin, SendCancel
  <2>2. \/ answer' = answer
        \/ answer' = [answer EXCEPT ![c] = oneshot[c]]
        \/ \E a : a.kind # "ok" /\ answer' = [answer EXCEPT ![c] = a]
    <3>1. \A r : SendErrorOf(r).kind # "ok"
      BY Zenon DEF SendErrorOf, Failure
    <3>2. Failure("SocketClosed").kind # "ok" /\ [kind |-> "panic"].kind # "ok"
          /\ [kind |-> "cancelled"].kind # "ok"
      BY Zenon DEF Failure
    <3>3. CASE SendStart(c)
      BY Zenon, <3>1, <3>2, <3>3 DEF SendStart
    <3>4. CASE SendEnqueue(c) \/ SendWake(c)
      BY Zenon, <3>4 DEF SendEnqueue, SendWake
    <3>5. CASE GetTaskFinishError(c)
      BY Zenon, <3>1, <3>2, <3>5 DEF GetTaskFinishError
    <3>6. CASE SendJoin(c) \/ SendCancel(c)
      BY Zenon, <3>1, <3>2, <3>6 DEF SendJoin, SendCancel
    <3> QED
      BY Zenon, <1>1, <3>3, <3>4, <3>5, <3>6 DEF CallStep
  <2>3. \A d \in Calls : answer'[d].kind = "ok" => answer'[d].to = d
    BY Zenon, <1>0, <2>2 DEF OwnInv, TypeOK
  <2> QED
    BY Zenon, <2>1, <2>3 DEF OwnInv
<1>2. ASSUME NEW m \in server.seen, ReceiveResponse(m) PROVE OwnInv'
  BY Zenon, <1>0, <1>2, ResponseOwn
<1>3. CASE SendFailed
  <2>1. answer' = answer
    BY Zenon, <1>3 DEF SendFailed
  <2>2. \A c \in Calls : oneshot'[c] = oneshot[c] \/ oneshot'[c].kind = "sendFailed"
    BY Zenon, <1>0, <1>3 DEF SendFailed, TypeOK, Answered, Requests
  <2> QED
    BY Zenon, <2>1, <2>2 DEF OwnInv
<1>4. CASE NetworkChange
  <2>1. answer' = answer
    BY Zenon, <1>4 DEF NetworkChange
  <2>2. \A c \in Calls : oneshot'[c] = oneshot[c] \/ oneshot'[c].kind = "ignored"
    BY <1>0, <1>4 DEF NetworkChange, TypeOK, Requests
  <2> QED
    BY Zenon, <2>1, <2>2 DEF OwnInv
<1>5. CASE DropConnection \/ InterfaceChanged
  <2>1. answer' = answer
    BY Zenon, <1>5 DEF DropConnection, Drop, InterfaceChanged
  <2>2. \A c \in Calls : oneshot'[c] = oneshot[c] \/ oneshot'[c].kind = "dropped"
    <3>1. CASE DropConnection
      BY Zenon, <3>1 DEF DropConnection, Drop, Answered, Requests
    <3>2. CASE InterfaceChanged
      BY Zenon, <3>2 DEF InterfaceChanged, Answered, Requests
    <3> QED
      BY <1>5, <3>1, <3>2
  <2> QED
    BY Zenon, <2>1, <2>2 DEF OwnInv
<1>6. CASE \/ TakeRequest \/ TakeResponse \/ Sent \/ ListenerReturns \/ ClientDisconnect
           \/ TellListener \/ TaskFinished \/ ReceiveRequest \/ ServerCloses \/ IdleTimeout
           \/ ServerSilent \/ Disconnect \/ IsConnected \/ UNCHANGED vars
           \/ \E i \in responders : SendResponse(i)
  <2>1. answer' = answer /\ oneshot' = oneshot
    BY Zenon, <1>6 DEF TakeRequest, TakeResponse, Sent, ListenerReturns, ClientDisconnect, TaskFinished,
         TellListener, ReceiveRequest, ServerCloses, IdleTimeout, ServerSilent, Disconnect,
         IsConnected, SendResponse, vars
  <2> QED
    BY Zenon, <2>1 DEF OwnInv
<1> QED
  BY Zenon, <1>1, <1>2, <1>3, <1>4, <1>5, <1>6 DEF Next, TaskStep

\* A request is given an id that no other one has.
LEMMA TakeIds ==
  ASSUME TypeOK, IdsInv, ReasonInv, EnoughIds, TakeRequest
  PROVE  IdsInv'
<1> DEFINE q == Head(queue)
           taken == [req |-> q, id |-> nextId]
           n == Cardinality(Numbered)
<1>1. /\ phase = "running" /\ sending = None /\ queue # <<>>
      /\ sending' = taken /\ queue' = Tail(queue) /\ nextId' = (nextId + 1) % IdSpace
      /\ server' = server /\ outstanding' = outstanding /\ phase' = phase
      /\ oneshot' = oneshot /\ pc' = pc
  BY Zenon DEF TakeRequest, Ready, NextRequestId
<1>2. queue' = <<>> /\ Queued(q) /\ \A p : Queued(p) <=> p = q
  BY Zenon, <1>1, QueueTaken
<1>3. q \in Requests /\ q \notin Numbered
  <2>1. q \in Requests
    BY <1>1 DEF TypeOK
  <2> QED
    BY Zenon, <1>1, <1>2, <2>1 DEF IdsInv
<1>4. IdSpace \in Nat \ {0} /\ nextId \in 0 .. IdSpace - 1
  BY Zenon, IdAssumption DEF TypeOK
<1>5. taken \in [req : Requests, id : Nat] /\ taken.id = nextId /\ taken.req = q
  BY <1>3, <1>4
<1> HIDE DEF taken
<1>6. Issued' = Issued \cup {taken}
  <2>1. sending \notin [req : Requests, id : Nat]
    BY Zenon, <1>1, NamesAssumption DEF NamesAssumption, Outgoing
  <2> QED
    BY Zenon, <1>1, <1>5, <2>1 DEF Issued
<1>7. Numbered' = Numbered \cup {q}
  BY Zenon, <1>3, <1>5, <1>6 DEF Numbered
<1>8. n \in Nat /\ Cardinality(Numbered') = n + 1 /\ n + 1 <= IdSpace
  <2>1. Numbered \in SUBSET Requests /\ IsFiniteSet(Requests)
    BY Zenon DEF Numbered, EnoughIds
  <2>2. IsFiniteSet(Numbered)
    BY Zenon, <2>1, FS_Subset
  <2>3. n \in Nat
    BY Zenon, <2>2, FS_CardinalityType
  <2>4. Cardinality(Numbered \cup {q}) = n + 1 /\ IsFiniteSet(Numbered \cup {q})
    BY Zenon, <1>3, <2>2, FS_AddElement
  <2>5. Numbered \cup {q} \in SUBSET Requests
    BY Zenon, <1>3, <2>1
  <2>6. Cardinality(Numbered \cup {q}) <= Cardinality(Requests)
    BY Zenon, <2>1, <2>5, FS_Subset
  <2>7. Cardinality(Requests) \in Nat /\ Cardinality(Requests) <= IdSpace
    BY Zenon, <2>1, FS_CardinalityType DEF EnoughIds
  <2> QED
    BY <1>4, <1>7, <2>3, <2>4, <2>6, <2>7
<1> HIDE DEF n, q
<1>9. Turn(nextId) = n
  <2>1. n < IdSpace
    BY <1>4, <1>8
  <2> QED
    BY Zenon, <1>1, <2>1 DEF IdsInv, n
<1>10. \A m \in Issued : /\ m \in [req : Requests, id : Nat] /\ m.id \in 0 .. IdSpace - 1
                         /\ Turn(m.id) < n
  <2>1. \A m \in Issued : m.id < IdSpace /\ Turn(m.id) < n
    BY Zenon, <1>1 DEF IdsInv, n
  <2>2. \A m \in Issued : m \in [req : Requests, id : Nat] /\ m.id \in Nat
    BY Zenon DEF Issued
  <2> QED
    BY <1>4, <2>1, <2>2
<1>11. \A m \in Issued' : m.id < IdSpace /\ Turn(m.id) < n + 1
  <2>1. \A m \in Issued : m.id < IdSpace /\ Turn(m.id) < n + 1
    BY <1>4, <1>8, <1>10, TurnFacts
  <2>2. taken.id < IdSpace /\ Turn(taken.id) < n + 1
    BY <1>4, <1>5, <1>8, <1>9
  <2> QED
    BY Zenon, <1>6, <2>1, <2>2
<1>12. n + 1 < IdSpace => Turn(nextId') = n + 1
  BY Zenon, <1>1, <1>4, <1>9, NextTurn
<1>13. \A m, o \in Issued' : m.id = o.id => m = o
  <2>1. \A m, o \in Issued : m.id = o.id => m = o
    BY Zenon, <1>1 DEF IdsInv
  <2>2. \A m \in Issued : m.id # taken.id
    BY <1>4, <1>5, <1>8, <1>9, <1>10, TurnFacts
  <2> QED
    BY Zenon, <1>6, <2>1, <2>2
<1>14. \A p \in Requests : ~Queued(p)'
  BY <1>2 DEF Queued
<1>15. \A c \in Calls : pc'[c] \in {"idle", "cloned"} => c \notin Numbered'
  <2> SUFFICES ASSUME NEW c \in Calls, pc[c] \in {"idle", "cloned"}
               PROVE  c \notin Numbered'
    BY Zenon, <1>1
  <2>1. c \notin Numbered
    BY Zenon, <1>1 DEF IdsInv
  <2>2. ~Queued(c)
    BY Zenon, UnansweredMeans DEF ReasonInv, Untouched, Requests
  <2> QED
    BY Zenon, <1>2, <1>7, <2>1, <2>2
<1>16. \A k \in Keepalives : oneshot'[k] = NoAnswer => ~Queued(k)' /\ k \notin Numbered'
  <2> SUFFICES ASSUME NEW k \in Keepalives, oneshot[k] = NoAnswer
               PROVE  ~Queued(k)' /\ k \notin Numbered'
    BY Zenon, <1>1
  <2>1. k \notin Numbered /\ ~Queued(k)
    BY Zenon, <1>1 DEF IdsInv
  <2> QED
    BY Zenon, <1>2, <1>7, <1>14, <2>1 DEF Requests
<1>17. \A o \in outstanding' : [req |-> o.req, id |-> o.id] \in server'.seen
  BY Zenon, <1>1 DEF IdsInv
<1> QED
  BY Zenon, <1>8, <1>11, <1>12, <1>13, <1>14, <1>15, <1>16, <1>17 DEF IdsInv

LEMMA IdsInit == Init => IdsInv /\ OwnInv
<1> SUFFICES ASSUME Init PROVE IdsInv /\ OwnInv
  BY Zenon
<1>1. OwnInv
  BY Zenon DEF Init, OwnInv, NoAnswer, Requests
<1>2. Issued = {}
  BY Zenon, NamesAssumption DEF NamesAssumption, Outgoing, Init, Issued
<1>3. Numbered = {}
  BY Zenon, <1>2 DEF Numbered
<1>4. Cardinality(Numbered) = 0
  BY Zenon, <1>3, FS_EmptySet
<1>5. Turn(nextId) = 0
  BY Zenon, TurnFacts DEF Init
<1>6. \A q : ~Queued(q)
  <2>1. queue = <<>> /\ DOMAIN queue = {}
    BY DEF Init
  <2> QED
    BY Zenon, <2>1 DEF Queued
<1>7. outstanding = {}
  BY Zenon DEF Init
<1> QED
  BY Zenon, <1>1, <1>2, <1>3, <1>4, <1>5, <1>6, <1>7 DEF IdsInv

LEMMA IdsNext ==
  ASSUME EnoughIds
  PROVE  ConnectionInv /\ IdsInv /\ OwnInv /\ [Next]_vars => IdsInv' /\ OwnInv'
<1> SUFFICES ASSUME ConnectionInv, IdsInv, OwnInv, [Next]_vars
             PROVE  IdsInv' /\ OwnInv'
  BY Zenon
<1>0. TypeOK /\ ReasonInv
  BY Zenon DEF ConnectionInv
<1>1. ASSUME NEW c \in Calls, SendStart(c) \/ CallStep(c) \/ SendCancel(c) PROVE IdsInv'
  BY Zenon, <1>0, <1>1, CallIds
<1>2. CASE \/ TaskStep \/ ReceiveRequest \/ ServerCloses \/ IdleTimeout
           \/ InterfaceChanged \/ NetworkChange \/ ServerSilent
           \/ \E m \in server.seen : ReceiveResponse(m)
  BY Zenon, <1>0, <1>2, TakeIds, TaskIds, OwnKept
<1>3. CASE \/ Disconnect \/ IsConnected \/ UNCHANGED vars
           \/ \E i \in responders : SendResponse(i)
  BY Zenon, <1>0, <1>3, AroundIds, OwnKept
<1> QED
  BY Zenon, <1>1, <1>2, <1>3, OwnKept DEF Next

\* While there are no more requests than ids (u64 in the code), a response reaches
\* the call it answers, although ids wrap, responses are matched by id alone, come
\* in any order and may be repeated (InFlightRequests).
THEOREM AnswersAreOwn ==
  ASSUME EnoughIds
  PROVE  Spec => []AnswerIsOwn
<1>1. OwnInv => AnswerIsOwn
  BY Zenon DEF OwnInv, AnswerIsOwn
<1>2. Init => IdsInv /\ OwnInv
  BY Zenon, IdsInit
<1>3. ConnectionInv /\ IdsInv /\ OwnInv /\ [Next]_vars => IdsInv' /\ OwnInv'
  BY Zenon, IdsNext
<1> QED
  BY <1>1, <1>2, <1>3, ConnectionHolds, PTL DEF Spec

=============================================================================
