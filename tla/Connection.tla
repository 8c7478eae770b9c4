----------------------------- MODULE Connection -----------------------------
(***************************************************************************)
(* One ServiceConnection (src/src/process.cpp), the service at the other   *)
(* end (the message loops of src/src/runtime.cpp, StreamWriter of          *)
(* src/src/stream.cpp) and the two byte streams between them, at the grain *)
(* of messages.                                                            *)
(*                                                                         *)
(* The n-th request carries sequence id Seq(n).  A message remembers the   *)
(* request it answers in n, which the code cannot see: it compares Seq(n). *)
(* call, create_object, get_property, set_property and call_object differ  *)
(* in payload only and are the api "call".  A client thread uses the       *)
(* connection alone; any thread of the service may set a property.         *)
(***************************************************************************)
EXTENDS Integers, Sequences, FiniteSets

CONSTANTS
  Apis,        \* subset of {"call", "stream", "oneway"} the client uses
  Methods,     \* subset of {"unary", "stream"} the service offers
  Properties,  \* (object, property) pairs
  NoProperty,
  Setters,     \* threads of the service that set properties
  Pipe,        \* local service behind a pipe (no push), or TCP
  SeqSpace,    \* number of sequence ids (2^32 in the code)
  Faults,      \* what may go wrong, out of FaultKinds
  MaxRequests, MaxChunks, MaxChanges, MaxQueue  \* bounds

FaultKinds == {"crash",            \* the service dies
               "timeout",          \* the client's timeout expires
               "handler",          \* a callback of the client throws
               "throw after end",  \* a stream handler throws after end()
               "blocking poll",    \* poll_notifications(-1)
               "move"}             \* the connection object is moved

ASSUME ConnectionAssumption ==
  /\ Apis \subseteq {"call", "stream", "oneway"}
  /\ Methods \subseteq {"unary", "stream"}
  /\ Pipe \in BOOLEAN /\ Faults \subseteq FaultKinds
  /\ MaxRequests \in Nat /\ MaxChunks \in Nat /\ MaxChanges \in Nat /\ MaxQueue \in Nat
  /\ NoProperty \notin Properties
  /\ SeqSpace \in Nat /\ MaxRequests < SeqSpace

VARIABLES
  pc, request, callbacks,           \* the client: where it is, what it sends
  up, down,                         \* messages under way
  serverUp, serving, subs,          \* the service
  value, setting,                   \* its properties, and the setters under way
  sent, outcome, executed,          \* history of the requests
  produced, received,               \* history of the streams
  last, base, raced                 \* history of the notifications

clientVars == <<pc, request, callbacks>>
serverVars == <<serverUp, serving, subs, value, setting>>
historyVars == <<sent, outcome, executed, produced, received, last, base, raced>>
vars == <<clientVars, up, down, serverVars, historyVars>>

Requests == 1..MaxRequests
Seq32(n) == n % SeqSpace
current  == Len(sent)
Unset    == [api |-> "call", method |-> "unary"]
None     == [n |-> 0, ended |-> FALSE]
Resting  == [prop |-> NoProperty, data |-> 0, told |-> FALSE]

Message(kind, n, p, data) == [kind |-> kind, n |-> n, prop |-> p, data |-> data]
Reply(kind, n, data) == Message(kind, n, NoProperty, data)
Notify(p, v) == Message("notify", 0, p, v)

-----------------------------------------------------------------------------
(* The client                                                              *)

\* The health check every operation begins with: alive() for a pipe, the
\* local socket for TCP.
Begin(api, method) ==
  /\ pc = "idle" /\ current < MaxRequests
  /\ serverUp \/ ~Pipe
  /\ pc' = "sending"
  /\ request' = [api |-> api, method |-> method]
  /\ UNCHANGED <<callbacks, up, down, serverVars, historyVars>>

\* The request takes the next sequence id and is written to the channel; a
\* one-way call does not wait.
Send ==
  /\ pc = "sending" /\ serverUp
  /\ sent' = Append(sent, request)
  /\ up' = Append(up, [kind |-> "request", n |-> current + 1, prop |-> NoProperty])
  /\ outcome' = [outcome EXCEPT ![current + 1] =
                   IF request.api = "oneway" THEN "oneway" ELSE "pending"]
  /\ pc' = CASE request.api = "call"   -> "waiting"
             [] request.api = "stream" -> "streaming"
             [] OTHER                  -> "idle"
  /\ request' = Unset
  /\ UNCHANGED <<callbacks, down, serverVars, executed, produced,
                 received, last, base, raced>>

\* The service died after the check.  A write to a pipe nobody reads raises
\* SIGPIPE, which song does not handle; a socket write throws, or goes nowhere.
SendToDead ==
  /\ pc = "sending" /\ ~serverUp
  /\ sent' = Append(sent, request)
  /\ \/ /\ Pipe
        /\ pc' = "killed"
        /\ outcome' = [outcome EXCEPT ![current + 1] = "eof"]
     \/ /\ ~Pipe
        /\ pc' = "idle"
        /\ outcome' = [outcome EXCEPT ![current + 1] = "eof"]
     \/ /\ ~Pipe /\ request.api # "oneway"
        /\ pc' = IF request.api = "call" THEN "waiting" ELSE "streaming"
        /\ outcome' = [outcome EXCEPT ![current + 1] = "pending"]
  /\ request' = Unset
  /\ UNCHANGED <<callbacks, up, down, serverVars, executed, produced,
                 received, last, base, raced>>

\* The request in hand is over, one way or another.
Finish(how) == pc' = "idle" /\ outcome' = [outcome EXCEPT ![current] = how]

\* dispatch_notification: nothing happens without a registered callback.
Dispatch(m) ==
  last' = IF m.prop \in callbacks THEN [last EXCEPT ![m.prop] = m.data] ELSE last

Take == down # <<>> /\ down' = Tail(down)

\* Mutant: a notification that arrives during a call is thrown away.
RecvReplySkips ==
  LET m == Head(down)
  IN /\ pc = "waiting" /\ Take
     /\ IF m.kind = "notify" THEN UNCHANGED <<pc, outcome>>
        ELSE IF Seq32(m.n) # Seq32(current) THEN Finish("mismatch")
        ELSE IF m.kind \in {"result", "error"}
             THEN Finish(IF m.kind = "result" THEN "ok" ELSE "error")
        ELSE Finish("type")
     /\ UNCHANGED <<request, callbacks, up, serverVars, sent, executed, produced,
                    received, last, base, raced>>

\* Mutant: the sequence id of a reply is not compared.
RecvReplyAny ==
  LET m == Head(down)
  IN /\ pc = "waiting" /\ Take
     /\ IF m.kind = "notify" THEN Dispatch(m) /\ UNCHANGED <<pc, outcome>>
        ELSE /\ last' = last
             /\ IF m.kind \in {"result", "error"}
                THEN Finish(IF m.kind = "result" THEN "ok" ELSE "error")
                ELSE Finish("type")
     /\ UNCHANGED <<request, callbacks, up, serverVars, sent, executed, produced,
                    received, base, raced>>

\* recv_reply and what the callers make of the reply.  Notifications are
\* dispatched on the way, and a callback that throws ends the call.
RecvReply ==
  LET m == Head(down)
  IN /\ pc = "waiting" /\ Take
     /\ \/ /\ m.kind = "notify"
           /\ Dispatch(m)
           /\ \/ UNCHANGED <<pc, outcome>>
              \/ "handler" \in Faults /\ m.prop \in callbacks /\ Finish("handler")
        \/ /\ m.kind # "notify" /\ last' = last
           /\ \/ Seq32(m.n) # Seq32(current) /\ Finish("mismatch")
              \/ /\ Seq32(m.n) = Seq32(current)
                 /\ \/ m.kind = "result" /\ Finish("ok")
                    \/ m.kind = "error" /\ Finish("error")
                    \/ m.kind \in {"chunk", "end"} /\ Finish("type")
     /\ UNCHANGED <<request, callbacks, up, serverVars, sent, executed, produced,
                    received, base, raced>>

\* Mutant: the sequence id is not compared inside a stream.
RecvStreamAny ==
  LET m == Head(down)
  IN /\ pc = "streaming" /\ Take
     /\ \/ /\ m.kind = "chunk"
           /\ received' = [received EXCEPT ![current] = Append(@, <<m.n, m.data>>)]
           /\ UNCHANGED <<pc, outcome>>
        \/ /\ m.kind # "chunk"
           /\ Finish(IF m.kind = "end" THEN "ok" ELSE "error")
           /\ received' = received
     /\ UNCHANGED <<request, callbacks, up, serverVars, sent, executed, produced,
                    last, base, raced>>

\* The loop of call_streaming.  It knows no notifications: one carries
\* sequence id 0 and fails the comparison.
RecvStream ==
  LET m == Head(down)
  IN /\ pc = "streaming" /\ Take
     /\ \/ /\ Seq32(m.n) # Seq32(current)
           /\ Finish(IF m.kind = "notify" THEN "notify" ELSE "mismatch")
           /\ received' = received
        \/ /\ Seq32(m.n) = Seq32(current) /\ m.kind = "chunk"
           /\ received' = [received EXCEPT ![current] = Append(@, <<m.n, m.data>>)]
           /\ UNCHANGED <<pc, outcome>> \/ ("handler" \in Faults /\ Finish("handler"))
        \/ /\ Seq32(m.n) = Seq32(current) /\ m.kind # "chunk"
           /\ \/ m.kind = "end" /\ Finish("ok")
              \/ m.kind = "error" /\ Finish("error")
              \/ m.kind \in {"result", "notify"} /\ Finish("type")
           /\ received' = received
     /\ UNCHANGED <<request, callbacks, up, serverVars, sent, executed, produced,
                    last, base, raced>>

\* receive() reports end of file once what was under way has been read.
Eof ==
  /\ pc \in {"waiting", "streaming"} /\ down = <<>> /\ ~serverUp
  /\ Finish("eof")
  /\ UNCHANGED <<request, callbacks, up, down, serverVars, sent, executed, produced,
                 received, last, base, raced>>

\* No byte arrived in time; the answer may still come.
TimedOut ==
  /\ "timeout" \in Faults
  /\ pc \in {"waiting", "streaming"} /\ down = <<>> /\ serverUp
  /\ Finish("timeout")
  /\ UNCHANGED <<request, callbacks, up, down, serverVars, sent, executed, produced,
                 received, last, base, raced>>

\* A message that awaits no answer, sent without looking at the service's
\* health: to a dead one it throws, or kills the client as in SendToDead.
Post(kind, p) ==
  /\ \/ /\ serverUp /\ Len(up) < MaxQueue
        /\ up' = Append(up, [kind |-> kind, n |-> 0, prop |-> p])
        /\ pc' = pc
     \/ /\ ~serverUp
        /\ up' = up
        /\ pc' = IF Pipe THEN "killed" ELSE pc
  /\ UNCHANGED <<request, down, serverVars, historyVars>>

SubscribeProperty(p) ==
  /\ pc = "idle"
  /\ callbacks' = callbacks \cup {p}
  /\ Post("subscribe", p)

UnsubscribeProperty(p) ==
  /\ pc = "idle"
  /\ callbacks' = callbacks \ {p}
  /\ Post("unsubscribe", p)

\* poll_notifications: a timeout of -1 waits without limit.
StartPoll(blocking) ==
  /\ pc = "idle"
  /\ blocking => "blocking poll" \in Faults
  /\ pc' = IF blocking THEN "blocked" ELSE "polling"
  /\ UNCHANGED <<request, callbacks, up, down, serverVars, historyVars>>

\* One message is taken, and dropped when it is not a notification.
Poll ==
  /\ pc \in {"polling", "blocked"}
  /\ pc' = "idle"
  /\ \/ /\ Take
        /\ IF Head(down).kind = "notify" THEN Dispatch(Head(down)) ELSE last' = last
     \/ /\ down = <<>> /\ (pc = "polling" \/ ~serverUp)
        /\ UNCHANGED <<down, last>>
  /\ UNCHANGED <<request, callbacks, up, serverVars, sent, outcome, executed,
                 produced, received, base, raced>>

\* The move constructor leaves the callbacks behind.
Move ==
  /\ "move" \in Faults /\ pc = "idle"
  /\ callbacks' = {}
  /\ UNCHANGED <<pc, request, up, down, serverVars, historyVars>>

-----------------------------------------------------------------------------
(* The service                                                             *)

Takes(kind) == up # <<>> /\ Head(up).kind = kind /\ up' = Tail(up)
Ready == serverUp /\ serving = None

\* Mutant: what the dispatcher throws is not turned into a reply.
ServeUnarySilent ==
  /\ Ready /\ Takes("request")
  /\ sent[Head(up).n].method = "unary"
  /\ \/ /\ executed' = [executed EXCEPT ![Head(up).n] = "ok"]
        /\ down' = Append(down, Reply("result", Head(up).n, 0))
     \/ /\ executed' = [executed EXCEPT ![Head(up).n] = "error"]
        /\ down' = down
  /\ UNCHANGED <<clientVars, serverVars, sent, outcome, produced, received, last, base, raced>>

\* Mutant: only a request whose execution succeeded is marked as executed, and
\* a failed one is executed again.
ServeUnaryRetries ==
  /\ Ready /\ up # <<>> /\ Head(up).kind = "request"
  /\ sent[Head(up).n].method = "unary"
  /\ \E r \in {"ok", "error"} :
       /\ executed' = [executed EXCEPT ![Head(up).n] = r]
       /\ IF r = "ok"
          THEN up' = Tail(up) /\ down' = Append(down, Reply("result", Head(up).n, 0))
          ELSE UNCHANGED <<up, down>>
  /\ UNCHANGED <<clientVars, serverVars, sent, outcome, produced, received, last, base, raced>>

\* A call, or an operation on an object: a result, or an error when the
\* dispatcher throws.  A one-way call is answered like any other.
ServeUnary ==
  /\ Ready /\ Takes("request")
  /\ sent[Head(up).n].method = "unary"
  /\ \E r \in {"ok", "error"} :
       /\ executed' = [executed EXCEPT ![Head(up).n] = r]
       /\ down' = Append(down, Reply(IF r = "ok" THEN "result" ELSE "error", Head(up).n, 0))
  /\ UNCHANGED <<clientVars, serverVars, sent, outcome, produced, received, last, base, raced>>

ServeStream ==
  /\ Ready /\ Takes("request")
  /\ sent[Head(up).n].method = "stream"
  /\ serving' = [n |-> Head(up).n, ended |-> FALSE]
  /\ UNCHANGED <<clientVars, down, serverUp, subs, value, setting, historyVars>>

\* Mutant: a chunk is framed with a type no client knows.
StreamWriteMistyped ==
  LET n == serving.n
  IN /\ serverUp /\ serving # None /\ ~serving.ended /\ produced[n] < MaxChunks
     /\ produced' = [produced EXCEPT ![n] = @ + 1]
     /\ down' = Append(down, Reply("data", n, produced[n] + 1))
     /\ UNCHANGED <<clientVars, up, serverVars, sent, outcome, executed, received,
                    last, base, raced>>

\* StreamWriter::write, end, and the destructor after the handler returned.
StreamWrite ==
  LET n == serving.n
  IN /\ serverUp /\ serving # None /\ ~serving.ended /\ produced[n] < MaxChunks
     /\ produced' = [produced EXCEPT ![n] = @ + 1]
     /\ down' = Append(down, Reply("chunk", n, produced[n] + 1))
     /\ UNCHANGED <<clientVars, up, serverVars, sent, outcome, executed, received,
                    last, base, raced>>

StreamEnd ==
  LET n == serving.n
  IN /\ serverUp /\ serving # None /\ ~serving.ended
     /\ serving' = [serving EXCEPT !.ended = TRUE]
     /\ executed' = [executed EXCEPT ![n] = "ok"]
     /\ down' = Append(down, Reply("end", n, 0))
     /\ UNCHANGED <<clientVars, up, serverUp, subs, value, setting, sent, outcome, produced,
                    received, last, base, raced>>

StreamReturn ==
  /\ serverUp /\ serving # None /\ serving.ended
  /\ serving' = None
  /\ UNCHANGED <<clientVars, up, down, serverUp, subs, value, setting, historyVars>>

\* Mutant: the writer is not aborted, its destructor ends the stream first.
StreamThrowUnaborted ==
  LET n == serving.n
  IN /\ serverUp /\ serving # None /\ ~serving.ended
     /\ serving' = None
     /\ executed' = [executed EXCEPT ![n] = "error"]
     /\ down' = down \o <<Reply("end", n, 0), Reply("error", n, 0)>>
     /\ UNCHANGED <<clientVars, up, serverUp, subs, value, setting, sent, outcome, produced,
                    received, last, base, raced>>

\* The handler throws: the writer is aborted, the error is the last message.
StreamThrow ==
  LET n == serving.n
  IN /\ serverUp /\ serving # None
     /\ serving.ended => "throw after end" \in Faults
     /\ serving' = None
     /\ executed' = IF serving.ended THEN executed ELSE [executed EXCEPT ![n] = "error"]
     /\ down' = Append(down, Reply("error", n, 0))
     /\ UNCHANGED <<clientVars, up, serverUp, subs, value, setting, sent, outcome, produced,
                    received, last, base, raced>>

\* The pipe loop ignores subscriptions.
ServeSubscribe ==
  /\ Ready /\ Takes("subscribe")
  /\ subs' = IF Pipe THEN subs ELSE subs \cup {Head(up).prop}
  /\ base' = [base EXCEPT ![Head(up).prop] = value[Head(up).prop]]
  /\ UNCHANGED <<clientVars, down, serverUp, serving, value, setting, sent, outcome, executed,
                 produced, received, last, raced>>

ServeUnsubscribe ==
  /\ Ready /\ Takes("unsubscribe")
  /\ subs' = subs \ {Head(up).prop}
  /\ UNCHANGED <<clientVars, down, serverUp, serving, value, setting, historyVars>>

\* The generated setter, in any thread of the service, assigns the property and
\* calls notify_property with the value it was given.
SetProperty(t, p) ==
  /\ serverUp /\ setting[t] = Resting /\ value[p] < MaxChanges
  /\ value' = [value EXCEPT ![p] = @ + 1]
  /\ setting' = [setting EXCEPT ![t] = [prop |-> p, data |-> value[p] + 1, told |-> FALSE]]
  /\ raced' = IF \E other \in Setters : setting[other].prop = p THEN raced \cup {p}
              ELSE raced \ {p}
  /\ UNCHANGED <<clientVars, up, down, serverUp, serving, subs, sent, outcome, executed,
                 produced, received, last, base>>

\* SubscriptionRegistry::notify copies the subscribers under its mutex ...
CopyTargets(t) ==
  /\ serverUp /\ setting[t].prop \in Properties /\ ~setting[t].told
  /\ setting' = [setting EXCEPT ![t] =
                   IF @.prop \in subs THEN [@ EXCEPT !.told = TRUE] ELSE Resting]
  /\ UNCHANGED <<clientVars, up, down, serverUp, serving, subs, value, historyVars>>

\* ... and sends without it: other setters of the property may be at it too, and
\* their notifications pass each other.
SendNotify(t) ==
  /\ serverUp /\ setting[t].prop \in Properties /\ setting[t].told
  /\ down' = Append(down, Notify(setting[t].prop, setting[t].data))
  /\ setting' = [setting EXCEPT ![t] = Resting]
  /\ UNCHANGED <<clientVars, up, serverUp, serving, subs, value, historyVars>>

Setting == \E t \in Setters : CopyTargets(t) \/ SendNotify(t) \/ \E p \in Properties : SetProperty(t, p)

\* The service dies; of what it sent the client may find only the beginning.
Crash ==
  /\ "crash" \in Faults /\ serverUp
  /\ serverUp' = FALSE
  /\ up' = <<>>
  /\ \E k \in 0..Len(down) : down' = SubSeq(down, 1, k)
  /\ setting' = [t \in Setters |-> Resting]
  /\ UNCHANGED <<clientVars, serving, subs, value, historyVars>>

-----------------------------------------------------------------------------
Init ==
  /\ pc = "idle" /\ request = Unset /\ callbacks = {}
  /\ up = <<>> /\ down = <<>>
  /\ serverUp = TRUE /\ serving = None /\ subs = {}
  /\ value = [p \in Properties |-> 0] /\ setting = [t \in Setters |-> Resting]
  /\ sent = <<>>
  /\ outcome = [n \in Requests |-> "new"]
  /\ executed = [n \in Requests |-> "no"]
  /\ produced = [n \in Requests |-> 0]
  /\ received = [n \in Requests |-> <<>>]
  /\ last = [p \in Properties |-> 0] /\ base = [p \in Properties |-> 0]
  /\ raced = {}

Receiving == RecvReply \/ RecvStream \/ Eof \/ TimedOut

Client ==
  \/ \E api \in Apis, method \in Methods : Begin(api, method)
  \/ Send \/ SendToDead \/ Receiving
  \/ \E p \in Properties : SubscribeProperty(p) \/ UnsubscribeProperty(p)
  \/ \E blocking \in BOOLEAN : StartPoll(blocking)
  \/ Poll \/ Move

Handling == ServeUnary \/ ServeStream \/ StreamWrite \/ StreamEnd \/ StreamReturn
              \/ StreamThrow \/ ServeSubscribe \/ ServeUnsubscribe

Next == Client \/ Handling \/ Setting \/ Crash

Spec == Init /\ [][Next]_vars

\* The service's loop and the client's thread keep running; no message or
\* timeout is forced.
FairSpec == Spec /\ WF_vars(Send \/ SendToDead \/ RecvReply \/ RecvStream \/ Eof \/ Poll)
                 /\ WF_vars(Handling)

-----------------------------------------------------------------------------
(* Properties                                                              *)

Outcomes == {"new", "pending", "ok", "error", "oneway", "eof", "timeout",
             "mismatch", "type", "handler", "notify"}

\* Types of the channel, the two ends and the history.
TypeOK ==
  /\ pc \in {"idle", "sending", "waiting", "streaming", "polling", "blocked", "killed"}
  /\ request \in [api : {"call", "stream", "oneway"}, method : {"unary", "stream"}]
  /\ callbacks \subseteq Properties /\ subs \subseteq Properties
  /\ up \in Seq([kind : {"request", "subscribe", "unsubscribe"}, n : 0..MaxRequests,
                 prop : Properties \cup {NoProperty}])
  /\ down \in Seq([kind : {"result", "error", "chunk", "end", "notify"},
                   n : 0..MaxRequests, prop : Properties \cup {NoProperty}, data : Nat])
  /\ serverUp \in BOOLEAN
  /\ serving \in [n : 0..MaxRequests, ended : BOOLEAN]
  /\ value \in [Properties -> Nat] /\ last \in [Properties -> Nat]
  /\ base \in [Properties -> Nat] /\ raced \subseteq Properties
  /\ setting \in [Setters -> [prop : Properties \cup {NoProperty}, data : Nat, told : BOOLEAN]]
  /\ sent \in Seq([api : {"call", "stream", "oneway"}, method : {"unary", "stream"}])
  /\ Len(sent) <= MaxRequests
  /\ outcome \in [Requests -> Outcomes]
  /\ executed \in [Requests -> {"no", "ok", "error"}]
  /\ produced \in [Requests -> Nat]
  /\ received \in [Requests -> Seq(Requests \X Nat)]

\* A request that ended with a reply ended with its own: a reply that comes
\* after a timeout, a one-way call or an abandoned stream is never taken for
\* the answer to a later request.
OwnReply ==
  \A n \in Requests : outcome[n] \in {"ok", "error"} => executed[n] = outcome[n]

\* The chunks handed to on_chunk are those the service wrote for this request,
\* in order and without a gap; and when call_streaming returns, the handler
\* had not failed and every chunk was handed over.
StreamWhole ==
  \A n \in 1..current :
    /\ received[n] = [i \in 1..Len(received[n]) |-> <<n, i>>]
    /\ sent[n].api = "stream" /\ outcome[n] = "ok" => Len(received[n]) = produced[n]

\* A sequence id mismatch has a cause: some earlier request went unanswered on
\* purpose (one-way), or was abandoned before its last reply was read.
StaysInSync ==
  \A n \in Requests : outcome[n] = "mismatch" =>
    \E k \in 1..n-1 : outcome[k] \in {"oneway", "timeout", "type", "handler", "notify"}

\* No update is lost, except the one a stream failed on: when nothing is under
\* way, no setter either, a callback that is registered at both ends was last
\* called with the current value, if the value changed since the service took the
\* subscription.  Of two setters at one property at once the slower may tell the
\* older value last, and then nobody corrects it until the property is set by one
\* thread alone again: properties last set like that (raced) are excepted.
UpToDate ==
  pc = "idle" /\ up = <<>> /\ down = <<>> /\ serverUp
      /\ (\A t \in Setters : setting[t] = Resting)
      /\ (\A n \in Requests : outcome[n] # "notify") =>
    \A p \in (callbacks \cap subs) \ raced : last[p] = value[p] \/ value[p] = base[p]

\* A call in progress ends, by its answer or by the end of the service, without
\* any timeout expiring.
CallReturns == pc \in {"waiting", "streaming"} ~> pc = "idle"

\* The requests as the abstract channel sees them.
Abstract(o) == IF o \in {"new", "pending", "ok", "error"} THEN o ELSE "failed"
Channel == INSTANCE RpcChannel WITH
             outcome <- [n \in Requests |-> Abstract(outcome[n])]
ChannelSpec == Channel!Spec
=============================================================================
