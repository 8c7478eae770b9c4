-------------------------- MODULE ConnectionProofs --------------------------
(***************************************************************************)
(* Theorems about Connection: the types of its state, whose answer a       *)
(* request gets, whole streams, the causes of a lost place, the updates of *)
(* subscribed properties, and that it implements RpcChannel.               *)
(***************************************************************************)
EXTENDS Connection, Handshake, TLAPS

-----------------------------------------------------------------------------
(* Sequences: what taking, adding and losing messages does, by position.   *)

\* Taking the first message moves every other one forward by a place.
LEMMA Taken ==
  ASSUME NEW S, NEW s \in Seq(S), s # <<>>
  PROVE  /\ Head(s) = s[1] /\ Head(s) \in S
         /\ Tail(s) \in Seq(S)
         /\ Len(s) \in Nat \ {0} /\ Len(Tail(s)) = Len(s) - 1
         /\ \A i \in 1..Len(s) - 1 : Tail(s)[i] = s[i + 1]
OBVIOUS

\* A message is added behind all others.
LEMMA Added ==
  ASSUME NEW S, NEW s \in Seq(S), NEW m \in S
  PROVE  /\ Append(s, m) \in Seq(S)
         /\ Len(s) \in Nat /\ Len(Append(s, m)) = Len(s) + 1
         /\ \A i \in 1..Len(s) : Append(s, m)[i] = s[i]
         /\ Append(s, m)[Len(s) + 1] = m
OBVIOUS

\* What a crash leaves under way is a beginning of what was.
LEMMA Kept ==
  ASSUME NEW S, NEW s \in Seq(S), NEW k \in 0..Len(s)
  PROVE  /\ SubSeq(s, 1, k) \in Seq(S)
         /\ Len(s) \in Nat /\ Len(SubSeq(s, 1, k)) = k
         /\ \A i \in 1..k : SubSeq(s, 1, k)[i] = s[i]
OBVIOUS

\* Sequence ids tell the requests of a connection apart, and from 0.
LEMMA SeqsDiffer ==
  ASSUME NEW m \in 0..MaxRequests, NEW n \in 0..MaxRequests
  PROVE  Seq32(m) = Seq32(n) <=> m = n
<1>1. \A k \in 0..MaxRequests : k % SeqSpace = k
  BY ConnectionAssumption
<1>2. QED
  BY <1>1 DEF Seq32

-----------------------------------------------------------------------------
(* The inductive invariants                                                *)

Waits == pc \in {"waiting", "streaming"}

\* A message to the service carries a request of the client's or a property;
\* one to the client answers a request or tells of a property.
UpShapes == \A i \in 1..Len(up) : IF up[i].kind = "request" THEN up[i].n \in 1..current
                                                            ELSE up[i].prop \in Properties
DownShapes == \A i \in 1..Len(down) :
  IF down[i].kind = "notify" THEN down[i].n = 0 /\ down[i].prop \in Properties
                             ELSE down[i].n \in 1..current
Shapes == UpShapes /\ DownShapes /\ (serving = None \/ serving.n \in 1..current)

\* The client awaits its last request, if any; nothing happened yet to those
\* it has not sent.
Phase ==
  /\ pc = "sending" => current < MaxRequests
  /\ pc = "waiting" => current >= 1 /\ outcome[current] = "pending"
                                    /\ sent[current].api = "call"
  /\ pc = "streaming" => current >= 1 /\ outcome[current] = "pending"
                                      /\ sent[current].api = "stream"
  /\ \A n \in Requests : /\ outcome[n] = "new" <=> n > current
                         /\ outcome[n] = "pending" => n = current /\ Waits
                         /\ n > current => executed[n] = "no" /\ produced[n] = 0
                                                              /\ received[n] = <<>>
  /\ ~serverUp => up = <<>>

Base == TypeOK /\ Shapes /\ Phase

\* The requests on their way to the service come after the one it serves, in
\* the order of their numbers, and none of them was executed.
Order ==
  /\ \A i \in 1..Len(up) : up[i].kind = "request" =>
       /\ serving.n < up[i].n
       /\ \A k \in up[i].n..MaxRequests : executed[k] = "no"
       /\ \A j \in i+1..Len(up) : up[j].kind = "request" => up[i].n < up[j].n
  /\ serving # None =>
       /\ executed[serving.n] = IF serving.ended THEN "ok" ELSE "no"
       /\ \A k \in serving.n+1..MaxRequests : executed[k] = "no"

IsChunk(m, n, d) == m.kind = "chunk" /\ m.n = n /\ m.data = d

\* A reply under way tells what became of its request.  The error of a handler
\* that threw after end() comes too late to be taken for an answer.
Reports(i) ==
  LET m == down[i]
  IN /\ m.kind \in {"result", "end"} => executed[m.n] = "ok"
     /\ m.kind = "error" =>
          \/ executed[m.n] = "error"
          \/ /\ executed[m.n] = "ok"
             /\ \/ outcome[m.n] # "pending"
                \/ \E j \in 1..i-1 : down[j].kind = "end" /\ down[j].n = m.n
     /\ m.kind = "chunk" => m.data \in 1..produced[m.n]
\* A stream that has ended was told so, and nobody who awaits it has read that.
EndSent ==
  serverUp /\ serving # None /\ serving.ended =>
    \/ outcome[serving.n] # "pending"
    \/ \E j \in 1..Len(down) : down[j].kind = "end" /\ down[j].n = serving.n
Replies == EndSent /\ \A i \in 1..Len(down) : Reports(i)

Answers == Order /\ Replies /\ OwnReply

\* The chunks of a stream that is being read are under way in order: each one
\* follows the one before it, or that was the last to be received.
Whole(n) ==
  /\ Len(received[n]) <= produced[n]
  /\ \A i \in 1..Len(received[n]) : received[n][i] = <<n, i>>
  /\ n <= current /\ outcome[n] = "ok" /\ sent[n].api = "stream"
       => Len(received[n]) = produced[n]
\* What was written of stream n, up to chunk d, is received or among the first
\* k messages under way.
UpTo(n, d, k) == d = Len(received[n]) \/ \E j \in 1..k : IsChunk(down[j], n, d)
Coming(n) == serverUp /\ outcome[n] = "pending" => UpTo(n, produced[n], Len(down))
Follows(i) ==
  /\ down[i].kind = "chunk" /\ outcome[down[i].n] = "pending"
       => UpTo(down[i].n, down[i].data - 1, i - 1)
  /\ down[i].kind = "end" /\ outcome[down[i].n] = "pending"
       => UpTo(down[i].n, produced[down[i].n], i - 1)
Later(i) ==
  down[i].kind = "chunk" =>
    /\ Len(received[down[i].n]) < down[i].data
    /\ \A j \in i+1..Len(down) : down[j].kind = "chunk" /\ down[j].n = down[i].n
                                  => down[i].data < down[j].data
Streams == /\ \A n \in Requests : Whole(n) /\ Coming(n)
           /\ \A i \in 1..Len(down) : Follows(i) /\ Later(i)

Abandoned == {"oneway", "timeout", "type", "handler", "notify"}
Explained(n) == outcome[n] = "pending" \/ \E k \in 1..n : outcome[k] \in Abandoned

\* What is under way, or will be, for a request has its reader, or a cause.
Placed(i) ==
  down[i].kind # "notify" =>
    /\ Explained(down[i].n)
    /\ \A j \in i+1..Len(down) : down[j].n = down[i].n => down[i].kind = "chunk"
InSync ==
  /\ \A i \in 1..Len(up) : up[i].kind = "request" => Explained(up[i].n)
  /\ serverUp /\ serving # None /\ ~serving.ended => Explained(serving.n)
  /\ \A i \in 1..Len(down) : Placed(i)
  /\ StaysInSync

IsNotify(m, p) == m.kind = "notify" /\ m.prop = p
IsSubscribe(m, p) == m.kind = "subscribe" /\ m.prop = p

\* A property that was last set by one thread alone has the value that thread is
\* about to tell, if it has not told it.
Alone ==
  \A p \in Properties \ raced, t \in Setters : setting[t].prop = p =>
    /\ setting[t].data = value[p]
    /\ \A other \in Setters : setting[other].prop = p => other = t

\* The current value of a property subscribed to has reached the callback, or
\* is the last one under way, or a setter is about to send it.
Pending(p) == \E t \in Setters : setting[t].prop = p
Current(p) ==
  \/ value[p] = base[p]
  \/ Pending(p)
  \/ last[p] = value[p] /\ \A i \in 1..Len(down) : ~IsNotify(down[i], p)
  \/ \E i \in 1..Len(down) :
       /\ IsNotify(down[i], p) /\ down[i].data = value[p]
       /\ \A j \in i+1..Len(down) : ~IsNotify(down[j], p)
Awaits(p) == p \in callbacks \cap subs /\ \A i \in 1..Len(up) : ~IsSubscribe(up[i], p)
Unbroken == serverUp /\ \A n \in Requests : outcome[n] # "notify"
Updates == Alone /\ (Unbroken => \A p \in Properties \ raced : Awaits(p) => Current(p))

-----------------------------------------------------------------------------
(* The two channels                                                        *)

UpMessages == [kind : {"request", "subscribe", "unsubscribe"}, n : 0..MaxRequests,
               prop : Properties \cup {NoProperty}]
DownMessages == [kind : {"result", "error", "chunk", "end", "notify"},
                 n : 0..MaxRequests, prop : Properties \cup {NoProperty}, data : Nat]
Issued == [api : {"call", "stream", "oneway"}, method : {"unary", "stream"}]

LEMMA TakesReply ==
  ASSUME Base, Take
  PROVE  /\ down' \in Seq(DownMessages)
         /\ Len(down) \in Nat \ {0} /\ Len(down') = Len(down) - 1
         /\ \A i \in 1..Len(down) - 1 : down'[i] = down[i + 1]
         /\ Head(down) = down[1] /\ down[1] \in DownMessages
<1>1. down \in Seq(DownMessages) /\ down # <<>> /\ down' = Tail(down)
  BY DEF Base, TypeOK, Take, DownMessages
<1> QED BY <1>1, Taken

LEMMA TakesRequest ==
  ASSUME Base, up # <<>>, up' = Tail(up)
  PROVE  /\ up' \in Seq(UpMessages)
         /\ Len(up) \in Nat \ {0} /\ Len(up') = Len(up) - 1
         /\ \A i \in 1..Len(up) - 1 : up'[i] = up[i + 1]
         /\ Head(up) = up[1] /\ up[1] \in UpMessages
<1>1. up \in Seq(UpMessages)
  BY DEF Base, TypeOK, UpMessages
<1> QED BY <1>1, Taken

LEMMA AddsReply ==
  ASSUME Base, NEW m \in DownMessages, down' = Append(down, m)
  PROVE  /\ down' \in Seq(DownMessages)
         /\ Len(down) \in Nat /\ Len(down') = Len(down) + 1
         /\ \A i \in 1..Len(down) : down'[i] = down[i]
         /\ down'[Len(down) + 1] = m
<1>1. down \in Seq(DownMessages)
  BY DEF Base, TypeOK, DownMessages
<1> QED BY <1>1, Added

LEMMA AddsRequest ==
  ASSUME Base, NEW m \in UpMessages, up' = Append(up, m)
  PROVE  /\ up' \in Seq(UpMessages)
         /\ Len(up) \in Nat /\ Len(up') = Len(up) + 1
         /\ \A i \in 1..Len(up) : up'[i] = up[i]
         /\ up'[Len(up) + 1] = m
<1>1. up \in Seq(UpMessages)
  BY DEF Base, TypeOK, UpMessages
<1> QED BY <1>1, Added

\* A request that is sent is the next one.
LEMMA AddsSent ==
  ASSUME Base, pc = "sending", sent' = Append(sent, request)
  PROVE  /\ sent' \in Seq(Issued) /\ current' = current + 1
         /\ current \in 0..MaxRequests - 1 /\ current' \in Requests
         /\ \A n \in 1..current : sent'[n] = sent[n]
         /\ sent'[current + 1] = request /\ request \in Issued
<1>1. sent \in Seq(Issued) /\ request \in Issued /\ current < MaxRequests
  BY DEF Base, TypeOK, Issued, Phase
<1>2. /\ sent' \in Seq(Issued)
      /\ Len(sent) \in Nat /\ Len(sent') = Len(sent) + 1
      /\ \A i \in 1..Len(sent) : sent'[i] = sent[i]
      /\ sent'[Len(sent) + 1] = request
  BY <1>1, Added
<1> QED BY <1>1, <1>2, ConnectionAssumption DEF current, Requests

-----------------------------------------------------------------------------
(* Types, shapes and phases                                                *)

\* What sending makes of the history of the requests.
LEMMA SendPhase ==
  ASSUME Base, pc = "sending", sent' = Append(sent, request), NEW how \in Outcomes,
         outcome' = [outcome EXCEPT ![current + 1] = how],
         \/ how \notin {"new", "pending"} /\ pc' \in {"idle", "killed"}
         \/ how = "pending" /\ request.api = "call" /\ pc' = "waiting"
         \/ how = "pending" /\ request.api = "stream" /\ pc' = "streaming",
         ~serverUp' => up' = <<>>,
         UNCHANGED <<executed, produced, received>>
  PROVE  Phase' /\ outcome' \in [Requests -> Outcomes]
<1> USE ConnectionAssumption DEF current, Requests
<1>1. /\ current \in 0..MaxRequests - 1 /\ current' = current + 1 /\ current' \in Requests
      /\ sent'[current + 1] = request
  BY AddsSent
<1>2. /\ outcome' \in [Requests -> Outcomes]
      /\ \A n \in Requests : outcome'[n] = IF n = current' THEN how ELSE outcome[n]
  BY <1>1 DEF Base, TypeOK
<1>3. \A n \in Requests : outcome[n] # "pending"
  BY DEF Base, Phase, Waits
<1>4. \A n \in Requests : /\ outcome'[n] = "new" <=> n > current'
                          /\ n > current' => executed'[n] = "no" /\ produced'[n] = 0
                                                               /\ received'[n] = <<>>
  BY <1>1, <1>2 DEF Base, Phase
<1>5. \A n \in Requests : outcome'[n] = "pending" => n = current' /\ Waits'
  BY <1>2, <1>3 DEF Waits
<1>6. /\ pc' # "sending"
      /\ pc' = "waiting" => outcome'[current'] = "pending" /\ sent'[current'].api = "call"
      /\ pc' = "streaming" => outcome'[current'] = "pending" /\ sent'[current'].api = "stream"
  BY <1>1, <1>2
<1> HIDE DEF current
<1> QED BY <1>1, <1>2, <1>4, <1>5, <1>6 DEF Phase

LEMMA SendBase ==
  ASSUME Base, Send
  PROVE  Base'
<1> USE ConnectionAssumption DEF current, Requests
<1>1. /\ sent' \in Seq(Issued) /\ current' = current + 1
      /\ current \in 0..MaxRequests - 1 /\ current' \in Requests
      /\ request \in Issued
  BY AddsSent DEF Send
<1> DEFINE m == [kind |-> "request", n |-> current + 1, prop |-> NoProperty]
<1>2. /\ up' \in Seq(UpMessages)
      /\ Len(up) \in Nat /\ Len(up') = Len(up) + 1
      /\ \A i \in 1..Len(up) : up'[i] = up[i]
      /\ up'[Len(up) + 1] = m
  <2>1. m \in UpMessages
    BY <1>1 DEF UpMessages
  <2> QED BY <2>1, AddsRequest DEF Send
<1>3. Phase' /\ outcome' \in [Requests -> Outcomes]
  <2> DEFINE how == IF request.api = "oneway" THEN "oneway" ELSE "pending"
  <2>1. /\ how \in Outcomes
        /\ \/ how \notin {"new", "pending"} /\ pc' \in {"idle", "killed"}
           \/ how = "pending" /\ request.api = "call" /\ pc' = "waiting"
           \/ how = "pending" /\ request.api = "stream" /\ pc' = "streaming"
    BY <1>1 DEF Send, Issued, Outcomes
  <2> QED BY <2>1, SendPhase DEF Send, serverVars
<1>4. pc' \in {"idle", "waiting", "streaming"} /\ request' \in Issued
  BY <1>1 DEF Send, Unset, Issued
<1>5. TypeOK'
  <2>1. up' \in Seq(UpMessages) /\ Len(sent') <= MaxRequests
    BY <1>1, <1>2
  <2> HIDE DEF m
  <2> QED BY <1>1, <1>3, <1>4, <2>1 DEF Send, Base, TypeOK, Issued, UpMessages, serverVars
<1>6. Shapes'
  BY <1>1, <1>2 DEF Send, Base, Shapes, UpShapes, DownShapes, serverVars
<1> QED BY <1>3, <1>5, <1>6 DEF Base

LEMMA SendToDeadBase ==
  ASSUME Base, SendToDead
  PROVE  Base'
<1> USE ConnectionAssumption DEF current, Requests
<1>1. /\ sent' \in Seq(Issued) /\ current' = current + 1
      /\ current \in 0..MaxRequests - 1 /\ current' \in Requests
      /\ request \in Issued
  BY AddsSent DEF SendToDead
<1>2. Phase' /\ outcome' \in [Requests -> Outcomes]
  <2>1. up' = <<>>
    BY DEF SendToDead, Base, Phase
  <2>2. PICK how \in {"eof", "pending"} :
          /\ outcome' = [outcome EXCEPT ![current + 1] = how]
          /\ \/ how \notin {"new", "pending"} /\ pc' \in {"idle", "killed"}
             \/ how = "pending" /\ request.api = "call" /\ pc' = "waiting"
             \/ how = "pending" /\ request.api = "stream" /\ pc' = "streaming"
    BY <1>1 DEF SendToDead, Issued
  <2>3. how \in Outcomes
    BY DEF Outcomes
  <2> QED BY <2>1, <2>2, <2>3, SendPhase DEF SendToDead
<1>3. pc' \in {"idle", "waiting", "streaming", "killed"} /\ request' \in Issued
  BY <1>1 DEF SendToDead, Unset, Issued
<1>4. TypeOK'
  <2>1. UNCHANGED <<callbacks, up, down, serverUp, serving, subs, value, setting, executed,
                    produced, received, last, base, raced>>
    BY DEF SendToDead, serverVars
  <2>2. Len(sent') <= MaxRequests
    BY <1>1
  <2> QED BY <1>1, <1>2, <1>3, <2>1, <2>2 DEF Base, TypeOK, Issued
<1>5. Shapes'
  BY <1>1 DEF SendToDead, Base, Shapes, UpShapes, DownShapes, serverVars
<1> QED BY <1>2, <1>4, <1>5 DEF Base

\* What reading a message, or waiting for one, makes of the request in hand.
LEMMA FinishPhase ==
  ASSUME Base, Waits, NEW how \in Outcomes \ {"new", "pending"}, Finish(how),
         \A n \in Requests : n > current => received'[n] = received[n],
         UNCHANGED <<sent, serverUp, up, executed, produced>>
  PROVE  Phase' /\ outcome' \in [Requests -> Outcomes] /\ pc' = "idle"
<1> USE ConnectionAssumption DEF Requests
<1>1. current \in Requests /\ outcome[current] = "pending" /\ current' = current
  BY DEF Base, TypeOK, Phase, Waits, current
<1>2. /\ outcome' \in [Requests -> Outcomes] /\ pc' = "idle"
      /\ \A n \in Requests : outcome'[n] = IF n = current THEN how ELSE outcome[n]
  BY <1>1 DEF Base, TypeOK, Finish
<1>3. \A n \in Requests : outcome'[n] # "pending" /\ (outcome'[n] = "new" <=> outcome[n] = "new")
  BY <1>1, <1>2 DEF Base, Phase
<1> QED BY <1>1, <1>2, <1>3 DEF Base, Phase

LEMMA DispatchType ==
  ASSUME Base, NEW m \in DownMessages, Dispatch(m)
  PROVE  last' \in [Properties -> Nat]
BY DEF Base, TypeOK, Dispatch, DownMessages

LEMMA RecvReplyBase ==
  ASSUME Base, RecvReply
  PROVE  Base'
<1>1. /\ down' \in Seq(DownMessages)
      /\ Len(down) \in Nat \ {0} /\ Len(down') = Len(down) - 1
      /\ \A i \in 1..Len(down) - 1 : down'[i] = down[i + 1]
      /\ Head(down) = down[1] /\ down[1] \in DownMessages
  BY TakesReply DEF RecvReply
<1>2. last' \in [Properties -> Nat]
  BY <1>1, DispatchType DEF RecvReply, Base, TypeOK
<1>3. Phase' /\ outcome' \in [Requests -> Outcomes] /\ pc' \in {"idle", "waiting"}
  <2>1. CASE UNCHANGED <<pc, outcome>>
    BY <2>1 DEF RecvReply, Base, TypeOK, Phase, Waits, current, serverVars
  <2>2. CASE \E how \in {"ok", "error", "handler", "mismatch", "type"} : Finish(how)
    BY <2>2, FinishPhase DEF RecvReply, Outcomes, Waits, serverVars
  <2> QED BY <2>1, <2>2 DEF RecvReply
<1>4. TypeOK'
  BY <1>1, <1>2, <1>3 DEF RecvReply, Base, TypeOK, DownMessages, serverVars
<1>5. Shapes'
  BY <1>1 DEF RecvReply, Base, Shapes, UpShapes, DownShapes, serverVars, current
<1> QED BY <1>3, <1>4, <1>5 DEF Base

LEMMA RecvStreamBase ==
  ASSUME Base, RecvStream
  PROVE  Base'
<1>1. /\ down' \in Seq(DownMessages)
      /\ Len(down) \in Nat \ {0} /\ Len(down') = Len(down) - 1
      /\ \A i \in 1..Len(down) - 1 : down'[i] = down[i + 1]
      /\ Head(down) = down[1] /\ down[1] \in DownMessages
  BY TakesReply DEF RecvStream
<1>2. current \in Requests /\ Waits
  BY DEF RecvStream, Base, TypeOK, Phase, Waits, current, Requests
<1>3. /\ received' \in [Requests -> Seq(Requests \X Nat)]
      /\ \A n \in Requests : n > current => received'[n] = received[n]
  <2>1. CASE received' = received
    BY <2>1 DEF Base, TypeOK
  <2>2. CASE /\ Seq32(down[1].n) = Seq32(current) /\ down[1].kind = "chunk"
             /\ received' = [received EXCEPT ![current] = Append(@, <<down[1].n, down[1].data>>)]
    <3>1. <<down[1].n, down[1].data>> \in Requests \X Nat
      BY <2>2, <1>1, <1>2, SeqsDiffer DEF Requests, DownMessages
    <3>2. received[current] \in Seq(Requests \X Nat)
      BY <1>2 DEF Base, TypeOK
    <3>3. Append(received[current], <<down[1].n, down[1].data>>) \in Seq(Requests \X Nat)
      BY <3>1, <3>2
    <3> QED BY <2>2, <3>3, <1>2 DEF Base, TypeOK, Requests
  <2> QED BY <1>1, <2>1, <2>2 DEF RecvStream
<1>4. Phase' /\ outcome' \in [Requests -> Outcomes] /\ pc' \in {"idle", "streaming"}
  <2>1. CASE UNCHANGED <<pc, outcome>>
    BY <1>3, <2>1 DEF RecvStream, Base, TypeOK, Phase, Waits, current, serverVars
  <2>2. CASE \E how \in {"ok", "error", "handler", "mismatch", "type", "notify"} : Finish(how)
    BY <1>2, <1>3, <2>2, FinishPhase DEF RecvStream, Outcomes, serverVars
  <2> QED BY <2>1, <2>2 DEF RecvStream
<1>5. TypeOK'
  BY <1>1, <1>3, <1>4 DEF RecvStream, Base, TypeOK, DownMessages, serverVars
<1>6. Shapes'
  <2>1. UNCHANGED <<up, serving, sent>>
    BY DEF RecvStream, serverVars
  <2> QED BY <1>1, <2>1 DEF Base, Shapes, UpShapes, DownShapes, current
<1> QED BY <1>4, <1>5, <1>6 DEF Base

LEMMA EofBase ==
  ASSUME Base, Eof \/ TimedOut
  PROVE  Base'
<1>1. Phase' /\ outcome' \in [Requests -> Outcomes] /\ pc' = "idle"
  BY FinishPhase DEF Eof, TimedOut, Outcomes, Waits, serverVars
<1> QED BY <1>1 DEF Eof, TimedOut, Base, TypeOK, Shapes, UpShapes, DownShapes, serverVars,
                    current

LEMMA PostBase ==
  ASSUME Base, pc = "idle", NEW p \in Properties, NEW kind \in {"subscribe", "unsubscribe"},
         Post(kind, p), callbacks' \subseteq Properties
  PROVE  Base'
<1>1. CASE up' = up
  BY <1>1 DEF Post, Base, TypeOK, Shapes, UpShapes, DownShapes, Phase, Waits, current,
              serverVars, historyVars
<1>2. CASE serverUp /\ up' = Append(up, [kind |-> kind, n |-> 0, prop |-> p])
  <2> DEFINE m == [kind |-> kind, n |-> 0, prop |-> p]
  <2>1. /\ up' \in Seq(UpMessages)
        /\ Len(up) \in Nat /\ Len(up') = Len(up) + 1
        /\ \A i \in 1..Len(up) : up'[i] = up[i]
        /\ up'[Len(up) + 1] = m
    <3>1. m \in UpMessages
      BY ConnectionAssumption DEF UpMessages
    <3> QED BY <1>2, <3>1, AddsRequest
  <2>2. TypeOK'
    BY <1>2, <2>1 DEF Post, Base, TypeOK, UpMessages, serverVars, historyVars
  <2>3. Shapes'
    BY <2>1 DEF Post, Base, Shapes, UpShapes, DownShapes, current, serverVars, historyVars
  <2>4. Phase'
    BY <1>2 DEF Post, Base, Phase, Waits, current, serverVars, historyVars
  <2> QED BY <2>2, <2>3, <2>4 DEF Base
<1> QED BY <1>1, <1>2 DEF Post

LEMMA PollBase ==
  ASSUME Base, Poll
  PROVE  Base'
<1>1. /\ down' \in Seq(DownMessages) /\ last' \in [Properties -> Nat]
      /\ \A i \in 1..Len(down') : \E j \in 1..Len(down) : down'[i] = down[j]
  <2>1. CASE Take
    <3>1. /\ down' \in Seq(DownMessages)
          /\ Len(down) \in Nat \ {0} /\ Len(down') = Len(down) - 1
          /\ \A i \in 1..Len(down) - 1 : down'[i] = down[i + 1]
          /\ Head(down) = down[1] /\ down[1] \in DownMessages
      BY <2>1, TakesReply
    <3>2. last' \in [Properties -> Nat]
      BY <3>1, DispatchType DEF Poll, Base, TypeOK
    <3> QED BY <3>1, <3>2
  <2>2. CASE UNCHANGED <<down, last>>
    BY <2>2 DEF Base, TypeOK, DownMessages
  <2> QED BY <2>1, <2>2 DEF Poll
<1>2. TypeOK'
  BY <1>1 DEF Poll, Base, TypeOK, DownMessages, serverVars
<1>3. Shapes'
  BY <1>1 DEF Poll, Base, Shapes, UpShapes, DownShapes, serverVars, current
<1>4. Phase'
  BY DEF Poll, Base, Phase, Waits, serverVars, current
<1> QED BY <1>2, <1>3, <1>4 DEF Base

LEMMA ReplyShapes ==
  ASSUME Base, NEW n \in 1..current, NEW kind \in {"result", "error", "chunk", "end"},
         NEW data \in Nat, down' = Append(down, Reply(kind, n, data)), sent' = sent
  PROVE  /\ Reply(kind, n, data) \in DownMessages
         /\ down' \in Seq(DownMessages) /\ DownShapes'
<1>1. Reply(kind, n, data) \in DownMessages
  BY ConnectionAssumption DEF Base, TypeOK, current, Reply, Message, DownMessages
<1>2. /\ down' \in Seq(DownMessages)
      /\ Len(down) \in Nat /\ Len(down') = Len(down) + 1
      /\ \A i \in 1..Len(down) : down'[i] = down[i]
      /\ down'[Len(down) + 1] = Reply(kind, n, data)
  BY <1>1, AddsReply
<1> QED BY <1>1, <1>2 DEF Base, Shapes, UpShapes, DownShapes, current, Reply, Message

LEMMA RequestShapes ==
  ASSUME Base, up # <<>>, up' = Tail(up), sent' = sent
  PROVE  /\ up' \in Seq(UpMessages) /\ UpShapes' /\ serverUp
         /\ Head(up).kind = "request" => Head(up).n \in 1..current
         /\ Head(up).kind # "request" => Head(up).prop \in Properties
         /\ 1..current \subseteq Requests /\ current \in Nat
<1>1. /\ up' \in Seq(UpMessages)
      /\ Len(up) \in Nat \ {0} /\ Len(up') = Len(up) - 1
      /\ \A i \in 1..Len(up) - 1 : up'[i] = up[i + 1]
      /\ Head(up) = up[1]
  BY TakesRequest
<1>2. 1..current \subseteq Requests /\ serverUp /\ current \in Nat
  BY ConnectionAssumption DEF Base, TypeOK, Phase, current, Requests
<1> QED BY <1>1, <1>2 DEF Base, Shapes, UpShapes, DownShapes, current

LEMMA ServeUnaryBase ==
  ASSUME Base, ServeUnary
  PROVE  Base'
<1>1. /\ up' \in Seq(UpMessages) /\ UpShapes'
      /\ Head(up).n \in 1..current /\ 1..current \subseteq Requests /\ current \in Nat
  BY RequestShapes DEF ServeUnary, Takes
<1>2. PICK r \in {"ok", "error"} :
        /\ executed' = [executed EXCEPT ![Head(up).n] = r]
        /\ down' = Append(down, Reply(IF r = "ok" THEN "result" ELSE "error", Head(up).n, 0))
  BY DEF ServeUnary
<1>3. down' \in Seq(DownMessages) /\ DownShapes'
  BY <1>1, <1>2, ReplyShapes DEF ServeUnary
<1>4. /\ executed' \in [Requests -> {"no", "ok", "error"}]
      /\ \A n \in Requests : n > current => executed'[n] = executed[n]
  <2>1. executed \in [Requests -> {"no", "ok", "error"}]
    BY DEF Base, TypeOK
  <2>2. Head(up).n \in Requests /\ ~(Head(up).n > current)
    BY <1>1
  <2> QED BY <1>2, <2>1, <2>2
<1>5. TypeOK'
  <2>1. UNCHANGED <<pc, request, callbacks, serverUp, serving, subs, value, setting, sent,
                    outcome, produced, received, last, base, raced>>
    BY DEF ServeUnary, clientVars, serverVars
  <2> QED BY <1>1, <1>3, <1>4, <2>1 DEF Base, TypeOK, UpMessages, DownMessages
<1>6. Shapes'
  BY <1>1, <1>3 DEF ServeUnary, Base, Shapes, UpShapes, DownShapes, serverVars, current
<1>7. Phase'
  BY <1>4 DEF ServeUnary, Ready, Base, Phase, Waits, clientVars, serverVars, current
<1> QED BY <1>5, <1>6, <1>7 DEF Base

LEMMA ServeStreamBase ==
  ASSUME Base, ServeStream
  PROVE  Base'
<1>1. /\ up' \in Seq(UpMessages) /\ UpShapes'
      /\ Head(up).n \in 1..current /\ 1..current \subseteq Requests
  BY RequestShapes DEF ServeStream, Takes, historyVars
<1>2. TypeOK'
  <2>1. UNCHANGED <<pc, request, callbacks, down, serverUp, subs, value, setting, sent,
                    outcome, executed, produced, received, last, base, raced>>
    BY DEF ServeStream, clientVars, historyVars
  <2>2. serving' \in [n : 0..MaxRequests, ended : BOOLEAN]
    BY <1>1 DEF ServeStream, Requests
  <2> QED BY <1>1, <2>1, <2>2 DEF Base, TypeOK, UpMessages
<1>3. Shapes'
  BY <1>1 DEF ServeStream, Base, Shapes, UpShapes, DownShapes, historyVars, current
<1>4. Phase'
  BY DEF ServeStream, Ready, Base, Phase, Waits, clientVars, historyVars, current
<1> QED BY <1>2, <1>3, <1>4 DEF Base

LEMMA ServingRequest ==
  ASSUME Base, serving # None
  PROVE  serving.n \in 1..current /\ serving.n \in Requests /\ ~(serving.n > current)
BY ConnectionAssumption DEF Base, TypeOK, Shapes, UpShapes, DownShapes, current, Requests

LEMMA StreamWriteBase ==
  ASSUME Base, StreamWrite
  PROVE  Base'
<1>1. serving.n \in 1..current /\ serving.n \in Requests /\ ~(serving.n > current)
  BY ServingRequest DEF StreamWrite
<1>2. produced[serving.n] + 1 \in Nat
  BY <1>1 DEF Base, TypeOK
<1>3. down' \in Seq(DownMessages) /\ DownShapes'
  BY <1>1, <1>2, ReplyShapes DEF StreamWrite
<1>4. /\ produced' \in [Requests -> Nat]
      /\ \A n \in Requests : n > current => produced'[n] = produced[n]
  BY <1>1, <1>2 DEF StreamWrite, Base, TypeOK
<1>5. TypeOK'
  BY <1>3, <1>4 DEF StreamWrite, Base, TypeOK, DownMessages, clientVars, serverVars
<1>6. Shapes'
  BY <1>3 DEF StreamWrite, Base, Shapes, UpShapes, DownShapes, serverVars, current
<1>7. Phase'
  BY <1>4 DEF StreamWrite, Base, Phase, Waits, clientVars, serverVars, current
<1> QED BY <1>5, <1>6, <1>7 DEF Base

\* end() and a throw: a last message, and the serving is over or marked ended.
LEMMA StreamOverBase ==
  ASSUME Base, StreamEnd \/ StreamThrow
  PROVE  Base'
<1>1. serving.n \in 1..current /\ serving.n \in Requests /\ ~(serving.n > current)
  BY ServingRequest DEF StreamEnd, StreamThrow
<1>2. down' \in Seq(DownMessages) /\ DownShapes'
  BY <1>1, ReplyShapes DEF StreamEnd, StreamThrow
<1>3. /\ executed' \in [Requests -> {"no", "ok", "error"}]
      /\ \A n \in Requests : n > current => executed'[n] = executed[n]
  BY <1>1 DEF StreamEnd, StreamThrow, Base, TypeOK
<1>4. /\ serving' \in [n : 0..MaxRequests, ended : BOOLEAN]
      /\ serving' = None \/ serving'.n \in 1..current
  <2>1. CASE StreamEnd
    BY <1>1, <2>1 DEF StreamEnd, Base, TypeOK
  <2>2. CASE StreamThrow
    <3>1. None \in [n : 0..MaxRequests, ended : BOOLEAN]
      BY ConnectionAssumption DEF None
    <3> QED BY <2>2, <3>1 DEF StreamThrow
  <2> QED BY <2>1, <2>2
<1>5. TypeOK'
  BY <1>2, <1>3, <1>4 DEF StreamEnd, StreamThrow, Base, TypeOK, DownMessages, clientVars
<1>6. Shapes'
  BY <1>2, <1>4 DEF StreamEnd, StreamThrow, Base, Shapes, UpShapes, DownShapes, current
<1>7. Phase'
  BY <1>3 DEF StreamEnd, StreamThrow, Base, Phase, Waits, clientVars, current
<1> QED BY <1>5, <1>6, <1>7 DEF Base

LEMMA StreamReturnBase ==
  ASSUME Base, StreamReturn
  PROVE  Base'
BY ConnectionAssumption DEF StreamReturn, Base, TypeOK, Shapes, UpShapes, DownShapes,
                            Phase, Waits, None,
   clientVars, historyVars, current

LEMMA SubscriptionBase ==
  ASSUME Base, ServeSubscribe \/ ServeUnsubscribe
  PROVE  Base'
<1>1. up' \in Seq(UpMessages) /\ UpShapes' /\ Head(up).prop \in Properties
  BY RequestShapes DEF ServeSubscribe, ServeUnsubscribe, Takes, historyVars
<1>2. subs' \subseteq Properties /\ base' \in [Properties -> Nat]
  BY <1>1 DEF ServeSubscribe, ServeUnsubscribe, Base, TypeOK, historyVars
<1>3. TypeOK'
  BY <1>1, <1>2 DEF ServeSubscribe, ServeUnsubscribe, Base, TypeOK, UpMessages,
                    clientVars, historyVars
<1>4. Shapes'
  BY <1>1 DEF ServeSubscribe, ServeUnsubscribe, Base, Shapes, UpShapes, DownShapes,
              historyVars, current
<1>5. Phase'
  BY DEF ServeSubscribe, ServeUnsubscribe, Ready, Base, Phase, Waits, clientVars,
         historyVars, current
<1> QED BY <1>3, <1>4, <1>5 DEF Base

\* What a setter leaves alone ...
LEMMA SettingFrame ==
  Setting => /\ UNCHANGED <<pc, request, callbacks, up, serverUp, serving, subs, sent, outcome,
                            executed, produced, received, last, base>>
             /\ serverUp
<1>1. ASSUME NEW t \in Setters, NEW p \in Properties, SetProperty(t, p)
      PROVE  /\ UNCHANGED <<pc, request, callbacks, up, serverUp, serving, subs, sent, outcome,
                            executed, produced, received, last, base>>
             /\ serverUp
  BY <1>1 DEF SetProperty, clientVars
<1>2. ASSUME NEW t \in Setters, CopyTargets(t) \/ SendNotify(t)
      PROVE  /\ UNCHANGED <<pc, request, callbacks, up, serverUp, serving, subs, sent, outcome,
                            executed, produced, received, last, base>>
             /\ serverUp
  BY <1>2 DEF CopyTargets, SendNotify, clientVars, historyVars
<1> QED BY <1>1, <1>2 DEF Setting

\* ... and that it adds a notification at most.
Tells == \E m \in DownMessages : /\ down' = Append(down, m)
                                 /\ m.kind = "notify" /\ m.n = 0 /\ m.prop \in Properties

LEMMA SetterTypes ==
  ASSUME Base, NEW t \in Setters
  PROVE  /\ setting[t].prop \in Properties \cup {NoProperty}
         /\ setting[t].data \in Nat /\ setting[t].told \in BOOLEAN
BY DEF Base, TypeOK

LEMMA SendTells ==
  ASSUME Base, NEW t \in Setters, SendNotify(t)
  PROVE  /\ Notify(setting[t].prop, setting[t].data) \in DownMessages
         /\ Tells
<1> DEFINE m == Notify(setting[t].prop, setting[t].data)
<1>1. setting[t].prop \in Properties /\ setting[t].data \in Nat
  BY SetterTypes DEF SendNotify
<1>2. m \in DownMessages /\ m.kind = "notify" /\ m.n = 0 /\ m.prop \in Properties
  BY <1>1, ConnectionAssumption DEF Notify, Message, DownMessages
<1>3. down' = Append(down, m)
  BY DEF SendNotify
<1> HIDE DEF m
<1>4. Tells
  BY <1>2, <1>3 DEF Tells
<1> QED BY <1>2, <1>4 DEF m

LEMMA SettingTells ==
  ASSUME Base, Setting
  PROVE  down' = down \/ Tells
<1>1. ASSUME NEW t \in Setters, NEW p \in Properties, SetProperty(t, p)
      PROVE  down' = down
  BY <1>1 DEF SetProperty
<1>2. ASSUME NEW t \in Setters, CopyTargets(t)
      PROVE  down' = down
  BY <1>2 DEF CopyTargets
<1> QED BY <1>1, <1>2, SendTells DEF Setting

LEMMA SettingTypes ==
  ASSUME Base, Setting
  PROVE  /\ value' \in [Properties -> Nat] /\ raced' \subseteq Properties
         /\ setting' \in [Setters -> [prop : Properties \cup {NoProperty}, data : Nat,
                                      told : BOOLEAN]]
<1> DEFINE Sets == [prop : Properties \cup {NoProperty}, data : Nat, told : BOOLEAN]
<1>1. /\ setting \in [Setters -> Sets] /\ value \in [Properties -> Nat]
      /\ raced \subseteq Properties /\ Resting \in Sets
  BY DEF Base, TypeOK, Resting
<1>2. ASSUME NEW t \in Setters, NEW p \in Properties, SetProperty(t, p)
      PROVE  /\ value' \in [Properties -> Nat] /\ raced' \subseteq Properties
             /\ setting' \in [Setters -> Sets]
  <2>1. [prop |-> p, data |-> value[p] + 1, told |-> FALSE] \in Sets
    BY <1>1
  <2>2. setting' = [setting EXCEPT ![t] = [prop |-> p, data |-> value[p] + 1, told |-> FALSE]]
    BY <1>2 DEF SetProperty
  <2>3. setting' \in [Setters -> Sets]
    BY <1>1, <2>1, <2>2
  <2> QED BY <1>1, <1>2, <2>3 DEF SetProperty
<1>3. ASSUME NEW t \in Setters, CopyTargets(t)
      PROVE  UNCHANGED <<value, raced>> /\ setting' \in [Setters -> Sets]
  BY <1>1, <1>3 DEF CopyTargets, historyVars
<1>4. ASSUME NEW t \in Setters, SendNotify(t)
      PROVE  UNCHANGED <<value, raced>> /\ setting' \in [Setters -> Sets]
  BY <1>1, <1>4 DEF SendNotify, historyVars
<1> QED BY <1>1, <1>2, <1>3, <1>4 DEF Setting

LEMMA SettingBase ==
  ASSUME Base, Setting
  PROVE  Base'
<1>1. down' \in Seq(DownMessages) /\ DownShapes'
  <2>1. CASE down' = down
    BY <2>1, SettingFrame DEF Base, TypeOK, Shapes, DownShapes, DownMessages, current
  <2>2. CASE Tells
    <3>1. PICK m \in DownMessages : /\ down' = Append(down, m)
                                    /\ m.kind = "notify" /\ m.n = 0 /\ m.prop \in Properties
      BY <2>2 DEF Tells
    <3>2. /\ down' \in Seq(DownMessages)
          /\ Len(down) \in Nat /\ Len(down') = Len(down) + 1
          /\ \A i \in 1..Len(down) : down'[i] = down[i]
          /\ down'[Len(down) + 1] = m
      BY <3>1, AddsReply
    <3> QED BY <3>1, <3>2, SettingFrame DEF Base, Shapes, DownShapes, current
  <2> QED BY <2>1, <2>2, SettingTells
<1>2. TypeOK'
  BY <1>1, SettingFrame, SettingTypes DEF Base, TypeOK, DownMessages
<1>3. Shapes'
  BY <1>1, SettingFrame DEF Base, Shapes, UpShapes, current
<1>4. Phase'
  BY SettingFrame DEF Base, Phase, Waits, current
<1> QED BY <1>2, <1>3, <1>4 DEF Base

LEMMA CrashBase ==
  ASSUME Base, Crash
  PROVE  Base'
<1>1. PICK k \in 0..Len(down) : down' = SubSeq(down, 1, k)
  BY DEF Crash
<1>2. /\ down' \in Seq(DownMessages)
      /\ Len(down) \in Nat /\ Len(down') = k
      /\ \A i \in 1..k : down'[i] = down[i]
  <2>1. down \in Seq(DownMessages)
    BY DEF Base, TypeOK, DownMessages
  <2> QED BY <1>1, <2>1, Kept
<1>3. TypeOK'
  <2>1. up' \in Seq(UpMessages)
    BY DEF Crash
  <2>2. setting' \in [Setters -> [prop : Properties \cup {NoProperty}, data : Nat, told : BOOLEAN]]
    BY DEF Crash, Resting
  <2> QED BY <1>2, <2>1, <2>2 DEF Crash, Base, TypeOK, UpMessages, DownMessages, clientVars,
                            historyVars
<1>4. Shapes'
  BY <1>1, <1>2 DEF Crash, Base, Shapes, UpShapes, DownShapes, historyVars, current
<1>5. Phase'
  BY DEF Crash, Base, Phase, Waits, clientVars, historyVars, current
<1> QED BY <1>3, <1>4, <1>5 DEF Base

LEMMA BaseStep ==
  ASSUME Base, [Next]_vars
  PROVE  Base'
<1>1. CASE Client
  <2>1. ASSUME NEW api \in Apis, NEW method \in Methods, Begin(api, method)
        PROVE  Base'
    BY <2>1, ConnectionAssumption
       DEF Begin, Base, TypeOK, Shapes, UpShapes, DownShapes, Phase, Waits, serverVars,
           historyVars, current
  <2>2. CASE Send \/ SendToDead
    BY <2>2, SendBase, SendToDeadBase
  <2>3. CASE Receiving
    BY <2>3, RecvReplyBase, RecvStreamBase, EofBase DEF Receiving
  <2>4. ASSUME NEW p \in Properties, SubscribeProperty(p) \/ UnsubscribeProperty(p)
        PROVE  Base'
    BY <2>4, PostBase DEF SubscribeProperty, UnsubscribeProperty, Base, TypeOK
  <2>5. CASE Move \/ \E blocking \in BOOLEAN : StartPoll(blocking)
    <3>1. /\ UNCHANGED <<request, up, down, serverVars, historyVars>>
          /\ pc = "idle" /\ pc' \in {"idle", "polling", "blocked"} /\ callbacks' \subseteq Properties
      BY <2>5 DEF Move, StartPoll, Base, TypeOK
    <3> QED BY <3>1 DEF Base, TypeOK, Shapes, UpShapes, DownShapes, Phase, Waits, serverVars,
                        historyVars, current
  <2>6. CASE Poll
    BY <2>6, PollBase
  <2> QED BY <1>1, <2>1, <2>2, <2>3, <2>4, <2>5, <2>6 DEF Client
<1>2. CASE Handling
  BY <1>2, ServeUnaryBase, ServeStreamBase, StreamWriteBase, StreamOverBase,
     StreamReturnBase, SubscriptionBase DEF Handling
<1>3. CASE Setting
  BY <1>3, SettingBase
<1>4. CASE Crash
  BY <1>4, CrashBase
<1>5. CASE UNCHANGED vars
  BY <1>5 DEF vars, clientVars, serverVars, historyVars, Base, TypeOK, Shapes, UpShapes,
              DownShapes, Phase,
              Waits, current
<1> QED BY <1>1, <1>2, <1>3, <1>4, <1>5 DEF Next

LEMMA BaseInit == Init => Base
<1> SUFFICES ASSUME Init PROVE Base
  OBVIOUS
<1>1. setting \in [Setters -> [prop : Properties \cup {NoProperty}, data : Nat, told : BOOLEAN]]
  BY DEF Init, Resting
<1>2. TypeOK
  BY <1>1, ConnectionAssumption DEF Init, TypeOK, Unset, None, Outcomes, Requests
<1> QED BY <1>2, ConnectionAssumption DEF Init, Base, TypeOK, Shapes, UpShapes, DownShapes,
   Phase, Waits, Unset, None, Outcomes, Requests, current

LEMMA BaseInvariant == Spec => []Base
BY BaseInit, BaseStep, PTL DEF Spec

\* The state of the connection, its two channels and the service keeps its
\* types, whatever is sent, lost or late.
THEOREM TypeCorrect == Spec => []TypeOK
<1>1. Base => TypeOK
  BY DEF Base
<1> QED BY <1>1, BaseInvariant, PTL

-----------------------------------------------------------------------------
(* What answers a request                                                  *)

LEMMA UpIds ==
  ASSUME Base
  PROVE  /\ current \in 0..MaxRequests
         /\ \A i \in 1..Len(up) : up[i].kind = "request" =>
              up[i].n \in 1..current /\ up[i].n \in Requests
<1>1. current \in 0..MaxRequests
  BY ConnectionAssumption DEF Base, TypeOK, current
<1>2. \A n \in 1..current : n \in Requests
  BY <1>1, ConnectionAssumption DEF Requests
<1> QED BY <1>1, <1>2 DEF Base, Shapes, UpShapes

\* The steps that neither send, serve nor answer a request leave Order alone.
LEMMA OrderFrame ==
  ASSUME Order, UNCHANGED <<up, serving, executed>>
  PROVE  Order'
BY DEF Order

\* What is under way to the service may be lost or lose its first message.
LEMMA OrderTaken ==
  ASSUME Base, Order, up # <<>>, up' = Tail(up), UNCHANGED <<serving, executed>>
  PROVE  Order'
<1>1. /\ up' \in Seq(UpMessages)
      /\ Len(up) \in Nat \ {0} /\ Len(up') = Len(up) - 1
      /\ \A i \in 1..Len(up) - 1 : up'[i] = up[i + 1]
  BY TakesRequest
<1>2. \A i \in 1..Len(up') : /\ i + 1 \in 1..Len(up) /\ up'[i] = up[i + 1]
                             /\ \A j \in i+1..Len(up') : /\ j + 1 \in i+2..Len(up)
                                                         /\ up'[j] = up[j + 1]
  BY <1>1
<1> QED BY <1>2 DEF Order

\* The service takes the first message, a request, and runs it.
LEMMA OrderServed ==
  ASSUME Base, Order, Ready, Takes("request"), sent' = sent
  PROVE  /\ Head(up).n \in 1..current /\ Head(up).n \in Requests
         /\ \A k \in Head(up).n..MaxRequests : executed[k] = "no"
         /\ Len(up) \in Nat \ {0} /\ Len(up') = Len(up) - 1
         /\ \A i \in 1..Len(up') : /\ i + 1 \in 1..Len(up) /\ up'[i] = up[i + 1]
                                   /\ up'[i].kind = "request" => Head(up).n < up'[i].n
                                   /\ \A j \in i+1..Len(up') : up'[j] = up[j + 1]
<1>1. /\ up' \in Seq(UpMessages)
      /\ Len(up) \in Nat \ {0} /\ Len(up') = Len(up) - 1
      /\ \A i \in 1..Len(up) - 1 : up'[i] = up[i + 1]
      /\ Head(up) = up[1]
  BY TakesRequest DEF Takes
<1>2. Head(up).n \in 1..current /\ Head(up).n \in Requests
  BY RequestShapes DEF Takes
<1>3. \A i \in 1..Len(up') : i + 1 \in 2..Len(up) /\ up'[i] = up[i + 1]
  BY <1>1
<1>4. /\ \A k \in Head(up).n..MaxRequests : executed[k] = "no"
      /\ \A j \in 2..Len(up) : up[j].kind = "request" => up[1].n < up[j].n
  BY <1>1 DEF Takes, Order
<1> QED BY <1>1, <1>2, <1>3, <1>4

LEMMA OrderStep ==
  ASSUME Base, Order, [Next]_vars
  PROVE  Order'
<1>1. CASE Client
  <2>1. CASE UNCHANGED <<up, serving, executed>>
    BY <2>1, OrderFrame
  <2>2. CASE Send
    <3> DEFINE m == [kind |-> "request", n |-> current + 1, prop |-> NoProperty]
    <3>1. /\ current \in 0..MaxRequests - 1 /\ current + 1 \in Requests
      BY <2>2, AddsSent DEF Send
    <3>2. m \in UpMessages
      BY <3>1 DEF UpMessages, Requests
    <3>3. /\ Len(up) \in Nat /\ Len(up') = Len(up) + 1
          /\ \A i \in 1..Len(up) : up'[i] = up[i]
          /\ up'[Len(up) + 1] = m
      BY <2>2, <3>2, AddsRequest DEF Send
    <3>4. /\ \A i \in 1..Len(up) : up[i].kind = "request" => up[i].n < current + 1
          /\ \A k \in current+1..MaxRequests : executed[k] = "no"
          /\ serving.n < current + 1
      <4>1. \A i \in 1..Len(up) : up[i].kind = "request" => up[i].n < current + 1
        BY <3>1, UpIds
      <4>2. \A k \in current+1..MaxRequests : executed[k] = "no"
        BY <3>1 DEF Base, Phase, Requests
      <4>3. serving.n < current + 1
        BY <3>1 DEF Base, Shapes, None
      <4> QED BY <4>1, <4>2, <4>3
    <3>5. UNCHANGED <<serving, executed>>
      BY <2>2 DEF Send, serverVars
    <3> QED BY <3>3, <3>4, <3>5 DEF Order
  <2>3. ASSUME NEW p, NEW kind \in {"subscribe", "unsubscribe"}, p \in Properties, Post(kind, p)
        PROVE  Order'
    <3>1. CASE up' = up
      BY <2>3, <3>1, OrderFrame DEF Post, serverVars, historyVars
    <3>2. CASE up' = Append(up, [kind |-> kind, n |-> 0, prop |-> p])
      <4> DEFINE m == [kind |-> kind, n |-> 0, prop |-> p]
      <4>1. m \in UpMessages
        BY <2>3, ConnectionAssumption DEF UpMessages
      <4>2. /\ Len(up) \in Nat /\ Len(up') = Len(up) + 1
            /\ \A i \in 1..Len(up) : up'[i] = up[i]
            /\ up'[Len(up) + 1] = m
        BY <3>2, <4>1, AddsRequest
      <4>3. m.kind # "request"
        OBVIOUS
      <4>4. UNCHANGED <<serving, executed>>
        BY <2>3 DEF Post, serverVars, historyVars
      <4> QED BY <4>2, <4>3, <4>4 DEF Order
    <3> QED BY <2>3, <3>1, <3>2 DEF Post
  <2> QED BY <1>1, <2>1, <2>2, <2>3 DEF Client, Receiving, Begin, SendToDead, RecvReply,
     RecvStream, Eof, TimedOut, SubscribeProperty, UnsubscribeProperty, StartPoll, Poll, Move,
     serverVars, historyVars
<1>2. CASE ServeUnary
  <2>1. /\ Head(up).n \in 1..current /\ Head(up).n \in Requests
        /\ \A k \in Head(up).n..MaxRequests : executed[k] = "no"
        /\ Len(up) \in Nat \ {0} /\ Len(up') = Len(up) - 1
        /\ \A i \in 1..Len(up') : /\ i + 1 \in 1..Len(up) /\ up'[i] = up[i + 1]
                                  /\ up'[i].kind = "request" => Head(up).n < up'[i].n
                                  /\ \A j \in i+1..Len(up') : up'[j] = up[j + 1]
    BY <1>2, OrderServed DEF ServeUnary
  <2>2. \A i \in 1..Len(up') : up'[i].kind = "request" => up'[i].n \in Requests
    BY <2>1, UpIds
  <2>3. \A k \in Requests : k # Head(up).n => executed'[k] = executed[k]
    BY <1>2, <2>1 DEF ServeUnary, Base, TypeOK
  <2>4. serving' = None /\ serving = None
    BY <1>2 DEF ServeUnary, Ready, serverVars
  <2>5. ASSUME NEW i \in 1..Len(up'), up'[i].kind = "request"
        PROVE  /\ serving'.n < up'[i].n
               /\ \A k \in up'[i].n..MaxRequests : executed'[k] = "no"
               /\ \A j \in i+1..Len(up') : up'[j].kind = "request" => up'[i].n < up'[j].n
    <3>1. /\ i + 1 \in 1..Len(up) /\ up'[i] = up[i + 1] /\ Head(up).n < up'[i].n
          /\ up'[i].n \in Requests /\ serving'.n = 0
      BY <2>1, <2>2, <2>4, <2>5 DEF None
    <3>2. \A k \in up'[i].n..MaxRequests : k \in Head(up).n..MaxRequests /\ k # Head(up).n
                                            /\ k \in Requests
      BY <2>1, <3>1 DEF Requests
    <3>3. \A j \in i+1..Len(up') : j + 1 \in (i+1)+1..Len(up) /\ up'[j] = up[j + 1]
      BY <2>1, <3>1
    <3>4. \A j \in (i+1)+1..Len(up) : up[j].kind = "request" => up[i+1].n < up[j].n
      BY <2>5, <3>1 DEF Order
    <3>5. serving'.n < up'[i].n
      BY <3>1 DEF Requests
    <3>6. \A k \in up'[i].n..MaxRequests : executed'[k] = "no"
      BY <2>1, <2>3, <3>2
    <3> QED BY <3>1, <3>3, <3>4, <3>5, <3>6
  <2> QED BY <2>4, <2>5 DEF Order
<1>3. CASE ServeStream
  <2>1. /\ Head(up).n \in 1..current /\ Head(up).n \in Requests
        /\ \A k \in Head(up).n..MaxRequests : executed[k] = "no"
        /\ Len(up) \in Nat \ {0} /\ Len(up') = Len(up) - 1
        /\ \A i \in 1..Len(up') : /\ i + 1 \in 1..Len(up) /\ up'[i] = up[i + 1]
                                  /\ up'[i].kind = "request" => Head(up).n < up'[i].n
                                  /\ \A j \in i+1..Len(up') : up'[j] = up[j + 1]
    BY <1>3, OrderServed DEF ServeStream, historyVars
  <2>2. executed' = executed /\ serving' = [n |-> Head(up).n, ended |-> FALSE]
    BY <1>3 DEF ServeStream, historyVars
  <2>3. serving'.n = Head(up).n /\ executed'[serving'.n] = "no" /\ ~serving'.ended
        /\ \A k \in serving'.n+1..MaxRequests : executed'[k] = "no"
    BY <2>1, <2>2 DEF Requests
  <2>4. ASSUME NEW i \in 1..Len(up'), up'[i].kind = "request"
        PROVE  /\ serving'.n < up'[i].n
               /\ \A k \in up'[i].n..MaxRequests : executed'[k] = "no"
               /\ \A j \in i+1..Len(up') : up'[j].kind = "request" => up'[i].n < up'[j].n
    <3>1. i + 1 \in 1..Len(up) /\ up'[i] = up[i + 1] /\ Head(up).n < up'[i].n
      BY <2>1, <2>4
    <3>2. \A j \in i+1..Len(up') : j + 1 \in (i+1)+1..Len(up) /\ up'[j] = up[j + 1]
      BY <2>1, <2>4
    <3>3. /\ \A k \in up[i+1].n..MaxRequests : executed[k] = "no"
          /\ \A j \in (i+1)+1..Len(up) : up[j].kind = "request" => up[i+1].n < up[j].n
      BY <2>4, <3>1 DEF Order
    <3> QED BY <2>2, <2>3, <3>1, <3>2, <3>3
  <2> QED BY <2>3, <2>4 DEF Order
<1>4. CASE StreamWrite
  BY <1>4, OrderFrame DEF StreamWrite, serverVars
<1>5. CASE StreamEnd
  <2>1. serving.n \in Requests /\ executed' = [executed EXCEPT ![serving.n] = "ok"]
    BY <1>5, ServingRequest DEF StreamEnd
  <2>2. serving' # None /\ serving'.n = serving.n /\ serving'.ended
    BY <1>5, <2>1 DEF StreamEnd, Base, TypeOK, None, Requests
  <2>3. \A k \in Requests : executed'[k] = IF k = serving.n THEN "ok" ELSE executed[k]
    BY <2>1 DEF Base, TypeOK
  <2>4. \A i \in 1..Len(up) : up[i].kind = "request" => up[i].n \in Requests
    BY ConnectionAssumption DEF Base, TypeOK, Shapes, UpShapes, current, Requests
  <2>5. up' = up
    BY <1>5 DEF StreamEnd
  <2> QED BY <1>5, <2>1, <2>2, <2>3, <2>4, <2>5 DEF StreamEnd, Order, Requests
<1>6. CASE StreamReturn \/ StreamThrow
  <2>1. serving.n \in Requests /\ serving' = None /\ up' = up
    BY <1>6, ServingRequest DEF StreamReturn, StreamThrow
  <2>2. \A k \in Requests : k # serving.n => executed'[k] = executed[k]
    BY <1>6, <2>1 DEF StreamReturn, StreamThrow, Base, TypeOK, historyVars
  <2>3. \A i \in 1..Len(up) : up[i].kind = "request" => up[i].n \in Requests
    BY ConnectionAssumption DEF Base, TypeOK, Shapes, UpShapes, current, Requests
  <2> QED BY <2>1, <2>2, <2>3 DEF Order, None, Requests
<1>7. CASE ServeSubscribe \/ ServeUnsubscribe
  BY <1>7, OrderTaken DEF ServeSubscribe, ServeUnsubscribe, Takes, historyVars
<1>8. CASE Setting
  BY <1>8, OrderFrame, SettingFrame
<1>9. CASE Crash
  BY <1>9 DEF Crash, Order, historyVars
<1>10. CASE UNCHANGED vars
  BY <1>10, OrderFrame DEF vars, serverVars, historyVars
<1> QED BY <1>1, <1>2, <1>3, <1>4, <1>5, <1>6, <1>7, <1>8, <1>9, <1>10 DEF Next, Handling

\* What a step may make of the history of a request: it is executed once, a new
\* one is sent, the one in hand ends, or the service writes another chunk.
History ==
  \A n \in Requests :
    /\ executed[n] # "no" => executed'[n] = executed[n]
    /\ \/ outcome'[n] = outcome[n]
       \/ outcome[n] = "new" /\ n = current + 1 /\ outcome'[n] \in {"pending", "oneway", "eof"}
       \/ outcome[n] = "pending" /\ n = current /\ outcome'[n] \notin {"new", "pending"}
    /\ \/ produced'[n] = produced[n]
       \/ produced'[n] = produced[n] + 1 /\ StreamWrite /\ n = serving.n /\ executed[n] = "no"

LEMMA HistoryStep ==
  ASSUME Base, Order, [Next]_vars
  PROVE  History
<1>1. CASE Client
  <2>1. UNCHANGED <<executed, produced>>
    BY <1>1 DEF Client, Receiving, Begin, Send, SendToDead, RecvReply, RecvStream, Eof,
       TimedOut, SubscribeProperty, UnsubscribeProperty, Post, StartPoll, Poll, Move,
       historyVars
  <2>2. ASSUME NEW n \in Requests
        PROVE  \/ outcome'[n] = outcome[n]
               \/ outcome[n] = "new" /\ n = current + 1 /\ outcome'[n] \in {"pending", "oneway", "eof"}
               \/ outcome[n] = "pending" /\ n = current /\ outcome'[n] \notin {"new", "pending"}
    <3>1. CASE outcome' = outcome
      BY <3>1
    <3>2. CASE Send \/ SendToDead
      <4>1. PICK how \in {"pending", "oneway", "eof"} : outcome' = [outcome EXCEPT ![current + 1] = how]
        BY <3>2 DEF Send, SendToDead
      <4>2. current + 1 \in Requests /\ outcome[current + 1] = "new"
        BY <3>2, AddsSent DEF Send, SendToDead, Base, Phase
      <4> QED BY <4>1, <4>2 DEF Base, TypeOK
    <3>3. ASSUME NEW how \in {"ok", "error", "mismatch", "type", "handler", "notify", "eof",
                              "timeout"},
                 Waits, Finish(how)
          PROVE  \/ outcome'[n] = outcome[n]
                 \/ /\ outcome[n] = "pending" /\ n = current
                    /\ outcome'[n] \notin {"new", "pending"}
      <4>1. current \in Requests /\ outcome[current] = "pending"
        BY <3>3, ConnectionAssumption DEF Base, TypeOK, Phase, Waits, current, Requests
      <4>2. outcome'[n] = IF n = current THEN how ELSE outcome[n]
        BY <3>3, <4>1 DEF Finish, Base, TypeOK
      <4> QED BY <3>3, <4>1, <4>2
    <3> QED BY <1>1, <3>1, <3>2, <3>3 DEF Client, Receiving, Begin, RecvReply, RecvStream,
       Eof, TimedOut, SubscribeProperty, UnsubscribeProperty, Post, StartPoll, Poll, Move,
       Waits, historyVars
  <2> QED BY <2>1, <2>2 DEF History
<1>2. CASE ServeUnary
  <2>1. Head(up).n \in Requests /\ executed[Head(up).n] = "no"
    BY <1>2, OrderServed DEF ServeUnary, Requests
  <2> QED BY <1>2, <2>1 DEF ServeUnary, Base, TypeOK, clientVars, History
<1>3. CASE StreamWrite
  <2>1. serving.n \in Requests /\ executed[serving.n] = "no"
    BY <1>3, ServingRequest DEF StreamWrite, Order
  <2> QED BY <1>3, <2>1 DEF StreamWrite, Base, TypeOK, clientVars, History
<1>4. CASE StreamEnd \/ StreamThrow
  <2>1. serving.n \in Requests /\ (~serving.ended => executed[serving.n] = "no")
    BY <1>4, ServingRequest DEF StreamEnd, StreamThrow, Order
  <2> QED BY <1>4, <2>1 DEF StreamEnd, StreamThrow, Base, TypeOK, clientVars, History
<1>5. CASE UNCHANGED <<executed, outcome, produced>>
  BY <1>5 DEF History
<1> QED BY <1>1, <1>2, <1>3, <1>4, <1>5, SettingFrame DEF Next, Handling, ServeStream,
   StreamReturn, ServeSubscribe, ServeUnsubscribe, Crash, vars, clientVars, historyVars

-----------------------------------------------------------------------------
LEMMA DownIds ==
  ASSUME Base
  PROVE  /\ current \in 0..MaxRequests /\ Len(down) \in Nat
         /\ \A i \in 1..Len(down) :
              /\ down[i] \in DownMessages
              /\ down[i].kind # "notify" =>
                   down[i].n \in 1..current /\ down[i].n \in Requests
                                            /\ outcome[down[i].n] # "new"
<1>1. current \in 0..MaxRequests /\ down \in Seq(DownMessages)
  BY ConnectionAssumption DEF Base, TypeOK, current, DownMessages
<1>2. \A n \in 1..current : n \in Requests /\ ~(n > current)
  BY <1>1, ConnectionAssumption DEF Requests
<1>3. \A i \in 1..Len(down) : down[i].kind # "notify" => down[i].n \in 1..current
  BY DEF Base, Shapes, DownShapes
<1>4. \A n \in 1..current : outcome[n] # "new"
  BY <1>2 DEF Base, Phase
<1> QED BY <1>1, <1>2, <1>3, <1>4

\* A reply says the same wherever it stands, unless the end() before it is read.
LEMMA ReportsKept ==
  ASSUME Base, Base', History, NEW i \in 1..Len(down), Reports(i), NEW k \in 1..Len(down'),
         down'[k] = down[i],
         \A j \in 1..i-1 : down[j].kind = "end" /\ down[j].n = down[i].n =>
           \/ outcome'[down[i].n] # "pending"
           \/ \E l \in 1..k-1 : down'[l] = down[j]
  PROVE  Reports(k)'
<1> DEFINE n == down[i].n
<1>1. CASE down[i].kind # "notify"
  <2>1. n \in Requests /\ outcome[n] # "new"
    BY <1>1, DownIds
  <2>2. produced[n] \in Nat /\ produced'[n] \in Nat /\ down[i].data \in Nat
    BY <2>1, DownIds DEF Base, TypeOK, DownMessages
  <2>3. /\ executed[n] # "no" => executed'[n] = executed[n]
        /\ outcome[n] # "pending" => outcome'[n] # "pending"
        /\ produced[n] <= produced'[n]
    BY <2>1, <2>2 DEF History
  <2>4. CASE down[i].kind = "error" /\ executed[n] = "ok" /\ outcome'[n] = "pending"
    <3>1. PICK j \in 1..i-1 : down[j].kind = "end" /\ down[j].n = n
      BY <2>3, <2>4 DEF Reports
    <3>2. \E l \in 1..k-1 : down'[l].kind = "end" /\ down'[l].n = n
      BY <2>4, <3>1
    <3> QED BY <2>3, <2>4, <3>2 DEF Reports
  <2>5. CASE down[i].kind = "error" /\ ~(executed[n] = "ok" /\ outcome'[n] = "pending")
    BY <2>3, <2>5 DEF Reports
  <2>6. CASE down[i].kind = "chunk"
    BY <2>2, <2>3, <2>6 DEF Reports
  <2>7. CASE down[i].kind \in {"result", "end"}
    BY <2>3, <2>7 DEF Reports
  <2> QED BY <1>1, <2>4, <2>5, <2>6, <2>7, DownIds DEF DownMessages
<1>2. CASE down[i].kind = "notify"
  BY <1>2 DEF Reports
<1> QED BY <1>1, <1>2

LEMMA Counts ==
  ASSUME Base
  PROVE  /\ \A n \in Requests : /\ produced[n] \in Nat
                                /\ received[n] \in Seq(Requests \X Nat)
         /\ \A p \in Properties : value[p] \in Nat /\ last[p] \in Nat /\ base[p] \in Nat
BY DEF Base, TypeOK

\* Reading the first message, end() or not, leaves what the others say.
LEMMA TakenReports ==
  ASSUME Base, Base', History, Replies, Take,
         Head(down).kind = "end" => outcome'[Head(down).n] # "pending"
  PROVE  \A i \in 1..Len(down') : Reports(i)'
<1>1. /\ Len(down) \in Nat \ {0} /\ Len(down') = Len(down) - 1
      /\ \A i \in 1..Len(down) - 1 : down'[i] = down[i + 1]
      /\ Head(down) = down[1]
  BY TakesReply
<1>2. ASSUME NEW k \in 1..Len(down')
      PROVE  Reports(k)'
  <2>1. /\ k + 1 \in 1..Len(down) /\ down'[k] = down[k + 1] /\ Reports(k + 1)
    BY <1>1 DEF Replies
  <2>2. ASSUME NEW j \in 1..(k + 1)-1, down[j].kind = "end", down[j].n = down[k + 1].n
        PROVE  outcome'[down[k + 1].n] # "pending" \/ \E l \in 1..k-1 : down'[l] = down[j]
    <3>1. CASE j = 1
      BY <1>1, <2>2, <3>1
    <3>2. CASE j # 1
      <4>1. j - 1 \in 1..k-1 /\ j - 1 \in 1..Len(down) - 1 /\ (j - 1) + 1 = j
        BY <1>1, <3>2
      <4> QED BY <1>1, <4>1
    <3> QED BY <3>1, <3>2
  <2> QED BY <2>1, <2>2, ReportsKept
<1> QED BY <1>2 DEF Replies

\* The messages that stay where they are.
LEMMA StayingReports ==
  ASSUME Base, Base', History, Replies, NEW k \in 1..Len(down), k <= Len(down'),
         \A j \in 1..k : down'[j] = down[j]
  PROVE  Reports(k)'
<1>1. k \in 1..Len(down') /\ Reports(k) /\ down'[k] = down[k]
  <2>1. Len(down') \in Nat /\ Len(down) \in Nat
    <3>1. down \in Seq(DownMessages) /\ down' \in Seq(DownMessages)
      BY DEF Base, TypeOK, DownMessages
    <3> QED BY <3>1
  <2> QED BY <2>1 DEF Replies
<1>2. \A j \in 1..k-1 : j \in 1..k
  BY DownIds
<1> QED BY <1>1, <1>2, ReportsKept

LEMMA AddedReports ==
  ASSUME Base, Base', History, Replies, NEW m \in DownMessages, down' = Append(down, m),
         Reports(Len(down))'
  PROVE  \A i \in 1..Len(down') : Reports(i)'
<1>1. /\ Len(down) \in Nat /\ Len(down') = Len(down) + 1
      /\ \A i \in 1..Len(down) : down'[i] = down[i]
  BY AddsReply
<1>2. \A i \in 1..Len(down) : Reports(i)'
  <2>1. ASSUME NEW i \in 1..Len(down)
        PROVE  i <= Len(down') /\ \A j \in 1..i : down'[j] = down[j]
    BY <1>1
  <2> QED BY <2>1, StayingReports
<1>3. \A i \in 1..Len(down') : i \in 1..Len(down) \/ i = Len(down')
  BY <1>1
<1> QED BY <1>2, <1>3 DEF Replies

\* Who awaits the end of a stream reads it once.
LEMMA EndRead ==
  ASSUME Base, History, Client, Take, Head(down).kind = "end"
  PROVE  outcome'[Head(down).n] # "pending"
<1> DEFINE n == down[1].n
<1>1. Head(down) = down[1] /\ 1 \in 1..Len(down) /\ down[1].kind = "end"
  BY TakesReply
<1>2. n \in Requests /\ outcome[n] # "new" /\ (outcome[n] = "pending" => n = current /\ Waits)
  BY <1>1, DownIds DEF Base, Phase
<1>3. CASE outcome[n] # "pending"
  BY <1>1, <1>2, <1>3 DEF History
<1>4. CASE outcome[n] = "pending"
  <2>1. RecvReply \/ RecvStream
    BY <1>2, <1>4 DEF Client, Receiving, Begin, Send, SendToDead, Eof, TimedOut,
       SubscribeProperty, UnsubscribeProperty, StartPoll, Poll, Move, Waits, Take
  <2>2. \E how \in {"ok", "type"} : Finish(how)
    BY <1>1, <1>2, <1>4, <2>1 DEF RecvReply, RecvStream
  <2> QED BY <1>1, <1>2, <1>4, <2>2 DEF Finish, Base, TypeOK
<1> QED BY <1>3, <1>4

LEMMA EndSentStep ==
  ASSUME Base, Base', Order, EndSent, [Next]_vars
  PROVE  EndSent'
<1> DEFINE n == serving.n
<1>1. CASE StreamEnd
  <2> DEFINE m == Reply("end", n, 0)
  <2>1. n \in 1..current /\ serving'.n = n
    BY <1>1, ServingRequest DEF StreamEnd, Base, TypeOK
  <2>2. m \in DownMessages
    BY <1>1, <2>1, ReplyShapes DEF StreamEnd
  <2>3. Len(down') \in 1..Len(down') /\ down'[Len(down')] = m
    BY <1>1, <2>2, AddsReply DEF StreamEnd
  <2> QED BY <2>1, <2>3 DEF EndSent, Reply, Message
<1>2. ASSUME serving' = serving, serverUp, serving # None, serving.ended,
             Client \/ Setting \/ UNCHANGED vars
      PROVE  outcome'[n] # "pending"
                \/ \E j \in 1..Len(down') : down'[j].kind = "end" /\ down'[j].n = n
  <2>1. n \in Requests /\ outcome[n] # "new"
    <3>1. n \in 1..current /\ current \in 0..MaxRequests
      BY <1>2, ServingRequest, DownIds
    <3> QED BY <3>1, <1>2, ServingRequest DEF Base, Phase
  <2>2. CASE outcome[n] # "pending"
    BY <2>1, <2>2, HistoryStep DEF History
  <2>3. ASSUME NEW j \in 1..Len(down), down[j].kind = "end", down[j].n = n
        PROVE  outcome'[n] # "pending"
                \/ \E l \in 1..Len(down') : down'[l].kind = "end" /\ down'[l].n = n
    <3>1. CASE down' = down
      BY <2>3, <3>1
    <3>2. CASE Client /\ Take
      <4>1. /\ Len(down) \in Nat \ {0} /\ Len(down') = Len(down) - 1
            /\ \A i \in 1..Len(down) - 1 : down'[i] = down[i + 1]
            /\ Head(down) = down[1]
        BY <3>2, TakesReply
      <4>2. CASE j = 1
        BY <2>3, <3>2, <4>1, <4>2, EndRead, HistoryStep
      <4>3. CASE j # 1
        <5>1. j - 1 \in 1..Len(down') /\ down'[j - 1] = down[j]
          BY <4>1, <4>3
        <5> QED BY <2>3, <5>1
      <4> QED BY <4>2, <4>3
    <3>3. CASE Tells
      <4>1. /\ Len(down) \in Nat /\ Len(down') = Len(down) + 1
            /\ \A i \in 1..Len(down) : down'[i] = down[i]
        BY <3>3, AddsReply DEF Tells
      <4> QED BY <2>3, <4>1
    <3> QED BY <1>2, <3>1, <3>2, <3>3, SettingTells DEF Client, Receiving, Begin, Send, SendToDead,
       RecvReply, RecvStream, Eof, TimedOut, SubscribeProperty, UnsubscribeProperty, Post,
       StartPoll, Poll, Move, vars
  <2> QED BY <1>2, <2>2, <2>3 DEF EndSent
<1>3. \/ StreamEnd \/ ~serving'.ended \/ ~serverUp'
      \/ /\ serving' = serving /\ (serverUp' => serverUp)
         /\ Client \/ Setting \/ UNCHANGED vars
      \/ serving' = None
  <2>1. CASE Client
    BY <2>1 DEF Client, Receiving, Begin, Send, SendToDead,
       RecvReply, RecvStream, Eof, TimedOut, SubscribeProperty, UnsubscribeProperty, Post,
       StartPoll, Poll, Move, serverVars
  <2>2. CASE Crash \/ Setting \/ UNCHANGED vars
    BY <2>2, SettingFrame DEF Crash, vars, serverVars
  <2>3. CASE Handling
    <3>1. CASE ServeUnary \/ ServeSubscribe \/ ServeUnsubscribe
      BY <3>1 DEF ServeUnary, ServeSubscribe, ServeUnsubscribe, Ready, serverVars
    <3>2. CASE ServeStream
      BY <3>2 DEF ServeStream
    <3>3. CASE StreamWrite
      BY <3>3 DEF StreamWrite, serverVars
    <3>4. CASE StreamReturn \/ StreamThrow
      BY <3>4 DEF StreamReturn, StreamThrow
    <3> QED BY <2>3, <3>1, <3>2, <3>3, <3>4 DEF Handling
  <2> QED BY <2>1, <2>2, <2>3 DEF Next
<1> QED BY <1>1, <1>2, <1>3 DEF EndSent, None

LEMMA RepliesStep ==
  ASSUME Base, Base', Order, Replies, [Next]_vars
  PROVE  Replies'
<1> SUFFICES \A i \in 1..Len(down') : Reports(i)'
  BY EndSentStep DEF Replies
<1> USE HistoryStep
<1>1. CASE down' = down
  <2>1. \A k \in 1..Len(down) : k <= Len(down') /\ \A j \in 1..k : down'[j] = down[j]
    BY <1>1, DownIds
  <2> QED BY <1>1, <2>1, StayingReports DEF Replies
<1>2. CASE Client /\ Take
  <2>1. Head(down).kind = "end" => outcome'[Head(down).n] # "pending"
    BY <1>2, EndRead
  <2> QED BY <1>2, <2>1, TakenReports
<1>3. CASE ServeUnary
  <2>1. Head(up).n \in 1..current /\ Head(up).n \in Requests
    BY <1>3, OrderServed DEF ServeUnary
  <2>2. PICK r \in {"ok", "error"} :
          /\ executed' = [executed EXCEPT ![Head(up).n] = r]
          /\ down' = Append(down, Reply(IF r = "ok" THEN "result" ELSE "error", Head(up).n, 0))
    BY <1>3 DEF ServeUnary
  <2> DEFINE m == Reply(IF r = "ok" THEN "result" ELSE "error", Head(up).n, 0)
  <2>3. m \in DownMessages
    BY <1>3, <2>1, <2>2, ReplyShapes DEF ServeUnary
  <2>4. down'[Len(down')] = m /\ executed'[Head(up).n] = r
    BY <2>1, <2>2, <2>3, AddsReply DEF Base, TypeOK
  <2>5. Reports(Len(down))'
    BY <2>4 DEF Reports, Reply, Message
  <2> QED BY <2>2, <2>3, <2>5, AddedReports
<1>4. CASE StreamWrite
  <2> DEFINE n == serving.n
             m == Reply("chunk", n, produced[n] + 1)
  <2>1. n \in 1..current /\ n \in Requests
    BY <1>4, ServingRequest DEF StreamWrite
  <2>2. produced[n] \in Nat /\ produced[n] + 1 \in Nat
    BY <2>1, Counts
  <2>3. m \in DownMessages
    BY <1>4, <2>1, <2>2, ReplyShapes DEF StreamWrite
  <2>4. down'[Len(down')] = m /\ produced'[n] = produced[n] + 1
    BY <1>4, <2>1, <2>3, AddsReply DEF StreamWrite, Base, TypeOK
  <2>5. Reports(Len(down))'
    BY <2>2, <2>4 DEF Reports, Reply, Message
  <2> QED BY <1>4, <2>3, <2>5, AddedReports DEF StreamWrite
<1>5. CASE StreamEnd
  <2> DEFINE n == serving.n
             m == Reply("end", n, 0)
  <2>1. n \in 1..current /\ n \in Requests
    BY <1>5, ServingRequest DEF StreamEnd
  <2>2. m \in DownMessages
    BY <1>5, <2>1, ReplyShapes DEF StreamEnd
  <2>3. down'[Len(down')] = m /\ executed'[n] = "ok"
    BY <1>5, <2>1, <2>2, AddsReply DEF StreamEnd, Base, TypeOK
  <2>4. Reports(Len(down))'
    BY <2>3 DEF Reports, Reply, Message
  <2> QED BY <1>5, <2>2, <2>4, AddedReports DEF StreamEnd
<1>7. CASE Setting
  <2>1. CASE Tells
    <3>1. PICK m \in DownMessages : down' = Append(down, m) /\ m.kind = "notify"
      BY <2>1 DEF Tells
    <3>2. down'[Len(down')] = m
      BY <3>1, AddsReply
    <3>3. Reports(Len(down))'
      BY <3>1, <3>2 DEF Reports
    <3> QED BY <3>1, <3>3, AddedReports
  <2> QED BY <1>1, <1>7, <2>1, SettingTells
<1>8. CASE Crash
  <2>1. PICK k \in 0..Len(down) : down' = SubSeq(down, 1, k)
    BY <1>8 DEF Crash
  <2>2. Len(down') = k /\ \A i \in 1..k : down'[i] = down[i]
    <3>1. down \in Seq(DownMessages)
      BY DEF Base, TypeOK, DownMessages
    <3> QED BY <2>1, <3>1, Kept
  <2>3. \A i \in 1..k : i \in 1..Len(down) /\ i <= Len(down') /\ \A j \in 1..i : down'[j] = down[j]
    BY <2>2, DownIds
  <2> QED BY <2>2, <2>3, StayingReports DEF Replies
<1>9. CASE StreamThrow
  <2> DEFINE n == serving.n
             m == Reply("error", n, 0)
  <2>1. n \in 1..current /\ n \in Requests
    BY <1>9, ServingRequest DEF StreamThrow
  <2>2. m \in DownMessages
    BY <1>9, <2>1, ReplyShapes DEF StreamThrow
  <2>3. /\ Len(down) \in Nat /\ Len(down') = Len(down) + 1
        /\ \A i \in 1..Len(down) : down'[i] = down[i]
        /\ down'[Len(down')] = m
    BY <1>9, <2>2, AddsReply DEF StreamThrow
  <2>4. Reports(Len(down))'
    <3>1. CASE ~serving.ended
      <4>1. executed'[n] = "error"
        BY <1>9, <2>1, <3>1 DEF StreamThrow, Base, TypeOK
      <4> QED BY <2>3, <4>1 DEF Reports, Reply, Message
    <3>2. CASE serving.ended
      <4>1. executed'[n] = "ok"
        BY <1>9, <2>1, <3>2 DEF StreamThrow, Order
      <4>2. outcome'[n] # "pending" \/ \E j \in 1..Len(down')-1 : down'[j].kind = "end"
                                                              /\ down'[j].n = n
        <5>1. outcome' = outcome /\ serving # None /\ serverUp
          BY <1>9 DEF StreamThrow
        <5>2. \A j \in 1..Len(down) : j \in 1..Len(down')-1 /\ down'[j] = down[j]
          BY <2>3
        <5> QED BY <3>2, <5>1, <5>2 DEF Replies, EndSent
      <4> QED BY <2>3, <4>1, <4>2 DEF Reports, Reply, Message
    <3> QED BY <3>1, <3>2
  <2> QED BY <1>9, <2>2, <2>4, AddedReports DEF StreamThrow
<1> QED BY <1>1, <1>2, <1>3, <1>4, <1>5, <1>7, <1>8, <1>9 DEF Next, Client, Receiving, Begin,
   Send, SendToDead, RecvReply, RecvStream, Eof, TimedOut, SubscribeProperty,
   UnsubscribeProperty, Post, StartPoll, Poll, Move, Handling, ServeStream, StreamReturn,
   ServeSubscribe, ServeUnsubscribe, vars, historyVars

\* How a request that was awaited ends.
LEMMA Finished ==
  ASSUME Base, [Next]_vars, NEW n \in Requests, outcome[n] = "pending",
         outcome'[n] # "pending"
  PROVE  /\ n = current /\ Waits /\ Finish(outcome'[n])
         /\ UNCHANGED <<up, serverUp, serving, executed, produced, sent>>
         /\ \/ outcome'[n] \in {"timeout", "type", "handler", "notify"}
            \/ outcome'[n] = "eof" /\ ~serverUp /\ down = <<>> /\ down' = <<>>
            \/ /\ outcome'[n] = "mismatch" /\ Take
               /\ down[1].kind # "notify" /\ down[1].n # n
            \/ /\ outcome'[n] = "ok" /\ Take
               /\ down[1].n = n /\ down[1].kind = IF pc = "waiting" THEN "result" ELSE "end"
            \/ /\ outcome'[n] = "error" /\ Take
               /\ down[1].n = n /\ down[1].kind = "error"
<1>1. n = current /\ Waits /\ n \in 0..MaxRequests
  BY ConnectionAssumption DEF Base, Phase, Requests
<1>2. RecvReply \/ RecvStream \/ Eof \/ TimedOut
  BY <1>1, SettingFrame DEF Next, Client, Handling, Receiving, Begin, Send, SendToDead,
     SubscribeProperty, UnsubscribeProperty, Post, StartPoll, Poll, Move, ServeUnary,
     ServeStream, StreamWrite, StreamEnd, StreamReturn, StreamThrow, ServeSubscribe,
     ServeUnsubscribe, Crash, vars, historyVars, Waits
<1>3. ASSUME NEW how, Finish(how)
      PROVE  how = outcome'[n] /\ Finish(outcome'[n])
  BY <1>1, <1>3 DEF Finish, Base, TypeOK
<1>4. UNCHANGED <<up, serverUp, serving, executed, produced, sent>>
  BY <1>2 DEF RecvReply, RecvStream, Eof, TimedOut, serverVars
<1>5. CASE Eof \/ TimedOut
  BY <1>1, <1>3, <1>4, <1>5 DEF Eof, TimedOut
<1>6. CASE Take /\ (RecvReply \/ RecvStream)
  <2>1. Head(down) = down[1] /\ 1 \in 1..Len(down) /\ down[1].n \in 0..MaxRequests
    BY <1>6, TakesReply DEF DownMessages
  <2>2. Seq32(down[1].n) = Seq32(current) <=> down[1].n = n
    BY <1>1, <2>1, SeqsDiffer
  <2>3. CASE RecvReply
    BY <1>1, <1>3, <1>4, <1>6, <2>1, <2>2, <2>3 DEF RecvReply
  <2>4. CASE RecvStream
    BY <1>1, <1>3, <1>4, <1>6, <2>1, <2>2, <2>4 DEF RecvStream
  <2> QED BY <1>6, <2>3, <2>4
<1> QED BY <1>2, <1>5, <1>6 DEF RecvReply, RecvStream

LEMMA OwnReplyStep ==
  ASSUME Base, Order, Replies, OwnReply, [Next]_vars
  PROVE  OwnReply'
<1>1. SUFFICES ASSUME NEW n \in Requests, outcome'[n] \in {"ok", "error"}
               PROVE  executed'[n] = outcome'[n]
  BY DEF OwnReply
<1>2. CASE outcome'[n] = outcome[n]
  BY <1>1, <1>2, HistoryStep DEF OwnReply, History
<1>3. CASE outcome[n] = "pending"
  <2>1. /\ 1 \in 1..Len(down) /\ executed' = executed
        /\ \/ outcome'[n] = "ok" /\ down[1].n = n /\ down[1].kind \in {"result", "end"}
           \/ outcome'[n] = "error" /\ down[1].n = n /\ down[1].kind = "error"
    BY <1>1, <1>3, Finished, TakesReply
  <2> QED BY <1>3, <2>1 DEF Replies, Reports
<1> QED BY <1>1, <1>2, <1>3, HistoryStep DEF History

LEMMA AnswersStep ==
  ASSUME Base, Base', Answers, [Next]_vars
  PROVE  Answers'
BY OrderStep, RepliesStep, OwnReplyStep DEF Answers

LEMMA AnswersInvariant == Spec => [](Base /\ Answers)
<1>1. Init => Base /\ Answers
  <2>1. Init => Answers
    BY DEF Init, Answers, Order, Replies, EndSent, OwnReply, None, Requests
  <2> QED BY <2>1, BaseInit
<1>2. Base /\ Answers /\ [Next]_vars => (Base /\ Answers)'
  BY BaseStep, AnswersStep
<1> QED BY <1>1, <1>2, PTL DEF Spec

\* A request that ends with a reply ends with its own: no reply that comes late
\* is taken for the answer to a later request.
THEOREM RepliesAreOwn == Spec => []OwnReply
<1>1. Base /\ Answers => OwnReply
  BY DEF Answers
<1> QED BY <1>1, AnswersInvariant, PTL

-----------------------------------------------------------------------------
(* Connection implements RpcChannel                                        *)

LEMMA ChannelInit == Init => Channel!Init
BY DEF Init, Channel!Init, Channel!Requests, Requests, Abstract

LEMMA ChannelIssue ==
  ASSUME Base, Send \/ SendToDead
  PROVE  Channel!Next
<1>1. PICK how \in {"pending", "oneway", "eof"} :
        outcome' = [outcome EXCEPT ![current + 1] = how] /\ executed' = executed
  BY DEF Send, SendToDead
<1> DEFINE n == current + 1
           seen == [k \in Requests |-> Abstract(outcome[k])]
<1>2. n \in Requests /\ outcome[n] = "new"
  BY AddsSent DEF Send, SendToDead, Base, Phase
<1>3. \A k \in 1..n-1 : k \in Requests /\ outcome[k] # "new"
  <2>1. \A k \in 1..n-1 : k \in Requests /\ ~(k > current)
    BY <1>2, DownIds, ConnectionAssumption DEF Requests
  <2> QED BY <2>1 DEF Base, Phase
<1>4. seen' = [seen EXCEPT ![n] = Abstract(how)] /\ Abstract(how) \in {"pending", "failed"}
  BY <1>1, <1>2 DEF Base, TypeOK, Abstract
<1>5. seen[n] = "new" /\ \A k \in 1..n-1 : seen[k] # "new"
  BY <1>2, <1>3 DEF Abstract
<1>6. Channel!Issue(n)
  BY <1>1, <1>4, <1>5 DEF Channel!Issue
<1> QED BY <1>2, <1>6 DEF Channel!Next, Channel!Requests, Requests

LEMMA ChannelFinish ==
  ASSUME Base, Answers, Answers', [Next]_vars, NEW how, Waits, Finish(how), outcome' # outcome
  PROVE  Channel!Next
<1> DEFINE n == current
           seen == [k \in Requests |-> Abstract(outcome[k])]
<1>1. n \in Requests /\ outcome[n] = "pending"
  BY ConnectionAssumption DEF Base, TypeOK, Phase, Waits, current, Requests
<1>2. outcome' = [outcome EXCEPT ![n] = how] /\ outcome'[n] = how /\ how # "pending"
  <2>1. outcome' = [outcome EXCEPT ![n] = how] /\ outcome'[n] = how
    BY <1>1 DEF Finish, Base, TypeOK
  <2> QED BY <1>1, <2>1 DEF Base, TypeOK
<1>3. executed' = executed
  BY <1>1, <1>2, Finished
<1>4. seen' = [seen EXCEPT ![n] = Abstract(how)] /\ seen[n] = "pending"
  BY <1>1, <1>2 DEF Base, TypeOK, Abstract
<1>5. CASE how \in {"ok", "error"}
  <2>1. executed[n] = how /\ Abstract(how) = how /\ executed[n] # "no"
    BY <1>1, <1>2, <1>3, <1>5 DEF Answers, OwnReply, Abstract
  <2>2. Channel!Answer(n)
    BY <1>3, <1>4, <2>1 DEF Channel!Answer
  <2> QED BY <1>1, <2>2 DEF Channel!Next, Channel!Requests, Requests
<1>6. CASE how \notin {"ok", "error"}
  <2>1. how # "new"
    BY <1>1, <1>2, HistoryStep DEF Answers, History
  <2>2. Abstract(how) = "failed"
    BY <1>2, <1>6, <2>1 DEF Abstract
  <2>3. Channel!GiveUp(n)
    BY <1>3, <1>4, <2>2 DEF Channel!GiveUp
  <2> QED BY <1>1, <2>3 DEF Channel!Next, Channel!Requests, Requests
<1> QED BY <1>5, <1>6

LEMMA ChannelExecute ==
  ASSUME Base, NEW n \in 1..current, NEW r \in {"ok", "error"},
         executed' = [executed EXCEPT ![n] = r],
         \A k \in n..MaxRequests : executed[k] = "no", outcome' = outcome
  PROVE  Channel!Next
<1> DEFINE seen == [k \in Requests |-> Abstract(outcome[k])]
<1>1. n \in Requests /\ outcome[n] # "new"
  BY DownIds, ConnectionAssumption DEF Base, Phase, Requests
<1>2. seen' = seen /\ seen[n] # "new"
  BY <1>1 DEF Abstract
<1>3. Channel!Execute(n)
  BY <1>2 DEF Channel!Execute
<1> QED BY <1>1, <1>3 DEF Channel!Next, Channel!Requests, Requests

LEMMA ChannelStep ==
  ASSUME Base, Answers, Answers', [Next]_vars
  PROVE  [Channel!Next]_Channel!vars
<1>1. CASE Send \/ SendToDead
  BY <1>1, ChannelIssue
<1>2. CASE Waits /\ (\E how : Finish(how)) /\ outcome' # outcome
  BY <1>2, ChannelFinish
<1>3. CASE ServeUnary
  <2>1. Head(up).n \in 1..current /\ \A k \in Head(up).n..MaxRequests : executed[k] = "no"
    BY <1>3, OrderServed DEF ServeUnary, Answers
  <2> QED BY <1>3, <2>1, ChannelExecute DEF ServeUnary, clientVars
<1>4. CASE (StreamEnd \/ StreamThrow) /\ ~serving.ended
  <2>1. serving.n \in 1..current /\ serving.n \in Requests
    BY <1>4, ServingRequest DEF StreamEnd, StreamThrow
  <2>2. \A k \in serving.n..MaxRequests : executed[k] = "no"
    <3>1. /\ executed[serving.n] = "no"
          /\ \A k \in serving.n+1..MaxRequests : executed[k] = "no"
      BY <1>4 DEF StreamEnd, StreamThrow, Answers, Order
    <3>2. \A k \in serving.n..MaxRequests : k = serving.n \/ k \in serving.n+1..MaxRequests
      BY <2>1 DEF Requests
    <3> QED BY <3>1, <3>2
  <2> QED BY <1>4, <2>1, <2>2, ChannelExecute DEF StreamEnd, StreamThrow
<1>5. CASE UNCHANGED <<executed, outcome>>
  BY <1>5 DEF Channel!vars
<1> QED BY <1>1, <1>2, <1>3, <1>4, <1>5, SettingFrame DEF Next, Client, Handling, Receiving,
   Begin, RecvReply, RecvStream, Eof, TimedOut, SubscribeProperty, UnsubscribeProperty, Post,
   StartPoll, Poll, Move, ServeStream, StreamWrite, StreamEnd, StreamReturn, StreamThrow,
   ServeSubscribe, ServeUnsubscribe, Crash, vars, clientVars, serverVars,
   historyVars, Waits

\* To its user a connection is RpcChannel: a request is executed at most once,
\* in the order of issue, and its answer is what became of that request.
THEOREM ImplementsChannel == Spec => ChannelSpec
<1>1. Init => Channel!Init
  BY ChannelInit
<1>2. (Base /\ Answers) /\ (Base /\ Answers)' /\ [Next]_vars => [Channel!Next]_Channel!vars
  BY ChannelStep
<1> QED BY <1>1, <1>2, AnswersInvariant, PTL DEF Spec, ChannelSpec, Channel!Spec

-----------------------------------------------------------------------------
(* Whole streams                                                           *)

\* A chunk is handed to the callback.
Reads ==
  /\ pc = "streaming" /\ Take
  /\ down[1].kind = "chunk" /\ down[1].n = current
  /\ received' = [received EXCEPT ![current] = Append(@, <<current, down[1].data>>)]
  /\ produced' = produced

\* A message is added to what is under way to the client.
Adds(m) ==
  /\ down' = Append(down, m) /\ UNCHANGED <<outcome, received>>
  /\ \/ m.kind = "notify" /\ m.n = 0 /\ produced' = produced
     \/ ServeUnary /\ m.kind \in {"result", "error"} /\ m.n = Head(up).n /\ produced' = produced
     \/ StreamThrow /\ m.kind = "error" /\ m.n = serving.n /\ produced' = produced
     \/ StreamWrite /\ m = Reply("chunk", serving.n, produced[serving.n] + 1)
     \/ StreamEnd /\ m = Reply("end", serving.n, 0) /\ produced' = produced

\* What a step may make of the messages to the client: nothing, take the first,
\* add one, or lose the last ones.
Skips ==
  /\ Take /\ UNCHANGED <<received, produced>>
  /\ down[1].kind = "notify" \/ \A n \in Requests : outcome'[n] # "pending"
Flow ==
  \/ UNCHANGED <<down, received, produced>>
  \/ Reads \/ Skips
  \/ \E m \in DownMessages : Adds(m)
  \/ /\ \E k \in 0..Len(down) : down' = SubSeq(down, 1, k)
     /\ ~serverUp' /\ UNCHANGED <<outcome, received, produced>>

LEMMA FlowStep ==
  ASSUME Base, Base', [Next]_vars
  PROVE  Flow /\ (serverUp' => serverUp)
<1>1. serverUp' => serverUp
  BY SettingFrame
     DEF Next, Client, Handling, Receiving, Begin, Send, SendToDead, RecvReply, RecvStream,
     Eof, TimedOut, SubscribeProperty, UnsubscribeProperty, Post, StartPoll, Poll, Move,
     ServeUnary, ServeStream, StreamWrite, StreamEnd, StreamReturn, StreamThrow,
     ServeSubscribe, ServeUnsubscribe, Crash, vars, serverVars
<1> SUFFICES Flow
  BY <1>1
<1>2. CASE RecvReply \/ Poll \/ RecvStream
  <2>1. CASE ~Take
    BY <1>2, <2>1 DEF RecvReply, Poll, RecvStream, Flow
  <2>2. CASE Take
    <3>1. Head(down) = down[1] /\ 1 \in 1..Len(down) /\ down[1].n \in 0..MaxRequests
      BY <2>2, TakesReply DEF DownMessages
    <3>2. \A n \in Requests : outcome'[n] = "pending" => n = current' /\ Waits'
      BY DEF Base, Phase
    <3>3. current' = current
      BY <1>2 DEF RecvReply, Poll, RecvStream, current
    <3>4. pc' = "idle" => \A n \in Requests : outcome'[n] # "pending"
      BY <3>2 DEF Waits
    <3>5. CASE RecvReply \/ Poll
      BY <2>2, <3>1, <3>4, <3>5 DEF RecvReply, Poll, Finish, Skips, Flow
    <3>6. CASE RecvStream
      <4>1. current \in Requests /\ current \in 0..MaxRequests
        BY <3>6, ConnectionAssumption DEF RecvStream, Base, TypeOK, Phase, current, Requests
      <4>2. Seq32(down[1].n) = Seq32(current) <=> down[1].n = current
        BY <3>1, <4>1, SeqsDiffer
      <4> QED BY <2>2, <3>1, <3>4, <3>6, <4>2 DEF RecvStream, Finish, Reads, Skips, Flow
    <3> QED BY <1>2, <3>5, <3>6
  <2> QED BY <2>1, <2>2
<1>3. CASE ServeUnary
  <2>1. PICK r \in {"ok", "error"} :
          down' = Append(down, Reply(IF r = "ok" THEN "result" ELSE "error", Head(up).n, 0))
    BY <1>3 DEF ServeUnary
  <2> DEFINE m == Reply(IF r = "ok" THEN "result" ELSE "error", Head(up).n, 0)
  <2>2. m \in DownMessages /\ m.kind \in {"result", "error"} /\ m.n = Head(up).n
    <3>1. m \in DownMessages
      BY <1>3, <2>1, RequestShapes, ReplyShapes DEF ServeUnary, Takes
    <3> QED BY <3>1 DEF Reply, Message
  <2> QED BY <1>3, <2>1, <2>2 DEF ServeUnary, Flow, Adds
<1>4. CASE StreamWrite
  <2>1. serving.n \in 1..current /\ produced[serving.n] + 1 \in Nat
    BY <1>4, ServingRequest, Counts DEF StreamWrite
  <2>2. Reply("chunk", serving.n, produced[serving.n] + 1) \in DownMessages
    BY <1>4, <2>1, ReplyShapes DEF StreamWrite
  <2> QED BY <1>4, <2>2 DEF StreamWrite, Flow, Adds
<1>5. CASE StreamEnd
  <2>1. Reply("end", serving.n, 0) \in DownMessages
    BY <1>5, ServingRequest, ReplyShapes DEF StreamEnd
  <2> QED BY <1>5, <2>1 DEF StreamEnd, Flow, Adds
<1>6. CASE StreamThrow
  <2> DEFINE m == Reply("error", serving.n, 0)
  <2>1. m \in DownMessages /\ m.kind = "error" /\ m.n = serving.n
    <3>1. m \in DownMessages
      BY <1>6, ServingRequest, ReplyShapes DEF StreamThrow
    <3> QED BY <3>1 DEF Reply, Message
  <2> QED BY <1>6, <2>1 DEF StreamThrow, Flow, Adds
<1>7. CASE Setting
  <2>1. CASE Tells
    <3>1. PICK m \in DownMessages : /\ down' = Append(down, m)
                                    /\ m.kind = "notify" /\ m.n = 0
      BY <2>1 DEF Tells
    <3>2. Adds(m)
      BY <1>7, <3>1, SettingFrame DEF Adds
    <3> QED BY <3>2 DEF Flow
  <2>2. CASE down' = down
    BY <1>7, <2>2, SettingFrame DEF Flow
  <2> QED BY <1>7, <2>1, <2>2, SettingTells
<1>8. CASE Crash
  BY <1>8 DEF Crash, Flow, historyVars
<1>9. CASE UNCHANGED <<down, received, produced>>
  BY <1>9 DEF Flow
<1> QED BY <1>2, <1>3, <1>4, <1>5, <1>6, <1>7, <1>8, <1>9 DEF Next, Client, Handling,
   Receiving, Begin, Send, SendToDead, Eof, TimedOut, SubscribeProperty,
   UnsubscribeProperty, Post, StartPoll, Move, ServeStream, StreamReturn, ServeSubscribe,
   ServeUnsubscribe, vars, historyVars

\* A chunk that is handed over is the next one, and no other is left before it.
LEMMA ReadsNext ==
  ASSUME Base, Replies, Streams, Reads
  PROVE  /\ current \in Requests /\ outcome[current] = "pending"
         /\ down[1].data = Len(received[current]) + 1
         /\ down[1].data <= produced[current]
         /\ \A n \in Requests \ {current} : received'[n] = received[n]
         /\ Len(received[current]) \in Nat
         /\ Len(received'[current]) = Len(received[current]) + 1
         /\ \A i \in 1..Len(received[current]) : received'[current][i] = received[current][i]
         /\ received'[current][Len(received[current]) + 1] = <<current, down[1].data>>
<1>1. 1 \in 1..Len(down) /\ down[1] \in DownMessages
  BY TakesReply DEF Reads
<1>2. current \in Requests /\ outcome[current] = "pending"
  BY ConnectionAssumption DEF Reads, Base, TypeOK, Phase, current, Requests
<1>3. /\ produced[current] \in Nat /\ received[current] \in Seq(Requests \X Nat)
      /\ Len(received[current]) \in Nat
  BY <1>2, Counts
<1>4. down[1].data \in Nat /\ down[1].data \in 1..produced[current]
  BY <1>1 DEF Reads, Replies, Reports, DownMessages
<1>5. down[1].data - 1 = Len(received[current])
  BY <1>1, <1>2 DEF Reads, Streams, Follows, UpTo
<1>6. down[1].data = Len(received[current]) + 1
  BY <1>3, <1>4, <1>5
<1>7. <<current, down[1].data>> \in Requests \X Nat
  BY <1>2, <1>4
<1>8. /\ received'[current] = Append(received[current], <<current, down[1].data>>)
      /\ \A n \in Requests \ {current} : received'[n] = received[n]
  BY <1>2 DEF Reads, Base, TypeOK
<1> QED BY <1>2, <1>3, <1>4, <1>6, <1>7, <1>8, Added

LEMMA WholeStep ==
  ASSUME Base, Base', Answers, Streams, [Next]_vars, NEW n \in Requests
  PROVE  Whole(n)'
<1>1. /\ produced[n] \in Nat /\ Len(received[n]) \in Nat
      /\ Whole(n)
  BY Counts DEF Streams
<1>2. Flow /\ History
  BY FlowStep, HistoryStep DEF Answers
<1>3. produced'[n] = produced[n] \/ produced'[n] = produced[n] + 1
  BY <1>2 DEF History
<1>4. /\ Len(received'[n]) <= produced'[n]
      /\ \A i \in 1..Len(received'[n]) : received'[n][i] = <<n, i>>
  <2>1. CASE received' = received
    BY <1>1, <1>3, <2>1 DEF Whole
  <2>2. CASE Reads
    <3>1. CASE n = current
      BY <1>1, <2>2, <3>1, ReadsNext DEF Whole, Answers, Reads
    <3>2. CASE n # current
      BY <1>1, <2>2, <3>2, ReadsNext DEF Whole, Answers, Reads
    <3> QED BY <3>1, <3>2
  <2> QED BY <1>2, <2>1, <2>2 DEF Flow, Skips, Adds
<1>5. ASSUME n <= current', outcome'[n] = "ok", sent'[n].api = "stream"
      PROVE  Len(received'[n]) = produced'[n]
  <2>1. CASE outcome[n] = "pending"
    <3>1. /\ n = current /\ Waits /\ Take /\ 1 \in 1..Len(down) /\ down[1].n = n
          /\ down[1].kind = IF pc = "waiting" THEN "result" ELSE "end"
          /\ UNCHANGED <<produced, sent>> /\ Finish("ok")
      BY <1>5, <2>1, Finished, TakesReply
    <3>2. down[1].kind = "end"
      BY <1>5, <3>1 DEF Base, Phase, Waits
    <3>3. produced[n] = Len(received[n])
      BY <2>1, <3>1, <3>2 DEF Streams, Follows, UpTo
    <3>4. received' = received
      BY <1>2, <3>1, <3>2 DEF Flow, Reads, Skips, Adds
    <3> QED BY <3>1, <3>3, <3>4
  <2>2. CASE outcome'[n] = outcome[n]
    <3>1. executed[n] = "ok"
      BY <1>5, <2>2 DEF Answers, OwnReply
    <3>2. produced'[n] = produced[n]
      BY <1>2, <3>1 DEF History
    <3>3. n <= current /\ sent'[n] = sent[n]
      <4>1. n <= current
        BY <1>5, <2>2, DownIds DEF Base, Phase, Requests
      <4>2. CASE sent' = sent
        BY <4>1, <4>2
      <4>3. CASE Send \/ SendToDead
        BY <4>1, <4>3, AddsSent DEF Send, SendToDead, Requests
      <4> QED BY <4>1, <4>2, <4>3, SettingFrame DEF Next, Client, Handling, Receiving, Begin, RecvReply,
         RecvStream, Eof, TimedOut, SubscribeProperty, UnsubscribeProperty, Post, StartPoll,
         Poll, Move, ServeUnary, ServeStream, StreamWrite, StreamEnd, StreamReturn,
         StreamThrow, ServeSubscribe, ServeUnsubscribe, Crash, vars, historyVars
    <3>4. received'[n] = received[n]
      <4>1. CASE Reads
        BY <1>5, <2>2, <4>1, ReadsNext DEF Answers
      <4> QED BY <1>2, <4>1 DEF Flow, Skips, Adds
    <3> QED BY <1>1, <1>5, <2>2, <3>2, <3>3, <3>4 DEF Whole
  <2> QED BY <1>2, <1>5, <2>1, <2>2 DEF History
<1> QED BY <1>4, <1>5 DEF Whole

\* Where the messages under way were before the step.
LEMMA Moved ==
  ASSUME Base, Base', Flow
  PROVE  /\ Len(down) \in Nat /\ Len(down') \in Nat
         /\ \/ /\ received' = received
               /\ \A l \in 1..Len(down') : l \in 1..Len(down) /\ down'[l] = down[l]
            \/ /\ Reads \/ Skips
               /\ Len(down') = Len(down) - 1
               /\ \A l \in 1..Len(down') : down'[l] = down[l + 1]
            \/ \E m \in DownMessages :
                 /\ Adds(m) /\ Len(down') = Len(down) + 1
                 /\ \A l \in 1..Len(down) : down'[l] = down[l]
                 /\ down'[Len(down')] = m
<1>1. down \in Seq(DownMessages) /\ down' \in Seq(DownMessages)
  BY DEF Base, TypeOK, DownMessages
<1>2. CASE Reads \/ Skips
  <2>1. /\ Len(down) \in Nat \ {0} /\ Len(down') = Len(down) - 1
        /\ \A i \in 1..Len(down) - 1 : down'[i] = down[i + 1]
    BY <1>2, TakesReply DEF Reads, Skips
  <2> QED BY <1>1, <1>2, <2>1
<1>3. CASE UNCHANGED <<down, received>>
  BY <1>1, <1>3
<1>4. ASSUME NEW m \in DownMessages, Adds(m)
      PROVE  /\ Len(down') = Len(down) + 1
             /\ \A i \in 1..Len(down) : down'[i] = down[i]
             /\ down'[Len(down')] = m
  BY <1>4, AddsReply DEF Adds
<1>5. CASE received' = received /\ \E k \in 0..Len(down) : down' = SubSeq(down, 1, k)
  <2>1. PICK k \in 0..Len(down) : down' = SubSeq(down, 1, k)
    BY <1>5
  <2>2. Len(down') = k /\ \A i \in 1..k : down'[i] = down[i]
    BY <1>1, <2>1, Kept
  <2> QED BY <1>1, <1>5, <2>1, <2>2
<1> QED BY <1>1, <1>2, <1>3, <1>4, <1>5 DEF Flow

\* Whoever awaits a stream after a step awaited it before.
LEMMA StillPending ==
  ASSUME Base, History, NEW i \in 1..Len(down), down[i].kind # "notify",
         outcome'[down[i].n] = "pending"
  PROVE  outcome[down[i].n] = "pending" /\ down[i].n = current /\ down[i].n \in Requests
<1>1. down[i].n \in Requests /\ outcome[down[i].n] # "new"
  BY DownIds
<1>2. outcome[down[i].n] = "pending"
  BY <1>1 DEF History
<1> QED BY <1>1, <1>2 DEF Base, Phase

LEMMA FollowsStep ==
  ASSUME Base, Base', Answers, Answers', Streams, [Next]_vars, NEW k \in 1..Len(down')
  PROVE  Follows(k)'
<1>1. Flow /\ History
  BY FlowStep, HistoryStep DEF Answers
<1>2. SUFFICES ASSUME NEW n, n = down'[k].n, outcome'[n] = "pending",
                      NEW d \in Nat,
                      \/ down'[k].kind = "chunk" /\ d = down'[k].data - 1
                      \/ down'[k].kind = "end" /\ d = produced'[n]
               PROVE  UpTo(n, d, k - 1)'
  <2>1. \A n : n = down'[k].n /\ outcome'[n] = "pending" /\ down'[k].kind = "chunk"
                 => down'[k].data - 1 \in Nat
    BY DEF Answers, Replies, Reports
  <2>2. \A n : n = down'[k].n /\ outcome'[n] = "pending" /\ down'[k].kind = "end"
                 => produced'[n] \in Nat
    <3>1. down'[k].kind = "end" => down'[k].n \in 1..current'
      BY DEF Base, Shapes, DownShapes
    <3>2. current' \in Nat /\ current' <= MaxRequests /\ produced' \in [Requests -> Nat]
      BY DEF Base, TypeOK, current
    <3>3. 1..current' \subseteq Requests
      BY <3>2, ConnectionAssumption DEF Requests
    <3> QED BY <3>1, <3>2, <3>3
  <2> QED BY <2>1, <2>2 DEF Follows
<1>3. CASE /\ received' = received /\ k \in 1..Len(down)
           /\ \A l \in 1..k : down'[l] = down[l]
  <2>1. k \in 1..Len(down) /\ down'[k] = down[k] /\ k - 1 \in Nat
    BY <1>3, DownIds
  <2>2. outcome[n] = "pending" /\ n \in Requests
    BY <1>1, <1>2, <1>3, <2>1, StillPending
  <2>4. down[k].kind = "end" => produced'[n] = produced[n]
    BY <1>1, <1>2, <1>3, <2>1, <2>2 DEF Answers, Replies, Reports, History
  <2>5. UpTo(n, d, k - 1)
    BY <1>2, <1>3, <2>1, <2>2, <2>4 DEF Streams, Follows
  <2>6. \A l \in 1..k-1 : down'[l] = down[l]
    BY <1>3, <2>1
  <2> QED BY <1>3, <2>5, <2>6 DEF UpTo
<1>4. CASE /\ Reads \/ Skips
           /\ Len(down') = Len(down) - 1
           /\ \A l \in 1..Len(down') : down'[l] = down[l + 1]
  <2>1. /\ k \in Nat /\ k + 1 \in 1..Len(down) /\ 1 \in 1..Len(down) /\ k \in 1..(k + 1) - 1
        /\ down'[k] = down[k + 1]
    BY <1>4, DownIds
  <2>2. outcome[n] = "pending" /\ n \in Requests /\ n = current
    BY <1>1, <1>2, <1>4, <2>1, StillPending
  <2>3. down[k + 1].kind = "end" => produced'[n] = produced[n]
    BY <1>1, <1>2, <1>4, <2>1, <2>2 DEF Answers, Replies, Reports, History
  <2>4. UpTo(n, d, k)
    BY <1>2, <1>4, <2>1, <2>2, <2>3 DEF Streams, Follows
  <2>5. CASE Reads
    <3>1. down[1].n = n /\ down[1].data = Len(received[n]) + 1 /\ Len(received'[n]) = down[1].data
      BY <2>2, <2>5, ReadsNext DEF Reads, Answers
    <3>2. d # Len(received[n])
      <4>1. CASE down[k + 1].kind = "chunk"
        <5>1. down[1].data < down[k + 1].data /\ d = down[k + 1].data - 1
          <6>1. k + 1 \in 1+1..Len(down) /\ Later(1)
            BY <2>1 DEF Streams
          <6>2. down[1].kind = "chunk" /\ down[k + 1].n = down[1].n
            BY <1>2, <2>1, <2>5, <3>1 DEF Reads
          <6> QED BY <1>2, <2>1, <4>1, <6>1, <6>2 DEF Later
        <5> QED BY <3>1, <5>1, <2>1, <2>2, <2>5, DownIds, ReadsNext DEF DownMessages, Answers
      <4>2. CASE down[k + 1].kind = "end"
        BY <1>2, <1>4, <2>2, <2>3, <2>5, <3>1, <4>2, ReadsNext DEF Answers
      <4> QED BY <1>2, <1>4, <4>1, <4>2
    <3>3. PICK j \in 1..k : IsChunk(down[j], n, d)
      BY <2>4, <3>2 DEF UpTo
    <3>4. CASE j = 1
      BY <3>1, <3>3, <3>4 DEF IsChunk, UpTo
    <3>5. CASE j # 1
      <4>1. j - 1 \in 1..k-1 /\ down'[j - 1] = down[j]
        BY <1>4, <2>1, <3>5
      <4> QED BY <3>3, <4>1 DEF UpTo
    <3> QED BY <3>4, <3>5
  <2>6. CASE Skips
    <3>1. received' = received /\ down[1].kind = "notify"
      BY <1>2, <2>2, <2>6 DEF Skips
    <3>2. CASE d = Len(received[n])
      BY <3>1, <3>2 DEF UpTo
    <3>3. ASSUME NEW j \in 1..k, IsChunk(down[j], n, d)
          PROVE  UpTo(n, d, k - 1)'
      <4>1. j # 1
        BY <3>1, <3>3 DEF IsChunk
      <4>2. j - 1 \in 1..k-1 /\ down'[j - 1] = down[j]
        BY <1>4, <2>1, <4>1
      <4> QED BY <3>3, <4>2 DEF UpTo
    <3> QED BY <2>4, <3>2, <3>3 DEF UpTo
  <2> QED BY <1>4, <2>5, <2>6
<1>5. ASSUME NEW m \in DownMessages, Adds(m), k = Len(down) + 1, down'[k] = m,
             \A l \in 1..Len(down) : down'[l] = down[l]
      PROVE  UpTo(n, d, k - 1)'
  <2>1. n = serving.n /\ serverUp /\ n \in Requests
    BY <1>2, <1>5, ServingRequest DEF Adds, StreamWrite, StreamEnd, Reply, Message
  <2>2. d = produced[n]
    <3>1. CASE m = Reply("chunk", serving.n, produced[serving.n] + 1)
      BY <1>2, <1>5, <3>1, <2>1, Counts DEF Reply, Message
    <3>2. CASE produced' = produced /\ m = Reply("end", serving.n, 0)
      BY <1>2, <1>5, <3>2, <2>1 DEF Reply, Message
    <3> QED BY <1>2, <1>5, <3>1, <3>2 DEF Adds
  <2>3. UpTo(n, d, Len(down)) /\ k - 1 = Len(down)
    BY <1>2, <1>5, <2>1, <2>2, DownIds DEF Adds, Streams, Coming
  <2> QED BY <1>5, <2>3 DEF Adds, UpTo
<1>6. ASSUME NEW m \in DownMessages, Adds(m), Len(down') = Len(down) + 1,
             down'[Len(down')] = m, \A l \in 1..Len(down) : down'[l] = down[l]
      PROVE  UpTo(n, d, k - 1)'
  <2>1. CASE k \in 1..Len(down)
    <3>1. received' = received /\ \A l \in 1..k : down'[l] = down[l]
      BY <1>6, <2>1, DownIds DEF Adds
    <3> QED BY <1>3, <2>1, <3>1
  <2>2. CASE k = Len(down) + 1
    BY <1>5, <1>6, <2>2
  <2> QED BY <1>6, <2>1, <2>2, DownIds
<1>7. CASE /\ received' = received
           /\ \A l \in 1..Len(down') : l \in 1..Len(down) /\ down'[l] = down[l]
  <2>1. k \in 1..Len(down) /\ \A l \in 1..k : down'[l] = down[l]
    BY <1>7, DownIds
  <2> QED BY <1>3, <1>7, <2>1
<1> QED BY <1>1, <1>4, <1>6, <1>7, Moved

\* What a step may make of the outcome of a request.
LEMMA Settles ==
  ASSUME [Next]_vars, outcome' # outcome
  PROVE  Send \/ SendToDead \/ (Waits /\ \E how : Finish(how))
<1>1. CASE Receiving
  BY <1>1 DEF Receiving, RecvReply, RecvStream, Eof, TimedOut, Waits
<1>2. ~Handling
  BY DEF Handling, ServeUnary, ServeStream, StreamWrite, StreamEnd, StreamReturn,
     StreamThrow, ServeSubscribe, ServeUnsubscribe, clientVars, historyVars
<1> QED BY <1>1, <1>2, SettingFrame DEF Next, Client, Begin, SubscribeProperty,
   UnsubscribeProperty, Post, StartPoll, Poll, Move, Crash, vars, historyVars
LEMMA ComingStep ==
  ASSUME Base, Base', Answers, Streams, [Next]_vars, NEW n \in Requests
  PROVE  Coming(n)'
<1>1. Flow /\ History /\ (serverUp' => serverUp)
  BY FlowStep, HistoryStep DEF Answers
<1>2. SUFFICES ASSUME serverUp', outcome'[n] = "pending"
               PROVE  UpTo(n, produced[n], Len(down))'
  BY DEF Coming
<1>3. /\ down \in Seq(DownMessages) /\ Len(down) \in Nat
      /\ produced[n] \in Nat /\ Len(received[n]) \in Nat
  BY Counts DEF Base, TypeOK, DownMessages
<1>4. CASE outcome[n] = "new"
  <2>1. n > current
    BY <1>4 DEF Base, Phase
  <2>2. produced[n] = 0 /\ received[n] = <<>> /\ executed[n] = "no"
    BY <2>1 DEF Base, Phase
  <2>3. ASSUME NEW how, Waits, Finish(how) PROVE FALSE
    BY <1>2, <1>4, <2>3 DEF Finish, Base, Phase, TypeOK, Waits
  <2>4. Send \/ SendToDead
    <3>1. outcome' # outcome
      BY <1>2, <1>4
    <3> QED BY <2>3, <3>1, Settles
  <2>5. UNCHANGED <<produced, received>>
    BY <2>4 DEF Send, SendToDead
  <2> QED BY <2>2, <2>5 DEF UpTo
<1>5. CASE outcome[n] # "new"
  <2>1. outcome[n] = "pending" /\ UpTo(n, produced[n], Len(down)) /\ n = current
    <3>1. outcome[n] = "pending"
      BY <1>1, <1>2, <1>5 DEF History
    <3> QED BY <1>1, <1>2, <3>1 DEF Streams, Coming, Base, Phase
  <2>2. CASE UNCHANGED <<down, received, produced>>
    BY <2>1, <2>2 DEF UpTo
  <2>3. CASE Reads
    <3>1. /\ down[1].n = n /\ down[1].data = Len(received[n]) + 1
          /\ Len(received'[n]) = down[1].data /\ down[1].data <= produced[n]
          /\ produced' = produced
      BY <2>1, <2>3, ReadsNext DEF Reads, Answers
    <3>2. PICK j \in 1..Len(down) : IsChunk(down[j], n, produced[n])
      BY <1>3, <2>1, <3>1 DEF UpTo
    <3>3. /\ Len(down') = Len(down) - 1
          /\ \A i \in 1..Len(down) - 1 : down'[i] = down[i + 1]
      BY <2>3, TakesReply DEF Reads
    <3>4. CASE j = 1
      BY <3>1, <3>2, <3>4 DEF IsChunk, UpTo
    <3>5. CASE j # 1
      <4>1. j - 1 \in 1..Len(down') /\ down'[j - 1] = down[j]
        BY <1>3, <3>3, <3>5
      <4> QED BY <3>1, <3>2, <4>1 DEF UpTo
    <3> QED BY <3>4, <3>5
  <2>4. CASE Skips
    <3>1. received' = received /\ produced' = produced /\ down[1].kind = "notify"
      BY <1>2, <2>4 DEF Skips
    <3>3. /\ Len(down') = Len(down) - 1
          /\ \A i \in 1..Len(down) - 1 : down'[i] = down[i + 1]
      BY <2>4, TakesReply DEF Skips
    <3>2. ASSUME NEW j \in 1..Len(down), IsChunk(down[j], n, produced[n])
          PROVE  UpTo(n, produced[n], Len(down))'
      <4>1. j # 1
        BY <3>1, <3>2 DEF IsChunk
      <4>2. j - 1 \in 1..Len(down') /\ down'[j - 1] = down[j]
        BY <1>3, <3>3, <4>1
      <4> QED BY <3>1, <3>2, <4>2 DEF UpTo
    <3> QED BY <2>1, <3>1, <3>2 DEF UpTo
  <2>5. ASSUME NEW m \in DownMessages, Adds(m)
        PROVE  UpTo(n, produced[n], Len(down))'
    <3>1. /\ Len(down') = Len(down) + 1 /\ received' = received
          /\ \A i \in 1..Len(down) : i \in 1..Len(down') /\ down'[i] = down[i]
          /\ Len(down') \in 1..Len(down') /\ down'[Len(down')] = m
      BY <1>3, <2>5, AddsReply DEF Adds
    <3>2. CASE produced'[n] = produced[n]
      BY <2>1, <3>1, <3>2 DEF UpTo
    <3>3. CASE StreamWrite /\ n = serving.n /\ m = Reply("chunk", n, produced[n] + 1)
      <4>1. produced'[n] = produced[n] + 1
        BY <3>3 DEF StreamWrite, Base, TypeOK
      <4>2. IsChunk(m, n, produced'[n])
        BY <3>3, <4>1 DEF IsChunk, Reply, Message
      <4> QED BY <3>1, <4>2 DEF UpTo
    <3> QED BY <1>1, <2>5, <3>2, <3>3 DEF Adds, History
  <2> QED BY <1>1, <1>2, <2>2, <2>3, <2>4, <2>5 DEF Flow
<1> QED BY <1>4, <1>5

LEMMA LaterStep ==
  ASSUME Base, Base', Answers, Streams, [Next]_vars, NEW k \in 1..Len(down')
  PROVE  Later(k)'
<1>1. Flow /\ History
  BY FlowStep, HistoryStep DEF Answers
<1>2. SUFFICES ASSUME NEW n, n = down'[k].n, NEW d, d = down'[k].data,
                      down'[k].kind = "chunk"
               PROVE  /\ Len(received'[n]) < d
                      /\ \A j \in k+1..Len(down') :
                           down'[j].kind = "chunk" /\ down'[j].n = n => d < down'[j].data
  BY DEF Later
<1>3. Len(down) \in Nat /\ Len(down') \in Nat
  BY <1>1, Moved
<1>4. \A i \in 1..Len(down) : down[i].kind = "chunk" =>
        /\ down[i].n \in Requests /\ down[i].data \in Nat
        /\ down[i].data <= produced[down[i].n] /\ produced[down[i].n] \in Nat
        /\ Len(received[down[i].n]) \in Nat
  <2>1. \A i \in 1..Len(down) : down[i].kind = "chunk" =>
          down[i].n \in Requests /\ down[i].data \in Nat
                                 /\ down[i].data \in 1..produced[down[i].n]
    BY DownIds DEF Answers, Replies, Reports, DownMessages
  <2> QED BY <2>1, Counts
<1>5. CASE /\ received' = received
           /\ \A l \in 1..Len(down') : l \in 1..Len(down) /\ down'[l] = down[l]
  <2>1. \A j \in k+1..Len(down') : j \in k+1..Len(down) /\ down'[j] = down[j]
    BY <1>3, <1>5
  <2> QED BY <1>2, <1>5, <2>1 DEF Streams, Later
<1>6. CASE /\ Reads \/ Skips
           /\ Len(down') = Len(down) - 1
           /\ \A l \in 1..Len(down') : down'[l] = down[l + 1]
  <2>1. /\ k + 1 \in 1..Len(down) /\ 1 \in 1..Len(down) /\ down'[k] = down[k + 1]
        /\ \A j \in k+1..Len(down') : j + 1 \in (k+1)+1..Len(down) /\ down'[j] = down[j + 1]
    BY <1>3, <1>6
  <2>2. /\ Len(received[n]) < d
        /\ \A j \in k+1..Len(down') :
             down'[j].kind = "chunk" /\ down'[j].n = n => d < down'[j].data
    BY <1>2, <2>1 DEF Streams, Later
  <2>3. Len(received'[n]) < d
    <3>1. CASE received'[n] = received[n]
      BY <2>2, <3>1
    <3>2. CASE Reads /\ n = current
      <4>1. down[1].data < d
        BY <1>2, <2>1, <3>2 DEF Streams, Later, Reads
      <4> QED BY <3>2, <4>1, ReadsNext DEF Answers
    <3> QED BY <1>2, <1>4, <1>6, <2>1, <3>1, <3>2, ReadsNext DEF Skips, Answers
  <2> QED BY <2>2, <2>3
\* What is added behind the others is the chunk after the last one written.
<1>7. ASSUME NEW m \in DownMessages, Adds(m), Len(down') = Len(down) + 1,
             down'[Len(down')] = m, \A l \in 1..Len(down) : down'[l] = down[l]
      PROVE  /\ Len(received'[n]) < d
             /\ \A j \in k+1..Len(down') :
                  down'[j].kind = "chunk" /\ down'[j].n = n => d < down'[j].data
  <2>1. m.kind = "chunk" => m.n \in Requests /\ m.data = produced[m.n] + 1
    BY <1>7, ServingRequest DEF Adds, StreamWrite, Reply, Message
  <2>2. received' = received
    BY <1>7 DEF Adds
  <2>3. CASE k \in 1..Len(down)
    <3>1. down'[k] = down[k] /\ \A j \in k+1..Len(down') : j = Len(down') \/
                                 (j \in k+1..Len(down) /\ down'[j] = down[j])
      BY <1>3, <1>7, <2>3
    <3>2. d <= produced[n] /\ produced[n] \in Nat /\ d \in Nat
      BY <1>2, <1>4, <2>3, <3>1
    <3>3. /\ Len(received[n]) < d
          /\ \A j \in k+1..Len(down) :
               down[j].kind = "chunk" /\ down[j].n = n => d < down[j].data
      BY <1>2, <2>3, <3>1 DEF Streams, Later
    <3>4. m.kind = "chunk" /\ m.n = n => d < m.data
      BY <2>1, <3>2
    <3>5. ASSUME NEW j \in k+1..Len(down'), down'[j].kind = "chunk", down'[j].n = n
          PROVE  d < down'[j].data
      BY <1>7, <3>1, <3>3, <3>4, <3>5
    <3> QED BY <2>2, <3>3, <3>5
  <2>4. CASE k = Len(down')
    <3>1. n \in Requests /\ d = produced[n] + 1
      BY <1>2, <1>7, <2>1, <2>4
    <3>2. Len(received[n]) <= produced[n] /\ Len(received[n]) \in Nat /\ produced[n] \in Nat
      BY <3>1, Counts DEF Streams, Whole
    <3>3. k+1..Len(down') = {}
      BY <1>3, <2>4
    <3> QED BY <2>2, <3>1, <3>2, <3>3
  <2> QED BY <1>3, <1>7, <2>3, <2>4
<1> QED BY <1>1, <1>5, <1>6, <1>7, Moved

LEMMA StreamsStep ==
  ASSUME Base, Base', Answers, Answers', Streams, [Next]_vars
  PROVE  Streams'
<1>1. \A n \in Requests : Whole(n)' /\ Coming(n)'
  BY WholeStep, ComingStep
<1>2. \A k \in 1..Len(down') : Follows(k)' /\ Later(k)'
  BY FollowsStep, LaterStep
<1> QED BY <1>1, <1>2 DEF Streams

LEMMA StreamsInvariant == Spec => [](Base /\ Answers /\ Streams)
<1>1. Init => Streams
  BY DEF Init, Streams, Whole, Coming, UpTo, Requests
<1>2. (Base /\ Answers) /\ (Base /\ Answers)' /\ Streams /\ [Next]_vars => Streams'
  BY StreamsStep
<1> QED BY <1>1, <1>2, AnswersInvariant, PTL DEF Spec

\* The callback of a stream is handed the chunks the service wrote, in order and
\* without a gap; a stream that ends well was handed over whole.
THEOREM StreamsAreWhole == Spec => []StreamWhole
<1>1. Base /\ Answers /\ Streams => StreamWhole
  <2>1. SUFFICES ASSUME Base, Streams, NEW n \in 1..current
                 PROVE  /\ received[n] = [i \in 1..Len(received[n]) |-> <<n, i>>]
                        /\ sent[n].api = "stream" /\ outcome[n] = "ok"
                             => Len(received[n]) = produced[n]
    BY DEF StreamWhole
  <2>2. n \in Requests /\ n <= current
    BY <2>1, DownIds, ConnectionAssumption DEF Requests
  <2>3. received[n] \in Seq(Requests \X Nat)
    BY <2>1, <2>2, Counts
  <2>4. received[n] = [i \in 1..Len(received[n]) |-> received[n][i]]
    <3>1. received[n] \in [1..Len(received[n]) -> Requests \X Nat]
      BY <2>3
    <3> QED BY <3>1
  <2> QED BY <2>1, <2>2, <2>4 DEF Streams, Whole
<1> QED BY <1>1, StreamsInvariant, PTL

-----------------------------------------------------------------------------
(* A lost place has a cause                                                *)

\* The reply of another request that a client trips over was left by one that
\* has a cause.
LEMMA MismatchCause ==
  ASSUME Base, InSync, [Next]_vars, NEW n \in Requests, outcome[n] = "pending",
         outcome'[n] = "mismatch"
  PROVE  \E k \in 1..n-1 : outcome[k] \in Abandoned
<1>1. n = current /\ Take /\ down[1].kind # "notify" /\ down[1].n # n /\ 1 \in 1..Len(down)
  BY Finished, TakesReply
<1>2. Explained(down[1].n) /\ down[1].n \in Requests /\ down[1].n \in 1..current
  BY <1>1, DownIds DEF InSync, Placed
<1>3. outcome[down[1].n] # "pending"
  BY <1>1, <1>2 DEF Base, Phase
<1>4. PICK k \in 1..down[1].n : outcome[k] \in Abandoned
  BY <1>2, <1>3 DEF Explained
<1>5. k \in 1..n-1
  BY <1>1, <1>2, <1>4 DEF Requests
<1> QED BY <1>4, <1>5

\* What gives a request its cause lasts; a request that is awaited is, or ends.
LEMMA ExplainedStep ==
  ASSUME Base, Answers, InSync, [Next]_vars, NEW n \in Requests, Explained(n)
  PROVE  Explained(n)' \/ (outcome[n] = "pending" /\ outcome'[n] \in {"ok", "error", "eof"})
<1>1. History
  BY HistoryStep DEF Answers
<1>2. ASSUME NEW k \in 1..n, outcome[k] \in Abandoned
      PROVE  Explained(n)'
  <2>1. k \in Requests
    BY ConnectionAssumption DEF Requests
  <2>2. outcome'[k] \in Abandoned
    BY <1>1, <1>2, <2>1 DEF History, Abandoned
  <2> QED BY <2>2 DEF Explained
<1>3. CASE outcome[n] = "pending" /\ outcome'[n] # "pending"
  <2>1. CASE outcome'[n] \in Abandoned
    <3>1. n \in 1..n
      BY DEF Requests
    <3> QED BY <2>1, <3>1 DEF Explained
  <2>2. CASE outcome'[n] = "mismatch"
    <3>1. PICK k \in 1..n-1 : outcome[k] \in Abandoned
      BY <1>3, <2>2, MismatchCause
    <3>2. k \in 1..n
      BY <3>1 DEF Requests
    <3> QED BY <1>2, <3>1, <3>2
  <2> QED BY <1>3, <2>1, <2>2, Finished DEF Abandoned
<1>4. CASE outcome'[n] = "pending"
  BY <1>4 DEF Explained
<1> QED BY <1>2, <1>3, <1>4 DEF Explained

\* What the service has not executed is not over for the client.
LEMMA UnservedExplained ==
  ASSUME Base, Answers, Answers', InSync, [Next]_vars, NEW n \in Requests, Explained(n),
         executed[n] = "no", serverUp
  PROVE  Explained(n)'
<1>1. ASSUME outcome[n] = "pending", outcome'[n] \in {"ok", "error", "eof"}
      PROVE  FALSE
  <2>1. outcome'[n] # "eof" /\ executed' = executed
    BY <1>1, Finished
  <2>2. executed'[n] = outcome'[n]
    BY <1>1, <2>1 DEF Answers, OwnReply
  <2> QED BY <1>1, <2>1, <2>2
<1> QED BY <1>1, ExplainedStep

LEMMA UpExplained ==
  ASSUME Base, Base', Answers, Answers', InSync, [Next]_vars, NEW k \in 1..Len(up'),
         up'[k].kind = "request", NEW n, n = up'[k].n
  PROVE  Explained(n)'
<1>1. up \in Seq(UpMessages) /\ up' \in Seq(UpMessages) /\ Len(up) \in Nat /\ Len(up') \in Nat
  BY DEF Base, TypeOK, UpMessages
<1>2. ASSUME NEW i \in 1..Len(up), up'[k] = up[i]
      PROVE  Explained(n)'
  <2>1. n \in Requests /\ Explained(n)
    BY <1>2, UpIds DEF InSync
  <2>2. executed[n] = "no"
    BY <1>2, <2>1 DEF Answers, Order, Requests
  <2>3. serverUp
    BY <1>1, <1>2 DEF Base, Phase
  <2> QED BY <2>1, <2>2, <2>3, UnservedExplained
<1>3. CASE up' = up
  BY <1>2, <1>3
<1>4. CASE up # <<>> /\ up' = Tail(up)
  <2>1. k + 1 \in 1..Len(up) /\ up'[k] = up[k + 1]
    BY <1>1, <1>4, TakesRequest
  <2> QED BY <1>2, <2>1
<1>5. CASE Send
  <2> DEFINE m == [kind |-> "request", n |-> current + 1, prop |-> NoProperty]
  <2>1. current + 1 \in Requests /\ current \in Nat
    BY <1>5, AddsSent, DownIds DEF Send
  <2>2. m \in UpMessages
    BY <2>1 DEF UpMessages, Requests
  <2>3. /\ Len(up') = Len(up) + 1
        /\ \A i \in 1..Len(up) : up'[i] = up[i]
        /\ up'[Len(up) + 1] = m
    BY <1>5, <2>2, AddsRequest DEF Send
  <2>4. CASE k \in 1..Len(up)
    BY <1>2, <2>3, <2>4
  <2>5. CASE k = Len(up) + 1
    <3>1. n = current + 1 /\ n \in 1..n
      BY <2>1, <2>3, <2>5
    <3>2. outcome'[n] \in {"oneway", "pending"}
      <4>1. outcome \in [Requests -> Outcomes]
        BY DEF Base, TypeOK
      <4>2. \E how \in {"oneway", "pending"} : outcome' = [outcome EXCEPT ![current + 1] = how]
        BY <1>5 DEF Send
      <4> QED BY <2>1, <3>1, <4>1, <4>2
    <3> QED BY <3>1, <3>2 DEF Explained, Abandoned
  <2> QED BY <1>1, <2>3, <2>4, <2>5
<1>6. ASSUME NEW p \in Properties, NEW kind \in {"subscribe", "unsubscribe"},
             up' = Append(up, [kind |-> kind, n |-> 0, prop |-> p])
      PROVE  Explained(n)'
  <2> DEFINE m == [kind |-> kind, n |-> 0, prop |-> p]
  <2>2. m \in UpMessages
    BY ConnectionAssumption DEF UpMessages
  <2>3. /\ Len(up') = Len(up) + 1
        /\ \A i \in 1..Len(up) : up'[i] = up[i]
        /\ up'[Len(up) + 1] = m
    BY <1>6, <2>2, AddsRequest
  <2>4. k \in 1..Len(up)
    BY <1>1, <2>3
  <2> QED BY <1>2, <2>3, <2>4
<1>7. CASE Crash
  BY <1>7 DEF Crash
<1> QED BY <1>3, <1>4, <1>5, <1>6, <1>7, SettingFrame DEF Next, Client, Handling, Receiving,
   Begin, SendToDead, RecvReply, RecvStream, Eof, TimedOut, SubscribeProperty, UnsubscribeProperty,
   Post, StartPoll, Poll, Move, ServeUnary, ServeStream, StreamWrite, StreamEnd,
   StreamReturn, StreamThrow, ServeSubscribe, ServeUnsubscribe, Takes, vars

LEMMA ServingExplained ==
  ASSUME Base, Base', Answers, Answers', InSync, [Next]_vars, NEW n, n = serving'.n,
         serverUp', serving' # None, ~serving'.ended
  PROVE  Explained(n)'
<1>1. CASE serving' = serving /\ serverUp
  <2>1. n \in Requests /\ Explained(n) /\ executed[n] = "no"
    BY <1>1, ServingRequest DEF InSync, Answers, Order
  <2> QED BY <1>1, <2>1, UnservedExplained
<1>2. CASE ServeStream
  <2>1. Head(up) = up[1] /\ 1 \in 1..Len(up) /\ up[1].kind = "request" /\ n = up[1].n
    BY <1>2, TakesRequest DEF ServeStream, Takes
  <2>2. Explained(n) /\ outcome' = outcome
    BY <1>2, <2>1 DEF InSync, ServeStream, historyVars
  <2> QED BY <2>2 DEF Explained
<1>3. serving' = serving \/ ServeStream \/ StreamEnd \/ StreamReturn \/ StreamThrow
  BY SettingFrame
     DEF Next, Client, Handling, Receiving, Begin, Send, SendToDead, RecvReply, RecvStream,
     Eof, TimedOut, SubscribeProperty, UnsubscribeProperty, Post, StartPoll, Poll, Move,
     ServeUnary, StreamWrite, ServeSubscribe, ServeUnsubscribe, Crash, vars,
     serverVars
<1>4. ~StreamEnd
  BY DEF StreamEnd, Base, TypeOK
<1> QED BY <1>1, <1>2, <1>3, <1>4, FlowStep DEF StreamReturn, StreamThrow

\* No handler of a stream throws once it has called end().
EndIsLast == "throw after end" \notin Faults

\* Who is answered now was waiting to be served.
LEMMA AnswerOrigin ==
  ASSUME Base, Answers, InSync, EndIsLast,
         NEW m \in DownMessages, Adds(m), m.kind # "notify"
  PROVE  m.n \in Requests /\ Explained(m.n) /\ executed[m.n] = "no"
<1>1. CASE ServeUnary /\ m.n = Head(up).n
  <2>1. Ready /\ Takes("request") /\ sent' = sent
    BY <1>1 DEF ServeUnary
  <2>2. Head(up) = up[1] /\ 1 \in 1..Len(up) /\ up[1].kind = "request"
    BY <2>1, TakesRequest DEF Takes
  <2>3. Head(up).n \in Requests /\ executed[Head(up).n] = "no"
    BY <2>1, OrderServed DEF Answers, Requests
  <2> QED BY <1>1, <2>2, <2>3 DEF InSync
<1>2. CASE (StreamThrow \/ StreamWrite \/ StreamEnd) /\ m.n = serving.n
  <2>1. serverUp /\ serving # None /\ ~serving.ended
    BY <1>2 DEF StreamThrow, StreamWrite, StreamEnd, EndIsLast
  <2> QED BY <1>2, <2>1, ServingRequest DEF InSync, Answers, Order
<1>3. \A kind, n, d : Reply(kind, n, d).n = n
  BY DEF Reply, Message
<1> QED BY <1>1, <1>2, <1>3 DEF Adds

LEMMA PlacedStep ==
  ASSUME Base, Base', Answers, Answers', InSync, [Next]_vars,
         EndIsLast, NEW k \in 1..Len(down')
  PROVE  Placed(k)'
<1>1. Flow
  BY FlowStep
<1>2. SUFFICES ASSUME down'[k].kind # "notify", NEW n, n = down'[k].n
               PROVE  /\ Explained(n)'
                      /\ \A j \in k+1..Len(down') :
                           down'[j].n = n => down'[k].kind = "chunk"
  BY DEF Placed, Explained
<1>3. Len(down) \in Nat /\ Len(down') \in Nat
  BY <1>1, Moved
\* Whose end or whose answer is read has nothing else under way.
<1>4. ASSUME n \in Requests, Explained(n)
      PROVE  Explained(n)'
  <2>1. ASSUME outcome[n] = "pending", outcome'[n] \in {"ok", "error", "eof"}
        PROVE  FALSE
    <3>1. down' # <<>>
      BY <1>3
    <3>2. Take /\ down[1].n = n /\ down[1].kind \in {"result", "end", "error"}
      BY <1>4, <2>1, <3>1, Finished
    <3>3. 1 \in 1..Len(down) /\ k + 1 \in 1+1..Len(down) /\ down'[k] = down[k + 1]
      BY <1>3, <3>2, TakesReply
    <3> QED BY <1>2, <3>2, <3>3 DEF InSync, Placed
  <2> QED BY <1>4, <2>1, ExplainedStep
<1>5. CASE \A l \in 1..Len(down') : l \in 1..Len(down) /\ down'[l] = down[l]
  <2>1. k \in 1..Len(down) /\ down'[k] = down[k]
    BY <1>5
  <2>2. Explained(n) /\ n \in Requests
    BY <1>2, <2>1, DownIds DEF InSync, Placed
  <2>3. \A j \in k+1..Len(down') : j \in k+1..Len(down) /\ down'[j] = down[j]
    BY <1>3, <1>5
  <2> QED BY <1>2, <1>4, <2>1, <2>2, <2>3 DEF InSync, Placed
<1>6. CASE /\ Reads \/ Skips
           /\ Len(down') = Len(down) - 1
           /\ \A l \in 1..Len(down') : down'[l] = down[l + 1]
  <2>1. k + 1 \in 1..Len(down) /\ down'[k] = down[k + 1]
    BY <1>3, <1>6
  <2>2. \A j \in k+1..Len(down') : j + 1 \in (k+1)+1..Len(down) /\ down'[j] = down[j + 1]
    BY <1>3, <1>6
  <2>3. Explained(n) /\ n \in Requests
    BY <1>2, <2>1, DownIds DEF InSync, Placed
  <2> QED BY <1>2, <1>4, <2>1, <2>2, <2>3 DEF InSync, Placed
<1>7. ASSUME NEW m \in DownMessages, Adds(m), Len(down') = Len(down) + 1,
             down'[Len(down')] = m, \A l \in 1..Len(down) : down'[l] = down[l]
      PROVE  /\ Explained(n)'
             /\ \A j \in k+1..Len(down') :
                  down'[j].n = n => down'[k].kind = "chunk"
  <2>1. outcome' = outcome
    BY <1>7 DEF Adds
  <2>2. CASE k \in 1..Len(down)
    <3>1. Explained(n) /\ n \in Requests /\ down'[k] = down[k]
      BY <1>2, <1>7, <2>2, DownIds DEF InSync, Placed
    <3>2. ASSUME NEW j \in k+1..Len(down'), down'[j].n = n, down'[k].kind # "chunk"
          PROVE  FALSE
      <4>1. CASE j \in k+1..Len(down) /\ down'[j] = down[j]
        BY <1>2, <2>2, <3>1, <3>2, <4>1 DEF InSync, Placed
      <4>2. CASE j = Len(down')
        <5>1. m.n = n
          BY <1>7, <3>2, <4>2
        <5>2. m.kind # "notify"
          <6>1. m.kind = "notify" => m.n = 0
            BY <1>7 DEF Adds, Reply, Message
          <6>2. n # 0
            BY <3>1 DEF Requests
          <6> QED BY <5>1, <6>1, <6>2
        <5>3. executed[n] = "no"
          BY <1>7, <5>1, <5>2, AnswerOrigin
        <5>4. down[k].kind \in {"result", "end", "error"}
          BY <1>2, <2>2, <3>1, <3>2, DownIds DEF DownMessages
        <5> QED BY <1>2, <2>2, <3>1, <5>3, <5>4 DEF Answers, Replies, Reports
      <4> QED BY <1>3, <1>7, <2>2, <3>2, <4>1, <4>2
    <3> QED BY <2>1, <3>1, <3>2 DEF Explained
  <2>3. CASE k = Len(down')
    <3>1. Explained(n)
      BY <1>2, <1>7, <2>3, AnswerOrigin
    <3> QED BY <1>3, <2>1, <2>3, <3>1 DEF Explained
  <2> QED BY <1>3, <1>7, <2>2, <2>3
<1> QED BY <1>1, <1>5, <1>6, <1>7, Moved

LEMMA CauseStep ==
  ASSUME Base, Answers, InSync, [Next]_vars
  PROVE  StaysInSync'
<1>1. SUFFICES ASSUME NEW n \in Requests, outcome'[n] = "mismatch"
               PROVE  \E k \in 1..n-1 : outcome'[k] \in Abandoned
  BY DEF StaysInSync, Abandoned
<1>2. \E k \in 1..n-1 : outcome[k] \in Abandoned
  <2>1. CASE outcome[n] = "mismatch"
    BY <2>1 DEF InSync, StaysInSync, Abandoned
  <2>2. CASE outcome[n] = "pending"
    BY <1>1, <2>2, MismatchCause
  <2> QED BY <1>1, <2>1, <2>2, HistoryStep DEF Answers, History
<1>3. PICK k \in 1..n-1 : outcome[k] \in Abandoned
  BY <1>2
<1>4. k \in Requests
  BY ConnectionAssumption DEF Requests
<1>5. outcome'[k] \in Abandoned
  BY <1>3, <1>4, HistoryStep DEF Answers, History, Abandoned
<1> QED BY <1>5

LEMMA InSyncStep ==
  ASSUME Base, Base', Answers, Answers', InSync, [Next]_vars, EndIsLast
  PROVE  InSync'
<1>1. \A i \in 1..Len(up') : up'[i].kind = "request" => Explained(up[i].n)'
  BY UpExplained DEF Explained
<1>2. serverUp' /\ serving' # None /\ ~serving'.ended => Explained(serving.n)'
  BY ServingExplained DEF Explained
<1>3. \A i \in 1..Len(down') : Placed(i)'
  BY PlacedStep
<1>4. StaysInSync'
  BY CauseStep
<1> QED BY <1>1, <1>2, <1>3, <1>4 DEF InSync

\* Where no handler throws after end(), a sequence id mismatch has a cause: an
\* earlier one-way call, or one that was given up before its answer was read.
THEOREM MismatchHasCause ==
  ASSUME EndIsLast
  PROVE  Spec => []StaysInSync
<1>1. Init => InSync
  BY DEF Init, InSync, StaysInSync, Requests
<1>2. (Base /\ Answers) /\ (Base /\ Answers)' /\ InSync /\ [Next]_vars => InSync'
  BY InSyncStep
<1>3. InSync => StaysInSync
  BY DEF InSync
<1> QED BY <1>1, <1>2, <1>3, AnswersInvariant, PTL DEF Spec
-----------------------------------------------------------------------------
(* Updates of the properties subscribed to                                 *)

LEMMA UnbrokenStep ==
  ASSUME Base, Base', Answers, [Next]_vars, Unbroken'
  PROVE  Unbroken
<1>1. serverUp /\ History
  BY FlowStep, HistoryStep DEF Answers, Unbroken
<1> QED BY <1>1 DEF Unbroken, History

\* A property is awaited from when the service takes the subscription, or was.
LEMMA AwaitsStep ==
  ASSUME Base, Base', [Next]_vars, serverUp', NEW p \in Properties, Awaits(p)'
  PROVE  \/ Awaits(p) /\ base' = base
         \/ /\ ServeSubscribe /\ value'[p] = base'[p]
         \/ /\ ServeSubscribe /\ Awaits(p) /\ base'[p] = base[p]
<1>1. up \in Seq(UpMessages) /\ up' \in Seq(UpMessages) /\ Len(up) \in Nat /\ Len(up') \in Nat
  BY DEF Base, TypeOK, UpMessages
<1>2. CASE up' = up /\ callbacks' \subseteq callbacks /\ subs' = subs /\ base' = base
  BY <1>2 DEF Awaits
<1>3. ASSUME NEW m \in UpMessages, up' = Append(up, m), subs' = subs,
             \/ callbacks' \subseteq callbacks
             \/ \E q \in Properties : IsSubscribe(m, q) /\ callbacks' = callbacks \cup {q}
      PROVE  Awaits(p)
  <2>1. /\ Len(up') = Len(up) + 1
        /\ \A i \in 1..Len(up) : i \in 1..Len(up') /\ up'[i] = up[i]
        /\ Len(up') \in 1..Len(up') /\ up'[Len(up')] = m
    BY <1>1, <1>3, AddsRequest
  <2>2. p \in callbacks
    BY <1>3, <2>1 DEF Awaits, IsSubscribe
  <2> QED BY <1>3, <2>1, <2>2 DEF Awaits
<1>4. CASE /\ up # <<>> /\ up' = Tail(up) /\ Head(up).kind # "subscribe"
           /\ callbacks' = callbacks /\ subs' \subseteq subs /\ base' = base
  <2>1. /\ \A i \in 2..Len(up) : i - 1 \in 1..Len(up') /\ up'[i - 1] = up[i]
        /\ Head(up) = up[1]
    BY <1>1, <1>4, TakesRequest
  <2>2. \A i \in 1..Len(up) : i = 1 \/ i \in 2..Len(up)
    BY <1>1
  <2> QED BY <1>4, <2>1, <2>2 DEF Awaits, IsSubscribe
<1>5. CASE ServeSubscribe
  <2>1. /\ \A i \in 2..Len(up) : i - 1 \in 1..Len(up') /\ up'[i - 1] = up[i]
        /\ Head(up) = up[1] /\ up[1].prop \in Properties
    BY <1>1, <1>5, TakesRequest, RequestShapes DEF ServeSubscribe, Takes
  <2>2. \A i \in 1..Len(up) : i = 1 \/ i \in 2..Len(up)
    BY <1>1
  <2>3. CASE up[1].prop = p
    <3>1. base'[p] = value[p] /\ value' = value
      BY <1>5, <2>1, <2>3 DEF ServeSubscribe, Base, TypeOK
    <3> QED BY <1>5, <3>1
  <2>4. CASE up[1].prop # p
    <3>1. base'[p] = base[p] /\ callbacks' = callbacks /\ subs' \subseteq subs \cup {up[1].prop}
      BY <1>5, <2>1, <2>4 DEF ServeSubscribe, Base, TypeOK, clientVars
    <3>2. Awaits(p)
      BY <2>1, <2>2, <2>4, <3>1 DEF Awaits, IsSubscribe
    <3> QED BY <1>5, <3>1, <3>2
  <2> QED BY <2>3, <2>4
<1>6. CASE Send
  <2> DEFINE m == [kind |-> "request", n |-> current + 1, prop |-> NoProperty]
  <2>1. m \in UpMessages
    BY <1>6, AddsSent DEF Send, UpMessages, Requests
  <2>2. up' = Append(up, m) /\ UNCHANGED <<subs, callbacks, base>>
    BY <1>6 DEF Send, serverVars
  <2> QED BY <1>3, <2>1, <2>2
<1>7. ASSUME NEW q \in Properties, SubscribeProperty(q) \/ UnsubscribeProperty(q)
      PROVE  Awaits(p) /\ base' = base
  <2>1. serverUp
    BY FlowStep
  <2>2. PICK kind \in {"subscribe", "unsubscribe"} :
          /\ up' = Append(up, [kind |-> kind, n |-> 0, prop |-> q])
          /\ kind = "subscribe" => callbacks' = callbacks \cup {q}
          /\ kind = "unsubscribe" => callbacks' \subseteq callbacks
    BY <1>7, <2>1 DEF SubscribeProperty, UnsubscribeProperty, Post
  <2> DEFINE m == [kind |-> kind, n |-> 0, prop |-> q]
  <2>3. m \in UpMessages /\ (kind = "subscribe" => IsSubscribe(m, q))
    BY ConnectionAssumption DEF UpMessages, IsSubscribe
  <2>4. UNCHANGED <<subs, base>>
    BY <1>7 DEF SubscribeProperty, UnsubscribeProperty, Post, serverVars, historyVars
  <2> QED BY <1>3, <2>2, <2>3, <2>4
<1>8. ~Crash
  BY DEF Crash
<1>9. ServeUnsubscribe => up # <<>> /\ up' = Tail(up) /\ Head(up).kind # "subscribe"
                            /\ callbacks' = callbacks /\ subs' \subseteq subs /\ base' = base
  BY DEF ServeUnsubscribe, Takes, clientVars, historyVars
<1>10. ServeUnary \/ ServeStream => up # <<>> /\ up' = Tail(up) /\ Head(up).kind # "subscribe"
                            /\ callbacks' = callbacks /\ subs' \subseteq subs /\ base' = base
  BY DEF ServeUnary, ServeStream, Takes, clientVars, serverVars, historyVars
<1>11. CASE Client
  <2>1. CASE up' = up /\ callbacks' \subseteq callbacks /\ subs' = subs /\ base' = base
    BY <1>2, <2>1
  <2> QED BY <1>6, <1>7, <1>11, <2>1, FlowStep DEF Client, Receiving, Begin, SendToDead,
     RecvReply,
     RecvStream, Eof, TimedOut, StartPoll, Poll, Move, serverVars, historyVars
<1>12. CASE Setting \/ UNCHANGED vars \/ StreamWrite \/ StreamEnd
            \/ StreamReturn \/ StreamThrow
  <2>1. up' = up /\ callbacks' \subseteq callbacks /\ subs' = subs /\ base' = base
    BY <1>12, SettingFrame DEF vars, StreamWrite, StreamEnd, StreamReturn, StreamThrow,
       clientVars, serverVars, historyVars
  <2> QED BY <1>2, <2>1
<1> QED BY <1>4, <1>5, <1>8, <1>9, <1>10, <1>11, <1>12 DEF Next, Handling

LEMMA CurrentAdded ==
  ASSUME Base, NEW p \in Properties, Current(p), NEW m \in DownMessages,
         down' = Append(down, m), ~IsNotify(m, p),
         value'[p] = value[p], last'[p] = last[p], base'[p] = base[p],
         Pending(p) => Pending(p)'
  PROVE  Current(p)'
<1>1. /\ Len(down) \in Nat /\ Len(down') = Len(down) + 1
      /\ \A i \in 1..Len(down) : i \in 1..Len(down') /\ down'[i] = down[i]
      /\ down'[Len(down')] = m
  BY AddsReply
<1>2. \A i \in 1..Len(down') : i \in 1..Len(down) \/ i = Len(down')
  BY <1>1
<1>3. CASE last[p] = value[p] /\ \A i \in 1..Len(down) : ~IsNotify(down[i], p)
  BY <1>1, <1>2, <1>3 DEF Current, IsNotify
<1>4. ASSUME NEW i \in 1..Len(down), IsNotify(down[i], p), down[i].data = value[p],
             \A j \in i+1..Len(down) : ~IsNotify(down[j], p)
      PROVE  Current(p)'
  <2>1. ASSUME NEW j \in i+1..Len(down')
        PROVE  ~IsNotify(down'[j], p)
    <3>1. (j \in i+1..Len(down) /\ down'[j] = down[j]) \/ j = Len(down')
      BY <1>1
    <3> QED BY <1>1, <1>4, <3>1 DEF IsNotify
  <2>2. i \in 1..Len(down') /\ IsNotify(down'[i], p) /\ down'[i].data = value'[p]
    BY <1>1, <1>4 DEF IsNotify
  <2> QED BY <2>1, <2>2 DEF Current, IsNotify
<1> QED BY <1>3, <1>4 DEF Current

\* A callback is told of the value that reaches it.
LEMMA CurrentTaken ==
  ASSUME Base, NEW p \in Properties, Current(p), Take,
         last'[p] = IF IsNotify(down[1], p) THEN down[1].data ELSE last[p],
         value'[p] = value[p], base'[p] = base[p], setting' = setting
  PROVE  Current(p)'
<1>1. /\ Len(down) \in Nat \ {0} /\ Len(down') = Len(down) - 1
      /\ \A i \in 1..Len(down) - 1 : down'[i] = down[i + 1]
  BY TakesReply
<1>2. \A i \in 1..Len(down') : i + 1 \in 1+1..Len(down) /\ i + 1 \in 1..Len(down)
                             /\ down'[i] = down[i + 1] /\ 1 \in 1..Len(down)
  BY <1>1
<1>3. CASE last[p] = value[p] /\ \A i \in 1..Len(down) : ~IsNotify(down[i], p)
  <2>1. ~IsNotify(down[1], p)
    BY <1>1, <1>3
  <2> QED BY <1>2, <1>3, <2>1 DEF Current, IsNotify
<1>4. CASE /\ IsNotify(down[1], p) /\ down[1].data = value[p]
           /\ \A j \in 1+1..Len(down) : ~IsNotify(down[j], p)
  BY <1>2, <1>4 DEF Current, IsNotify
<1>5. ASSUME NEW i \in 1..Len(down), i # 1, IsNotify(down[i], p), down[i].data = value[p],
             \A j \in i+1..Len(down) : ~IsNotify(down[j], p)
      PROVE  Current(p)'
  <2>1. i - 1 \in 1..Len(down') /\ down'[i - 1] = down[i]
    BY <1>1, <1>5
  <2>2. \A j \in (i-1)+1..Len(down') : j + 1 \in i+1..Len(down) /\ down'[j] = down[j + 1]
    BY <1>1, <1>5
  <2> QED BY <1>5, <2>1, <2>2 DEF Current, IsNotify
<1> QED BY <1>3, <1>4, <1>5 DEF Current, Pending

\* What a step of a setter makes of the setters.
LEMMA SetterSets ==
  ASSUME Base, NEW t \in Setters, NEW q \in Properties, SetProperty(t, q)
  PROVE  /\ setting[t].prop \notin Properties
         /\ setting'[t].prop = q /\ setting'[t].data = value'[q]
         /\ \A other \in Setters \ {t} : setting'[other] = setting[other]
         /\ \A p \in Properties \ {q} : value'[p] = value[p] /\ (p \in raced' <=> p \in raced)
         /\ q \notin raced' => \A other \in Setters : setting[other].prop # q
         /\ UNCHANGED <<down, last, base>>
BY ConnectionAssumption DEF SetProperty, Base, TypeOK, Resting

LEMMA SetterCopies ==
  ASSUME Base, NEW t \in Setters, CopyTargets(t)
  PROVE  /\ \/ setting'[t].prop = setting[t].prop /\ setting'[t].data = setting[t].data
            \/ setting'[t].prop \notin Properties /\ setting[t].prop \notin subs
         /\ \A other \in Setters \ {t} : setting'[other] = setting[other]
         /\ UNCHANGED <<down, last, base, value, raced>>
<1>1. setting \in [Setters -> [prop : Properties \cup {NoProperty}, data : Nat, told : BOOLEAN]]
  BY DEF Base, TypeOK
<1>2. UNCHANGED <<down, last, base, value, raced>>
  BY DEF CopyTargets, historyVars
<1>3. setting' = [setting EXCEPT ![t] = IF setting[t].prop \in subs
                                        THEN [setting[t] EXCEPT !.told = TRUE] ELSE Resting]
  BY <1>1 DEF CopyTargets
<1> QED BY <1>1, <1>2, <1>3, ConnectionAssumption DEF Resting

LEMMA SetterSends ==
  ASSUME Base, NEW t \in Setters, SendNotify(t)
  PROVE  /\ setting[t].prop \in Properties /\ setting'[t].prop \notin Properties
         /\ \A other \in Setters \ {t} : setting'[other] = setting[other]
         /\ UNCHANGED <<last, base, value, raced>>
BY ConnectionAssumption DEF SendNotify, Base, TypeOK, Resting, historyVars

LEMMA AloneStep ==
  ASSUME Base, Base', Alone, [Next]_vars
  PROVE  Alone'
<1>1. CASE UNCHANGED <<value, setting, raced>>
  BY <1>1 DEF Alone
<1>2. ASSUME NEW t \in Setters, NEW q \in Properties, SetProperty(t, q)
      PROVE  Alone'
  <2> SUFFICES ASSUME NEW p \in Properties \ raced', NEW s \in Setters, setting'[s].prop = p
               PROVE  /\ setting'[s].data = value'[p]
                      /\ \A other \in Setters : setting'[other].prop = p => other = s
    BY DEF Alone
  <2>1. CASE p = q
    BY <1>2, <2>1, SetterSets
  <2>2. CASE p # q
    BY <1>2, <2>2, SetterSets DEF Alone
  <2> QED BY <2>1, <2>2
<1>3. ASSUME NEW t \in Setters, CopyTargets(t)
      PROVE  Alone'
  BY <1>3, SetterCopies DEF Alone
<1>4. ASSUME NEW t \in Setters, SendNotify(t)
      PROVE  Alone'
  BY <1>4, SetterSends DEF Alone
<1>5. CASE Crash
  <2>1. \A t \in Setters : setting'[t].prop \notin Properties
    BY <1>5, ConnectionAssumption DEF Crash, Resting
  <2> QED BY <2>1 DEF Alone
<1> QED BY <1>1, <1>2, <1>3, <1>4, <1>5 DEF Next, Client, Handling, Setting, Receiving, Begin,
   Send, SendToDead, RecvReply, RecvStream, Eof, TimedOut, SubscribeProperty,
   UnsubscribeProperty, Post, StartPoll, Poll, Move, ServeUnary, ServeStream, StreamWrite,
   StreamEnd, StreamReturn, StreamThrow, ServeSubscribe, ServeUnsubscribe, vars, clientVars,
   serverVars, historyVars

\* A setter that is alone at a property sends what the property has become.
LEMMA CurrentSetting ==
  ASSUME Base, Base', Alone, Setting, NEW p \in Properties, p \notin raced, p \notin raced',
         Awaits(p), Current(p)
  PROVE  Current(p)'
<1>1. ASSUME NEW t \in Setters, NEW q \in Properties, SetProperty(t, q)
      PROVE  Current(p)'
  <2>1. CASE q = p
    BY <1>1, <2>1, SetterSets DEF Current, Pending
  <2>2. CASE q # p
    <3>1. Pending(p) => Pending(p)'
      BY <1>1, <2>2, SetterSets DEF Pending
    <3> QED BY <1>1, <2>2, <3>1, SetterSets DEF Current
  <2> QED BY <2>1, <2>2
<1>2. ASSUME NEW t \in Setters, CopyTargets(t)
      PROVE  Current(p)'
  <2>1. Pending(p) => Pending(p)'
    BY <1>2, SetterCopies DEF Pending, Awaits
  <2> QED BY <1>2, <2>1, SetterCopies DEF Current
<1>3. ASSUME NEW t \in Setters, SendNotify(t)
      PROVE  Current(p)'
  <2> DEFINE q == setting[t].prop
             m == Notify(q, setting[t].data)
  <2>1. m \in DownMessages /\ down' = Append(down, m) /\ q \in Properties
    BY <1>3, SendTells, SetterSends DEF SendNotify
  <2>2. IsNotify(m, q) /\ m.data = setting[t].data /\ (q # p => ~IsNotify(m, p))
    BY DEF Notify, Message, IsNotify
  <2> HIDE DEF m
  <2>3. UNCHANGED <<last, base, value>>
    BY <1>3, SetterSends
  <2>4. CASE q = p
    <3>1. m.data = value'[p]
      BY <2>2, <2>3, <2>4 DEF Alone
    <3>2. Len(down) \in Nat /\ Len(down') = Len(down) + 1 /\ down'[Len(down')] = m
      BY <2>1, AddsReply
    <3>3. Len(down') \in 1..Len(down') /\ Len(down')+1..Len(down') = {}
      BY <3>2
    <3> QED BY <2>2, <2>4, <3>1, <3>2, <3>3 DEF Current
  <2>5. CASE q # p
    <3>1. Pending(p) => Pending(p)'
      BY <1>3, <2>5, SetterSends DEF Pending
    <3> QED BY <2>1, <2>2, <2>3, <2>5, <3>1, CurrentAdded
  <2> QED BY <2>4, <2>5
<1> QED BY <1>1, <1>2, <1>3 DEF Setting

\* The last update stays the last one under way until it reaches the callback.
LEMMA CurrentStep ==
  ASSUME Base, Base', Alone, [Next]_vars, Unbroken', NEW p \in Properties, p \notin raced,
         p \notin raced', Awaits(p), Current(p), base'[p] = base[p]
  PROVE  Current(p)'
<1> DEFINE m1 == down[1]
<1>1. Take => /\ Head(down) = m1 /\ m1 \in DownMessages /\ 1 \in 1..Len(down)
              /\ m1.kind = "notify" => m1.n = 0 /\ m1.prop \in Properties
  BY TakesReply DEF Base, Shapes, DownShapes
<1>2. Dispatch(m1) /\ Take => last'[p] = IF m1.prop = p THEN m1.data ELSE last[p]
  BY <1>1 DEF Dispatch, Awaits, Base, TypeOK, IsNotify
<1>3. CASE UNCHANGED <<down, last, value, setting>>
  BY <1>3 DEF Current, Pending
<1>4. CASE Take /\ UNCHANGED <<value, setting>> /\ m1.kind = "notify" /\ Dispatch(m1)
  BY <1>2, <1>4, CurrentTaken DEF IsNotify
<1>5. CASE Take /\ UNCHANGED <<value, setting>> /\ m1.kind # "notify" /\ last' = last
  BY <1>5, CurrentTaken DEF IsNotify
<1>6. CASE RecvReply \/ (Poll /\ Take)
  BY <1>1, <1>4, <1>5, <1>6 DEF RecvReply, Poll, serverVars
<1>7. CASE RecvStream
  <2>1. m1.kind # "notify"
    <3>1. SUFFICES ASSUME m1.kind = "notify" PROVE FALSE
      OBVIOUS
    <3>2. current \in Requests /\ current \in 0..MaxRequests /\ current # 0 /\ 0 \in 0..MaxRequests
      <4>1. pc = "streaming" /\ Take
        BY <1>7 DEF RecvStream
      <4>2. current >= 1 /\ current \in Nat /\ current <= MaxRequests
        BY <4>1 DEF Base, TypeOK, Phase, current
      <4> QED BY <4>2, ConnectionAssumption DEF Requests
    <3>3. m1.n = 0
      BY <1>1, <1>7, <3>1 DEF RecvStream
    <3>4. Seq32(m1.n) # Seq32(current)
      BY <3>2, <3>3, SeqsDiffer
    <3>5. Finish("notify")
      BY <1>1, <1>7, <3>1, <3>4 DEF RecvStream
    <3>6. outcome'[current] = "notify"
      BY <3>2, <3>5 DEF Finish, Base, TypeOK
    <3> QED BY <3>2, <3>6 DEF Unbroken
  <2> QED BY <1>5, <1>7, <2>1 DEF RecvStream, serverVars
<1>8. ASSUME NEW m \in DownMessages, down' = Append(down, m), m.kind # "notify",
             UNCHANGED <<last, value, setting>>
      PROVE  Current(p)'
  BY <1>8, CurrentAdded DEF IsNotify, Pending
<1>9. CASE ServeUnary
  <2>1. PICK r \in {"ok", "error"} :
          down' = Append(down, Reply(IF r = "ok" THEN "result" ELSE "error", Head(up).n, 0))
    BY <1>9 DEF ServeUnary
  <2> DEFINE m == Reply(IF r = "ok" THEN "result" ELSE "error", Head(up).n, 0)
  <2>2. m \in DownMessages
    BY <1>9, <2>1, RequestShapes, ReplyShapes DEF ServeUnary, Takes
  <2>3. m.kind # "notify"
    BY DEF Reply, Message
  <2> QED BY <1>8, <1>9, <2>1, <2>2, <2>3 DEF ServeUnary, serverVars
<1>10. CASE StreamWrite
  <2>1. serving.n \in 1..current /\ produced[serving.n] + 1 \in Nat
    BY <1>10, ServingRequest, Counts DEF StreamWrite
  <2> DEFINE m == Reply("chunk", serving.n, produced[serving.n] + 1)
  <2>2. m \in DownMessages
    BY <1>10, <2>1, ReplyShapes DEF StreamWrite
  <2>3. m.kind # "notify"
    BY DEF Reply, Message
  <2> QED BY <1>8, <1>10, <2>2, <2>3 DEF StreamWrite, serverVars
<1>11. CASE StreamEnd \/ StreamThrow
  <2>1. PICK kind \in {"end", "error"} : down' = Append(down, Reply(kind, serving.n, 0))
    BY <1>11 DEF StreamEnd, StreamThrow
  <2> DEFINE m == Reply(kind, serving.n, 0)
  <2>2. m \in DownMessages
    BY <1>11, <2>1, ServingRequest, ReplyShapes DEF StreamEnd, StreamThrow
  <2>3. m.kind # "notify"
    BY DEF Reply, Message
  <2> QED BY <1>8, <1>11, <2>1, <2>2, <2>3 DEF StreamEnd, StreamThrow, historyVars
<1>12. CASE Setting
  BY <1>12, CurrentSetting
<1>13. ~Crash
  BY DEF Crash, Unbroken
<1> QED BY <1>3, <1>6, <1>7, <1>9, <1>10, <1>11, <1>12, <1>13 DEF Next, Client, Handling,
   Receiving, Begin, Send, SendToDead, Eof, TimedOut, SubscribeProperty,
   UnsubscribeProperty,
   Post, StartPoll, Poll, Move, ServeStream, StreamReturn, ServeSubscribe, ServeUnsubscribe,
   vars, clientVars, serverVars, historyVars

LEMMA UpdatesStep ==
  ASSUME Base, Base', Answers, Updates, [Next]_vars
  PROVE  Updates'
<1>0. Alone /\ Alone'
  BY AloneStep DEF Updates
<1> SUFFICES ASSUME Unbroken', NEW p \in Properties, p \notin raced', Awaits(p)'
             PROVE  Current(p)'
  BY <1>0 DEF Updates
<1>1. Unbroken /\ serverUp'
  BY UnbrokenStep DEF Unbroken
<1>2. CASE p \in raced
  <2>1. PICK t \in Setters, q \in Properties : SetProperty(t, q)
    BY <1>2 DEF Next, Client, Handling, Setting, Receiving, Begin, Send, SendToDead, RecvReply,
       RecvStream, Eof, TimedOut, SubscribeProperty, UnsubscribeProperty, Post, StartPoll,
       Poll, Move, ServeUnary, ServeStream, StreamWrite, StreamEnd, StreamReturn, StreamThrow,
       ServeSubscribe, ServeUnsubscribe, CopyTargets, SendNotify, Crash, vars, historyVars
  <2>2. q = p
    BY <1>2, <2>1, SetterSets
  <2> QED BY <2>1, <2>2, SetterSets DEF Current, Pending
<1>3. CASE p \notin raced /\ Awaits(p) /\ base'[p] = base[p]
  BY <1>0, <1>1, <1>3, CurrentStep DEF Updates
<1>4. CASE value'[p] = base'[p]
  BY <1>4 DEF Current
<1> QED BY <1>1, <1>2, <1>3, <1>4, AwaitsStep

\* No update of a property is lost: when nothing is under way and no setter is at
\* work, a callback that is registered at both ends was last called with the
\* current value, if one thread alone set the property last, and unless the value
\* is the one the service took the subscription with, or a stream failed on an
\* update.
THEOREM UpdatesArrive == Spec => []UpToDate
<1>1. Init => Updates
  BY ConnectionAssumption DEF Init, Updates, Awaits, Alone, Resting
<1>2. (Base /\ Answers) /\ (Base /\ Answers)' /\ Updates /\ [Next]_vars => Updates'
  BY UpdatesStep
<1>3. Base /\ Updates => UpToDate
  <2> SUFFICES ASSUME Base, Updates, up = <<>>, down = <<>>, Unbroken,
                      \A t \in Setters : setting[t] = Resting,
                      NEW p \in (callbacks \cap subs) \ raced
               PROVE  last[p] = value[p] \/ value[p] = base[p]
    BY DEF UpToDate, Unbroken
  <2>1. Len(up) = 0 /\ Len(down) = 0 /\ p \in Properties
    BY DEF Base, TypeOK
  <2>2. Awaits(p)
    BY <2>1 DEF Awaits
  <2>3. Current(p)
    BY <2>1, <2>2 DEF Updates
  <2>4. ~Pending(p)
    BY <2>1, ConnectionAssumption DEF Pending, Resting
  <2> QED BY <2>1, <2>3, <2>4 DEF Current
<1> QED BY <1>1, <1>2, <1>3, AnswersInvariant, PTL DEF Spec

-----------------------------------------------------------------------------
(* The version a connection speaks                                          *)

\* The highest common version, where it is known.
LEMMA BestIs ==
  ASSUME NEW mine, NEW v \in Common(mine), mine \subseteq Int,
         \A w \in Common(mine) : w <= v
  PROVE  Best(mine) = v
<1>1. Best(mine) = CHOOSE x \in Common(mine) : \A w \in Common(mine) : w <= x
  BY DEF Best
<1>2. PICK x \in Common(mine) : x = Best(mine) /\ \A w \in Common(mine) : w <= x
  BY <1>1
<1>3. x <= v /\ v <= x /\ x \in Int /\ v \in Int
  BY <1>2 DEF Common
<1> QED BY <1>2, <1>3

\* Whatever range of versions a service offers, a C++ or Python client speaks the
\* highest version in the ranges of both, gives up only when there is none, and
\* sends init_ack only to a service that knows it (init_handshake of ServiceProcess
\* and of ServiceConnection, ServiceConnection._init_handshake).
THEOREM VersionsAgree ==
  ASSUME offer \in Int \X Int, offer[1] <= offer[2]
  PROVE  HandshakeAgrees
<1>1. PICK lo, hi : offer = <<lo, hi>> /\ lo \in Int /\ hi \in Int /\ lo <= hi
  <2>1. PICK lo \in Int, hi \in Int : offer = <<lo, hi>>
    OBVIOUS
  <2> QED BY <2>1
<1>2. Negotiate(lo, hi) = Best(FirstVersion..CurrentVersion)
  <2> DEFINE mine == FirstVersion..CurrentVersion
  <2>1. mine = {256, 257} /\ mine \subseteq Int
    BY DEF FirstVersion, CurrentVersion
  <2>2. CASE hi < FirstVersion \/ lo > CurrentVersion
    <3>1. Common(mine) = {}
      BY <1>1, <2>1, <2>2 DEF Common, FirstVersion, CurrentVersion
    <3> QED BY <2>2, <3>1 DEF Best, Negotiate
  <2>3. CASE lo <= CurrentVersion /\ hi >= CurrentVersion
    <3>1. 257 \in Common(mine) /\ \A w \in Common(mine) : w <= 257
      BY <1>1, <2>1, <2>3 DEF Common, CurrentVersion
    <3>2. Best(mine) = 257
      BY <2>1, <3>1, BestIs
    <3>3. ~(hi < FirstVersion \/ lo > CurrentVersion) /\ ~(hi < CurrentVersion)
      BY <1>1, <2>3 DEF FirstVersion, CurrentVersion
    <3> QED BY <3>2, <3>3 DEF Negotiate, CurrentVersion
  <2>4. CASE hi = FirstVersion /\ lo <= CurrentVersion
    <3>1. 256 \in Common(mine) /\ \A w \in Common(mine) : w <= 256
      BY <1>1, <2>1, <2>4 DEF Common, FirstVersion
    <3>2. Best(mine) = 256
      BY <2>1, <3>1, BestIs
    <3>3. ~(hi < FirstVersion \/ lo > CurrentVersion) /\ hi < CurrentVersion /\ hi = 256
      BY <1>1, <2>4 DEF FirstVersion, CurrentVersion
    <3> QED BY <3>2, <3>3 DEF Negotiate
  <2>5. hi < FirstVersion \/ hi = FirstVersion \/ hi >= CurrentVersion
    BY <1>1 DEF FirstVersion, CurrentVersion
  <2>6. lo <= CurrentVersion \/ lo > CurrentVersion
    BY <1>1 DEF CurrentVersion
  <2> QED BY <2>2, <2>3, <2>4, <2>5, <2>6
<1>3. PythonNegotiate(lo, hi) = Best({FirstVersion})
  <2>1. CASE 256 < lo \/ 256 > hi
    <3>1. Common({FirstVersion}) = {}
      BY <1>1, <2>1 DEF Common, FirstVersion
    <3> QED BY <2>1, <3>1 DEF Best, PythonNegotiate
  <2>2. CASE lo <= 256 /\ 256 <= hi
    <3>1. 256 \in Common({FirstVersion}) /\ \A w \in Common({FirstVersion}) : w <= 256
      BY <1>1, <2>2 DEF Common, FirstVersion
    <3>2. Best({FirstVersion}) = 256
      BY <3>1, BestIs DEF FirstVersion
    <3> QED BY <1>1, <2>2, <3>2 DEF PythonNegotiate
  <2> QED BY <1>1, <2>1, <2>2
<1>4. SendsAck(lo, hi) => hi >= CurrentVersion
  <2>1. CASE hi < CurrentVersion
    <3>1. Negotiate(lo, hi) = Refused \/ Negotiate(lo, hi) = hi
      BY <2>1 DEF Negotiate
    <3> QED BY <1>1, <2>1, <3>1 DEF SendsAck, Refused, CurrentVersion
  <2> QED BY <1>1, <2>1 DEF CurrentVersion
<1> QED BY <1>1, <1>2, <1>3, <1>4 DEF HandshakeAgrees
=============================================================================
