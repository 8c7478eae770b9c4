--------------------------- MODULE RegistryProofs ---------------------------
(***************************************************************************)
(* Theorems about Registry: the types of its state, and whose answer a     *)
(* call of a RegistryClient gets.                                          *)
(***************************************************************************)
EXTENDS Registry, TLAPS

Bounded == MaxRequests \in Nat

-----------------------------------------------------------------------------
(* The inductive invariants                                                *)

Record == [address : Callers, fresh : BOOLEAN]
IsTable(s) == DOMAIN s \subseteq ServiceNames /\ s \in [DOMAIN s -> Record]

Answer(kind) == CASE kind = "discover" -> Callers \cup {"unknown"}
                  [] kind = "list"     -> SUBSET (ServiceNames \X Callers)
                  [] OTHER             -> BOOLEAN
Results == {Failure, Nothing} \cup UNION {{kind} \X Answer(kind) : kind \in CallKinds}
Calls == [seq : 1..MaxRequests, kind : CallKinds, name : ServiceNames, from : Callers]
Replies == [seq : 1..MaxRequests, answer : Results]
Connections ==
  [up : BOOLEAN, served : BOOLEAN, requests : Seq(Calls), replies : Seq(Replies)]
Client == [conn : Nat, seq : 0..MaxRequests, waiting : BOOLEAN, told : Seq(Results)]

TypeOK ==
  /\ IsTable(services)
  /\ conns \in Seq(Connections)
  /\ caller \in [Callers -> Client] /\ \A c \in Callers : caller[c].conn <= Len(conns)
  /\ backlog \in Seq(Nat \ {0}) /\ \A i \in 1..Len(backlog) : backlog[i] <= Len(conns)
  /\ serving \in 0..Len(conns)
  /\ made \in [Callers -> [1..MaxRequests -> Results]]
  /\ torn \in BOOLEAN

\* The only message a connection has under way to the server, if any.
IsOnly(q, c, n) == q # <<>> /\ q = <<q[1]>> /\ q[1].from = c /\ q[1].seq = n

\* A client's calls so far have ended but for the one it waits for.  On its
\* connection there is nothing but that call, or the answer to it.
Waits(c) ==
  LET k == caller[c].conn
      n == caller[c].seq
  IN /\ Len(caller[c].told) = IF caller[c].waiting THEN n - 1 ELSE n
     /\ caller[c].waiting => k # NoConn
     /\ k # NoConn =>
          \/ conns[k].requests = <<>> /\ conns[k].replies = <<>>
          \/ caller[c].waiting /\ IsOnly(conns[k].requests, c, n) /\ conns[k].replies = <<>>
          \/ /\ caller[c].waiting /\ conns[k].requests = <<>>
             /\ conns[k].replies = <<[seq |-> n, answer |-> made[c][n]]>>
\* A call under way is awaited on its connection, or was given up.
Awaited(k) ==
  LET q == conns[k].requests
      c == q[1].from
      n == q[1].seq
  IN q # <<>> =>
       /\ conns[k].served /\ IsOnly(q, c, n)
       /\ \/ caller[c].waiting /\ caller[c].conn = k /\ caller[c].seq = n
          \/ n <= Len(caller[c].told) /\ caller[c].told[n] = Failure
Apart == \A c, d \in Callers : caller[c].conn = caller[d].conn /\ caller[c].conn # NoConn => c = d

Exchanges == Apart /\ (\A c \in Callers : Waits(c)) /\ (\A k \in 1..Len(conns) : Awaited(k))

-----------------------------------------------------------------------------
(* Sequences                                                               *)

\* A queue with one message.
LEMMA Single ==
  ASSUME NEW S, NEW x \in S
  PROVE  /\ Append(<<>>, x) = <<x>> /\ Head(<<x>>) = x /\ Tail(<<x>>) = <<>>
         /\ <<x>> \in Seq(S) /\ <<x>> # <<>> /\ Len(<<x>>) = 1 /\ <<x>>[1] = x
OBVIOUS

LEMMA Taken ==
  ASSUME NEW S, NEW s \in Seq(S), s # <<>>
  PROVE  /\ Head(s) = s[1] /\ s[1] \in S /\ Tail(s) \in Seq(S)
         /\ Len(s) \in Nat \ {0} /\ Len(Tail(s)) = Len(s) - 1
         /\ \A i \in 1..Len(s) - 1 : Tail(s)[i] = s[i + 1]
OBVIOUS

LEMMA Added ==
  ASSUME NEW S, NEW s \in Seq(S), NEW x \in S
  PROVE  /\ Append(s, x) \in Seq(S)
         /\ Len(s) \in Nat /\ Len(Append(s, x)) = Len(s) + 1
         /\ \A i \in 1..Len(s) : Append(s, x)[i] = s[i]
         /\ Append(s, x)[Len(s) + 1] = x
OBVIOUS

LEMMA Changed ==
  ASSUME NEW S, NEW s \in Seq(S), NEW k \in 1..Len(s), NEW x \in S
  PROVE  /\ [s EXCEPT ![k] = x] \in Seq(S)
         /\ Len([s EXCEPT ![k] = x]) = Len(s)
         /\ \A i \in 1..Len(s) : [s EXCEPT ![k] = x][i] = IF i = k THEN x ELSE s[i]
OBVIOUS

-----------------------------------------------------------------------------
(* What the server makes of a call                                         *)

LEMMA DispatchTypes ==
  ASSUME IsTable(services), NEW r \in Calls
  PROVE  IsTable(Dispatch(r)[2]) /\ <<r.kind, Dispatch(r)[1]>> \in Results
<1>1. \A names : IsTable(Without(names))
  BY DEF IsTable, Without
<1>2. Dispatch(r)[1] \in Answer(r.kind) /\ IsTable(Dispatch(r)[2])
  <2>1. CASE r.kind = "register"
    <3>1. CASE r.name \in DOMAIN services
      BY <2>1, <3>1 DEF Dispatch, RegisterService, Answer
    <3>2. CASE r.name \notin DOMAIN services
      <4> DEFINE t == [n \in DOMAIN services \cup {r.name} |->
                  IF n = r.name THEN [address |-> r.from, fresh |-> TRUE] ELSE services[n]]
      <4>1. IsTable(t)
        BY DEF IsTable, Record, Calls
      <4>2. Dispatch(r) = <<TRUE, t>>
        BY <2>1, <3>2 DEF Dispatch, RegisterService
      <4> QED BY <2>1, <4>1, <4>2 DEF Answer
    <3> QED BY <3>1, <3>2
  <2>2. CASE r.kind = "unregister"
    BY <1>1, <2>2 DEF Dispatch, UnregisterService, Answer
  <2>3. CASE r.kind = "discover"
    <3>1. CASE r.name \in DOMAIN services \ Stale
      BY <2>3, <3>1 DEF Dispatch, Discover, Answer, IsTable, Record
    <3>2. CASE r.name \notin DOMAIN services \ Stale
      BY <1>1, <2>3, <3>2 DEF Dispatch, Discover, Answer
    <3> QED BY <3>1, <3>2
  <2>4. CASE r.kind = "list"
    <3>1. Dispatch(r) = ListAll
      BY <2>4 DEF Dispatch
    <3>2. {<<n, services[n].address>> : n \in DOMAIN services \ Stale} \subseteq ServiceNames \X Callers
      BY DEF IsTable, Record
    <3> QED BY <1>1, <2>4, <3>1, <3>2 DEF ListAll, Answer
  <2>5. CASE r.kind = "heartbeat"
    <3>1. Dispatch(r) = Heartbeat(r)
      BY <2>5 DEF Dispatch
    <3>2. IsTable(Heartbeat(r)[2]) /\ Heartbeat(r)[1] \in BOOLEAN
      BY DEF Heartbeat, IsTable, Record
    <3> QED BY <2>5, <3>1, <3>2 DEF Answer
  <2> QED BY <2>1, <2>2, <2>3, <2>4, <2>5 DEF Calls, CallKinds
<1> QED BY <1>2 DEF Results, Calls

-----------------------------------------------------------------------------
(* The clients                                                             *)

Inv == TypeOK /\ Exchanges /\ AnswersOwn

LEMMA ClientTypes ==
  ASSUME Inv, NEW c \in Callers
  PROVE  /\ caller[c] \in Client /\ caller[c].conn \in 0..Len(conns) /\ Len(conns) \in Nat
         /\ caller[c].told \in Seq(Results) /\ Len(caller[c].told) \in Nat
         /\ caller[c].seq \in Nat /\ Waits(c)
         /\ caller[c].waiting =>
              /\ caller[c].conn \in 1..Len(conns)
              /\ caller[c].seq = Len(caller[c].told) + 1
<1>1. caller[c] \in Client /\ Len(conns) \in Nat /\ Waits(c) /\ caller[c].conn <= Len(conns)
  BY DEF Inv, TypeOK, Exchanges
<1> QED BY <1>1 DEF Client, Waits, NoConn

LEMMA Replaced ==
  ASSUME Inv, NEW c \in Callers, NEW rec, caller' = [caller EXCEPT ![c] = rec]
  PROVE  caller'[c] = rec /\ \A d \in Callers \ {c} : caller'[d] = caller[d]
BY DEF Inv, TypeOK

\* A connection with nothing under way.
LEMMA Quiet ==
  ASSUME NEW k, conns'[k].requests = <<>>
  PROVE  Awaited(k)'
BY DEF Awaited

LEMMA WaitsQuiet ==
  ASSUME NEW c, NEW k, NEW rec, caller'[c] = rec, rec.conn = k,
         k # NoConn => conns'[k].requests = <<>> /\ conns'[k].replies = <<>>,
         rec.waiting => k # NoConn,
         Len(rec.told) = IF rec.waiting THEN rec.seq - 1 ELSE rec.seq
  PROVE  Waits(c)'
BY DEF Waits

LEMMA WaitsAnswered ==
  ASSUME NEW c, NEW k, NEW rec, caller'[c] = rec, rec.conn = k, k # NoConn,
         conns'[k].requests = <<>>, rec.waiting, Len(rec.told) = rec.seq - 1,
         conns'[k].replies = <<[seq |-> rec.seq, answer |-> made'[c][rec.seq]]>>
  PROVE  Waits(c)'
BY DEF Waits

LEMMA WaitsSent ==
  ASSUME NEW c, NEW k, NEW rec, caller'[c] = rec, rec.conn = k, k # NoConn,
         conns'[k].requests = <<>> \/ IsOnly(conns'[k].requests, c, rec.seq),
         conns'[k].replies = <<>>, rec.waiting, Len(rec.told) = rec.seq - 1
  PROVE  Waits(c)'
BY DEF Waits

\* A call that was given up.
LEMMA GivenUp ==
  ASSUME NEW k, NEW c, NEW n, conns'[k].served, IsOnly(conns'[k].requests, c, n),
         n <= Len(caller'[c].told), caller'[c].told[n] = Failure
  PROVE  Awaited(k)'
BY DEF Awaited, IsOnly

\* Without a call of its own under way, a client's connection is quiet.
LEMMA NotWaiting ==
  ASSUME NEW c, NEW k, Waits(c), k = caller[c].conn, ~caller[c].waiting
  PROVE  /\ Len(caller[c].told) = caller[c].seq
         /\ k # NoConn => conns[k].requests = <<>> /\ conns[k].replies = <<>>
BY DEF Waits

LEMMA UnderWay ==
  ASSUME NEW c, NEW k, Waits(c), k = caller[c].conn, k # NoConn, conns[k].replies = <<>>
  PROVE  conns[k].requests = <<>> \/ IsOnly(conns[k].requests, c, caller[c].seq)
BY DEF Waits

\* What a client does shows in its own state and on its own connection, which it
\* may leave for none or for a new one.
ClientActs(c, rec) ==
  /\ caller' = [caller EXCEPT ![c] = rec]
  /\ rec.conn \in {NoConn, caller[c].conn} \/ rec.conn = Len(conns) + 1
  /\ conns' \in Seq(Connections) /\ Len(conns') \in {Len(conns), Len(conns) + 1}
  /\ \A i \in 1..Len(conns) : i # caller[c].conn => conns'[i] = conns[i]
  /\ UNCHANGED <<services, serving, made, torn>>

\* A call ends as it failed, or with what the server made of it.
Ends(c, rec) ==
  /\ caller[c].waiting
  /\ rec.told = Append(caller[c].told, Failure)
       \/ rec.told = Append(caller[c].told, made[c][caller[c].seq])

LEMMA ClientStep ==
  ASSUME Bounded, Inv, NEW c \in Callers, NEW rec \in Client, ClientActs(c, rec),
         rec.conn <= Len(conns'),
         rec.told = caller[c].told \/ Ends(c, rec),
         \/ backlog' = backlog
         \/ backlog' = Append(backlog, Len(conns) + 1) /\ Len(conns') = Len(conns) + 1,
         Waits(c)',
         \A k \in 1..Len(conns') : k = caller[c].conn \/ k = Len(conns) + 1 => Awaited(k)'
  PROVE  Inv'
<1>1. /\ caller[c] \in Client /\ caller[c].conn \in 0..Len(conns) /\ Len(conns) \in Nat
      /\ caller[c].told \in Seq(Results) /\ Len(caller[c].told) \in Nat
      /\ caller[c].seq \in Nat
      /\ caller[c].waiting => caller[c].seq = Len(caller[c].told) + 1
  BY ClientTypes
<1>2. /\ caller' \in [Callers -> Client] /\ caller'[c] = rec
      /\ \A d \in Callers : d # c => caller'[d] = caller[d]
  BY DEF ClientActs, Inv, TypeOK
<1>3. /\ Len(rec.told) >= Len(caller[c].told)
      /\ \A n \in 1..Len(caller[c].told) : n \in 1..Len(rec.told) /\ rec.told[n] = caller[c].told[n]
      /\ rec.told \in Seq(Results) /\ Len(rec.told) \in Nat
      /\ \A n \in 1..Len(rec.told) :
           n > Len(caller[c].told) => rec.told[n] \in {Failure, made[c][n]}
  <2>1. rec.told \in Seq(Results) /\ Len(rec.told) \in Nat
    BY DEF Client
  <2>2. CASE rec.told = caller[c].told
    BY <1>1, <2>2
  <2>3. CASE Ends(c, rec)
    <3>1. PICK x \in {Failure, made[c][caller[c].seq]} : rec.told = Append(caller[c].told, x)
      BY <2>3 DEF Ends
    <3>2. caller[c].told \in Seq(Results \cup {x})
      BY <1>1
    <3>3. /\ Len(rec.told) = Len(caller[c].told) + 1
          /\ \A n \in 1..Len(caller[c].told) : rec.told[n] = caller[c].told[n]
          /\ rec.told[Len(caller[c].told) + 1] = x
      BY <3>1, <3>2, Added
    <3>4. \A n \in 1..Len(rec.told) :
            n > Len(caller[c].told) => n = caller[c].seq /\ n = Len(caller[c].told) + 1
      BY <1>1, <2>1, <2>3, <3>3 DEF Ends
    <3> QED BY <1>1, <2>1, <3>1, <3>3, <3>4
  <2> QED BY <2>2, <2>3
<1>4. TypeOK'
  <2>1. \A d \in Callers : caller'[d].conn <= Len(conns')
    BY <1>1, <1>2 DEF ClientActs, Inv, TypeOK, Client
  <2>2. backlog' \in Seq(Nat \ {0}) /\ \A i \in 1..Len(backlog') : backlog'[i] <= Len(conns')
    <3>1. /\ backlog \in Seq(Nat \ {0}) /\ \A i \in 1..Len(backlog) : backlog[i] <= Len(conns)
          /\ \A i \in 1..Len(backlog) : backlog[i] \in Nat
      BY DEF Inv, TypeOK
    <3>2. CASE backlog' = backlog
      BY <1>1, <3>1, <3>2 DEF ClientActs
    <3>3. CASE backlog' = Append(backlog, Len(conns) + 1) /\ Len(conns') = Len(conns) + 1
      <4>1. Len(conns) + 1 \in Nat \ {0}
        BY <1>1
      <4>2. /\ backlog' \in Seq(Nat \ {0})
            /\ Len(backlog) \in Nat /\ Len(backlog') = Len(backlog) + 1
            /\ \A i \in 1..Len(backlog) : backlog'[i] = backlog[i]
            /\ backlog'[Len(backlog) + 1] = Len(conns) + 1
        BY <3>1, <3>3, <4>1, Added
      <4> QED BY <1>1, <3>1, <3>3, <4>2
    <3> QED BY <3>2, <3>3
  <2>3. serving' \in 0..Len(conns')
    BY <1>1 DEF ClientActs, Inv, TypeOK
  <2> QED BY <1>2, <2>1, <2>2, <2>3 DEF ClientActs, Inv, TypeOK
<1>5. Apart'
  <2>1. \A d \in Callers : caller[d].conn \in 0..Len(conns)
    BY ClientTypes
  <2>2. \A d \in Callers : d # c /\ rec.conn # NoConn => rec.conn # caller[d].conn
    BY <1>1, <2>1 DEF ClientActs, Inv, Exchanges, Apart
  <2> QED BY <1>2, <2>2 DEF Inv, Exchanges, Apart
<1>6. ASSUME NEW d \in Callers
      PROVE  Waits(d)'
  <2>1. CASE d = c
    BY <2>1
  <2>2. CASE d # c
    <3>1. Waits(d) /\ caller'[d] = caller[d] /\ made'[d] = made[d]
      BY <1>2, <2>2 DEF Inv, Exchanges, ClientActs
    <3>2. caller[d].conn # NoConn => conns'[caller[d].conn] = conns[caller[d].conn]
      <4>1. caller[d].conn \in 0..Len(conns)
        BY ClientTypes
      <4>2. caller[d].conn # NoConn => caller[d].conn # caller[c].conn
        BY <2>2 DEF Inv, Exchanges, Apart
      <4> QED BY <1>1, <4>1, <4>2 DEF ClientActs, NoConn
    <3> QED BY <3>1, <3>2 DEF Waits, IsOnly
  <2> QED BY <2>1, <2>2
<1>7. ASSUME NEW k \in 1..Len(conns')
      PROVE  Awaited(k)'
  <2>1. CASE k = caller[c].conn \/ k = Len(conns) + 1
    BY <2>1
  <2>2. CASE k # caller[c].conn /\ k # Len(conns) + 1
    <3>1. k \in 1..Len(conns) /\ conns'[k] = conns[k] /\ Awaited(k)
      <4>1. k \in 1..Len(conns)
        BY <1>1, <2>2 DEF ClientActs
      <4>2. conns'[k] = conns[k]
        <5>1. \A i \in 1..Len(conns) : i # caller[c].conn => conns'[i] = conns[i]
          BY DEF ClientActs
        <5> QED BY <2>2, <4>1, <5>1
      <4> QED BY <4>1, <4>2 DEF Inv, Exchanges
    <3>2. SUFFICES ASSUME conns[k].requests # <<>> PROVE Awaited(k)'
      BY <3>1 DEF Awaited
    <3>3. conns[k].requests[1].from \in Callers /\ conns[k].requests[1].seq \in 1..MaxRequests
      <4>1. conns[k] \in Connections
        BY <3>1 DEF Inv, TypeOK
      <4>2. conns[k].requests \in Seq(Calls)
        BY <4>1 DEF Connections
      <4>3. conns[k].requests[1] \in Calls
        BY <3>2, <4>2, Taken
      <4> QED BY <4>3 DEF Calls
    <3>4. CASE conns[k].requests[1].from = c
      <4> DEFINE n == conns[k].requests[1].seq
      <4>1. n <= Len(caller[c].told) /\ caller[c].told[n] = Failure
        BY <2>2, <3>1, <3>2, <3>4 DEF Awaited
      <4>2. n \in 1..Len(caller[c].told)
        BY <1>1, <3>3, <4>1
      <4>3. n \in 1..Len(rec.told) /\ rec.told[n] = Failure
        BY <1>3, <4>1, <4>2
      <4>4. n <= Len(rec.told)
        BY <1>3, <4>3
      <4> QED BY <1>2, <3>1, <3>2, <3>4, <4>3, <4>4 DEF Awaited, IsOnly
    <3>5. CASE conns[k].requests[1].from # c
      BY <1>2, <3>1, <3>2, <3>3, <3>5 DEF Awaited, IsOnly
    <3> QED BY <3>4, <3>5
  <2> QED BY <2>1, <2>2
<1>8. AnswersOwn'
  <2>1. ASSUME NEW d \in Callers, NEW n \in 1..Len(caller'[d].told)
        PROVE  caller'[d].told[n] \in {Failure, made'[d][n]}
    <3>1. CASE d = c
      <4>1. CASE n \in 1..Len(caller[c].told)
        <5>1. DOMAIN caller[c].told = 1..Len(caller[c].told)
          BY <1>1
        <5> QED BY <1>2, <1>3, <3>1, <4>1, <5>1 DEF Inv, AnswersOwn, ClientActs
      <4> QED BY <1>2, <1>3, <2>1, <3>1, <4>1 DEF ClientActs
    <3>2. CASE d # c
      <4>1. DOMAIN caller[d].told = 1..Len(caller[d].told)
        BY ClientTypes
      <4> QED BY <1>2, <2>1, <3>2, <4>1 DEF Inv, AnswersOwn, ClientActs
    <3> QED BY <3>1, <3>2
  <2>2. \A d \in Callers : DOMAIN caller'[d].told = 1..Len(caller'[d].told)
    BY <1>2 DEF Client
  <2> QED BY <2>1, <2>2 DEF AnswersOwn, ClientActs, Inv
<1> QED BY <1>4, <1>5, <1>6, <1>7, <1>8 DEF Inv, Exchanges

LEMMA ConnectionTypes ==
  ASSUME Inv, NEW k \in 1..Len(conns)
  PROVE  /\ conns[k] \in Connections /\ Awaited(k)
         /\ conns[k].requests \in Seq(Calls) /\ conns[k].replies \in Seq(Replies)
         /\ conns[k].up \in BOOLEAN /\ conns[k].served \in BOOLEAN
         /\ Len(conns) \in Nat
<1>1. conns[k] \in Connections /\ Awaited(k) /\ Len(conns) \in Nat
  BY DEF Inv, TypeOK, Exchanges
<1> QED BY <1>1 DEF Connections

\* Closing a connection leaves what is under way on it.
LEMMA HungUp ==
  ASSUME Inv, NEW k \in 0..Len(conns)
  PROVE  /\ Hangup(k) \in Seq(Connections) /\ Len(Hangup(k)) = Len(conns)
         /\ \A i \in 1..Len(conns) : i # k => Hangup(k)[i] = conns[i]
         /\ k # NoConn => /\ k \in 1..Len(conns)
                          /\ Hangup(k)[k].requests = conns[k].requests
                          /\ Hangup(k)[k].replies = conns[k].replies
                          /\ Hangup(k)[k].served = conns[k].served
<1>1. conns \in Seq(Connections) /\ Len(conns) \in Nat
  BY DEF Inv, TypeOK
<1>2. CASE k = NoConn
  BY <1>1, <1>2 DEF Hangup
<1>3. CASE k # NoConn
  <2>1. k \in 1..Len(conns) /\ conns[k] \in Connections
    BY <1>1, <1>3 DEF NoConn
  <2> DEFINE x == [conns[k] EXCEPT !.up = FALSE]
  <2>2. /\ x \in Connections /\ x.requests = conns[k].requests /\ x.replies = conns[k].replies
        /\ x.served = conns[k].served
    BY <2>1 DEF Connections
  <2>3. Hangup(k) = [conns EXCEPT ![k] = x]
    BY <1>3 DEF Hangup
  <2> HIDE DEF x
  <2>4. /\ Hangup(k) \in Seq(Connections) /\ Len(Hangup(k)) = Len(conns)
        /\ \A i \in 1..Len(conns) : Hangup(k)[i] = IF i = k THEN x ELSE conns[i]
    BY <1>1, <2>1, <2>2, <2>3, Changed
  <2> QED BY <2>1, <2>2, <2>4
<1> QED BY <1>2, <1>3

LEMMA CallStep ==
  ASSUME Bounded, Inv, NEW c \in Callers, NEW kind \in CallKinds, NEW name \in ServiceNames,
         Call(c, kind, name)
  PROVE  Inv'
<1> PICK old \in Nat : old = caller[c].conn
  BY ClientTypes
<1> PICK k \in Nat : k = IF old = NoConn THEN Len(conns) + 1 ELSE old
  BY ClientTypes
<1> DEFINE all == IF old = NoConn THEN Append(conns, NewConn) ELSE conns
           request == Request(caller[c].seq + 1, kind, name, c)
           rec == [caller[c] EXCEPT !.conn = k, !.seq = caller[c].seq + 1, !.waiting = TRUE]
<1>1. /\ caller[c] \in Client /\ old \in 0..Len(conns) /\ Len(conns) \in Nat /\ Waits(c)
      /\ ~caller[c].waiting /\ caller[c].seq \in Nat /\ caller[c].seq + 1 \in 1..MaxRequests
      /\ conns \in Seq(Connections)
  <2>1. ~caller[c].waiting /\ caller[c].seq < MaxRequests
    BY DEF Call
  <2>2. conns \in Seq(Connections)
    BY DEF Inv, TypeOK
  <2>3. caller[c].seq \in Nat /\ caller[c].seq + 1 \in 1..MaxRequests
    BY <2>1, ClientTypes DEF Bounded
  <2> QED BY <2>1, <2>2, <2>3, ClientTypes
<1>2. /\ request \in Calls /\ request.from = c /\ request.seq = caller[c].seq + 1
  BY <1>1 DEF Request, Calls
<1>3. /\ rec \in Client /\ rec.conn = k /\ rec.waiting /\ rec.seq = caller[c].seq + 1
      /\ rec.told = caller[c].told /\ k \in 1..Len(conns) + 1
  <2>1. caller[c].seq + 1 \in 0..MaxRequests
    BY <1>1
  <2>2. rec \in Client /\ rec.conn = k /\ rec.waiting /\ rec.seq = caller[c].seq + 1
        /\ rec.told = caller[c].told
    BY <1>1, <2>1 DEF Client
  <2> QED BY <1>1, <2>2 DEF NoConn
<1>4. /\ all \in Seq(Connections) /\ k \in 1..Len(all)
      /\ Len(all) = IF old = NoConn THEN Len(conns) + 1 ELSE Len(conns)
      /\ \A i \in 1..Len(conns) : all[i] = conns[i]
      /\ all[k] \in Connections /\ all[k].requests = <<>> /\ all[k].replies = <<>>
  <2>1. NewConn \in Connections /\ NewConn.requests = <<>> /\ NewConn.replies = <<>>
    BY DEF NewConn, Connections
  <2>2. CASE old = NoConn
    BY <1>1, <2>1, <2>2, Added
  <2>3. CASE old # NoConn
    <3>1. old \in 1..Len(conns)
      BY <1>1, <2>3 DEF NoConn
    <3>2. conns[old].requests = <<>> /\ conns[old].replies = <<>>
      BY <1>1, <2>3 DEF Waits
    <3> QED BY <1>1, <2>3, <3>1, <3>2
  <2> QED BY <2>2, <2>3
<1>5. /\ conns' \in Seq(Connections) /\ Len(conns') = Len(all)
      /\ \A i \in 1..Len(all) : i # k => conns'[i] = all[i]
      /\ conns'[k].replies = <<>>
      /\ \/ conns'[k].requests = <<>>
         \/ conns'[k].requests = <<request>> /\ conns'[k].served
  <2>1. CASE all[k].served
    <3> DEFINE q == <<request>>
               x == [all[k] EXCEPT !.requests = q]
    <3>1. Append(all[k].requests, request) = q /\ q \in Seq(Calls)
      BY <1>2, <1>4, Single
    <3> HIDE DEF q
    <3>2. /\ x \in Connections /\ x.requests = q /\ x.replies = <<>> /\ x.served
      <4> HIDE DEF all, request
      <4> QED BY <1>4, <2>1, <3>1 DEF Connections
    <3>3. conns' = [all EXCEPT ![k] = x]
      <4>1. conns' = [all EXCEPT ![k].requests = Append(@, request)]
        <5>1. conns' = IF all[k].served THEN [all EXCEPT ![k].requests = Append(@, request)] ELSE all
          BY DEF Call
        <5> HIDE DEF all, request
        <5> QED BY <2>1, <5>1
      <4> QED BY <3>1, <4>1
    <3> HIDE DEF x, all, request
    <3> QED BY <1>4, <3>2, <3>3, Changed DEF q
  <2>2. CASE ~all[k].served
    <3>1. conns' = all
      BY <1>1, <2>2 DEF Call
    <3> QED BY <1>4, <3>1
  <2> QED BY <2>1, <2>2
<1>6. caller' = [caller EXCEPT ![c] = rec] /\ UNCHANGED <<services, serving, made, torn>>
      /\ backlog' = IF old = NoConn THEN Append(backlog, k) ELSE backlog
  BY DEF Call
<1>7. caller'[c] = rec
  BY <1>6, Replaced
<1>8. conns'[k].requests # <<>> => IsOnly(conns'[k].requests, c, rec.seq)
  BY <1>2, <1>3, <1>5, Single DEF IsOnly
<1> HIDE DEF rec, request, all
<1>9. Waits(c)'
  <2>1. Len(rec.told) = rec.seq - 1
    BY <1>1, <1>3, NotWaiting
  <2>2. k # NoConn
    BY <1>3 DEF NoConn
  <2> QED BY <1>3, <1>5, <1>7, <1>8, <2>1, <2>2, WaitsSent
<1>10. Awaited(k)'
  BY <1>3, <1>5, <1>7, <1>8 DEF Awaited, IsOnly
<1>11. \A i \in 1..Len(conns) : i # old => conns'[i] = conns[i]
  BY <1>1, <1>4, <1>5
<1>12. Len(conns') \in {Len(conns), Len(conns) + 1} /\ rec.conn <= Len(conns')
  BY <1>1, <1>3, <1>4, <1>5
<1>13. ClientActs(c, rec)
  BY <1>3, <1>5, <1>6, <1>11, <1>12 DEF ClientActs
<1>14. \A i \in 1..Len(conns') : i = caller[c].conn \/ i = Len(conns) + 1 => Awaited(i)'
  BY <1>1, <1>4, <1>5, <1>10 DEF NoConn
<1>15. \/ backlog' = backlog
       \/ backlog' = Append(backlog, Len(conns) + 1) /\ Len(conns') = Len(conns) + 1
  BY <1>4, <1>5, <1>6
<1> QED BY <1>3, <1>9, <1>12, <1>13, <1>14, <1>15, ClientStep

LEMMA ConnectStep ==
  ASSUME Bounded, Inv, NEW c \in Callers, ConnectClient(c)
  PROVE  Inv'
<1> PICK old \in Nat : old = caller[c].conn
  BY ClientTypes
<1> PICK k \in Nat : k = Len(conns) + 1
  BY ClientTypes
<1> DEFINE rec == [caller[c] EXCEPT !.conn = k]
<1>1. /\ caller[c] \in Client /\ old \in 0..Len(conns) /\ Len(conns) \in Nat /\ Waits(c)
      /\ ~caller[c].waiting
  BY ClientTypes DEF ConnectClient
<1>2. rec \in Client /\ rec.conn = k /\ ~rec.waiting /\ rec.told = caller[c].told
      /\ rec.seq = caller[c].seq
  BY <1>1 DEF Client
<1>3. /\ NewConn \in Connections /\ NewConn.requests = <<>> /\ NewConn.replies = <<>>
  BY DEF NewConn, Connections
<1>4. /\ conns' \in Seq(Connections) /\ Len(conns') = k
      /\ \A i \in 1..Len(conns) : conns'[i] = Hangup(old)[i]
      /\ conns'[k] = NewConn
  <2>1. conns' = Append(Hangup(old), NewConn)
    BY DEF ConnectClient
  <2>2. Hangup(old) \in Seq(Connections) /\ Len(Hangup(old)) = Len(conns)
    BY <1>1, HungUp
  <2> QED BY <1>3, <2>1, <2>2, Added
<1>5. \A i \in 1..Len(conns) : i # old => conns'[i] = conns[i]
  BY <1>1, <1>4, HungUp
<1>6. caller' = [caller EXCEPT ![c] = rec] /\ UNCHANGED <<services, serving, made, torn>>
      /\ backlog' = Append(backlog, k)
  BY DEF ConnectClient
<1>7. caller'[c] = rec
  BY <1>6, Replaced
<1> HIDE DEF rec
<1>8. Waits(c)'
  <2>1. Len(rec.told) = rec.seq
    BY <1>1, <1>2, NotWaiting
  <2> QED BY <1>1, <1>2, <1>3, <1>4, <1>7, <2>1, WaitsQuiet DEF NoConn
<1>9. Awaited(k)'
  BY <1>3, <1>4, Quiet
<1>10. old \in 1..Len(conns) => Awaited(old)'
  <2>1. old # NoConn => conns[old].requests = <<>>
    BY <1>1, NotWaiting
  <2>2. old # NoConn => conns'[old].requests = <<>>
    BY <1>1, <1>4, <2>1, HungUp
  <2>3. old \in 1..Len(conns) => old # NoConn
    BY <1>1 DEF NoConn
  <2> QED BY <2>2, <2>3, Quiet
<1>11. ClientActs(c, rec)
  <2>1. Len(conns') \in {Len(conns), Len(conns) + 1}
    BY <1>4
  <2> QED BY <1>2, <1>4, <1>5, <1>6, <2>1 DEF ClientActs
<1>12. \A i \in 1..Len(conns') : i = caller[c].conn \/ i = Len(conns) + 1 => Awaited(i)'
  <2>1. \A i \in 1..Len(conns') : i \in 1..Len(conns) \/ i = k
    BY <1>1, <1>4
  <2>2. k # old
    BY <1>1
  <2> QED BY <1>9, <1>10, <2>1, <2>2
<1> QED BY <1>2, <1>4, <1>6, <1>8, <1>11, <1>12, ClientStep

LEMMA CloseStep ==
  ASSUME Bounded, Inv, NEW c \in Callers, CloseClient(c)
  PROVE  Inv'
<1> PICK old \in Nat : old = caller[c].conn
  BY ClientTypes
<1> DEFINE rec == [caller[c] EXCEPT !.conn = NoConn]
<1>1. /\ caller[c] \in Client /\ old \in 1..Len(conns) /\ old # NoConn /\ Len(conns) \in Nat
      /\ Waits(c) /\ ~caller[c].waiting
  BY ClientTypes DEF CloseClient, NoConn
<1>2. rec \in Client /\ rec.conn = NoConn /\ ~rec.waiting /\ rec.told = caller[c].told
      /\ rec.seq = caller[c].seq
  BY <1>1 DEF Client, NoConn
<1>3. /\ conns' \in Seq(Connections) /\ Len(conns') = Len(conns)
      /\ \A i \in 1..Len(conns) : i # old => conns'[i] = conns[i]
      /\ conns'[old].requests = conns[old].requests
  BY <1>1, HungUp DEF CloseClient
<1>4. caller' = [caller EXCEPT ![c] = rec] /\ UNCHANGED <<services, serving, made, torn, backlog>>
  BY DEF CloseClient
<1>5. caller'[c] = rec
  BY <1>4, Replaced
<1> HIDE DEF rec
<1>6. Waits(c)'
  <2>1. Len(rec.told) = rec.seq
    BY <1>1, <1>2, NotWaiting
  <2> QED BY <1>2, <1>5, <2>1, WaitsQuiet
<1>7. Awaited(old)'
  BY <1>1, <1>3, NotWaiting, Quiet
<1>8. ClientActs(c, rec) /\ rec.conn <= Len(conns')
  <2>1. Len(conns') \in {Len(conns), Len(conns) + 1} /\ rec.conn <= Len(conns')
    BY <1>1, <1>2, <1>3 DEF NoConn
  <2>2. rec.conn \in {NoConn, caller[c].conn}
    BY <1>2
  <2> QED BY <1>3, <1>4, <2>1, <2>2 DEF ClientActs
<1>9. \A i \in 1..Len(conns') : i = caller[c].conn \/ i = Len(conns) + 1 => Awaited(i)'
  BY <1>1, <1>3, <1>7
<1> QED BY <1>2, <1>4, <1>6, <1>8, <1>9, ClientStep

\* A call that is over leaves its result behind.
LEMMA ToldTypes ==
  ASSUME Inv, NEW c \in Callers, caller[c].waiting, NEW x \in Results
  PROVE  /\ Told(c, x) \in Client /\ ~Told(c, x).waiting
         /\ Told(c, x).conn = caller[c].conn /\ Told(c, x).seq = caller[c].seq
         /\ Told(c, x).told = Append(caller[c].told, x)
         /\ Len(Told(c, x).told) = caller[c].seq /\ Told(c, x).told[caller[c].seq] = x
<1>1. /\ caller[c] \in Client /\ caller[c].told \in Seq(Results)
      /\ caller[c].seq = Len(caller[c].told) + 1
  BY ClientTypes
<1>2. /\ Append(caller[c].told, x) \in Seq(Results)
      /\ Len(Append(caller[c].told, x)) = Len(caller[c].told) + 1
      /\ Append(caller[c].told, x)[Len(caller[c].told) + 1] = x
  BY <1>1, Added
<1>3. /\ Told(c, x) \in Client /\ ~Told(c, x).waiting
      /\ Told(c, x).conn = caller[c].conn /\ Told(c, x).seq = caller[c].seq
      /\ Told(c, x).told = Append(caller[c].told, x)
  BY <1>1, <1>2 DEF Told, Client
<1> QED BY <1>1, <1>2, <1>3

LEMMA ReceiveStep ==
  ASSUME Bounded, Inv, NEW c \in Callers, Receive(c)
  PROVE  Inv'
<1> PICK k \in Nat : k = caller[c].conn
  BY ClientTypes
<1>1. /\ k \in 1..Len(conns) /\ k # NoConn /\ Len(conns) \in Nat /\ Waits(c)
      /\ caller[c].waiting /\ conns[k].replies # <<>> /\ conns[k] \in Connections
  BY ClientTypes, ConnectionTypes DEF Receive, NoConn
<1> PICK x : x = made[c][caller[c].seq]
  OBVIOUS
<1>2. /\ conns[k].requests = <<>>
      /\ conns[k].replies = <<[seq |-> caller[c].seq, answer |-> x]>>
  <2>1. k # NoConn => \/ conns[k].replies = <<>>
                      \/ /\ conns[k].requests = <<>>
                         /\ conns[k].replies = <<[seq |-> caller[c].seq, answer |-> x]>>
    BY <1>1 DEF Waits
  <2> QED BY <1>1, <2>1
<1> DEFINE reply == [seq |-> caller[c].seq, answer |-> x]
<1>3. x \in Results
  <2>1. caller[c].seq \in 1..MaxRequests
    BY <1>1, ClientTypes DEF Client, Bounded
  <2> QED BY <2>1 DEF Inv, TypeOK
<1>4. Head(conns[k].replies) = reply /\ Tail(conns[k].replies) = <<>>
  BY <1>2, Single
<1>5. caller' = [caller EXCEPT ![c] = Told(c, x)] /\ torn' = torn
  <2>1. reply.seq = caller[c].seq /\ reply.answer = x
    OBVIOUS
  <2> QED BY <1>4, <2>1 DEF Receive, Inv, TypeOK
<1>6. /\ conns' \in Seq(Connections) /\ Len(conns') = Len(conns)
      /\ \A i \in 1..Len(conns) : i # k => conns'[i] = conns[i]
      /\ conns'[k].requests = <<>> /\ conns'[k].replies = <<>>
  <2> DEFINE v == [conns[k] EXCEPT !.replies = Tail(@)]
  <2>1. v \in Connections /\ v.requests = <<>> /\ v.replies = <<>>
    BY <1>1, <1>2, <1>4 DEF Connections
  <2>2. conns' = [conns EXCEPT ![k] = v]
    BY DEF Receive
  <2>3. conns \in Seq(Connections)
    BY DEF Inv, TypeOK
  <2> HIDE DEF v
  <2> QED BY <1>1, <2>1, <2>2, <2>3, Changed
<1>7. UNCHANGED <<services, serving, made, backlog>>
  BY DEF Receive
<1> PICK rec \in Client : rec = Told(c, x)
  BY <1>1, <1>3, ToldTypes
<1>8. /\ ~rec.waiting /\ rec.conn = k /\ rec.seq = caller[c].seq
      /\ rec.told = Append(caller[c].told, x) /\ Len(rec.told) = rec.seq
  <2>1. caller[c].waiting
    BY <1>1
  <2> QED BY <1>3, <2>1, ToldTypes
<1>9. caller'[c] = rec
  BY <1>5, Replaced
<1>10. Waits(c)'
  BY <1>6, <1>8, <1>9, WaitsQuiet
<1>11. Awaited(k)'
  BY <1>6, Quiet
<1>12. ClientActs(c, rec) /\ rec.conn <= Len(conns')
  <2>1. Len(conns') \in {Len(conns), Len(conns) + 1} /\ rec.conn <= Len(conns')
    <3>1. Len(conns') = Len(conns) /\ rec.conn = k /\ k <= Len(conns)
      BY <1>1, <1>6, <1>8
    <3> QED BY <3>1
  <2>2. rec.conn \in {NoConn, caller[c].conn}
    BY <1>8
  <2> QED BY <1>5, <1>6, <1>7, <2>1, <2>2 DEF ClientActs
<1>13. \A i \in 1..Len(conns') : i = caller[c].conn \/ i = Len(conns) + 1 => Awaited(i)'
  BY <1>1, <1>6, <1>11
<1>14. Ends(c, rec)
  BY <1>1, <1>8 DEF Ends
<1> QED BY <1>7, <1>10, <1>12, <1>13, <1>14, ClientStep

\* A call that fails: the server is gone, or the wait for it is given up.
LEMMA FailureStep ==
  ASSUME Bounded, Inv, NEW c \in Callers, Eof(c) \/ Caught(c)
  PROVE  Inv'
<1> PICK k \in Nat : k = caller[c].conn
  BY ClientTypes
<1>1. /\ k \in 1..Len(conns) /\ k # NoConn /\ Len(conns) \in Nat /\ Waits(c)
      /\ caller[c].waiting /\ Awaited(k)
      /\ conns[k].replies = <<>> /\ (Eof(c) => ~conns[k].served)
  BY ClientTypes, ConnectionTypes DEF Eof, Caught, NoConn
<1>2. Failure \in Results
  BY DEF Results
<1> PICK told \in Client : told = Told(c, Failure)
  BY <1>1, <1>2, ToldTypes
<1> DEFINE rec == IF Eof(c) THEN told ELSE [told EXCEPT !.conn = NoConn]
<1>3. /\ ~told.waiting /\ told.conn = k /\ told.seq = caller[c].seq
      /\ told.told = Append(caller[c].told, Failure) /\ Len(told.told) = told.seq
      /\ told.told[told.seq] = Failure /\ told.seq \in Nat
  BY <1>1, <1>2, ToldTypes, ClientTypes
<1>4. /\ rec \in Client /\ ~rec.waiting /\ rec.seq = caller[c].seq /\ rec.told = told.told
      /\ rec.conn = IF Eof(c) THEN k ELSE NoConn
  BY <1>3 DEF Client, NoConn
<1>5. /\ conns' \in Seq(Connections) /\ Len(conns') = Len(conns)
      /\ \A i \in 1..Len(conns) : i # k => conns'[i] = conns[i]
      /\ conns'[k].requests = conns[k].requests /\ conns'[k].replies = conns[k].replies
      /\ conns'[k].served = conns[k].served
  <2>1. CASE Eof(c)
    BY <2>1 DEF Eof, Inv, TypeOK
  <2>2. CASE Caught(c)
    BY <1>1, <2>2, HungUp DEF Caught
  <2> QED BY <2>1, <2>2
<1>6. caller' = [caller EXCEPT ![c] = rec]
      /\ UNCHANGED <<services, serving, made, torn, backlog>>
  <2>1. CASE Eof(c)
    BY <2>1 DEF Eof
  <2>2. CASE ~Eof(c)
    BY <2>2 DEF Caught
  <2> QED BY <2>1, <2>2
<1>7. caller'[c] = rec
  BY <1>6, Replaced
<1> HIDE DEF rec
<1>8. Eof(c) => conns[k].requests = <<>>
  BY <1>1 DEF Awaited
<1>9. Waits(c)'
  <2>1. Eof(c) => conns'[k].requests = <<>> /\ conns'[k].replies = <<>>
    BY <1>1, <1>5, <1>8
  <2>2. /\ rec.conn # NoConn => rec.conn = k /\ Eof(c)
        /\ ~rec.waiting /\ Len(rec.told) = rec.seq
    BY <1>3, <1>4
  <2> QED BY <1>7, <2>1, <2>2, WaitsQuiet
<1>10. Awaited(k)'
  <2>1. conns[k].requests = <<>> \/ IsOnly(conns[k].requests, c, caller[c].seq)
    BY <1>1, UnderWay
  <2>2. conns[k].requests # <<>> => conns[k].served
    BY <1>1 DEF Awaited
  <2>3. caller[c].seq <= Len(rec.told) /\ rec.told[caller[c].seq] = Failure
    BY <1>3, <1>4
  <2>4. CASE conns[k].requests = <<>>
    BY <1>5, <2>4, Quiet
  <2>5. CASE conns[k].requests # <<>>
    <3>1. conns'[k].served /\ IsOnly(conns'[k].requests, c, caller[c].seq)
      BY <1>5, <2>1, <2>2, <2>5
    <3> QED BY <1>7, <2>3, <3>1, GivenUp
  <2> QED BY <2>4, <2>5
<1>11. ClientActs(c, rec) /\ rec.conn <= Len(conns')
  <2>1. Len(conns') \in {Len(conns), Len(conns) + 1} /\ rec.conn <= Len(conns')
    BY <1>1, <1>4, <1>5 DEF NoConn
  <2>2. rec.conn \in {NoConn, caller[c].conn}
    BY <1>4
  <2> QED BY <1>5, <1>6, <2>1, <2>2 DEF ClientActs
<1>12. \A i \in 1..Len(conns') : i = caller[c].conn \/ i = Len(conns) + 1 => Awaited(i)'
  BY <1>1, <1>5, <1>10
<1>13. Ends(c, rec)
  BY <1>1, <1>3, <1>4 DEF Ends
<1> QED BY <1>4, <1>6, <1>9, <1>11, <1>12, <1>13, ClientStep

-----------------------------------------------------------------------------
(* The server                                                              *)

\* A step that does not touch calls, connections or answers.
LEMMA TableStep ==
  ASSUME Bounded, Inv, IsTable(services)', UNCHANGED <<caller, conns, made, torn>>,
         backlog' \in Seq(Nat \ {0}), \A i \in 1..Len(backlog') : backlog'[i] <= Len(conns),
         serving' \in 0..Len(conns)
  PROVE  Inv'
<1>1. TypeOK'
  <2>1. /\ (conns \in Seq(Connections))' /\ (caller \in [Callers -> Client])'
        /\ (\A c \in Callers : caller[c].conn <= Len(conns))'
    BY DEF Inv, TypeOK
  <2>2. (made \in [Callers -> [1..MaxRequests -> Results]])' /\ (torn \in BOOLEAN)'
    BY DEF Inv, TypeOK
  <2> QED BY <2>1, <2>2 DEF TypeOK
<1>2. Exchanges'
  <2>1. Apart'
    BY DEF Inv, Exchanges, Apart
  <2>2. \A c \in Callers : Waits(c)'
    BY DEF Inv, Exchanges, Waits, IsOnly
  <2>3. (\A k \in 1..Len(conns) : Awaited(k))'
    BY DEF Inv, Exchanges, Awaited, IsOnly
  <2> QED BY <2>1, <2>2, <2>3 DEF Exchanges
<1> QED BY <1>1, <1>2 DEF Inv, AnswersOwn

LEMMA AcceptStep ==
  ASSUME Bounded, Inv, AcceptClient
  PROVE  Inv'
<1>1. /\ backlog \in Seq(Nat \ {0}) /\ \A i \in 1..Len(backlog) : backlog[i] <= Len(conns)
      /\ Len(conns) \in Nat /\ IsTable(services)
  BY DEF Inv, TypeOK
<1>2. /\ Head(backlog) = backlog[1] /\ backlog[1] \in Nat \ {0} /\ backlog' \in Seq(Nat \ {0})
      /\ Len(backlog) \in Nat \ {0} /\ Len(backlog') = Len(backlog) - 1
      /\ \A i \in 1..Len(backlog) - 1 : backlog'[i] = backlog[i + 1]
  BY <1>1, Taken DEF AcceptClient
<1>3. serving' \in 0..Len(conns) /\ \A i \in 1..Len(backlog') : backlog'[i] <= Len(conns)
  BY <1>1, <1>2 DEF AcceptClient
<1> QED BY <1>1, <1>2, <1>3, TableStep DEF AcceptClient

\* What the server makes of the only call on its connection.
LEMMA Served ==
  ASSUME Bounded, Inv, NEW k \in 1..Len(conns), NEW c \in Callers, NEW n \in 1..MaxRequests,
         NEW reply, conns[k].requests # <<>>,
         conns[k].requests[1].from = c, conns[k].requests[1].seq = n,
         IsTable(services'), UNCHANGED <<caller, backlog, serving, torn>>,
         made' \in [Callers -> [1..MaxRequests -> Results]],
         \A d \in Callers : \A m \in 1..MaxRequests :
           d # c \/ m # n => made'[d][m] = made[d][m],
         reply \in Replies, reply = [seq |-> n, answer |-> made'[c][n]],
         conns' \in Seq(Connections), Len(conns') = Len(conns),
         \A i \in 1..Len(conns) : i # k => conns'[i] = conns[i],
         conns'[k].requests = <<>>,
         conns'[k].replies \in {conns[k].replies, Append(conns[k].replies, reply)}
  PROVE  Inv'
<1>1. /\ Awaited(k) /\ Len(conns) \in Nat /\ k # NoConn
  BY ConnectionTypes DEF NoConn
<1>2. \/ caller[c].waiting /\ caller[c].conn = k /\ caller[c].seq = n
      \/ n <= Len(caller[c].told) /\ caller[c].told[n] = Failure
  BY <1>1 DEF Awaited
<1>3. TypeOK'
  <2>1. /\ (caller \in [Callers -> Client])' /\ (\A d \in Callers : caller[d].conn <= Len(conns))'
        /\ (torn \in BOOLEAN)' /\ (serving \in 0..Len(conns))'
    BY DEF Inv, TypeOK
  <2>2. (backlog \in Seq(Nat \ {0}))' /\ (\A i \in 1..Len(backlog) : backlog[i] <= Len(conns))'
    BY DEF Inv, TypeOK
  <2> QED BY <2>1, <2>2 DEF TypeOK
<1>4. ASSUME NEW d \in Callers
      PROVE  Waits(d)'
  <2>1. /\ Waits(d) /\ caller[d].conn \in 0..Len(conns)
        /\ caller[d].waiting => caller[d].seq \in 1..MaxRequests
    BY ClientTypes DEF Client, Bounded
  <2>2. CASE caller[d].conn = k
    <3>1. caller[d].waiting /\ IsOnly(conns[k].requests, d, caller[d].seq)
          /\ conns[k].replies = <<>>
      BY <1>1, <2>1, <2>2 DEF Waits
    <3>2. d = c /\ caller[c].seq = n
      BY <3>1 DEF IsOnly
    <3>3. Append(<<>>, reply) = <<reply>>
      BY Single
    <3>4. conns'[k].replies \in {<<>>, <<[seq |-> n, answer |-> made'[c][n]]>>}
      BY <3>1, <3>3
    <3>5. Len(caller[d].told) = caller[d].seq - 1
      BY <2>1, <3>1 DEF Waits
    <3> PICK rec : rec = caller[d] /\ caller'[d] = rec
      OBVIOUS
    <3>6. CASE conns'[k].replies = <<>>
      BY <1>1, <2>2, <3>1, <3>5, <3>6, WaitsQuiet
    <3>7. CASE conns'[k].replies = <<[seq |-> n, answer |-> made'[c][n]]>>
      <4>1. conns'[k].replies = <<[seq |-> rec.seq, answer |-> made'[d][rec.seq]]>>
        BY <3>2, <3>7
      <4>2. rec.conn = k /\ rec.waiting /\ Len(rec.told) = rec.seq - 1
        BY <2>2, <3>1, <3>5
      <4> QED BY <1>1, <4>1, <4>2, WaitsAnswered
    <3> QED BY <3>4, <3>6, <3>7
  <2>3. CASE caller[d].conn # k
    <3>1. caller[d].conn # NoConn => conns'[caller[d].conn] = conns[caller[d].conn]
      <4>1. caller[d].conn # NoConn => caller[d].conn \in 1..Len(conns)
        BY <1>1, <2>1 DEF NoConn
      <4> QED BY <2>3, <4>1
    <3>2. caller[d].waiting => d # c \/ caller[d].seq # n
      <4>1. caller[c].waiting => caller[c].seq = Len(caller[c].told) + 1
                                 /\ Len(caller[c].told) \in Nat
        BY ClientTypes
      <4> QED BY <1>2, <2>3, <4>1
    <3>3. caller[d].waiting => made'[d][caller[d].seq] = made[d][caller[d].seq]
      BY <2>1, <3>2
    <3> QED BY <2>1, <3>1, <3>3 DEF Waits, IsOnly
  <2> QED BY <2>2, <2>3
<1>5. ASSUME NEW i \in 1..Len(conns')
      PROVE  Awaited(i)'
  <2>1. CASE i = k
    BY <2>1, Quiet
  <2>2. CASE i # k
    <3>1. Awaited(i) /\ conns'[i] = conns[i]
      BY <2>2 DEF Inv, Exchanges
    <3> QED BY <3>1 DEF Awaited, IsOnly
  <2> QED BY <2>1, <2>2
<1>6. AnswersOwn'
  <2>1. ASSUME NEW d \in Callers, NEW m \in DOMAIN caller[d].told
        PROVE  caller[d].told[m] \in {Failure, made'[d][m]}
    <3>1. caller[d].told[m] \in {Failure, made[d][m]}
      BY DEF Inv, AnswersOwn
    <3>2. m \in 1..MaxRequests /\ m <= Len(caller[d].told) /\ m \in Nat
      <4>1. caller[d].seq \in 0..MaxRequests /\ m \in 1..Len(caller[d].told)
        BY ClientTypes DEF Client
      <4>2. Len(caller[d].told) = IF caller[d].waiting THEN caller[d].seq - 1 ELSE caller[d].seq
        BY ClientTypes DEF Waits
      <4>3. Len(caller[d].told) \in Nat /\ Len(caller[d].told) <= MaxRequests
        BY <4>1, <4>2, ClientTypes DEF Bounded
      <4> QED BY <4>1, <4>3 DEF Bounded
    <3>3. CASE d = c /\ m = n
      <4>1. caller[c].waiting => caller[c].seq = Len(caller[c].told) + 1
        BY ClientTypes
      <4>2. n <= Len(caller[c].told) /\ Len(caller[c].told) \in Nat
        BY <3>2, <3>3, ClientTypes
      <4>3. ~(caller[c].waiting /\ caller[c].seq = n)
        BY <4>1, <4>2
      <4> QED BY <1>2, <3>3, <4>3
    <3>4. CASE d # c \/ m # n
      <4>1. made'[d][m] = made[d][m]
        BY <3>2, <3>4, Zenon
      <4> QED BY <3>1, <4>1
    <3> QED BY <3>3, <3>4
  <2> QED BY <2>1 DEF AnswersOwn, Inv
<1> QED BY <1>3, <1>4, <1>5, <1>6 DEF Inv, Exchanges, Apart

LEMMA ServeStep ==
  ASSUME Bounded, Inv, Serve
  PROVE  Inv'
<1>8. UNCHANGED <<caller, backlog, serving, torn>>
  BY DEF Serve
<1>9. LET call == Head(conns[serving].requests)
      IN /\ services' = Dispatch(call)[2]
         /\ made' = [made EXCEPT ![call.from][call.seq] = <<call.kind, Dispatch(call)[1]>>]
  BY DEF Serve
<1> PICK k \in Nat : k = serving
  BY DEF Inv, TypeOK
<1>1. /\ k \in 1..Len(conns) /\ Len(conns) \in Nat /\ conns[k] \in Connections /\ Awaited(k)
      /\ conns[k].requests \in Seq(Calls) /\ conns[k].requests # <<>>
      /\ conns[k].replies \in Seq(Replies)
  <2>1. k \in 1..Len(conns) /\ conns[k].requests # <<>>
    BY DEF Serve, NoConn, Inv, TypeOK
  <2> QED BY <2>1, ConnectionTypes
<1> PICK r \in Calls : r = conns[k].requests[1]
  BY <1>1, Taken
<1> PICK c \in Callers : c = r.from
  BY DEF Calls
<1> PICK n \in 1..MaxRequests : n = r.seq
  BY DEF Calls
<1> PICK answer : answer = <<r.kind, Dispatch(r)[1]>>
  OBVIOUS
<1> DEFINE reply == [seq |-> n, answer |-> answer]
<1>2. conns[k].requests = <<r>>
  BY <1>1 DEF Awaited, IsOnly
<1>3. Head(conns[k].requests) = r /\ Tail(conns[k].requests) = <<>>
  BY <1>2, Single
<1>4. IsTable(services') /\ answer \in Results /\ reply \in Replies
  <2>1. services' = Dispatch(r)[2]
    BY <1>3, <1>9
  <2> QED BY <2>1, DispatchTypes DEF Inv, TypeOK, Replies
<1>5. made' = [made EXCEPT ![c][n] = answer]
  <2> HIDE DEF reply
  <2>1. made' = [made EXCEPT ![r.from][r.seq] = <<r.kind, Dispatch(r)[1]>>]
    BY <1>3, <1>9, Zenon
  <2> QED BY <2>1
<1>6. /\ made' \in [Callers -> [1..MaxRequests -> Results]] /\ made'[c][n] = answer
      /\ \A d \in Callers : \A m \in 1..MaxRequests :
           d # c \/ m # n => made'[d][m] = made[d][m]
  BY <1>4, <1>5 DEF Inv, TypeOK
<1>7. /\ conns' \in Seq(Connections) /\ Len(conns') = Len(conns)
      /\ \A i \in 1..Len(conns) : i # k => conns'[i] = conns[i]
      /\ conns'[k].requests = <<>>
      /\ conns'[k].replies \in {conns[k].replies, Append(conns[k].replies, reply)}
  <2> PICK replies \in Seq(Replies) :
        /\ replies = IF conns[k].up THEN Append(conns[k].replies, reply) ELSE conns[k].replies
        /\ replies \in {conns[k].replies, Append(conns[k].replies, reply)}
    <3> HIDE DEF reply
    <3> QED BY <1>1, <1>4, Added
  <2> DEFINE x == [conns[k] EXCEPT !.requests = <<>>, !.replies = replies]
  <2>2. /\ x \in Connections /\ x.requests = <<>> /\ x.replies = replies
    <3>1. <<>> \in Seq(Calls)
      OBVIOUS
    <3> HIDE DEF reply
    <3> QED BY <1>1, <3>1 DEF Connections
  <2>3. conns' = [conns EXCEPT ![k] = x]
    BY <1>3 DEF Serve
  <2>4. conns \in Seq(Connections)
    BY DEF Inv, TypeOK
  <2> HIDE DEF x
  <2>5. /\ conns' \in Seq(Connections) /\ Len(conns') = Len(conns)
        /\ \A i \in 1..Len(conns) : conns'[i] = IF i = k THEN x ELSE conns[i]
    BY <1>1, <2>2, <2>3, <2>4, Changed
  <2> QED BY <1>1, <2>2, <2>5
<1> QED
  <2>1. reply = [seq |-> n, answer |-> made'[c][n]]
    BY <1>6
  <2>2. conns[k].requests # <<>> /\ conns[k].requests[1].from = c /\ conns[k].requests[1].seq = n
    BY <1>1
  <2> HIDE DEF reply
  <2> QED BY <1>1, <1>4, <1>6, <1>7, <1>8, <2>1, <2>2, Served

\* A server that is started again has lost the calls, not the answers.
LEMMA RestartStep ==
  ASSUME Bounded, Inv, Restart
  PROVE  Inv'
<1>1. conns \in Seq(Connections) /\ Len(conns) \in Nat /\ DOMAIN conns = 1..Len(conns)
  BY DEF Inv, TypeOK
<1> DEFINE x(k) == [conns[k] EXCEPT !.served = FALSE, !.requests = <<>>]
<1>2. ASSUME NEW k \in 1..Len(conns)
      PROVE  x(k) \in Connections /\ x(k).requests = <<>> /\ x(k).replies = conns[k].replies
  <2>1. conns[k] \in Connections /\ <<>> \in Seq(Calls)
    BY <1>1
  <2> QED BY <2>1 DEF Connections
<1>3. conns' = [k \in 1..Len(conns) |-> x(k)]
  BY <1>1 DEF Restart
<1> HIDE DEF x
<1>4. /\ conns' \in Seq(Connections) /\ Len(conns') = Len(conns)
      /\ \A k \in 1..Len(conns) : /\ conns'[k].requests = <<>>
                                  /\ conns'[k].replies = conns[k].replies
  BY <1>1, <1>2, <1>3
<1>5. /\ IsTable(services') /\ backlog' = <<>> /\ serving' = 0
      /\ UNCHANGED <<caller, made, torn>>
  BY DEF Restart, IsTable, NoConn
<1>6. TypeOK'
  <2>1. backlog' \in Seq(Nat \ {0}) /\ Len(backlog') = 0
    BY <1>5
  <2> QED BY <1>1, <1>4, <1>5, <2>1 DEF Inv, TypeOK
<1>7. ASSUME NEW c \in Callers
      PROVE  Waits(c)'
  <2>1. Waits(c) /\ (caller[c].conn # NoConn => caller[c].conn \in 1..Len(conns))
    BY ClientTypes DEF NoConn
  <2> QED BY <1>4, <1>5, <2>1 DEF Waits
<1>8. \A k \in 1..Len(conns') : Awaited(k)'
  BY <1>4 DEF Awaited
<1> QED BY <1>5, <1>6, <1>7, <1>8 DEF Inv, Exchanges, Apart, AnswersOwn

-----------------------------------------------------------------------------
(* The theorems                                                            *)

LEMMA InvStep ==
  ASSUME Bounded, Inv, [RegistryNext]_registryVars
  PROVE  Inv'
<1>1. ASSUME NEW n \in ServiceNames, Expire(n)
      PROVE  Inv'
  <2>1. IsTable(services')
    BY <1>1 DEF Expire, Inv, TypeOK, IsTable, Record
  <2> QED BY <1>1, <2>1, TableStep DEF Expire, Inv, TypeOK
<1>2. CASE CleanupStale
  <2>1. IsTable(services')
    BY <1>2 DEF CleanupStale, Without, Inv, TypeOK, IsTable
  <2> QED BY <1>2, <2>1, TableStep DEF CleanupStale, Inv, TypeOK
<1>3. CASE UNCHANGED registryVars
  BY <1>3, TableStep DEF registryVars, Inv, TypeOK
<1>4. CASE ReadsEof
  BY <1>3, <1>4 DEF ReadsEof
<1> QED BY <1>1, <1>2, <1>3, <1>4, CallStep, ConnectStep, CloseStep, ReceiveStep, FailureStep,
   AcceptStep, ServeStep, RestartStep DEF RegistryNext, Server

LEMMA Invariant ==
  ASSUME Bounded
  PROVE  RegistrySpec => []Inv
<1>1. RegistryInit => Inv
  <2> SUFFICES ASSUME RegistryInit PROVE Inv
    OBVIOUS
  <2>1. TypeOK
    <3>1. IsTable(services)
      BY DEF RegistryInit, IsTable
    <3>2. conns \in Seq(Connections) /\ Len(conns) = 0
      BY DEF RegistryInit
    <3>3. backlog \in Seq(Nat \ {0}) /\ Len(backlog) = 0
      BY DEF RegistryInit
    <3>4. caller \in [Callers -> Client] /\ \A c \in Callers : caller[c].conn = 0
      <4>1. <<>> \in Seq(Results) /\ 0 \in 0..MaxRequests
        BY DEF Bounded
      <4> QED BY <4>1 DEF RegistryInit, Client, NoConn
    <3>5. made \in [Callers -> [1..MaxRequests -> Results]]
      <4>1. Nothing \in Results
        BY DEF Results
      <4> QED BY <4>1 DEF RegistryInit
    <3>6. serving = 0 /\ torn \in BOOLEAN
      BY DEF RegistryInit, NoConn
    <3> QED BY <3>1, <3>2, <3>3, <3>4, <3>5, <3>6 DEF TypeOK
  <2>2. Exchanges
    BY DEF RegistryInit, Exchanges, Apart, Waits, NoConn
  <2> QED BY <2>1, <2>2 DEF RegistryInit, Inv, AnswersOwn
<1>2. Inv /\ [RegistryNext]_registryVars => Inv'
  BY InvStep
<1> QED BY <1>1, <1>2, PTL DEF RegistrySpec

\* The table, the connections and the answers keep their types.
THEOREM TypeCorrect ==
  ASSUME Bounded
  PROVE  RegistrySpec => []TypeOK
<1>1. Inv => TypeOK
  BY DEF Inv
<1> QED BY <1>1, Invariant, PTL

\* Every call of a RegistryClient returns what the server made of that very call,
\* or fails; no reply to an earlier one is ever in its way.
THEOREM AnswersAreOwn ==
  ASSUME Bounded
  PROVE  RegistrySpec => []AnswersOwn
<1>1. Inv => AnswersOwn
  BY DEF Inv
<1> QED BY <1>1, Invariant, PTL
=============================================================================
