------------------------------- MODULE Registry -------------------------------
(***************************************************************************)
(* Service discovery by name: MemoryRegistry and RegistryClient of         *)
(* src/src/registry.cpp, and the server that serves one client at a time   *)
(* (src/examples/registry/registry_service.cpp).  A client's calls are     *)
(* under its mutex; a connection outlives the call that opened it.         *)
(***************************************************************************)
EXTENDS Integers, Sequences

CONSTANTS
  Callers,         \* RegistryClient objects; each registers an address of its own
  ServiceNames,    \* service names
  MaxRequests,     \* bound on the calls of a client
  MaxConnections,  \* bound on the connections made
  MaxRestarts      \* bound on the times the server is started again

VARIABLES
  services,  \* services_: the address and the age of what is registered
  caller,    \* [conn, seq, waiting, told]: transport_, sequence_id_, the call
  conns,     \* the connections: [up, served, requests, replies]
  backlog,   \* connections the server has yet to accept
  serving,   \* the connection of its inner loop, or NoConn
  restarts,
  made,      \* what the server made of each request
  torn       \* requests a client saw answered under another number

registryVars == <<services, caller, conns, backlog, serving, restarts, made, torn>>

NoConn == 0
CallKinds == {"register", "unregister", "discover", "list", "heartbeat"}
Request(seq, kind, name, from) == [seq |-> seq, kind |-> kind, name |-> name, from |-> from]
Nothing == <<"none">>

RegistryInit ==
  /\ services = [n \in {} |-> Nothing]
  /\ caller = [c \in Callers |-> [conn |-> NoConn, seq |-> 0, waiting |-> FALSE, told |-> <<>>]]
  /\ conns = <<>> /\ backlog = <<>> /\ serving = NoConn /\ restarts = 0
  /\ made = [c \in Callers |-> [n \in 1..MaxRequests |-> Nothing]]
  /\ torn = FALSE

-----------------------------------------------------------------------------
(* MemoryRegistry: every operation under its mutex                         *)

Without(names) == [n \in DOMAIN services \ names |-> services[n]]
Stale == {n \in DOMAIN services : ~services[n].fresh}

\* A name is refused while it is there, stale or not.
RegisterService(r) ==
  IF r.name \in DOMAIN services THEN <<FALSE, services>>
  ELSE <<TRUE, [n \in DOMAIN services \cup {r.name} |->
                  IF n = r.name THEN [address |-> r.from, fresh |-> TRUE] ELSE services[n]]>>

UnregisterService(r) == <<r.name \in DOMAIN services, Without({r.name})>>

\* A stale one is dropped when it is asked for.
Discover(r) ==
  IF r.name \in DOMAIN services \ Stale THEN <<services[r.name].address, services>>
  ELSE <<"unknown", Without({r.name})>>

ListAll == <<{<<n, services[n].address>> : n \in DOMAIN services \ Stale}, Without(Stale)>>

\* A heartbeat revives a stale one.
Heartbeat(r) ==
  IF r.name \notin DOMAIN services THEN <<FALSE, services>>
  ELSE <<TRUE, [services EXCEPT ![r.name].fresh = TRUE]>>

\* dispatch_Registry: the answer and the table it leaves.
Dispatch(r) ==
  CASE r.kind = "register"   -> RegisterService(r)
    [] r.kind = "unregister" -> UnregisterService(r)
    [] r.kind = "discover"   -> Discover(r)
    [] r.kind = "list"       -> ListAll
    [] r.kind = "heartbeat"  -> Heartbeat(r)

\* The expiry time passes without a heartbeat.
Expire(n) ==
  /\ n \in DOMAIN services /\ services[n].fresh
  /\ services' = [services EXCEPT ![n].fresh = FALSE]
  /\ UNCHANGED <<caller, conns, backlog, serving, restarts, made, torn>>

CleanupStale ==
  /\ Stale # {}
  /\ services' = Without(Stale)
  /\ UNCHANGED <<caller, conns, backlog, serving, restarts, made, torn>>

-----------------------------------------------------------------------------
(* RegistryClient                                                          *)

Told(c, result) == [caller[c] EXCEPT !.waiting = FALSE, !.told = Append(@, result)]
Failure == <<"failed">>
Hangup(k) == IF k = NoConn THEN conns ELSE [conns EXCEPT ![k].up = FALSE]
NewConn == [up |-> TRUE, served |-> TRUE, requests |-> <<>>, replies |-> <<>>]

\* call() up to the reply.  ensure_connected makes a connection when there is no
\* transport; one the server has closed still counts as connected.
Call(c, kind, name) ==
  /\ ~caller[c].waiting /\ caller[c].seq < MaxRequests
  /\ LET old == caller[c].conn
         k   == IF old = NoConn THEN Len(conns) + 1 ELSE old
         all == IF old = NoConn THEN Append(conns, NewConn) ELSE conns
         seq == caller[c].seq + 1
         request == Request(seq, kind, name, c)
     IN /\ k <= MaxConnections
        /\ backlog' = IF old = NoConn THEN Append(backlog, k) ELSE backlog
        /\ caller' = [caller EXCEPT ![c] = [@ EXCEPT !.conn = k, !.seq = seq, !.waiting = TRUE]]
        /\ conns' = IF all[k].served THEN [all EXCEPT ![k].requests = Append(@, request)] ELSE all
  /\ UNCHANGED <<services, serving, restarts, made, torn>>

\* connect(): the transport that was there is destroyed.
ConnectClient(c) ==
  /\ ~caller[c].waiting /\ Len(conns) < MaxConnections
  /\ conns' = Append(Hangup(caller[c].conn), NewConn)
  /\ backlog' = Append(backlog, Len(conns) + 1)
  /\ caller' = [caller EXCEPT ![c].conn = Len(conns) + 1]
  /\ UNCHANGED <<services, serving, restarts, made, torn>>

CloseClient(c) ==
  /\ ~caller[c].waiting /\ caller[c].conn # NoConn
  /\ conns' = Hangup(caller[c].conn)
  /\ caller' = [caller EXCEPT ![c].conn = NoConn]
  /\ UNCHANGED <<services, backlog, serving, restarts, made, torn>>

\* A message arrives; another sequence number makes the call fail.
Receive(c) ==
  /\ caller[c].waiting /\ conns[caller[c].conn].replies # <<>>
  /\ LET k == caller[c].conn
         reply == Head(conns[k].replies)
         fits  == reply.seq = caller[c].seq
     IN /\ caller' = [caller EXCEPT ![c] = Told(c, IF fits THEN reply.answer ELSE Failure)]
        /\ conns' = [conns EXCEPT ![k].replies = Tail(@)]
        /\ torn' = (torn \/ ~fits)
  /\ UNCHANGED <<services, backlog, serving, restarts, made>>

\* The server has closed the connection: receive() returns false and the
\* transport stays.
Eof(c) ==
  /\ caller[c].waiting
  /\ LET k == caller[c].conn IN ~conns[k].served /\ conns[k].replies = <<>>
  /\ caller' = [caller EXCEPT ![c] = Told(c, Failure)]
  /\ UNCHANGED <<services, conns, backlog, serving, restarts, made, torn>>

\* Mutant: the connection is kept after a timeout.
CaughtKeeps(c) ==
  /\ caller[c].waiting /\ conns[caller[c].conn].replies = <<>>
  /\ caller' = [caller EXCEPT ![c] = Told(c, Failure)]
  /\ UNCHANGED <<services, conns, backlog, serving, restarts, made, torn>>

\* send() or receive() throws, on a timeout or a connection that was reset: the
\* catch block closes the connection, and the next call makes another.
Caught(c) ==
  /\ caller[c].waiting /\ conns[caller[c].conn].replies = <<>>
  /\ caller' = [caller EXCEPT ![c] = [Told(c, Failure) EXCEPT !.conn = NoConn]]
  /\ conns' = Hangup(caller[c].conn)
  /\ UNCHANGED <<services, backlog, serving, restarts, made, torn>>

-----------------------------------------------------------------------------
(* The server                                                              *)

\* The accept loop, when the inner one has left its connection.
AcceptClient ==
  /\ serving = NoConn /\ backlog # <<>>
  /\ serving' = Head(backlog) /\ backlog' = Tail(backlog)
  /\ UNCHANGED <<services, caller, conns, restarts, made, torn>>

\* The inner loop takes a call; a reply to a client that is gone is lost.
Serve ==
  /\ serving # NoConn /\ conns[serving].requests # <<>>
  /\ LET r == Head(conns[serving].requests)
         done == Dispatch(r)
         reply == [seq |-> r.seq, answer |-> <<r.kind, done[1]>>]
     IN /\ services' = done[2]
        /\ made' = [made EXCEPT ![r.from][r.seq] = <<r.kind, done[1]>>]
        /\ conns' = [conns EXCEPT ![serving].requests = Tail(@),
                                  ![serving].replies = IF conns[serving].up THEN Append(@, reply)
                                                       ELSE @]
  /\ UNCHANGED <<caller, backlog, serving, restarts, torn>>

\* The end of the stream makes receive() return false, which the loop takes for
\* a timeout: it asks again, and is_connected() stays true.  Nothing changes.
ReadsEof == serving # NoConn /\ conns[serving].requests = <<>> /\ ~conns[serving].up
            /\ UNCHANGED registryVars

\* The server dies and is started again: its table was in memory.
Restart ==
  /\ restarts < MaxRestarts
  /\ restarts' = restarts + 1
  /\ services' = [n \in {} |-> Nothing]
  /\ conns' = [k \in DOMAIN conns |-> [conns[k] EXCEPT !.served = FALSE, !.requests = <<>>]]
  /\ backlog' = <<>> /\ serving' = NoConn
  /\ UNCHANGED <<caller, made, torn>>

Server == AcceptClient \/ Serve \/ ReadsEof

RegistryNext ==
  \/ \E c \in Callers : \/ \E kind \in CallKinds, name \in ServiceNames : Call(c, kind, name)
                        \/ ConnectClient(c) \/ CloseClient(c) \/ Receive(c) \/ Eof(c) \/ Caught(c)
  \/ \E n \in ServiceNames : Expire(n)
  \/ CleanupStale \/ Server \/ Restart

RegistrySpec == RegistryInit /\ [][RegistryNext]_registryVars
\* The server's loops go on; nothing is assumed of its clients.
FairSpec == RegistrySpec /\ WF_registryVars(Server)

-----------------------------------------------------------------------------
\* A call that returns an answer returns what the server made of that very call,
\* also after timeouts, late replies, reconnects and restarts; none fails
\* because the reply to an earlier one was in its way.
AnswersOwn ==
  /\ ~torn
  /\ \A c \in Callers : \A n \in DOMAIN caller[c].told :
       caller[c].told[n] \in {Failure, made[c][n]}

\* transport.hpp:30 says that false from receive() is the end of the connection:
\* the server must then leave it and serve the next client.
GoneClientLeft == \A k \in 1..MaxConnections :
  (serving = k /\ ~conns[k].up) ~> (serving # k)
==============================================================================
