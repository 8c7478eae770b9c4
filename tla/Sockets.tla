------------------------------- MODULE Sockets -------------------------------
(***************************************************************************)
(* Who closes which file descriptor: the life of Pipe (src/src/pipe.cpp),  *)
(* TcpTransport and TcpListener (transport.cpp) and TlsTransport and       *)
(* TlsListener (tls.cpp) objects, through construction, connection,        *)
(* acceptance, moves and every way these can fail.  A number that was      *)
(* closed is soon given to another file, so closing it twice closes that.  *)
(***************************************************************************)
EXTENDS Integers, FiniteSets

CONSTANTS
  Objects,     \* objects of the program
  Descriptors  \* positive numbers the system gives out

VARIABLES
  object,      \* the live objects: [kind, fd, port, done]
  files        \* the open descriptors

socketVars == <<object, files>>

None == 0  \* -1 in the code
ObjectKinds == {"pipe", "tcp", "listener", "tls", "tls listener"}
\* sock_ or the pipe's descriptor, port_ or peer_port_ (1 is any port) and
\* handshake_done.
Object(kind, fd, port, done) == [kind |-> kind, fd |-> fd, port |-> port, done |-> done]
Blank(kind) == Object(kind, None, 0, FALSE)
Socket(kind, fd) == Object(kind, fd, 1, FALSE)
PipeEnd(fd) == Object("pipe", fd, 0, FALSE)

Live == DOMAIN object
Holds(o, kind) == o \in Live /\ object[o].kind = kind
Put(o, v) == object' = [x \in Live \cup {o} |-> IF x = o THEN v ELSE object[x]]
Gone(o) == object' = [x \in Live \ {o} |-> object[x]]
Free == Descriptors \ files

SocketsInit == object = [o \in {} |-> Blank("tcp")] /\ files = {}

-----------------------------------------------------------------------------
(* What all of them do                                                     *)

\* A default-constructed object owns nothing.
Construct(o, kind) ==
  /\ o \notin Live /\ kind \in {"tcp", "listener", "tls listener"}
  /\ Put(o, Blank(kind)) /\ UNCHANGED files

\* close(): a second one finds no descriptor.
Close(o) ==
  /\ o \in Live
  /\ Put(o, Blank(object[o].kind))
  /\ files' = files \ {object[o].fd}

Destroy(o) ==
  /\ o \in Live
  /\ Gone(o) /\ files' = files \ {object[o].fd}

\* Mutant: a move leaves the descriptor in the object it came from.
MoveKeeps(dst, src) ==
  /\ src \in Live /\ dst # src /\ object[src].kind # "tls listener"
  /\ dst \in Live => object[dst].kind = object[src].kind
  /\ object' = [x \in Live \cup {dst} |-> IF x = dst THEN object[src] ELSE object[x]]
  /\ files' = IF dst \in Live THEN files \ {object[dst].fd} ELSE files

\* Move construction and assignment; what dst had is closed first.
Move(dst, src) ==
  /\ src \in Live /\ dst # src /\ object[src].kind # "tls listener"
  /\ dst \in Live => object[dst].kind = object[src].kind
  /\ object' = [x \in Live \cup {dst} |-> CASE x = dst -> object[src]
                                            [] x = src -> Blank(object[src].kind)
                                            [] OTHER   -> object[x]]
  /\ files' = IF dst \in Live THEN files \ {object[dst].fd} ELSE files

-----------------------------------------------------------------------------
(* Opening                                                                 *)

\* create_pair returns the read end and the write end in two objects.
CreatePair(r, w) ==
  /\ r \notin Live /\ w \notin Live /\ r # w
  /\ \E a, b \in Free : a # b
       /\ object' = [x \in Live \cup {r, w} |->
                       CASE x = r -> PipeEnd(a)
                         [] x = w -> PipeEnd(b)
                         [] OTHER -> object[x]]
       /\ files' = files \cup {a, b}

\* connect() closes what the transport had; then the host is not found or no
\* socket is made, or the connection is made, or it fails and is closed again.
Connect(o) ==
  /\ Holds(o, "tcp")
  /\ LET kept == files \ {object[o].fd} IN
     \/ Put(o, Blank("tcp")) /\ files' = kept
     \/ \E fd \in Descriptors \ kept : Put(o, Socket("tcp", fd)) /\ files' = kept \cup {fd}

\* listen() closes what the listener had; a bad address, a failed bind or a
\* failed listen closes the new socket.
Listen(o) ==
  /\ Holds(o, "listener") \/ Holds(o, "tls listener")
  /\ LET kept == files \ {object[o].fd}
         kind == object[o].kind IN
     \/ Put(o, Blank(kind)) /\ files' = kept
     \/ \E fd \in Descriptors \ kept : Put(o, Socket(kind, fd)) /\ files' = kept \cup {fd}

\* accept() of a TcpListener; a timeout or an error makes no transport.
Accept(l, o) ==
  /\ Holds(l, "listener") /\ object[l].fd # None
  /\ o \notin Live
  /\ \E fd \in Free : Put(o, Socket("tcp", fd)) /\ files' = files \cup {fd}

\* A TlsTransport takes a connected socket: a client's own, or in accept() of a
\* TlsListener a duplicate, the TcpTransport that held the original being
\* closed.  When the constructor throws the socket is closed.
TlsConstruct(o) ==
  /\ o \notin Live
  /\ \E fd \in Free : Put(o, Socket("tls", fd)) /\ files' = files \cup {fd}

\* handshake() of a connected TlsTransport, whose port is 0 once one failed: the
\* socket is left to close() or the destructor.
Handshake(o) ==
  /\ Holds(o, "tls") /\ object[o].port # 0 /\ ~object[o].done
  /\ \/ Put(o, Object("tls", object[o].fd, object[o].port, TRUE))
     \/ Put(o, Object("tls", object[o].fd, 0, FALSE))
  /\ UNCHANGED files

\* accept() of a TlsListener runs the handshake too.
TlsAccept(l, o) ==
  /\ Holds(l, "tls listener") /\ object[l].fd # None
  /\ o \notin Live
  /\ \E fd \in Free : Put(o, Object("tls", fd, 1, TRUE)) /\ files' = files \cup {fd}

SocketsNext == \E o \in Objects :
  \/ \E kind \in ObjectKinds : Construct(o, kind)
  \/ Close(o) \/ Destroy(o) \/ Connect(o) \/ Listen(o) \/ TlsConstruct(o) \/ Handshake(o)
  \/ \E p \in Objects : Move(o, p) \/ CreatePair(o, p) \/ Accept(p, o) \/ TlsAccept(p, o)

SocketsSpec == SocketsInit /\ [][SocketsNext]_socketVars

-----------------------------------------------------------------------------
\* Every open descriptor has one owner that will close it, and no object owns a
\* closed one, however objects were moved, reconnected or failed to open; what an
\* object says of its connection (is_connected, bound_port, the close notify of
\* TLS) agrees with its descriptor.
FdsOwned ==
  /\ files = {object[o].fd : o \in Live} \ {None}
  /\ \A o, p \in Live : o # p /\ object[o].fd = object[p].fd => object[o].fd = None
  /\ \A o \in Live : /\ object[o].kind \notin {"pipe", "tls"} =>
                          (object[o].port # 0 <=> object[o].fd # None)
                     /\ object[o].done \/ object[o].port # 0 => object[o].fd # None
==============================================================================
