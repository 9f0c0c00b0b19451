----------------------------- MODULE TcpClient -----------------------------
(***************************************************************************)
(* WiFiClient objects and the socket handles they share.                   *)
(*                                                                         *)
(* A WiFiClient owns a reference to a WiFiClientSocketHandle through an    *)
(* AtomicSharedPtr; copies of the object share the handle, and the handle  *)
(* closes its lwIP descriptor when the last reference goes.  A handle      *)
(* keeps one descriptor all its life, so the model names the handle by its *)
(* descriptor.  Every method of WiFiClient that changes state is one       *)
(* action; each object is used by one task at a time, and the objects are  *)
(* interleaved with each other and with lwIP (the handshake, the peer).    *)
(* A call that returns early and changes nothing is a stuttering step.     *)
(*                                                                         *)
(* Time is counted in ticks of WIFI_CLIENT_CONN_CHECK_MS; `age` is         *)
(* millis() - _asyncStartMs, saturated above every finite timeout.         *)
(***************************************************************************)
EXTENDS Integers, FiniteSets

CONSTANTS
  Clients,      \* WiFiClient objects a sketch may construct
  Socks,        \* lwIP descriptors (LWIP_MAX_SOCKETS of them)
  NoSock,       \* an empty AtomicSharedPtr (fd() = -1)
  Peers,        \* remote endpoints
  NoPeer,       \* the address 0.0.0.0
  Timeouts,     \* values of _timeout, in ticks; Forever stands for a negative one
  Forever,
  DefTimeout,   \* WIFI_CLIENT_DEF_CONN_TIMEOUT_MS
  MaxAge,       \* where the age of a connection attempt saturates
  MaxPending    \* longest buffer handed to writeAsync()

ASSUME ClientsFinite == IsFiniteSet(Clients)
ASSUME NoSockAssumption == NoSock \notin Socks
ASSUME NoPeerAssumption == NoPeer \notin Peers
ASSUME TimeoutAssumption ==
  /\ Timeouts \subseteq Nat /\ DefTimeout \in Timeouts /\ Forever \in Nat
  /\ MaxAge \in Nat
  /\ \A t \in Timeouts : t < MaxAge \/ t = Forever
ASSUME PendingAssumption == MaxPending \in Nat \ {0}

VARIABLES
  live,   \* the objects that are constructed
  cl,     \* the members of each object
  sock    \* per descriptor: lwIP's state, and the handle that owns it

vars == <<live, cl, sock>>

(* What lwIP knows of a descriptor.  "err": the handshake failed and the   *)
(* error is still pending in SO_ERROR; "dead": it failed and the error was *)
(* read (getsockopt(SO_ERROR) clears it); "fin": the peer closed its side; *)
(* "rst": the connection was reset.                                        *)
Phases == {"closed", "syn", "est", "fin", "rst", "err", "dead"}

Client == [handle    : Socks \cup {NoSock},   \* clientSocketHandle
           st        : {"Idle", "Connecting"},\* _asyncConnState
           conn      : BOOLEAN,               \* _connected
           pend      : 0..MaxPending,         \* _txView._len
           valid     : BOOLEAN,               \* _ep.valid
           peerIp    : Peers \cup {NoPeer},   \* _ep.peerIp, which invalidate() leaves alone
           age       : 0..MaxAge,             \* millis() - _asyncStartMs
           timeout   : Timeouts,              \* _timeout
           throttled : BOOLEAN]               \* _lastConnCheck within the window

Sock == [phase  : Phases,
         peer   : Peers \cup {NoPeer},
         unread : BOOLEAN,                    \* _rx.hasBuffered()
         copied : BOOLEAN,                    \* was its owner copied mid-handshake?
         refs   : Nat]                        \* m_ref_count of the handle

(* WiFiClient(): every member at its default. *)
Blank == [handle |-> NoSock, st |-> "Idle", conn |-> FALSE, pend |-> 0,
          valid |-> FALSE, peerIp |-> NoPeer, age |-> 0, timeout |-> DefTimeout, throttled |-> FALSE]

ClosedSock == [phase |-> "closed", peer |-> NoPeer, unread |-> FALSE, copied |-> FALSE,
               refs |-> 0]

Init ==
  /\ live = {}
  /\ cl = [c \in Clients |-> Blank]
  /\ sock = [s \in Socks |-> ClosedSock]

-----------------------------------------------------------------------------
(* References to handles                                                   *)

Owners(s) == {c \in Clients : cl[c].handle = s}

(* Mutant: the last reference goes without closing the descriptor. *)
AfterResetNoClose(h) ==
  [s \in Socks |-> IF s # h THEN sock[s] ELSE [sock[s] EXCEPT !.refs = @ - 1]]

(* AtomicSharedPtr::reset() on a pointer to h: fetch_sub, and when it      *)
(* returned 1 the handle is deleted and its destructor closes the          *)
(* descriptor.                                                             *)
AfterReset(h) ==
  [s \in Socks |-> IF s # h THEN sock[s]
                   ELSE IF sock[s].refs = 1 THEN ClosedSock
                   ELSE [sock[s] EXCEPT !.refs = @ - 1]]

Handshaking(g) == \E c \in Owners(g) : cl[c].st = "Connecting"

(* AtomicSharedPtr::operator=(const&): the old reference goes, then the    *)
(* shared one is counted.                                                  *)
AfterShare(h, g) ==
  [s \in Socks |-> IF s = g THEN [AfterReset(h)[s] EXCEPT !.refs = @ + 1,
                                                         !.copied = @ \/ Handshaking(g)]
                   ELSE AfterReset(h)[s]]

(* AtomicSharedPtr::make(fd) move-assigned over a pointer to h: descriptor *)
(* n, open in phase ph to peer p, has its one owner.                       *)
AfterMake(h, n, ph, p) ==
  [s \in Socks |-> IF s = n THEN [phase |-> ph, peer |-> p, unread |-> FALSE, copied |-> FALSE,
                                 refs |-> 1]
                   ELSE AfterReset(h)[s]]

Free(s) == sock[s].phase = "closed"

(* Mutant: stop() forgets the handshake state. *)
StoppedStillConnecting(r) == [r EXCEPT !.pend = 0, !.valid = FALSE,
                                       !.handle = NoSock, !.conn = FALSE]

(* Members after stop(). *)
Stopped(r) == [r EXCEPT !.st = "Idle", !.pend = 0, !.valid = FALSE,
                        !.handle = NoSock, !.conn = FALSE]

-----------------------------------------------------------------------------
(* Construction, copy, move, destruction                                   *)

Construct(c) ==
  /\ c \notin live
  /\ live' = live \cup {c}
  /\ cl' = [cl EXCEPT ![c] = Blank]
  /\ UNCHANGED sock

(* WiFiClient(int fd): a connection a WiFiServer accepted. *)
ConstructFd(c, s, p) ==
  /\ c \notin live /\ Free(s)
  /\ live' = live \cup {c}
  /\ cl' = [cl EXCEPT ![c] = [Blank EXCEPT !.handle = s, !.conn = TRUE]]
  /\ sock' = AfterMake(NoSock, s, "est", p)

(* Members of a copy of d: all but the endpoint cache, the pending view    *)
(* and the handshake state included.  A new object's cache is at its       *)
(* default (a is NoPeer), that of an assigned one keeps its address a.     *)
CopyOf(d, a) == [cl[d] EXCEPT !.valid = FALSE, !.peerIp = a]

CopyConstruct(c, d) ==
  /\ c \notin live /\ d \in live
  /\ live' = live \cup {c}
  /\ cl' = [cl EXCEPT ![c] = CopyOf(d, NoPeer)]
  /\ sock' = AfterShare(NoSock, cl[d].handle)

(* operator=(const&) stops the target before it reads the source: assigning *)
(* an object to itself ends its connection.                                 *)
CopyAssign(c, d) ==
  /\ c \in live /\ d \in live
  /\ IF c = d
     THEN /\ cl' = [cl EXCEPT ![c] = Stopped(@)]
          /\ sock' = AfterReset(cl[c].handle)
     ELSE /\ cl' = [cl EXCEPT ![c] = CopyOf(d, cl[c].peerIp)]
          /\ sock' = AfterShare(cl[c].handle, cl[d].handle)
  /\ UNCHANGED live

(* The source of a move keeps its timers and loses everything else. *)
MoveConstruct(c, d) ==
  /\ c \notin live /\ d \in live
  /\ live' = live \cup {c}
  /\ cl' = [cl EXCEPT ![c] = CopyOf(d, NoPeer), ![d] = Stopped(@)]
  /\ UNCHANGED sock

MoveAssign(c, d) ==
  /\ c \in live /\ d \in live /\ c # d
  /\ cl' = [cl EXCEPT ![c] = CopyOf(d, cl[c].peerIp), ![d] = Stopped(@)]
  /\ sock' = AfterReset(cl[c].handle)
  /\ UNCHANGED live

Stop(c) ==
  /\ c \in live
  /\ cl' = [cl EXCEPT ![c] = Stopped(@)]
  /\ sock' = AfterReset(cl[c].handle)
  /\ UNCHANGED live

Destroy(c) ==
  /\ c \in live
  /\ live' = live \ {c}
  /\ cl' = [cl EXCEPT ![c] = Blank]
  /\ sock' = AfterReset(cl[c].handle)

-----------------------------------------------------------------------------
(* Connecting                                                              *)

(* Mutant: a reconnect keeps the endpoint cache of the old connection. *)
ConnectKeepsEndpoint(c, s, p, t) ==
  /\ c \in live /\ Free(s)
  /\ cl' = [cl EXCEPT ![c] = [@ EXCEPT !.timeout = t, !.handle = s, !.pend = 0,
                                       !.st = "Idle", !.conn = TRUE]]
  /\ sock' = AfterMake(cl[c].handle, s, "est", p)
  /\ UNCHANGED live

(* Mutant: a reconnect keeps the view of the old connection's tail. *)
ConnectKeepsView(c, s, p, t) ==
  /\ c \in live /\ Free(s)
  /\ cl' = [cl EXCEPT ![c] = [@ EXCEPT !.timeout = t, !.handle = s,
                                       !.st = "Idle", !.valid = FALSE, !.conn = TRUE]]
  /\ sock' = AfterMake(cl[c].handle, s, "est", p)
  /\ UNCHANGED live

(* connect(ip, port, timeout_ms) stores the timeout first.  The FdGuard    *)
(* closes the new descriptor on every failure, which leaves the object as  *)
(* it was otherwise; on success the old handle is let go.                  *)
Connect(c, s, p, t) ==
  /\ c \in live
  /\ \/ /\ cl' = [cl EXCEPT ![c].timeout = t]
        /\ UNCHANGED sock
     \/ /\ Free(s)
        /\ cl' = [cl EXCEPT ![c] = [@ EXCEPT !.timeout = t, !.handle = s, !.pend = 0,
                                             !.st = "Idle", !.valid = FALSE, !.conn = TRUE]]
        /\ sock' = AfterMake(cl[c].handle, s, "est", p)
  /\ UNCHANGED live

(* connectAsync(): refused while connected or connecting, and without      *)
(* effect when socket(), _configureSocket() or connect() fails.            *)
ConnectAsync(c, s, p) ==
  /\ c \in live /\ ~cl[c].conn /\ cl[c].st = "Idle" /\ Free(s)
  /\ cl' = [cl EXCEPT ![c] = [@ EXCEPT !.handle = s, !.pend = 0, !.valid = FALSE,
                                       !.st = "Connecting", !.age = 0]]
  /\ sock' = AfterMake(cl[c].handle, s, "syn", p)
  /\ UNCHANGED live

(* Mutant: the deadline is never reached. *)
NeverExpired(c) == FALSE

Expired(c) == cl[c].timeout # Forever /\ cl[c].age > cl[c].timeout

(* pollConnect() mid-handshake, select() reporting the socket not writable: *)
(* nothing happens until the deadline.                                      *)
PollConnectWaiting(c) ==
  /\ sock[cl[c].handle].phase = "syn" /\ Expired(c)
  /\ cl' = [cl EXCEPT ![c] = Stopped(@)]
  /\ sock' = AfterReset(cl[c].handle)

(* Mutant: the error is read and reported, and the handshake goes on. *)
PollConnectFailedOn(c) ==
  /\ sock[cl[c].handle].phase \in {"err", "rst"}
  /\ sock' = [sock EXCEPT ![cl[c].handle].phase = "dead"]
  /\ UNCHANGED cl

(* select() writable: getsockopt(SO_ERROR) tells success from failure, and *)
(* reading the error clears it for whoever shares the descriptor.          *)
PollConnectFailed(c) ==
  LET h == cl[c].handle IN
  /\ sock[h].phase \in {"err", "rst"}
  /\ cl' = [cl EXCEPT ![c] = Stopped(@)]
  /\ sock' = [s \in Socks |-> IF s = h /\ sock[h].refs # 1
                              THEN [sock[h] EXCEPT !.refs = @ - 1, !.phase = "dead"]
                              ELSE AfterReset(h)[s]]

PollConnectDone(c) ==
  /\ sock[cl[c].handle].phase \in {"est", "fin", "dead"}
  /\ cl' = [cl EXCEPT ![c].st = "Idle", ![c].conn = TRUE]
  /\ UNCHANGED sock

PollConnectVanished(c) ==
  /\ cl' = [cl EXCEPT ![c].st = "Idle"]
  /\ UNCHANGED sock

PollConnect(c) ==
  /\ c \in live /\ cl[c].st = "Connecting"
  /\ IF cl[c].handle = NoSock THEN PollConnectVanished(c)
     ELSE PollConnectWaiting(c) \/ PollConnectFailed(c) \/ PollConnectDone(c)
  /\ UNCHANGED live

SetTimeout(c, t) ==
  /\ c \in live
  /\ cl' = [cl EXCEPT ![c].timeout = t]
  /\ UNCHANGED <<live, sock>>

-----------------------------------------------------------------------------
(* Sending and receiving                                                   *)

Usable(c) == c \in live /\ cl[c].conn /\ cl[c].handle # NoSock

(* lwIP takes bytes only on an open connection. *)
Accepts(c) == sock[cl[c].handle].phase \in {"est", "fin"}

HardError(c) ==
  /\ cl' = [cl EXCEPT ![c] = Stopped(@)]
  /\ sock' = AfterReset(cl[c].handle)

(* writeAsync(buf, n): lwIP takes the first k bytes, a view of the rest    *)
(* stays pending; a hard error drops everything.                           *)
WriteAsync(c, n) ==
  /\ Usable(c) /\ cl[c].pend = 0
  /\ \/ /\ Accepts(c)
        /\ \E k \in 0..n : cl' = [cl EXCEPT ![c].pend = n - k]
        /\ UNCHANGED sock
     \/ HardError(c)
  /\ UNCHANGED live

(* Mutant: advance() subtracts without the n >= _len clamp. *)
PollWriteUnclamped(c) ==
  /\ Usable(c) /\ cl[c].pend > 0
  /\ \/ /\ Accepts(c)
        /\ \E k \in 1..MaxPending + 1 : cl' = [cl EXCEPT ![c].pend = @ - k]
        /\ UNCHANGED sock
     \/ HardError(c)
  /\ UNCHANGED live

(* pollWrite(): the view shrinks by what lwIP takes; EAGAIN to the end of  *)
(* the spin changes nothing; an object that is not connected returns -1    *)
(* and keeps its view.                                                     *)
PollWrite(c) ==
  /\ Usable(c) /\ cl[c].pend > 0
  /\ \/ /\ Accepts(c)
        /\ \E k \in 1..cl[c].pend : cl' = [cl EXCEPT ![c].pend = @ - k]
        /\ UNCHANGED sock
     \/ HardError(c)
  /\ UNCHANGED live

(* write() loops until every byte is taken or the timeout is spent, and    *)
(* stops the object on a hard error.                                       *)
Write(c) == Usable(c) /\ HardError(c) /\ UNCHANGED live

(* recv() fails on a connection that is not up, which it is asked only     *)
(* once the staged bytes are gone; the object is stopped.                  *)
ReadFails(c) ==
  LET h == cl[c].handle IN
  /\ sock[h].phase \in {"syn", "rst", "err", "dead"}
  /\ cl' = [cl EXCEPT ![c] = Stopped(@)]
  /\ sock' = [AfterReset(h) EXCEPT ![h].unread = FALSE]

(* read(), peek() and available(): bytes may be staged or consumed while   *)
(* the peer can have sent some; a failed receive buffer stops the object.  *)
Read(c) ==
  LET h == cl[c].handle IN
  /\ c \in live /\ h # NoSock
  /\ \/ /\ sock[h].phase \in {"est", "fin"} \/ sock[h].unread
        /\ \E u \in BOOLEAN : sock' = [sock EXCEPT ![h].unread = u]
        /\ UNCHANGED cl
     \/ ReadFails(c)
  /\ UNCHANGED live

Flush(c) ==
  /\ c \in live /\ cl[c].handle # NoSock
  /\ sock' = [sock EXCEPT ![cl[c].handle].unread = FALSE]
  /\ UNCHANGED <<live, cl>>

(* connected(): unread bytes answer for the socket, else it is polled once *)
(* per window.  POLLERR clears _connected and nothing else: the handle and *)
(* a pending view stay.  A graceful close only raises POLLIN.              *)
Connected(c) ==
  LET h == cl[c].handle IN
  /\ Usable(c) /\ ~sock[h].unread /\ ~cl[c].throttled
  /\ cl' = [cl EXCEPT ![c].throttled = TRUE,
                      ![c].conn = sock[h].phase \notin {"rst", "err", "dead"}]
  /\ UNCHANGED <<live, sock>>

(* remoteIP(), localIP(), cacheEndpoints()...: getpeername() and           *)
(* getsockname() answer while lwIP has a protocol control block for the    *)
(* descriptor.  When the second fails the address is stored all the same;  *)
(* when the first does, remoteIP() returns whatever address is left.       *)
CacheEndpoints(c) ==
  /\ c \in live /\ cl[c].handle # NoSock /\ ~cl[c].valid
  /\ sock[cl[c].handle].phase \in {"syn", "est", "fin"}
  /\ \E v \in BOOLEAN :
       cl' = [cl EXCEPT ![c].peerIp = sock[cl[c].handle].peer, ![c].valid = v]
  /\ UNCHANGED <<live, sock>>

-----------------------------------------------------------------------------
(* lwIP and the peer                                                       *)

Handshake(s) ==
  /\ sock[s].phase = "syn"
  /\ \E ph \in {"est", "err"} : sock' = [sock EXCEPT ![s].phase = ph]
  /\ UNCHANGED <<live, cl>>

PeerCloses(s) ==
  /\ \/ sock[s].phase = "est" /\ sock' = [sock EXCEPT ![s].phase = "fin"]
     \/ sock[s].phase \in {"est", "fin"} /\ sock' = [sock EXCEPT ![s].phase = "rst"]
  /\ UNCHANGED <<live, cl>>

Tick ==
  /\ cl' = [c \in Clients |->
              [cl[c] EXCEPT !.throttled = FALSE,
                            !.age = IF cl[c].st = "Connecting" /\ @ < MaxAge THEN @ + 1 ELSE @]]
  /\ UNCHANGED <<live, sock>>

Lifecycle(c) ==
  \/ Construct(c) \/ Stop(c) \/ Destroy(c)
  \/ \E s \in Socks, p \in Peers : ConstructFd(c, s, p)
  \/ \E d \in Clients : \/ CopyConstruct(c, d) \/ CopyAssign(c, d)
                        \/ MoveConstruct(c, d) \/ MoveAssign(c, d)

Connecting(c) ==
  \/ \E s \in Socks, p \in Peers : \/ ConnectAsync(c, s, p)
                                   \/ \E t \in Timeouts : Connect(c, s, p, t)
  \/ PollConnect(c)
  \/ \E t \in Timeouts : SetTimeout(c, t)

Outgoing(c) ==
  \/ \E n \in 1..MaxPending : WriteAsync(c, n)
  \/ PollWrite(c) \/ Write(c) \/ Connected(c) \/ CacheEndpoints(c)

Transfer(c) == Outgoing(c) \/ Read(c) \/ Flush(c)

Next ==
  \/ \E c \in Clients : Lifecycle(c) \/ Connecting(c) \/ Transfer(c)
  \/ \E s \in Socks : Handshake(s) \/ PeerCloses(s)
  \/ Tick

Spec == Init /\ [][Next]_vars

-----------------------------------------------------------------------------
(* Properties                                                              *)

(* Every member of every object, and every descriptor, holds a value of    *)
(* its type: the WiFiClient members and WiFiClientSocketHandle.            *)
TypeOK ==
  /\ live \subseteq Clients
  /\ cl \in [Clients -> Client]
  /\ sock \in [Socks -> Sock]

(* m_ref_count of a handle is the number of objects that hold it, through  *)
(* every copy, move, assignment, reconnect and stop() of WiFiClient.       *)
RefsCountOwners == \A s \in Socks : sock[s].refs = Cardinality(Owners(s))

(* A descriptor is open exactly while some object owns it: the README's    *)
(* "leak-proof descriptors", and no object is left with a closed one.      *)
DescriptorsOwned == \A s \in Socks : Free(s) <=> Owners(s) = {}

(* The members of an object agree: connected or connecting only with a     *)
(* handle and never both, a pending view only on a connection that is or   *)
(* was up.  (So the "socket vanished mid-handshake" branch of pollConnect()*)
(* is never taken.)                                                        *)
MembersAgree ==
  \A c \in Clients :
    /\ cl[c].conn \/ cl[c].st = "Connecting" \/ cl[c].pend > 0 => cl[c].handle # NoSock
    /\ cl[c].st = "Connecting" => ~cl[c].conn /\ cl[c].pend = 0
    /\ c \notin live => cl[c].handle = NoSock

(* A valid EndpointCache names the peer of the connection the object holds *)
(* now, never that of an earlier connection or of a recycled descriptor.   *)
EndpointFresh ==
  \A c \in Clients : cl[c].valid =>
    cl[c].handle # NoSock /\ cl[c].peerIp = sock[cl[c].handle].peer

(* When an object changes its connection, a view still pending in it was   *)
(* taken over from another owner of that same connection: the tail of one  *)
(* connection is never sent on another.                                    *)
ViewStaysWithConnection ==
  [][\A c \in Clients :
       cl'[c].pend > 0 /\ cl'[c].handle # cl[c].handle =>
         \E d \in Clients : cl[d].handle = cl'[c].handle /\ cl[d].pend = cl'[c].pend]_vars

(* pollConnect() reports success (WiFiClient.h: "Returns 1 = connected")   *)
(* of a handshake that failed only to an object that shares it: one copy's *)
(* getsockopt(SO_ERROR) takes the error that the other would have read.    *)
PollConnectTruthful ==
  [][\A c \in Clients :
       PollConnect(c) /\ cl'[c].conn /\ ~sock[cl[c].handle].copied =>
         sock[cl[c].handle].phase \in {"est", "fin"}]_vars

(* An asynchronous connect that the sketch pumps is resolved: it becomes   *)
(* connected, fails, or is stopped at its deadline by pollConnect().       *)
ConnectResolves == \A c \in Clients : cl[c].st = "Connecting" ~> cl[c].st = "Idle"
=============================================================================
