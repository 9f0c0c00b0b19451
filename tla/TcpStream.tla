----------------------------- MODULE TcpStream -----------------------------
(***************************************************************************)
(* The bytes a WiFiClient receives: TcpClient with the WiFiClientRxBuffer  *)
(* that every handle owns.                                                 *)
(*                                                                         *)
(* The bytes of a connection are numbered 1, 2, ... in the order the peer  *)
(* sent them; lwIP queues them until recv() takes some, and the buffer     *)
(* keeps in _buffer[_pos.._fill-1] the ones that no read() has asked for.  *)
(* recv() returns any positive number of the bytes that are queued.  Every *)
(* step is a step of TcpClient, whose `unread` is hasBuffered(), or sends  *)
(* a byte.                                                                 *)
(***************************************************************************)
EXTENDS TcpClient, Sequences

CONSTANTS
  RxSize,     \* WIFI_CLIENT_RX_BUFFER_SIZE
  ReadSizes,  \* lengths that the sketch asks read() for
  MaxBytes    \* bytes that a peer sends on one connection (a bound)

ASSUME StreamAssumption ==
  RxSize \in Nat \ {0} /\ MaxBytes \in Nat /\ ReadSizes \subseteq Nat \ {0}

VARIABLE rx   \* per descriptor: the connection's bytes and the handle's buffer

streamVars == <<vars, rx>>

Rx == [sent  : 0..MaxBytes,                   \* bytes the peer has sent
       recvd : 0..MaxBytes,                   \* bytes that recv() took from lwIP
       taken : 0..MaxBytes,                   \* bytes that read() returned or flush() dropped
       buf   : [1..RxSize -> 0..MaxBytes],    \* _buffer
       pos   : 0..RxSize,                     \* _pos
       fill  : 0..RxSize,                     \* _fill
       out   : Seq(1..MaxBytes)]              \* what the last read() copied to its caller

(* WiFiClientRxBuffer(fd), on a connection that has carried nothing. *)
NoBytes == [sent |-> 0, recvd |-> 0, taken |-> 0, buf |-> [i \in 1..RxSize |-> 0],
            pos |-> 0, fill |-> 0, out |-> <<>>]

StreamInit == Init /\ rx = [s \in Socks |-> NoBytes]

Least(a, b) == IF a < b THEN a ELSE b
Queued(r) == r.sent - r.recvd
hasBuffered(r) == r.fill > r.pos

-----------------------------------------------------------------------------
(* WiFiClientRxBuffer                                                      *)

Rewound(r) == IF r.pos = r.fill THEN [r EXCEPT !.pos = 0, !.fill = 0] ELSE r

(* memcpy() of n buffered bytes to the caller. *)
Copied(r, n) ==
  [r EXCEPT !.out = @ \o [i \in 1..n |-> r.buf[r.pos + i]], !.pos = @ + n, !.taken = @ + n]

(* recv() of k bytes into _buffer, from its cell `at` on. *)
Staged(r, at, k) ==
  [r EXCEPT !.buf = [i \in 1..RxSize |-> IF i \in at + 1..at + k THEN r.recvd + i - at ELSE @[i]],
            !.fill = at + k, !.recvd = @ + k]

(* recv() of k bytes straight into the caller's memory. *)
Bypassed(r, k) ==
  [r EXCEPT !.out = @ \o [i \in 1..k |-> r.recvd + i], !.recvd = @ + k, !.taken = @ + k]

(* Mutant: a large read() goes to recv() before the buffer is empty. *)
ServedAfterBypass(r, n) ==
  IF hasBuffered(r) /\ n < RxSize
  THEN Rewound(Copied([r EXCEPT !.out = <<>>], Least(n, r.fill - r.pos)))
  ELSE [r EXCEPT !.out = <<>>]

(* read(), first part: what is buffered already. *)
Served(r, n) ==
  IF hasBuffered(r) THEN Rewound(Copied([r EXCEPT !.out = <<>>], Least(n, r.fill - r.pos)))
  ELSE [r EXCEPT !.out = <<>>]

(* read(), second part, on a connection that is up: a remainder of a whole *)
(* buffer goes straight to the caller, a smaller one is staged.            *)
ReceivedInto(r, rest) ==
  IF Queued(r) = 0 THEN {r}
  ELSE IF rest >= RxSize THEN {Bypassed(r, k) : k \in 1..Least(rest, Queued(r))}
  ELSE {Rewound(Copied([Staged(r, 0, k) EXCEPT !.pos = 0], Least(rest, k)))
        : k \in 1..Least(RxSize, Queued(r))}

(* fillBuffer(), on a connection that is up. *)
fillBuffer(r) ==
  LET r0 == Rewound(r) IN
  IF r0.fill >= RxSize \/ Queued(r0) = 0 THEN {r0}
  ELSE {Staged(r0, r0.fill, k) : k \in 1..Least(RxSize - r0.fill, Queued(r0))}

(* flush(): the buffer, and everything that recv() still returns. *)
Flushed(r, up) ==
  LET last == IF up THEN r.sent ELSE r.recvd IN
  [r EXCEPT !.pos = 0, !.fill = 0, !.recvd = last, !.taken = last, !.out = <<>>]

-----------------------------------------------------------------------------
(* The object's calls                                                      *)

Up(s) == sock[s].phase \in {"est", "fin"}

(* The buffers after a step: they go with their handles. *)
KeptBytes(b) == rx' = [s \in Socks |-> IF Free(s)' THEN NoBytes ELSE b[s]]

(* The step that leaves buffer r in the handle of c, without an error. *)
Leaves(c, r) ==
  /\ rx' = [rx EXCEPT ![cl[c].handle] = r]
  /\ cl' = cl
  /\ sock' = [sock EXCEPT ![cl[c].handle].unread = hasBuffered(r)]

ReadBytes(c, n) ==
  /\ Read(c)
  /\ LET h == cl[c].handle
         r == Served(rx[h], n)
         rest == n - Len(r.out) IN
       \/ rest = 0 /\ Leaves(c, r)
       \/ rest > 0 /\ Up(h) /\ \E r1 \in ReceivedInto(r, rest) : Leaves(c, r1)
       \/ rest > 0 /\ ReadFails(c) /\ KeptBytes([rx EXCEPT ![h] = r])

Peek(c) ==
  /\ Read(c)
  /\ LET h == cl[c].handle IN
       \/ hasBuffered(rx[h]) /\ Leaves(c, rx[h])
       \/ ~hasBuffered(rx[h]) /\ Up(h) /\ \E r \in fillBuffer(rx[h]) : Leaves(c, r)
       \/ ~hasBuffered(rx[h]) /\ ReadFails(c) /\ KeptBytes(rx)

FlushBytes(c) ==
  /\ Flush(c)
  /\ rx' = [rx EXCEPT ![cl[c].handle] = Flushed(@, Up(cl[c].handle))]

PeerSends(s) ==
  /\ sock[s].phase = "est" /\ rx[s].sent < MaxBytes
  /\ rx' = [rx EXCEPT ![s].sent = @ + 1]
  /\ UNCHANGED vars

StreamNext ==
  \/ /\ \/ \E c \in Clients : Lifecycle(c) \/ Connecting(c) \/ Outgoing(c)
        \/ \E s \in Socks : Handshake(s) \/ PeerCloses(s)
        \/ Tick
     /\ KeptBytes(rx)
  \/ \E c \in Clients : Peek(c) \/ FlushBytes(c) \/ \E n \in ReadSizes : ReadBytes(c, n)
  \/ \E s \in Socks : PeerSends(s)

(* A sketch that pumps its asynchronous operations from loop(), on a clock *)
(* that advances.                                                          *)
StreamSpec ==
  /\ StreamInit /\ [][StreamNext]_streamVars
  /\ WF_vars(Tick)
  /\ \A c \in Clients : WF_vars(PollConnect(c)) /\ WF_vars(PollWrite(c))

-----------------------------------------------------------------------------
(* Properties                                                              *)

(* read() returns the connection's bytes in order, none lost, repeated or  *)
(* left over from an earlier use of _buffer, however reads, peeks and      *)
(* flushes of the owners of a handle alternate and recv() cuts the stream: *)
(* what the last read() copied ends with the last byte taken, and what is  *)
(* buffered goes on from there to the last byte that recv() returned.      *)
BytesInOrder ==
  \A s \in Socks : LET r == rx[s] IN
    /\ \A i \in 1..Len(r.out) : r.out[i] = r.taken - Len(r.out) + i
    /\ \A i \in r.pos + 1..r.fill : r.buf[i] = r.taken + i - r.pos
    /\ r.taken + r.fill - r.pos = r.recvd
=============================================================================
