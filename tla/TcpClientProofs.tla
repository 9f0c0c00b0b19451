-------------------------- MODULE TcpClientProofs --------------------------
(***************************************************************************)
(* Proofs about TcpClient, for any number of objects, descriptors, peers   *)
(* and timeouts.  TypeOK is not inductive by itself: that m_ref_count      *)
(* never drops below zero rests on it being the number of owners, which in *)
(* turn needs the members of an object to agree.  The induction therefore  *)
(* runs over all four invariants together.  The endpoint cache, the        *)
(* handshakes and, for TcpStream, the receive buffers are added to it.     *)
(***************************************************************************)
EXTENDS TcpStream, FiniteSetTheorems, SequenceTheorems, TLAPS

Ownership == RefsCountOwners /\ DescriptorsOwned

IInv == TypeOK /\ Ownership /\ MembersAgree

-----------------------------------------------------------------------------
(* Counting owners                                                         *)

(* The owners of a descriptor are finitely many, so their number is a      *)
(* natural number that is zero only when there are none.                   *)
LEMMA OwnersFinite ==
  ASSUME NEW s
  PROVE  /\ IsFiniteSet(Owners(s))
         /\ Cardinality(Owners(s)) \in Nat
         /\ Cardinality(Owners(s)) = 0 <=> Owners(s) = {}
<1>1. Owners(s) \subseteq Clients
  BY DEF Owners
<1>2. IsFiniteSet(Owners(s))
  BY <1>1, ClientsFinite, FS_Subset
<1>3. QED
  BY <1>2, FS_CardinalityType, FS_EmptySet

(* The count of owners when one joins and when one leaves. *)
LEMMA OwnerJoins ==
  ASSUME NEW s, NEW c, c \notin Owners(s)
  PROVE  Cardinality(Owners(s) \cup {c}) = Cardinality(Owners(s)) + 1
BY OwnersFinite, FS_AddElement

LEMMA OwnerLeaves ==
  ASSUME NEW s, NEW c, c \in Owners(s)
  PROVE  Cardinality(Owners(s) \ {c}) = Cardinality(Owners(s)) - 1
BY OwnersFinite, FS_RemoveElement

(* A descriptor that is held is counted, and open. *)
LEMMA HeldIsCounted ==
  ASSUME TypeOK, Ownership, NEW c \in Clients, cl[c].handle # NoSock
  PROVE  /\ cl[c].handle \in Socks
         /\ c \in Owners(cl[c].handle)
         /\ sock[cl[c].handle].refs \in Nat \ {0}
         /\ ~Free(cl[c].handle)
<1>1. cl[c].handle \in Socks
  BY DEF TypeOK, Client
<1>2. c \in Owners(cl[c].handle)
  BY DEF Owners
<1>3. QED
  BY <1>1, <1>2, OwnersFinite DEF Ownership, RefsCountOwners, DescriptorsOwned

-----------------------------------------------------------------------------
(* How each kind of step keeps the count                                   *)

(* A step that moves no reference and opens or closes no descriptor. *)
LEMMA KeepOwnership ==
  ASSUME Ownership,
         \A c \in Clients : cl'[c].handle = cl[c].handle,
         \A s \in Socks : sock'[s].refs = sock[s].refs /\ (Free(s)' <=> Free(s))
  PROVE  Ownership'
<1>1. \A s \in Socks : Owners(s)' = Owners(s)
  BY DEF Owners
<1>2. QED
  BY <1>1 DEF Ownership, RefsCountOwners, DescriptorsOwned

(* Object c lets its handle go: stop(), and every path that ends in it. *)
LEMMA ReleaseOwnership ==
  ASSUME TypeOK, Ownership, NEW c \in Clients,
         \A d \in Clients \ {c} : cl'[d].handle = cl[d].handle,
         cl'[c].handle = NoSock,
         \A s \in Socks \ {cl[c].handle} :
            sock'[s].refs = sock[s].refs /\ (Free(s)' <=> Free(s)),
         cl[c].handle # NoSock =>
            IF sock[cl[c].handle].refs = 1
            THEN sock'[cl[c].handle].refs = 0 /\ sock'[cl[c].handle].phase = "closed"
            ELSE sock'[cl[c].handle].refs = sock[cl[c].handle].refs - 1
                 /\ sock'[cl[c].handle].phase # "closed"
  PROVE  Ownership'
<1> SUFFICES ASSUME NEW s \in Socks
             PROVE  /\ sock'[s].refs = Cardinality(Owners(s)')
                    /\ Free(s)' <=> Owners(s)' = {}
  BY DEF Ownership, RefsCountOwners, DescriptorsOwned
<1>1. CASE s # cl[c].handle
  <2>1. Owners(s)' = Owners(s)
    BY <1>1, NoSockAssumption DEF Owners
  <2>2. QED
    BY <1>1, <2>1 DEF Ownership, RefsCountOwners, DescriptorsOwned
<1>2. CASE s = cl[c].handle
  <2>1. s # NoSock /\ c \in Owners(s) /\ sock[s].refs \in Nat \ {0}
    BY <1>2, NoSockAssumption, HeldIsCounted
  <2>2. Owners(s)' = Owners(s) \ {c}
    BY <1>2, <2>1 DEF Owners
  <2>3. Cardinality(Owners(s)') = sock[s].refs - 1
    BY <2>1, <2>2, OwnerLeaves DEF Ownership, RefsCountOwners
  <2>4. IsFiniteSet(Owners(s)') /\ (Cardinality(Owners(s)') = 0 <=> Owners(s)' = {})
    BY <2>2, OwnersFinite, FS_RemoveElement, FS_EmptySet
  <2>5. QED
    BY <1>2, <2>1, <2>3, <2>4 DEF Free
<1>3. QED
  BY <1>1, <1>2

(* The same when the descriptors are those of AfterReset. *)
LEMMA ResetOwnership ==
  ASSUME TypeOK, Ownership, NEW c \in Clients,
         \A d \in Clients \ {c} : cl'[d].handle = cl[d].handle,
         cl'[c].handle = NoSock,
         sock' = AfterReset(cl[c].handle)
  PROVE  Ownership'
<1> DEFINE h == cl[c].handle
<1>1. \A s \in Socks \ {h} : sock'[s] = sock[s]
  BY DEF AfterReset
<1>2. ASSUME h # NoSock
      PROVE  IF sock[h].refs = 1
             THEN sock'[h].refs = 0 /\ sock'[h].phase = "closed"
             ELSE sock'[h].refs = sock[h].refs - 1 /\ sock'[h].phase # "closed"
  <2>1. h \in Socks /\ sock[h] \in Sock /\ sock[h].phase # "closed"
    BY <1>2, HeldIsCounted DEF TypeOK, Free
  <2>2. sock'[h] = IF sock[h].refs = 1 THEN ClosedSock ELSE [sock[h] EXCEPT !.refs = @ - 1]
    BY <2>1 DEF AfterReset
  <2>3. QED
    BY <2>1, <2>2 DEF ClosedSock, Sock
<1>3. QED
  BY <1>1, <1>2, ReleaseOwnership DEF Free

(* One more reference to a handle, whose owner may be mid-handshake. *)
Shared(k, g) == [k EXCEPT !.refs = @ + 1, !.copied = @ \/ Handshaking(g)]

LEMMA SharedFields ==
  ASSUME NEW k \in Sock, NEW g
  PROVE  /\ Shared(k, g) \in Sock
         /\ Shared(k, g).refs = k.refs + 1 /\ Shared(k, g).phase = k.phase
         /\ Shared(k, g).peer = k.peer
         /\ k.copied \/ Handshaking(g) => Shared(k, g).copied
<1> DEFINE q(b) == [k EXCEPT !.refs = k.refs + 1, !.copied = b]
<1>1. ASSUME NEW b \in BOOLEAN
      PROVE  q(b) \in Sock /\ q(b).refs = k.refs + 1 /\ q(b).phase = k.phase
             /\ q(b).peer = k.peer /\ q(b).copied = b
  <2>1. PICK j : j = [k EXCEPT !.refs = k.refs + 1]
    OBVIOUS
  <2>2. j \in Sock /\ j.refs = k.refs + 1 /\ j.phase = k.phase /\ j.peer = k.peer
    BY <2>1 DEF Sock
  <2>3. PICK r : r = [j EXCEPT !.copied = b]
    OBVIOUS
  <2>4. r.refs = j.refs /\ r.phase = j.phase /\ r.peer = j.peer /\ r.copied = b
    BY <2>2, <2>3 DEF Sock
  <2>5. r \in Sock
    BY <1>1, <2>2, <2>3 DEF Sock
  <2>6. r = q(b)
    BY <2>1, <2>3 DEF Sock
  <2> QED BY <2>2, <2>4, <2>5, <2>6
<1>2. CASE k.copied \/ Handshaking(g)
  <2>1. (k.copied \/ Handshaking(g)) = TRUE
    BY <1>2, Zenon
  <2>2. Shared(k, g) = q(TRUE)
    BY <2>1 DEF Shared
  <2> HIDE DEF q
  <2> QED BY <1>1, <2>2
<1>3. CASE ~(k.copied \/ Handshaking(g))
  <2>1. (k.copied \/ Handshaking(g)) = FALSE
    BY <1>3, Zenon
  <2>2. Shared(k, g) = q(FALSE)
    BY <2>1 DEF Shared
  <2> HIDE DEF q
  <2> QED BY <1>1, <1>3, <2>2
<1> QED BY <1>2, <1>3

LEMMA ShareIs ==
  ASSUME NEW h, NEW g, NEW s \in Socks
  PROVE  AfterShare(h, g)[s] = IF s = g THEN Shared(AfterReset(h)[s], g) ELSE AfterReset(h)[s]
BY DEF AfterShare, Shared

(* Object c takes a share of handle g, held by another object d, in place  *)
(* of its own: the copy constructor and operator=(const&).                 *)
LEMMA ShareOwnership ==
  ASSUME TypeOK, Ownership, NEW c \in Clients, NEW d \in Clients, c # d,
         \A e \in Clients \ {c} : cl'[e].handle = cl[e].handle,
         cl'[c].handle = cl[d].handle,
         sock' = AfterShare(cl[c].handle, cl[d].handle)
  PROVE  Ownership'
<1> DEFINE h == cl[c].handle
           g == cl[d].handle
<1> SUFFICES ASSUME NEW s \in Socks
             PROVE  /\ sock'[s].refs = Cardinality(Owners(s)')
                    /\ sock'[s].phase = "closed" <=> Owners(s)' = {}
  BY DEF Ownership, RefsCountOwners, DescriptorsOwned, Free
<1>0. /\ sock[s] \in Sock /\ sock[s].refs = Cardinality(Owners(s))
      /\ sock[s].phase = "closed" <=> Owners(s) = {}
      /\ sock[s].refs \in Nat /\ s # NoSock
  BY NoSockAssumption DEF TypeOK, Sock, Ownership, RefsCountOwners, DescriptorsOwned, Free
<1>1. CASE s # h /\ s # g
  <2>1. Owners(s)' = Owners(s)
    BY <1>1 DEF Owners
  <2>2. sock'[s] = sock[s]
    BY <1>1 DEF AfterShare, AfterReset
  <2>3. QED
    BY <1>0, <2>1, <2>2
<1>2. CASE s # h /\ s = g
  <2>1. c \notin Owners(s) /\ d \in Owners(s) /\ Owners(s)' = Owners(s) \cup {c}
    BY <1>2 DEF Owners
  <2>2. Cardinality(Owners(s)') = sock[s].refs + 1
    BY <1>0, <2>1, OwnerJoins
  <2>3. sock'[s].refs = sock[s].refs + 1 /\ sock'[s].phase = sock[s].phase
    <3>1. AfterReset(h)[s] = sock[s]
      BY <1>2 DEF AfterReset
    <3>2. AfterShare(h, g)[s] = Shared(AfterReset(h)[s], g)
      BY <1>2, ShareIs
    <3> QED BY <1>0, <3>1, <3>2, SharedFields
  <2>4. QED
    BY <1>0, <2>1, <2>2, <2>3
<1>3. CASE s = h /\ s # g
  <2>1. c \in Owners(s) /\ Owners(s)' = Owners(s) \ {c}
    BY <1>3 DEF Owners
  <2>2. Cardinality(Owners(s)') = sock[s].refs - 1
    BY <1>0, <2>1, OwnerLeaves
  <2>3. IsFiniteSet(Owners(s)') /\ (Cardinality(Owners(s)') = 0 <=> Owners(s)' = {})
    BY <2>1, OwnersFinite, FS_RemoveElement, FS_EmptySet
  <2>4. sock'[s] = IF sock[s].refs = 1 THEN ClosedSock ELSE [sock[s] EXCEPT !.refs = @ - 1]
    BY <1>3 DEF AfterShare, AfterReset
  <2>5. sock[s].refs # 0 /\ sock[s].phase # "closed"
    BY <1>0, <2>1, OwnersFinite
  <2>6. QED
    BY <1>0, <2>2, <2>3, <2>4, <2>5 DEF ClosedSock, Sock
<1>4. CASE s = h /\ s = g
  <2>1. c \in Owners(s) /\ d \in Owners(s) /\ Owners(s)' = Owners(s)
    BY <1>4 DEF Owners
  <2>2. Cardinality(Owners(s) \ {c}) = sock[s].refs - 1
    BY <1>0, <2>1, OwnerLeaves
  <2>3. sock[s].refs # 1
    <3>1. d \in Owners(s) \ {c}
      BY <2>1
    <3>2. IsFiniteSet(Owners(s) \ {c})
      BY OwnersFinite, FS_RemoveElement
    <3>3. Cardinality(Owners(s) \ {c}) # 0
      BY <3>1, <3>2, FS_EmptySet
    <3>4. QED
      BY <2>2, <3>3
  <2>4. sock'[s].refs = sock[s].refs /\ sock'[s].phase = sock[s].phase
    <3>1. PICK k : k = [sock[s] EXCEPT !.refs = @ - 1]
      OBVIOUS
    <3>2. k \in Sock /\ k.refs = sock[s].refs - 1 /\ k.phase = sock[s].phase
      <4>1. sock[s].refs # 0
        BY <1>0, <2>1, OwnersFinite
      <4> QED BY <1>0, <3>1, <4>1 DEF Sock
    <3>3. sock'[s] = Shared(k, g)
      BY <1>4, <2>3, <3>1, ShareIs DEF AfterReset
    <3> QED BY <1>0, <3>2, <3>3, SharedFields
  <2>5. QED
    BY <1>0, <2>1, <2>4
<1>5. QED
  BY <1>1, <1>2, <1>3, <1>4

(* Object c replaces its handle by a new one on descriptor n, which nobody *)
(* owned: connect(), connectAsync() and WiFiClient(int fd).                *)
LEMMA MakeOwnership ==
  ASSUME TypeOK, Ownership, NEW c \in Clients, NEW n \in Socks, Free(n),
         NEW ph \in Phases \ {"closed"}, NEW p \in Peers,
         \A e \in Clients \ {c} : cl'[e].handle = cl[e].handle,
         cl'[c].handle = n,
         sock' = AfterMake(cl[c].handle, n, ph, p)
  PROVE  Ownership'
<1> DEFINE h == cl[c].handle
<1> SUFFICES ASSUME NEW s \in Socks
             PROVE  /\ sock'[s].refs = Cardinality(Owners(s)')
                    /\ sock'[s].phase = "closed" <=> Owners(s)' = {}
  BY DEF Ownership, RefsCountOwners, DescriptorsOwned, Free
<1>0. /\ sock[s] \in Sock /\ sock[s].refs = Cardinality(Owners(s))
      /\ sock[s].phase = "closed" <=> Owners(s) = {}
      /\ sock[s].refs \in Nat /\ s # NoSock
  BY NoSockAssumption DEF TypeOK, Sock, Ownership, RefsCountOwners, DescriptorsOwned, Free
<1>1. CASE s = n
  <2>1. Owners(s) = {} /\ Owners(s)' = Owners(s) \cup {c} /\ c \notin Owners(s)
    BY <1>0, <1>1 DEF Owners, Free
  <2>2. Cardinality(Owners(s)') = 1
    <3>1. Cardinality(Owners(s)) = 0
      BY <2>1, OwnersFinite
    <3>2. Cardinality(Owners(s) \cup {c}) = Cardinality(Owners(s)) + 1
      BY <2>1, OwnerJoins
    <3>3. QED
      BY <2>1, <3>1, <3>2
  <2>3. sock'[s].refs = 1 /\ sock'[s].phase = ph
    BY <1>1 DEF AfterMake
  <2>4. QED
    BY <2>1, <2>2, <2>3
<1>2. CASE s # n /\ s # h
  <2>1. Owners(s)' = Owners(s) /\ sock'[s] = sock[s]
    BY <1>2 DEF Owners, AfterMake, AfterReset
  <2>2. QED
    BY <1>0, <2>1
<1>3. CASE s # n /\ s = h
  <2>1. c \in Owners(s) /\ Owners(s)' = Owners(s) \ {c}
    BY <1>3 DEF Owners
  <2>2. Cardinality(Owners(s)') = sock[s].refs - 1
    BY <1>0, <2>1, OwnerLeaves
  <2>3. IsFiniteSet(Owners(s)') /\ (Cardinality(Owners(s)') = 0 <=> Owners(s)' = {})
    BY <2>1, OwnersFinite, FS_RemoveElement, FS_EmptySet
  <2>4. sock'[s] = IF sock[s].refs = 1 THEN ClosedSock ELSE [sock[s] EXCEPT !.refs = @ - 1]
    BY <1>3 DEF AfterMake, AfterReset
  <2>5. sock[s].refs # 0 /\ sock[s].phase # "closed"
    BY <1>0, <2>1, OwnersFinite
  <2>6. QED
    BY <1>0, <2>2, <2>3, <2>4, <2>5 DEF ClosedSock, Sock
<1>4. QED
  BY <1>1, <1>2, <1>3

(* Object c takes the handle of d, which is left empty; what c held before *)
(* is let go: the move constructor and operator=(&&).                      *)
LEMMA MoveOwnership ==
  ASSUME TypeOK, Ownership, NEW c \in Clients, NEW d \in Clients, c # d,
         \A e \in Clients \ {c, d} : cl'[e].handle = cl[e].handle,
         cl'[c].handle = cl[d].handle,
         cl'[d].handle = NoSock,
         sock' = AfterReset(cl[c].handle)
  PROVE  Ownership'
<1> DEFINE h == cl[c].handle
           g == cl[d].handle
<1> SUFFICES ASSUME NEW s \in Socks
             PROVE  /\ sock'[s].refs = Cardinality(Owners(s)')
                    /\ sock'[s].phase = "closed" <=> Owners(s)' = {}
  BY DEF Ownership, RefsCountOwners, DescriptorsOwned, Free
<1>0. /\ sock[s] \in Sock /\ sock[s].refs = Cardinality(Owners(s))
      /\ sock[s].phase = "closed" <=> Owners(s) = {}
      /\ sock[s].refs \in Nat /\ s # NoSock
  BY NoSockAssumption DEF TypeOK, Sock, Ownership, RefsCountOwners, DescriptorsOwned, Free
<1>1. CASE s # h /\ s # g
  <2>1. Owners(s)' = Owners(s) /\ sock'[s] = sock[s]
    BY <1>0, <1>1 DEF Owners, AfterReset
  <2>2. QED
    BY <1>0, <2>1
<1>2. CASE s # h /\ s = g
  <2>1. c \notin Owners(s) /\ d \in Owners(s) /\ Owners(s)' = (Owners(s) \ {d}) \cup {c}
    BY <1>0, <1>2 DEF Owners
  <2>2. IsFiniteSet(Owners(s) \ {d}) /\ c \notin Owners(s) \ {d}
    BY <2>1, OwnersFinite, FS_RemoveElement
  <2>3. Cardinality(Owners(s)') = (sock[s].refs - 1) + 1
    <3>1. Cardinality(Owners(s) \ {d}) = sock[s].refs - 1
      BY <1>0, <2>1, OwnerLeaves
    <3>2. Cardinality((Owners(s) \ {d}) \cup {c}) = Cardinality(Owners(s) \ {d}) + 1
      BY <2>2, FS_AddElement
    <3>3. QED
      BY <2>1, <3>1, <3>2
  <2>4. sock'[s] = sock[s]
    BY <1>2 DEF AfterReset
  <2>5. QED
    BY <1>0, <2>1, <2>3, <2>4
<1>3. CASE s = h
  <2>1. c \in Owners(s)
    BY <1>3 DEF Owners
  <2>2. PICK x \in Owners(s) : Owners(s)' = Owners(s) \ {x}
    <3>1. CASE s = g
      <4>1. d \in Owners(s) /\ Owners(s)' = Owners(s) \ {d}
        BY <1>0, <1>3, <3>1 DEF Owners
      <4>2. QED  BY <4>1
    <3>2. CASE s # g
      <4>1. Owners(s)' = Owners(s) \ {c}
        BY <1>0, <1>3, <3>2 DEF Owners
      <4>2. QED  BY <2>1, <4>1
    <3>3. QED  BY <3>1, <3>2
  <2>3. Cardinality(Owners(s)') = sock[s].refs - 1
    BY <1>0, <2>2, OwnerLeaves
  <2>4. IsFiniteSet(Owners(s)') /\ (Cardinality(Owners(s)') = 0 <=> Owners(s)' = {})
    BY <2>2, OwnersFinite, FS_RemoveElement, FS_EmptySet
  <2>5. sock'[s] = IF sock[s].refs = 1 THEN ClosedSock ELSE [sock[s] EXCEPT !.refs = @ - 1]
    BY <1>3 DEF AfterReset
  <2>6. sock[s].refs # 0 /\ sock[s].phase # "closed"
    BY <1>0, <2>1, OwnersFinite
  <2>7. QED
    BY <1>0, <2>3, <2>4, <2>5, <2>6 DEF ClosedSock, Sock
<1>4. QED
  BY <1>1, <1>2, <1>3

-----------------------------------------------------------------------------
(* Types                                                                   *)

(* The records the actions build are objects. *)
LEMMA ClientTypes ==
  /\ Blank \in Client
  /\ \A r \in Client : Stopped(r) \in Client
  /\ \A r \in Client : [r EXCEPT !.valid = FALSE] \in Client
<1>1. Blank \in Client
  BY TimeoutAssumption, PendingAssumption DEF Blank, Client
<1>2. ASSUME NEW r \in Client
      PROVE  Stopped(r) \in Client /\ [r EXCEPT !.valid = FALSE] \in Client
  <2>1. 0 \in 0..MaxPending
    BY PendingAssumption
  <2>2. \A q \in Client : [q EXCEPT !.st = "Idle"] \in Client
    BY DEF Client
  <2>3. \A q \in Client : [q EXCEPT !.pend = 0] \in Client
    BY <2>1 DEF Client
  <2>4. \A q \in Client : [q EXCEPT !.valid = FALSE] \in Client
    BY DEF Client
  <2>5. \A q \in Client : [q EXCEPT !.handle = NoSock] \in Client
    BY DEF Client
  <2>6. \A q \in Client : [q EXCEPT !.conn = FALSE] \in Client
    BY DEF Client
  <2>7. QED
    BY <2>2, <2>3, <2>4, <2>5, <2>6 DEF Stopped
<1>3. QED
  BY <1>1, <1>2

(* Their members. *)
LEMMA BlankFields ==
  /\ Blank.handle = NoSock /\ Blank.st = "Idle" /\ ~Blank.conn
  /\ Blank.pend = 0 /\ ~Blank.valid
BY DEF Blank

LEMMA StoppedFields ==
  ASSUME NEW r \in Client
  PROVE  /\ Stopped(r).handle = NoSock /\ Stopped(r).st = "Idle"
         /\ ~Stopped(r).conn /\ Stopped(r).pend = 0 /\ ~Stopped(r).valid
BY DEF Stopped, Client

LEMMA CopyFields ==
  ASSUME TypeOK, NEW d \in Clients, NEW a \in Peers \cup {NoPeer}
  PROVE  /\ CopyOf(d, a) \in Client
         /\ CopyOf(d, a).handle = cl[d].handle /\ CopyOf(d, a).st = cl[d].st
         /\ CopyOf(d, a).conn = cl[d].conn /\ CopyOf(d, a).pend = cl[d].pend
         /\ ~CopyOf(d, a).valid
<1>1. cl[d] \in Client
  BY DEF TypeOK
<1> QED BY <1>1 DEF CopyOf, Client

(* Letting go of the handle of an object leaves descriptors: its count was *)
(* positive, so it does not go below zero.                                 *)
LEMMA ResetType ==
  ASSUME TypeOK, Ownership, NEW c \in Clients
  PROVE  /\ AfterReset(cl[c].handle) \in [Socks -> Sock]
         /\ AfterReset(NoSock) = sock
<1>1. AfterReset(NoSock) = sock
  BY NoSockAssumption DEF AfterReset, TypeOK
<1>2. ASSUME NEW s \in Socks
      PROVE  AfterReset(cl[c].handle)[s] \in Sock
  <2>1. CASE s # cl[c].handle
    BY <2>1 DEF AfterReset, TypeOK
  <2>2. CASE s = cl[c].handle
    <3>1. sock[s].refs \in Nat \ {0} /\ sock[s] \in Sock
      BY <2>2, NoSockAssumption, HeldIsCounted DEF TypeOK
    <3>2. ClosedSock \in Sock /\ [sock[s] EXCEPT !.refs = @ - 1] \in Sock
      BY <3>1 DEF ClosedSock, Sock, Phases
    <3>3. QED
      BY <2>2, <3>1, <3>2 DEF AfterReset
  <2>3. QED
    BY <2>1, <2>2
<1>3. QED
  BY <1>1, <1>2 DEF AfterReset

LEMMA ShareType ==
  ASSUME TypeOK, Ownership, NEW c \in Clients, NEW g
  PROVE  /\ AfterShare(cl[c].handle, g) \in [Socks -> Sock]
         /\ AfterShare(NoSock, g) \in [Socks -> Sock]
<1>1. ASSUME NEW h, AfterReset(h) \in [Socks -> Sock]
      PROVE  AfterShare(h, g) \in [Socks -> Sock]
  <2>1. \A s \in Socks : AfterShare(h, g)[s] \in Sock
    BY <1>1, ShareIs, SharedFields
  <2> QED BY <2>1 DEF AfterShare
<1> QED BY <1>1, ResetType DEF TypeOK

LEMMA MakeType ==
  ASSUME TypeOK, Ownership, NEW c \in Clients,
         NEW n \in Socks, NEW ph \in Phases, NEW p \in Peers
  PROVE  /\ AfterMake(cl[c].handle, n, ph, p) \in [Socks -> Sock]
         /\ AfterMake(NoSock, n, ph, p) \in [Socks -> Sock]
<1>1. [phase |-> ph, peer |-> p, unread |-> FALSE, copied |-> FALSE,
       refs |-> 1] \in Sock
  BY DEF Sock
<1>2. QED
  BY <1>1, ResetType DEF AfterMake, TypeOK

-----------------------------------------------------------------------------
(* The actions preserve the invariant                                      *)

(* An object lets its handle go, whatever else changes in the descriptor.  *)
LEMMA ReleaseIInv ==
  ASSUME IInv, NEW c \in live,
         cl' = [cl EXCEPT ![c] = Stopped(cl[c])],
         sock' \in [Socks -> Sock],
         \A s \in Socks : /\ sock'[s].refs = AfterReset(cl[c].handle)[s].refs
                          /\ sock'[s].phase = AfterReset(cl[c].handle)[s].phase,
         live' = live
  PROVE  IInv'
<1>0. TypeOK /\ Ownership /\ MembersAgree /\ c \in Clients
  BY DEF IInv, TypeOK
<1>1. cl'[c] = Stopped(cl[c]) /\ \A d \in Clients \ {c} : cl'[d] = cl[d]
  BY <1>0 DEF TypeOK
<1>2. TypeOK'
  BY <1>0, ClientTypes DEF TypeOK
<1>3. Ownership'
  <2> DEFINE h == cl[c].handle
  <2>1. \A s \in Socks \ {h} : sock'[s].refs = sock[s].refs /\ sock'[s].phase = sock[s].phase
    BY DEF AfterReset
  <2>2. ASSUME h # NoSock
        PROVE  IF sock[h].refs = 1
               THEN sock'[h].refs = 0 /\ sock'[h].phase = "closed"
               ELSE sock'[h].refs = sock[h].refs - 1 /\ sock'[h].phase # "closed"
    <3>1. h \in Socks /\ sock[h] \in Sock /\ sock[h].phase # "closed"
      BY <1>0, <2>2, HeldIsCounted DEF TypeOK, Free
    <3>2. AfterReset(h)[h] = IF sock[h].refs = 1 THEN ClosedSock
                             ELSE [sock[h] EXCEPT !.refs = @ - 1]
      BY <3>1 DEF AfterReset
    <3>3. QED
      BY <3>1, <3>2 DEF ClosedSock, Sock
  <2>3. cl'[c].handle = NoSock /\ \A d \in Clients \ {c} : cl'[d].handle = cl[d].handle
    BY <1>0, <1>1, StoppedFields DEF TypeOK
  <2>4. \A s \in Socks \ {h} : sock'[s].refs = sock[s].refs /\ (Free(s)' <=> Free(s))
    BY <2>1 DEF Free
  <2>5. QED
    BY <1>0, <2>2, <2>3, <2>4, ReleaseOwnership
<1>4. MembersAgree'
  <2> SUFFICES ASSUME NEW e \in Clients
               PROVE  /\ cl'[e].conn \/ cl'[e].st = "Connecting" \/ cl'[e].pend > 0
                           => cl'[e].handle # NoSock
                      /\ cl'[e].st = "Connecting" => ~cl'[e].conn /\ cl'[e].pend = 0
                      /\ e \notin live' => cl'[e].handle = NoSock
    BY DEF MembersAgree
  <2>1. CASE e = c
    BY <1>0, <1>1, <2>1, StoppedFields DEF TypeOK
  <2>2. CASE e # c
    BY <1>0, <1>1, <2>2 DEF MembersAgree
  <2>3. QED
    BY <2>1, <2>2
<1>5. QED
  BY <1>2, <1>3, <1>4 DEF IInv

(* stop() and every hard error that ends in it. *)
LEMMA StopIInv ==
  ASSUME IInv, NEW c \in live,
         cl' = [cl EXCEPT ![c] = Stopped(cl[c])],
         sock' = AfterReset(cl[c].handle),
         live' = live
  PROVE  IInv'
<1>1. sock' \in [Socks -> Sock]
  BY ResetType DEF IInv, TypeOK
<1>2. QED
  BY <1>1, ReleaseIInv

(* Steps that leave every handle, every count and the set of open          *)
(* descriptors alone only have to keep the types and the members.          *)
LEMMA LocalIInv ==
  ASSUME IInv, TypeOK', MembersAgree',
         \A c \in Clients : cl'[c].handle = cl[c].handle,
         \A s \in Socks : sock'[s].refs = sock[s].refs /\ (Free(s)' <=> Free(s))
  PROVE  IInv'
BY KeepOwnership DEF IInv

(* Both moves copy the source and stop it. *)
LEMMA MoveCopies ==
  ASSUME TypeOK, NEW c \in Clients, NEW d \in Clients, c # d,
         MoveConstruct(c, d) \/ MoveAssign(c, d)
  PROVE  \E a \in Peers \cup {NoPeer} :
           /\ cl' = [cl EXCEPT ![c] = CopyOf(d, a), ![d] = Stopped(cl[d])]
           /\ cl'[c] = CopyOf(d, a) /\ cl'[d] = Stopped(cl[d])
           /\ \A e \in Clients \ {c, d} : cl'[e] = cl[e]
<1>1. PICK a \in Peers \cup {NoPeer} :
        cl' = [cl EXCEPT ![c] = CopyOf(d, a), ![d] = Stopped(cl[d])]
  BY DEF MoveConstruct, MoveAssign, TypeOK, Client
<1>2. cl'[c] = CopyOf(d, a) /\ cl'[d] = Stopped(cl[d]) /\ \A e \in Clients \ {c, d} : cl'[e] = cl[e]
  BY <1>1 DEF TypeOK
<1> QED BY <1>1, <1>2

LEMMA LifecycleIInv ==
  ASSUME IInv, NEW c \in Clients, Lifecycle(c)
  PROVE  IInv'
<1> USE DEF IInv
<1>1. CASE Construct(c)
  <2>1. cl'[c] = Blank /\ cl[c].handle = NoSock /\ \A d \in Clients \ {c} : cl'[d] = cl[d]
    BY <1>1 DEF Construct, MembersAgree, TypeOK
  <2>2. TypeOK'
    BY <1>1, ClientTypes DEF Construct, TypeOK
  <2>3. MembersAgree'
    BY <1>1, <2>1, BlankFields DEF Construct, MembersAgree
  <2>4. QED
    BY <1>1, <2>1, <2>2, <2>3, BlankFields, LocalIInv DEF Construct, Free
<1>2. CASE Stop(c)
  BY <1>2, StopIInv DEF Stop
<1>3. CASE Destroy(c)
  <2>1. cl'[c] = Blank /\ \A d \in Clients \ {c} : cl'[d] = cl[d]
    BY <1>3 DEF Destroy, TypeOK
  <2>2. TypeOK'
    BY <1>3, ClientTypes, ResetType DEF Destroy, TypeOK
  <2>3. Ownership'
    BY <1>3, <2>1, BlankFields, ResetOwnership DEF Destroy
  <2>4. MembersAgree'
    BY <1>3, <2>1, BlankFields DEF MembersAgree, Destroy
  <2>5. QED
    BY <2>2, <2>3, <2>4
<1>4. ASSUME NEW s \in Socks, NEW p \in Peers, ConstructFd(c, s, p)
      PROVE  IInv'
  <2>0. cl[c].handle = NoSock
    BY <1>4 DEF ConstructFd, MembersAgree
  <2>1. cl'[c] = [Blank EXCEPT !.handle = s, !.conn = TRUE] /\ \A d \in Clients \ {c} : cl'[d] = cl[d]
    BY <1>4 DEF ConstructFd, TypeOK
  <2>2. /\ cl'[c].handle = s /\ cl'[c].st = "Idle" /\ cl'[c].pend = 0
        /\ cl'[c] \in Client
    <3>1. [Blank EXCEPT !.handle = s] \in Client
      BY ClientTypes DEF Client
    <3>2. [[Blank EXCEPT !.handle = s] EXCEPT !.conn = TRUE] \in Client
      BY <3>1 DEF Client
    <3>3. QED
      BY <2>1, <3>2 DEF Blank
  <2>3. TypeOK'
    BY <1>4, <2>2, MakeType DEF ConstructFd, TypeOK, Phases
  <2>4. Ownership'
    BY <1>4, <2>0, <2>1, <2>2, MakeOwnership DEF ConstructFd, Phases
  <2>5. MembersAgree'
    BY <1>4, <2>1, <2>2, NoSockAssumption DEF ConstructFd, MembersAgree
  <2>6. QED
    BY <2>3, <2>4, <2>5
<1>5. ASSUME NEW d \in Clients, CopyConstruct(c, d)
      PROVE  IInv'
  <2>0. c # d /\ cl[c].handle = NoSock
    BY <1>5, BlankFields DEF CopyConstruct, MembersAgree
  <2>1. cl'[c] = CopyOf(d, NoPeer) /\ \A e \in Clients \ {c} : cl'[e] = cl[e]
    BY <1>5 DEF CopyConstruct, TypeOK
  <2>2. TypeOK'
    BY <1>5, <2>1, CopyFields, ShareType DEF CopyConstruct, TypeOK
  <2>3. Ownership'
    BY <1>5, <2>0, <2>1, CopyFields, ShareOwnership DEF CopyConstruct
  <2>4. MembersAgree'
    BY <1>5, <2>0, <2>1, CopyFields DEF CopyConstruct, MembersAgree
  <2>5. QED
    BY <2>2, <2>3, <2>4
<1>6. ASSUME NEW d \in Clients, CopyAssign(c, d)
      PROVE  IInv'
  <2>1. CASE c = d
    BY <1>6, <2>1, StopIInv DEF CopyAssign
  <2>2. CASE c # d
    <3>0. PICK a \in Peers \cup {NoPeer} : a = cl[c].peerIp
      BY DEF TypeOK, Client
    <3>1. cl'[c] = CopyOf(d, a) /\ \A e \in Clients \ {c} : cl'[e] = cl[e]
      BY <1>6, <2>2, <3>0 DEF CopyAssign, TypeOK
    <3>2. TypeOK'
      <4>1. sock' = AfterShare(cl[c].handle, cl[d].handle) /\ live' = live
            /\ cl' = [cl EXCEPT ![c] = CopyOf(d, a)]
        BY <1>6, <2>2, <3>0 DEF CopyAssign
      <4>2. QED
        BY <4>1, CopyFields, ShareType DEF TypeOK
    <3>3. Ownership'
      BY <1>6, <2>2, <3>1, CopyFields, ShareOwnership DEF CopyAssign
    <3>4. MembersAgree'
      BY <1>6, <2>2, <3>1, CopyFields DEF CopyAssign, MembersAgree
    <3>5. QED
      BY <3>2, <3>3, <3>4
  <2>3. QED
    BY <2>1, <2>2
<1>7. ASSUME NEW d \in Clients, MoveConstruct(c, d) \/ MoveAssign(c, d)
      PROVE  IInv'
  <2>0. c # d /\ d \in live /\ (c \in live' /\ live \subseteq live' /\ live' \subseteq live \cup {c})
    BY <1>7 DEF MoveConstruct, MoveAssign
  <2>1. sock' = AfterReset(cl[c].handle)
    BY <1>7, ResetType, BlankFields DEF MoveConstruct, MoveAssign, MembersAgree
  <2>2. PICK a \in Peers \cup {NoPeer} :
          /\ cl' = [cl EXCEPT ![c] = CopyOf(d, a), ![d] = Stopped(cl[d])]
          /\ cl'[c] = CopyOf(d, a) /\ cl'[d] = Stopped(cl[d])
          /\ \A e \in Clients \ {c, d} : cl'[e] = cl[e]
    BY <1>7, <2>0, MoveCopies
  <2>3. TypeOK'
    BY <2>0, <2>1, <2>2, ClientTypes, CopyFields, ResetType DEF TypeOK
  <2>4. Ownership'
    <3>1. cl'[c].handle = cl[d].handle /\ cl'[d].handle = NoSock
      BY <2>2, CopyFields, StoppedFields DEF TypeOK
    <3>2. QED
      BY <2>0, <2>1, <2>2, <3>1, MoveOwnership
  <2>5. MembersAgree'
    <3> SUFFICES ASSUME NEW e \in Clients
                 PROVE  /\ cl'[e].conn \/ cl'[e].st = "Connecting" \/ cl'[e].pend > 0
                             => cl'[e].handle # NoSock
                        /\ cl'[e].st = "Connecting" => ~cl'[e].conn /\ cl'[e].pend = 0
                        /\ e \notin live' => cl'[e].handle = NoSock
      BY DEF MembersAgree
    <3>1. CASE e = c
      BY <2>0, <2>2, <3>1, CopyFields DEF MembersAgree
    <3>2. CASE e = d
      BY <2>0, <2>2, <3>2, StoppedFields DEF TypeOK
    <3>3. CASE e \notin {c, d}
      BY <2>0, <2>2, <3>3 DEF MembersAgree
    <3>4. QED
      BY <3>1, <3>2, <3>3
  <2>6. QED
    BY <2>3, <2>4, <2>5
<1>8. QED
  BY <1>1, <1>2, <1>3, <1>4, <1>5, <1>6, <1>7 DEF Lifecycle

(* A step that changes members of object c other than the handle. *)
LEMMA MembersIInv ==
  ASSUME IInv, NEW c \in live, NEW r \in Client,
         r.handle = cl[c].handle,
         r.conn \/ r.st = "Connecting" \/ r.pend > 0 => r.handle # NoSock,
         r.st = "Connecting" => ~r.conn /\ r.pend = 0,
         cl' = [cl EXCEPT ![c] = r], live' = live, sock' = sock
  PROVE  IInv'
<1>0. TypeOK /\ MembersAgree /\ c \in Clients
  BY DEF IInv, TypeOK
<1>1. cl'[c] = r /\ \A d \in Clients \ {c} : cl'[d] = cl[d]
  BY <1>0 DEF TypeOK
<1>2. TypeOK'
  BY <1>0 DEF TypeOK
<1>3. MembersAgree'
  BY <1>0, <1>1 DEF MembersAgree
<1>4. QED
  BY <1>1, <1>2, <1>3, LocalIInv DEF Free

(* connect() and connectAsync() succeed: object c gets a new handle. *)
LEMMA MakeIInv ==
  ASSUME IInv, NEW c \in live, NEW r \in Client, NEW n \in Socks, Free(n),
         NEW ph \in Phases \ {"closed"}, NEW p \in Peers,
         r.handle = n,
         r.st = "Connecting" => ~r.conn /\ r.pend = 0,
         cl' = [cl EXCEPT ![c] = r], live' = live,
         sock' = AfterMake(cl[c].handle, n, ph, p)
  PROVE  IInv'
<1>0. TypeOK /\ Ownership /\ MembersAgree /\ c \in Clients
  BY DEF IInv, TypeOK
<1>1. cl'[c] = r /\ \A d \in Clients \ {c} : cl'[d] = cl[d]
  BY <1>0 DEF TypeOK
<1>2. TypeOK'
  BY <1>0, MakeType DEF TypeOK
<1>3. Ownership'
  BY <1>0, <1>1, MakeOwnership
<1>4. MembersAgree'
  BY <1>0, <1>1, NoSockAssumption DEF MembersAgree
<1>5. QED
  BY <1>2, <1>3, <1>4 DEF IInv

LEMMA ConnectingIInv ==
  ASSUME IInv, NEW c \in Clients, Connecting(c)
  PROVE  IInv'
<1> USE DEF IInv
<1>1. ASSUME NEW s \in Socks, NEW p \in Peers, ConnectAsync(c, s, p)
      PROVE  IInv'
  <2> DEFINE r == [cl[c] EXCEPT !.handle = s, !.pend = 0, !.valid = FALSE,
                                !.st = "Connecting", !.age = 0]
  <2>1. c \in live /\ Free(s) /\ ~cl[c].conn /\ live' = live
        /\ cl' = [cl EXCEPT ![c] = r] /\ sock' = AfterMake(cl[c].handle, s, "syn", p)
    BY <1>1 DEF ConnectAsync
  <2>2. cl[c] \in Client
    BY DEF TypeOK
  <2>3. r \in Client
    <3>1. 0 \in 0..MaxPending /\ 0 \in 0..MaxAge
      BY PendingAssumption, TimeoutAssumption
    <3>2. \A q \in Client : [q EXCEPT !.handle = s] \in Client /\ [q EXCEPT !.pend = 0] \in Client
      BY <3>1 DEF Client
    <3>3. \A q \in Client : [q EXCEPT !.valid = FALSE] \in Client
                            /\ [q EXCEPT !.st = "Connecting"] \in Client
      BY DEF Client
    <3>4. \A q \in Client : [q EXCEPT !.age = 0] \in Client
      BY <3>1 DEF Client
    <3>5. QED
      BY <2>2, <3>2, <3>3, <3>4
  <2>4. r.handle = s /\ ~r.conn /\ r.pend = 0
    BY <2>1, <2>2 DEF Client
  <2>5. "syn" \in Phases \ {"closed"}
    BY DEF Phases
  <2> HIDE DEF r
  <2>6. QED
    BY <2>1, <2>3, <2>4, <2>5, MakeIInv
<1>2. ASSUME NEW s \in Socks, NEW p \in Peers, NEW t \in Timeouts, Connect(c, s, p, t)
      PROVE  IInv'
  <2> DEFINE u == [cl[c] EXCEPT !.timeout = t]
             r == [cl[c] EXCEPT !.timeout = t, !.handle = s, !.pend = 0,
                                !.st = "Idle", !.valid = FALSE, !.conn = TRUE]
  <2>0. cl[c] \in Client /\ c \in live /\ live' = live
    BY <1>2 DEF TypeOK, Connect
  <2>1. CASE cl' = [cl EXCEPT ![c] = u] /\ sock' = sock
    <3>1. u \in Client /\ u.handle = cl[c].handle /\ u.st = cl[c].st /\ u.conn = cl[c].conn
          /\ u.pend = cl[c].pend
      BY <2>0 DEF Client
    <3> HIDE DEF u
    <3>2. QED
      BY <2>0, <2>1, <3>1, MembersIInv DEF MembersAgree
  <2>2. CASE /\ Free(s) /\ cl' = [cl EXCEPT ![c] = r]
             /\ sock' = AfterMake(cl[c].handle, s, "est", p)
    <3>1. 0 \in 0..MaxPending
      BY PendingAssumption
    <3>2. \A q \in Client : [q EXCEPT !.handle = s] \in Client /\ [q EXCEPT !.pend = 0] \in Client
      BY <3>1 DEF Client
    <3>3. \A q \in Client : [q EXCEPT !.valid = FALSE] \in Client
                            /\ [q EXCEPT !.st = "Idle"] \in Client
      BY DEF Client
    <3>4. \A q \in Client : [q EXCEPT !.timeout = t] \in Client /\ [q EXCEPT !.conn = TRUE] \in Client
      BY DEF Client
    <3>5. r \in Client
      BY <2>0, <3>2, <3>3, <3>4
    <3>6. r.handle = s /\ r.st = "Idle"
      BY <2>0 DEF Client
    <3>7. "est" \in Phases \ {"closed"}
      BY DEF Phases
    <3> HIDE DEF r
    <3>8. QED
      BY <2>0, <2>2, <3>5, <3>6, <3>7, MakeIInv
  <2>3. QED
    BY <1>2, <2>1, <2>2 DEF Connect
<1>3. CASE PollConnect(c)
  <2>0. c \in live /\ cl[c].st = "Connecting" /\ live' = live /\ cl[c] \in Client
    BY <1>3 DEF PollConnect, TypeOK
  <2>1. cl[c].handle # NoSock
    BY <2>0 DEF MembersAgree
  <2>2. CASE PollConnectWaiting(c)
    BY <2>0, <2>2, StopIInv DEF PollConnectWaiting
  <2>3. CASE PollConnectDone(c)
    <3> DEFINE r == [[cl[c] EXCEPT !.st = "Idle"] EXCEPT !.conn = TRUE]
    <3>1. [cl[c] EXCEPT !.st = "Idle"] \in Client
      BY <2>0 DEF Client
    <3>2. r \in Client /\ r.handle = cl[c].handle /\ r.st = "Idle"
      BY <3>1 DEF Client
    <3>3. cl' = [cl EXCEPT ![c] = r] /\ sock' = sock
      BY <2>0, <2>3 DEF PollConnectDone, TypeOK
    <3> HIDE DEF r
    <3>4. QED
      BY <2>0, <2>1, <3>2, <3>3, MembersIInv
  <2>4. CASE PollConnectFailed(c)
    <3> DEFINE h == cl[c].handle
    <3>1. h \in Socks /\ sock[h] \in Sock /\ sock[h].refs \in Nat \ {0} /\ ~Free(h)
      BY <2>1, HeldIsCounted DEF TypeOK
    <3>2. \A s \in Socks \ {h} : sock'[s] = sock[s]
      BY <2>4 DEF PollConnectFailed, AfterReset
    <3>3. IF sock[h].refs = 1 THEN sock'[h] = ClosedSock
          ELSE sock'[h] = [sock[h] EXCEPT !.refs = @ - 1, !.phase = "dead"]
      BY <2>4, <3>1 DEF PollConnectFailed, AfterReset
    <3> DEFINE k == [sock[h] EXCEPT !.refs = sock[h].refs - 1]
               q == [k EXCEPT !.phase = "dead"]
    <3>4. q \in Sock /\ q.refs = sock[h].refs - 1 /\ q.phase = "dead"
      <4>1. sock[h].refs - 1 \in Nat /\ "dead" \in Phases
        BY <3>1 DEF Phases
      <4>2. k \in Sock /\ k.refs = sock[h].refs - 1
        BY <3>1, <4>1 DEF Sock
      <4> HIDE DEF k
      <4>3. QED
        BY <4>1, <4>2 DEF Sock
    <3>5. /\ sock'[h] \in Sock
          /\ IF sock[h].refs = 1
             THEN sock'[h].refs = 0 /\ sock'[h].phase = "closed"
             ELSE sock'[h].refs = sock[h].refs - 1 /\ sock'[h].phase # "closed"
      <4>1. CASE sock[h].refs = 1
        <5>1. ClosedSock \in Sock /\ ClosedSock.refs = 0 /\ ClosedSock.phase = "closed"
          BY DEF ClosedSock, Sock, Phases
        <5>2. QED
          BY <3>3, <4>1, <5>1
      <4>2. CASE sock[h].refs # 1
        BY <3>1, <3>3, <3>4, <4>2
      <4>3. QED
        BY <4>1, <4>2
    <3>6. cl'[c] = Stopped(cl[c]) /\ \A d \in Clients \ {c} : cl'[d] = cl[d]
      BY <2>4 DEF PollConnectFailed, TypeOK
    <3>7. TypeOK'
      <4>1. sock' \in [Socks -> Sock]
        <5>1. sock' = [s \in Socks |-> sock'[s]]
          BY <2>4 DEF PollConnectFailed
        <5>2. QED
          BY <3>2, <3>5, <5>1 DEF TypeOK
      <4>2. QED
        BY <2>0, <2>4, <4>1, ClientTypes DEF PollConnectFailed, TypeOK
    <3>8. Ownership'
      BY <2>0, <3>2, <3>5, <3>6, StoppedFields, ReleaseOwnership DEF Free
    <3>9. MembersAgree'
      <4> SUFFICES ASSUME NEW e \in Clients
                   PROVE  /\ cl'[e].conn \/ cl'[e].st = "Connecting" \/ cl'[e].pend > 0
                               => cl'[e].handle # NoSock
                          /\ cl'[e].st = "Connecting" => ~cl'[e].conn /\ cl'[e].pend = 0
                          /\ e \notin live' => cl'[e].handle = NoSock
        BY DEF MembersAgree
      <4>1. CASE e = c
        BY <2>0, <3>6, <4>1, StoppedFields
      <4>2. CASE e # c
        BY <2>0, <3>6, <4>2 DEF MembersAgree
      <4>3. QED
        BY <4>1, <4>2
    <3>10. QED
      BY <3>7, <3>8, <3>9
  <2>5. QED
    BY <1>3, <2>1, <2>2, <2>3, <2>4 DEF PollConnect
<1>4. ASSUME NEW t \in Timeouts, SetTimeout(c, t)
      PROVE  IInv'
  <2> DEFINE u == [cl[c] EXCEPT !.timeout = t]
  <2>0. cl[c] \in Client /\ c \in live /\ live' = live /\ sock' = sock /\ cl' = [cl EXCEPT ![c] = u]
    BY <1>4 DEF TypeOK, SetTimeout
  <2>1. u \in Client /\ u.handle = cl[c].handle /\ u.st = cl[c].st /\ u.conn = cl[c].conn
        /\ u.pend = cl[c].pend
    BY <2>0 DEF Client
  <2> HIDE DEF u
  <2>2. QED
    BY <2>0, <2>1, MembersIInv DEF MembersAgree
<1>5. QED
  BY <1>1, <1>2, <1>3, <1>4 DEF Connecting

LEMMA TransferIInv ==
  ASSUME IInv, NEW c \in Clients, Transfer(c)
  PROVE  IInv'
<1> USE DEF IInv
<1>a. cl[c] \in Client
  BY DEF TypeOK
<1>b. ASSUME c \in live, live' = live, HardError(c)
      PROVE  IInv'
  BY <1>b, StopIInv DEF HardError
<1>c. ASSUME c \in live, live' = live, sock' = sock, cl[c].handle # NoSock, cl[c].st = "Idle",
             NEW m \in 0..MaxPending, cl' = [cl EXCEPT ![c].pend = m]
      PROVE  IInv'
  <2> DEFINE r == [cl[c] EXCEPT !.pend = m]
  <2>1. r \in Client /\ r.handle = cl[c].handle /\ r.st = "Idle"
    BY <1>a, <1>c DEF Client
  <2>2. cl' = [cl EXCEPT ![c] = r]
    BY <1>c
  <2> HIDE DEF r
  <2>3. QED
    BY <1>c, <2>1, <2>2, MembersIInv
<1>d. Usable(c) => cl[c].st = "Idle"
  BY <1>a DEF Usable, MembersAgree, Client
<1>1. ASSUME NEW n \in 1..MaxPending, WriteAsync(c, n)
      PROVE  IInv'
  <2>1. ASSUME NEW k \in 0..n, cl' = [cl EXCEPT ![c].pend = n - k], sock' = sock
        PROVE  IInv'
    <3>1. n - k \in 0..MaxPending
      BY PendingAssumption
    <3>2. QED
      BY <1>1, <1>c, <1>d, <2>1, <3>1 DEF WriteAsync, Usable
  <2>2. QED
    BY <1>1, <1>b, <2>1 DEF WriteAsync, Usable
<1>2. CASE PollWrite(c)
  <2>1. ASSUME NEW k \in 1..cl[c].pend, cl' = [cl EXCEPT ![c].pend = cl[c].pend - k], sock' = sock
        PROVE  IInv'
    <3>1. cl[c].pend - k \in 0..MaxPending
      BY <1>a, PendingAssumption DEF Client
    <3>2. QED
      BY <1>2, <1>c, <1>d, <2>1, <3>1 DEF PollWrite, Usable
  <2>2. QED
    BY <1>2, <1>b, <2>1 DEF PollWrite, Usable
<1>3. CASE Write(c)
  BY <1>3, <1>b DEF Write, Usable
<1>e. ASSUME NEW h \in Socks, NEW u \in BOOLEAN, live' = live, cl' = cl,
             sock' = [sock EXCEPT ![h].unread = u]
      PROVE  IInv'
  <2>1. \A k \in Sock : LET q == [k EXCEPT !.unread = u] IN
             q \in Sock /\ q.refs = k.refs /\ q.phase = k.phase
    BY <1>e DEF Sock
  <2>2. \A s \in Socks : sock'[s].refs = sock[s].refs /\ sock'[s].phase = sock[s].phase
                         /\ sock'[s] \in Sock
    BY <1>e, <2>1 DEF TypeOK
  <2>3. TypeOK'
    BY <1>e, <2>2 DEF TypeOK
  <2>4. MembersAgree'
    BY <1>e DEF MembersAgree
  <2>5. QED
    BY <1>e, <2>2, <2>3, <2>4, LocalIInv DEF Free
<1>4. CASE Read(c)
  <2> DEFINE h == cl[c].handle
  <2>1. h \in Socks /\ c \in live /\ live' = live
    BY <1>4, <1>a DEF Read, Client
  <2>2. CASE ReadFails(c)
    <3> DEFINE a == AfterReset(h)
    <3>1. a \in [Socks -> Sock]
      BY ResetType DEF IInv
    <3>2. sock' = [a EXCEPT ![h].unread = FALSE] /\ cl' = [cl EXCEPT ![c] = Stopped(cl[c])]
      BY <2>2 DEF ReadFails
    <3> HIDE DEF a
    <3>3. \A k \in Sock : LET q == [k EXCEPT !.unread = FALSE] IN
             q \in Sock /\ q.refs = k.refs /\ q.phase = k.phase
      BY DEF Sock
    <3>4. \A s \in Socks : sock'[s] \in Sock /\ sock'[s].refs = a[s].refs /\ sock'[s].phase = a[s].phase
      BY <3>1, <3>2, <3>3
    <3>5. sock' \in [Socks -> Sock]
      BY <3>1, <3>2, <3>4
    <3>6. QED
      BY <2>1, <3>2, <3>4, <3>5, ReleaseIInv DEF a
  <2>3. QED
    BY <1>4, <1>e, <2>1, <2>2 DEF Read
<1>5. CASE Flush(c)
  <2>1. cl[c].handle \in Socks
    BY <1>5, <1>a DEF Flush, Client
  <2>2. QED
    BY <1>5, <1>e, <2>1 DEF Flush
<1>6. CASE Connected(c)
  <2> DEFINE b == sock[cl[c].handle].phase \notin {"rst", "err", "dead"}
             r == [[cl[c] EXCEPT !.throttled = TRUE] EXCEPT !.conn = b]
  <2>1. [cl[c] EXCEPT !.throttled = TRUE] \in Client
    BY <1>a DEF Client
  <2>2. r \in Client /\ r.handle = cl[c].handle /\ r.st = cl[c].st
    BY <1>a, <2>1 DEF Client
  <2>3. cl' = [cl EXCEPT ![c] = r] /\ sock' = sock /\ live' = live /\ c \in live
        /\ cl[c].handle # NoSock
    BY <1>6 DEF Connected, Usable, TypeOK
  <2>4. r.st = "Idle"
    BY <1>6, <1>d, <2>2 DEF Connected
  <2> HIDE DEF r
  <2>5. QED
    BY <2>2, <2>3, <2>4, MembersIInv
<1>7. CASE CacheEndpoints(c)
  <2>0. PICK v \in BOOLEAN :
          cl' = [cl EXCEPT ![c].peerIp = sock[cl[c].handle].peer, ![c].valid = v]
    BY <1>7 DEF CacheEndpoints
  <2> DEFINE r == [cl[c] EXCEPT !.peerIp = sock[cl[c].handle].peer, !.valid = v]
  <2>1. c \in live /\ live' = live /\ sock' = sock /\ cl[c].handle \in Socks
        /\ cl' = [cl EXCEPT ![c] = r]
    BY <1>7, <1>a, <2>0 DEF CacheEndpoints, Client, TypeOK
  <2>2. sock[cl[c].handle].peer \in Peers \cup {NoPeer}
    BY <2>1 DEF TypeOK, Sock
  <2>3. r \in Client /\ r.handle = cl[c].handle /\ r.st = cl[c].st /\ r.conn = cl[c].conn
        /\ r.pend = cl[c].pend
    BY <1>a, <2>2 DEF Client
  <2> HIDE DEF r
  <2>4. QED
    BY <2>1, <2>3, MembersIInv DEF MembersAgree
<1>8. QED
  BY <1>1, <1>2, <1>3, <1>4, <1>5, <1>6, <1>7 DEF Transfer, Outgoing

LEMMA EnvironmentIInv ==
  ASSUME IInv, (\E s \in Socks : Handshake(s) \/ PeerCloses(s)) \/ Tick
  PROVE  IInv'
<1> USE DEF IInv
<1>1. ASSUME NEW s \in Socks, Handshake(s) \/ PeerCloses(s)
      PROVE  IInv'
  <2>1. PICK ph \in Phases \ {"closed"} : sock' = [sock EXCEPT ![s].phase = ph]
    BY <1>1 DEF Handshake, PeerCloses, Phases
  <2>2. live' = live /\ cl' = cl /\ sock[s].phase # "closed"
    BY <1>1 DEF Handshake, PeerCloses
  <2>3. \A k \in Sock : LET q == [k EXCEPT !.phase = ph] IN
             q \in Sock /\ q.refs = k.refs /\ q.phase = ph
    BY DEF Sock
  <2>4. \A z \in Socks : sock'[z].refs = sock[z].refs /\ sock'[z] \in Sock
                         /\ (sock'[z].phase = "closed" <=> sock[z].phase = "closed")
    BY <2>1, <2>2, <2>3 DEF TypeOK
  <2>5. TypeOK'
    BY <2>1, <2>2, <2>4 DEF TypeOK
  <2>6. MembersAgree'
    BY <2>2 DEF MembersAgree
  <2>7. QED
    BY <2>2, <2>4, <2>5, <2>6, LocalIInv DEF Free
<1>2. CASE Tick
  <2> DEFINE A(r) == IF r.st = "Connecting" /\ r.age < MaxAge THEN r.age + 1 ELSE r.age
             T(r) == [r EXCEPT !.throttled = FALSE, !.age = A(r)]
  <2>1. cl' = [d \in Clients |-> T(cl[d])] /\ live' = live /\ sock' = sock
    BY <1>2 DEF Tick
  <2>2. ASSUME NEW r \in Client
        PROVE  T(r) \in Client /\ T(r).handle = r.handle /\ T(r).st = r.st
               /\ T(r).conn = r.conn /\ T(r).pend = r.pend
    <3>1. A(r) \in 0..MaxAge
      BY TimeoutAssumption DEF Client
    <3> HIDE DEF A
    <3>2. QED
      BY <3>1 DEF Client
  <2> HIDE DEF T
  <2>4. TypeOK'
    BY <2>1, <2>2 DEF TypeOK
  <2>5. \A d \in Clients : cl[d] \in Client /\ cl'[d] = T(cl[d])
    BY <2>1 DEF TypeOK
  <2>6. MembersAgree'
    <3> SUFFICES ASSUME NEW e \in Clients
                 PROVE  /\ cl'[e].conn \/ cl'[e].st = "Connecting" \/ cl'[e].pend > 0
                             => cl'[e].handle # NoSock
                        /\ cl'[e].st = "Connecting" => ~cl'[e].conn /\ cl'[e].pend = 0
                        /\ e \notin live' => cl'[e].handle = NoSock
      BY DEF MembersAgree
    <3>1. QED
      BY <2>1, <2>2, <2>5 DEF MembersAgree
  <2>7. QED
    BY <2>1, <2>2, <2>4, <2>5, <2>6, LocalIInv DEF Free
<1>3. QED
  BY <1>1, <1>2

-----------------------------------------------------------------------------
(* The theorems                                                            *)

LEMMA InitIInv == Init => IInv
<1> SUFFICES ASSUME Init
             PROVE  IInv
  OBVIOUS
<1>1. TypeOK
  BY ClientTypes DEF Init, TypeOK, ClosedSock, Sock, Phases
<1>2. \A s \in Socks : Owners(s) = {}
  BY BlankFields, NoSockAssumption DEF Init, Owners
<1>3. Ownership
  BY <1>2, FS_EmptySet DEF Init, Ownership, RefsCountOwners, DescriptorsOwned, Free, ClosedSock
<1>4. MembersAgree
  BY BlankFields DEF Init, MembersAgree
<1>5. QED
  BY <1>1, <1>3, <1>4 DEF IInv

LEMMA NextIInv == IInv /\ [Next]_vars => IInv'
<1> SUFFICES ASSUME IInv, [Next]_vars
             PROVE  IInv'
  OBVIOUS
<1>1. CASE Next
  BY <1>1, LifecycleIInv, ConnectingIInv, TransferIInv, EnvironmentIInv DEF Next
<1>2. CASE UNCHANGED vars
  <2>1. live' = live /\ cl' = cl /\ sock' = sock
    BY <1>2 DEF vars
  <2>2. TypeOK' /\ MembersAgree'
    BY <2>1 DEF IInv, TypeOK, MembersAgree
  <2>3. QED
    BY <2>1, <2>2, LocalIInv DEF Free
<1>3. QED
  BY <1>1, <1>2

(* WiFiClient keeps its types: in particular m_ref_count never goes below  *)
(* zero, whatever the sketch does with its objects.                        *)
THEOREM TypeCorrect == Spec => []TypeOK
<1>1. IInv => TypeOK
  BY DEF IInv
<1>2. QED
  BY <1>1, InitIInv, NextIInv, PTL DEF Spec

(* m_ref_count counts the owners, and a descriptor is open exactly while   *)
(* it is owned: no leak, no double close, no use after close, for any      *)
(* number of WiFiClient objects, copies, moves and reconnects.             *)
THEOREM NoDescriptorLeak == Spec => [](RefsCountOwners /\ DescriptorsOwned)
<1>1. IInv => RefsCountOwners /\ DescriptorsOwned
  BY DEF IInv, Ownership
<1>2. QED
  BY <1>1, InitIInv, NextIInv, PTL DEF Spec

(* The members of every WiFiClient agree; pollConnect() never finds its    *)
(* socket gone mid-handshake.                                              *)
THEOREM MembersAlwaysAgree == Spec => []MembersAgree
<1>1. IInv => MembersAgree
  BY DEF IInv
<1>2. QED
  BY <1>1, InitIInv, NextIInv, PTL DEF Spec

-----------------------------------------------------------------------------
(* Endpoints and views                                                     *)

(* What a step may do with an object: it keeps its handle, and its cache   *)
(* or the cache is filled from that handle; *)
Stays(e) ==
  /\ cl'[e].handle = cl[e].handle
  /\ \/ ~cl'[e].valid
     \/ cl'[e].valid = cl[e].valid /\ cl'[e].peerIp = cl[e].peerIp
     \/ cl[e].handle # NoSock /\ cl'[e].peerIp = sock[cl[e].handle].peer

(* it has neither cache nor view afterwards; *)
Empties(e) == ~cl'[e].valid /\ cl'[e].pend = 0

(* or it takes over the handle and the view of another. *)
TakesOver(e) ==
  /\ ~cl'[e].valid
  /\ \E d \in Clients : cl[d].handle = cl'[e].handle /\ cl[d].pend = cl'[e].pend

Moves == \A e \in Clients : Stays(e) \/ Empties(e) \/ TakesOver(e)

(* The peer of a descriptor changes only when it is opened or closed. *)
PeersStay == \A s \in Socks : sock'[s].peer = sock[s].peer \/ Free(s) \/ Free(s)'

LEMMA LocalMoves ==
  ASSUME TypeOK, NEW c \in Clients, NEW r, cl' = [cl EXCEPT ![c] = r],
         \/ r.handle = cl[c].handle /\ r.valid = cl[c].valid /\ r.peerIp = cl[c].peerIp
         \/ ~r.valid /\ r.pend = 0
         \/ ~r.valid /\ \E d \in Clients : cl[d].handle = r.handle /\ cl[d].pend = r.pend
  PROVE  Moves
<1>1. cl'[c] = r /\ \A d \in Clients \ {c} : cl'[d] = cl[d]
  BY DEF TypeOK
<1>2. Stays(c) \/ Empties(c) \/ TakesOver(c)
  BY <1>1 DEF Stays, Empties, TakesOver
<1>3. \A d \in Clients \ {c} : Stays(d)
  BY <1>1 DEF Stays
<1> QED BY <1>2, <1>3 DEF Moves

LEMMA SameMoves ==
  ASSUME cl' = cl
  PROVE  Moves
BY DEF Moves, Stays

LEMMA StopMoves ==
  ASSUME TypeOK, NEW c \in Clients, cl' = [cl EXCEPT ![c] = Stopped(cl[c])]
  PROVE  Moves
<1>1. ~Stopped(cl[c]).valid /\ Stopped(cl[c]).pend = 0
  BY StoppedFields DEF TypeOK
<1> QED BY <1>1, LocalMoves

LEMMA LifecycleMoves ==
  ASSUME TypeOK, NEW c \in Clients, Lifecycle(c)
  PROVE  Moves
<1>1. CASE Construct(c) \/ Destroy(c)
  BY <1>1, BlankFields, LocalMoves DEF Construct, Destroy
<1>2. CASE Stop(c)
  BY <1>2, StopMoves DEF Stop
<1>3. ASSUME NEW s \in Socks, NEW p \in Peers, ConstructFd(c, s, p)
      PROVE  Moves
  <2>1. PICK r : r = [Blank EXCEPT !.handle = s, !.conn = TRUE]
    OBVIOUS
  <2>2. ~r.valid /\ r.pend = 0
    BY <2>1 DEF Blank
  <2> QED BY <1>3, <2>1, <2>2, LocalMoves DEF ConstructFd
<1>4. ASSUME NEW d \in Clients, NEW a \in Peers \cup {NoPeer}, cl' = [cl EXCEPT ![c] = CopyOf(d, a)]
      PROVE  Moves
  BY <1>4, CopyFields, LocalMoves
<1>5. ASSUME NEW d \in Clients, CopyConstruct(c, d) \/ CopyAssign(c, d)
      PROVE  Moves
  BY <1>4, <1>5, StopMoves DEF CopyConstruct, CopyAssign, TypeOK, Client
<1>6. ASSUME NEW d \in Clients, MoveConstruct(c, d) \/ MoveAssign(c, d)
      PROVE  Moves
  <2>1. c # d
    BY <1>6 DEF MoveConstruct, MoveAssign
  <2>2. PICK a \in Peers \cup {NoPeer} :
          cl'[c] = CopyOf(d, a) /\ cl'[d] = Stopped(cl[d]) /\ \A e \in Clients \ {c, d} : cl'[e] = cl[e]
    BY <1>6, <2>1, MoveCopies
  <2>3. TakesOver(c)
    BY <2>2, CopyFields DEF TakesOver
  <2>4. Empties(d)
    BY <2>2, StoppedFields DEF Empties, TypeOK
  <2>5. \A e \in Clients \ {c, d} : Stays(e)
    BY <2>2 DEF Stays
  <2> QED BY <2>3, <2>4, <2>5 DEF Moves
<1> QED BY <1>1, <1>2, <1>3, <1>5, <1>6 DEF Lifecycle

LEMMA ConnectingMoves ==
  ASSUME TypeOK, NEW c \in Clients, Connecting(c)
  PROVE  Moves
<1>0. cl[c] \in Client
  BY DEF TypeOK
<1>1. ASSUME NEW s \in Socks, NEW p \in Peers, ConnectAsync(c, s, p)
      PROVE  Moves
  <2>1. PICK r : r = [cl[c] EXCEPT !.handle = s, !.pend = 0, !.valid = FALSE, !.st = "Connecting", !.age = 0]
    OBVIOUS
  <2>2. ~r.valid /\ r.pend = 0
    BY <1>0, <2>1 DEF Client
  <2> QED BY <1>1, <2>1, <2>2, LocalMoves DEF ConnectAsync
<1>2. ASSUME NEW t \in Timeouts, cl' = [cl EXCEPT ![c].timeout = t]
      PROVE  Moves
  <2>1. PICK r : r = [cl[c] EXCEPT !.timeout = t]
    OBVIOUS
  <2>2. r.handle = cl[c].handle /\ r.valid = cl[c].valid /\ r.peerIp = cl[c].peerIp
    BY <1>0, <2>1 DEF Client
  <2> QED BY <1>2, <2>1, <2>2, LocalMoves
<1>3. ASSUME NEW s \in Socks, NEW p \in Peers, NEW t \in Timeouts, Connect(c, s, p, t)
      PROVE  Moves
  <2>1. PICK r : r = [cl[c] EXCEPT !.timeout = t, !.handle = s, !.pend = 0, !.st = "Idle", !.valid = FALSE, !.conn = TRUE]
    OBVIOUS
  <2>2. ~r.valid /\ r.pend = 0
    BY <1>0, <2>1 DEF Client
  <2>3. cl' = [cl EXCEPT ![c].timeout = t] \/ cl' = [cl EXCEPT ![c] = r]
    BY <1>3, <2>1 DEF Connect
  <2> QED BY <1>2, <2>2, <2>3, LocalMoves
<1>4. CASE PollConnect(c)
  <2>1. CASE cl' = [cl EXCEPT ![c] = Stopped(cl[c])]
    BY <2>1, StopMoves
  <2>2. ASSUME NEW r, r.handle = cl[c].handle, r.valid = cl[c].valid, r.peerIp = cl[c].peerIp,
             cl' = [cl EXCEPT ![c] = r]
        PROVE  Moves
    BY <2>2, LocalMoves
  <2>3. CASE PollConnectDone(c)
    <3>1. PICK r : r = [cl[c] EXCEPT !.st = "Idle", !.conn = TRUE]
      OBVIOUS
    <3>2. r.handle = cl[c].handle /\ r.valid = cl[c].valid /\ r.peerIp = cl[c].peerIp
      BY <1>0, <3>1 DEF Client
    <3>3. cl' = [cl EXCEPT ![c] = r]
      BY <2>3, <3>1 DEF PollConnectDone, TypeOK
    <3> QED BY <2>2, <3>2, <3>3
  <2>4. CASE PollConnectVanished(c)
    <3>1. PICK r : r = [cl[c] EXCEPT !.st = "Idle"]
      OBVIOUS
    <3>2. r.handle = cl[c].handle /\ r.valid = cl[c].valid /\ r.peerIp = cl[c].peerIp
      BY <1>0, <3>1 DEF Client
    <3> QED BY <2>2, <2>4, <3>1, <3>2 DEF PollConnectVanished
  <2> QED BY <1>4, <2>1, <2>3, <2>4 DEF PollConnect, PollConnectWaiting, PollConnectFailed
<1>5. ASSUME NEW t \in Timeouts, SetTimeout(c, t)
      PROVE  Moves
  BY <1>2, <1>5 DEF SetTimeout
<1> QED BY <1>1, <1>3, <1>4, <1>5 DEF Connecting

LEMMA TransferMoves ==
  ASSUME TypeOK, NEW c \in Clients, Transfer(c)
  PROVE  Moves
<1>0. cl[c] \in Client
  BY DEF TypeOK
<1>1. ASSUME NEW m, cl' = [cl EXCEPT ![c].pend = m]
      PROVE  Moves
  <2>1. PICK r : r = [cl[c] EXCEPT !.pend = m]
    OBVIOUS
  <2>2. r.handle = cl[c].handle /\ r.valid = cl[c].valid /\ r.peerIp = cl[c].peerIp
    BY <1>0, <2>1 DEF Client
  <2> QED BY <1>1, <2>1, <2>2, LocalMoves
<1>2. CASE \/ \E n \in 1..MaxPending : WriteAsync(c, n)
           \/ PollWrite(c) \/ Write(c)
  <2>1. \/ \E m : cl' = [cl EXCEPT ![c].pend = m]
        \/ cl' = [cl EXCEPT ![c] = Stopped(cl[c])]
    BY <1>2 DEF WriteAsync, PollWrite, Write, HardError
  <2> QED BY <1>1, <2>1, StopMoves
<1>3. CASE Connected(c)
  <2>1. PICK r : r = [cl[c] EXCEPT !.throttled = TRUE,
                                   !.conn = sock[cl[c].handle].phase \notin {"rst", "err", "dead"}]
    OBVIOUS
  <2>2. r.handle = cl[c].handle /\ r.valid = cl[c].valid /\ r.peerIp = cl[c].peerIp
    BY <1>0, <2>1 DEF Client
  <2>3. cl' = [cl EXCEPT ![c] = r]
    BY <1>3, <2>1 DEF Connected, TypeOK
  <2> QED BY <2>2, <2>3, LocalMoves
<1>4. CASE CacheEndpoints(c)
  <2>0. PICK v \in BOOLEAN :
          cl' = [cl EXCEPT ![c].peerIp = sock[cl[c].handle].peer, ![c].valid = v]
    BY <1>4 DEF CacheEndpoints
  <2>1. PICK r : r = [cl[c] EXCEPT !.peerIp = sock[cl[c].handle].peer, !.valid = v]
    OBVIOUS
  <2>2. r.handle = cl[c].handle /\ r.peerIp = sock[cl[c].handle].peer
    BY <1>0, <2>1 DEF Client
  <2>3. cl'[c] = r /\ \A d \in Clients \ {c} : cl'[d] = cl[d]
    BY <2>0, <2>1 DEF TypeOK
  <2> QED BY <1>4, <2>2, <2>3 DEF CacheEndpoints, Moves, Stays
<1>5. CASE Read(c) \/ Flush(c)
  BY <1>5, StopMoves, SameMoves DEF Read, Flush, ReadFails
<1> QED BY <1>2, <1>3, <1>4, <1>5 DEF Transfer, Outgoing

LEMMA AllMove ==
  ASSUME TypeOK, [Next]_vars
  PROVE  Moves
<1>1. CASE Tick
  <2>1. ASSUME NEW e \in Clients
        PROVE  Stays(e)
    <3>1. cl[e] \in Client
      BY DEF TypeOK
    <3>2. PICK a : cl'[e] = [cl[e] EXCEPT !.throttled = FALSE, !.age = a]
      BY <1>1 DEF Tick
    <3>3. cl'[e].handle = cl[e].handle /\ cl'[e].valid = cl[e].valid /\ cl'[e].peerIp = cl[e].peerIp
      BY <3>1, <3>2 DEF Client
    <3> QED BY <3>3 DEF Stays
  <2> QED BY <2>1 DEF Moves
<1>2. CASE UNCHANGED vars \/ \E s \in Socks : Handshake(s) \/ PeerCloses(s)
  BY <1>2, SameMoves DEF vars, Handshake, PeerCloses
<1> QED BY <1>1, <1>2, LifecycleMoves, ConnectingMoves, TransferMoves DEF Next

LEMMA ResetPeers ==
  ASSUME TypeOK, NEW h, NEW s \in Socks
  PROVE  AfterReset(h)[s].peer = sock[s].peer \/ AfterReset(h)[s].phase = "closed"
<1>1. PICK k, n : k = sock[s] /\ n = sock[s].refs - 1
  OBVIOUS
<1>2. AfterReset(h)[s] = k \/ AfterReset(h)[s] = ClosedSock \/ AfterReset(h)[s] = [k EXCEPT !.refs = n]
  BY <1>1 DEF AfterReset
<1>3. k \in Sock /\ [k EXCEPT !.refs = n].peer = k.peer
  BY <1>1 DEF TypeOK, Sock
<1>4. ClosedSock.phase = "closed"
  BY DEF ClosedSock
<1> QED BY <1>1, <1>2, <1>3, <1>4

LEMMA SharePeers ==
  ASSUME TypeOK, Ownership, NEW c \in Clients, NEW g, NEW h \in {NoSock, cl[c].handle}, NEW s \in Socks
  PROVE  AfterShare(h, g)[s].peer = sock[s].peer \/ AfterShare(h, g)[s].phase = "closed"
<1>1. AfterReset(h) \in [Socks -> Sock]
  BY ResetType DEF TypeOK
<1>2. AfterShare(h, g)[s].peer = AfterReset(h)[s].peer /\ AfterShare(h, g)[s].phase = AfterReset(h)[s].phase
  BY <1>1, ShareIs, SharedFields
<1> QED BY <1>2, ResetPeers

LEMMA MakePeers ==
  ASSUME TypeOK, NEW h, NEW n, Free(n), NEW ph, NEW p, NEW s \in Socks
  PROVE  \/ AfterMake(h, n, ph, p)[s].peer = sock[s].peer \/ Free(s)
         \/ AfterMake(h, n, ph, p)[s].phase = "closed"
<1>1. CASE s = n
  BY <1>1
<1>2. CASE s # n
  <2>1. AfterMake(h, n, ph, p)[s] = AfterReset(h)[s]
    BY <1>2 DEF AfterMake
  <2> QED BY <2>1, ResetPeers
<1> QED BY <1>1, <1>2

(* The descriptors of a step that opens and closes none. *)
LEMMA SamePeers ==
  ASSUME TypeOK, NEW h, \/ sock' = sock
                        \/ \E u : sock' = [sock EXCEPT ![h].unread = u]
                        \/ \E ph : sock' = [sock EXCEPT ![h].phase = ph]
  PROVE  PeersStay
<1>1. ASSUME NEW s \in Socks
      PROVE  sock'[s].peer = sock[s].peer
  <2>1. PICK k : k = sock[s] /\ k \in Sock
    BY DEF TypeOK
  <2>2. CASE sock'[s] = k
    BY <2>1, <2>2
  <2>3. ASSUME NEW u, sock'[s] = [k EXCEPT !.unread = u]
        PROVE  sock'[s].peer = sock[s].peer
    <3>1. [k EXCEPT !.unread = u].peer = k.peer
      BY <2>1 DEF Sock
    <3> QED BY <2>1, <2>3, <3>1
  <2>4. ASSUME NEW ph, sock'[s] = [k EXCEPT !.phase = ph]
        PROVE  sock'[s].peer = sock[s].peer
    <3>1. [k EXCEPT !.phase = ph].peer = k.peer
      BY <2>1 DEF Sock
    <3> QED BY <2>1, <2>4, <3>1
  <2>5. \/ sock'[s] = k
        \/ \E u : sock'[s] = [k EXCEPT !.unread = u]
        \/ \E ph : sock'[s] = [k EXCEPT !.phase = ph]
    BY <2>1 DEF TypeOK
  <2> QED BY <2>2, <2>3, <2>4, <2>5
<1> QED BY <1>1 DEF PeersStay

LEMMA ReleasePeers ==
  ASSUME TypeOK, NEW h, sock' = AfterReset(h)
  PROVE  PeersStay
BY ResetPeers DEF PeersStay, Free

LEMMA LifecyclePeers ==
  ASSUME TypeOK, Ownership, NEW c \in Clients, Lifecycle(c)
  PROVE  PeersStay
<1>1. CASE Construct(c)
  BY <1>1, SamePeers DEF Construct
<1>2. CASE Stop(c) \/ Destroy(c)
  BY <1>2, ReleasePeers DEF Stop, Destroy
<1>3. ASSUME NEW s \in Socks, NEW p \in Peers, ConstructFd(c, s, p)
      PROVE  PeersStay
  BY <1>3, MakePeers DEF ConstructFd, PeersStay, Free
<1>4. ASSUME NEW d \in Clients, CopyConstruct(c, d)
      PROVE  PeersStay
  BY <1>4, SharePeers DEF CopyConstruct, PeersStay, Free
<1>5. ASSUME NEW d \in Clients, CopyAssign(c, d)
      PROVE  PeersStay
  <2>1. CASE sock' = AfterReset(cl[c].handle)
    BY <2>1, ReleasePeers
  <2>2. CASE sock' = AfterShare(cl[c].handle, cl[d].handle)
    BY <2>2, SharePeers DEF PeersStay, Free
  <2> QED BY <1>5, <2>1, <2>2 DEF CopyAssign
<1>6. ASSUME NEW d \in Clients, MoveConstruct(c, d) \/ MoveAssign(c, d)
      PROVE  PeersStay
  BY <1>6, SamePeers, ReleasePeers DEF MoveConstruct, MoveAssign
<1> QED BY <1>1, <1>2, <1>3, <1>4, <1>5, <1>6 DEF Lifecycle

LEMMA ConnectingPeers ==
  ASSUME TypeOK, NEW c \in Clients, Connecting(c)
  PROVE  PeersStay
<1>1. ASSUME NEW s \in Socks, NEW p \in Peers, ConnectAsync(c, s, p)
      PROVE  PeersStay
  BY <1>1, MakePeers DEF ConnectAsync, PeersStay, Free
<1>2. ASSUME NEW s \in Socks, NEW p \in Peers, NEW t \in Timeouts, Connect(c, s, p, t)
      PROVE  PeersStay
  <2>1. CASE Free(s) /\ sock' = AfterMake(cl[c].handle, s, "est", p)
    BY <2>1, MakePeers DEF PeersStay, Free
  <2> QED BY <1>2, <2>1, SamePeers DEF Connect
<1>3. CASE PollConnectFailed(c)
  <2>1. PICK h : h = cl[c].handle
    OBVIOUS
  <2>2. ASSUME NEW s \in Socks
        PROVE  \/ sock'[s] = AfterReset(h)[s]
               \/ sock'[s] = [sock[s] EXCEPT !.refs = sock[s].refs - 1, !.phase = "dead"]
    BY <1>3, <2>1 DEF PollConnectFailed
  <2>3. \A k \in Sock : \A n : [k EXCEPT !.refs = n, !.phase = "dead"].peer = k.peer
    BY DEF Sock
  <2>4. ASSUME NEW s \in Socks
        PROVE  sock'[s].peer = sock[s].peer \/ Free(s)'
    <3>1. sock[s] \in Sock
      BY DEF TypeOK
    <3>2. CASE sock'[s] = AfterReset(h)[s]
      BY <3>2, ResetPeers DEF Free
    <3>3. CASE sock'[s] = [sock[s] EXCEPT !.refs = sock[s].refs - 1, !.phase = "dead"]
      BY <2>3, <3>1, <3>3
    <3> QED BY <2>2, <3>2, <3>3
  <2> QED BY <2>4 DEF PeersStay
<1>4. CASE PollConnect(c)
  BY <1>3, <1>4, SamePeers, ReleasePeers DEF PollConnect, PollConnectWaiting, PollConnectDone, PollConnectVanished
<1>5. ASSUME NEW t \in Timeouts, SetTimeout(c, t)
      PROVE  PeersStay
  BY <1>5, SamePeers DEF SetTimeout
<1> QED BY <1>1, <1>2, <1>4, <1>5 DEF Connecting

LEMMA TransferPeers ==
  ASSUME TypeOK, Ownership, NEW c \in Clients, Transfer(c)
  PROVE  PeersStay
<1>1. CASE Outgoing(c)
  BY <1>1, SamePeers, ReleasePeers DEF Outgoing, WriteAsync, PollWrite, Write, HardError, Connected, CacheEndpoints
<1>2. CASE ReadFails(c)
  <2>1. PICK h, a : h = cl[c].handle /\ a = AfterReset(h)
    OBVIOUS
  <2>2. a \in [Socks -> Sock] /\ sock' = [a EXCEPT ![h].unread = FALSE]
    BY <1>2, <2>1, ResetType DEF ReadFails
  <2>3. \A k \in Sock : [k EXCEPT !.unread = FALSE].peer = k.peer /\ [k EXCEPT !.unread = FALSE].phase = k.phase
    BY DEF Sock
  <2>4. \A s \in Socks : sock'[s].peer = a[s].peer /\ sock'[s].phase = a[s].phase
    BY <2>2, <2>3
  <2> QED BY <2>1, <2>4, ResetPeers DEF PeersStay, Free
<1>3. CASE Read(c) \/ Flush(c)
  BY <1>2, <1>3, SamePeers DEF Read, Flush
<1> QED BY <1>1, <1>3 DEF Transfer

LEMMA AllPeersStay ==
  ASSUME TypeOK, Ownership, [Next]_vars
  PROVE  PeersStay
<1>1. CASE Tick \/ UNCHANGED vars
  BY <1>1, SamePeers DEF Tick, vars
<1>2. CASE \E s \in Socks : Handshake(s) \/ PeerCloses(s)
  BY <1>2, SamePeers DEF Handshake, PeerCloses
<1> QED BY <1>1, <1>2, LifecyclePeers, ConnectingPeers, TransferPeers DEF Next

LEMMA FreshStep ==
  ASSUME IInv, EndpointFresh, [Next]_vars
  PROVE  EndpointFresh'
<1>1. TypeOK /\ Ownership /\ TypeOK' /\ Ownership'
  BY NextIInv DEF IInv
<1>2. ASSUME NEW e \in Clients, cl'[e].valid
      PROVE  cl'[e].handle # NoSock /\ cl'[e].peerIp = sock'[cl'[e].handle].peer
  <2>1. Stays(e)
    BY <1>1, <1>2, AllMove DEF Moves, Empties, TakesOver
  <2>2. /\ cl'[e].handle = cl[e].handle /\ cl[e].handle # NoSock
        /\ cl'[e].peerIp = sock[cl[e].handle].peer
    BY <1>2, <2>1 DEF Stays, EndpointFresh
  <2>3. PICK h : h = cl[e].handle /\ h \in Socks /\ ~Free(h)
    BY <1>1, <2>2, HeldIsCounted
  <2>4. ~Free(h)'
    <3>1. e \in Owners(h)'
      BY <2>2, <2>3 DEF Owners
    <3> QED BY <1>1, <2>3, <3>1 DEF Ownership, DescriptorsOwned
  <2>5. sock'[h].peer = sock[h].peer
    BY <1>1, <2>3, <2>4, AllPeersStay DEF PeersStay
  <2> QED BY <2>2, <2>3, <2>5
<1> QED BY <1>2 DEF EndpointFresh

(* A cache that is valid names the peer of the connection that the object  *)
(* holds, not that of an earlier connection nor of another object's,       *)
(* however descriptors are recycled.  (remoteIP() is another matter: when  *)
(* refresh() fails it returns the address an invalidated cache still has.) *)
THEOREM EndpointsStayFresh == Spec => []EndpointFresh
<1>1. Init => IInv /\ EndpointFresh
  BY InitIInv, BlankFields DEF Init, EndpointFresh
<1>2. IInv /\ EndpointFresh /\ [Next]_vars => (IInv /\ EndpointFresh)'
  BY NextIInv, FreshStep
<1> QED BY <1>1, <1>2, PTL DEF Spec

(* An object that comes to another connection with bytes still pending     *)
(* took both over from an owner of that connection: connect(), stop(),     *)
(* copies and moves never carry the tail of one connection to another.     *)
THEOREM ViewsStayWithConnections == Spec => ViewStaysWithConnection
<1>1. IInv /\ [Next]_vars =>
        [\A c \in Clients :
           cl'[c].pend > 0 /\ cl'[c].handle # cl[c].handle =>
             \E d \in Clients : cl[d].handle = cl'[c].handle /\ cl[d].pend = cl'[c].pend]_vars
  BY AllMove DEF IInv, Moves, Stays, Empties, TakesOver
<1> QED BY <1>1, InitIInv, NextIInv, PTL DEF Spec, ViewStaysWithConnection

-----------------------------------------------------------------------------
(* Handshakes                                                              *)

(* An object mid-handshake shares its handle only if it was copied then. *)
Alone ==
  \A c, d \in Clients :
    cl[c].st = "Connecting" /\ cl[d].handle = cl[c].handle => c = d \/ sock[cl[c].handle].copied

(* So a handshake's error is taken from another only after a copy. *)
ErrorKept == \A s \in Socks : sock[s].phase = "dead" => sock[s].copied

(* What a step may make of a descriptor: it is opened or closed, or it     *)
(* stays a copied one, or it stays as it was and loses no error.           *)
Carried(s) ==
  \/ Free(s) /\ sock'[s].phase # "dead"
  \/ Free(s)'
  \/ sock'[s].copied
  \/ sock'[s].copied = sock[s].copied /\ (sock'[s].phase = "dead" => sock[s].phase = "dead")

Carries == \A s \in Socks : Carried(s)

(* A descriptor held before and after the step keeps its mark. *)
LEMMA HeldKeepsMark ==
  ASSUME IInv, IInv', Carries, NEW x \in Clients, NEW e \in Clients, NEW h \in Socks,
         cl[x].handle = h, cl'[e].handle = h, sock[h].copied
  PROVE  sock'[h].copied
<1>1. x \in Owners(h) /\ e \in Owners(h)'
  BY DEF Owners
<1>2. ~Free(h) /\ ~Free(h)'
  BY <1>1 DEF IInv, Ownership, DescriptorsOwned
<1> QED BY <1>2 DEF Carries, Carried

(* Object r is a copy of d, whose handshake, if it had one, is marked. *)
CopiedFrom(d, r) ==
  /\ r.handle = cl[d].handle /\ r.st = cl[d].st
  /\ Handshaking(cl[d].handle) => sock'[cl[d].handle].copied

(* What a step of object c alone may make of it. *)
LEMMA LocalAlone ==
  ASSUME IInv, IInv', Carries, Alone, NEW c \in Clients, NEW r, cl' = [cl EXCEPT ![c] = r],
         \/ r.handle = cl[c].handle /\ r.st \in {cl[c].st, "Idle"}
         \/ r.handle = NoSock /\ r.st = "Idle"
         \/ r.handle \in Socks /\ Free(r.handle)
         \/ \E d \in Clients : CopiedFrom(d, r)
  PROVE  Alone'
<1>1. cl'[c] = r /\ \A d \in Clients \ {c} : cl'[d] = cl[d]
  BY DEF IInv, TypeOK
<1>2. \A e \in Clients : /\ cl[e].st = "Connecting" => cl[e].handle \in Socks
                         /\ cl'[e].st = "Connecting" => cl'[e].handle \in Socks
  BY DEF IInv, MembersAgree, TypeOK, Client
<1>3. \A e \in Clients : cl[e].handle \in Socks => ~Free(cl[e].handle)
  BY HeldIsCounted, NoSockAssumption DEF IInv
<1> SUFFICES ASSUME NEW e \in Clients, NEW f \in Clients, e # f, NEW h \in Socks, h = cl'[e].handle,
                    cl'[e].st = "Connecting", cl'[f].handle = h
             PROVE  sock'[h].copied
  BY <1>2 DEF Alone
<1>4. ASSUME cl[e].st = "Connecting", cl[e].handle = h, cl[f].handle = h
      PROVE  sock'[h].copied
  <2>1. sock[h].copied
    BY <1>4 DEF Alone
  <2> QED BY <1>4, <2>1, HeldKeepsMark
<1>5. CASE r.handle = cl[c].handle /\ r.st \in {cl[c].st, "Idle"}
  BY <1>1, <1>4, <1>5
<1>6. CASE r.handle = NoSock /\ r.st = "Idle"
  BY <1>1, <1>4, <1>6, NoSockAssumption
<1>7. CASE r.handle \in Socks /\ Free(r.handle)
  <2>1. \A d \in Clients : cl[d].handle # r.handle
    BY <1>3, <1>7
  <2> QED BY <1>1, <1>4, <2>1
<1>8. ASSUME NEW d \in Clients, r.handle = cl[d].handle, r.st = cl[d].st,
             Handshaking(cl[d].handle) => sock'[cl[d].handle].copied
      PROVE  sock'[h].copied
  <2>1. CASE e = c
    <3>1. d \in Owners(h) /\ cl[d].st = "Connecting"
      BY <1>1, <1>8, <2>1 DEF Owners
    <3> QED BY <1>1, <1>8, <2>1, <3>1 DEF Handshaking
  <2>2. CASE f = c
    <3>1. e \in Owners(h) /\ cl[e].st = "Connecting"
      BY <1>1, <2>2 DEF Owners
    <3> QED BY <1>1, <1>8, <2>2, <3>1 DEF Handshaking
  <2>3. CASE e # c /\ f # c
    <3>1. cl[e].st = "Connecting" /\ cl[e].handle = h /\ cl[f].handle = h
      BY <1>1, <2>3
    <3> QED BY <1>4, <3>1
  <2> QED BY <2>1, <2>2, <2>3
<1>9. ASSUME NEW d \in Clients, CopiedFrom(d, r)
      PROVE  sock'[h].copied
  BY <1>8, <1>9 DEF CopiedFrom
<1> QED BY <1>5, <1>6, <1>7, <1>9

LEMMA StopAlone ==
  ASSUME IInv, IInv', Carries, Alone, NEW c \in Clients, cl' = [cl EXCEPT ![c] = Stopped(cl[c])]
  PROVE  Alone'
<1>1. Stopped(cl[c]).handle = NoSock /\ Stopped(cl[c]).st = "Idle"
  BY StoppedFields DEF IInv, TypeOK
<1> QED BY <1>1, LocalAlone

LEMMA SameAlone ==
  ASSUME IInv, IInv', Carries, Alone,
         \A e \in Clients : cl'[e].handle = cl[e].handle /\ cl'[e].st = cl[e].st
  PROVE  Alone'
<1> SUFFICES ASSUME NEW e \in Clients, NEW f \in Clients, e # f,
                    cl[e].st = "Connecting", cl[f].handle = cl[e].handle
             PROVE  sock'[cl[e].handle].copied
  BY DEF Alone
<1>1. cl[e].handle \in Socks /\ sock[cl[e].handle].copied
  BY DEF IInv, MembersAgree, TypeOK, Client, Alone
<1> QED BY <1>1, HeldKeepsMark

LEMMA LifecycleAlone ==
  ASSUME IInv, IInv', Carries, Alone, NEW c \in Clients, Lifecycle(c)
  PROVE  Alone'
<1>1. CASE Construct(c) \/ Destroy(c)
  BY <1>1, BlankFields, LocalAlone DEF Construct, Destroy
<1>2. CASE Stop(c)
  BY <1>2, StopAlone DEF Stop
<1>3. ASSUME NEW s \in Socks, NEW p \in Peers, ConstructFd(c, s, p)
      PROVE  Alone'
  <2>1. PICK r : r = [Blank EXCEPT !.handle = s, !.conn = TRUE]
    OBVIOUS
  <2>2. r.handle = s
    BY <2>1 DEF Blank
  <2>3. cl' = [cl EXCEPT ![c] = r] /\ Free(r.handle)
    BY <1>3, <2>1, <2>2 DEF ConstructFd
  <2> QED BY <2>2, <2>3, LocalAlone
<1>4. ASSUME NEW d \in Clients, CopyConstruct(c, d) \/ (CopyAssign(c, d) /\ c # d)
      PROVE  Alone'
  <2>1. PICK a \in Peers \cup {NoPeer}, h \in {NoSock, cl[c].handle} :
          cl' = [cl EXCEPT ![c] = CopyOf(d, a)] /\ sock' = AfterShare(h, cl[d].handle)
    BY <1>4 DEF CopyConstruct, CopyAssign, IInv, TypeOK, Client
  <2>2. CopyOf(d, a).handle = cl[d].handle /\ CopyOf(d, a).st = cl[d].st
    BY CopyFields DEF IInv
  <2>3. ASSUME Handshaking(cl[d].handle)
        PROVE  sock'[cl[d].handle].copied
    <3>1. cl[d].handle \in Socks
      BY <2>3 DEF Handshaking, Owners, IInv, MembersAgree, TypeOK, Client
    <3>2. AfterReset(h)[cl[d].handle] \in Sock
      BY <3>1, ResetType DEF IInv, TypeOK
    <3> QED BY <2>1, <2>3, <3>1, <3>2, ShareIs, SharedFields
  <2>4. CopiedFrom(d, CopyOf(d, a))
    BY <2>2, <2>3 DEF CopiedFrom
  <2> QED BY <2>1, <2>4, LocalAlone
<1>5. ASSUME NEW d \in Clients, CopyConstruct(c, d) \/ CopyAssign(c, d)
      PROVE  Alone'
  BY <1>4, <1>5, StopAlone DEF CopyAssign
<1>6. ASSUME NEW d \in Clients, MoveConstruct(c, d) \/ MoveAssign(c, d)
      PROVE  Alone'
  <2>1. c # d
    BY <1>6 DEF MoveConstruct, MoveAssign
  <2>2. PICK a \in Peers \cup {NoPeer} :
          cl'[c] = CopyOf(d, a) /\ cl'[d] = Stopped(cl[d]) /\ \A e \in Clients \ {c, d} : cl'[e] = cl[e]
    BY <1>6, <2>1, MoveCopies DEF IInv
  <2>3. /\ cl'[c].handle = cl[d].handle /\ cl'[c].st = cl[d].st
        /\ cl'[d].handle = NoSock /\ cl'[d].st = "Idle"
    BY <2>2, CopyFields, StoppedFields DEF IInv, TypeOK
  <2>4. \A e \in Clients : cl'[e].st = "Connecting" => cl'[e].handle # NoSock /\ cl'[e].handle \in Socks
    BY DEF IInv, MembersAgree, TypeOK, Client
  <2>5. ASSUME NEW e \in Clients, NEW f \in Clients, cl'[e].st = "Connecting", cl'[f].handle = cl'[e].handle,
               e # f
        PROVE  sock'[cl'[e].handle].copied
    <3>1. e # d /\ f # d
      BY <2>1, <2>2, <2>3, <2>4, <2>5
    <3>2. PICK x \in Clients, y \in Clients :
            /\ x # y /\ cl[x].st = "Connecting" /\ cl[x].handle = cl'[e].handle
            /\ cl[y].handle = cl'[e].handle
      <4>1. CASE e = c
        BY <2>2, <2>3, <2>5, <3>1, <4>1
      <4>2. CASE f = c
        BY <2>2, <2>3, <2>5, <3>1, <4>2
      <4>3. CASE e # c /\ f # c
        BY <2>2, <2>3, <2>5, <3>1, <4>3
      <4> QED BY <4>1, <4>2, <4>3
    <3>3. sock[cl'[e].handle].copied
      BY <3>2 DEF Alone
    <3> QED BY <2>4, <2>5, <3>2, <3>3, HeldKeepsMark
  <2> QED BY <2>5 DEF Alone
<1> QED BY <1>1, <1>2, <1>3, <1>5, <1>6 DEF Lifecycle

LEMMA ConnectingAlone ==
  ASSUME IInv, IInv', Carries, Alone, NEW c \in Clients, Connecting(c)
  PROVE  Alone'
<1>0. cl[c] \in Client
  BY DEF IInv, TypeOK
<1>1. ASSUME NEW s \in Socks, NEW p \in Peers, ConnectAsync(c, s, p)
      PROVE  Alone'
  <2>1. PICK r : r = [cl[c] EXCEPT !.handle = s, !.pend = 0, !.valid = FALSE, !.st = "Connecting", !.age = 0]
    OBVIOUS
  <2>2. r.handle = s
    BY <1>0, <2>1 DEF Client
  <2>3. cl' = [cl EXCEPT ![c] = r] /\ Free(r.handle)
    BY <1>1, <2>1, <2>2 DEF ConnectAsync
  <2> QED BY <2>2, <2>3, LocalAlone
<1>2. ASSUME NEW t \in Timeouts, cl' = [cl EXCEPT ![c].timeout = t]
      PROVE  Alone'
  <2>1. PICK r : r = [cl[c] EXCEPT !.timeout = t]
    OBVIOUS
  <2>2. r.handle = cl[c].handle /\ r.st = cl[c].st
    BY <1>0, <2>1 DEF Client
  <2> QED BY <1>2, <2>1, <2>2, LocalAlone
<1>3. ASSUME NEW s \in Socks, NEW p \in Peers, NEW t \in Timeouts, Connect(c, s, p, t)
      PROVE  Alone'
  <2>1. PICK r : r = [cl[c] EXCEPT !.timeout = t, !.handle = s, !.pend = 0, !.st = "Idle", !.valid = FALSE, !.conn = TRUE]
    OBVIOUS
  <2>2. r.handle = s
    BY <1>0, <2>1 DEF Client
  <2>3. cl' = [cl EXCEPT ![c].timeout = t] \/ (cl' = [cl EXCEPT ![c] = r] /\ Free(r.handle))
    BY <1>3, <2>1, <2>2 DEF Connect
  <2> QED BY <1>2, <2>2, <2>3, LocalAlone
<1>4. CASE PollConnect(c)
  <2>1. ASSUME NEW r, r.handle = cl[c].handle, r.st = "Idle", cl' = [cl EXCEPT ![c] = r]
        PROVE  Alone'
    BY <2>1, LocalAlone
  <2>2. CASE PollConnectDone(c)
    <3>1. PICK r : r = [cl[c] EXCEPT !.st = "Idle", !.conn = TRUE]
      OBVIOUS
    <3>2. r.handle = cl[c].handle /\ r.st = "Idle"
      BY <1>0, <3>1 DEF Client
    <3>3. cl' = [cl EXCEPT ![c] = r]
      BY <2>2, <3>1 DEF PollConnectDone, IInv, TypeOK
    <3> QED BY <2>1, <3>2, <3>3
  <2>3. CASE PollConnectVanished(c)
    <3>1. PICK r : r = [cl[c] EXCEPT !.st = "Idle"]
      OBVIOUS
    <3>2. r.handle = cl[c].handle /\ r.st = "Idle"
      BY <1>0, <3>1 DEF Client
    <3> QED BY <2>1, <2>3, <3>1, <3>2 DEF PollConnectVanished
  <2> QED BY <1>4, <2>2, <2>3, StopAlone DEF PollConnect, PollConnectWaiting, PollConnectFailed
<1>5. ASSUME NEW t \in Timeouts, SetTimeout(c, t)
      PROVE  Alone'
  BY <1>2, <1>5 DEF SetTimeout
<1> QED BY <1>1, <1>3, <1>4, <1>5 DEF Connecting

LEMMA TransferAlone ==
  ASSUME IInv, IInv', Carries, Alone, NEW c \in Clients, Transfer(c)
  PROVE  Alone'
<1>0. cl[c] \in Client
  BY DEF IInv, TypeOK
<1>1. ASSUME NEW r, r.handle = cl[c].handle, r.st = cl[c].st, cl' = [cl EXCEPT ![c] = r]
      PROVE  Alone'
  BY <1>1, LocalAlone
<1>2. ASSUME NEW m, cl' = [cl EXCEPT ![c].pend = m]
      PROVE  Alone'
  <2>1. PICK r : r = [cl[c] EXCEPT !.pend = m]
    OBVIOUS
  <2>2. r.handle = cl[c].handle /\ r.st = cl[c].st
    BY <1>0, <2>1 DEF Client
  <2> QED BY <1>1, <1>2, <2>1, <2>2
<1>3. CASE \/ \E n \in 1..MaxPending : WriteAsync(c, n)
           \/ PollWrite(c) \/ Write(c)
  <2>1. \/ \E m : cl' = [cl EXCEPT ![c].pend = m]
        \/ cl' = [cl EXCEPT ![c] = Stopped(cl[c])]
    BY <1>3 DEF WriteAsync, PollWrite, Write, HardError
  <2> QED BY <1>2, <2>1, StopAlone
<1>4. CASE Connected(c)
  <2>1. PICK r : r = [cl[c] EXCEPT !.throttled = TRUE,
                                   !.conn = sock[cl[c].handle].phase \notin {"rst", "err", "dead"}]
    OBVIOUS
  <2>2. r.handle = cl[c].handle /\ r.st = cl[c].st
    BY <1>0, <2>1 DEF Client
  <2>3. cl' = [cl EXCEPT ![c] = r]
    BY <1>4, <2>1 DEF Connected, IInv, TypeOK
  <2> QED BY <1>1, <2>2, <2>3
<1>5. CASE CacheEndpoints(c)
  <2>0. PICK v \in BOOLEAN :
          cl' = [cl EXCEPT ![c].peerIp = sock[cl[c].handle].peer, ![c].valid = v]
    BY <1>5 DEF CacheEndpoints
  <2>1. PICK r : r = [cl[c] EXCEPT !.peerIp = sock[cl[c].handle].peer, !.valid = v]
    OBVIOUS
  <2>2. r.handle = cl[c].handle /\ r.st = cl[c].st
    BY <1>0, <2>1 DEF Client
  <2>3. cl' = [cl EXCEPT ![c] = r]
    BY <2>0, <2>1 DEF IInv, TypeOK
  <2> QED BY <1>1, <2>2, <2>3
<1>6. CASE Read(c) \/ Flush(c)
  BY <1>6, StopAlone, SameAlone DEF Read, Flush, ReadFails
<1> QED BY <1>3, <1>4, <1>5, <1>6 DEF Transfer, Outgoing

LEMMA AloneStep ==
  ASSUME IInv, IInv', Carries, Alone, [Next]_vars
  PROVE  Alone'
<1>1. CASE Tick
  <2>1. ASSUME NEW e \in Clients
        PROVE  cl'[e].handle = cl[e].handle /\ cl'[e].st = cl[e].st
    <3>1. cl[e] \in Client
      BY DEF IInv, TypeOK
    <3>2. PICK a : cl'[e] = [cl[e] EXCEPT !.throttled = FALSE, !.age = a]
      BY <1>1 DEF Tick
    <3> QED BY <3>1, <3>2 DEF Client
  <2> QED BY <2>1, SameAlone
<1>2. CASE UNCHANGED vars \/ \E s \in Socks : Handshake(s) \/ PeerCloses(s)
  BY <1>2, SameAlone DEF vars, Handshake, PeerCloses
<1> QED BY <1>1, <1>2, LifecycleAlone, ConnectingAlone, TransferAlone DEF Next

LEMMA ResetCarried ==
  ASSUME TypeOK, NEW h, NEW s \in Socks, NEW k, k = AfterReset(h)[s]
  PROVE  k.phase = "closed" \/ (k.phase = sock[s].phase /\ k.copied = sock[s].copied)
<1>1. PICK q : q = [sock[s] EXCEPT !.refs = sock[s].refs - 1]
  OBVIOUS
<1>2. q.phase = sock[s].phase /\ q.copied = sock[s].copied
  BY <1>1 DEF TypeOK, Sock
<1>3. k \in {sock[s], ClosedSock, q}
  BY <1>1 DEF AfterReset
<1> QED BY <1>2, <1>3 DEF ClosedSock

LEMMA ReleaseCarries ==
  ASSUME TypeOK, NEW h, sock' = AfterReset(h)
  PROVE  Carries
BY ResetCarried DEF Carries, Carried, Free

LEMMA ShareCarries ==
  ASSUME TypeOK, Ownership, NEW c \in Clients, NEW g, NEW h \in {NoSock, cl[c].handle},
         sock' = AfterShare(h, g)
  PROVE  Carries
<1> SUFFICES ASSUME NEW s \in Socks
             PROVE  Carried(s)
  BY DEF Carries
<1>1. PICK k \in Sock : k = AfterReset(h)[s]
  BY ResetType DEF TypeOK
<1>2. sock'[s] = IF s = g THEN Shared(k, g) ELSE k
  BY <1>1, ShareIs
<1>3. sock'[s].phase = k.phase /\ (k.copied => sock'[s].copied)
  BY <1>2, SharedFields
<1>4. sock'[s].copied = k.copied \/ sock'[s].copied
  <2>1. sock'[s].copied \in BOOLEAN /\ k.copied \in BOOLEAN
    BY <1>2, SharedFields DEF Sock
  <2> QED BY <1>3, <2>1
<1> QED BY <1>1, <1>3, <1>4, ResetCarried DEF Carried, Free

LEMMA MakeCarries ==
  ASSUME TypeOK, NEW h, NEW n, Free(n), NEW ph \in {"syn", "est"}, NEW p,
         sock' = AfterMake(h, n, ph, p)
  PROVE  Carries
<1> SUFFICES ASSUME NEW s \in Socks
             PROVE  Carried(s)
  BY DEF Carries
<1>1. CASE s = n
  <2>1. sock'[s].phase = ph
    BY <1>1 DEF AfterMake
  <2> QED BY <1>1, <2>1 DEF Carried
<1>2. CASE s # n
  <2>1. sock'[s] = AfterReset(h)[s]
    BY <1>2 DEF AfterMake
  <2> QED BY <2>1, ResetCarried DEF Carried, Free
<1> QED BY <1>1, <1>2

LEMMA SameCarries ==
  ASSUME TypeOK, NEW h, \/ sock' = sock
                        \/ \E u : sock' = [sock EXCEPT ![h].unread = u]
                        \/ \E ph \in Phases \ {"dead"} : sock' = [sock EXCEPT ![h].phase = ph]
  PROVE  Carries
<1>1. ASSUME NEW s \in Socks
      PROVE  Carried(s)
  <2>1. PICK k : k = sock[s] /\ k \in Sock
    BY DEF TypeOK
  <2>2. ASSUME NEW u, sock'[s] = [k EXCEPT !.unread = u]
        PROVE  Carried(s)
    <3>1. PICK q : q = [k EXCEPT !.unread = u]
      OBVIOUS
    <3>2. q.phase = k.phase /\ q.copied = k.copied
      BY <2>1, <3>1 DEF Sock
    <3> QED BY <2>1, <2>2, <3>1, <3>2 DEF Carried
  <2>3. ASSUME NEW ph \in Phases \ {"dead"}, sock'[s] = [k EXCEPT !.phase = ph]
        PROVE  Carried(s)
    <3>1. PICK q : q = [k EXCEPT !.phase = ph]
      OBVIOUS
    <3>2. q.phase = ph /\ q.copied = k.copied
      BY <2>1, <3>1 DEF Sock
    <3> QED BY <2>1, <2>3, <3>1, <3>2 DEF Carried
  <2>4. \/ sock'[s] = k
        \/ \E u : sock'[s] = [k EXCEPT !.unread = u]
        \/ \E ph \in Phases \ {"dead"} : sock'[s] = [k EXCEPT !.phase = ph]
    BY <2>1 DEF TypeOK
  <2>5. CASE sock'[s] = k
    BY <2>1, <2>5 DEF Carried
  <2> QED BY <2>2, <2>3, <2>4, <2>5
<1> QED BY <1>1 DEF Carries

(* pollConnect() leaves a descriptor whose error it has read open only if  *)
(* another object owns it, and then the handshake was copied.              *)
LEMMA FailedCarries ==
  ASSUME IInv, Alone, NEW c \in Clients, cl[c].st = "Connecting", PollConnectFailed(c)
  PROVE  Carries
<1>1. PICK h : h = cl[c].handle
  OBVIOUS
<1>2. h \in Socks /\ c \in Owners(h) /\ sock[h] \in Sock
  BY <1>1, HeldIsCounted DEF IInv, MembersAgree, TypeOK
<1>3. CASE sock[h].refs = 1
  <2>1. sock' = AfterReset(h)
    BY <1>1, <1>3 DEF PollConnectFailed, AfterReset
  <2> QED BY <2>1, ReleaseCarries DEF IInv
<1>4. CASE sock[h].refs # 1
  <2>1. Owners(h) # {c}
    BY <1>2, <1>4, FS_Singleton DEF IInv, Ownership, RefsCountOwners
  <2>2. PICK d \in Owners(h) : d # c
    BY <1>2, <2>1
  <2>3. sock[h].copied
    BY <1>1, <2>2 DEF Alone, Owners
  <2>4. ASSUME NEW s \in Socks
        PROVE  Carried(s)
    <3>1. CASE s = h
      <4>1. PICK q : q = [sock[h] EXCEPT !.refs = sock[h].refs - 1, !.phase = "dead"]
        OBVIOUS
      <4>2. q.copied = sock[h].copied
        BY <1>2, <4>1 DEF Sock
      <4>3. sock'[s] = q
        BY <1>1, <1>2, <1>4, <3>1, <4>1 DEF PollConnectFailed
      <4> QED BY <2>3, <4>2, <4>3 DEF Carried
    <3>2. CASE s # h
      <4>1. sock'[s] = AfterReset(h)[s]
        BY <1>1, <3>2 DEF PollConnectFailed
      <4> QED BY <4>1, ResetCarried DEF Carried, Free, IInv
    <3> QED BY <3>1, <3>2
  <2> QED BY <2>4 DEF Carries
<1> QED BY <1>3, <1>4

LEMMA CarriesStep ==
  ASSUME IInv, Alone, [Next]_vars
  PROVE  Carries
<1>0. TypeOK /\ Ownership /\ MembersAgree
  BY DEF IInv
<1>1. ASSUME NEW c \in Clients, Lifecycle(c)
      PROVE  Carries
  <2>1. ASSUME NEW s \in Socks, NEW p \in Peers, ConstructFd(c, s, p)
        PROVE  Carries
    BY <1>0, <2>1, MakeCarries DEF ConstructFd
  <2>2. ASSUME NEW d \in Clients, NEW h \in {NoSock, cl[c].handle}, sock' = AfterShare(h, cl[d].handle)
        PROVE  Carries
    BY <1>0, <2>2, ShareCarries
  <2>3. ASSUME NEW d \in Clients, CopyConstruct(c, d) \/ CopyAssign(c, d)
        PROVE  Carries
    <3>1. \/ sock' = AfterShare(NoSock, cl[d].handle) \/ sock' = AfterShare(cl[c].handle, cl[d].handle)
          \/ sock' = AfterReset(cl[c].handle)
      BY <2>3 DEF CopyConstruct, CopyAssign
    <3> QED BY <1>0, <2>2, <3>1, ReleaseCarries
  <2>4. ASSUME NEW d \in Clients, MoveConstruct(c, d) \/ MoveAssign(c, d)
        PROVE  Carries
    BY <1>0, <2>4, SameCarries, ReleaseCarries DEF MoveConstruct, MoveAssign
  <2>5. CASE Construct(c) \/ Stop(c) \/ Destroy(c)
    BY <1>0, <2>5, SameCarries, ReleaseCarries DEF Construct, Stop, Destroy
  <2> QED BY <1>1, <2>1, <2>3, <2>4, <2>5 DEF Lifecycle
<1>2. ASSUME NEW c \in Clients, Connecting(c)
      PROVE  Carries
  <2>1. ASSUME NEW s \in Socks, NEW p \in Peers, ConnectAsync(c, s, p) \/ \E t \in Timeouts : Connect(c, s, p, t)
        PROVE  Carries
    <3>1. \/ sock' = sock
          \/ Free(s) /\ sock' = AfterMake(cl[c].handle, s, "syn", p)
          \/ Free(s) /\ sock' = AfterMake(cl[c].handle, s, "est", p)
      BY <2>1 DEF ConnectAsync, Connect
    <3> QED BY <1>0, <3>1, SameCarries, MakeCarries
  <2>2. CASE PollConnect(c)
    BY <1>0, <2>2, FailedCarries, ReleaseCarries, SameCarries
       DEF PollConnect, PollConnectWaiting, PollConnectDone, PollConnectVanished
  <2>3. ASSUME NEW t \in Timeouts, SetTimeout(c, t)
        PROVE  Carries
    BY <1>0, <2>3, SameCarries DEF SetTimeout
  <2> QED BY <1>2, <2>1, <2>2, <2>3 DEF Connecting
<1>3. ASSUME NEW c \in Clients, Transfer(c)
      PROVE  Carries
  <2>1. CASE Outgoing(c)
    BY <1>0, <2>1, SameCarries, ReleaseCarries
       DEF Outgoing, WriteAsync, PollWrite, Write, HardError, Connected, CacheEndpoints
  <2>2. CASE ReadFails(c)
    <3>1. PICK h, a : h = cl[c].handle /\ a = AfterReset(h)
      OBVIOUS
    <3>2. a \in [Socks -> Sock] /\ sock' = [a EXCEPT ![h].unread = FALSE]
      BY <1>0, <2>2, <3>1, ResetType DEF ReadFails
    <3>3. \A k \in Sock : LET q == [k EXCEPT !.unread = FALSE] IN q.phase = k.phase /\ q.copied = k.copied
      BY DEF Sock
    <3>4. \A s \in Socks : sock'[s].phase = a[s].phase /\ sock'[s].copied = a[s].copied
      BY <3>2, <3>3
    <3> QED BY <1>0, <3>1, <3>4, ResetCarried DEF Carries, Carried, Free
  <2>3. CASE Read(c) \/ Flush(c)
    BY <1>0, <2>2, <2>3, SameCarries DEF Read, Flush
  <2> QED BY <1>3, <2>1, <2>3 DEF Transfer
<1>4. CASE Tick \/ UNCHANGED vars
  BY <1>0, <1>4, SameCarries DEF Tick, vars
<1>5. ASSUME NEW s \in Socks, Handshake(s) \/ PeerCloses(s)
      PROVE  Carries
  <2>1. \E ph \in Phases \ {"dead"} : sock' = [sock EXCEPT ![s].phase = ph]
    BY <1>5 DEF Handshake, PeerCloses, Phases
  <2> QED BY <1>0, <2>1, SameCarries
<1> QED BY <1>1, <1>2, <1>3, <1>4, <1>5 DEF Next

LEMMA ErrorKeptStep ==
  ASSUME ErrorKept, Carries
  PROVE  ErrorKept'
BY DEF ErrorKept, Carries, Carried, Free

(* pollConnect() reports a handshake that failed as connected to no object *)
(* whose handshake was not copied, for any number of objects, copied and   *)
(* moved at any time: only another copy's getsockopt(SO_ERROR) can take    *)
(* the error away, and copies of a finished connection are no danger.      *)
THEOREM PollConnectTellsTruth == Spec => PollConnectTruthful
<1>1. Init => IInv /\ Alone /\ ErrorKept
  BY InitIInv, BlankFields DEF Init, Alone, ErrorKept, ClosedSock
<1>2. IInv /\ Alone /\ ErrorKept /\ [Next]_vars => (IInv /\ Alone /\ ErrorKept)'
  BY NextIInv, CarriesStep, AloneStep, ErrorKeptStep
<1>3. ASSUME IInv, ErrorKept, NEW c \in Clients, PollConnect(c), cl'[c].conn,
             ~sock[cl[c].handle].copied
      PROVE  sock[cl[c].handle].phase \in {"est", "fin"}
  <2>1. cl[c].st = "Connecting" /\ cl[c].handle # NoSock /\ cl[c].handle \in Socks /\ cl[c] \in Client
    BY <1>3, HeldIsCounted DEF PollConnect, IInv, MembersAgree, TypeOK
  <2>2. ASSUME cl' = [cl EXCEPT ![c] = Stopped(cl[c])]
        PROVE  FALSE
    <3>1. cl'[c] = Stopped(cl[c])
      BY <1>3, <2>2 DEF IInv, TypeOK
    <3> QED BY <1>3, <2>1, <3>1, StoppedFields
  <2>3. PollConnectDone(c)
    BY <1>3, <2>1, <2>2 DEF PollConnect, PollConnectWaiting, PollConnectFailed
  <2> QED BY <1>3, <2>1, <2>3 DEF PollConnectDone, ErrorKept
<1>4. IInv /\ ErrorKept /\ [Next]_vars =>
        [\A c \in Clients :
           PollConnect(c) /\ cl'[c].conn /\ ~sock[cl[c].handle].copied =>
             sock[cl[c].handle].phase \in {"est", "fin"}]_vars
  BY <1>3
<1> QED BY <1>1, <1>2, <1>4, PTL DEF Spec, PollConnectTruthful

-----------------------------------------------------------------------------
(* The receive buffer                                                      *)

RxShape == [sent : Nat, recvd : Nat, taken : Nat, buf : [1..RxSize -> Nat],
            pos : Nat, fill : Nat, out : Seq(Nat)]

(* BytesInOrder of one buffer, and the bounds it needs: recv() is never    *)
(* ahead of the peer, and _pos never beyond _fill nor that beyond the end. *)
Ordered(sent, recvd, taken, buf, pos, fill, out) ==
  /\ recvd <= sent /\ pos <= fill /\ fill <= RxSize
  /\ taken + fill - pos = recvd
  /\ \A k \in 1..Len(out) : out[k] = taken - Len(out) + k
  /\ \A k \in pos + 1..fill : buf[k] = taken + k - pos

InOrder(r) == r \in RxShape /\ Ordered(r.sent, r.recvd, r.taken, r.buf, r.pos, r.fill, r.out)

StreamOK == rx \in [Socks -> RxShape] /\ \A s \in Socks : InOrder(rx[s])

LEMMA NoBytesInOrder == InOrder(NoBytes)
<1>1. NoBytes \in RxShape
  BY EmptySeq DEF NoBytes, RxShape
<1>2. /\ NoBytes.sent = 0 /\ NoBytes.recvd = 0 /\ NoBytes.taken = 0 /\ NoBytes.pos = 0 /\ NoBytes.fill = 0
      /\ NoBytes.out = <<>>
  BY DEF NoBytes
<1>3. Len(<<>>) = 0 /\ RxSize \in Nat
  BY EmptySeq, StreamAssumption
<1>4. Ordered(0, 0, 0, NoBytes.buf, 0, 0, <<>>)
  BY <1>3 DEF Ordered
<1> QED BY <1>1, <1>2, <1>4 DEF InOrder

LEMMA RewoundInOrder ==
  ASSUME NEW r, InOrder(r)
  PROVE  /\ InOrder(Rewound(r)) /\ Rewound(r).out = r.out
         /\ r.pos = r.fill => Rewound(r).pos = 0 /\ Rewound(r).fill = 0
<1>1. CASE r.pos # r.fill
  BY <1>1 DEF Rewound
<1>2. CASE r.pos = r.fill
  <2>1. PICK w : w = [r EXCEPT !.pos = 0, !.fill = 0]
    OBVIOUS
  <2>2. /\ w \in RxShape /\ w.pos = 0 /\ w.fill = 0 /\ w.sent = r.sent /\ w.recvd = r.recvd
        /\ w.taken = r.taken /\ w.buf = r.buf /\ w.out = r.out
    BY <2>1 DEF InOrder, RxShape
  <2>3. r.recvd \in Nat /\ r.taken \in Nat /\ r.fill \in Nat /\ RxSize \in Nat
    BY StreamAssumption DEF InOrder, RxShape
  <2>4. Ordered(r.sent, r.recvd, r.taken, r.buf, 0, 0, r.out)
    <3>1. /\ r.recvd <= r.sent /\ r.taken + r.fill - r.pos = r.recvd
          /\ \A k \in 1..Len(r.out) : r.out[k] = r.taken - Len(r.out) + k
      BY DEF InOrder, Ordered
    <3>2. 0 <= RxSize /\ r.taken + 0 - 0 = r.recvd
      BY <1>2, <2>3, <3>1
    <3>3. \A k \in 0 + 1..0 : r.buf[k] = r.taken + k - 0
      OBVIOUS
    <3> QED BY <3>1, <3>2, <3>3 DEF Ordered
  <2> QED BY <1>2, <2>1, <2>2, <2>4 DEF InOrder, Rewound
<1> QED BY <1>1, <1>2

LEMMA OutEmptied ==
  ASSUME NEW r, InOrder(r)
  PROVE  LET w == [r EXCEPT !.out = <<>>] IN
         InOrder(w) /\ w.out = <<>> /\ w.pos = r.pos /\ w.fill = r.fill
<1>1. PICK w : w = [r EXCEPT !.out = <<>>]
  OBVIOUS
<1>2. /\ w \in RxShape /\ w.pos = r.pos /\ w.fill = r.fill /\ w.sent = r.sent /\ w.recvd = r.recvd
      /\ w.taken = r.taken /\ w.buf = r.buf /\ w.out = <<>>
  BY <1>1, EmptySeq DEF InOrder, RxShape
<1>3. Ordered(r.sent, r.recvd, r.taken, r.buf, r.pos, r.fill, <<>>)
  BY EmptySeq DEF InOrder, Ordered
<1> QED BY <1>1, <1>2, <1>3 DEF InOrder

(* What was copied to the caller, a sequence that ends with byte x. *)
EndsAt(q, x) == q \in Seq(Nat) /\ \A k \in 1..Len(q) : q[k] = x - Len(q) + k

(* n more bytes reach the caller. *)
LEMMA OutGrows ==
  ASSUME NEW x \in Nat, NEW n \in Nat, NEW q, EndsAt(q, x), NEW t \in [1..n -> Nat],
         \A k \in 1..n : t[k] = x + k, NEW w, w = q \o t, NEW z, z = x + n
  PROVE  EndsAt(w, z)
<1>1. t \in Seq(Nat) /\ Len(t) = n /\ q \in Seq(Nat)
  BY SeqDef, LenProperties DEF EndsAt
<1>2. PICK l : l = Len(q) /\ l \in Nat
  BY <1>1, LenProperties
<1>3. w \in Seq(Nat) /\ Len(w) = l + n /\ \A k \in 1..l + n : w[k] = IF k <= l THEN q[k] ELSE t[k - l]
  <2>1. /\ w \in Seq(Nat) /\ Len(w) = Len(q) + Len(t)
        /\ \A k \in 1..Len(q) + Len(t) : w[k] = IF k <= Len(q) THEN q[k] ELSE t[k - Len(q)]
    BY <1>1, ConcatProperties
  <2> QED BY <1>1, <1>2, <2>1
<1>4. ASSUME NEW k \in 1..l + n
      PROVE  w[k] = z - (l + n) + k
  <2>1. CASE k <= l
    <3>1. k \in 1..l
      BY <1>2, <2>1
    <3>2. w[k] = x - l + k
      BY <1>2, <1>3, <2>1, <3>1 DEF EndsAt
    <3> QED BY <1>2, <3>2
  <2>2. CASE ~(k <= l)
    <3>1. PICK j : j = k - l /\ j \in 1..n
      BY <1>2, <2>2
    <3>2. w[k] = x + j
      BY <1>3, <2>2, <3>1
    <3> QED BY <1>2, <3>1, <3>2
  <2> QED BY <2>1, <2>2
<1> QED BY <1>2, <1>3, <1>4 DEF EndsAt

LEMMA CopiedInOrder ==
  ASSUME NEW r, InOrder(r), NEW n \in Nat, n <= r.fill - r.pos
  PROVE  /\ InOrder(Copied(r, n)) /\ Len(Copied(r, n).out) = Len(r.out) + n
         /\ Copied(r, n).pos = r.pos + n /\ Copied(r, n).fill = r.fill
<1>1. PICK x, z, y, f, b : x = r.taken /\ z = r.recvd /\ y = r.pos /\ f = r.fill /\ b = r.buf
  OBVIOUS
<1>2. /\ x \in Nat /\ z \in Nat /\ y \in Nat /\ f \in Nat /\ r.sent \in Nat /\ r.out \in Seq(Nat)
      /\ b \in [1..RxSize -> Nat] /\ RxSize \in Nat
  BY <1>1, StreamAssumption DEF InOrder, RxShape
<1>3. /\ z <= r.sent /\ y <= f /\ f <= RxSize /\ x + f - y = z
      /\ \A k \in 1..Len(r.out) : r.out[k] = x - Len(r.out) + k
      /\ \A k \in y + 1..f : b[k] = x + k - y
  BY <1>1 DEF InOrder, Ordered
<1>4. PICK t : t = [k \in 1..n |-> x + k]
  OBVIOUS
<1>5. t = [k \in 1..n |-> b[y + k]]
  <2>1. ASSUME NEW k \in 1..n
        PROVE  b[y + k] = x + k
    <3>1. PICK j : j = y + k /\ j \in y + 1..f
      BY <1>1, <1>2
    <3>2. b[j] = x + j - y
      BY <1>3, <3>1
    <3> QED BY <1>2, <3>1, <3>2
  <2> QED BY <1>4, <2>1
<1>6. PICK u, v : u = y + n /\ v = x + n /\ u \in Nat /\ v \in Nat
  BY <1>2
<1>7. PICK o : o = r.out \o t /\ EndsAt(o, v) /\ Len(o) = Len(r.out) + n
  <2>1. PICK q, o : q = r.out /\ o = q \o t
    OBVIOUS
  <2>2. EndsAt(q, x)
    BY <1>2, <1>3, <2>1 DEF EndsAt
  <2>3. t \in [1..n -> Nat] /\ \A k \in 1..n : t[k] = x + k
    BY <1>2, <1>4
  <2>4. EndsAt(o, v) /\ Len(o) = Len(q) + n
    <3>1. x \in Nat /\ n \in Nat /\ v = x + n /\ o = q \o t
      BY <1>2, <1>6, <2>1
    <3>2. EndsAt(o, v)
      BY <2>2, <2>3, <3>1, OutGrows
    <3>3. q \in Seq(Nat) /\ t \in Seq(Nat) /\ Len(t) = n
      BY <2>2, <2>3, SeqDef, LenProperties DEF EndsAt
    <3>4. Len(o) = Len(q) + Len(t)
      BY <3>1, <3>3, ConcatProperties
    <3> QED BY <3>2, <3>3, <3>4
  <2> QED BY <2>1, <2>4
<1>8. Copied(r, n) = [r EXCEPT !.out = o, !.pos = u, !.taken = v]
  BY <1>1, <1>5, <1>6, <1>7 DEF Copied, InOrder, RxShape
<1>9. PICK w : w = Copied(r, n)
  OBVIOUS
<1>10. /\ w \in RxShape /\ w.pos = u /\ w.fill = f /\ w.sent = r.sent /\ w.recvd = z
       /\ w.taken = v /\ w.buf = b /\ w.out = o
  BY <1>1, <1>6, <1>7, <1>8, <1>9 DEF InOrder, RxShape, EndsAt
<1>11. u <= f /\ v + f - u = z
  <2>1. n <= f - y
    BY <1>1
  <2> QED BY <1>2, <1>3, <1>6, <2>1
<1>12. ASSUME NEW k \in u + 1..f
       PROVE  b[k] = v + k - u
  <2>1. k \in y + 1..f
    BY <1>2, <1>6
  <2>2. b[k] = x + k - y
    BY <1>3, <2>1
  <2> QED BY <1>2, <1>6, <2>2
<1>13. Ordered(r.sent, z, v, b, u, f, o)
  BY <1>3, <1>7, <1>11, <1>12 DEF Ordered, EndsAt
<1> QED BY <1>1, <1>6, <1>7, <1>9, <1>10, <1>13 DEF InOrder

LEMMA StagedInOrder ==
  ASSUME NEW r, InOrder(r), NEW k \in Nat, k <= RxSize - r.fill, k <= Queued(r)
  PROVE  /\ InOrder(Staged(r, r.fill, k)) /\ Staged(r, r.fill, k).out = r.out
         /\ Staged(r, r.fill, k).pos = r.pos /\ Staged(r, r.fill, k).fill = r.fill + k
<1>1. PICK x, z, y, f, b : x = r.taken /\ z = r.recvd /\ y = r.pos /\ f = r.fill /\ b = r.buf
  OBVIOUS
<1>2. /\ x \in Nat /\ z \in Nat /\ y \in Nat /\ f \in Nat /\ r.sent \in Nat /\ r.out \in Seq(Nat)
      /\ b \in [1..RxSize -> Nat] /\ RxSize \in Nat
  BY <1>1, StreamAssumption DEF InOrder, RxShape
<1>3. /\ z <= r.sent /\ y <= f /\ f <= RxSize /\ x + f - y = z
      /\ \A j \in 1..Len(r.out) : r.out[j] = x - Len(r.out) + j
      /\ \A j \in y + 1..f : b[j] = x + j - y
  BY <1>1 DEF InOrder, Ordered
<1>4. PICK e, g : e = [j \in 1..RxSize |-> IF j \in f + 1..f + k THEN z + j - f ELSE b[j]] /\ g = f + k
  OBVIOUS
<1>5. PICK v : v = z + k /\ v \in Nat /\ g \in Nat
  BY <1>2, <1>4
<1>6. e \in [1..RxSize -> Nat]
  <2>1. ASSUME NEW j \in 1..RxSize
        PROVE  (IF j \in f + 1..f + k THEN z + j - f ELSE b[j]) \in Nat
    BY <1>2
  <2> QED BY <1>4, <2>1
<1>7. Staged(r, f, k) = [r EXCEPT !.buf = e, !.fill = g, !.recvd = v]
  BY <1>1, <1>4, <1>5 DEF Staged, InOrder, RxShape
<1>8. PICK w : w = Staged(r, f, k)
  OBVIOUS
<1>9. /\ w \in RxShape /\ w.pos = y /\ w.fill = g /\ w.sent = r.sent /\ w.recvd = v
      /\ w.taken = x /\ w.buf = e /\ w.out = r.out
  BY <1>1, <1>5, <1>6, <1>7, <1>8 DEF InOrder, RxShape
<1>10. v <= r.sent /\ y <= g /\ g <= RxSize /\ x + g - y = v
  <2>1. k <= RxSize - f /\ k <= r.sent - z
    BY <1>1 DEF Queued
  <2> QED BY <1>2, <1>3, <1>4, <1>5, <2>1
<1>11. ASSUME NEW j \in y + 1..g
       PROVE  e[j] = x + j - y
  <2>1. j \in 1..RxSize
    BY <1>2, <1>5, <1>10
  <2>2. CASE j <= f
    <3>1. j \in y + 1..f /\ ~(j \in f + 1..f + k)
      BY <1>2, <1>5, <2>2
    <3> QED BY <1>3, <1>4, <2>1, <3>1
  <2>3. CASE ~(j <= f)
    <3>1. j \in f + 1..f + k
      BY <1>2, <1>4, <1>5, <2>3
    <3>2. e[j] = z + j - f
      BY <1>4, <2>1, <3>1
    <3> QED BY <1>2, <1>3, <3>2
  <2> QED BY <2>2, <2>3
<1>12. Ordered(r.sent, v, x, e, y, g, r.out)
  BY <1>3, <1>10, <1>11 DEF Ordered
<1> QED BY <1>1, <1>4, <1>8, <1>9, <1>12 DEF InOrder

LEMMA BypassedInOrder ==
  ASSUME NEW r, InOrder(r), r.pos = r.fill, NEW k \in Nat, k <= Queued(r)
  PROVE  InOrder(Bypassed(r, k))
<1>1. PICK x, z, y : x = r.taken /\ z = r.recvd /\ y = r.pos
  OBVIOUS
<1>2. /\ x \in Nat /\ z \in Nat /\ y \in Nat /\ r.fill \in Nat /\ r.sent \in Nat /\ r.out \in Seq(Nat)
      /\ RxSize \in Nat
  BY <1>1, StreamAssumption DEF InOrder, RxShape
<1>3. /\ z <= r.sent /\ r.fill <= RxSize /\ x = z
      /\ \A j \in 1..Len(r.out) : r.out[j] = x - Len(r.out) + j
  BY <1>1, <1>2 DEF InOrder, Ordered
<1>4. PICK t : t = [j \in 1..k |-> x + j]
  OBVIOUS
<1>5. PICK v : v = x + k /\ v \in Nat
  BY <1>2
<1>6. PICK o : o = r.out \o t /\ EndsAt(o, v)
  <2>1. PICK q, o : q = r.out /\ o = q \o t
    OBVIOUS
  <2>2. EndsAt(q, x)
    BY <1>2, <1>3, <2>1 DEF EndsAt
  <2>3. t \in [1..k -> Nat] /\ \A j \in 1..k : t[j] = x + j
    BY <1>2, <1>4
  <2>4. EndsAt(o, v)
    BY <1>2, <1>5, <2>1, <2>2, <2>3, OutGrows
  <2> QED BY <2>1, <2>4
<1>7. Bypassed(r, k) = [r EXCEPT !.out = o, !.recvd = v, !.taken = v]
  BY <1>1, <1>3, <1>4, <1>5, <1>6 DEF Bypassed, InOrder, RxShape
<1>8. PICK w : w = Bypassed(r, k)
  OBVIOUS
<1>9. /\ w \in RxShape /\ w.pos = y /\ w.fill = y /\ w.sent = r.sent /\ w.recvd = v
      /\ w.taken = v /\ w.buf = r.buf /\ w.out = o
  BY <1>1, <1>5, <1>6, <1>7, <1>8 DEF InOrder, RxShape, EndsAt
<1>10. v <= r.sent /\ y <= y /\ y <= RxSize /\ v + y - y = v
  BY <1>1, <1>2, <1>3, <1>5 DEF Queued
<1>11. y + 1..y = {}
  BY <1>2
<1>12. Ordered(r.sent, v, v, r.buf, y, y, o)
  BY <1>6, <1>10, <1>11 DEF Ordered, EndsAt
<1> QED BY <1>8, <1>9, <1>12 DEF InOrder

LEMMA RxNumbers ==
  ASSUME NEW r, InOrder(r)
  PROVE  /\ r.sent \in Nat /\ r.recvd \in Nat /\ r.taken \in Nat /\ r.pos \in Nat /\ r.fill \in Nat
         /\ r.out \in Seq(Nat) /\ Len(r.out) \in Nat /\ RxSize \in Nat
         /\ r.pos <= r.fill /\ r.fill <= RxSize /\ r.recvd <= r.sent /\ r.taken + r.fill - r.pos = r.recvd
         /\ Queued(r) \in Nat
<1>1. /\ r.sent \in Nat /\ r.recvd \in Nat /\ r.taken \in Nat /\ r.pos \in Nat /\ r.fill \in Nat
      /\ r.out \in Seq(Nat) /\ RxSize \in Nat
  BY StreamAssumption DEF InOrder, RxShape
<1>2. r.pos <= r.fill /\ r.fill <= RxSize /\ r.recvd <= r.sent /\ r.taken + r.fill - r.pos = r.recvd
  BY DEF InOrder, Ordered
<1>3. Queued(r) \in Nat
  BY <1>1, <1>2 DEF Queued
<1> QED BY <1>1, <1>2, <1>3, LenProperties

(* read() gives what is buffered; when that is not enough, none is left. *)
LEMMA ServedInOrder ==
  ASSUME NEW r, InOrder(r), NEW n \in Nat
  PROVE  LET w == Served(r, n) IN
         InOrder(w) /\ (n - Len(w.out) > 0 => w.pos = w.fill)
<1>1. PICK w, q : w = Served(r, n) /\ q = [r EXCEPT !.out = <<>>]
  OBVIOUS
<1>2. InOrder(q) /\ q.out = <<>> /\ q.pos = r.pos /\ q.fill = r.fill
  BY <1>1, OutEmptied
<1>3. r.pos \in Nat /\ r.fill \in Nat /\ r.pos <= r.fill
  BY RxNumbers
<1>4. CASE ~hasBuffered(r)
  <2>1. w = q /\ r.pos = r.fill
    BY <1>1, <1>3, <1>4 DEF Served, hasBuffered
  <2> QED BY <1>1, <1>2, <2>1
<1>5. CASE hasBuffered(r)
  <2>1. PICK m : /\ m = Least(n, r.fill - r.pos) /\ m \in Nat /\ m <= r.fill - r.pos
                 /\ (m = n \/ m = r.fill - r.pos)
    BY <1>3 DEF Least
  <2>2. PICK v : v = Copied(q, m)
    OBVIOUS
  <2>3. InOrder(v) /\ Len(v.out) = Len(q.out) + m /\ v.pos = r.pos + m /\ v.fill = r.fill
    <3>1. m <= q.fill - q.pos
      BY <1>2, <2>1
    <3>2. InOrder(v) /\ Len(v.out) = Len(q.out) + m /\ v.pos = q.pos + m /\ v.fill = q.fill
      BY <1>2, <2>1, <2>2, <3>1, CopiedInOrder
    <3> QED BY <1>2, <3>2
  <2>4. Len(v.out) = m
    BY <1>2, <2>1, <2>3, EmptySeq
  <2>5. w = Rewound(v)
    BY <1>1, <1>5, <2>1, <2>2 DEF Served
  <2>6. InOrder(w) /\ w.out = v.out /\ (v.pos = v.fill => w.pos = 0 /\ w.fill = 0)
    BY <2>3, <2>5, RewoundInOrder
  <2>7. n - Len(w.out) > 0 => v.pos = v.fill
    <3>1. n - m > 0 => m = r.fill - r.pos
      BY <2>1
    <3>2. m = r.fill - r.pos => r.pos + m = r.fill
      BY <1>3, <2>1
    <3> QED BY <2>3, <2>4, <2>6, <3>1, <3>2
  <2> QED BY <1>1, <2>6, <2>7
<1> QED BY <1>4, <1>5

(* recv() into an empty buffer. *)
LEMMA RestagedInOrder ==
  ASSUME NEW r, InOrder(r), r.pos = r.fill, NEW k \in Nat, k <= RxSize, k <= Queued(r)
  PROVE  LET w == [Staged(r, 0, k) EXCEPT !.pos = 0] IN InOrder(w) /\ w.pos = 0 /\ w.fill = k
<1>1. PICK q : q = Rewound(r)
  OBVIOUS
<1>2. InOrder(q) /\ q.pos = 0 /\ q.fill = 0
  BY <1>1, RewoundInOrder
<1>3. q = [r EXCEPT !.pos = 0, !.fill = 0]
  BY <1>1 DEF Rewound
<1>4. /\ r \in RxShape /\ q.buf = r.buf /\ q.recvd = r.recvd /\ q.sent = r.sent /\ q.taken = r.taken
      /\ q.out = r.out /\ q \in RxShape
  BY <1>2, <1>3 DEF InOrder, RxShape
<1>5. PICK e, f, v : /\ e = [j \in 1..RxSize |-> IF j \in 0 + 1..0 + k THEN r.recvd + j - 0 ELSE r.buf[j]]
                     /\ f = 0 + k /\ v = r.recvd + k
  OBVIOUS
<1>6. Staged(r, 0, k) = [r EXCEPT !.buf = e, !.fill = f, !.recvd = v]
  BY <1>4, <1>5 DEF Staged, RxShape
<1>7. Staged(q, 0, k) = [q EXCEPT !.buf = e, !.fill = f, !.recvd = v]
  BY <1>4, <1>5 DEF Staged, RxShape
<1>8. [Staged(r, 0, k) EXCEPT !.pos = 0] = Staged(q, 0, k)
  BY <1>3, <1>4, <1>6, <1>7 DEF RxShape
<1>9. InOrder(Staged(q, 0, k)) /\ Staged(q, 0, k).pos = 0 /\ Staged(q, 0, k).fill = 0 + k
  <2>1. k <= RxSize - q.fill /\ k <= Queued(q)
    BY <1>2, <1>4, StreamAssumption DEF Queued
  <2>2. InOrder(Staged(q, q.fill, k)) /\ Staged(q, q.fill, k).pos = q.pos /\ Staged(q, q.fill, k).fill = q.fill + k
    BY <1>2, <2>1, StagedInOrder
  <2> QED BY <1>2, <2>2
<1>10. PICK w : w = Staged(q, 0, k)
  OBVIOUS
<1>11. w.fill = k
  BY <1>9, <1>10
<1> QED BY <1>8, <1>9, <1>10, <1>11

LEMMA ReceivedInOrder ==
  ASSUME NEW r, InOrder(r), r.pos = r.fill, NEW rest \in Nat, NEW w \in ReceivedInto(r, rest)
  PROVE  InOrder(w)
<1>1. Queued(r) \in Nat /\ RxSize \in Nat
  BY RxNumbers
<1>2. CASE Queued(r) = 0
  BY <1>2 DEF ReceivedInto
<1>3. CASE Queued(r) # 0 /\ rest >= RxSize
  <2>1. PICK k \in 1..Least(rest, Queued(r)) : w = Bypassed(r, k)
    BY <1>3 DEF ReceivedInto
  <2>2. k \in Nat /\ k <= Queued(r)
    BY <1>1, <2>1 DEF Least
  <2> QED BY <2>1, <2>2, BypassedInOrder
<1>4. CASE Queued(r) # 0 /\ ~(rest >= RxSize)
  <2>1. PICK k \in 1..Least(RxSize, Queued(r)) :
          w = Rewound(Copied([Staged(r, 0, k) EXCEPT !.pos = 0], Least(rest, k)))
    BY <1>4 DEF ReceivedInto
  <2>2. k \in Nat /\ k <= RxSize /\ k <= Queued(r)
    BY <1>1 DEF Least
  <2>3. PICK q, m : q = [Staged(r, 0, k) EXCEPT !.pos = 0] /\ m = Least(rest, k)
    OBVIOUS
  <2>4. InOrder(q) /\ q.pos = 0 /\ q.fill = k
    BY <2>2, <2>3, RestagedInOrder
  <2>5. m \in Nat /\ m <= k - 0
    BY <2>2, <2>3 DEF Least
  <2>6. InOrder(Copied(q, m))
    BY <2>4, <2>5, CopiedInOrder
  <2> QED BY <2>1, <2>3, <2>6, RewoundInOrder
<1> QED BY <1>2, <1>3, <1>4

LEMMA FilledInOrder ==
  ASSUME NEW r, InOrder(r), NEW w \in fillBuffer(r)
  PROVE  InOrder(w)
<1>1. PICK q : q = Rewound(r) /\ InOrder(q)
  BY RewoundInOrder
<1>2. w = q \/ \E k \in 1..Least(RxSize - q.fill, Queued(q)) : w = Staged(q, q.fill, k)
  BY <1>1 DEF fillBuffer
<1>3. ASSUME NEW k \in 1..Least(RxSize - q.fill, Queued(q)), w = Staged(q, q.fill, k)
      PROVE  InOrder(w)
  <2>1. RxSize \in Nat /\ q.fill \in Nat /\ Queued(q) \in Nat
    BY <1>1, RxNumbers
  <2>2. k \in Nat /\ k <= RxSize - q.fill /\ k <= Queued(q)
    BY <2>1 DEF Least
  <2> QED BY <1>1, <1>3, <2>2, StagedInOrder
<1> QED BY <1>1, <1>2, <1>3

LEMMA FlushedInOrder ==
  ASSUME NEW r, InOrder(r), NEW up
  PROVE  InOrder(Flushed(r, up))
<1>1. PICK l, w : l = (IF up THEN r.sent ELSE r.recvd) /\ w = Flushed(r, up)
  OBVIOUS
<1>2. l \in Nat /\ l <= r.sent /\ r.sent \in Nat /\ RxSize \in Nat
  BY <1>1, RxNumbers
<1>3. w = [r EXCEPT !.pos = 0, !.fill = 0, !.recvd = l, !.taken = l, !.out = <<>>]
  BY <1>1 DEF Flushed
<1>4. /\ w \in RxShape /\ w.pos = 0 /\ w.fill = 0 /\ w.sent = r.sent /\ w.recvd = l
      /\ w.taken = l /\ w.buf = r.buf /\ w.out = <<>>
  BY <1>2, <1>3, EmptySeq DEF InOrder, RxShape
<1>5. 1..Len(<<>>) = {} /\ 0 + 1..0 = {}
  BY EmptySeq
<1>6. Ordered(r.sent, l, l, r.buf, 0, 0, <<>>)
  BY <1>2, <1>5 DEF Ordered
<1> QED BY <1>1, <1>4, <1>6 DEF InOrder

-----------------------------------------------------------------------------
(* The stream                                                              *)

LEMMA KeptInOrder ==
  ASSUME NEW b, \A s \in Socks : InOrder(b[s]), KeptBytes(b)
  PROVE  StreamOK'
<1>1. \A s \in Socks : InOrder(rx'[s])
  BY NoBytesInOrder DEF KeptBytes
<1>2. rx' = [s \in Socks |-> rx'[s]]
  BY DEF KeptBytes
<1>3. rx' \in [Socks -> RxShape]
  BY <1>1, <1>2 DEF InOrder
<1> QED BY <1>1, <1>3 DEF StreamOK, InOrder, Ordered, RxShape

LEMMA PutInOrder ==
  ASSUME StreamOK, NEW h \in Socks, NEW r, InOrder(r), rx' = [rx EXCEPT ![h] = r]
  PROVE  StreamOK'
<1>1. \A s \in Socks : InOrder(rx'[s])
  BY DEF StreamOK
<1>2. rx' \in [Socks -> RxShape]
  BY DEF StreamOK, InOrder
<1> QED BY <1>1, <1>2 DEF StreamOK, InOrder, Ordered, RxShape

LEMMA StreamStep ==
  ASSUME TypeOK, StreamOK, [StreamNext]_streamVars
  PROVE  StreamOK'
<1>0. rx \in [Socks -> RxShape] /\ \A s \in Socks : InOrder(rx[s])
  BY DEF StreamOK
<1>1. CASE KeptBytes(rx)
  BY <1>0, <1>1, KeptInOrder
<1>2. ASSUME NEW c \in Clients, Read(c) \/ Flush(c)
      PROVE  cl[c].handle \in Socks
  BY <1>2 DEF Read, Flush, TypeOK, Client
<1>3. ASSUME NEW c \in Clients, NEW n \in ReadSizes, ReadBytes(c, n)
      PROVE  StreamOK'
  <2>1. PICK h, r, rest : h = cl[c].handle /\ r = Served(rx[h], n) /\ rest = n - Len(r.out)
    OBVIOUS
  <2>2. h \in Socks /\ n \in Nat
    BY <1>2, <1>3, <2>1, StreamAssumption DEF ReadBytes
  <2>3. InOrder(r) /\ (rest > 0 => r.pos = r.fill)
    BY <1>0, <2>1, <2>2, ServedInOrder
  <2>4. CASE rest = 0 /\ Leaves(c, r)
    BY <2>1, <2>2, <2>3, <2>4, PutInOrder DEF Leaves
  <2>5. ASSUME rest > 0, NEW w \in ReceivedInto(r, rest), Leaves(c, w)
        PROVE  StreamOK'
    <3>1. rest \in Nat
      <4>1. Len(r.out) \in Nat
        BY <2>3, RxNumbers
      <4> QED BY <2>1, <2>2, <2>5, <4>1
    <3>2. InOrder(w)
      BY <2>3, <2>5, <3>1, ReceivedInOrder
    <3> QED BY <2>1, <2>2, <2>5, <3>2, PutInOrder DEF Leaves
  <2>6. CASE KeptBytes([rx EXCEPT ![h] = r])
    <3>1. PICK b : b = [rx EXCEPT ![h] = r]
      OBVIOUS
    <3>2. \A s \in Socks : InOrder(b[s])
      BY <1>0, <2>2, <2>3, <3>1
    <3> QED BY <2>6, <3>1, <3>2, KeptInOrder
  <2> QED BY <1>3, <2>1, <2>4, <2>5, <2>6 DEF ReadBytes
<1>4. ASSUME NEW c \in Clients, Peek(c)
      PROVE  StreamOK'
  <2>1. PICK h : h = cl[c].handle /\ h \in Socks
    BY <1>2, <1>4 DEF Peek
  <2>2. ASSUME NEW r, InOrder(r), Leaves(c, r)
        PROVE  StreamOK'
    BY <2>1, <2>2, PutInOrder DEF Leaves
  <2>3. \A r \in fillBuffer(rx[h]) : InOrder(r)
    BY <1>0, <2>1, FilledInOrder
  <2> QED BY <1>0, <1>1, <1>4, <2>1, <2>2, <2>3 DEF Peek
<1>5. ASSUME NEW c \in Clients, FlushBytes(c)
      PROVE  StreamOK'
  <2>1. PICK h, r : h = cl[c].handle /\ h \in Socks /\ r = Flushed(rx[h], Up(h))
    BY <1>2, <1>5 DEF FlushBytes
  <2>2. InOrder(r)
    BY <1>0, <2>1, FlushedInOrder
  <2> QED BY <1>5, <2>1, <2>2, PutInOrder DEF FlushBytes
<1>6. ASSUME NEW s \in Socks, PeerSends(s)
      PROVE  StreamOK'
  <2>1. PICK q, v : q = rx[s] /\ v = q.sent + 1
    OBVIOUS
  <2>2. InOrder(q) /\ v \in Nat /\ q.sent \in Nat /\ q.recvd \in Nat
    BY <1>0, <2>1, RxNumbers
  <2>3. PICK w : w = [q EXCEPT !.sent = v]
    OBVIOUS
  <2>4. /\ w \in RxShape /\ w.pos = q.pos /\ w.fill = q.fill /\ w.sent = v /\ w.recvd = q.recvd
        /\ w.taken = q.taken /\ w.buf = q.buf /\ w.out = q.out
    BY <2>2, <2>3 DEF InOrder, RxShape
  <2>5. q.recvd <= v
    BY <2>1, <2>2, RxNumbers
  <2>6. InOrder(w)
    BY <2>2, <2>4, <2>5 DEF InOrder, Ordered
  <2>7. rx' = [rx EXCEPT ![s] = w]
    BY <1>6, <2>1, <2>3 DEF PeerSends
  <2> QED BY <2>6, <2>7, PutInOrder
<1>7. CASE UNCHANGED streamVars
  BY <1>7 DEF streamVars, StreamOK, InOrder, Ordered, RxShape
<1> QED BY <1>1, <1>3, <1>4, <1>5, <1>6, <1>7 DEF StreamNext

(* Every step of the stream is a step of the objects. *)
LEMMA StreamIsClient ==
  ASSUME [StreamNext]_streamVars
  PROVE  [Next]_vars
<1>1. CASE UNCHANGED streamVars \/ \E s \in Socks : PeerSends(s)
  BY <1>1 DEF streamVars, PeerSends
<1>2. ASSUME NEW c \in Clients, Lifecycle(c) \/ Connecting(c) \/ Outgoing(c)
      PROVE  Next
  BY <1>2 DEF Next, Transfer
<1>3. ASSUME NEW c \in Clients, Read(c) \/ Flush(c)
      PROVE  Next
  BY <1>3 DEF Next, Transfer
<1>4. ASSUME NEW c \in Clients, Peek(c) \/ FlushBytes(c) \/ \E n \in ReadSizes : ReadBytes(c, n)
      PROVE  Next
  BY <1>3, <1>4 DEF Peek, FlushBytes, ReadBytes
<1>5. CASE (\E s \in Socks : Handshake(s) \/ PeerCloses(s)) \/ Tick
  BY <1>5 DEF Next
<1> QED BY <1>1, <1>2, <1>4, <1>5 DEF StreamNext

(* The objects with their receive buffers implement the objects without:   *)
(* what is proved of WiFiClient holds of them too.                         *)
THEOREM StreamImplementsClient == StreamSpec => Spec
<1>1. StreamInit => Init
  BY DEF StreamInit
<1>2. [StreamNext]_streamVars => [Next]_vars
  BY StreamIsClient
<1> QED BY <1>1, <1>2, PTL DEF StreamSpec, Spec

(* read(), peek(), available() and flush() keep the bytes of a connection  *)
(* in order, none lost or repeated, through WiFiClientRxBuffer, for every  *)
(* buffer size, read size and cut of the stream.                           *)
THEOREM BytesStayInOrder == StreamSpec => []BytesInOrder
<1>1. StreamInit => IInv /\ StreamOK
  <2> SUFFICES ASSUME StreamInit
               PROVE  IInv /\ StreamOK
    OBVIOUS
  <2>1. IInv
    BY InitIInv DEF StreamInit
  <2>2. rx = [s \in Socks |-> NoBytes] /\ NoBytes \in RxShape
    BY NoBytesInOrder DEF StreamInit, InOrder
  <2> QED BY <2>1, <2>2, NoBytesInOrder DEF StreamOK
<1>2. IInv /\ StreamOK /\ [StreamNext]_streamVars => (IInv /\ StreamOK)'
  BY StreamIsClient, NextIInv, StreamStep DEF IInv
<1>3. StreamOK => BytesInOrder
  BY DEF StreamOK, InOrder, Ordered, BytesInOrder
<1> QED BY <1>1, <1>2, <1>3, PTL DEF StreamSpec
=============================================================================
