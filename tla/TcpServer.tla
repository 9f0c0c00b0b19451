----------------------------- MODULE TcpServer -----------------------------
(***************************************************************************)
(* WiFiServer: a listening socket, a one-place stage for a connection that *)
(* hasClient() accepted ahead of available(), and the WiFiClient objects   *)
(* available() hands out.  Connections are numbered in the order in which  *)
(* lwIP completes their handshakes.  A call that returns early and changes *)
(* nothing is a stuttering step.                                           *)
(***************************************************************************)
EXTENDS Naturals, Sequences, Lwip

CONSTANTS MaxClients,  \* _max_clients, the backlog of listen()
          MaxConns     \* connections the network makes in all (a bound)

ASSUME BacklogAssumption == MaxClients \in Nat /\ MaxConns \in Nat

VARIABLES
  sockfd,     \* the listening socket, or what begin() left of it
  accepted,   \* _accepted_sockfd
  listening,  \* _listening
  clients,    \* descriptors owned by WiFiClient objects
  backlog,    \* completed connections lwIP queues on the listening socket
  arrived,    \* connections so far
  connOf,     \* the connection of an accepted descriptor
  handed      \* the last connection available() returned

serverVars == <<sockfd, accepted, listening, clients, backlog, arrived, connOf, handed>>

ServerInit ==
  /\ sockfd = NoDesc /\ accepted = NoDesc /\ listening = FALSE
  /\ clients = {} /\ backlog = <<>> /\ arrived = 0 /\ handed = 0
  /\ connOf = [s \in Descs |-> 0]

(* begin(): socket(), bind() and listen() may each fail; sockfd is assigned *)
(* first and a failed bind() or listen() returns without closing it.        *)
Begin ==
  /\ ~listening
  /\ \/ /\ sockfd' = NoDesc
        /\ UNCHANGED <<desc, listening, accepted>>
     \/ \E s \in FreeDescs :
          /\ sockfd' = s
          /\ \/ /\ desc' = [desc EXCEPT ![s] = "tcp"]
                /\ UNCHANGED <<listening, accepted>>
             \/ /\ desc' = [desc EXCEPT ![s] = "listen"]
                /\ listening' = TRUE
                /\ accepted' = NoDesc
  /\ UNCHANGED <<clients, backlog, arrived, connOf, handed>>

(* lwip_accept(sockfd): a queued connection gets descriptor s; when the    *)
(* table is full the connection is dropped and accept() fails.             *)
Pending == sockfd # NoDesc /\ desc[sockfd] = "listen" /\ backlog # <<>>

AcceptAs(s) ==
  /\ Pending /\ s \in FreeDescs
  /\ desc' = [desc EXCEPT ![s] = "conn"]
  /\ connOf' = [connOf EXCEPT ![s] = Head(backlog)]
  /\ backlog' = Tail(backlog)

AcceptDropped ==
  /\ Pending /\ FreeDescs = {}
  /\ backlog' = Tail(backlog)
  /\ UNCHANGED <<desc, connOf>>

HasClient ==
  /\ accepted = NoDesc
  /\ \/ AcceptDropped /\ UNCHANGED accepted
     \/ \E s \in FreeDescs : AcceptAs(s) /\ accepted' = s
  /\ UNCHANGED <<sockfd, listening, clients, arrived, handed>>

(* Mutant: available() always accepts, a staged connection notwithstanding, *)
(* and hands out the stage only when nothing is queued.                     *)
AvailableSkipsStage ==
  /\ listening
  /\ \/ AcceptDropped /\ UNCHANGED <<accepted, clients, handed>>
     \/ \E s \in FreeDescs : /\ AcceptAs(s)
                             /\ clients' = clients \cup {s}
                             /\ handed' = Head(backlog)
                             /\ UNCHANGED accepted
     \/ /\ accepted # NoDesc /\ ~Pending
        /\ clients' = clients \cup {accepted}
        /\ handed' = connOf[accepted]
        /\ accepted' = NoDesc
        /\ UNCHANGED <<desc, connOf, backlog>>
  /\ UNCHANGED <<sockfd, listening, arrived>>

(* Mutant: available() hands out the staged connection and keeps it staged. *)
AvailableKeepsStage ==
  /\ listening /\ accepted # NoDesc
  /\ clients' = clients \cup {accepted}
  /\ handed' = connOf[accepted]
  /\ UNCHANGED <<desc, connOf, backlog, accepted, sockfd, listening, arrived>>

(* available(), accept(): the staged connection first, else a queued one. *)
Available ==
  /\ listening
  /\ IF accepted # NoDesc
     THEN /\ clients' = clients \cup {accepted}
          /\ handed' = connOf[accepted]
          /\ accepted' = NoDesc
          /\ UNCHANGED <<desc, connOf, backlog>>
     ELSE /\ \/ AcceptDropped /\ UNCHANGED <<clients, handed>>
             \/ \E s \in FreeDescs : /\ AcceptAs(s)
                                     /\ clients' = clients \cup {s}
                                     /\ handed' = Head(backlog)
          /\ UNCHANGED accepted
  /\ UNCHANGED <<sockfd, listening, arrived>>

(* end(), close(), stop(): the staged connection is left alone.  lwIP      *)
(* aborts what is queued on a listening socket that closes.                *)
End ==
  /\ desc' = Closed(sockfd)
  /\ sockfd' = NoDesc
  /\ listening' = FALSE
  /\ backlog' = <<>>
  /\ UNCHANGED <<accepted, clients, arrived, connOf, handed>>

(* ~WiFiServer(), which calls end(), and the next WiFiServer object. *)
Recreate ==
  /\ desc' = Closed(sockfd)
  /\ sockfd' = NoDesc /\ accepted' = NoDesc /\ listening' = FALSE
  /\ backlog' = <<>>
  /\ UNCHANGED <<clients, arrived, connOf, handed>>

(* The last WiFiClient that owns s goes. *)
ClientCloses(s) ==
  /\ s \in clients
  /\ clients' = clients \ {s}
  /\ desc' = Closed(s)
  /\ UNCHANGED <<sockfd, accepted, listening, backlog, arrived, connOf, handed>>

Arrive ==
  /\ sockfd # NoDesc /\ desc[sockfd] = "listen"
  /\ arrived < MaxConns /\ Len(backlog) < MaxClients
  /\ arrived' = arrived + 1
  /\ backlog' = Append(backlog, arrived + 1)
  /\ UNCHANGED <<desc, sockfd, accepted, listening, clients, connOf, handed>>

ServerNext ==
  \/ Begin \/ HasClient \/ Available \/ End \/ Recreate \/ Arrive
  \/ \E s \in Descs : ClientCloses(s)

ServerTypeOK ==
  /\ sockfd \in Descs \cup {NoDesc} /\ accepted \in Descs \cup {NoDesc}
  /\ listening \in BOOLEAN
  /\ clients \subseteq Descs
  /\ arrived \in 0..MaxConns /\ handed \in 0..MaxConns
  /\ backlog \in Seq(1..MaxConns)
  /\ connOf \in [Descs -> 0..MaxConns]
=============================================================================
