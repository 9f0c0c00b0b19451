-------------------------------- MODULE Lwip --------------------------------
(***************************************************************************)
(* lwIP's descriptor table as the socket classes see it: socket() and      *)
(* accept() take a free descriptor, close() frees it, and the numbers are  *)
(* recycled.  (WiFiClient's descriptors are modelled in TcpClient.)        *)
(***************************************************************************)
CONSTANTS Descs,   \* descriptors, LWIP_MAX_SOCKETS of them
          NoDesc   \* -1

ASSUME NoDescAssumption == NoDesc \notin Descs

VARIABLE desc      \* what each descriptor is

Kinds == {"free", "tcp", "listen", "conn", "udp"}

FreeDescs == {s \in Descs : desc[s] = "free"}

(* close(s): a no-op for -1, which lwIP refuses. *)
Closed(s) == [d \in Descs |-> IF d = s THEN "free" ELSE desc[d]]
=============================================================================
