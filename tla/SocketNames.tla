----------------------------- MODULE SocketNames ------------------------------
(***************************************************************************)
(* The names a TcpSocket (src/net/TCPSocket.cpp) has for its two ends: the *)
(* local port it was asked for and got, and the address and the host name  *)
(* of its peer, which are made when they are asked for first and kept.     *)
(***************************************************************************)
EXTENDS Integers

CONSTANTS
  Ports,       \* local ports
  Peers,       \* addresses of the host, and who may be accepted
  MaxOpens     \* bound: how often open() is called

VARIABLES
  accepted,    \* the socket was made of one that is open, by accept()
  at,          \* "closed", "opened", "threw"; "made" and "bound" in open()
  asked,       \* _localPort: "none", "any" or a port
  bindPort,    \* _localPortBind
  port,        \* the port the system bound the socket to
  peer,        \* whom the system has it connected to, 0 for nobody
  cachedPeer,  \* _cachedPeerAddr, 0 for AF_UNSPEC
  peerAddr,    \* _peerAddr and _peerPort, 0 while empty
  peerHost,    \* _peerHost, 0 while empty
  opens

local == <<asked, bindPort, port>>
remote == <<peer, cachedPeer, peerAddr, peerHost>>
vars == <<accepted, at, local, remote, opens>>

Init ==
  /\ accepted \in BOOLEAN /\ opens = 0
  /\ IF accepted THEN at = "opened" /\ peer \in Peers /\ cachedPeer \in {0, peer}
     ELSE at = "closed" /\ peer = 0 /\ cachedPeer = 0
  /\ asked = "none" /\ bindPort = "none" /\ port = "none" /\ peerAddr = 0 /\ peerHost = 0

-----------------------------------------------------------------------------
(* open() and close()                                                      *)

Between == at \in {"closed", "opened", "threw"}

\* setLocalAddr(): an open socket does not take it.
SetLocalAddr ==
  /\ at \in {"closed", "threw"} /\ asked' \in Ports \cup {"any", "none"}
  /\ UNCHANGED <<accepted, at, bindPort, port, remote, opens>>

\* The port of an accepted socket's host is invalid: open() throws.
Open ==
  /\ at \in {"closed", "threw"} /\ opens < MaxOpens /\ opens' = opens + 1
  /\ at' = IF accepted THEN "threw" ELSE "made"
  /\ UNCHANGED <<accepted, local, remote>>

\* bind() and getsockname(), if a port is asked for; if not, the system takes one
\* and nobody asks which.
Bind ==
  /\ at = "made" /\ at' = "bound"
  /\ port' \in (IF asked \in Ports THEN {asked} ELSE Ports)
  /\ bindPort' = IF asked = "none" THEN bindPort ELSE port'
  /\ UNCHANGED <<accepted, asked, remote, opens>>

(* Mutant of setCachedPeerAddress: the names made of it are kept. *)
CacheAlone(p) == cachedPeer' = p /\ UNCHANGED <<peerAddr, peerHost>>

\* The names made of the former address are cleared.
setCachedPeerAddress(p) == cachedPeer' = p /\ peerAddr' = 0 /\ peerHost' = 0

\* connect(), and the end of open().
Connect ==
  /\ at = "bound" /\ at' = "opened"
  /\ \E p \in Peers : peer' = p /\ setCachedPeerAddress(p)
  /\ UNCHANGED <<accepted, local, opens>>

\* close(): the names are kept.
Closed == peer' = 0 /\ cachedPeer' = 0 /\ port' = "none" /\ UNCHANGED <<peerAddr, peerHost>>

\* A step of open() fails: the next address is tried, or open() throws.
Fail ==
  /\ at \in {"made", "bound"} /\ Closed /\ at' \in {"made", "threw"}
  /\ UNCHANGED <<accepted, asked, bindPort, opens>>

Close ==
  /\ Between /\ Closed /\ at' = "closed"
  /\ UNCHANGED <<accepted, asked, bindPort, opens>>

-----------------------------------------------------------------------------
(* The peer's names: made of the cached address; without one, of what       *)
(* getpeername() says, which is cached but kept in a variable that is out   *)
(* of scope when the name is made of it.  All that a build can lay over its *)
(* storage is the two arrays declared behind it, which are zeroed: then     *)
(* getnameinfo() meets no family and the name comes out empty.              *)

PeerAddress ==
  /\ at = "opened" /\ peerAddr = 0
  /\ IF cachedPeer # 0 THEN peerAddr' = cachedPeer /\ UNCHANGED <<cachedPeer, peerHost>>
     ELSE cachedPeer' = peer /\ peerAddr' \in {0, peer} /\ peerHost' = 0
  /\ UNCHANGED <<accepted, at, local, peer, opens>>

PeerHost ==
  /\ at = "opened" /\ peerHost = 0
  /\ IF cachedPeer # 0 THEN peerHost' = cachedPeer /\ UNCHANGED <<cachedPeer, peerAddr>>
     ELSE cachedPeer' = peer /\ peerHost' \in {0, peer} /\ peerAddr' = 0
  /\ UNCHANGED <<accepted, at, local, peer, opens>>

Next == SetLocalAddr \/ Open \/ Bind \/ Connect \/ Fail \/ Close \/ PeerAddress \/ PeerHost

Spec == Init /\ [][Next]_vars

-----------------------------------------------------------------------------
(* Properties                                                              *)

(* However often it was opened and closed, asked for other ports and led to
   other addresses of its host: an open socket names its present peer, and the
   port it got if it was asked for one. *)
NamesAreCurrent ==
  at = "opened" =>
    /\ asked # "none" => bindPort = port
    /\ {cachedPeer, peerAddr, peerHost} \subseteq {0, peer}
=============================================================================
