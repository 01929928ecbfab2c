------------------------------- MODULE Sockets -------------------------------
(***************************************************************************)
(* One socket of src/net and the thread that owns it: a TcpSocket          *)
(* (TcpConnect) or a UdpSocket (UdpSocket) is opened, used and closed, and *)
(* while it is open read() is called (SocketRead, which this module        *)
(* extends: its `at', `retries', `elapsed' and `total' are the locals of   *)
(* the call under way).  A UDP read() that returns has taken a datagram.   *)
(* The options of such a socket (SocketOptions) and the names it has for   *)
(* its ends (SocketNames) decide nothing of that: a behaviour looks at     *)
(* them instead, with an open() that may fail at any of its steps.         *)
(* Several threads on one socket are the matter of Device and TcpServer.   *)
(***************************************************************************)
EXTENDS SocketRead, OptionKinds, Sequences

CONSTANTS
  Families,    \* address families
  MaxAddrs,    \* bound: addresses of a remote host
  MaxLocals,   \* bound: local addresses
  Peers,       \* who may send datagrams to the socket
  Remote,      \* the one a UDP socket was told of
  MaxOpens,    \* bound: how often open() is called
  Ports, Hosts                     \* SocketNames

ASSUME SocketsAssumption ==
  /\ {MaxAddrs, MaxLocals, MaxOpens} \subseteq Nat
  /\ Remote \in Peers /\ "none" \notin Families \cup Peers

VARIABLES
  proto,                           \* "tcp" or "udp", "options" or "names"
  where, i, j, made, sock, os,     \* what both kinds of socket keep
  locals, cached, opens,
  addrs, asks, timed, tries,       \* TcpSocket alone
  remotes, filter, got, sentTo,    \* UdpSocket alone
  kind, stage, field, kernel,      \* SocketOptions
  todo, untold,
  accepted, step, asked, bindPort, \* SocketNames
  port, peer, cachedPeer,
  peerAddr, peerHost, tried

tcpVars == <<addrs, asks, timed, tries>>
udpVars == <<remotes, filter, got, sentTo>>
readVars == <<at, retries, elapsed, total>>
socketVars == <<where, i, j, made, sock, os, locals, cached, opens>>
optionVars == <<kind, stage, field, kernel, todo, untold>>
nameVars == <<accepted, step, asked, bindPort, port, peer, cachedPeer, peerAddr, peerHost, tried>>
allVars == <<proto, timeout, readVars, socketVars, tcpVars, udpVars, optionVars, nameVars>>

Tcp == INSTANCE TcpConnect WITH at <- where, retries <- tries
Udp == INSTANCE UdpSocket WITH at <- where
Opt == INSTANCE SocketOptions WITH at <- stage
Names == INSTANCE SocketNames WITH at <- step, opens <- tried, Peers <- Hosts

(* No read() is under way: its locals are gone. *)
Idle == at = "returned" /\ retries = 0 /\ elapsed = 0 /\ total = 0

NoTcp == addrs = <<>> /\ asks = FALSE /\ timed = FALSE /\ tries = 0
NoUdp == remotes = <<>> /\ filter = FALSE /\ got = Udp!None /\ sentTo = Udp!NoAddress
NoSocket ==
  /\ where = "closed" /\ i = 0 /\ j = 0 /\ made = {} /\ sock = 0 /\ os = [family |-> Udp!None, bound |-> FALSE]
  /\ locals = <<>> /\ cached = 0 /\ opens = 0

(* A TcpSocket as it is made, whose options or names nobody looks at. *)
NoOptions ==
  /\ kind = "tcp" /\ stage = "closed" /\ todo = {} /\ untold = {} /\ kernel = Opt!New
  /\ field = [o \in Opt!Options |-> IF o \in {"linger", "noDelay"} THEN 1 ELSE 0]
NoNames ==
  /\ accepted = FALSE /\ step = "closed" /\ tried = 0
  /\ asked = "none" /\ bindPort = "none" /\ port = "none"
  /\ peer = 0 /\ cachedPeer = 0 /\ peerAddr = 0 /\ peerHost = 0

SocketsInit ==
  /\ Idle /\ timeout \in Timeouts
  /\ \/ proto = "tcp" /\ Tcp!Init /\ NoUdp /\ NoOptions /\ NoNames
     \/ proto = "udp" /\ Udp!Init /\ NoTcp /\ NoOptions /\ NoNames
     \/ proto = "options" /\ Opt!Init /\ NoSocket /\ NoTcp /\ NoUdp /\ NoNames
     \/ proto = "names" /\ Names!Init /\ NoSocket /\ NoTcp /\ NoUdp /\ NoOptions

-----------------------------------------------------------------------------
(* Anything but read(), by the thread whose read() has returned. *)
Use ==
  /\ at # "waiting" /\ UNCHANGED timeout
  /\ at' = "returned" /\ retries' = 0 /\ elapsed' = 0 /\ total' = 0

UseTcp == Use /\ proto = "tcp" /\ Tcp!Next /\ UNCHANGED <<udpVars, optionVars, nameVars>>
UseUdp == Use /\ proto = "udp" /\ Udp!NextButRead /\ UNCHANGED <<tcpVars, optionVars, nameVars>>

(* read() is called. *)
CallRead ==
  /\ at # "waiting" /\ where = "opened"
  /\ at' = "waiting" /\ retries' = 0 /\ elapsed' = 0 /\ total' = 0
  /\ UNCHANGED <<timeout, socketVars, tcpVars, udpVars, optionVars, nameVars>>

(* read() waits, tries again or throws. *)
GoOn ==
  /\ Tick \/ Exhausted \/ TimesOut \/ Interrupted \/ Fails
  /\ UNCHANGED <<socketVars, tcpVars, udpVars, optionVars, nameVars>>

(* recv() or recvfrom() has got something. *)
ReadReturns ==
  /\ Return /\ UNCHANGED <<tcpVars, optionVars, nameVars>>
  /\ \/ proto = "tcp" /\ UNCHANGED <<socketVars, udpVars>>
     \/ proto = "udp" /\ \E p \in Peers : Udp!Read(p)

SetOptions ==
  /\ proto = "options" /\ Opt!Next
  /\ UNCHANGED <<timeout, readVars, socketVars, tcpVars, udpVars, nameVars>>

AskNames ==
  /\ proto = "names" /\ Names!Next
  /\ UNCHANGED <<timeout, readVars, socketVars, tcpVars, udpVars, optionVars>>

SocketsNext ==
  (UseTcp \/ UseUdp \/ CallRead \/ GoOn \/ ReadReturns \/ SetOptions \/ AskNames) /\ UNCHANGED proto

SocketsSpec == SocketsInit /\ [][SocketsNext]_allVars

-----------------------------------------------------------------------------
(* Properties                                                              *)

(* Whichever address fails at whichever step of open(), the only socket the
   process has open is _sock, and one that is not open remembers no peer:
   the next open() starts anew.  (With the types of the variables.) *)
NothingLeaks ==
  CASE proto = "tcp" -> Tcp!TypeOK /\ Tcp!NothingLeaks
    [] proto = "udp" -> Udp!TypeOK /\ Udp!NothingLeaks /\ Udp!ClosedForgets
    [] OTHER -> TRUE

(* open() returns with a socket that can be used: connected and, unless the
   system refused the last fcntl(), blocking (TCP), of the peer's family, bound if there is a local port, and with the
   right names for its two ends; and it throws only when it has tried every
   address (TCP). *)
OpenIsUsable ==
  CASE proto = "tcp" -> Tcp!ReturnMeansConnected /\ Tcp!ThrowMeansAllTried
    [] proto = "udp" -> Udp!OpenMeansUsable
    [] proto = "names" -> Names!NamesAreCurrent
    [] OTHER -> TRUE

(* Whatever was set before open(), between two of them or since, and whichever
   call failed: an open socket has the options that its getters and members
   say, but for a switch that the system refused or was not told of. *)
OptionsHold == proto = "options" => Opt!TypeOK /\ Opt!OptionsHold

(* With a filter nothing is read from, or sent to, anyone but the remote,
   whatever was opened, read and written before; without one an answer goes
   to whoever was read last. *)
AnswerReachesAsker == [][proto = "udp" => Udp!FilterHolds' /\ Udp!AnswerGoesBack]_allVars
=============================================================================
