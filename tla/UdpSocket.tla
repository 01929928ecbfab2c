------------------------------ MODULE UdpSocket ------------------------------
(***************************************************************************)
(* UdpSocket (src/net/UDPSocket.cpp): open() with a remote address, a      *)
(* local port or both, and the datagrams that are read and written then.   *)
(* With a filter only the remote's datagrams are let through; without one  *)
(* the socket answers whoever was read last.                               *)
(***************************************************************************)
EXTENDS Integers, Sequences

CONSTANTS
  Families,    \* address families
  MaxAddrs,    \* bound: addresses of the remote host, and of the local one
  Peers,       \* who may send to the socket
  Remote,      \* the one the socket was told of
  MaxOpens     \* bound: how often open() is called

None == "none"
Lists == UNION {[1..k -> Families] : k \in 1..MaxAddrs}

VARIABLES
  remotes,   \* families of the remote host's addresses, <<>> if there is none
  locals,    \* families of the local addresses, <<>> without a local port
  filter,    \* _filter
  at,        \* where open() is, or "closed", "opened", "threw" between calls
  i, j,      \* the address that is tried
  made,      \* the sockets the process has open
  sock,      \* _sock
  os,        \* family and bound: what the system knows of _sock
  cached,    \* _cachedRemoteAddr: peer and family
  got,       \* who sent what read() returned last
  sentTo,    \* where write() sent last
  opens

vars == <<remotes, locals, filter, at, i, j, made, sock, os, cached, got, sentTo, opens>>
config == <<remotes, locals, filter>>
traffic == <<got, sentTo>>

NoAddress == [peer |-> None, family |-> None]

Init ==
  /\ remotes \in Lists \cup {<<>>} /\ locals \in Lists \cup {<<>>} /\ filter \in BOOLEAN
  /\ at = "closed" /\ i = 0 /\ j = 0 /\ opens = 0
  /\ made = {} /\ sock = 0 /\ os = [family |-> None, bound |-> FALSE]
  /\ cached = NoAddress /\ got = None /\ sentTo = NoAddress

-----------------------------------------------------------------------------
(* open() and close()                                                      *)

Between == at \in {"closed", "opened", "threw"}

(* setRemoteAddr(): only a socket that is not open takes it. *)
SetRemoteAddr ==
  /\ Between /\ sock = 0
  /\ filter' \in BOOLEAN /\ remotes' \in Lists
  /\ at' = "closed"
  /\ UNCHANGED <<locals, i, j, made, sock, os, cached, traffic, opens>>

(* open() is called; with a filter and no remote it throws. *)
Open ==
  /\ Between /\ sock = 0 /\ opens < MaxOpens /\ opens' = opens + 1
  /\ at' = IF remotes = <<>> THEN (IF filter THEN "threw" ELSE "local") ELSE "remote"
  /\ i' = 1 /\ j' = 1
  /\ UNCHANGED <<config, made, sock, os, cached, traffic>>

(* close() *)
Closed ==
  /\ made' = made \ {sock} /\ sock' = 0 /\ cached' = NoAddress
  /\ os' = [family |-> None, bound |-> FALSE]

(* create(): a socket of this family, unless there is one. *)
Create(family) ==
  IF sock # 0 THEN UNCHANGED <<sock, made, os>>
  ELSE LET n == CHOOSE n \in 1..(2 * MaxAddrs * MaxOpens + 1) : n \notin made
       IN sock' = n /\ made' = made \cup {n} /\ os' = [family |-> family, bound |-> FALSE]

(* The next address of the remote: the socket is made, or an option fails. *)
TryRemote ==
  /\ at = "remote"
  /\ \/ /\ Create(remotes[i])
        /\ cached' = [peer |-> Remote, family |-> remotes[i]]
        /\ at' = "local" /\ UNCHANGED i
     \/ /\ Closed
        /\ IF i = Len(remotes) THEN at' = "threw" /\ UNCHANGED i ELSE i' = i + 1 /\ UNCHANGED at
  /\ UNCHANGED <<config, j, traffic, opens>>

(* Without a local port open() is at its end. *)
NoLocal ==
  /\ at = "local" /\ locals = <<>>
  /\ IF sock # 0 THEN at' = "opened" /\ UNCHANGED <<made, sock, os, cached>>
     ELSE at' = "threw" /\ Closed
  /\ UNCHANGED <<config, i, j, traffic, opens>>

(* The next local address for the socket there is: one of its own family can
   be bound. *)
BindLocal ==
  /\ at = "local" /\ locals # <<>> /\ sock # 0
  /\ \/ /\ locals[j] = os.family
        /\ os' = [os EXCEPT !.bound = TRUE] /\ at' = "opened" /\ UNCHANGED <<j, made, sock, cached>>
     \/ IF j = Len(locals) THEN at' = "threw" /\ Closed /\ UNCHANGED j
        ELSE j' = j + 1 /\ UNCHANGED <<at, made, sock, os, cached>>
  /\ UNCHANGED <<config, i, traffic, opens>>

(* The next local address for a socket to be made: create(), then bind(). *)
CreateLocal ==
  /\ at = "local" /\ locals # <<>> /\ sock = 0
  /\ \/ Create(locals[j]) /\ at' = "bind" /\ UNCHANGED <<j, cached>>
     \/ /\ Closed
        /\ IF j = Len(locals) THEN at' = "threw" /\ UNCHANGED j ELSE j' = j + 1 /\ UNCHANGED at
  /\ UNCHANGED <<config, i, traffic, opens>>

(* bind() of the socket just made. *)
BindCreated ==
  /\ at = "bind"
  /\ \/ os' = [os EXCEPT !.bound = TRUE] /\ at' = "opened" /\ UNCHANGED <<j, made, sock, cached>>
     \/ /\ Closed
        /\ IF j = Len(locals) THEN at' = "threw" /\ UNCHANGED j ELSE j' = j + 1 /\ at' = "local"
  /\ UNCHANGED <<config, i, traffic, opens>>

(* getaddrinfo() fails. *)
Unknown ==
  /\ at \in {"remote", "local"} /\ (at = "local" => locals # <<>> /\ j = 1) /\ (at = "remote" => i = 1)
  /\ Closed /\ at' = "threw"
  /\ UNCHANGED <<config, i, j, traffic, opens>>

Close ==
  /\ Between /\ at' = "closed" /\ Closed
  /\ got' = None /\ sentTo' = NoAddress
  /\ UNCHANGED <<config, i, j, opens>>

-----------------------------------------------------------------------------
(* Datagrams                                                               *)

(* Mutant of Read: whom the socket talks to never changes. *)
ReadOnly(p) ==
  /\ at = "opened"
  /\ got' = IF filter /\ cached # NoAddress /\ p # cached.peer THEN None ELSE p
  /\ UNCHANGED <<config, at, i, j, made, sock, os, cached, sentTo, opens>>

(* read() of a datagram p has sent: dropped (it returns 0), or returned, and
   without a filter p is the remote from now on. *)
Read(p) ==
  /\ at = "opened"
  /\ IF filter
     THEN got' = (IF cached # NoAddress /\ p # cached.peer THEN None ELSE p) /\ UNCHANGED cached
     ELSE got' = p /\ cached' = [peer |-> p, family |-> os.family]
  /\ UNCHANGED <<config, at, i, j, made, sock, os, sentTo, opens>>

(* write(): nobody to send to is an exception, and changes nothing. *)
Write ==
  /\ at = "opened" /\ cached # NoAddress
  /\ sentTo' = cached
  /\ UNCHANGED <<config, at, i, j, made, sock, os, cached, got, opens>>

-----------------------------------------------------------------------------
Work == TryRemote \/ NoLocal \/ BindLocal \/ CreateLocal \/ BindCreated \/ Unknown
NextButRead == SetRemoteAddr \/ Open \/ Work \/ Close \/ Write
Next == NextButRead \/ \E p \in Peers : Read(p)

Spec == Init /\ [][Next]_vars

-----------------------------------------------------------------------------
(* Properties                                                              *)

TypeOK ==
  /\ at \in {"closed", "opened", "threw", "remote", "local", "bind"}
  /\ (at = "remote" => i \in 1..Len(remotes)) /\ (at \in {"local", "bind"} /\ locals # <<>> => j \in 1..Len(locals))
  /\ os.family \in Families \cup {None} /\ got \in Peers \cup {None}
  /\ cached.peer \in Peers \cup {None}

(* Whichever address fails, the process has no socket open but _sock. *)
NothingLeaks == made = {sock} \ {0}

(* open() that returned has a socket, bound if there is a local port, and
   what it sends can be sent: the remote's address is of its family. *)
OpenMeansUsable ==
  at = "opened" => /\ sock # 0
                   /\ locals # <<>> => os.bound
                   /\ remotes # <<>> => cached # NoAddress
                   /\ cached # NoAddress => cached.family = os.family

(* A socket that is not open has nobody to send to: open() starts anew after
   close() and after an exception. *)
ClosedForgets == Between /\ sock = 0 => cached = NoAddress

(* With a filter nothing is read from, or sent to, anyone but the remote. *)
FilterHolds ==
  filter /\ at = "opened" => {got, sentTo.peer} \subseteq {Remote, None}

(* Without a filter an answer goes to whoever was read last. *)
AnswerGoesBack == Write /\ ~filter /\ got # None => sentTo'.peer = got
=============================================================================
