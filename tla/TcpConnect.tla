----------------------------- MODULE TcpConnect ------------------------------
(***************************************************************************)
(* TcpSocket::open() and close() (src/net/TCPSocket.cpp): every address    *)
(* getaddrinfo() gives is tried in turn - a socket, its options, a local   *)
(* port if one is asked for, connect() with or without a timeout - until   *)
(* one connects; an exception closes the socket and the next is tried, or  *)
(* leaves open() at the last.                                              *)
(***************************************************************************)
EXTENDS Integers, Sequences

CONSTANTS
  Families,     \* address families
  MaxAddrs,     \* bound: addresses a host has
  MaxLocals,    \* bound: local addresses
  MaxRetries,   \* _maxRetries
  MaxOpens      \* bound: how often open() is called

Lists(n) == UNION {[1..k -> Families] : k \in 1..n}

VARIABLES
  addrs,     \* the families of the server's addresses, in order
  locals,    \* those of the local addresses
  asks,      \* a local port is set
  timed,     \* _connTimeout > 0
  at,        \* where open() is, or "closed", "opened", "threw" between calls
  i, j,      \* the address, the local address that is tried
  retries,   \* in bind()
  made,      \* the sockets the process has made and not closed, as their numbers
  sock,      \* _sock, 0 for HD_INVALID_SOCKET
  os,        \* what the system knows of _sock: family, bound, connected, blocking,
             \* and whether it refused to make it blocking again
  cached,    \* _cachedPeerAddr: the address it names, 0 for AF_UNSPEC
  opens      \* how often open() has been called

vars == <<addrs, locals, asks, timed, at, i, j, retries, made, sock, os, cached, opens>>
config == <<addrs, locals, asks, timed>>

Fresh == [family |-> CHOOSE f \in Families : TRUE, bound |-> FALSE, connected |-> FALSE, blocking |-> TRUE,
          refused |-> FALSE]

Init ==
  /\ addrs \in Lists(MaxAddrs) /\ locals \in Lists(MaxLocals)
  /\ asks \in BOOLEAN /\ timed \in BOOLEAN
  /\ at = "closed" /\ i = 0 /\ j = 0 /\ retries = 0 /\ opens = 0
  /\ made = {} /\ sock = 0 /\ os = Fresh /\ cached = 0

-----------------------------------------------------------------------------
Between == at \in {"closed", "opened", "threw"}

(* open() is called: it throws at once if the port is invalid or the host
   unknown (i then stands behind the addresses), or tries the first address. *)
Open ==
  /\ Between /\ opens < MaxOpens /\ sock = 0
  /\ opens' = opens + 1
  /\ \/ at' = "socket" /\ i' = 1
     \/ at' = "threw" /\ i' = Len(addrs)
  /\ UNCHANGED <<config, j, retries, made, sock, os, cached>>

(* open() of an open socket does nothing. *)
OpenAgain == Between /\ sock # 0 /\ at' = "opened" /\ UNCHANGED <<config, i, j, retries, made, sock, os, cached, opens>>

(* ::socket() and the options before bind. *)
MakeSocket ==
  /\ at = "socket"
  /\ LET n == CHOOSE n \in 1..(MaxAddrs * MaxOpens + 1) : n \notin made
     IN sock' = n /\ made' = made \cup {n}
  /\ os' = [Fresh EXCEPT !.family = addrs[i]]
  /\ j' = 1 /\ retries' = 0
  /\ at' = IF asks THEN "local" ELSE "mode"
  /\ UNCHANGED <<config, i, cached, opens>>

(* The next local address of the socket's family; with none left that could
   be bound, open() throws. *)
NextLocal ==
  /\ at = "local"
  /\ IF j > Len(locals) THEN at' = "failed" /\ UNCHANGED <<j, retries>>
     ELSE IF locals[j] # addrs[i] THEN j' = j + 1 /\ UNCHANGED <<at, retries>>
     ELSE at' = "bind" /\ retries' = 0 /\ UNCHANGED j
  /\ UNCHANGED <<config, i, made, sock, os, cached, opens>>

(* bind(): ::bind() up to _maxRetries times. *)
Bind ==
  /\ at = "bind"
  /\ \/ os' = [os EXCEPT !.bound = TRUE] /\ at' = "mode" /\ UNCHANGED <<j, retries>>
     \/ retries + 1 < MaxRetries /\ retries' = retries + 1 /\ UNCHANGED <<at, j, os>>
     \/ /\ retries + 1 >= MaxRetries
        /\ IF j = Len(locals) THEN at' = "failed" /\ UNCHANGED j ELSE at' = "local" /\ j' = j + 1
        /\ UNCHANGED <<os, retries>>
  /\ UNCHANGED <<config, i, made, sock, cached, opens>>

(* fcntl(): non-blocking for a connect() with a timeout. *)
SetMode ==
  /\ at = "mode" /\ at' = "connect"
  /\ os' = [os EXCEPT !.blocking = ~timed]
  /\ UNCHANGED <<config, i, j, retries, made, sock, cached, opens>>

Connect ==
  /\ at = "connect"
  /\ \/ at' = "done" /\ os' = [os EXCEPT !.connected = TRUE]
     \/ timed /\ at' = "poll" /\ UNCHANGED os
  /\ UNCHANGED <<config, i, j, retries, made, sock, cached, opens>>

(* poll() says the socket is writable and SO_ERROR is 0. *)
Connected ==
  /\ at = "poll" /\ at' = "done"
  /\ os' = [os EXCEPT !.connected = TRUE]
  /\ UNCHANGED <<config, i, j, retries, made, sock, cached, opens>>

(* The socket is made blocking again, open() returns: nobody looks at whether
   that fcntl() worked. *)
Finish ==
  /\ at = "done" /\ at' = "opened"
  /\ \/ os' = [os EXCEPT !.blocking = TRUE]
     \/ os' = [os EXCEPT !.refused = TRUE]
  /\ cached' = i
  /\ UNCHANGED <<config, i, j, retries, made, sock, opens>>

(* A system call fails, connect() is refused or times out. *)
Fail ==
  /\ at \in {"socket", "local", "mode", "connect", "poll", "done"}
  /\ at' = "failed"
  /\ UNCHANGED <<config, i, j, retries, made, sock, os, cached, opens>>

(* Mutant of Closed: the descriptor is forgotten. *)
ForgetSocket == made' = made /\ sock' = 0 /\ cached' = 0 /\ os' = Fresh

(* close() *)
Closed == made' = made \ {sock} /\ sock' = 0 /\ cached' = 0 /\ os' = Fresh

(* Mutant of Catch: the exception leaves open() at the first address. *)
CatchFirst ==
  /\ at = "failed" /\ Closed
  /\ at' = "threw" /\ UNCHANGED i
  /\ UNCHANGED <<config, j, retries, opens>>

(* The exception of one address: close(), and the next or out. *)
Catch ==
  /\ at = "failed" /\ Closed
  /\ IF i = Len(addrs) THEN at' = "threw" /\ UNCHANGED i ELSE at' = "socket" /\ i' = i + 1
  /\ UNCHANGED <<config, j, retries, opens>>

Close ==
  /\ Between /\ at' = "closed" /\ Closed
  /\ UNCHANGED <<config, i, j, retries, opens>>

Work == MakeSocket \/ NextLocal \/ Bind \/ SetMode \/ Connect \/ Connected \/ Finish \/ Fail \/ Catch
Next == Open \/ OpenAgain \/ Close \/ Work

Spec == Init /\ [][Next]_vars

-----------------------------------------------------------------------------
(* Properties                                                              *)

TypeOK ==
  /\ at \in {"closed", "opened", "threw", "socket", "local", "bind", "mode", "connect", "poll", "done", "failed"}
  /\ i \in 0..Len(addrs) /\ j \in 0..(Len(locals) + 1)
  /\ retries \in 0..MaxRetries /\ cached \in 0..Len(addrs)
  /\ os.family \in Families

(* Whatever address failed where, the only socket the process has open is
   _sock, and the peer's address is known only while there is one. *)
NothingLeaks == made = {sock} \ {0} /\ (cached # 0 => sock # 0)

(* open() that returned has a connected socket, blocking unless the system
   refused that, bound to a local port if one was asked for. *)
ReturnMeansConnected ==
  at = "opened" => /\ sock # 0 /\ os.connected /\ (os.blocking \/ os.refused)
                   /\ asks => os.bound
                   /\ os.family = addrs[cached]

(* open() throws only after the last address was tried too. *)
ThrowMeansAllTried == at = "threw" => i = Len(addrs) /\ sock = 0
=============================================================================
